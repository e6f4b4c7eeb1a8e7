--------------------------- MODULE AccountsProofs ---------------------------
(***************************************************************************)
(* What holds of accounts, for any number of accounts, requests, resets    *)
(* and tokens: first when requests that write do not overlap, where the    *)
(* invariant ties every copy a request holds to the committed row and      *)
(* every token to the version that was current when it was minted; then    *)
(* however they overlap.  Last, that Accounts implements AtomicAccounts    *)
(* when they do not overlap: every step of a request is, as AtomicAccounts *)
(* sees it, one whole operation or nothing.                                *)
(***************************************************************************)
EXTENDS Accounts, FiniteSetTheorems, TLAPS

\* s is the account, or a token for it, as it was at s.version: as long as the
\* version is the same, so are the role and the password.
Behind(id, s) ==
    /\ Exists(id)
    /\ s.version <= rows[id].version
    /\ s.version = rows[id].version =>
         s.role = rows[id].role /\ s.password = rows[id].password

\* A reset token that can still set a password, once.
Unspent(t) == Live(t) /\ consumed[t] = 0 /\ Exists(resets[t].owner)

Owned(t, id) == resets[t] # Absent /\ resets[t].owner = id

CopyOK(h) ==
    /\ Exists(h.acct) /\ h.seen = rows[h.acct]
    /\ \/ h.new.version = h.seen.version + 1 /\ "version" \in h.cols
       \/ h.cols = {}
    /\ h.reset # Absent => Unspent(h.reset) /\ resets[h.reset].owner = h.acct

\* What a request may hold.
HeldOK(h) ==
    /\ h.op = "login" => Behind(h.acct, h.seen)
    /\ h.op = "change" => Exists(h.acct)
    /\ h.op = "save" => CopyOK(h)
    /\ h.op = "confirm" => Unspent(h.reset)
    /\ h.op = "mark" => /\ Exists(h.acct)
                        /\ \A t \in h.snapshot : Owned(t, h.acct)
                        /\ \A t \in Reset : Live(t) /\ resets[t].owner = h.acct => t \in h.snapshot
    /\ h.op = "store" => /\ Exists(h.acct)
                         /\ \A t \in h.marked : Owned(t, h.acct)
                         /\ \A t \in Reset : Live(t) /\ resets[t].owner = h.acct => t \in h.marked

TokensBehind == \A tok \in tokens : Behind(tok.id, tok)

HandsOK == \A r \in Request : HeldOK(req[r])

\* No account is in the hands of two requests.
Solitude ==
    \A q, r \in Request : q # r =>
      \A id \in Id : ~(Works(req[q], id) /\ Works(req[r], id))

ResetsOK ==
    \A t \in Reset :
      /\ resets[t] # Absent => Exists(resets[t].owner)
      /\ consumed[t] <= 1
      /\ consumed[t] # 0 => resets[t] # Absent /\ resets[t].used

\* No account has two reset tokens that could both set its password.
OneLiveReset ==
    \A t, u \in Reset :
      Live(t) /\ Live(u) /\ resets[t].owner = resets[u].owner => t = u

AccountsInv ==
    /\ TypeOK
    /\ TokensBehind
    /\ HandsOK
    /\ Solitude
    /\ ResetsOK
    /\ OneLiveReset

-----------------------------------------------------------------------------
\* What a request has in hand, by kind.
LEMMA Shapes ==
    ASSUME NEW h \in Held
    PROVE  /\ h.op = "login" => h.acct \in Id /\ h.seen \in Row
           /\ h.op = "change" => h.acct \in Id
           /\ h.op = "create" => h.email \in Email
           /\ h.op = "save" => /\ h.acct \in Id /\ h.seen \in Row /\ h.new \in Row
                               /\ h.cols \in SUBSET Columns /\ h.reset \in Reset \cup {Absent}
           /\ h.op = "mark" => h.acct \in Id /\ h.snapshot \in SUBSET Reset
           /\ h.op = "store" => h.acct \in Id /\ h.marked \in SUBSET Reset
           /\ h.op = "confirm" => h.reset \in Reset
<1>1. CASE h = Idle
  BY <1>1 DEF Idle
<1>2. CASE h \in [op : {"login"}, acct : Id, seen : Row]
  BY <1>2
<1>3. CASE h \in [op : {"change"}, acct : Id]
  BY <1>3
<1>4. CASE h \in [op : {"admin"}]
  BY <1>4
<1>5. CASE h \in [op : {"create"}, email : Email]
  BY <1>5
<1>6. CASE h \in [op : {"save"}, acct : Id, seen : Row, new : Row,
                  cols : SUBSET Columns, reset : Reset \cup {Absent}]
  BY <1>6
<1>7. CASE h \in [op : {"mark"}, acct : Id, snapshot : SUBSET Reset]
  BY <1>7
<1>8. CASE h \in [op : {"store"}, acct : Id, marked : SUBSET Reset]
  BY <1>8
<1>9. CASE h \in [op : {"confirm"}, reset : Reset]
  BY <1>9
<1> QED BY <1>1, <1>2, <1>3, <1>4, <1>5, <1>6, <1>7, <1>8, <1>9 DEF Held

\* The edits of a row.
LEMMA PasswordEdit ==
    ASSUME NEW row \in Row, NEW pw \in Password
    PROVE  /\ Bump([row EXCEPT !.password = pw]) \in Row
           /\ Bump([row EXCEPT !.password = pw]).version = row.version + 1
<1> DEFINE edited == [row EXCEPT !.password = pw]
<1>1. edited \in Row /\ edited.version = row.version
  BY DEF Row
<1>2. Bump(edited) \in Row /\ Bump(edited).version = row.version + 1
  <2> HIDE DEF edited
  <2> QED BY <1>1 DEF Bump, Row
<1> QED BY <1>2

LEMMA PatchEdit ==
    ASSUME NEW row \in Row, NEW role \in Role, NEW active \in BOOLEAN
    PROVE  /\ Bump([row EXCEPT !.role = role, !.active = active]) \in Row
           /\ Bump([row EXCEPT !.role = role, !.active = active]).version = row.version + 1
<1> DEFINE some == [row EXCEPT !.role = role]
           both == [some EXCEPT !.active = active]
<1>1. some \in Row /\ some.version = row.version
  BY DEF Row
<1>2. both \in Row /\ both.version = row.version
  <2> HIDE DEF some
  <2> QED BY <1>1 DEF Row
<1>3. Bump(both) \in Row /\ Bump(both).version = row.version + 1
  <2> HIDE DEF both
  <2> QED BY <1>2 DEF Bump, Row
<1> QED BY <1>3

\* A request that only takes something else in hand keeps the invariant, if
\* what it takes is in order and nobody else works on the account.
LEMMA HandChanges ==
    ASSUME AccountsInv, NEW r \in Request, NEW h \in Held, HeldOK(h),
           \A q \in Request \ {r} : \A id \in Id : ~(Works(h, id) /\ Works(req[q], id)),
           Goes(r, h), UNCHANGED <<rows, resets, tokens, consumed>>
    PROVE  AccountsInv'
<1>1. TypeOK'
  BY DEF AccountsInv, TypeOK, Goes
<1>2. TokensBehind'
  BY DEF AccountsInv, TokensBehind, Behind, Exists
<1>3. ASSUME NEW g, HeldOK(g) PROVE HeldOK(g)'
  BY <1>3 DEF HeldOK, CopyOK, Behind, Exists, Unspent, Owned, Live
<1>4. HandsOK'
  <2>1. \A q \in Request : req'[q] = IF q = r THEN h ELSE req[q]
    BY DEF Goes, AccountsInv, TypeOK
  <2> QED BY <2>1, <1>3 DEF AccountsInv, HandsOK
<1>5. ASSUME NEW g, NEW id PROVE Works(g, id)' <=> Works(g, id)
  BY DEF Works
<1>6. Solitude'
  <2>1. \A q \in Request : req'[q] = IF q = r THEN h ELSE req[q]
    BY DEF Goes, AccountsInv, TypeOK
  <2> QED BY <2>1, <1>5 DEF AccountsInv, Solitude
<1>7. ResetsOK'
  BY DEF AccountsInv, ResetsOK, Exists
<1>8. OneLiveReset'
  BY DEF AccountsInv, OneLiveReset, Live
<1> QED BY <1>1, <1>2, <1>4, <1>6, <1>7, <1>8 DEF AccountsInv

LEMMA InitInv == Init => AccountsInv
<1> SUFFICES ASSUME Init PROVE AccountsInv
  OBVIOUS
<1> USE AccountsConstantsOK
<1>1. TypeOK
  BY DEF Init, TypeOK, Held
<1>2. \A r \in Request : req[r].op = "idle"
  BY DEF Init, Idle
<1>3. \A t \in Reset : resets[t] = Absent /\ consumed[t] = 0
  BY DEF Init
<1>4. HandsOK
  BY <1>2 DEF HandsOK, HeldOK
<1>5. Solitude
  BY <1>2 DEF Solitude, Works
<1>6. ResetsOK /\ OneLiveReset
  BY <1>3 DEF ResetsOK, OneLiveReset, Live
<1> QED BY <1>1, <1>4, <1>5, <1>6 DEF AccountsInv, TokensBehind, Init

-----------------------------------------------------------------------------
(* The steps that write nothing. *)

LEMMA GivesUp ==
    ASSUME AccountsInv, NEW r \in Request, Goes(r, Idle),
           UNCHANGED <<rows, resets, tokens, consumed>>
    PROVE  AccountsInv'
<1>1. Idle \in Held /\ HeldOK(Idle) /\ \A id : ~Works(Idle, id)
  BY DEF Held, Idle, HeldOK, Works
<1> QED BY <1>1, HandChanges

LEMMA LoginReads ==
    ASSUME AccountsInv, NEW r \in Request, NEW id \in Id, LoginRead(r, id)
    PROVE  AccountsInv'
<1> DEFINE h == [op |-> "login", acct |-> id, seen |-> rows[id]]
<1>1. rows[id] \in Row
  BY DEF LoginRead, Exists, AccountsInv, TypeOK
<1>2. h \in Held /\ HeldOK(h) /\ \A i : ~Works(h, i)
  BY <1>1 DEF LoginRead, Held, HeldOK, Works, Behind, Exists, Row
<1>3. Goes(r, h) /\ UNCHANGED <<rows, resets, tokens, consumed>>
  BY DEF LoginRead
<1> QED BY <1>2, <1>3, HandChanges

LEMMA Authenticates ==
    ASSUME AccountsInv, NEW r \in Request, NEW tok \in tokens,
           ChangeEnter(r, tok) \/ AdminEnter(r, tok)
    PROVE  AccountsInv'
<1>1. CASE ChangeEnter(r, tok)
  <2> DEFINE h == [op |-> "change", acct |-> tok.id]
  <2>1. h \in Held /\ HeldOK(h) /\ \A i : ~Works(h, i)
    BY <1>1 DEF ChangeEnter, Accepted, Held, HeldOK, Works, AccountsInv, TypeOK, Token
  <2> QED BY <1>1, <2>1, HandChanges DEF ChangeEnter
<1>2. CASE AdminEnter(r, tok)
  <2> DEFINE h == [op |-> "admin"]
  <2>1. h \in Held /\ HeldOK(h) /\ \A i : ~Works(h, i)
    BY DEF Held, HeldOK, Works
  <2> QED BY <1>2, <2>1, HandChanges DEF AdminEnter
<1> QED BY <1>1, <1>2

LEMMA Assigns ==
    ASSUME AccountsInv, NEW r \in Request, NEW id \in Id, Exists(id),
           \A q \in Request \ {r} : ~Works(req[q], id),
           NEW new \in Row, NEW cols \in SUBSET Columns,
           NEW t \in Reset \cup {Absent},
           \/ new.version = rows[id].version + 1 /\ "version" \in cols
           \/ cols = {},
           t # Absent => Unspent(t) /\ resets[t].owner = id,
           Assign(r, id, new, cols, t),
           UNCHANGED <<rows, resets, tokens, consumed>>
    PROVE  AccountsInv'
<1> DEFINE h == [op |-> "save", acct |-> id, seen |-> rows[id], new |-> new,
                 cols |-> cols, reset |-> t]
<1>1. rows[id] \in Row
  BY DEF Exists, AccountsInv, TypeOK
<1>2. h \in Held
  BY <1>1 DEF Held
<1>3. HeldOK(h)
  BY DEF HeldOK, CopyOK
<1>4. \A i : Works(h, i) => i = id
  BY DEF Works
<1>5. Goes(r, h)
  BY DEF Assign
<1> QED BY <1>2, <1>3, <1>4, <1>5, HandChanges

LEMMA Modifies ==
    ASSUME AccountsInv, ~Overlap, NEW r \in Request,
           \/ \E pw \in Password : ChangePassword(r, pw) \/ ConfirmLoad(r, pw)
           \/ \E id \in Id, role \in Role, active \in BOOLEAN : AdminPatch(r, id, role, active)
           \/ \E id \in Id, pw \in Password : AdminReset(r, id, pw)
    PROVE  AccountsInv'
<1>1. \A id \in Id : Exists(id) => rows[id] \in Row
  BY DEF AccountsInv, TypeOK, Exists
<1>2. req[r] \in Held /\ HeldOK(req[r])
  BY DEF AccountsInv, TypeOK, HandsOK
<1>3. ASSUME NEW pw \in Password, ChangePassword(r, pw) PROVE AccountsInv'
  <2> DEFINE id == req[r].acct
             new == Bump([rows[id] EXCEPT !.password = pw])
  <2>1. id \in Id /\ Exists(id)
    BY <1>2, <1>3, Shapes DEF ChangePassword, HeldOK
  <2>2. new \in Row /\ new.version = rows[id].version + 1
    BY <2>1, <1>1, PasswordEdit
  <2>3. \A q \in Request \ {r} : ~Works(req[q], id)
    BY <1>3 DEF ChangePassword, Alone
  <2>4. Assign(r, id, new, {"password", "version"}, Absent)
        /\ UNCHANGED <<rows, resets, tokens, consumed>>
    BY <1>3 DEF ChangePassword
  <2> HIDE DEF id, new
  <2> QED BY <2>1, <2>2, <2>3, <2>4, Assigns DEF Columns
<1>4. ASSUME NEW pw \in Password, ConfirmLoad(r, pw) PROVE AccountsInv'
  <2> DEFINE t == req[r].reset
             id == resets[t].owner
             new == Bump([rows[id] EXCEPT !.password = pw])
  <2>1. t \in Reset /\ Unspent(t)
    BY <1>2, <1>4, Shapes DEF ConfirmLoad, HeldOK
  <2>2. id \in Id /\ Exists(id)
    BY <2>1 DEF Unspent, Live, AccountsInv, TypeOK, ResetRow
  <2>3. new \in Row /\ new.version = rows[id].version + 1
    BY <2>2, <1>1, PasswordEdit
  <2>4. Works(req[r], id)
    BY <1>4 DEF Works, ConfirmLoad
  <2>5. \A q \in Request \ {r} : ~Works(req[q], id)
    BY <2>2, <2>4 DEF AccountsInv, Solitude
  <2>6. Assign(r, id, new, {"password", "version"}, t)
        /\ UNCHANGED <<rows, resets, tokens, consumed>>
    BY <1>4 DEF ConfirmLoad
  <2>7. resets[t].owner = id
    OBVIOUS
  <2> HIDE DEF t, id, new
  <2> QED BY <2>1, <2>2, <2>3, <2>5, <2>6, <2>7, Assigns DEF Columns
<1>5. ASSUME NEW id \in Id, NEW role \in Role, NEW active \in BOOLEAN,
             AdminPatch(r, id, role, active)
      PROVE  AccountsInv'
  <2> DEFINE changed == {c \in {"role", "active"} :
                           \/ c = "role" /\ role # rows[id].role
                           \/ c = "active" /\ active # rows[id].active}
             new == Bump([rows[id] EXCEPT !.role = role, !.active = active])
  <2>1. Exists(id) /\ \A q \in Request \ {r} : ~Works(req[q], id)
    BY <1>5 DEF AdminPatch, Alone
  <2>2. \/ Assign(r, id, rows[id], {}, Absent)
        \/ Assign(r, id, new, changed \cup {"version"}, Absent)
    BY <1>5 DEF AdminPatch
  <2>3. UNCHANGED <<rows, resets, tokens, consumed>>
    BY <1>5 DEF AdminPatch
  <2>4. changed \cup {"version"} \in SUBSET Columns
    BY DEF Columns
  <2>5. rows[id] \in Row /\ new \in Row /\ new.version = rows[id].version + 1
    BY <2>1, <1>1, PatchEdit
  <2> HIDE DEF changed, new
  <2> QED BY <2>1, <2>2, <2>3, <2>4, <2>5, Assigns
<1>6. ASSUME NEW id \in Id, NEW pw \in Password, AdminReset(r, id, pw) PROVE AccountsInv'
  <2> DEFINE new == Bump([rows[id] EXCEPT !.password = pw])
  <2>1. Exists(id) /\ \A q \in Request \ {r} : ~Works(req[q], id)
    BY <1>6 DEF AdminReset, Alone
  <2>2. new \in Row /\ new.version = rows[id].version + 1
    BY <2>1, <1>1, PasswordEdit
  <2>3. Assign(r, id, new, {"password", "version"}, Absent)
        /\ UNCHANGED <<rows, resets, tokens, consumed>>
    BY <1>6 DEF AdminReset
  <2> HIDE DEF new
  <2> QED BY <2>1, <2>2, <2>3, Assigns DEF Columns
<1> QED BY <1>3, <1>4, <1>5, <1>6

LEMMA ResetReads ==
    ASSUME AccountsInv, ~Overlap, NEW r \in Request,
           \/ \E id \in Id : IssueStart(r, id)
           \/ IssueMark(r)
           \/ \E t \in Reset : ConfirmFind(r, t)
    PROVE  AccountsInv'
<1>1. ASSUME NEW id \in Id, IssueStart(r, id) PROVE AccountsInv'
  <2> DEFINE h == [op |-> "mark", acct |-> id,
                   snapshot |-> {t \in Reset : Live(t) /\ resets[t].owner = id}]
  <2>1. h \in Held /\ HeldOK(h)
    BY <1>1 DEF IssueStart, Held, HeldOK, Owned, Live
  <2>2. \A i : Works(h, i) => i = id
    BY DEF Works
  <2>3. \A q \in Request \ {r} : ~Works(req[q], id)
    BY <1>1 DEF IssueStart, Alone
  <2>4. Goes(r, h) /\ UNCHANGED <<rows, resets, tokens, consumed>>
    BY <1>1 DEF IssueStart
  <2> QED BY <2>1, <2>2, <2>3, <2>4, HandChanges
<1>2. ASSUME IssueMark(r) PROVE AccountsInv'
  <2> DEFINE h == [op |-> "store", acct |-> req[r].acct,
                   marked |-> Markable(req[r].snapshot)]
  <2>1. req[r] \in Held /\ HeldOK(req[r]) /\ req[r].op = "mark"
    BY <1>2 DEF AccountsInv, TypeOK, HandsOK, IssueMark
  <2>2. req[r].acct \in Id /\ req[r].snapshot \in SUBSET Reset
    BY <2>1, Shapes
  <2>3. h \in Held /\ HeldOK(h)
    BY <2>1, <2>2 DEF Held, HeldOK, Markable
  <2>4. \A i : Works(h, i) => Works(req[r], i)
    BY <2>1 DEF Works
  <2>5. Goes(r, h) /\ UNCHANGED <<rows, resets, tokens, consumed>>
    BY <1>2 DEF IssueMark
  <2>6. \A q \in Request \ {r} : \A i \in Id : ~(Works(h, i) /\ Works(req[q], i))
    BY <2>4 DEF AccountsInv, Solitude
  <2> HIDE DEF h
  <2> QED BY <2>3, <2>5, <2>6, HandChanges
<1>3. ASSUME NEW t \in Reset, ConfirmFind(r, t) PROVE AccountsInv'
  <2> DEFINE h == [op |-> "confirm", reset |-> t]
  <2>1. Unspent(t)
    BY <1>3 DEF ConfirmFind, Unspent, Live, AccountsInv, ResetsOK
  <2>2. h \in Held /\ HeldOK(h)
    BY <2>1 DEF Held, HeldOK
  <2>3. \A i : Works(h, i) => i = resets[t].owner
    BY DEF Works
  <2>4. \A q \in Request \ {r} : ~Works(req[q], resets[t].owner)
    BY <1>3 DEF ConfirmFind, Alone
  <2>5. Goes(r, h) /\ UNCHANGED <<rows, resets, tokens, consumed>>
    BY <1>3 DEF ConfirmFind
  <2> QED BY <2>2, <2>3, <2>4, <2>5, HandChanges
<1> QED BY <1>1, <1>2, <1>3

LEMMA CreateReads ==
    ASSUME AccountsInv, NEW r \in Request, NEW email \in Email, CreateCheck(r, email)
    PROVE  AccountsInv'
<1> DEFINE h == [op |-> "create", email |-> email]
<1>1. h \in Held /\ HeldOK(h) /\ \A i : ~Works(h, i)
  BY DEF Held, HeldOK, Works
<1> QED BY <1>1, HandChanges DEF CreateCheck

-----------------------------------------------------------------------------
(* The steps that write. *)

\* A session is opened.
LEMMA Sessions ==
    ASSUME AccountsInv, NEW r \in Request,
           LoginMint(r)
    PROVE  AccountsInv'
<1>1. ASSUME NEW g, HeldOK(g), UNCHANGED <<rows, resets, consumed>> PROVE HeldOK(g)'
  BY <1>1 DEF HeldOK, CopyOK, Behind, Exists, Unspent, Owned, Live
<1>2. CASE LoginMint(r)
  <2> DEFINE h == req[r]
             tok == [id |-> h.acct, version |-> h.seen.version,
                     role |-> h.seen.role, password |-> h.seen.password]
  <2>1. h \in Held /\ HeldOK(h) /\ h.op = "login"
    BY <1>2 DEF AccountsInv, TypeOK, HandsOK, LoginMint
  <2>2. tok \in Token
    BY <2>1, Shapes DEF Token, Row
  <2>3. Behind(tok.id, tok)
    BY <2>1 DEF HeldOK, Behind
  <2>4. tokens' = tokens \cup {tok} /\ Goes(r, Idle)
        /\ UNCHANGED <<rows, resets, consumed>>
    BY <1>2 DEF LoginMint
  <2>5. Idle \in Held /\ HeldOK(Idle) /\ \A i : ~Works(Idle, i)
    BY DEF Held, Idle, HeldOK, Works
  <2>6. \A q \in Request : req'[q] = IF q = r THEN Idle ELSE req[q]
    BY <2>4 DEF Goes, AccountsInv, TypeOK
  <2>7. TypeOK'
    BY <2>2, <2>4, <2>5 DEF AccountsInv, TypeOK, Goes
  <2>8. TokensBehind'
    <3> HIDE DEF tok
    <3> QED BY <2>3, <2>4 DEF AccountsInv, TokensBehind, Behind, Exists
  <2>9. HandsOK'
    BY <1>1, <2>4, <2>5, <2>6 DEF AccountsInv, HandsOK
  <2>10. Solitude'
    BY <2>4, <2>5, <2>6 DEF AccountsInv, Solitude, Works
  <2>11. ResetsOK' /\ OneLiveReset'
    BY <2>4 DEF AccountsInv, ResetsOK, OneLiveReset, Live, Exists
  <2> QED BY <2>7, <2>8, <2>9, <2>10, <2>11 DEF AccountsInv
<1> QED BY <1>2

\* A row that is written keeps what was true of the account it stands for.
LEMMA WrittenRow ==
    ASSUME AccountsInv, NEW r \in Request, req[r].op = "save"
    PROVE  /\ rows[req[r].acct] \in Row
           /\ Written(rows[req[r].acct], req[r]) \in Row
           /\ \/ Written(rows[req[r].acct], req[r]) = rows[req[r].acct]
              \/ Written(rows[req[r].acct], req[r]).version = rows[req[r].acct].version + 1
<1> DEFINE h == req[r]
           row == rows[h.acct]
           w == Written(row, h)
<1>1. h \in Held /\ CopyOK(h)
  BY DEF AccountsInv, TypeOK, HandsOK, HeldOK
<1>2. /\ h.acct \in Id /\ h.seen \in Row /\ h.new \in Row
      /\ h.cols \in SUBSET Columns
  BY <1>1, Shapes
<1>3. row \in Row /\ row = h.seen
  BY <1>1, <1>2 DEF CopyOK, Exists, AccountsInv, TypeOK
<1>4. w \in Row
  BY <1>2, <1>3 DEF Written, Row
<1>5. h.cols = {} => w = row
  BY <1>3 DEF Written, Row
<1>6. h.new.version = h.seen.version + 1 /\ "version" \in h.cols
        => w.version = row.version + 1
  BY <1>3 DEF Written
<1>7. w = row \/ w.version = row.version + 1
  BY <1>1, <1>5, <1>6 DEF CopyOK
<1> QED BY <1>3, <1>4, <1>7

\* A version that grows leaves behind what was behind.
LEMMA StaysBehind ==
    ASSUME TypeOK, Absent \notin Row, NEW id \in Id, NEW s, s.version \in Nat, Behind(id, s),
           rows'[id] \in Row, rows'[id] = rows[id] \/ rows'[id].version = rows[id].version + 1
    PROVE  Behind(id, s)'
<1>1. rows[id] \in Row
  BY DEF Behind, Exists, TypeOK
<1>2. Exists(id)'
  BY DEF Exists
<1>3. CASE rows'[id] = rows[id]
  BY <1>2, <1>3 DEF Behind
<1>4. CASE rows'[id].version = rows[id].version + 1
  BY <1>1, <1>2, <1>4 DEF Behind, Row
<1> QED BY <1>3, <1>4

LEMMA Saves ==
    ASSUME AccountsInv, NEW r \in Request, Save(r)
    PROVE  AccountsInv'
<1> USE AccountsConstantsOK
<1> DEFINE h == req[r]
           a == h.acct
           t == h.reset
<1>1. h \in Held /\ h.op = "save" /\ CopyOK(h)
  BY DEF Save, AccountsInv, TypeOK, HandsOK, HeldOK
<1>2. a \in Id /\ t \in Reset \cup {Absent} /\ Exists(a)
  BY <1>1, Shapes DEF CopyOK
<1>3. t # Absent => t \in Reset /\ Unspent(t) /\ resets[t].owner = a
  BY <1>1, <1>2 DEF CopyOK
<1>4. /\ rows'[a] \in Row
      /\ rows'[a] = rows[a] \/ rows'[a].version = rows[a].version + 1
      /\ \A id \in Id \ {a} : rows'[id] = rows[id]
      /\ rows' \in [Id -> Row \cup {Absent}]
  <2>1. rows' = [rows EXCEPT ![a] = Written(rows[a], h)]
    BY DEF Save
  <2>2. /\ Written(rows[a], h) \in Row
        /\ Written(rows[a], h) = rows[a] \/ Written(rows[a], h).version = rows[a].version + 1
    BY <1>1, WrittenRow
  <2> QED BY <1>2, <2>1, <2>2 DEF AccountsInv, TypeOK
<1>5. \A id \in Id : Exists(id)' <=> Exists(id)
  BY <1>2, <1>4 DEF Exists
<1>6. resets' = IF t = Absent THEN resets ELSE [resets EXCEPT ![t].used = TRUE]
  BY DEF Save, Spend
<1>7. consumed' = IF t = Absent THEN consumed ELSE [consumed EXCEPT ![t] = @ + 1]
  BY DEF Save
<1>8. /\ resets' \in [Reset -> ResetRow \cup {Absent}]
      /\ \A u \in Reset : u # t => resets'[u] = resets[u] /\ consumed'[u] = consumed[u]
      /\ \A u \in Reset : resets'[u] # Absent <=> resets[u] # Absent
      /\ \A u \in Reset : resets[u] # Absent => resets'[u].owner = resets[u].owner
      /\ t # Absent => resets'[t].used /\ consumed'[t] = 1
      /\ consumed' \in [Reset -> Nat]
  <2>1. resets \in [Reset -> ResetRow \cup {Absent}] /\ consumed \in [Reset -> Nat]
    BY DEF AccountsInv, TypeOK
  <2>2. CASE t = Absent
    BY <1>2, <1>6, <1>7, <2>1, <2>2
  <2>3. CASE t # Absent
    <3>1. t \in Reset /\ resets[t] # Absent /\ resets[t] \in ResetRow /\ consumed[t] = 0
      BY <1>3, <2>1, <2>3 DEF Unspent, Live
    <3> DEFINE spent == [resets[t] EXCEPT !.used = TRUE]
    <3>2. resets' = [resets EXCEPT ![t] = spent] /\ consumed' = [consumed EXCEPT ![t] = 1]
      BY <1>6, <1>7, <2>1, <2>3, <3>1
    <3>3. spent \in ResetRow /\ spent.owner = resets[t].owner /\ spent.used
      BY <3>1 DEF ResetRow
    <3>4. spent # Absent
      BY <3>3, <3>1 DEF Unspent
    <3> HIDE DEF spent
    <3> QED BY <2>1, <3>1, <3>2, <3>3, <3>4
  <2> QED BY <2>2, <2>3
<1>9. \A u \in Reset : Live(u)' => Live(u)
  BY <1>2, <1>8 DEF Live
<1>10. /\ req' = [req EXCEPT ![r] = Idle] /\ UNCHANGED tokens
       /\ \A q \in Request : req'[q] = IF q = r THEN Idle ELSE req[q]
  BY DEF Save, Goes, AccountsInv, TypeOK
<1>11. Idle \in Held /\ HeldOK(Idle)' /\ \A id : ~Works(Idle, id)'
  BY DEF Held, Idle, HeldOK, Works
<1>12. TypeOK'
  BY <1>4, <1>8, <1>10, <1>11 DEF AccountsInv, TypeOK
<1>13. ASSUME NEW id \in Id, NEW s, s.version \in Nat, Behind(id, s) PROVE Behind(id, s)'
  <2>1. rows'[id] \in Row /\ (rows'[id] = rows[id] \/ rows'[id].version = rows[id].version + 1)
    BY <1>4, <1>13 DEF Behind, Exists, AccountsInv, TypeOK
  <2> QED BY <1>13, <2>1, StaysBehind DEF AccountsInv
<1>14. TokensBehind'
  BY <1>10, <1>13 DEF AccountsInv, TypeOK, TokensBehind, Token
<1>15. ASSUME NEW g \in Held, HeldOK(g), ~Works(g, a) PROVE HeldOK(g)'
  <2>1. HeldOK(g) /\ ~Works(g, a)
    BY <1>15
  <2>2. ASSUME NEW u \in Reset, Unspent(u), resets[u].owner # a PROVE Unspent(u)'
    BY <1>3, <1>5, <1>8, <2>2 DEF Unspent, Live, AccountsInv, TypeOK, ResetRow
  <2>3. \A u \in Reset : \A id : Owned(u, id) => Owned(u, id)'
    BY <1>8 DEF Owned
  <2>4. \A u \in Reset : \A id : Live(u)' /\ resets'[u].owner = id => Live(u) /\ resets[u].owner = id
    BY <1>8, <1>9 DEF Live
  <2>5. g.op = "login" => Behind(g.acct, g.seen)'
    BY <1>13, <2>1, Shapes DEF HeldOK, Row
  <2>6. g.op = "change" => Exists(g.acct)'
    BY <1>5, <2>1, Shapes DEF HeldOK
  <2>7. g.op = "save" => CopyOK(g)'
    <3> SUFFICES ASSUME g.op = "save" PROVE CopyOK(g)'
      OBVIOUS
    <3>1. g.acct \in Id \ {a} /\ g.reset \in Reset \cup {Absent} /\ CopyOK(g)
      BY <2>1, Shapes DEF HeldOK, Works
    <3>2. g.reset # Absent => Unspent(g.reset)' /\ resets'[g.reset].owner = g.acct
      BY <1>8, <2>2, <3>1 DEF CopyOK, Unspent, Live
    <3> QED BY <1>4, <1>5, <3>1, <3>2 DEF CopyOK
  <2>8. g.op = "confirm" => Unspent(g.reset)'
    BY <2>1, <2>2, Shapes DEF HeldOK, Works
  <2>9. g.op = "mark" => HeldOK(g)'
    BY <1>5, <2>1, <2>3, <2>4, Shapes DEF HeldOK
  <2>10. g.op = "store" => HeldOK(g)'
    BY <1>5, <2>1, <2>3, <2>4, Shapes DEF HeldOK
  <2> QED BY <2>5, <2>6, <2>7, <2>8, <2>9, <2>10 DEF HeldOK
<1>16. HandsOK'
  <2>1. \A q \in Request \ {r} : req[q] \in Held /\ HeldOK(req[q]) /\ ~Works(req[q], a)
    BY <1>1, <1>2 DEF AccountsInv, TypeOK, HandsOK, Solitude, Works
  <2> QED BY <1>10, <1>11, <1>15, <2>1 DEF HandsOK
<1>17. Solitude'
  <2>1. \A q \in Request \ {r}, id \in Id : Works(req[q], id)' => Works(req[q], id)
    <3> SUFFICES ASSUME NEW q \in Request \ {r}, NEW id \in Id, Works(req[q], id)'
                 PROVE  Works(req[q], id)
      OBVIOUS
    <3>1. req[q] \in Held /\ HeldOK(req[q]) /\ req'[q] = req[q]
      BY <1>10 DEF AccountsInv, TypeOK, HandsOK
    <3>2. req[q].op = "confirm" => resets'[req[q].reset].owner = resets[req[q].reset].owner
      BY <1>8, <3>1, Shapes DEF HeldOK, Unspent, Live
    <3> QED BY <3>1, <3>2 DEF Works
  <2> QED BY <1>10, <1>11, <2>1 DEF AccountsInv, Solitude
<1>18. ResetsOK'
  <2> SUFFICES ASSUME NEW u \in Reset
               PROVE  /\ resets'[u] # Absent => Exists(resets[u].owner)'
                      /\ consumed'[u] <= 1
                      /\ consumed'[u] # 0 => resets'[u] # Absent /\ resets'[u].used
    BY DEF ResetsOK
  <2>1. resets'[u] # Absent => Exists(resets[u].owner)'
    BY <1>5, <1>8 DEF AccountsInv, ResetsOK, TypeOK, ResetRow
  <2>2. CASE u = t
    BY <1>2, <1>3, <1>8, <2>1, <2>2 DEF Unspent, Live
  <2>3. CASE u # t
    BY <1>8, <2>1, <2>3 DEF AccountsInv, ResetsOK
  <2> QED BY <2>2, <2>3
<1>19. OneLiveReset'
  BY <1>8, <1>9 DEF AccountsInv, OneLiveReset, Live
<1> QED BY <1>12, <1>14, <1>16, <1>17, <1>18, <1>19 DEF AccountsInv

LEMMA Creates ==
    ASSUME AccountsInv, NEW r \in Request, NEW id \in Id, NEW pw \in Password,
           NEW role \in Role, CreateStore(r, id, pw, role)
    PROVE  AccountsInv'
<1> USE AccountsConstantsOK
<1> DEFINE row == [email |-> req[r].email, password |-> pw, role |-> role,
                   active |-> TRUE, version |-> 0]
<1>1. req[r] \in Held /\ req[r].op = "create"
  BY DEF CreateStore, AccountsInv, TypeOK
<1>2. row \in Row
  BY <1>1, Shapes DEF Row
<1>3. /\ ~Exists(id) /\ rows' = [rows EXCEPT ![id] = row]
      /\ UNCHANGED <<resets, tokens, consumed>>
  BY DEF CreateStore
<1>4. /\ rows' \in [Id -> Row \cup {Absent}]
      /\ \A i \in Id : Exists(i) => rows'[i] = rows[i] /\ Exists(i)'
  <2> HIDE DEF row
  <2> QED BY <1>2, <1>3 DEF AccountsInv, TypeOK, Exists
<1>5. /\ req' = [req EXCEPT ![r] = Idle]
      /\ \A q \in Request : req'[q] = IF q = r THEN Idle ELSE req[q]
  BY DEF CreateStore, Goes, AccountsInv, TypeOK
<1>6. Idle \in Held /\ HeldOK(Idle)' /\ \A i : ~Works(Idle, i)'
  BY DEF Held, Idle, HeldOK, Works
<1>7. TypeOK'
  BY <1>3, <1>4, <1>5, <1>6 DEF AccountsInv, TypeOK
<1>8. \A i \in Id : \A s : Behind(i, s) => Behind(i, s)'
  BY <1>4 DEF Behind
<1>9. TokensBehind'
  BY <1>3, <1>8 DEF AccountsInv, TypeOK, TokensBehind, Token
<1>10. ASSUME NEW g \in Held, HeldOK(g) PROVE HeldOK(g)'
  <2>1. \A u \in Reset : Unspent(u) => Unspent(u)'
    BY <1>3, <1>4 DEF Unspent, Live, AccountsInv, TypeOK, ResetRow
  <2>2. g.op = "login" => Behind(g.acct, g.seen)'
    BY <1>8, <1>10, Shapes DEF HeldOK
  <2>3. g.op = "save" => CopyOK(g)'
    BY <1>3, <1>4, <1>10, <2>1, Shapes DEF HeldOK, CopyOK
  <2>4. g.op = "confirm" => Unspent(g.reset)'
    BY <1>10, <2>1, Shapes DEF HeldOK
  <2>5. g.op \in {"change", "mark", "store"} => Exists(g.acct)'
    BY <1>4, <1>10, Shapes DEF HeldOK
  <2> QED BY <1>3, <1>10, <2>2, <2>3, <2>4, <2>5 DEF HeldOK, Owned, Live
<1>11. HandsOK'
  BY <1>5, <1>6, <1>10 DEF AccountsInv, TypeOK, HandsOK
<1>12. Solitude'
  BY <1>3, <1>5, <1>6 DEF AccountsInv, Solitude, Works
<1>13. ResetsOK'
  BY <1>3, <1>4 DEF AccountsInv, ResetsOK, TypeOK, ResetRow
<1>14. OneLiveReset'
  BY <1>3 DEF AccountsInv, OneLiveReset, Live
<1> QED BY <1>7, <1>9, <1>11, <1>12, <1>13, <1>14 DEF AccountsInv

\* Storing a reset retires every other one of the account.
LEMMA Issues ==
    ASSUME AccountsInv, NEW r \in Request, NEW t \in Reset, IssueStore(r, t)
    PROVE  AccountsInv'
<1> USE AccountsConstantsOK
<1> DEFINE h == req[r]
           a == h.acct
<1>1. h \in Held /\ h.op = "store" /\ HeldOK(h)
  BY DEF IssueStore, AccountsInv, TypeOK, HandsOK
<1>2. a \in Id /\ h.marked \in SUBSET Reset /\ Exists(a)
  BY <1>1, Shapes DEF HeldOK
<1>3. /\ \A u \in h.marked : Owned(u, a)
      /\ \A u \in Reset : Live(u) /\ resets[u].owner = a => u \in h.marked
  BY <1>1 DEF HeldOK
<1>4. resets[t] = Absent /\ UNCHANGED <<rows, tokens, consumed>>
  BY DEF IssueStore
<1>5. resets' = [u \in Reset |->
         IF u = t THEN [owner |-> a, used |-> FALSE, expired |-> FALSE]
         ELSE IF u \in h.marked THEN [resets[u] EXCEPT !.used = TRUE]
         ELSE resets[u]]
  BY DEF IssueStore
<1>6. resets \in [Reset -> ResetRow \cup {Absent}]
  BY DEF AccountsInv, TypeOK
<1>7. ASSUME NEW u \in h.marked
      PROVE  /\ resets'[u] \in ResetRow /\ resets'[u].used
             /\ resets'[u].owner = a /\ resets'[u].owner = resets[u].owner
  <2>1. u \in Reset /\ u # t /\ resets[u] \in ResetRow /\ resets[u].owner = a
    BY <1>2, <1>3, <1>4, <1>6 DEF Owned
  <2>2. resets'[u] = [resets[u] EXCEPT !.used = TRUE]
    BY <1>5, <1>7, <2>1
  <2> QED BY <2>1, <2>2 DEF ResetRow
<1>8. resets'[t] \in ResetRow /\ resets'[t].owner = a
  BY <1>2, <1>5 DEF ResetRow
<1>9. \A u \in Reset : u # t /\ u \notin h.marked => resets'[u] = resets[u]
  BY <1>5
<1>10. resets' \in [Reset -> ResetRow \cup {Absent}]
  <2>1. \A u \in Reset : resets'[u] \in ResetRow \cup {Absent}
    BY <1>6, <1>7, <1>8, <1>9
  <2>2. resets' = [u \in Reset |-> resets'[u]]
    BY <1>5
  <2> QED BY <2>1, <2>2
<1>11. /\ req' = [req EXCEPT ![r] = Idle]
       /\ \A q \in Request : req'[q] = IF q = r THEN Idle ELSE req[q]
  BY DEF IssueStore, Goes, AccountsInv, TypeOK
<1>12. Idle \in Held /\ HeldOK(Idle)' /\ \A i : ~Works(Idle, i)'
  BY DEF Held, Idle, HeldOK, Works
<1>13. TypeOK'
  BY <1>4, <1>10, <1>11, <1>12 DEF AccountsInv, TypeOK
<1>14. TokensBehind'
  BY <1>4 DEF AccountsInv, TokensBehind, Behind, Exists
<1>15. \A u \in Reset : resets[u] # Absent =>
         /\ u # t /\ resets'[u] # Absent /\ resets'[u].owner = resets[u].owner
         /\ resets[u].owner # a => resets'[u] = resets[u]
  BY <1>3, <1>4, <1>6, <1>7, <1>9 DEF Owned
<1>16. \A u \in Reset : \A i : i # a /\ Live(u)' /\ resets'[u].owner = i
         => Live(u) /\ resets[u].owner = i
  BY <1>7, <1>8, <1>9 DEF Live
<1>17. ASSUME NEW g \in Held, HeldOK(g), ~Works(g, a) PROVE HeldOK(g)'
  <2>1. ASSUME NEW u \in Reset, Unspent(u), resets[u].owner # a PROVE Unspent(u)'
    BY <1>4, <1>15, <2>1 DEF Unspent, Live, Exists
  <2>2. \A u \in Reset : \A i : Owned(u, i) => Owned(u, i)'
    BY <1>15 DEF Owned
  <2>3. g.op = "login" => Behind(g.acct, g.seen)'
    BY <1>4, <1>17 DEF HeldOK, Behind, Exists
  <2>4. g.op \in {"change", "mark", "store"} => Exists(g.acct)'
    BY <1>4, <1>17 DEF HeldOK, Exists
  <2>5. g.op = "save" => CopyOK(g)'
    <3> SUFFICES ASSUME g.op = "save" PROVE CopyOK(g)'
      OBVIOUS
    <3>1. g.acct \in Id \ {a} /\ g.reset \in Reset \cup {Absent} /\ CopyOK(g)
      BY <1>17, Shapes DEF HeldOK, Works
    <3>2. g.reset # Absent => Unspent(g.reset)' /\ resets'[g.reset].owner = g.acct
      BY <1>15, <2>1, <3>1 DEF CopyOK, Unspent, Live
    <3> QED BY <1>4, <3>1, <3>2 DEF CopyOK, Exists
  <2>6. g.op = "confirm" => Unspent(g.reset)'
    BY <1>17, <2>1, Shapes DEF HeldOK, Works
  <2>7. g.op = "mark" => HeldOK(g)'
    BY <1>16, <1>17, <2>2, <2>4, Shapes DEF HeldOK, Works
  <2>8. g.op = "store" => HeldOK(g)'
    BY <1>16, <1>17, <2>2, <2>4, Shapes DEF HeldOK, Works
  <2> QED BY <2>3, <2>4, <2>5, <2>6, <2>7, <2>8 DEF HeldOK
<1>18. HandsOK'
  <2>1. \A q \in Request \ {r} : req[q] \in Held /\ HeldOK(req[q]) /\ ~Works(req[q], a)
    BY <1>1, <1>2 DEF AccountsInv, TypeOK, HandsOK, Solitude, Works
  <2> QED BY <1>11, <1>12, <1>17, <2>1 DEF HandsOK
<1>19. Solitude'
  <2> SUFFICES ASSUME NEW q \in Request \ {r}, NEW id \in Id, Works(req[q], id)'
               PROVE  Works(req[q], id)
    BY <1>11, <1>12 DEF AccountsInv, Solitude
  <2>1. req[q] \in Held /\ HeldOK(req[q]) /\ req'[q] = req[q]
    BY <1>11 DEF AccountsInv, TypeOK, HandsOK
  <2>2. req[q].op = "confirm" => resets'[req[q].reset].owner = resets[req[q].reset].owner
    BY <1>15, <2>1, Shapes DEF HeldOK, Unspent, Live
  <2> QED BY <2>1, <2>2 DEF Works
<1>20. ResetsOK'
  <2>1. ASSUME NEW u \in Reset, resets'[u] # Absent PROVE rows[resets'[u].owner] # Absent
    <3>1. CASE u = t
      BY <1>2, <1>4, <1>8, <3>1 DEF Exists
    <3>2. CASE u # t
      BY <1>2, <1>3, <1>4, <1>7, <1>9, <2>1, <3>2 DEF AccountsInv, ResetsOK, Owned, Exists
    <3> QED BY <3>1, <3>2
  <2>2. \A u \in Reset : consumed[u] # 0 => resets'[u] # Absent /\ resets'[u].used
    BY <1>7, <1>9, <1>15 DEF AccountsInv, ResetsOK
  <2> QED BY <1>4, <2>1, <2>2 DEF AccountsInv, ResetsOK, Exists
<1>21. OneLiveReset'
  <2> SUFFICES ASSUME NEW u \in Reset, NEW v \in Reset, Live(u)', Live(v)',
                      resets'[u].owner = resets'[v].owner
               PROVE  u = v
    BY DEF OneLiveReset
  <2>1. \A w \in Reset : Live(w)' /\ w # t => Live(w) /\ resets'[w] = resets[w] /\ resets[w].owner # a
    BY <1>3, <1>7, <1>9 DEF Live
  <2> QED BY <1>8, <2>1 DEF AccountsInv, OneLiveReset
<1> QED BY <1>13, <1>14, <1>18, <1>19, <1>20, <1>21 DEF AccountsInv

LEMMA Expires ==
    ASSUME AccountsInv, NEW t \in Reset, Expire(t)
    PROVE  AccountsInv'
<1> USE AccountsConstantsOK
<1> DEFINE late == [resets[t] EXCEPT !.expired = TRUE]
<1>1. /\ resets' = [resets EXCEPT ![t] = late]
      /\ UNCHANGED <<rows, tokens, consumed, req>>
      /\ resets \in [Reset -> ResetRow \cup {Absent}] /\ resets[t] \in ResetRow
  BY DEF Expire, Live, AccountsInv, TypeOK
<1>2. /\ late \in ResetRow /\ late.owner = resets[t].owner /\ late.used = resets[t].used
      /\ late # Absent /\ resets[t] # Absent
  <2>1. late \in ResetRow /\ late.owner = resets[t].owner /\ late.used = resets[t].used
    BY <1>1 DEF ResetRow
  <2> HIDE DEF late
  <2> QED BY <1>1, <2>1
<1> HIDE DEF late
<1>3. /\ resets' \in [Reset -> ResetRow \cup {Absent}]
      /\ \A u \in Reset : resets[u] # Absent <=> resets'[u] # Absent
      /\ \A u \in Reset : resets[u] # Absent => /\ resets'[u].owner = resets[u].owner
                                                /\ resets'[u].used = resets[u].used
  BY <1>1, <1>2
<1>4. TypeOK'
  BY <1>1, <1>3 DEF AccountsInv, TypeOK
<1>5. TokensBehind'
  BY <1>1 DEF AccountsInv, TokensBehind, Behind, Exists
<1>6. ASSUME NEW g \in Held, HeldOK(g) PROVE HeldOK(g)'
  <2>1. \A u \in Reset : (Live(u)' <=> Live(u)) /\ (Unspent(u) => Unspent(u)')
    BY <1>1, <1>3 DEF Unspent, Live, Exists
  <2>2. \A u \in Reset : \A i : Owned(u, i)' <=> Owned(u, i)
    BY <1>3 DEF Owned
  <2>3. g.op = "login" => Behind(g.acct, g.seen)'
    BY <1>1, <1>6 DEF HeldOK, Behind, Exists
  <2>4. g.op \in {"change", "mark", "store"} => Exists(g.acct)'
    BY <1>1, <1>6 DEF HeldOK, Exists
  <2>5. g.op = "save" => CopyOK(g)'
    BY <1>1, <1>3, <1>6, <2>1, Shapes DEF HeldOK, CopyOK, Exists, Unspent, Live
  <2>6. g.op = "confirm" => Unspent(g.reset)'
    BY <1>6, <2>1, Shapes DEF HeldOK
  <2>7. g.op = "mark" => HeldOK(g)'
    BY <1>3, <1>6, <2>1, <2>2, <2>4, Shapes DEF HeldOK, Live
  <2>8. g.op = "store" => HeldOK(g)'
    BY <1>3, <1>6, <2>1, <2>2, <2>4, Shapes DEF HeldOK, Live
  <2> QED BY <2>3, <2>4, <2>5, <2>6, <2>7, <2>8 DEF HeldOK
<1>7. HandsOK'
  BY <1>1, <1>6 DEF AccountsInv, TypeOK, HandsOK
<1>8. Solitude'
  <2> SUFFICES ASSUME NEW q \in Request, NEW id \in Id, Works(req[q], id)'
               PROVE  Works(req[q], id)
    BY <1>1 DEF AccountsInv, Solitude
  <2>1. req[q] \in Held /\ HeldOK(req[q]) /\ req' = req
    BY <1>1 DEF AccountsInv, TypeOK, HandsOK
  <2>2. req[q].op = "confirm" => resets'[req[q].reset].owner = resets[req[q].reset].owner
    BY <1>3, <2>1, Shapes DEF HeldOK, Unspent, Live
  <2> QED BY <2>1, <2>2 DEF Works
<1>9. ResetsOK'
  BY <1>1, <1>3 DEF AccountsInv, ResetsOK, Exists
<1>10. OneLiveReset'
  BY <1>3 DEF AccountsInv, OneLiveReset, Live
<1> QED BY <1>4, <1>5, <1>7, <1>8, <1>9, <1>10 DEF AccountsInv

\* Rows are written by commits only: of a copy or of a new account.
LEMMA Writers ==
    ASSUME Next, rows' # rows
    PROVE  \/ \E r \in Request : Save(r)
           \/ \E r \in Request, i \in Id, pw \in Password, role \in Role :
                CreateStore(r, i, pw, role)
<1>1. ASSUME NEW r \in Request, Arrive(r) PROVE rows' = rows
  BY <1>1 DEF Arrive, LoginRead, IssueStart, ChangeEnter, AdminEnter, ConfirmFind
<1>2. ASSUME NEW r \in Request, Resume(r), ~Save(r),
             ~\E i \in Id, pw \in Password, role \in Role : CreateStore(r, i, pw, role)
      PROVE  rows' = rows
  BY <1>2 DEF Resume, LoginMint, ChangePassword, ConfirmLoad, AdminPatch, AdminReset,
     CreateCheck, IssueMark, IssueStore
<1> QED BY <1>1, <1>2 DEF Next, Abandon, Expire, Quiet, vars

LEMMA StepInv ==
    ASSUME AccountsInv, ~Overlap, [Next]_vars
    PROVE  AccountsInv'
<1>1. CASE UNCHANGED vars
  BY <1>1 DEF vars, AccountsInv, TypeOK, TokensBehind, Behind, HandsOK, HeldOK, CopyOK,
     Unspent, Owned, Solitude, Works, ResetsOK, OneLiveReset, Live, Exists
<1>2. ASSUME NEW r \in Request, Arrive(r) PROVE AccountsInv'
  BY <1>2, LoginReads, ResetReads, Authenticates DEF Arrive
<1>3. ASSUME NEW r \in Request, Resume(r) PROVE AccountsInv'
  BY <1>3, Sessions, Modifies, CreateReads, Creates, Saves, ResetReads, Issues DEF Resume
<1>4. ASSUME NEW r \in Request, Abandon(r) PROVE AccountsInv'
  BY <1>4, GivesUp DEF Abandon
<1>5. ASSUME NEW t \in Reset, Expire(t) PROVE AccountsInv'
  BY <1>5, Expires
<1> QED BY <1>1, <1>2, <1>3, <1>4, <1>5 DEF Next, Quiet

-----------------------------------------------------------------------------
(* The theorems that need requests which write not to overlap on an account;  *)
(* v_sessions shows what is lost when they do.                                *)

\* Every copy a request holds is the committed row, and every token was minted
\* from a row at most as recent as the committed one.
THEOREM InvHolds == ASSUME ~Overlap PROVE Spec => []AccountsInv
<1>1. Init => AccountsInv
  BY InitInv
<1>2. AccountsInv /\ [Next]_vars => AccountsInv'
  BY StepInv
<1> QED BY <1>1, <1>2, PTL DEF Spec

\* Revocation is immediate: a token the API accepts carries the current role
\* and was obtained with the current password.
THEOREM SessionsRevoked == ASSUME ~Overlap PROVE Spec => []TokensAreCurrent
<1>1. AccountsInv => TokensAreCurrent
  BY DEF AccountsInv, TokensBehind, Behind, TokensAreCurrent, Accepted
<1> QED BY <1>1, InvHolds, PTL

-----------------------------------------------------------------------------
(* However requests overlap: rows are never deleted and addresses never       *)
(* change, so that the unique constraint is enough for the addresses; and a   *)
(* copy writes a column only if the request was asked to change it, however   *)
(* old the copy is.                                                           *)

\* The columns role and active are assigned only when they get another value.
Deliberate(h) ==
    /\ "role" \in h.cols => h.new.role # h.seen.role
    /\ "active" \in h.cols => h.new.active # h.seen.active

\* A copy that assigns anything has the version of what was read, plus one.
Raises(h) == h.cols # {} => "version" \in h.cols /\ h.new.version = h.seen.version + 1

\* What a request in flight refers to has been committed before.
Grounded(h) ==
    /\ h.op \in {"change", "save", "mark", "store"} => Exists(h.acct)
    /\ h.op = "confirm" => resets[h.reset] # Absent
    /\ h.op = "save" => /\ h.reset # Absent => resets[h.reset] # Absent
                        /\ Deliberate(h) /\ Raises(h)
    /\ h.op = "mark" => \A t \in h.snapshot : resets[t] # Absent
    /\ h.op = "store" => \A t \in h.marked : resets[t] # Absent

OwnersExist == \A t \in Reset : resets[t] # Absent => Exists(resets[t].owner)

OverlapInv ==
    /\ TypeOK
    /\ UniqueEmails
    /\ OwnersExist
    /\ \A r \in Request : Grounded(req[r])

-----------------------------------------------------------------------------
\* What is committed stays: a step that keeps rows and resets in place keeps
\* what every request refers to.
LEMMA StaysGrounded ==
    ASSUME NEW h \in Held, Grounded(h),
           \A id \in Id : Exists(id) => Exists(id)',
           \A t \in Reset : resets[t] # Absent => resets'[t] # Absent
    PROVE  Grounded(h)'
BY Shapes DEF Grounded, Deliberate, Raises

\* A request that only takes something else in hand.
LEMMA OverlapHand ==
    ASSUME OverlapInv, NEW r \in Request, NEW h \in Held, Grounded(h),
           Goes(r, h), UNCHANGED <<rows, resets, consumed>>, tokens' \subseteq Token
    PROVE  OverlapInv'
<1>1. TypeOK'
  BY DEF OverlapInv, TypeOK, Goes
<1>2. UniqueEmails' /\ OwnersExist'
  BY DEF OverlapInv, UniqueEmails, OwnersExist, Exists
<1>3. \A g : Grounded(g) => Grounded(g)'
  BY DEF Grounded, Deliberate, Raises, Exists
<1>4. \A q \in Request : Grounded(req[q])'
  BY <1>3 DEF OverlapInv, TypeOK, Goes
<1> QED BY <1>1, <1>2, <1>4 DEF OverlapInv

LEMMA OverlapInit == Init => OverlapInv
<1> SUFFICES ASSUME Init PROVE OverlapInv
  OBVIOUS
<1>1. TypeOK
  BY InitInv DEF AccountsInv
<1>2. UniqueEmails
  BY FoundersAreUnique DEF Init, UniqueEmails, Exists
<1>3. OwnersExist
  BY DEF Init, OwnersExist
<1>4. \A r \in Request : req[r].op = "idle"
  BY DEF Init, Idle
<1> QED BY <1>1, <1>2, <1>3, <1>4 DEF OverlapInv, Grounded

\* A copy that is taken of an account is grounded if the columns assigned are
\* those that differ.
LEMMA OverlapAssign ==
    ASSUME OverlapInv, NEW r \in Request, NEW id \in Id, Exists(id),
           NEW new \in Row, NEW cols \in SUBSET Columns, NEW t \in Reset \cup {Absent},
           "role" \in cols => new.role # rows[id].role,
           "active" \in cols => new.active # rows[id].active,
           cols # {} => "version" \in cols /\ new.version = rows[id].version + 1,
           t # Absent => resets[t] # Absent,
           Assign(r, id, new, cols, t), UNCHANGED <<rows, resets, tokens, consumed>>
    PROVE  OverlapInv'
<1> DEFINE h == [op |-> "save", acct |-> id, seen |-> rows[id], new |-> new,
                 cols |-> cols, reset |-> t]
<1>1. rows[id] \in Row /\ tokens' \subseteq Token
  BY DEF Exists, OverlapInv, TypeOK
<1>2. h \in Held
  BY <1>1 DEF Held
<1>3. Grounded(h)
  BY DEF Grounded, Deliberate, Raises
<1>4. Goes(r, h)
  BY DEF Assign
<1> QED BY <1>1, <1>2, <1>3, <1>4, OverlapHand

LEMMA OverlapPasswords ==
    ASSUME OverlapInv, NEW r \in Request, NEW id \in Id, Exists(id), NEW pw \in Password,
           NEW t \in Reset \cup {Absent}, t # Absent => resets[t] # Absent,
           Assign(r, id, Bump([rows[id] EXCEPT !.password = pw]), {"password", "version"}, t),
           UNCHANGED <<rows, resets, tokens, consumed>>
    PROVE  OverlapInv'
<1> DEFINE new == Bump([rows[id] EXCEPT !.password = pw])
<1>1. rows[id] \in Row
  BY DEF Exists, OverlapInv, TypeOK
<1>2. new \in Row /\ new.version = rows[id].version + 1
  BY <1>1, PasswordEdit
<1>3. {"password", "version"} \in SUBSET Columns
  BY DEF Columns
<1>4. Assign(r, id, new, {"password", "version"}, t)
  OBVIOUS
<1> HIDE DEF new
<1> QED BY <1>2, <1>3, <1>4, OverlapAssign

\* The copy after an administrator's patch, and what it differs in.
Patched(row, role, active) == Bump([row EXCEPT !.role = role, !.active = active])

LEMMA PatchValues ==
    ASSUME NEW row \in Row, NEW role, NEW active
    PROVE  Patched(row, role, active).role = role /\ Patched(row, role, active).active = active
<1> DEFINE some == [row EXCEPT !.role = role]
           both == [some EXCEPT !.active = active]
<1>1. DOMAIN row = {"email", "password", "role", "active", "version"}
  BY DEF Row
<1>2. DOMAIN some = DOMAIN row /\ some.role = role
  BY <1>1
<1>3. DOMAIN both = DOMAIN row /\ both.role = role /\ both.active = active
  <2> HIDE DEF some
  <2> QED BY <1>1, <1>2
<1>4. Bump(both).role = role /\ Bump(both).active = active
  <2> HIDE DEF both
  <2> QED BY <1>1, <1>3 DEF Bump
<1> QED BY <1>4 DEF Patched

LEMMA OverlapModifies ==
    ASSUME OverlapInv, NEW r \in Request,
           \/ \E pw \in Password : ChangePassword(r, pw) \/ ConfirmLoad(r, pw)
           \/ \E id \in Id, role \in Role, active \in BOOLEAN : AdminPatch(r, id, role, active)
           \/ \E id \in Id, pw \in Password : AdminReset(r, id, pw)
    PROVE  OverlapInv'
<1>1. req[r] \in Held /\ Grounded(req[r])
  BY DEF OverlapInv, TypeOK
<1>2. ASSUME NEW pw \in Password, ChangePassword(r, pw) PROVE OverlapInv'
  <2>1. req[r].acct \in Id /\ Exists(req[r].acct)
    BY <1>1, <1>2, Shapes DEF ChangePassword, Grounded
  <2> QED BY <1>2, <2>1, OverlapPasswords DEF ChangePassword
<1>3. ASSUME NEW pw \in Password, ConfirmLoad(r, pw) PROVE OverlapInv'
  <2> DEFINE t == req[r].reset
             id == resets[t].owner
  <2>1. t \in Reset /\ resets[t] # Absent
    BY <1>1, <1>3, Shapes DEF ConfirmLoad, Grounded
  <2>2. id \in Id /\ Exists(id)
    BY <2>1 DEF OverlapInv, TypeOK, OwnersExist, ResetRow
  <2>3. Assign(r, id, Bump([rows[id] EXCEPT !.password = pw]), {"password", "version"}, t)
        /\ UNCHANGED <<rows, resets, tokens, consumed>>
    BY <1>3 DEF ConfirmLoad
  <2> HIDE DEF t, id
  <2> QED BY <2>1, <2>2, <2>3, OverlapPasswords
<1>4. ASSUME NEW id \in Id, NEW role \in Role, NEW active \in BOOLEAN,
             AdminPatch(r, id, role, active)
      PROVE  OverlapInv'
  <2> DEFINE changed == {c \in {"role", "active"} :
                           \/ c = "role" /\ role # rows[id].role
                           \/ c = "active" /\ active # rows[id].active}
             cols == changed \cup {"version"}
             new == Patched(rows[id], role, active)
  <2>1. Exists(id) /\ UNCHANGED <<rows, resets, tokens, consumed>>
    BY <1>4 DEF AdminPatch
  <2>2. \/ Assign(r, id, rows[id], {}, Absent)
        \/ Assign(r, id, new, cols, Absent)
    BY <1>4 DEF AdminPatch, Patched
  <2>3. rows[id] \in Row
    BY <2>1 DEF Exists, OverlapInv, TypeOK
  <2>4. new \in Row /\ new.version = rows[id].version + 1
    BY <2>3, PatchEdit DEF Patched
  <2>5. new.role = role /\ new.active = active
    BY <2>3, PatchValues
  <2>6. /\ cols \in SUBSET Columns
        /\ "role" \in cols => role # rows[id].role
        /\ "active" \in cols => active # rows[id].active
        /\ "version" \in cols
    BY DEF Columns
  <2> HIDE DEF cols, new
  <2>7. CASE Assign(r, id, rows[id], {}, Absent)
    BY <2>1, <2>3, <2>7, OverlapAssign
  <2>8. CASE Assign(r, id, new, cols, Absent)
    BY <2>1, <2>4, <2>5, <2>6, <2>8, OverlapAssign
  <2> QED BY <2>2, <2>7, <2>8
<1>5. ASSUME NEW id \in Id, NEW pw \in Password, AdminReset(r, id, pw) PROVE OverlapInv'
  BY <1>5, OverlapPasswords DEF AdminReset
<1> QED BY <1>2, <1>3, <1>4, <1>5

\* A row that is written keeps its address and its type.
LEMMA WrittenTyped ==
    ASSUME NEW row \in Row, NEW h \in Held, h.op = "save"
    PROVE  Written(row, h) \in Row /\ Written(row, h).email = row.email
BY Shapes DEF Written, Row

LEMMA OverlapSaves ==
    ASSUME OverlapInv, NEW r \in Request, Save(r)
    PROVE  OverlapInv'
<1> USE AccountsConstantsOK
<1> DEFINE h == req[r]
           a == h.acct
           t == h.reset
           w == Written(rows[a], h)
<1>1. h \in Held /\ h.op = "save" /\ Grounded(h)
  BY DEF Save, OverlapInv, TypeOK
<1>2. a \in Id /\ t \in Reset \cup {Absent} /\ Exists(a) /\ (t # Absent => resets[t] # Absent)
  BY <1>1, Shapes DEF Grounded
<1>3. rows[a] \in Row
  BY <1>2 DEF OverlapInv, TypeOK, Exists
<1>4. w \in Row /\ w.email = rows[a].email
  BY <1>1, <1>3, WrittenTyped
<1>5. rows' = [rows EXCEPT ![a] = w] /\ tokens' = tokens
  BY DEF Save
<1>6. /\ rows' \in [Id -> Row \cup {Absent}]
      /\ \A id \in Id : Exists(id)' <=> Exists(id)
      /\ \A id \in Id : Exists(id) => rows'[id].email = rows[id].email
  <2> HIDE DEF w, a
  <2> QED BY <1>2, <1>4, <1>5 DEF OverlapInv, TypeOK, Exists
<1>7. \/ t = Absent /\ resets' = resets
      \/ t # Absent /\ resets' = [resets EXCEPT ![t].used = TRUE]
  BY DEF Save, Spend
<1>8. /\ resets' \in [Reset -> ResetRow \cup {Absent}]
      /\ \A u \in Reset : resets'[u] # Absent <=> resets[u] # Absent
      /\ \A u \in Reset : resets[u] # Absent => resets'[u].owner = resets[u].owner
  <2>1. CASE t = Absent
    BY <1>7, <2>1 DEF OverlapInv, TypeOK
  <2>2. CASE t # Absent
    <3> DEFINE spent == [resets[t] EXCEPT !.used = TRUE]
    <3>1. t \in Reset /\ resets[t] \in ResetRow /\ resets' = [resets EXCEPT ![t] = spent]
      BY <1>2, <1>7, <2>2 DEF OverlapInv, TypeOK
    <3>2. spent \in ResetRow /\ spent.owner = resets[t].owner
      BY <3>1 DEF ResetRow
    <3> HIDE DEF spent
    <3> QED BY <3>1, <3>2, <1>2, <2>2 DEF OverlapInv, TypeOK
  <2> QED BY <2>1, <2>2
<1>9. consumed' \in [Reset -> Nat]
  BY <1>2 DEF Save, OverlapInv, TypeOK
<1>10. req' = [req EXCEPT ![r] = Idle] /\ Idle \in Held /\ Grounded(Idle)'
  BY DEF Save, Goes, Held, Idle, Grounded
<1>11. TypeOK'
  BY <1>5, <1>6, <1>8, <1>9, <1>10 DEF OverlapInv, TypeOK
<1>12. UniqueEmails'
  BY <1>6 DEF OverlapInv, UniqueEmails
<1>13. OwnersExist'
  BY <1>6, <1>8 DEF OverlapInv, OwnersExist, TypeOK, ResetRow
<1>14. \A q \in Request : Grounded(req[q])'
  BY <1>6, <1>8, <1>10, StaysGrounded DEF OverlapInv, TypeOK
<1> QED BY <1>11, <1>12, <1>13, <1>14 DEF OverlapInv

LEMMA OverlapCreates ==
    ASSUME OverlapInv, NEW r \in Request, NEW id \in Id, NEW pw \in Password,
           NEW role \in Role, CreateStore(r, id, pw, role)
    PROVE  OverlapInv'
<1> USE AccountsConstantsOK
<1> DEFINE row == [email |-> req[r].email, password |-> pw, role |-> role,
                   active |-> TRUE, version |-> 0]
<1>1. req[r] \in Held /\ req[r].op = "create"
  BY DEF CreateStore, OverlapInv, TypeOK
<1>2. row \in Row /\ row.email = req[r].email
  BY <1>1, Shapes DEF Row
<1>3. /\ ~Exists(id) /\ rows' = [rows EXCEPT ![id] = row]
      /\ UNCHANGED <<resets, tokens, consumed>>
      /\ \A i \in Id : Exists(i) => rows[i].email # req[r].email
  BY DEF CreateStore, Insertable, HasEmail
<1>4. /\ rows' \in [Id -> Row \cup {Absent}] /\ rows'[id] = row
      /\ \A i \in Id : i # id => rows'[i] = rows[i]
      /\ \A i \in Id : Exists(i) => Exists(i)'
  <2> HIDE DEF row
  <2> QED BY <1>2, <1>3 DEF OverlapInv, TypeOK, Exists
<1>5. req' = [req EXCEPT ![r] = Idle] /\ Idle \in Held /\ Grounded(Idle)'
  BY DEF CreateStore, Goes, Held, Idle, Grounded
<1> HIDE DEF row
<1>6. TypeOK'
  BY <1>3, <1>4, <1>5 DEF OverlapInv, TypeOK
<1>7. UniqueEmails'
  BY <1>2, <1>3, <1>4 DEF OverlapInv, UniqueEmails, Exists
<1>8. OwnersExist'
  BY <1>3, <1>4 DEF OverlapInv, OwnersExist, TypeOK, ResetRow
<1>9. \A q \in Request : Grounded(req[q])'
  BY <1>3, <1>4, <1>5, StaysGrounded DEF OverlapInv, TypeOK
<1> QED BY <1>6, <1>7, <1>8, <1>9 DEF OverlapInv

\* A step that writes resets only, keeps those there are and leaves req alone
\* or hands r back, is in order.
LEMMA OverlapResets ==
    ASSUME OverlapInv, resets' \in [Reset -> ResetRow \cup {Absent}],
           \A t \in Reset : resets[t] # Absent => resets'[t] # Absent,
           \A t \in Reset : resets'[t] # Absent => Exists(resets'[t].owner),
           req' = req \/ \E r \in Request : req' = [req EXCEPT ![r] = Idle],
           UNCHANGED <<rows, tokens, consumed>>
    PROVE  OverlapInv'
<1>1. Idle \in Held /\ Grounded(Idle)'
  BY DEF Held, Idle, Grounded
<1>2. req' \in [Request -> Held]
  BY <1>1 DEF OverlapInv, TypeOK
<1>3. TypeOK' /\ UniqueEmails' /\ OwnersExist'
  BY <1>2 DEF OverlapInv, TypeOK, UniqueEmails, OwnersExist, Exists
<1>4. \A q \in Request : Grounded(req[q])'
  <2>1. \A id \in Id : Exists(id) => Exists(id)'
    BY DEF Exists
  <2>2. \A q \in Request : Grounded(req[q]) /\ req[q] \in Held
    BY DEF OverlapInv, TypeOK
  <2>3. \A q \in Request : req'[q] = req[q] \/ req'[q] = Idle
    BY DEF OverlapInv, TypeOK
  <2>4. ASSUME NEW q \in Request PROVE Grounded(req[q])'
    <3>1. CASE req'[q] = Idle
      BY <1>1, <3>1 DEF Grounded, Deliberate, Raises
    <3>2. CASE req'[q] = req[q]
      <4>1. \A h \in Held : Grounded(h) => Grounded(h)'
        BY <2>1, StaysGrounded
      <4> QED BY <2>2, <3>2, <4>1 DEF Grounded, Deliberate, Raises
    <3> QED BY <2>3, <3>1, <3>2
  <2> QED BY <2>4
<1> QED BY <1>3, <1>4 DEF OverlapInv

LEMMA OverlapIssues ==
    ASSUME OverlapInv, NEW r \in Request, NEW t \in Reset, IssueStore(r, t)
    PROVE  OverlapInv'
<1> USE AccountsConstantsOK
<1> DEFINE h == req[r]
           fresh == [owner |-> h.acct, used |-> FALSE, expired |-> FALSE]
<1>1. h \in Held /\ h.op = "store" /\ Grounded(h)
  BY DEF IssueStore, OverlapInv, TypeOK
<1>2. h.acct \in Id /\ Exists(h.acct) /\ h.marked \in SUBSET Reset
  BY <1>1, Shapes DEF Grounded
<1>3. fresh \in ResetRow /\ fresh.owner = h.acct
  BY <1>2 DEF ResetRow
<1>4. resets' = [u \in Reset |-> IF u = t THEN fresh
                                 ELSE IF u \in h.marked THEN [resets[u] EXCEPT !.used = TRUE]
                                 ELSE resets[u]]
  BY DEF IssueStore
<1>5. ASSUME NEW u \in Reset, resets[u] # Absent
      PROVE  [resets[u] EXCEPT !.used = TRUE] \in ResetRow
             /\ [resets[u] EXCEPT !.used = TRUE].owner = resets[u].owner
  BY <1>5 DEF OverlapInv, TypeOK, ResetRow
<1>6. \A u \in h.marked : resets[u] # Absent
  BY <1>1 DEF Grounded
<1>7. UNCHANGED <<rows, tokens, consumed>> /\ req' = [req EXCEPT ![r] = Idle]
      /\ resets[t] = Absent
  BY DEF IssueStore, Goes
<1> HIDE DEF fresh
<1>8. ASSUME NEW u \in Reset
      PROVE  /\ resets'[u] \in ResetRow \cup {Absent}
             /\ resets[u] # Absent => resets'[u] # Absent
             /\ resets'[u] # Absent => Exists(resets'[u].owner)
  <2>1. CASE u = t
    BY <1>2, <1>3, <1>4, <1>7, <2>1
  <2>2. CASE u # t /\ u \in h.marked
    BY <1>4, <1>5, <1>6, <2>2 DEF OverlapInv, OwnersExist
  <2>3. CASE u # t /\ u \notin h.marked
    BY <1>4, <2>3 DEF OverlapInv, TypeOK, OwnersExist
  <2> QED BY <2>1, <2>2, <2>3
<1>9. resets' \in [Reset -> ResetRow \cup {Absent}]
  <2>1. resets' = [u \in Reset |-> resets'[u]]
    BY <1>4
  <2> QED BY <1>8, <2>1
<1> QED BY <1>7, <1>8, <1>9, OverlapResets

LEMMA OverlapExpires ==
    ASSUME OverlapInv, NEW t \in Reset, Expire(t)
    PROVE  OverlapInv'
<1> USE AccountsConstantsOK
<1> DEFINE late == [resets[t] EXCEPT !.expired = TRUE]
<1>1. /\ resets' = [resets EXCEPT ![t] = late] /\ UNCHANGED <<rows, tokens, consumed, req>>
      /\ resets \in [Reset -> ResetRow \cup {Absent}] /\ resets[t] \in ResetRow
  BY DEF Expire, Live, OverlapInv, TypeOK
<1>2. late \in ResetRow /\ late.owner = resets[t].owner
  BY <1>1 DEF ResetRow
<1> HIDE DEF late
<1>3. /\ resets' \in [Reset -> ResetRow \cup {Absent}]
      /\ \A u \in Reset : resets[u] # Absent => resets'[u] # Absent
      /\ \A u \in Reset : resets'[u] # Absent => Exists(resets'[u].owner)
  BY <1>1, <1>2 DEF OverlapInv, OwnersExist
<1> QED BY <1>1, <1>3, OverlapResets

LEMMA OverlapStep ==
    ASSUME OverlapInv, [Next]_vars
    PROVE  OverlapInv'
<1>1. CASE UNCHANGED vars
  BY <1>1 DEF vars, OverlapInv, TypeOK, UniqueEmails, OwnersExist, Grounded, Deliberate, Raises, Exists
<1>2. \A h \in Held : h.op \in {"idle", "admin", "login", "create"} => Grounded(h)
  BY DEF Grounded
<1>3. tokens \subseteq Token
  BY DEF OverlapInv, TypeOK
<1>4. ASSUME NEW r \in Request, Arrive(r) PROVE OverlapInv'
  <2>1. ASSUME NEW id \in Id, LoginRead(r, id) PROVE OverlapInv'
    <3> DEFINE h == [op |-> "login", acct |-> id, seen |-> rows[id]]
    <3>1. rows[id] \in Row
      BY <2>1 DEF LoginRead, Exists, OverlapInv, TypeOK
    <3>2. h \in Held /\ Grounded(h)
      BY <1>2, <3>1 DEF Held
    <3> QED BY <1>3, <2>1, <3>2, OverlapHand DEF LoginRead
  <2>2. ASSUME NEW id \in Id, IssueStart(r, id) PROVE OverlapInv'
    <3> DEFINE h == [op |-> "mark", acct |-> id,
                     snapshot |-> {t \in Reset : Live(t) /\ resets[t].owner = id}]
    <3>1. h \in Held /\ Grounded(h)
      BY <2>2 DEF IssueStart, Held, Grounded, Live
    <3> QED BY <1>3, <2>2, <3>1, OverlapHand DEF IssueStart
  <2>3. ASSUME NEW tok \in tokens, ChangeEnter(r, tok) PROVE OverlapInv'
    <3> DEFINE h == [op |-> "change", acct |-> tok.id]
    <3>1. h \in Held /\ Grounded(h)
      BY <1>3, <2>3 DEF ChangeEnter, Accepted, Held, Grounded, Token
    <3> QED BY <1>3, <2>3, <3>1, OverlapHand DEF ChangeEnter
  <2>4. ASSUME NEW tok \in tokens, AdminEnter(r, tok) PROVE OverlapInv'
    <3>1. [op |-> "admin"] \in Held
      BY DEF Held
    <3> QED BY <1>2, <1>3, <2>4, <3>1, OverlapHand DEF AdminEnter
  <2>5. ASSUME NEW t \in Reset, ConfirmFind(r, t) PROVE OverlapInv'
    <3> DEFINE h == [op |-> "confirm", reset |-> t]
    <3>1. h \in Held /\ Grounded(h)
      BY <2>5 DEF ConfirmFind, Held, Grounded, Live
    <3> QED BY <1>3, <2>5, <3>1, OverlapHand DEF ConfirmFind
  <2> QED BY <1>4, <2>1, <2>2, <2>3, <2>4, <2>5 DEF Arrive
<1>5. ASSUME NEW r \in Request, Resume(r) PROVE OverlapInv'
  <2>1. req[r] \in Held /\ Grounded(req[r]) /\ Idle \in Held /\ Grounded(Idle)
    BY DEF OverlapInv, TypeOK, Held, Idle, Grounded
  <2>2. CASE LoginMint(r)
    <3>1. tokens' \subseteq Token
      BY <1>3, <2>1, <2>2, Shapes DEF LoginMint, Token, Row
    <3> QED BY <2>1, <2>2, <3>1, OverlapHand DEF LoginMint
  <2>3. ASSUME NEW email \in Email, CreateCheck(r, email) PROVE OverlapInv'
    <3>1. [op |-> "create", email |-> email] \in Held
      BY DEF Held
    <3> QED BY <1>2, <1>3, <2>3, <3>1, OverlapHand DEF CreateCheck
  <2>4. CASE IssueMark(r)
    <3> DEFINE h == [op |-> "store", acct |-> req[r].acct,
                     marked |-> Markable(req[r].snapshot)]
    <3>1. h \in Held /\ Grounded(h)
      BY <2>1, <2>4, Shapes DEF IssueMark, Markable, Held, Grounded
    <3> QED BY <1>3, <2>4, <3>1, OverlapHand DEF IssueMark
  <2>5. ASSUME NEW t \in Reset, IssueStore(r, t) PROVE OverlapInv'
    BY <2>1, <2>5, OverlapIssues
  <2> QED BY <1>5, <2>2, <2>3, <2>4, <2>5, OverlapModifies, OverlapCreates, OverlapSaves
          DEF Resume
<1>6. ASSUME NEW r \in Request, Abandon(r) PROVE OverlapInv'
  <2>1. Idle \in Held /\ Grounded(Idle)
    BY DEF Held, Idle, Grounded
  <2> QED BY <1>3, <1>6, <2>1, OverlapHand DEF Abandon
<1>7. ASSUME NEW t \in Reset, Expire(t) PROVE OverlapInv'
  BY <1>7, OverlapExpires
<1> QED BY <1>1, <1>4, <1>5, <1>6, <1>7 DEF Next, Quiet

-----------------------------------------------------------------------------
(* The theorems: for every schedule, overlapping requests included.           *)

\* What a request has in hand is typed and refers to rows there are.
THEOREM OverlapInvHolds == Spec => []OverlapInv
<1>1. Init => OverlapInv
  BY OverlapInit
<1>2. OverlapInv /\ [Next]_vars => OverlapInv'
  BY OverlapStep
<1> QED BY <1>1, <1>2, PTL DEF Spec

\* The accounts keep their types, whatever the clients do.
THEOREM AlwaysTyped == Spec => []TypeOK
<1>1. OverlapInv => TypeOK
  BY DEF OverlapInv
<1> QED BY <1>1, OverlapInvHolds, PTL

\* Two requests that found the same address free do not both store it.
THEOREM EmailsStayUnique == Spec => []UniqueEmails
<1>1. OverlapInv => UniqueEmails
  BY DEF OverlapInv
<1> QED BY <1>1, OverlapInvHolds, PTL

\* A commit changes a column of an account only if its request was asked to,
\* however old the copy it writes.
THEOREM CopiesDoNotUndo == Spec => StaleCopiesDoNotUndo
<1> DEFINE Asked(id, c) == \E r \in Request :
             /\ req[r].op = "save" /\ req[r].acct = id
             /\ req'[r] = Idle
             /\ \/ c = "password" /\ "password" \in req[r].cols
                \/ req[r].new[c] # req[r].seen[c]
           Minds(id) == Exists(id) => \A c \in {"password", "role", "active"} :
                          rows'[id][c] # rows[id][c] => Asked(id, c)
<1>1. OverlapInv /\ [Next]_vars => [\A id \in Id : Minds(id)]_rows
  <2> SUFFICES ASSUME OverlapInv, Next, rows' # rows, NEW id \in Id, Exists(id),
                      NEW c \in {"password", "role", "active"}, rows'[id][c] # rows[id][c]
               PROVE  Asked(id, c)
    BY DEF vars
  <2>1. ASSUME NEW r \in Request, NEW i \in Id, NEW pw \in Password, NEW role \in Role,
               CreateStore(r, i, pw, role)
        PROVE  FALSE
    BY <2>1 DEF CreateStore, Exists
  <2>2. PICK r \in Request : Save(r)
    BY <2>1, Writers
  <2>3. req[r] \in Held /\ req[r].op = "save" /\ Grounded(req[r])
        /\ req[r].acct \in Id /\ Deliberate(req[r])
    BY <2>2, Shapes DEF Save, OverlapInv, TypeOK, Grounded
  <2>4. rows' = [rows EXCEPT ![req[r].acct] = Written(rows[req[r].acct], req[r])]
        /\ req'[r] = Idle
    BY <2>2 DEF Save, Goes, OverlapInv, TypeOK
  <2>5. id = req[r].acct /\ rows'[id] = Written(rows[id], req[r])
    BY <2>3, <2>4 DEF OverlapInv, TypeOK
  <2>6. CASE c = "password"
    <3>1. "password" \in req[r].cols
      BY <2>5, <2>6 DEF Written
    <3> QED BY <2>3, <2>4, <2>5, <2>6, <3>1
  <2>7. CASE c = "role"
    <3>1. "role" \in req[r].cols
      BY <2>5, <2>7 DEF Written
    <3> QED BY <2>3, <2>4, <2>5, <2>7, <3>1 DEF Deliberate
  <2>8. CASE c = "active"
    <3>1. "active" \in req[r].cols
      BY <2>5, <2>8 DEF Written
    <3> QED BY <2>3, <2>4, <2>5, <2>8, <3>1 DEF Deliberate
  <2> QED BY <2>6, <2>7, <2>8
<1> QED BY <1>1, OverlapInvHolds, PTL DEF Spec, StaleCopiesDoNotUndo

-----------------------------------------------------------------------------
(* However requests overlap, reset tokens only age: they are created once,    *)
(* keep their owner, and used ones stay used.                                 *)

Ages(t) ==
    /\ resets[t] # Absent => /\ resets'[t] # Absent
                             /\ resets'[t].owner = resets[t].owner
                             /\ resets[t].used => resets'[t].used

\* A reset row that is marked as used, or as expired, is the same row.
LEMMA ResetEdit ==
    ASSUME NEW row \in ResetRow
    PROVE  /\ [row EXCEPT !.used = TRUE] \in ResetRow
           /\ [row EXCEPT !.used = TRUE].owner = row.owner
           /\ [row EXCEPT !.used = TRUE].used
           /\ [row EXCEPT !.expired = TRUE] \in ResetRow
           /\ [row EXCEPT !.expired = TRUE].owner = row.owner
           /\ [row EXCEPT !.expired = TRUE].used = row.used
BY DEF ResetRow

\* What each step does to the reset tokens.
LEMMA SaveSpends ==
    ASSUME OverlapInv, NEW r \in Request, Save(r)
    PROVE  /\ \A t \in Reset : Ages(t) /\ (resets[t] = Absent => resets'[t] = Absent)
           /\ \A t \in Reset : consumed'[t] # consumed[t] =>
                resets'[t] # Absent /\ resets'[t].used
<1> USE AccountsConstantsOK
<1> DEFINE u == req[r].reset
           spent == [resets[u] EXCEPT !.used = TRUE]
<1>1. req[r] \in Held /\ req[r].op = "save" /\ Grounded(req[r])
  BY DEF Save, OverlapInv, TypeOK
<1>2. u \in Reset \cup {Absent} /\ (u # Absent => resets[u] # Absent)
  BY <1>1, Shapes DEF Grounded
<1>3. resets \in [Reset -> ResetRow \cup {Absent}] /\ consumed \in [Reset -> Nat]
  BY DEF OverlapInv, TypeOK
<1>4. CASE u = Absent
  <2>1. resets' = resets /\ consumed' = consumed
    BY <1>4 DEF Save, Spend
  <2> QED BY <2>1 DEF Ages
<1>5. CASE u # Absent
  <2>1. resets' = [resets EXCEPT ![u] = spent] /\ consumed' = [consumed EXCEPT ![u] = @ + 1]
    BY <1>5 DEF Save, Spend
  <2>2. u \in Reset /\ resets[u] \in ResetRow
    BY <1>2, <1>3, <1>5
  <2>3. spent \in ResetRow /\ spent.owner = resets[u].owner /\ spent.used /\ spent # Absent
    BY <2>2, ResetEdit
  <2> HIDE DEF spent, u
  <2> QED BY <1>2, <1>3, <1>5, <2>1, <2>2, <2>3 DEF Ages
<1> QED BY <1>4, <1>5

LEMMA StoreAges ==
    ASSUME OverlapInv, NEW r \in Request, NEW t \in Reset, IssueStore(r, t)
    PROVE  /\ \A u \in Reset : Ages(u)
           /\ \A u \in Reset \ {t} : resets[u] = Absent => resets'[u] = Absent
           /\ \A u \in Reset \ {t} : u \in req[r].marked => resets'[u].used
           /\ resets[t] = Absent /\ resets'[t].owner = req[r].acct
           /\ req[r].op = "store" /\ req' = [req EXCEPT ![r] = Idle] /\ consumed' = consumed
<1> USE AccountsConstantsOK
<1> DEFINE h == req[r]
           fresh == [owner |-> h.acct, used |-> FALSE, expired |-> FALSE]
           marked(u) == [resets[u] EXCEPT !.used = TRUE]
<1>1. h \in Held /\ h.op = "store" /\ Grounded(h)
  BY DEF IssueStore, OverlapInv, TypeOK
<1>2. h.acct \in Id /\ h.marked \in SUBSET Reset /\ \A u \in h.marked : resets[u] # Absent
  BY <1>1, Shapes DEF Grounded
<1>3. /\ resets' = [u \in Reset |-> IF u = t THEN fresh
                                    ELSE IF u \in h.marked THEN marked(u) ELSE resets[u]]
      /\ resets[t] = Absent /\ req' = [req EXCEPT ![r] = Idle] /\ consumed' = consumed
  BY DEF IssueStore, Goes
<1>4. ASSUME NEW u \in Reset, resets[u] # Absent
      PROVE  /\ marked(u) \in ResetRow /\ marked(u).owner = resets[u].owner
             /\ marked(u).used /\ marked(u) # Absent
  <2>1. resets[u] \in ResetRow
    BY <1>4 DEF OverlapInv, TypeOK
  <2> QED BY <2>1, ResetEdit
<1>5. fresh.owner = h.acct
  OBVIOUS
<1> HIDE DEF fresh, marked
<1> QED BY <1>1, <1>2, <1>3, <1>4, <1>5 DEF Ages

LEMMA ExpireAges ==
    ASSUME OverlapInv, NEW t \in Reset, Expire(t)
    PROVE  /\ \A u \in Reset : Ages(u) /\ (resets[u] = Absent => resets'[u] = Absent)
           /\ UNCHANGED <<req, consumed>>
<1> USE AccountsConstantsOK
<1> DEFINE late == [resets[t] EXCEPT !.expired = TRUE]
<1>1. resets[t] \in ResetRow /\ resets' = [resets EXCEPT ![t] = late]
      /\ resets \in [Reset -> ResetRow \cup {Absent}] /\ UNCHANGED <<req, consumed>>
  BY DEF Expire, Live, OverlapInv, TypeOK
<1>2. late \in ResetRow /\ late.owner = resets[t].owner /\ late.used = resets[t].used
      /\ late # Absent
  BY <1>1, ResetEdit
<1> HIDE DEF late
<1> QED BY <1>1, <1>2 DEF Ages

\* The steps that leave the reset tokens as they are.
LEMMA OthersKeep ==
    ASSUME [Next]_vars, \A r \in Request : ~Save(r),
           \A r \in Request, t \in Reset : ~IssueStore(r, t),
           \A t \in Reset : ~Expire(t)
    PROVE  UNCHANGED <<resets, consumed>>
<1>1. ASSUME NEW r \in Request, Arrive(r) PROVE UNCHANGED <<resets, consumed>>
  BY <1>1 DEF Arrive, LoginRead, IssueStart, ChangeEnter, AdminEnter, ConfirmFind
<1>2. ASSUME NEW r \in Request, Resume(r) PROVE UNCHANGED <<resets, consumed>>
  BY <1>2 DEF Resume, LoginMint, ChangePassword, ConfirmLoad, AdminPatch, AdminReset,
     CreateCheck, CreateStore, IssueMark
<1> QED BY <1>1, <1>2 DEF Next, Abandon, Quiet, vars

LEMMA ResetsAge ==
    ASSUME OverlapInv, [Next]_vars
    PROVE  \A t \in Reset : Ages(t)
<1>1. CASE UNCHANGED <<resets, consumed>>
  BY <1>1 DEF Ages
<1> QED BY <1>1, OthersKeep, SaveSpends, StoreAges, ExpireAges

-----------------------------------------------------------------------------
(* A reset token that has set a password.                                     *)

SpentIsUsed == \A t \in Reset : consumed[t] # 0 => resets[t] # Absent /\ resets[t].used

LEMMA SpentStaysUsed ==
    ASSUME OverlapInv, SpentIsUsed, [Next]_vars
    PROVE  SpentIsUsed'
<1>1. ASSUME NEW t \in Reset, consumed'[t] # 0, consumed'[t] = consumed[t]
      PROVE  resets'[t] # Absent /\ resets'[t].used
  BY <1>1, ResetsAge DEF SpentIsUsed, Ages
<1>2. ASSUME NEW t \in Reset, consumed'[t] # consumed[t]
      PROVE  resets'[t] # Absent /\ resets'[t].used
  BY <1>2, OthersKeep, SaveSpends, StoreAges, ExpireAges
<1> QED BY <1>1, <1>2 DEF SpentIsUsed

\* A token is found only while it is live; later a request keeps the one it has.
LEMMA FoundWhileLive ==
    ASSUME OverlapInv, [Next]_vars, NEW r \in Request, NEW t \in Reset, ~Live(t),
           Confirming(r, t)'
    PROVE  Confirming(r, t)
<1> USE AccountsConstantsOK
<1>0. t # Absent
  OBVIOUS
<1>1. CASE req'[r] = req[r]
  BY <1>1 DEF Confirming
<1>2. ASSUME NEW q \in Request, NEW h, Goes(q, h) PROVE (q = r /\ req'[r] = h) \/ req'[r] = req[r]
  BY <1>2 DEF Goes, OverlapInv, TypeOK
<1>3. CASE req'[r] = Idle
  BY <1>3 DEF Confirming, Idle
<1>4. ASSUME NEW q \in Request, Arrive(q) PROVE Confirming(r, t)
  <2>1. ASSUME NEW id \in Id, LoginRead(q, id) \/ IssueStart(q, id) PROVE Confirming(r, t)
    BY <1>1, <1>2, <2>1 DEF LoginRead, IssueStart, Confirming
  <2>2. ASSUME NEW tok \in tokens, ChangeEnter(q, tok) \/ AdminEnter(q, tok)
        PROVE  Confirming(r, t)
    BY <1>1, <1>2, <2>2 DEF ChangeEnter, AdminEnter, Confirming
  <2>3. ASSUME NEW u \in Reset, ConfirmFind(q, u) PROVE Confirming(r, t)
    BY <1>1, <1>2, <2>3 DEF ConfirmFind, Confirming
  <2> QED BY <1>4, <2>1, <2>2, <2>3 DEF Arrive
<1>5. ASSUME NEW q \in Request, NEW id, NEW new, NEW cols, Assign(q, id, new, cols, Absent)
      PROVE  Confirming(r, t)
  BY <1>0, <1>1, <1>2, <1>5 DEF Assign, Confirming
<1>6. ASSUME NEW q \in Request, Resume(q) PROVE Confirming(r, t)
  <2>1. CASE LoginMint(q)
    BY <1>1, <1>2, <1>3, <2>1 DEF LoginMint
  <2>2. ASSUME NEW pw \in Password, ChangePassword(q, pw) PROVE Confirming(r, t)
    BY <1>5, <2>2 DEF ChangePassword
  <2>3. ASSUME NEW pw \in Password, ConfirmLoad(q, pw) PROVE Confirming(r, t)
    BY <1>1, <1>2, <2>3 DEF ConfirmLoad, Assign, Confirming
  <2>4. ASSUME NEW id \in Id, NEW role \in Role, NEW active \in BOOLEAN,
               AdminPatch(q, id, role, active)
        PROVE  Confirming(r, t)
    BY <1>5, <2>4 DEF AdminPatch
  <2>5. ASSUME NEW id \in Id, NEW pw \in Password, AdminReset(q, id, pw)
        PROVE  Confirming(r, t)
    BY <1>5, <2>5 DEF AdminReset
  <2>6. ASSUME NEW email \in Email, CreateCheck(q, email) PROVE Confirming(r, t)
    BY <1>1, <1>2, <2>6 DEF CreateCheck, Confirming
  <2>7. ASSUME NEW id \in Id, NEW pw \in Password, NEW role \in Role,
               CreateStore(q, id, pw, role)
        PROVE  Confirming(r, t)
    BY <1>1, <1>2, <1>3, <2>7 DEF CreateStore
  <2>8. CASE Save(q)
    BY <1>1, <1>2, <1>3, <2>8 DEF Save
  <2>9. CASE IssueMark(q)
    BY <1>1, <1>2, <2>9 DEF IssueMark, Confirming
  <2>10. ASSUME NEW u \in Reset, IssueStore(q, u) PROVE Confirming(r, t)
    BY <1>1, <1>2, <1>3, <2>10 DEF IssueStore
  <2> QED BY <1>6, <2>1, <2>2, <2>3, <2>4, <2>5, <2>6, <2>7, <2>8, <2>9, <2>10 DEF Resume
<1>7. ASSUME NEW q \in Request, Abandon(q) PROVE Confirming(r, t)
  BY <1>1, <1>2, <1>3, <1>7 DEF Abandon
<1>8. CASE req' = req
  BY <1>1, <1>8
<1> QED BY <1>4, <1>6, <1>7, <1>8 DEF Next, Expire, Quiet, vars

-----------------------------------------------------------------------------
(* The live reset tokens of an account.                                       *)

\* f names, for every live token, the request that issued it, so that the live
\* tokens of an account differ in it; an issue in flight has in view the ones that
\* an earlier issue by the same request left.
IssuedBy(f) ==
    /\ \A t \in Reset : Live(t) => f[t] \in Request
    /\ \A t, u \in Reset :
         Live(t) /\ Live(u) /\ resets[t].owner = resets[u].owner /\ f[t] = f[u] => t = u
    /\ \A t \in Reset : \A r \in Request :
         Live(t) /\ f[t] = r =>
           /\ req[r].op = "mark" /\ req[r].acct = resets[t].owner => t \in req[r].snapshot
           /\ req[r].op = "store" /\ req[r].acct = resets[t].owner => t \in req[r].marked

HaveIssuers == \E f \in [Reset -> Request \cup {Absent}] : IssuedBy(f)

\* What a request that issues has in view after a step, for the tokens that are
\* live and were not issued by the step.
LEMMA ViewKept ==
    ASSUME OverlapInv, [Next]_vars, NEW r \in Request, NEW t \in Reset,
           Live(t), Live(t)', resets'[t].owner = resets[t].owner,
           req[r].op = "mark" /\ req[r].acct = resets[t].owner => t \in req[r].snapshot,
           req[r].op = "store" /\ req[r].acct = resets[t].owner => t \in req[r].marked
    PROVE  /\ req'[r].op = "mark" /\ req'[r].acct = resets[t].owner => t \in req'[r].snapshot
           /\ req'[r].op = "store" /\ req'[r].acct = resets[t].owner => t \in req'[r].marked
<1> DEFINE Goal(h) == /\ h.op = "mark" /\ h.acct = resets[t].owner => t \in h.snapshot
                      /\ h.op = "store" /\ h.acct = resets[t].owner => t \in h.marked
<1>1. Goal(req[r])
  OBVIOUS
<1>2. \A h : h.op \notin {"mark", "store"} => Goal(h)
  OBVIOUS
<1>3. ASSUME NEW q \in Request, NEW h, Goes(q, h) PROVE (q = r /\ req'[r] = h) \/ req'[r] = req[r]
  BY <1>3 DEF Goes, OverlapInv, TypeOK
<1>4. Idle.op \notin {"mark", "store"}
  BY DEF Idle
<1> SUFFICES Goal(req'[r])
  OBVIOUS
<1> HIDE DEF Goal
<1>5. ASSUME NEW q \in Request, Arrive(q) PROVE Goal(req'[r])
  <2>1. ASSUME NEW id \in Id, LoginRead(q, id) PROVE Goal(req'[r])
    BY <1>1, <1>2, <1>3, <2>1 DEF LoginRead
  <2>2. ASSUME NEW id \in Id, IssueStart(q, id) PROVE Goal(req'[r])
    <3> DEFINE h == [op |-> "mark", acct |-> id,
                     snapshot |-> {u \in Reset : Live(u) /\ resets[u].owner = id}]
    <3>1. Goes(q, h)
      BY <2>2 DEF IssueStart
    <3>2. Goal(h)
      BY DEF Goal
    <3> HIDE DEF h
    <3> QED BY <1>1, <1>3, <3>1, <3>2
  <2>3. ASSUME NEW tok \in tokens, ChangeEnter(q, tok) \/ AdminEnter(q, tok)
        PROVE  Goal(req'[r])
    BY <1>1, <1>2, <1>3, <2>3 DEF ChangeEnter, AdminEnter
  <2>4. ASSUME NEW u \in Reset, ConfirmFind(q, u) PROVE Goal(req'[r])
    BY <1>1, <1>2, <1>3, <2>4 DEF ConfirmFind
  <2> QED BY <1>5, <2>1, <2>2, <2>3, <2>4 DEF Arrive
<1>6. ASSUME NEW q \in Request, NEW id, NEW new, NEW cols, NEW u, Assign(q, id, new, cols, u)
      PROVE  Goal(req'[r])
  BY <1>1, <1>2, <1>3, <1>6 DEF Assign
<1>7. ASSUME NEW q \in Request, Goes(q, Idle) PROVE Goal(req'[r])
  BY <1>1, <1>2, <1>3, <1>4, <1>7
<1>8. ASSUME NEW q \in Request, Resume(q) PROVE Goal(req'[r])
  <2>1. ASSUME NEW pw \in Password, ChangePassword(q, pw) \/ ConfirmLoad(q, pw)
        PROVE  Goal(req'[r])
    BY <1>6, <2>1 DEF ChangePassword, ConfirmLoad
  <2>2. ASSUME NEW id \in Id, NEW role \in Role, NEW active \in BOOLEAN,
               AdminPatch(q, id, role, active)
        PROVE  Goal(req'[r])
    BY <1>6, <2>2 DEF AdminPatch
  <2>3. ASSUME NEW id \in Id, NEW pw \in Password, AdminReset(q, id, pw)
        PROVE  Goal(req'[r])
    BY <1>6, <2>3 DEF AdminReset
  <2>4. ASSUME NEW email \in Email, CreateCheck(q, email) PROVE Goal(req'[r])
    BY <1>1, <1>2, <1>3, <2>4 DEF CreateCheck
  <2>5. CASE IssueMark(q)
    <3> DEFINE h == [op |-> "store", acct |-> req[q].acct, marked |-> Markable(req[q].snapshot)]
    <3>1. Goes(q, h) /\ req[q].op = "mark"
      BY <2>5 DEF IssueMark
    <3>2. q = r => Goal(h)
      BY <1>1, <3>1 DEF Goal, Markable
    <3> HIDE DEF h
    <3> QED BY <1>1, <1>3, <3>1, <3>2
  <2> QED BY <1>7, <1>8, <2>1, <2>2, <2>3, <2>4, <2>5
          DEF Resume, LoginMint, CreateStore, Save, IssueStore
<1>9. ASSUME NEW q \in Request, Abandon(q) PROVE Goal(req'[r])
  BY <1>7, <1>9 DEF Abandon
<1>10. CASE req' = req
  BY <1>1, <1>10
<1> QED BY <1>5, <1>8, <1>9, <1>10 DEF Next, Expire, Quiet, vars

LEMMA IssuersStay ==
    ASSUME OverlapInv, HaveIssuers, [Next]_vars
    PROVE  HaveIssuers'
<1> USE AccountsConstantsOK
<1>1. PICK f \in [Reset -> Request \cup {Absent}] : IssuedBy(f)
  BY DEF HaveIssuers
<1>2. \A t \in Reset : Ages(t)
  BY ResetsAge
<1>3. \A t \in Reset : resets[t] # Absent /\ Live(t)' =>
        Live(t) /\ resets'[t].owner = resets[t].owner
  BY <1>2 DEF Ages, Live
<1>4. ASSUME NEW t \in Reset, NEW r \in Request, resets[t] # Absent, Live(t)', f[t] = r
      PROVE  /\ req'[r].op = "mark" /\ req'[r].acct = resets'[t].owner => t \in req'[r].snapshot
             /\ req'[r].op = "store" /\ req'[r].acct = resets'[t].owner => t \in req'[r].marked
  <2>1. Live(t) /\ resets'[t].owner = resets[t].owner
    BY <1>3, <1>4
  <2>2. /\ req[r].op = "mark" /\ req[r].acct = resets[t].owner => t \in req[r].snapshot
        /\ req[r].op = "store" /\ req[r].acct = resets[t].owner => t \in req[r].marked
    BY <1>1, <1>4, <2>1 DEF IssuedBy
  <2> QED BY <1>4, <2>1, <2>2, ViewKept
<1>5. CASE \A t \in Reset : resets[t] = Absent => resets'[t] = Absent
  <2>1. \A t \in Reset : Live(t)' => resets[t] # Absent
    BY <1>5 DEF Live
  <2>2. IssuedBy(f)'
    <3>1. \A t \in Reset : Live(t)' => f[t] \in Request
      BY <1>1, <1>3, <2>1 DEF IssuedBy
    <3>2. \A t, u \in Reset :
            Live(t)' /\ Live(u)' /\ resets'[t].owner = resets'[u].owner /\ f[t] = f[u] => t = u
      BY <1>1, <1>3, <2>1 DEF IssuedBy
    <3> QED BY <1>4, <2>1, <3>1, <3>2 DEF IssuedBy
  <2> QED BY <2>2 DEF HaveIssuers
<1>6. ASSUME NEW r \in Request, NEW t \in Reset, IssueStore(r, t) PROVE HaveIssuers'
  <2> DEFINE g == [f EXCEPT ![t] = r]
  <2>1. /\ \A u \in Reset \ {t} : resets[u] = Absent => resets'[u] = Absent
        /\ \A u \in Reset \ {t} : u \in req[r].marked => resets'[u].used
        /\ resets'[t].owner = req[r].acct
        /\ req[r].op = "store" /\ req' = [req EXCEPT ![r] = Idle]
    BY <1>6, StoreAges
  <2>2. g \in [Reset -> Request \cup {Absent}] /\ g[t] = r /\ \A u \in Reset \ {t} : g[u] = f[u]
    OBVIOUS
  <2>3. \A u \in Reset \ {t} : Live(u)' => /\ resets[u] # Absent /\ Live(u)
                                           /\ resets'[u].owner = resets[u].owner
    BY <1>3, <2>1 DEF Live
  <2>4. \A u \in Reset \ {t} :
          Live(u)' /\ resets'[u].owner = resets'[t].owner => f[u] # r
    BY <1>1, <2>1, <2>3 DEF IssuedBy, Live
  <2>5. req'[r].op = "idle"
    BY <2>1 DEF OverlapInv, TypeOK, Idle
  <2> HIDE DEF g
  <2>6. \A u \in Reset : Live(u)' => g[u] \in Request
    BY <1>1, <2>2, <2>3 DEF IssuedBy
  <2>7. \A u, v \in Reset :
          Live(u)' /\ Live(v)' /\ resets'[u].owner = resets'[v].owner /\ g[u] = g[v] => u = v
    <3> SUFFICES ASSUME NEW u \in Reset, NEW v \in Reset, Live(u)', Live(v)',
                        resets'[u].owner = resets'[v].owner, g[u] = g[v], u # v
                 PROVE  FALSE
      OBVIOUS
    <3>1. CASE u = t
      BY <2>2, <2>4, <3>1
    <3>2. CASE v = t
      BY <2>2, <2>4, <3>2
    <3>3. CASE u # t /\ v # t
      BY <1>1, <2>2, <2>3, <3>3 DEF IssuedBy
    <3> QED BY <3>1, <3>2, <3>3
  <2>8. \A u \in Reset : \A q \in Request :
          Live(u)' /\ g[u] = q =>
            /\ req'[q].op = "mark" /\ req'[q].acct = resets'[u].owner => u \in req'[q].snapshot
            /\ req'[q].op = "store" /\ req'[q].acct = resets'[u].owner => u \in req'[q].marked
    BY <1>4, <2>2, <2>3, <2>5
  <2>9. IssuedBy(g)'
    BY <2>6, <2>7, <2>8 DEF IssuedBy
  <2> QED BY <2>2, <2>9 DEF HaveIssuers
<1>7. CASE UNCHANGED <<resets, consumed>>
  BY <1>5, <1>7
<1>8. ASSUME NEW r \in Request, Save(r) PROVE HaveIssuers'
  BY <1>5, <1>8, SaveSpends
<1>9. ASSUME NEW t \in Reset, Expire(t) PROVE HaveIssuers'
  BY <1>5, <1>9, ExpireAges
<1> QED BY <1>6, <1>7, <1>8, <1>9, OthersKeep

\* Requests are an upper bound on what differs in the request.
LEMMA IssuersBound ==
    ASSUME HaveIssuers, NEW id \in Id
    PROVE  Cardinality({t \in Reset : Live(t) /\ resets[t].owner = id}) <= Cardinality(Request)
<1> DEFINE own == {t \in Reset : Live(t) /\ resets[t].owner = id}
<1>1. PICK f \in [Reset -> Request \cup {Absent}] : IssuedBy(f)
  BY DEF HaveIssuers
<1> DEFINE g == [t \in own |-> f[t]]
<1>2. g \in [own -> Request] /\ \A t, u \in own : g[t] = g[u] => t = u
  BY <1>1 DEF IssuedBy
<1>3. g \in Injection(own, Request)
  <2> HIDE DEF g, own
  <2> QED BY <1>2 DEF Injection, IsInjective
<1> HIDE DEF g, own
<1>4. Cardinality(own) <= Cardinality(Request)
  BY <1>3, FS_Injection, AccountsConstantsOK
<1> QED BY <1>4 DEF own

-----------------------------------------------------------------------------
(* The theorems on resets and versions: for every schedule as well.           *)

\* Once a reset token has set a password it is refused; only requests that had
\* found it before can set one more with it.
THEOREM UsedResetsAreRetired == Spec => UsedResetsRetire
<1> DEFINE Retires(t) == consumed[t] > 0 =>
             ~Live(t)' /\ \A r \in Request : Confirming(r, t)' => Confirming(r, t)
<1>1. Init => SpentIsUsed
  BY DEF Init, SpentIsUsed
<1>2. OverlapInv /\ SpentIsUsed /\ [Next]_vars => SpentIsUsed'
  BY SpentStaysUsed
<1>3. OverlapInv /\ SpentIsUsed /\ [Next]_vars => [\A t \in Reset : Retires(t)]_vars
  <2> SUFFICES ASSUME OverlapInv, SpentIsUsed, [Next]_vars, NEW t \in Reset, consumed[t] > 0
               PROVE  ~Live(t)' /\ \A r \in Request : Confirming(r, t)' => Confirming(r, t)
    OBVIOUS
  <2>1. resets[t] # Absent /\ resets[t].used
    BY DEF SpentIsUsed, OverlapInv, TypeOK
  <2>2. ~Live(t) /\ ~Live(t)'
    BY <2>1, ResetsAge DEF Live, Ages
  <2> QED BY <2>2, FoundWhileLive
<1>4. Spec => [][\A t \in Reset : Retires(t)]_vars
  BY <1>1, <1>2, <1>3, OverlapInvHolds, PTL DEF Spec
<1> QED BY <1>4 DEF UsedResetsRetire

\* However issues overlap, an account has at most as many live reset tokens as
\* there are requests in flight at once.
THEOREM LiveResetsStayFew == Spec => []LiveResetsBounded
<1>1. Init => HaveIssuers
  <2> SUFFICES ASSUME Init PROVE HaveIssuers
    OBVIOUS
  <2>1. \A t \in Reset : ~Live(t)
    BY DEF Init, Live
  <2>2. IssuedBy([t \in Reset |-> Absent])
    BY <2>1 DEF IssuedBy
  <2>3. [t \in Reset |-> Absent] \in [Reset -> Request \cup {Absent}]
    OBVIOUS
  <2> QED BY <2>2, <2>3 DEF HaveIssuers
<1>2. OverlapInv /\ HaveIssuers /\ [Next]_vars => HaveIssuers'
  BY IssuersStay
<1>3. HaveIssuers => LiveResetsBounded
  BY IssuersBound DEF LiveResetsBounded
<1> QED BY <1>1, <1>2, <1>3, OverlapInvHolds, PTL DEF Spec

\* A change leaves token_version above the one it has read, however changes
\* overlap.
THEOREM ChangesRaiseVersions == Spec => VersionsGrow
<1> DEFINE Raised(id) == Exists(id) /\ rows'[id] # rows[id] =>
             \E r \in Request : /\ req[r].op = "save" /\ req[r].acct = id /\ req'[r] = Idle
                                /\ req[r].seen.version < rows'[id].version
<1>1. OverlapInv /\ [Next]_vars => [\A id \in Id : Raised(id)]_rows
  <2> SUFFICES ASSUME OverlapInv, Next, NEW id \in Id, Exists(id), rows'[id] # rows[id]
               PROVE  \E r \in Request : /\ req[r].op = "save" /\ req[r].acct = id
                                         /\ req'[r] = Idle
                                         /\ req[r].seen.version < rows'[id].version
    BY DEF vars
  <2>1. ASSUME NEW r \in Request, NEW i \in Id, NEW pw \in Password, NEW role \in Role,
               CreateStore(r, i, pw, role)
        PROVE  FALSE
    BY <2>1 DEF CreateStore, Exists
  <2>2. PICK r \in Request : Save(r)
    BY <2>1, Writers
  <2>3. /\ req[r] \in Held /\ req[r].op = "save" /\ Raises(req[r])
        /\ req[r].acct \in Id /\ req[r].seen \in Row
    BY <2>2, Shapes DEF Save, OverlapInv, TypeOK, Grounded
  <2>4. rows' = [rows EXCEPT ![req[r].acct] = Written(rows[req[r].acct], req[r])]
        /\ req'[r] = Idle
    BY <2>2 DEF Save, Goes, OverlapInv, TypeOK
  <2>5. id = req[r].acct /\ rows'[id] = Written(rows[id], req[r]) /\ rows[id] \in Row
    BY <2>3, <2>4 DEF OverlapInv, TypeOK, Exists
  <2>6. req[r].cols # {}
    BY <2>5 DEF Written, Row
  <2>7. rows'[id].version = req[r].seen.version + 1
    BY <2>3, <2>5, <2>6 DEF Raises, Written
  <2> QED BY <2>3, <2>4, <2>5, <2>7 DEF Row
<1>2. Spec => [][\A id \in Id : Raised(id)]_rows
  BY <1>1, OverlapInvHolds, PTL DEF Spec
<1> QED BY <1>2 DEF VersionsGrow

-----------------------------------------------------------------------------
(* One operation at a time. *)

\* What a copy to be committed stands for: a new password, set by someone
\* logged in or with a reset token, or an administrator's patch.
CopyShape(h) ==
    h.op = "save" =>
      \/ /\ h.cols = {"password", "version"}
         /\ h.reset # Absent => h.seen.active
      \/ /\ h.reset = Absent /\ "password" \notin h.cols /\ Deliberate(h)
         /\ h.cols # {} => "version" \in h.cols /\ ("role" \in h.cols \/ "active" \in h.cols)

ShapesOK == \A r \in Request : CopyShape(req[r])

\* The variables of AtomicAccounts; its sessions are OpenSessions.
Accts == [id \in Id |-> AccountIn(rows[id])]
Lives == [id \in Id |-> LiveReset(id)]
Issued == {t \in Reset : resets[t] # Absent}

-----------------------------------------------------------------------------
\* The copies keep their shape: only the steps that assign take one in hand.
LEMMA ShapeStep ==
    ASSUME AccountsInv, ShapesOK, [Next]_vars
    PROVE  ShapesOK'
<1>1. ASSUME NEW r \in Request, NEW h, Goes(r, h), CopyShape(h) PROVE ShapesOK'
  BY <1>1 DEF Goes, ShapesOK, AccountsInv, TypeOK
<1>2. \A h : h.op # "save" => CopyShape(h)
  BY DEF CopyShape
<1>3. Idle.op # "save"
  BY DEF Idle
<1>4. CASE UNCHANGED vars
  BY <1>4 DEF vars, ShapesOK
<1>5. ASSUME NEW r \in Request, Arrive(r) PROVE ShapesOK'
  <2>1. ASSUME NEW h, Goes(r, h), h.op # "save" PROVE ShapesOK'
    BY <1>1, <1>2, <2>1
  <2>2. ASSUME NEW id \in Id, LoginRead(r, id) PROVE ShapesOK'
    BY <2>1, <2>2 DEF LoginRead
  <2>3. ASSUME NEW id \in Id, IssueStart(r, id) PROVE ShapesOK'
    <3> DEFINE live == {t \in Reset : Live(t) /\ resets[t].owner = id}
    <3>1. Goes(r, [op |-> "mark", acct |-> id, snapshot |-> live])
      BY <2>3 DEF IssueStart
    <3> HIDE DEF live
    <3> QED BY <2>1, <3>1
  <2>4. ASSUME NEW tok \in tokens, ChangeEnter(r, tok) \/ AdminEnter(r, tok) PROVE ShapesOK'
    BY <2>1, <2>4 DEF ChangeEnter, AdminEnter
  <2>5. ASSUME NEW t \in Reset, ConfirmFind(r, t) PROVE ShapesOK'
    BY <2>1, <2>5 DEF ConfirmFind
  <2> QED BY <1>5, <2>2, <2>3, <2>4, <2>5 DEF Arrive
<1>6. ASSUME NEW r \in Request, Resume(r) PROVE ShapesOK'
  <2>1. ASSUME NEW id \in Id, NEW pw \in Password, NEW t \in Reset \cup {Absent},
               t # Absent => rows[id].active,
               Assign(r, id, Bump([rows[id] EXCEPT !.password = pw]), {"password", "version"}, t)
        PROVE  ShapesOK'
    <3> DEFINE h == [op |-> "save", acct |-> id, seen |-> rows[id],
                     new |-> Bump([rows[id] EXCEPT !.password = pw]),
                     cols |-> {"password", "version"}, reset |-> t]
    <3>1. Goes(r, h)
      BY <2>1 DEF Assign
    <3>2. CopyShape(h)
      BY <2>1 DEF CopyShape
    <3> HIDE DEF h
    <3> QED BY <1>1, <3>1, <3>2
  <2>2. req[r] \in Held /\ HeldOK(req[r])
    BY DEF AccountsInv, TypeOK, HandsOK
  <2>3. ASSUME NEW pw \in Password, ChangePassword(r, pw) PROVE ShapesOK'
    <3>1. req[r].acct \in Id
      BY <2>2, <2>3, Shapes DEF ChangePassword
    <3> QED BY <2>1, <2>3, <3>1 DEF ChangePassword
  <2>4. ASSUME NEW pw \in Password, ConfirmLoad(r, pw) PROVE ShapesOK'
    <3>1. req[r].reset \in Reset /\ resets[req[r].reset].owner \in Id
      BY <2>2, <2>4, Shapes DEF ConfirmLoad, HeldOK, Unspent, Live, AccountsInv, TypeOK, ResetRow
    <3> QED BY <2>1, <2>4, <3>1 DEF ConfirmLoad
  <2>5. ASSUME NEW id \in Id, NEW pw \in Password, AdminReset(r, id, pw) PROVE ShapesOK'
    BY <2>1, <2>5 DEF AdminReset
  <2>6. ASSUME NEW id \in Id, NEW role \in Role, NEW active \in BOOLEAN,
               AdminPatch(r, id, role, active)
        PROVE  ShapesOK'
    <3> DEFINE changed == {c \in {"role", "active"} :
                             \/ c = "role" /\ role # rows[id].role
                             \/ c = "active" /\ active # rows[id].active}
               new == Patched(rows[id], role, active)
               Copy(n, c) == [op |-> "save", acct |-> id, seen |-> rows[id], new |-> n,
                              cols |-> c, reset |-> Absent]
    <3>1. rows[id] \in Row
      BY <2>6 DEF AdminPatch, Exists, AccountsInv, TypeOK
    <3>2. new.role = role /\ new.active = active
      BY <3>1, PatchValues
    <3>3. CASE changed = {}
      <4>1. Goes(r, Copy(rows[id], {}))
        BY <2>6, <3>3 DEF AdminPatch, Assign
      <4>2. CopyShape(Copy(rows[id], {}))
        BY DEF CopyShape, Deliberate
      <4> QED BY <1>1, <4>1, <4>2
    <3>4. CASE changed # {}
      <4>1. Goes(r, Copy(new, changed \cup {"version"}))
        BY <2>6, <3>4 DEF AdminPatch, Assign, Patched
      <4>2. CopyShape(Copy(new, changed \cup {"version"}))
        <5> HIDE DEF new
        <5> QED BY <3>2, <3>4 DEF CopyShape, Deliberate
      <4> HIDE DEF new, changed, Copy
      <4> QED BY <1>1, <4>1, <4>2
    <3> QED BY <3>3, <3>4
  <2>7. CASE \/ LoginMint(r) \/ Save(r)
             \/ \E id \in Id, pw \in Password, role \in Role : CreateStore(r, id, pw, role)
             \/ \E t \in Reset : IssueStore(r, t)
    <3>1. Goes(r, Idle)
      BY <2>7 DEF LoginMint, Save, CreateStore, IssueStore
    <3> QED BY <1>1, <1>2, <1>3, <3>1
  <2>8. ASSUME NEW email \in Email, CreateCheck(r, email) PROVE ShapesOK'
    BY <1>1, <1>2, <2>8 DEF CreateCheck
  <2>9. CASE IssueMark(r)
    BY <1>1, <1>2, <2>9 DEF IssueMark
  <2> QED BY <1>6, <2>3, <2>4, <2>5, <2>6, <2>7, <2>8, <2>9 DEF Resume
<1>7. ASSUME NEW r \in Request, Abandon(r) PROVE ShapesOK'
  BY <1>1, <1>2, <1>3, <1>7 DEF Abandon
<1>8. ASSUME NEW t \in Reset, Expire(t) PROVE ShapesOK'
  BY <1>8 DEF Expire, ShapesOK
<1> QED BY <1>4, <1>5, <1>6, <1>7, <1>8 DEF Next, Quiet

-----------------------------------------------------------------------------
(* The accounts, sessions and resets that AtomicAccounts sees. *)

LEMMA AccountOfRow ==
    ASSUME NEW row \in Row
    PROVE  /\ AccountIn(row) = [email |-> row.email, password |-> row.password,
                                role |-> row.role, active |-> row.active]
           /\ AccountIn(row) # Absent
<1>1. row # Absent
  BY AccountsConstantsOK
<1>2. AccountIn(row) = [email |-> row.email, password |-> row.password,
                        role |-> row.role, active |-> row.active]
  BY <1>1 DEF AccountIn
<1>3. AccountIn(row) \in Atomic!Account
  BY <1>2 DEF Atomic!Account, Row
<1> QED BY <1>2, <1>3, AbsentIsNoAccount

\* An account exists where its row does.
LEMMA SameAccounts ==
    ASSUME TypeOK, NEW id \in Id
    PROVE  /\ Atomic!Exists(id) <=> Exists(id)
           /\ Accts[id] = AccountIn(rows[id])
BY AccountOfRow DEF TypeOK, Atomic!Exists, Accts, Exists, AccountIn

\* Nothing an account shows has moved.
LEMMA Unmoved ==
    ASSUME UNCHANGED <<Accts, OpenSessions, Lives, Issued>>
    PROVE  UNCHANGED Atomic!vars
BY DEF Atomic!vars, Accts, Lives, Issued

LEMMA Hidden ==
    ASSUME UNCHANGED <<rows, resets, tokens>>
    PROVE  UNCHANGED Atomic!vars
<1>1. Accts' = Accts
  BY DEF Accts, AccountIn
<1>2. OpenSessions' = OpenSessions
  BY DEF OpenSessions, Accepted, Exists
<1>3. Lives' = Lives
  BY DEF Lives, LiveReset, Live
<1>4. Issued' = Issued
  BY DEF Issued
<1> QED BY <1>1, <1>2, <1>3, <1>4, Unmoved

\* An operation of AtomicAccounts is a step of it, or changes nothing.
LEMMA Operation ==
    ASSUME \E id \in Id :
             \/ Atomic!Login(id)
             \/ \E pw \in Password : Atomic!SetPassword(id, pw) \/ Atomic!Confirm(id, pw)
             \/ \E role \in Role, active \in BOOLEAN : Atomic!Administer(id, role, active)
             \/ \E email \in Email, pw \in Password, role \in Role :
                  Atomic!Create(id, email, pw, role)
             \/ \E t \in Reset : Atomic!Issue(id, t)
    PROVE  [Atomic!Next]_(Atomic!vars)
BY DEF Atomic!Next

LEMMA InitAtomic == Init => Atomic!Init
<1> SUFFICES ASSUME Init PROVE Atomic!Init
  OBVIOUS
<1>1. \A id \in Id : rows[id] = Founders[id]
  BY DEF Init
<1>2. \A t \in Reset : resets[t] = Absent
  BY DEF Init
<1>3. [id \in Id |-> AccountIn(rows[id])] = [id \in Id |-> AccountIn(Founders[id])]
  BY <1>1
<1>4. OpenSessions = {}
  BY DEF Init, OpenSessions
<1>5. \A id \in Id : LiveReset(id) = Absent
  BY <1>2 DEF LiveReset, Live
<1>6. {t \in Reset : resets[t] # Absent} = {}
  BY <1>2
<1> QED BY <1>3, <1>4, <1>5, <1>6 DEF Atomic!Init

\* A token is a session if the row is still the one it was minted from.
LEMMA MintIsLogin ==
    ASSUME AccountsInv, NEW r \in Request, LoginMint(r)
    PROVE  [Atomic!Next]_(Atomic!vars)
<1> DEFINE h == req[r]
           tok == [id |-> h.acct, version |-> h.seen.version, role |-> h.seen.role,
                   password |-> h.seen.password]
           new == [id |-> h.acct, role |-> h.seen.role, password |-> h.seen.password]
<1>1. h \in Held /\ h.op = "login" /\ HeldOK(h)
  BY DEF LoginMint, AccountsInv, TypeOK, HandsOK
<1>2. h.acct \in Id /\ Behind(h.acct, h.seen)
  BY <1>1, Shapes DEF HeldOK
<1>3. tokens' = tokens \cup {tok} /\ UNCHANGED <<rows, resets>>
  BY DEF LoginMint
<1>4. UNCHANGED <<Accts, Lives, Issued>>
  BY <1>3 DEF Accts, AccountIn, Lives, LiveReset, Live, Issued
<1>5. \A k : Accepted(k)' <=> Accepted(k)
  BY <1>3 DEF Accepted, Exists
<1>6. tok.id = h.acct /\ tok.version = h.seen.version /\ tok.role = h.seen.role
      /\ tok.password = h.seen.password
  OBVIOUS
<1>7. CASE Accepted(tok)
  <2>1. OpenSessions' = OpenSessions \cup {new}
    BY <1>3, <1>5, <1>7 DEF OpenSessions
  <2>2. Exists(h.acct) /\ rows[h.acct].active /\ rows[h.acct] \in Row
        /\ h.seen.role = rows[h.acct].role /\ h.seen.password = rows[h.acct].password
    BY <1>2, <1>6, <1>7 DEF Accepted, Behind, AccountsInv, TypeOK, Exists
  <2>3. Accts[h.acct].active /\ Accts[h.acct].role = h.seen.role
        /\ Accts[h.acct].password = h.seen.password /\ Atomic!Exists(h.acct)
    BY <1>2, <2>2, SameAccounts, AccountOfRow DEF AccountsInv
  <2>4. Atomic!Login(h.acct)
    BY <1>4, <2>1, <2>3 DEF Atomic!Login, Accts, Lives, Issued
  <2> QED BY <1>2, <2>4, Operation
<1>8. CASE ~Accepted(tok)
  <2>1. OpenSessions' = OpenSessions
    BY <1>3, <1>5, <1>8 DEF OpenSessions
  <2> QED BY <1>4, <2>1, Unmoved
<1> QED BY <1>7, <1>8

\* Raising the version of an account ends its sessions, and no other.
LEMMA SessionsEnd ==
    ASSUME AccountsInv, NEW a \in Id, Exists(a), Exists(a)', tokens' = tokens,
           \A i \in Id : i # a => rows'[i] = rows[i],
           rows'[a].version = rows[a].version + 1
    PROVE  OpenSessions' = {s \in OpenSessions : s.id # a}
<1>1. rows[a].version \in Nat
  BY DEF AccountsInv, TypeOK, Exists, Row
<1>2. ASSUME NEW tok \in tokens
      PROVE  Accepted(tok)' <=> Accepted(tok) /\ tok.id # a
  <2>1. tok.id \in Id /\ tok.version \in Nat /\ Behind(tok.id, tok)
    BY DEF AccountsInv, TypeOK, Token, TokensBehind
  <2>2. CASE tok.id = a
    BY <1>1, <2>1, <2>2 DEF Accepted, Behind
  <2>3. CASE tok.id # a
    BY <2>1, <2>3 DEF Accepted, Exists
  <2> QED BY <2>2, <2>3
<1>3. OpenSessions' = {[id |-> tok.id, role |-> tok.role, password |-> tok.password] :
                         tok \in {tok \in tokens : Accepted(tok) /\ tok.id # a}}
  BY <1>2 DEF OpenSessions
<1> QED BY <1>3 DEF OpenSessions

\* A commit that raises no version and spends no reset token.
LEMMA EmptySave ==
    ASSUME AccountsInv, ShapesOK, NEW r \in Request, Save(r), req[r].cols = {}
    PROVE  UNCHANGED Atomic!vars
<1> DEFINE h == req[r]
<1>1. h \in Held /\ h.op = "save" /\ HeldOK(h) /\ CopyShape(h)
  BY DEF Save, AccountsInv, TypeOK, HandsOK, ShapesOK
<1>2. h.acct \in Id /\ rows[h.acct] \in Row /\ h.reset = Absent
  BY <1>1, Shapes DEF HeldOK, CopyOK, CopyShape, AccountsInv, TypeOK, Exists
<1>3. Written(rows[h.acct], h) = rows[h.acct]
  BY <1>2 DEF Written, Row
<1>4. rows' = rows
  BY <1>2, <1>3 DEF Save, AccountsInv, TypeOK
<1> QED BY <1>2, <1>4, Hidden DEF Save, Spend

\* What a commit that changes something does to the account and its sessions.
LEMMA SaveChanges ==
    ASSUME AccountsInv, ShapesOK, NEW r \in Request, Save(r), req[r].cols # {},
           NEW a, a = req[r].acct, NEW w, w = Written(rows[a], req[r])
    PROVE  /\ a \in Id /\ Exists(a) /\ rows[a] \in Row /\ w \in Row
           /\ Accts' = [Accts EXCEPT ![a] = AccountIn(w)]
           /\ OpenSessions' = {s \in OpenSessions : s.id # a}
<1> DEFINE h == req[r]
<1>1. h \in Held /\ h.op = "save" /\ HeldOK(h)
  BY DEF Save, AccountsInv, TypeOK, HandsOK
<1>2. a \in Id /\ Exists(a) /\ h.seen = rows[a] /\ h.new \in Row
      /\ h.new.version = h.seen.version + 1 /\ "version" \in h.cols
  BY <1>1, Shapes DEF HeldOK, CopyOK
<1>3. rows[a] \in Row
  BY <1>2 DEF AccountsInv, TypeOK, Exists
<1>4. w \in Row /\ w.version = rows[a].version + 1
  BY <1>1, <1>2, <1>3, WrittenTyped DEF Written
<1>5. rows' = [rows EXCEPT ![a] = w] /\ tokens' = tokens
  BY DEF Save
<1>6. rows'[a] = w /\ w # Absent /\ \A i \in Id : i # a => rows'[i] = rows[i]
  BY <1>2, <1>4, <1>5, AccountsConstantsOK DEF AccountsInv, TypeOK
<1>7. OpenSessions' = {s \in OpenSessions : s.id # a}
  BY <1>2, <1>4, <1>5, <1>6, SessionsEnd DEF Exists
<1>8. Accts' = [Accts EXCEPT ![a] = AccountIn(w)]
  BY <1>2, <1>6 DEF Accts, AccountIn
<1> QED BY <1>2, <1>3, <1>4, <1>7, <1>8

\* The live resets of an account, and the one of a set, if any.
Own(id) == {t \in Reset : Live(t) /\ resets[t].owner = id}

Choice(S) == IF S = {} THEN Absent ELSE CHOOSE t \in S : TRUE

LEMMA LiveResetIs ==
    ASSUME NEW id
    PROVE  /\ LiveReset(id) = Choice(Own(id))
           /\ Own(id)' = Own(id) => LiveReset(id)' = LiveReset(id)
<1>1. LiveReset(id) = Choice(Own(id)) /\ LiveReset(id)' = Choice(Own(id)')
  BY DEF LiveReset, Choice, Own, Live
<1> QED BY <1>1

LEMMA ChoiceIs ==
    ASSUME NEW S
    PROVE  /\ S = {} => Choice(S) = Absent
           /\ S # {} => Choice(S) \in S
BY DEF Choice

\* A new password, with a reset token or without.
LEMMA SaveSetsPassword ==
    ASSUME AccountsInv, ShapesOK, NEW r \in Request, Save(r),
           req[r].cols = {"password", "version"},
           NEW a, a = req[r].acct, NEW t, t = req[r].reset
    PROVE  [Atomic!Next]_(Atomic!vars)
<1> DEFINE h == req[r]
           w == Written(rows[a], h)
           pw == h.new.password
<1>1. h \in Held /\ h.op = "save" /\ HeldOK(h) /\ CopyShape(h)
  BY DEF Save, AccountsInv, TypeOK, HandsOK, ShapesOK
<1>2. pw \in Password /\ t \in Reset \cup {Absent}
  BY <1>1, Shapes DEF Row
<1>3. /\ a \in Id /\ Exists(a) /\ rows[a] \in Row /\ w \in Row
      /\ Accts' = [Accts EXCEPT ![a] = AccountIn(w)]
      /\ OpenSessions' = {s \in OpenSessions : s.id # a}
  BY SaveChanges
<1>4. /\ w.email = rows[a].email /\ w.password = pw
      /\ w.role = rows[a].role /\ w.active = rows[a].active
  BY DEF Written
<1>5. Accts[a] = [email |-> rows[a].email, password |-> rows[a].password,
                  role |-> rows[a].role, active |-> rows[a].active]
      /\ Atomic!Exists(a)
  BY <1>3, SameAccounts, AccountOfRow DEF AccountsInv
<1>6. AccountIn(w) = [email |-> w.email, password |-> w.password, role |-> w.role,
                     active |-> w.active]
  BY <1>3, AccountOfRow
<1>7. AccountIn(w) = [Accts[a] EXCEPT !.password = pw]
  <2> HIDE DEF w, pw
  <2> QED BY <1>4, <1>5, <1>6
<1>8. Atomic!Change(a, [Accts[a] EXCEPT !.password = pw])
  <2> HIDE DEF w, pw
  <2> QED BY <1>3, <1>7 DEF Atomic!Change, Accts
<1>9. CASE t = Absent
  <2>1. resets' = resets
    BY <1>9 DEF Save, Spend
  <2>2. UNCHANGED <<Lives, Issued>>
    BY <2>1 DEF Lives, LiveReset, Live, Issued
  <2>3. Atomic!SetPassword(a, pw)
    <3> HIDE DEF pw
    <3> QED BY <1>5, <1>8, <2>2 DEF Atomic!SetPassword, Accts, Lives, Issued
  <2> HIDE DEF pw
  <2> QED BY <1>2, <1>3, <2>3, Operation
<1>10. CASE t # Absent
  <2>1. t \in Reset /\ Unspent(t) /\ resets[t].owner = a /\ rows[a].active
    BY <1>1, <1>2, <1>10 DEF HeldOK, CopyOK, CopyShape
  <2>2. resets' = [resets EXCEPT ![t].used = TRUE] /\ resets[t] \in ResetRow
        /\ resets \in [Reset -> ResetRow \cup {Absent}]
    BY <1>10, <2>1 DEF Save, Spend, AccountsInv, TypeOK, Unspent, Live
  <2> DEFINE spent == [resets[t] EXCEPT !.used = TRUE]
  <2>3. spent.used /\ spent \in ResetRow
    BY <2>2 DEF ResetRow
  <2>4. resets'[t] = spent /\ resets'[t] # Absent /\ ~Live(t)'
        /\ \A u \in Reset : u # t => resets'[u] = resets[u]
    <3>1. resets' = [resets EXCEPT ![t] = spent]
      BY <2>2
    <3> HIDE DEF spent
    <3>2. resets'[t] = spent /\ \A u \in Reset : u # t => resets'[u] = resets[u]
      BY <2>1, <2>2, <3>1
    <3>3. spent # Absent
      BY <2>3, AccountsConstantsOK
    <3> QED BY <2>3, <3>2, <3>3 DEF Live
  <2>5. Issued' = Issued
    BY <2>1, <2>4 DEF Issued, Unspent, Live
  <2>6. \A u \in Reset : Live(u) /\ resets[u].owner = a => u = t
    BY <2>1 DEF AccountsInv, OneLiveReset, Unspent
  <2>7. Own(a)' = {} /\ t \in Own(a) /\ Absent \notin Own(a)
    <3>1. \A u \in Reset : ~(Live(u)' /\ resets'[u].owner = a)
      BY <2>4, <2>6 DEF Live
    <3>2. t \in Own(a)
      BY <2>1 DEF Own, Unspent
    <3>3. Own(a)' = {}
      BY <3>1 DEF Own
    <3> QED BY <3>2, <3>3, AccountsConstantsOK DEF Own
  <2>8. LiveReset(a)' = Absent /\ LiveReset(a) # Absent
    <3>1. LiveReset(a)' = Choice(Own(a)')
      BY LiveResetIs DEF LiveReset, Choice, Own, Live
    <3>2. LiveReset(a) = Choice(Own(a)) /\ Own(a) # {}
      BY <2>7, LiveResetIs
    <3> QED BY <2>7, <3>1, <3>2, ChoiceIs
  <2>9. ASSUME NEW id \in Id, id # a PROVE LiveReset(id)' = LiveReset(id)
    <3>1. \A u \in Reset : Live(u)' /\ resets'[u].owner = id <=> Live(u) /\ resets[u].owner = id
      <4>1. ~Live(t)' /\ resets[t].owner # id
        BY <2>1, <2>4, <2>9
      <4>2. \A u \in Reset : u # t => resets'[u] = resets[u]
        BY <2>4
      <4> QED BY <4>1, <4>2 DEF Live
    <3>2. Own(id)' = Own(id)
      BY <3>1 DEF Own
    <3> QED BY <3>2, LiveResetIs
  <2>10. Lives' = [Lives EXCEPT ![a] = Absent] /\ Lives[a] # Absent
    BY <1>3, <2>8, <2>9 DEF Lives
  <2>11. Accts[a].active
    BY <1>5, <2>1
  <2>12. Atomic!Confirm(a, pw)
    <3> HIDE DEF pw
    <3> QED BY <1>5, <1>8, <2>5, <2>10, <2>11 DEF Atomic!Confirm, Accts, Lives, Issued
  <2> HIDE DEF pw
  <2> QED BY <1>2, <1>3, <2>12, Operation
<1> QED BY <1>9, <1>10

\* An administrator's patch that changes something.
LEMMA SaveAdministers ==
    ASSUME AccountsInv, ShapesOK, NEW r \in Request, Save(r),
           req[r].cols # {}, req[r].cols # {"password", "version"}
    PROVE  [Atomic!Next]_(Atomic!vars)
<1> DEFINE h == req[r]
           a == h.acct
           w == Written(rows[a], h)
<1>1. h \in Held /\ h.op = "save" /\ HeldOK(h) /\ CopyShape(h)
  BY DEF Save, AccountsInv, TypeOK, HandsOK, ShapesOK
<1>2. /\ h.reset = Absent /\ "password" \notin h.cols /\ Deliberate(h)
      /\ "role" \in h.cols \/ "active" \in h.cols
      /\ h.seen = rows[a]
  BY <1>1 DEF CopyShape, HeldOK, CopyOK
<1>3. /\ a \in Id /\ Exists(a) /\ rows[a] \in Row /\ w \in Row
      /\ Accts' = [Accts EXCEPT ![a] = AccountIn(w)]
      /\ OpenSessions' = {s \in OpenSessions : s.id # a}
  BY SaveChanges
<1>4. w.email = rows[a].email /\ w.password = rows[a].password
  BY <1>2 DEF Written
<1>5. w.role # rows[a].role \/ w.active # rows[a].active
  BY <1>2 DEF Written, Deliberate
<1>6. Accts[a] = [email |-> rows[a].email, password |-> rows[a].password,
                  role |-> rows[a].role, active |-> rows[a].active]
      /\ Atomic!Exists(a)
  BY <1>3, SameAccounts, AccountOfRow DEF AccountsInv
<1>7. AccountIn(w) = [email |-> w.email, password |-> w.password, role |-> w.role,
                     active |-> w.active]
  BY <1>3, AccountOfRow
<1>8. resets' = resets
  BY <1>2 DEF Save, Spend
<1>9. UNCHANGED <<Lives, Issued>>
  BY <1>8 DEF Lives, LiveReset, Live, Issued
<1> HIDE DEF w, a
<1>10. AccountIn(w) = [Accts[a] EXCEPT !.role = w.role, !.active = w.active]
  <2> DEFINE acct == Accts[a]
             some == [acct EXCEPT !.role = w.role]
             both == [some EXCEPT !.active = w.active]
  <2>1. some = [email |-> w.email, password |-> w.password, role |-> w.role,
                active |-> rows[a].active]
    BY <1>4, <1>6
  <2>2. both = [email |-> w.email, password |-> w.password, role |-> w.role,
                active |-> w.active]
    <3> HIDE DEF some
    <3> QED BY <2>1
  <2> QED BY <1>7, <2>2
<1>11. <<w.role, w.active>> # <<Accts[a].role, Accts[a].active>>
  BY <1>5, <1>6
<1>12. Atomic!Administer(a, w.role, w.active)
  BY <1>3, <1>6, <1>9, <1>10, <1>11 DEF Atomic!Administer, Atomic!Change, Accts, Lives, Issued
<1>13. w.role \in Role /\ w.active \in BOOLEAN
  BY <1>3 DEF Row
<1> QED BY <1>3, <1>12, <1>13, Operation

LEMMA CreateIsCreate ==
    ASSUME AccountsInv, NEW r \in Request, NEW id \in Id, NEW pw \in Password,
           NEW role \in Role, CreateStore(r, id, pw, role)
    PROVE  [Atomic!Next]_(Atomic!vars)
<1> DEFINE email == req[r].email
           row == [email |-> email, password |-> pw, role |-> role,
                   active |-> TRUE, version |-> 0]
           account == [email |-> email, password |-> pw, role |-> role, active |-> TRUE]
<1>1. email \in Email
  BY Shapes DEF CreateStore, AccountsInv, TypeOK
<1>2. row \in Row /\ row.email = email /\ row.password = pw /\ row.role = role /\ row.active = TRUE
  BY <1>1 DEF Row
<1>3. AccountIn(row) = account /\ row # Absent
  <2> HIDE DEF row
  <2> QED BY <1>2, AccountOfRow, AccountsConstantsOK
<1>4. /\ ~Exists(id) /\ rows' = [rows EXCEPT ![id] = row]
      /\ UNCHANGED <<resets, tokens>>
      /\ \A i \in Id : Exists(i) => rows[i].email # email
  BY DEF CreateStore, Insertable, HasEmail
<1> HIDE DEF row
<1>5. rows'[id] = row /\ \A i \in Id : i # id => rows'[i] = rows[i]
  BY <1>4 DEF AccountsInv, TypeOK
<1>6. Accts' = [Accts EXCEPT ![id] = account]
  BY <1>3, <1>5 DEF Accts, AccountIn
<1>7. OpenSessions' = OpenSessions
  <2>1. \A tok \in tokens : tok.id \in Id /\ Exists(tok.id)
    BY DEF AccountsInv, TypeOK, Token, TokensBehind, Behind
  <2>2. \A tok \in tokens : Accepted(tok)' <=> Accepted(tok)
    BY <1>4, <1>5, <2>1 DEF Accepted, Exists
  <2> QED BY <1>4, <2>2 DEF OpenSessions
<1>8. UNCHANGED <<Lives, Issued>>
  BY <1>4 DEF Lives, LiveReset, Live, Issued
<1>9. ~Atomic!Exists(id)
  BY <1>4, SameAccounts DEF AccountsInv
<1>10. ASSUME NEW i \in Id, Atomic!Exists(i) PROVE Accts[i].email # email
  <2>1. rows[i] \in Row /\ rows[i].email # email
    BY <1>4, <1>10, SameAccounts DEF AccountsInv, TypeOK, Exists
  <2> QED BY <2>1, SameAccounts, AccountOfRow DEF AccountsInv
<1> HIDE DEF email
<1>11. Atomic!Create(id, email, pw, role)
  BY <1>6, <1>7, <1>8, <1>9, <1>10 DEF Atomic!Create, Accts, Lives, Issued
<1> QED BY <1>1, <1>11, Operation

\* The new token is the only live one of the account from here on.
LEMMA StoreIsIssue ==
    ASSUME AccountsInv, NEW r \in Request, NEW t \in Reset, IssueStore(r, t),
           NEW a, a = req[r].acct
    PROVE  [Atomic!Next]_(Atomic!vars)
<1> DEFINE h == req[r]
           fresh == [owner |-> a, used |-> FALSE, expired |-> FALSE]
<1>1. h \in Held /\ h.op = "store" /\ HeldOK(h)
  BY DEF IssueStore, AccountsInv, TypeOK, HandsOK
<1>2. a \in Id /\ Exists(a) /\ h.marked \in SUBSET Reset
  BY <1>1, Shapes DEF HeldOK
<1>3. /\ \A u \in h.marked : Owned(u, a)
      /\ \A u \in Reset : Live(u) /\ resets[u].owner = a => u \in h.marked
  BY <1>1 DEF HeldOK
<1>4. resets[t] = Absent /\ UNCHANGED <<rows, tokens>>
  BY DEF IssueStore
<1>5. resets' = [u \in Reset |-> IF u = t THEN fresh
                                 ELSE IF u \in h.marked THEN [resets[u] EXCEPT !.used = TRUE]
                                 ELSE resets[u]]
  BY DEF IssueStore
<1>6. fresh \in ResetRow /\ fresh.owner = a /\ ~fresh.used /\ fresh # Absent
  <2>1. fresh \in ResetRow /\ fresh.owner = a /\ ~fresh.used
    BY <1>2 DEF ResetRow
  <2> HIDE DEF fresh
  <2> QED BY <2>1, AccountsConstantsOK
<1> HIDE DEF fresh
<1>7. ASSUME NEW u \in h.marked
      PROVE  /\ u \in Reset /\ u # t /\ resets[u] # Absent /\ resets[u].owner = a
             /\ resets'[u] # Absent /\ resets'[u].used
  <2>1. u \in Reset /\ u # t /\ resets[u] # Absent /\ resets[u].owner = a /\ resets[u] \in ResetRow
    BY <1>2, <1>3, <1>4, <1>7 DEF Owned, AccountsInv, TypeOK
  <2> DEFINE spent == [resets[u] EXCEPT !.used = TRUE]
  <2>2. resets'[u] = spent
    BY <1>5, <1>7, <2>1
  <2>3. spent \in ResetRow /\ spent.used
    BY <2>1 DEF ResetRow
  <2> HIDE DEF spent
  <2> QED BY <2>1, <2>2, <2>3, AccountsConstantsOK
<1>8. resets'[t] = fresh
  BY <1>5
<1>9. \A u \in Reset : u # t /\ u \notin h.marked => resets'[u] = resets[u]
  BY <1>5
<1>10. Own(a)' = {t} /\ Live(t)'
  <2>1. \A u \in Reset : Live(u)' /\ resets'[u].owner = a <=> u = t
    BY <1>3, <1>6, <1>7, <1>8, <1>9 DEF Live
  <2> QED BY <1>6, <1>8, <2>1 DEF Own, Live
<1>11. LiveReset(a)' = t
  <2>1. LiveReset(a)' = Choice(Own(a)')
    BY DEF LiveReset, Choice, Own, Live
  <2> QED BY <1>10, <2>1, ChoiceIs
<1>12. ASSUME NEW id \in Id, id # a PROVE LiveReset(id)' = LiveReset(id)
  <2>1. \A u \in Reset : Live(u)' /\ resets'[u].owner = id <=> Live(u) /\ resets[u].owner = id
    BY <1>4, <1>6, <1>7, <1>8, <1>9, <1>12 DEF Live
  <2>2. Own(id)' = Own(id)
    BY <2>1 DEF Own
  <2> QED BY <2>2, LiveResetIs
<1>13. Lives' = [Lives EXCEPT ![a] = t]
  BY <1>2, <1>11, <1>12 DEF Lives
<1>14. Issued' = Issued \cup {t} /\ t \notin Issued
  <2>1. \A u \in Reset : resets'[u] # Absent <=> u = t \/ resets[u] # Absent
    BY <1>6, <1>7, <1>8, <1>9
  <2> QED BY <1>4, <2>1 DEF Issued
<1>15. Accts' = Accts /\ OpenSessions' = OpenSessions
  BY <1>4 DEF Accts, AccountIn, OpenSessions, Accepted, Exists
<1>16. Atomic!Exists(a)
  BY <1>2, SameAccounts DEF AccountsInv
<1>17. Atomic!Issue(a, t)
  BY <1>13, <1>14, <1>15, <1>16 DEF Atomic!Issue, Accts, Lives, Issued
<1> QED BY <1>2, <1>17, Operation

\* A token that expires is no less issued, and the one to be used.
LEMMA ExpiresUnseen ==
    ASSUME AccountsInv, NEW t \in Reset, Expire(t)
    PROVE  UNCHANGED Atomic!vars
<1> DEFINE late == [resets[t] EXCEPT !.expired = TRUE]
<1>1. /\ resets' = [resets EXCEPT ![t] = late] /\ UNCHANGED <<rows, tokens>>
      /\ resets \in [Reset -> ResetRow \cup {Absent}] /\ resets[t] \in ResetRow
  BY DEF Expire, Live, AccountsInv, TypeOK
<1>2. late \in ResetRow /\ late.owner = resets[t].owner /\ late.used = resets[t].used
  BY <1>1 DEF ResetRow
<1> HIDE DEF late
<1>3. \A u \in Reset : /\ resets'[u] # Absent <=> resets[u] # Absent
                       /\ resets[u] # Absent => /\ resets'[u].owner = resets[u].owner
                                                /\ resets'[u].used = resets[u].used
  BY <1>1, <1>2, AccountsConstantsOK
<1>4. ASSUME NEW id \in Id PROVE LiveReset(id)' = LiveReset(id)
  <2>1. Own(id)' = Own(id)
    BY <1>3 DEF Own, Live
  <2> QED BY <2>1, LiveResetIs
<1>5. Lives' = Lives /\ Issued' = Issued
  BY <1>3, <1>4 DEF Lives, Issued
<1>6. Accts' = Accts /\ OpenSessions' = OpenSessions
  BY <1>1 DEF Accts, AccountIn, OpenSessions, Accepted, Exists
<1> QED BY <1>5, <1>6, Unmoved

\* Every step is an operation of AtomicAccounts or changes nothing it shows.
LEMMA StepAtomic ==
    ASSUME AccountsInv, ShapesOK, [Next]_vars
    PROVE  [Atomic!Next]_(Atomic!vars)
<1>1. CASE UNCHANGED vars
  BY <1>1, Hidden DEF vars
<1>2. ASSUME NEW r \in Request, Arrive(r) PROVE UNCHANGED Atomic!vars
  BY <1>2, Hidden DEF Arrive, LoginRead, IssueStart, ChangeEnter, AdminEnter, ConfirmFind
<1>3. ASSUME NEW r \in Request, Resume(r) PROVE [Atomic!Next]_(Atomic!vars)
  <2>1. CASE LoginMint(r)
    BY <2>1, MintIsLogin
  <2>2. CASE Save(r)
    BY <2>2, EmptySave, SaveSetsPassword, SaveAdministers
  <2>3. ASSUME NEW id \in Id, NEW pw \in Password, NEW role \in Role,
               CreateStore(r, id, pw, role)
        PROVE  [Atomic!Next]_(Atomic!vars)
    BY <2>3, CreateIsCreate
  <2>4. ASSUME NEW t \in Reset, IssueStore(r, t) PROVE [Atomic!Next]_(Atomic!vars)
    BY <2>4, StoreIsIssue
  <2>5. CASE \/ \E pw \in Password : ChangePassword(r, pw) \/ ConfirmLoad(r, pw)
             \/ \E id \in Id, role \in Role, active \in BOOLEAN : AdminPatch(r, id, role, active)
             \/ \E id \in Id, pw \in Password : AdminReset(r, id, pw)
             \/ \E email \in Email : CreateCheck(r, email)
             \/ IssueMark(r)
    <3>1. UNCHANGED <<rows, resets, tokens>>
      BY <2>5 DEF ChangePassword, ConfirmLoad, AdminPatch, AdminReset, CreateCheck, IssueMark
    <3> QED BY <3>1, Hidden
  <2> QED BY <1>3, <2>1, <2>2, <2>3, <2>4, <2>5 DEF Resume
<1>4. ASSUME NEW r \in Request, Abandon(r) PROVE UNCHANGED Atomic!vars
  BY <1>4, Hidden DEF Abandon
<1>5. ASSUME NEW t \in Reset, Expire(t) PROVE UNCHANGED Atomic!vars
  BY <1>5, ExpiresUnseen
<1> QED BY <1>1, <1>2, <1>3, <1>4, <1>5 DEF Next, Quiet

-----------------------------------------------------------------------------
\* Clients that leave an account alone while it is being written see whole
\* operations: the interleaved requests of investigator_service.py implement
\* AtomicAccounts, for any number of accounts, requests, tokens and versions.
THEOREM AccountsAreAtomic == ASSUME ~Overlap PROVE Spec => OneAtATime
<1>1. Init => AccountsInv /\ ShapesOK
  BY InitInv DEF Init, ShapesOK, CopyShape, Idle
<1>2. AccountsInv /\ ShapesOK /\ [Next]_vars => (AccountsInv /\ ShapesOK)'
  BY StepInv, ShapeStep
<1>3. AccountsInv /\ ShapesOK /\ [Next]_vars => [Atomic!Next]_(Atomic!vars)
  BY StepAtomic
<1> QED BY <1>1, <1>2, <1>3, InitAtomic, PTL DEF Spec, OneAtATime, Atomic!Spec

==============================================================================
