------------------------------ MODULE Accounts ------------------------------
(***************************************************************************)
(* Investigator accounts: logins, changes of password, password resets    *)
(* and administration (services/investigator_service.py,                   *)
(* api/v1/auth.py, api/v1/admin_investigators.py, dependencies.py).        *)
(*                                                                         *)
(* A request is a coroutine with a database session of its own.  It is cut *)
(* where it awaits the database: what it loads is a copy, and commit()     *)
(* writes the columns it assigned, computed from that copy, whatever the   *)
(* row has become (READ COMMITTED, no version column).  A failed check     *)
(* ends a request with nothing written and is not a step of its own.       *)
(***************************************************************************)
EXTENDS Integers, FiniteSets

CONSTANTS
    Id, Email, Password,
    Role,           \* investigator, reviewer and admin
    Reset,          \* the raw password-reset tokens that may be issued
    Request,        \* requests in flight
    Absent,         \* no such row
    Founders,       \* the investigators table at the start
    Kinds,          \* the kinds of request the clients send; "expire": time passes
    Overlap,        \* may two requests in flight write to one account?
    MaxVersion, MaxTokens   \* bounds of the model

Row == [email : Email, password : Password, role : Role, active : BOOLEAN,
        version : Nat]

ResetRow == [owner : Id, used : BOOLEAN, expired : BOOLEAN]

Columns == {"password", "role", "active", "version"}

ASSUME AccountsConstantsOK ==
    /\ "admin" \in Role
    /\ Absent \notin Row \cup ResetRow \cup Reset
    /\ Founders \in [Id -> Row \cup {Absent}]
    /\ IsFiniteSet(Request) /\ Overlap \in BOOLEAN
    /\ MaxVersion \in Nat /\ MaxTokens \in Nat

\* The unique constraint on email held for the rows there were.
ASSUME FoundersAreUnique ==
    \A a, b \in Id :
      Founders[a] # Absent /\ Founders[b] # Absent /\ Founders[a].email = Founders[b].email
        => a = b

VARIABLES
    rows,           \* investigators: the committed row of each id
    resets,         \* password_reset_tokens: the committed row of each token
    tokens,         \* access tokens handed out
    consumed,       \* how often a reset token has set a password
    req             \* what each request in flight has in hand

vars == <<rows, resets, tokens, consumed, req>>

\* An access token, with the claims sub, token_version and role, and the
\* password that was given for it.
Token == [id : Id, version : Nat, role : Role, password : Password]

Idle == [op |-> "idle"]

Held ==
    {Idle}
      \cup [op : {"login"}, acct : Id, seen : Row]        \* about to mint
      \cup [op : {"change"}, acct : Id]                   \* authenticated
      \cup [op : {"admin"}]                               \* authenticated as admin
      \cup [op : {"create"}, email : Email]               \* address was free
      \cup [op : {"save"}, acct : Id, seen : Row, new : Row,
            cols : SUBSET Columns, reset : Reset \cup {Absent}]
      \cup [op : {"mark"}, acct : Id, snapshot : SUBSET Reset]
      \cup [op : {"store"}, acct : Id, marked : SUBSET Reset]
      \cup [op : {"confirm"}, reset : Reset]              \* token matched

-----------------------------------------------------------------------------
Exists(id) == rows[id] # Absent

Live(t) == resets[t] # Absent /\ ~resets[t].used

\* Mutant: the claim token_version is not compared.
AcceptedAnyVersion(tok) == Exists(tok.id) /\ rows[tok.id].active

\* _investigator_from_token: the row is read again for every request.
Accepted(tok) ==
    /\ Exists(tok.id)
    /\ rows[tok.id].active
    /\ rows[tok.id].version = tok.version

\* What a request holds is about the account: a copy of it, its resets.
Works(h, id) ==
    \/ h.op \in {"save", "mark", "store"} /\ h.acct = id
    \/ h.op = "confirm" /\ resets[h.reset].owner = id

\* Not in the code, which lets every client in: without Overlap, clients leave an
\* account alone while it is being written.
Alone(r, id) == Overlap \/ \A q \in Request \ {r} : ~Works(req[q], id)

\* token_version += 1
Bump(row) == [row EXCEPT !.version = @ + 1]

Starts(r, kind) == req[r] = Idle /\ kind \in Kinds

Goes(r, held) == req' = [req EXCEPT ![r] = held]

\* Assign columns of the copy and leave them to be written by commit().
Assign(r, id, new, cols, t) ==
    Goes(r, [op |-> "save", acct |-> id, seen |-> rows[id], new |-> new,
             cols |-> cols, reset |-> t])

-----------------------------------------------------------------------------
(* Login. *)

LoginRead(r, id) ==
    /\ Starts(r, "login") /\ Cardinality(tokens) < MaxTokens
    /\ Exists(id) /\ rows[id].active
    /\ Goes(r, [op |-> "login", acct |-> id, seen |-> rows[id]])
    /\ UNCHANGED <<rows, resets, tokens, consumed>>

\* After commit() the claims come from the copy, which is not refreshed.
LoginMint(r) ==
    /\ req[r].op = "login"
    /\ tokens' = tokens \cup {[id |-> req[r].acct, version |-> req[r].seen.version,
                               role |-> req[r].seen.role,
                               password |-> req[r].seen.password]}
    /\ Goes(r, Idle)
    /\ UNCHANGED <<rows, resets, consumed>>

\* logout answers 204 and writes nothing: it is not a step.

-----------------------------------------------------------------------------
(* Operations on one account: authenticate, load a copy, assign, commit. *)

ChangeEnter(r, tok) ==
    /\ Starts(r, "change") /\ tok \in tokens /\ Accepted(tok)
    /\ Goes(r, [op |-> "change", acct |-> tok.id])
    /\ UNCHANGED <<rows, resets, tokens, consumed>>

\* Mutant: the sessions of the account are left alone.
ChangePasswordNoBump(r, pw) ==
    /\ req[r].op = "change" /\ Alone(r, req[r].acct)
    /\ rows[req[r].acct].version < MaxVersion
    /\ Assign(r, req[r].acct, [rows[req[r].acct] EXCEPT !.password = pw],
              {"password"}, Absent)
    /\ UNCHANGED <<rows, resets, tokens, consumed>>

\* change_own_password; the current password was the right one.
ChangePassword(r, pw) ==
    /\ req[r].op = "change" /\ Alone(r, req[r].acct)
    /\ rows[req[r].acct].version < MaxVersion
    /\ Assign(r, req[r].acct, Bump([rows[req[r].acct] EXCEPT !.password = pw]),
              {"password", "version"}, Absent)
    /\ UNCHANGED <<rows, resets, tokens, consumed>>

\* require_role("admin") looks at the role in the row, not at the claim.
AdminEnter(r, tok) ==
    /\ Starts(r, "admin") /\ tok \in tokens /\ Accepted(tok)
    /\ rows[tok.id].role = "admin"
    /\ Goes(r, [op |-> "admin"])
    /\ UNCHANGED <<rows, resets, tokens, consumed>>

\* Mutant: only a change of role revokes the tokens.
AdminPatchRoleBumps(r, id, role, active) ==
    LET changed == {c \in {"role", "active"} :
                      \/ c = "role" /\ role # rows[id].role
                      \/ c = "active" /\ active # rows[id].active}
        patched == [rows[id] EXCEPT !.role = role, !.active = active]
    IN  /\ req[r].op = "admin" /\ Exists(id) /\ Alone(r, id)
        /\ rows[id].version < MaxVersion
        /\ IF "role" \in changed
             THEN Assign(r, id, Bump(patched), changed \cup {"version"}, Absent)
             ELSE Assign(r, id, patched, changed, Absent)
        /\ UNCHANGED <<rows, resets, tokens, consumed>>

\* update_investigator; a field left out of the patch keeps the copy's value.
AdminPatch(r, id, role, active) ==
    LET changed == {c \in {"role", "active"} :
                      \/ c = "role" /\ role # rows[id].role
                      \/ c = "active" /\ active # rows[id].active}
    IN  /\ req[r].op = "admin" /\ Exists(id) /\ Alone(r, id)
        /\ rows[id].version < MaxVersion
        /\ IF changed = {}
             THEN Assign(r, id, rows[id], {}, Absent)
             ELSE Assign(r, id, Bump([rows[id] EXCEPT !.role = role, !.active = active]),
                         changed \cup {"version"}, Absent)
        /\ UNCHANGED <<rows, resets, tokens, consumed>>

\* admin_reset_password
AdminReset(r, id, pw) ==
    /\ req[r].op = "admin" /\ Exists(id) /\ Alone(r, id)
    /\ rows[id].version < MaxVersion
    /\ Assign(r, id, Bump([rows[id] EXCEPT !.password = pw]),
              {"password", "version"}, Absent)
    /\ UNCHANGED <<rows, resets, tokens, consumed>>

\* Mutant: every column of the copy is written back.
WrittenWhole(row, h) == h.new

\* Mutant: a field left out of the patch is written as NULL.
WrittenUnset(row, h) ==
    [h.new EXCEPT !.role = IF "role" \in h.cols THEN @ ELSE Absent]

\* The row after SQLAlchemy's UPDATE ... SET of the assigned columns.
Written(row, h) ==
    [email    |-> row.email,
     password |-> IF "password" \in h.cols THEN h.new.password ELSE row.password,
     role     |-> IF "role" \in h.cols THEN h.new.role ELSE row.role,
     active   |-> IF "active" \in h.cols THEN h.new.active ELSE row.active,
     version  |-> IF "version" \in h.cols THEN h.new.version ELSE row.version]

\* An issue_password_reset in flight has locked the reset row.
Locked(t) == \E q \in Request : req[q].op = "store" /\ t \in req[q].marked

\* Mutant: the reset token stays unused.
SpendNothing(t) == UNCHANGED resets

\* row.used_at = now
Spend(t) ==
    resets' = IF t = Absent THEN resets ELSE [resets EXCEPT ![t].used = TRUE]

\* commit() of a request that holds a copy.
Save(r) ==
    LET h == req[r] IN
    /\ h.op = "save"
    /\ ~Locked(h.reset)
    /\ rows' = [rows EXCEPT ![h.acct] = Written(@, h)]
    /\ Spend(h.reset)
    /\ consumed' = IF h.reset = Absent THEN consumed
                                       ELSE [consumed EXCEPT ![h.reset] = @ + 1]
    /\ Goes(r, Idle)
    /\ UNCHANGED tokens

-----------------------------------------------------------------------------
(* New accounts. *)

HasEmail(email) == \E id \in Id : Exists(id) /\ rows[id].email = email

CreateCheck(r, email) ==
    /\ req[r].op = "admin" /\ ~HasEmail(email)
    /\ Goes(r, [op |-> "create", email |-> email])
    /\ UNCHANGED <<rows, resets, tokens, consumed>>

\* Mutant: the column is not declared unique.
InsertedAnyway(email) == TRUE

\* The unique constraint on email.
Insertable(email) == ~HasEmail(email)

\* INSERT at commit(); token_version takes its server default.
CreateStore(r, id, pw, role) ==
    /\ req[r].op = "create" /\ ~Exists(id)
    /\ Insertable(req[r].email)
    /\ rows' = [rows EXCEPT ![id] = [email |-> req[r].email, password |-> pw, role |-> role,
                                     active |-> TRUE, version |-> 0]]
    /\ Goes(r, Idle)
    /\ UNCHANGED <<resets, tokens, consumed>>

-----------------------------------------------------------------------------
(* Password resets. *)

Issuing(q) == req[q].op \in {"mark", "store"}

\* The account is found, and the snapshot of UPDATE ... WHERE used_at IS NULL
\* is taken.  Only the immutable id of the account is used after this.
IssueStart(r, id) ==
    /\ Starts(r, "issue") /\ Exists(id) /\ Alone(r, id)
    /\ Cardinality({q \in Request : Issuing(q)})
         < Cardinality({t \in Reset : resets[t] = Absent})
    /\ Goes(r, [op |-> "mark", acct |-> id,
                snapshot |-> {t \in Reset : Live(t) /\ resets[t].owner = id}])
    /\ UNCHANGED <<rows, resets, tokens, consumed>>

\* Mutant: the rows of the snapshot are never given back.
IssueMarkFree(r) ==
    /\ req[r].op = "mark"
    /\ \A t \in req[r].snapshot : ~Locked(t) /\ Live(t)
    /\ Goes(r, [op |-> "store", acct |-> req[r].acct, marked |-> req[r].snapshot])
    /\ UNCHANGED <<rows, resets, tokens, consumed>>

\* Mutant: earlier tokens are not looked up.
MarkNothing(S) == {}

\* The condition is evaluated again on the rows the UPDATE had to wait for.
Markable(S) == {t \in S : Live(t)}

IssueMark(r) ==
    /\ req[r].op = "mark"
    /\ \A t \in req[r].snapshot : ~Locked(t)
    /\ Goes(r, [op |-> "store", acct |-> req[r].acct,
                marked |-> Markable(req[r].snapshot)])
    /\ UNCHANGED <<rows, resets, tokens, consumed>>

\* commit(): the marks and the new row.
IssueStore(r, t) ==
    /\ req[r].op = "store" /\ resets[t] = Absent
    /\ resets' = [u \in Reset |->
         IF u = t THEN [owner |-> req[r].acct, used |-> FALSE, expired |-> FALSE]
         ELSE IF u \in req[r].marked THEN [resets[u] EXCEPT !.used = TRUE]
         ELSE resets[u]]
    /\ Goes(r, Idle)
    /\ UNCHANGED <<rows, tokens, consumed>>

\* consume_password_reset: the unused token is found by its hash.
ConfirmFind(r, t) ==
    /\ Starts(r, "confirm")
    /\ Live(t) /\ ~resets[t].expired /\ Alone(r, resets[t].owner)
    /\ Goes(r, [op |-> "confirm", reset |-> t])
    /\ UNCHANGED <<rows, resets, tokens, consumed>>

ConfirmLoad(r, pw) ==
    LET id == resets[req[r].reset].owner IN
    /\ req[r].op = "confirm" /\ rows[id].active
    /\ rows[id].version < MaxVersion
    /\ Assign(r, id, Bump([rows[id] EXCEPT !.password = pw]),
              {"password", "version"}, req[r].reset)
    /\ UNCHANGED <<rows, resets, tokens, consumed>>

\* expires_at passes.
Expire(t) ==
    /\ "expire" \in Kinds /\ Live(t) /\ ~resets[t].expired
    /\ resets' = [resets EXCEPT ![t].expired = TRUE]
    /\ UNCHANGED <<rows, tokens, consumed, req>>

\* A failed check, a lost connection or a crash: the session is closed with
\* nothing committed.
Abandon(r) ==
    /\ req[r] # Idle
    /\ Goes(r, Idle)
    /\ UNCHANGED <<rows, resets, tokens, consumed>>

-----------------------------------------------------------------------------
Init ==
    /\ rows = Founders
    /\ resets = [t \in Reset |-> Absent]
    /\ tokens = {}
    /\ consumed = [t \in Reset |-> 0]
    /\ req = [r \in Request |-> Idle]

\* A client sends a request, which is handled up to its first await.
Arrive(r) ==
    \/ \E id \in Id : LoginRead(r, id) \/ IssueStart(r, id)
    \/ \E tok \in tokens : ChangeEnter(r, tok) \/ AdminEnter(r, tok)
    \/ \E t \in Reset : ConfirmFind(r, t)

\* The handler goes on after an await.
Resume(r) ==
    \/ LoginMint(r)
    \/ \E pw \in Password : ChangePassword(r, pw) \/ ConfirmLoad(r, pw)
    \/ \E id \in Id, role \in Role, active \in BOOLEAN : AdminPatch(r, id, role, active)
    \/ \E id \in Id, pw \in Password : AdminReset(r, id, pw)
    \/ \E email \in Email : CreateCheck(r, email)
    \/ \E id \in Id, pw \in Password, role \in Role : CreateStore(r, id, pw, role)
    \/ Save(r)
    \/ IssueMark(r)
    \/ \E t \in Reset : IssueStore(r, t)

\* No client calls.
Quiet == (\A r \in Request : req[r] = Idle) /\ UNCHANGED vars

Next ==
    \/ \E r \in Request : Arrive(r) \/ Resume(r) \/ Abandon(r)
    \/ \E t \in Reset : Expire(t)
    \/ Quiet

Spec == Init /\ [][Next]_vars

\* The event loop resumes every handler whose await is over, and PostgreSQL
\* grants a row lock to its waiters in turn.
FairSpec == Spec /\ \A r \in Request : SF_vars(Resume(r))

-----------------------------------------------------------------------------
(* Properties. *)

\* Type invariant of the accounts.
TypeOK ==
    /\ rows \in [Id -> Row \cup {Absent}]
    /\ resets \in [Reset -> ResetRow \cup {Absent}]
    /\ tokens \subseteq Token
    /\ consumed \in [Reset -> Nat]
    /\ req \in [Request -> Held]

\* No two accounts share an address, although create_investigator looks for
\* the address in one statement and inserts in another.
UniqueEmails ==
    \A a, b \in Id :
      Exists(a) /\ Exists(b) /\ rows[a].email = rows[b].email => a = b

\* "role changes and password resets revoke previously issued tokens
\* immediately" (docs/contracts.md): a token the API accepts carries the role
\* the account has now, and was obtained with the password it has now.
TokensAreCurrent ==
    \A tok \in tokens :
      Accepted(tok) => /\ tok.role = rows[tok.id].role
                       /\ tok.password = rows[tok.id].password

\* "A single-use password reset token" (password_reset_token.py).
ResetSingleUse == \A t \in Reset : consumed[t] <= 1

\* r has found the reset token t, and may yet set a password with it.
Confirming(r, t) == req[r].op \in {"confirm", "save"} /\ req[r].reset = t

\* What holds of it however requests overlap: once a reset token has set a password
\* it stays used, and nobody finds it any more.  Only a request that had found it
\* before can set one more password with it.
UsedResetsRetire ==
    [][\A t \in Reset : consumed[t] > 0 =>
         ~Live(t)' /\ \A r \in Request : Confirming(r, t)' => Confirming(r, t)]_vars

\* issue_password_reset marks the tokens of the account as used, but two that
\* overlap do not see each other's.  However they overlap, an account never has more
\* live reset tokens than requests can be in flight at once: of the tokens one request
\* issues after another, only the last stays live.
LiveResetsBounded ==
    \A id \in Id :
      Cardinality({t \in Reset : Live(t) /\ resets[t].owner = id}) <= Cardinality(Request)

\* A change of the password, the role or the active flag leaves token_version above
\* the one it has read, however changes overlap: every session that was good when the
\* change read the account is refused after it.  (It is above the one before the
\* commit as well, unless another change was committed in between.)
VersionsGrow ==
    [][\A id \in Id : Exists(id) /\ rows'[id] # rows[id] =>
         \E r \in Request : /\ req[r].op = "save" /\ req[r].acct = id /\ req'[r] = Idle
                            /\ req[r].seen.version < rows'[id].version]_rows

\* A stale copy does not undo what other requests have committed meanwhile: the
\* password, the role and the active flag of an account are changed only by a
\* request that was asked to change them, even when requests overlap.
StaleCopiesDoNotUndo ==
    [][\A id \in Id : Exists(id) =>
         \A c \in {"password", "role", "active"} :
           rows'[id][c] # rows[id][c] =>
             \E r \in Request : /\ req[r].op = "save" /\ req[r].acct = id
                                /\ req'[r] = Idle
                                /\ \/ c = "password" /\ "password" \in req[r].cols
                                   \/ req[r].new[c] # req[r].seen[c]]_rows

\* A request that has nothing more to decide is answered, whatever the others
\* hold: no request waits for ever for the rows another one has locked.
RequestsFinish ==
    \A r \in Request :
      req[r].op \in {"login", "save", "mark", "store"} ~> req[r] = Idle

-----------------------------------------------------------------------------
(* The accounts as AtomicAccounts sees them: no versions, no requests. *)

AccountIn(row) ==
    IF row = Absent THEN Absent
    ELSE [email |-> row.email, password |-> row.password, role |-> row.role,
          active |-> row.active]

\* A token that the API refuses is no session.
OpenSessions ==
    {[id |-> tok.id, role |-> tok.role, password |-> tok.password] :
       tok \in {tok \in tokens : Accepted(tok)}}

LiveReset(id) ==
    LET own == {t \in Reset : Live(t) /\ resets[t].owner = id}
    IN  IF own = {} THEN Absent ELSE CHOOSE t \in own : TRUE

Atomic == INSTANCE AtomicAccounts WITH
            Founders <- [id \in Id |-> AccountIn(Founders[id])],
            accounts <- [id \in Id |-> AccountIn(rows[id])],
            sessions <- OpenSessions,
            live     <- [id \in Id |-> LiveReset(id)],
            issued   <- {t \in Reset : resets[t] # Absent}

ASSUME AbsentIsNoAccount == Absent \notin Atomic!Account

\* Clients that leave an account alone while it is being written see every
\* operation take effect in one step, at its commit: a session ends with the
\* change that outdates it and never comes back, though tokens are minted from
\* copies, copies are written columns at a time, and a request may die halfway.
OneAtATime == Atomic!Spec

=============================================================================
