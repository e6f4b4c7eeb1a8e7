---------------------------- MODULE AtomicAccounts ----------------------------
(***************************************************************************)
(* What investigator accounts promise their clients: every operation is    *)
(* one step, an account has no version but open sessions, and whatever     *)
(* changes what a session was opened with closes it.  Accounts, where      *)
(* operations are interleaved and sessions are tokens that carry a version *)
(* number, implements this as long as no two requests in flight write to   *)
(* one account.  Who may ask for an operation is settled when the request  *)
(* arrives and is no part of the promise.                                  *)
(***************************************************************************)
EXTENDS Integers

CONSTANTS
    Id, Email, Password, Role,
    Reset,          \* the password-reset tokens that may be issued
    Absent,         \* no such account, no such token
    Founders        \* the accounts at the start

VARIABLES
    accounts,       \* the account of each id
    sessions,       \* the sessions that are open
    live,           \* the one reset token of each id that may be used
    issued          \* the reset tokens handed out so far

vars == <<accounts, sessions, live, issued>>

Account == [email : Email, password : Password, role : Role, active : BOOLEAN]

Init ==
    /\ accounts = Founders
    /\ sessions = {}
    /\ live = [id \in Id |-> Absent]
    /\ issued = {}

Exists(id) == accounts[id] # Absent

\* A session knows the role and the password it was opened with.
Login(id) ==
    /\ Exists(id) /\ accounts[id].active
    /\ sessions' = sessions \cup
         {[id |-> id, role |-> accounts[id].role, password |-> accounts[id].password]}
    /\ UNCHANGED <<accounts, live, issued>>

\* The account changes and its sessions are closed, in one step.
Change(id, account) ==
    /\ accounts' = [accounts EXCEPT ![id] = account]
    /\ sessions' = {s \in sessions : s.id # id}

\* By the owner or by an administrator.
SetPassword(id, pw) ==
    /\ Exists(id)
    /\ Change(id, [accounts[id] EXCEPT !.password = pw])
    /\ UNCHANGED <<live, issued>>

Administer(id, role, active) ==
    /\ Exists(id)
    /\ <<role, active>> # <<accounts[id].role, accounts[id].active>>
    /\ Change(id, [accounts[id] EXCEPT !.role = role, !.active = active])
    /\ UNCHANGED <<live, issued>>

\* An address belongs to one account.
Create(id, email, pw, role) ==
    /\ ~Exists(id)
    /\ \A other \in Id : Exists(other) => accounts[other].email # email
    /\ accounts' = [accounts EXCEPT
         ![id] = [email |-> email, password |-> pw, role |-> role, active |-> TRUE]]
    /\ UNCHANGED <<sessions, live, issued>>

\* A new token takes the place of the one there was.
Issue(id, t) ==
    /\ Exists(id) /\ t \notin issued
    /\ live' = [live EXCEPT ![id] = t]
    /\ issued' = issued \cup {t}
    /\ UNCHANGED <<accounts, sessions>>

\* The token sets the password and is gone.
Confirm(id, pw) ==
    /\ Exists(id) /\ accounts[id].active /\ live[id] # Absent
    /\ Change(id, [accounts[id] EXCEPT !.password = pw])
    /\ live' = [live EXCEPT ![id] = Absent]
    /\ UNCHANGED issued

\* A step that changes nothing is no operation.
Next ==
    /\ vars' # vars
    /\ \E id \in Id :
         \/ Login(id)
         \/ \E pw \in Password : SetPassword(id, pw) \/ Confirm(id, pw)
         \/ \E role \in Role, active \in BOOLEAN : Administer(id, role, active)
         \/ \E email \in Email, pw \in Password, role \in Role :
              Create(id, email, pw, role)
         \/ \E t \in Reset : Issue(id, t)

Spec == Init /\ [][Next]_vars

===============================================================================
