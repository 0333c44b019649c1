------------------------------ MODULE Accounts ------------------------------
(***************************************************************************)
(* Registration and verification (src/auth): a handler looks for the       *)
(* e-mail, commits the account, then queues the mail with the link; the    *)
(* link carries the e-mail, and whoever it is for is looked up when it is  *)
(* used.  The link of an invitation carries an e-mail in the same way, and *)
(* is taken as well.  Only the names are unique in the table.  Passwords   *)
(* are written by registration and change_password and read by no code:    *)
(* left out.                                                               *)
(***************************************************************************)
EXTENDS Integers, FiniteSets

CONSTANTS
    Names,      \* usernames, the key of an account
    Emails,
    Logins,     \* logins, numbered as they are made
    Handlers,
    None

ASSUME LoginsAssumption == Logins \subseteq Nat
ASSUME HandlersAssumption == IsFiniteSet(Handlers)

VARIABLES
    accounts,   \* table users
    mailed,     \* e-mails that a link, of either kind, was queued for
    calls       \* what each handler is doing

Account == [email : Emails, verified : BOOLEAN]

Token == Logins \X {"access", "refresh"}

ASSUME NoneAssumption == None \notin Names \cup Emails /\ None \notin Account

\* pc: "checked" and "created" registering, "found" verifying, "decoded" and
\* "leaving" presenting a token.  at, late, logout: see Sessions.
Call == [pc : {"idle", "checked", "created", "found", "decoded", "leaving"},
         name : Names \cup {None},
         email : Emails \cup {None},
         token : Token \cup {None},
         at : Nat,
         late : BOOLEAN,
         logout : BOOLEAN]

Idle == [pc |-> "idle", name |-> None, email |-> None, token |-> None,
         at |-> 0, late |-> FALSE, logout |-> FALSE]

Registered == {n \in Names : accounts[n] # None}

\* Faulty: any account.
AnyAccount(e) == Registered

ByEmail(e) == {n \in Registered : accounts[n].email = e}

InitAccounts ==
    /\ accounts = [n \in Names |-> None]
    /\ mailed = {}

\* Faulty: nobody looks.
CheckNothing(h, n, e) ==
    /\ calls[h] = Idle
    /\ calls' = [calls EXCEPT ![h] = [Idle EXCEPT !.pc = "checked", !.name = n, !.email = e]]
    /\ UNCHANGED <<accounts, mailed>>

\* user_exists
Check(h, n, e) ==
    /\ calls[h] = Idle
    /\ ByEmail(e) = {}
    /\ calls' = [calls EXCEPT ![h] = [Idle EXCEPT !.pc = "checked", !.name = n, !.email = e]]
    /\ UNCHANGED <<accounts, mailed>>

\* The name must be free; nothing asks for the e-mail again.
CommitAccount(h) ==
    LET c == calls[h] IN
    /\ c.pc = "checked"
    /\ accounts[c.name] = None
    /\ accounts' = [accounts EXCEPT ![c.name] = [email |-> c.email, verified |-> FALSE]]
    /\ calls' = [calls EXCEPT ![h].pc = "created"]
    /\ UNCHANGED mailed

\* send_verify_account_email, and the response
Mail(h) ==
    LET c == calls[h] IN
    /\ c.pc = "created"
    /\ mailed' = mailed \cup {c.email}
    /\ calls' = [calls EXCEPT ![h] = Idle]
    /\ UNCHANGED accounts

\* Any account may have a board and invite to it whoever is registered: the mail
\* is queued for the e-mail of the one invited.
Invite(n) ==
    /\ n \in Registered
    /\ mailed' = mailed \cup {accounts[n].email}
    /\ UNCHANGED <<accounts, calls>>

\* A link is opened: the first of the accounts with its e-mail, in no order.
Find(h, e) ==
    /\ calls[h] = Idle
    /\ e \in mailed
    /\ \E n \in ByEmail(e) :
        calls' = [calls EXCEPT ![h] = [Idle EXCEPT !.pc = "found", !.name = n]]
    /\ UNCHANGED <<accounts, mailed>>

Verify(h) ==
    /\ calls[h].pc = "found"
    /\ accounts' = [accounts EXCEPT ![calls[h].name].verified = TRUE]
    /\ calls' = [calls EXCEPT ![h] = Idle]
    /\ UNCHANGED mailed

\* The database, Redis, the broker or the process fails: what is committed stays.
Fail(h) ==
    /\ calls[h] # Idle
    /\ calls' = [calls EXCEPT ![h] = Idle]
    /\ UNCHANGED <<accounts, mailed>>

AccountStep(h) ==
    \/ \E n \in Names, e \in Emails : Check(h, n, e)
    \/ CommitAccount(h)
    \/ Mail(h)
    \/ \E e \in Emails : Find(h, e)
    \/ Verify(h)
    \/ Fail(h)

\* What the services of accounts do.
AccountsNext ==
    \/ \E h \in Handlers : AccountStep(h)
    \/ \E n \in Names : Invite(n)

-----------------------------------------------------------------------------

\* Whoever is verified has an e-mail that a link was mailed to, that of his own
\* registration or, when that mail was lost, of an invitation: the account that
\* a link verifies is found by the e-mail in it (routes.py:193, service.py:37)
\* and written later by another lookup.
LinkVerifiesItsOwner ==
    \A n \in Registered : accounts[n].verified => accounts[n].email \in mailed

\* The check of an e-mail lets through as many accounts of it as registrations
\* overlap, never more, however often it is tried (service.py:74).
AccountsPerHandler == \A e \in Emails : Cardinality(ByEmail(e)) <= Cardinality(Handlers)
=============================================================================
