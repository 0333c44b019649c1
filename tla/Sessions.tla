------------------------------ MODULE Sessions ------------------------------
(***************************************************************************)
(* Logins and logouts of the accounts: tokens that expire by themselves,   *)
(* the blocklist in Redis whose entries expire too, and the bearer that    *)
(* decodes a token, awaits the blocklist and lets the call through         *)
(* (src/auth/utils.py, src/auth/dependencies.py, src/db/redis.py).  The    *)
(* bearer's verify_token_data returns nothing either way, so both kinds of *)
(* token are taken.  Redis is assumed to keep its entries.                 *)
(***************************************************************************)
EXTENDS Accounts

CONSTANTS
    AccessTTL,  \* ACCES_TOKEN_EXPIRY
    RefreshTTL, \* REFRESH_TOKEN_EXPIRY
    JtiTTL,     \* JTI_EXPIRY
    Skew,       \* local time less UTC: exp is naive local time, read as UTC
    Delay,      \* longest time from the decoding to the answer of the blocklist
    MaxTime     \* bound: the last tick

ASSUME TimesAssumption ==
    /\ AccessTTL \in Nat /\ RefreshTTL \in Nat /\ JtiTTL \in Nat
    /\ AccessTTL <= JtiTTL
    /\ Skew \in Int
    /\ Delay \in Nat
    /\ MaxTime \in Nat

VARIABLES
    clock,
    logins,     \* the account and time of each
    blocklist,  \* when the entry of a token expires
    revoked,    \* history: when a token was first revoked
    revived     \* history: revoked tokens that were let through by a later call

tokens == <<logins, blocklist, revoked, revived>>
users == <<accounts, mailed>>
vars == <<accounts, mailed, calls, clock, logins, blocklist, revoked, revived>>

Login == [name : Names, at : Nat]

ASSUME NeverAssumption == None \notin Login /\ None \notin Nat

TypeOK ==
    /\ accounts \in [Names -> Account \cup {None}]
    /\ mailed \subseteq Emails
    /\ calls \in [Handlers -> Call]
    /\ clock \in Nat
    /\ logins \in [Logins -> Login \cup {None}]
    /\ blocklist \in [Token -> Nat]
    /\ revoked \in [Token -> Nat \cup {None}]
    /\ revived \subseteq Token

Init ==
    /\ InitAccounts
    /\ calls = [h \in Handlers |-> Idle]
    /\ clock = 0
    /\ logins = [l \in Logins |-> None]
    /\ blocklist = [t \in Token |-> 0]
    /\ revoked = [t \in Token |-> None]
    /\ revived = {}

\* The bearer is quick: a decoded token waits no longer than Delay.
Tick ==
    /\ clock < MaxTime
    /\ \A h \in Handlers : calls[h].pc = "decoded" => clock < calls[h].at + Delay
    /\ clock' = clock + 1
    /\ UNCHANGED <<users, calls, tokens>>

\* Two tokens for one of the accounts with this e-mail, verified or not.
LogIn(l, e) ==
    /\ logins[l] = None
    /\ \A k \in Logins : k < l => logins[k] # None
    /\ \E n \in ByEmail(e) : logins' = [logins EXCEPT ![l] = [name |-> n, at |-> clock]]
    /\ UNCHANGED <<users, calls, clock, blocklist, revoked, revived>>

Expiry(t) ==
    logins[t[1]].at + Skew + (IF t[2] = "access" THEN AccessTTL ELSE RefreshTTL)

\* decode_token
Decode(h, t, logout) ==
    /\ calls[h] = Idle
    /\ logins[t[1]] # None
    /\ clock < Expiry(t)
    /\ calls' = [calls EXCEPT ![h] = [Idle EXCEPT !.pc = "decoded", !.token = t,
                     !.at = clock, !.logout = logout, !.late = revoked[t] # None]]
    /\ UNCHANGED <<users, clock, tokens>>

\* token_in_blocklist
Listed(t) == clock < blocklist[t]

Refuse(h) ==
    /\ calls[h].pc = "decoded"
    /\ Listed(calls[h].token)
    /\ calls' = [calls EXCEPT ![h] = Idle]
    /\ UNCHANGED <<users, clock, tokens>>

\* The route runs; that of logout has an entry to write yet.
Accept(h) ==
    LET c == calls[h] IN
    /\ c.pc = "decoded"
    /\ ~Listed(c.token)
    /\ revived' = IF c.late THEN revived \cup {c.token} ELSE revived
    /\ calls' = [calls EXCEPT ![h] = IF c.logout THEN [c EXCEPT !.pc = "leaving"] ELSE Idle]
    /\ UNCHANGED <<users, clock, logins, blocklist, revoked>>

\* Faulty: a tick short.
ShortEntry(now) == now + JtiTTL - 1

Entry(now) == now + JtiTTL

\* add_jti_to_blocklist
Revoke(h) ==
    LET t == calls[h].token IN
    /\ calls[h].pc = "leaving"
    /\ blocklist' = [blocklist EXCEPT ![t] = Entry(clock)]
    /\ revoked' = [revoked EXCEPT ![t] = IF @ = None THEN clock ELSE @]
    /\ calls' = [calls EXCEPT ![h] = Idle]
    /\ UNCHANGED <<users, clock, logins, revived>>

TokenStep(h) ==
    \/ \E t \in Token, logout \in BOOLEAN : Decode(h, t, logout)
    \/ Refuse(h)
    \/ Accept(h)
    \/ Revoke(h)

Next ==
    \/ Tick
    \/ \E l \in Logins, e \in Emails : LogIn(l, e)
    \/ AccountsNext /\ UNCHANGED <<clock, tokens>>
    \/ \E h \in Handlers : TokenStep(h)

Spec == Init /\ [][Next]_vars

-----------------------------------------------------------------------------

\* A logout lasts: an access token that was revoked is let through by no call
\* that begins later, although its entry in the blocklist expires.  The entry
\* outlives the token unless the logout came within Delay of the login, or the
\* server's clock shows a time ahead of UTC (utils.py:35, redis.py:12).
LogoutLasts ==
    \A t \in revived : t[2] = "access" =>
        revoked[t] < logins[t[1]].at + Skew + Delay

\* A refresh token lives longer than its entry.  A revoked token of either kind
\* is back no sooner than an entry written at its first revocation goes: later
\* ones do not shorten it (redis.py:8).
BackAfterEntry == \A t \in revived : clock >= revoked[t] + JtiTTL
=============================================================================
