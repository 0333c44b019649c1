--------------------------- MODULE SessionsProofs ---------------------------
(***************************************************************************)
(* Sessions for any accounts, logins, handlers, lifetimes and clock skew:  *)
(* a link only verifies accounts of an e-mail that one was sent to, no     *)
(* e-mail has more accounts than there are handlers, a logout outlives the *)
(* access token it revokes, and no revoked token is back before its entry  *)
(* in the blocklist is gone.                                               *)
(***************************************************************************)
EXTENDS Sessions, FiniteSetTheorems, TLAPS

-----------------------------------------------------------------------------
(* The inductive invariant *)

\* What a handler under way remembers, and still finds in the tables.
CallsFilled ==
    \A h \in Handlers : LET c == calls[h] IN
        /\ c.pc = "checked" => c.name \in Names /\ c.email \in Emails
        /\ c.pc = "created" => /\ c.name \in Registered
                               /\ c.email = accounts[c.name].email
        /\ c.pc = "found" => /\ c.name \in Registered
                             /\ accounts[c.name].email \in mailed
        /\ c.pc \in {"decoded", "leaving"} =>
            /\ c.token \in Token
            /\ logins[c.token[1]] # None

\* Who has found an e-mail free and not taken it yet.
Registering(e) == {h \in Handlers : calls[h].pc = "checked" /\ calls[h].email = e}

\* A registration that finds an e-mail free is the first of those that will share
\* it; every account of that e-mail was once one of them.
RoomForAll ==
    \A e \in Emails :
        /\ IsFiniteSet(ByEmail(e))
        /\ Cardinality(ByEmail(e)) + Cardinality(Registering(e)) <= Cardinality(Handlers)

\* A token is decoded before it expires and answered for soon after.
CallsInTime ==
    \A h \in Handlers : LET c == calls[h] IN
        c.pc = "decoded" =>
            /\ clock <= c.at + Delay
            /\ c.at < Expiry(c.token)
            /\ c.late => revoked[c.token] # None

\* The entry of a token stays at least JtiTTL from its first revocation.
EntriesLast ==
    \A t \in Token : revoked[t] # None =>
        /\ logins[t[1]] # None
        /\ revoked[t] + JtiTTL <= blocklist[t]

\* No revocation lies in the future.
EntriesBefore == \A t \in Token : revoked[t] # None => revoked[t] <= clock

\* A token comes back only when its entry is gone, and went before it did.
RevivedOutlived ==
    \A t \in revived :
        /\ revoked[t] # None
        /\ revoked[t] + JtiTTL <= clock
        /\ revoked[t] + JtiTTL < Expiry(t) + Delay

Times == CallsInTime /\ EntriesBefore /\ EntriesLast /\ RevivedOutlived
IInv == TypeOK /\ CallsFilled /\ LinkVerifiesItsOwner /\ RoomForAll /\ Times

-----------------------------------------------------------------------------

LEMMA IdleIsCall == Idle \in Call
BY DEF Idle, Call, Token

LEMMA ExpiryType ==
    ASSUME TypeOK, NEW t \in Token, logins[t[1]] # None
    PROVE  Expiry(t) \in Int
<1>1. t[1] \in Logins
  BY DEF Token
<1>2. logins[t[1]] \in Login
  BY <1>1 DEF TypeOK
<1> QED
  BY <1>2, TimesAssumption DEF Expiry, Login

LEMMA InitRoom == Init => RoomForAll
<1> SUFFICES ASSUME Init, NEW e \in Emails
             PROVE  /\ IsFiniteSet(ByEmail(e))
                    /\ Cardinality(ByEmail(e)) + Cardinality(Registering(e)) <= Cardinality(Handlers)
  BY DEF RoomForAll
<1>1. ByEmail(e) = {} /\ Registering(e) = {}
  BY DEF Init, InitAccounts, ByEmail, Registered, Registering, Idle
<1>2. Cardinality(Handlers) \in Nat
  BY HandlersAssumption, FS_CardinalityType DEF HandlersAssumption
<1> QED
  BY <1>1, <1>2, FS_EmptySet

LEMMA InitIInv == Init => IInv
<1> SUFFICES ASSUME Init PROVE IInv
  OBVIOUS
<1>1. TypeOK
  BY IdleIsCall DEF Init, InitAccounts, TypeOK
<1>2. CallsFilled /\ Times
  BY DEF Init, CallsFilled, Times, CallsInTime, EntriesBefore, EntriesLast, RevivedOutlived, Idle
<1>3. LinkVerifiesItsOwner
  BY DEF Init, InitAccounts, LinkVerifiesItsOwner, Registered
<1>4. RoomForAll
  BY InitRoom
<1> QED
  BY <1>1, <1>2, <1>3, <1>4 DEF IInv

\* The handlers of registration and verification.
LEMMA AccountType ==
    ASSUME IInv, NEW h \in Handlers, AccountStep(h), UNCHANGED <<clock, tokens>>
    PROVE  TypeOK'
<1> USE IdleIsCall DEF IInv, TypeOK, tokens
<1>1. CASE \E n \in Names, e \in Emails : Check(h, n, e)
  <2>1. PICK n \in Names, e \in Emails : Check(h, n, e)
    BY <1>1
  <2>2. [Idle EXCEPT !.pc = "checked", !.name = n, !.email = e] \in Call
    BY DEF Idle, Call, Token
  <2> QED
    BY <2>1, <2>2 DEF Check
<1>2. CASE CommitAccount(h)
  <2>1. [calls[h] EXCEPT !.pc = "created"] \in Call
    BY DEF Call
  <2>2. calls' \in [Handlers -> Call]
    BY <1>2, <2>1 DEF CommitAccount
  <2>3. accounts' \in [Names -> Account \cup {None}]
    BY <1>2 DEF CommitAccount, CallsFilled, Account
  <2> QED
    BY <1>2, <2>2, <2>3 DEF CommitAccount
<1>3. CASE Mail(h)
  BY <1>3 DEF Mail, CallsFilled, Registered, Account
<1>4. CASE \E e \in Emails : Find(h, e)
  <2>1. PICK e \in Emails : Find(h, e)
    BY <1>4
  <2>2. \A n \in Names : [Idle EXCEPT !.pc = "found", !.name = n] \in Call
    BY DEF Idle, Call, Token
  <2> QED
    BY <2>1, <2>2 DEF Find, ByEmail, Registered
<1>5. CASE Verify(h)
  BY <1>5 DEF Verify, CallsFilled, Registered, Account
<1>6. CASE Fail(h)
  BY <1>6 DEF Fail
<1> QED
  BY <1>1, <1>2, <1>3, <1>4, <1>5, <1>6 DEF AccountStep

LEMMA AccountKeeps ==
    ASSUME IInv, NEW h \in Handlers, AccountStep(h), UNCHANGED <<clock, tokens>>
    PROVE  CallsFilled' /\ LinkVerifiesItsOwner' /\ Times'
<1> USE DEF IInv, TypeOK, tokens, Registered
<1>0. Times'
  <2>1. \A g \in Handlers : \/ calls'[g] = calls[g]
                            \/ calls'[g].pc # "decoded"
    <3>1. CASE calls' = [calls EXCEPT ![h].pc = "created"]
      BY <3>1 DEF Call
    <3>2. CASE calls' = [calls EXCEPT ![h] = Idle]
      BY <3>2 DEF Idle
    <3>3. CASE \E n \in Names, e \in Emails : Check(h, n, e)
      BY <3>3 DEF Check, Idle
    <3>4. CASE \E e \in Emails : Find(h, e)
      BY <3>4 DEF Find, Idle
    <3> QED
      BY <3>1, <3>2, <3>3, <3>4 DEF AccountStep, CommitAccount, Mail, Verify, Fail
  <2>2. \A t \in Token : Expiry(t)' = Expiry(t)
    BY DEF Expiry
  <2>3. CallsInTime'
    BY <2>1, <2>2 DEF Times, CallsInTime, CallsFilled
  <2> QED
    BY <2>2, <2>3 DEF Times, EntriesBefore, EntriesLast, RevivedOutlived
<1>1. CASE \E n \in Names, e \in Emails : Check(h, n, e)
  BY <1>0, <1>1 DEF Check, CallsFilled, LinkVerifiesItsOwner, Idle
<1>2. CASE CommitAccount(h)
  <2> DEFINE c == calls[h]
  <2>1. /\ c.name \in Names /\ c.email \in Emails
        /\ accounts' = [accounts EXCEPT ![c.name] = [email |-> c.email, verified |-> FALSE]]
        /\ accounts[c.name] = None
        /\ calls' = [calls EXCEPT ![h].pc = "created"]
        /\ mailed' = mailed
    BY <1>2 DEF CommitAccount, CallsFilled
  <2>2. accounts'[c.name] # None
    <3>1. accounts'[c.name] = [email |-> c.email, verified |-> FALSE]
      BY <2>1
    <3>2. [email |-> c.email, verified |-> FALSE] \in Account
      BY <2>1 DEF Account
    <3> QED
      BY <3>1, <3>2, NoneAssumption DEF NoneAssumption
  <2>3. CallsFilled'
    BY <2>1, <2>2 DEF CallsFilled, Call
  <2>4. LinkVerifiesItsOwner'
    BY <2>1, <2>2 DEF LinkVerifiesItsOwner
  <2> QED
    BY <1>0, <2>3, <2>4
<1>3. CASE Mail(h)
  BY <1>0, <1>3 DEF Mail, CallsFilled, LinkVerifiesItsOwner, Idle
<1>4. CASE \E e \in Emails : Find(h, e)
  BY <1>0, <1>4 DEF Find, ByEmail, CallsFilled, LinkVerifiesItsOwner, Idle
<1>5. CASE Verify(h)
  <2>1. accounts[calls[h].name] \in Account
    BY <1>5 DEF Verify, CallsFilled
  <2>2. /\ \A n \in Names : /\ accounts'[n] = None <=> accounts[n] = None
                            /\ accounts[n] # None => accounts'[n].email = accounts[n].email
        /\ \A n \in Names : accounts'[n] # accounts[n] => accounts[n].email \in mailed /\ accounts[n] # None
    BY <1>5, <2>1, NoneAssumption DEF Verify, CallsFilled, Account
  <2>3. CallsFilled'
    <3>1. ASSUME NEW g \in Handlers, g # h
          PROVE  calls'[g] = calls[g]
      BY <1>5, <3>1 DEF Verify
    <3>2. calls'[h] = Idle /\ mailed' = mailed /\ logins' = logins
      BY <1>5 DEF Verify
    <3>3. \A g \in Handlers : calls[g].pc = "found" \/ calls[g].pc = "created" =>
            accounts'[calls[g].name] # None /\ accounts'[calls[g].name].email = accounts[calls[g].name].email
      BY <2>2 DEF CallsFilled
    <3> QED
      BY <3>1, <3>2, <3>3 DEF CallsFilled, Idle
  <2>4. LinkVerifiesItsOwner'
    <3>1. mailed' = mailed
      BY <1>5 DEF Verify
    <3> QED
      BY <2>2, <3>1 DEF LinkVerifiesItsOwner
  <2> QED
    BY <1>0, <2>3, <2>4
<1>6. CASE Fail(h)
  BY <1>0, <1>6 DEF Fail, CallsFilled, LinkVerifiesItsOwner, Idle
<1> QED
  BY <1>1, <1>2, <1>3, <1>4, <1>5, <1>6 DEF AccountStep

\* The handlers that present a token.
LEMMA TokenType ==
    ASSUME IInv, NEW h \in Handlers, TokenStep(h)
    PROVE  TypeOK'
<1> USE IdleIsCall DEF IInv, TypeOK, users, tokens
<1>1. CASE \E t \in Token, logout \in BOOLEAN : Decode(h, t, logout)
  <2>1. PICK t \in Token, logout \in BOOLEAN : Decode(h, t, logout)
    BY <1>1
  <2>2. [Idle EXCEPT !.pc = "decoded", !.token = t, !.at = clock, !.logout = logout,
                     !.late = revoked[t] # None] \in Call
    BY DEF Idle, Call
  <2> QED
    BY <2>1, <2>2 DEF Decode
<1>2. CASE Refuse(h)
  BY <1>2 DEF Refuse
<1>3. CASE Accept(h)
  <2>1. [calls[h] EXCEPT !.pc = "leaving"] \in Call
    BY DEF Call
  <2>2. calls[h].token \in Token
    BY <1>3 DEF Accept, CallsFilled
  <2> QED
    BY <1>3, <2>1, <2>2 DEF Accept
<1>4. CASE Revoke(h)
  <2>1. calls[h].token \in Token /\ Entry(clock) \in Nat
    BY <1>4, TimesAssumption DEF Revoke, CallsFilled, Entry
  <2> QED
    BY <1>4, <2>1 DEF Revoke
<1> QED
  BY <1>1, <1>2, <1>3, <1>4 DEF TokenStep

LEMMA TokenKeeps ==
    ASSUME IInv, NEW h \in Handlers, TokenStep(h)
    PROVE  CallsFilled' /\ LinkVerifiesItsOwner' /\ Times'
<1> USE DEF IInv, TypeOK, users, tokens, Registered
<1>1. UNCHANGED <<users, clock, logins>>
  BY DEF TokenStep, Decode, Refuse, Accept, Revoke
<1>2. LinkVerifiesItsOwner'
  BY <1>1 DEF LinkVerifiesItsOwner
<1>3. \A t \in Token : Expiry(t)' = Expiry(t)
  BY <1>1 DEF Expiry
<1>4. CASE \E t \in Token, logout \in BOOLEAN : Decode(h, t, logout)
  <2>1. PICK t \in Token, logout \in BOOLEAN : Decode(h, t, logout)
    BY <1>4
  <2>2. /\ calls' = [calls EXCEPT ![h] = calls'[h]]
        /\ calls'[h].pc = "decoded" /\ calls'[h].token = t /\ calls'[h].at = clock
        /\ calls'[h].late <=> revoked[t] # None
        /\ logins[t[1]] # None /\ clock < Expiry(t)
        /\ UNCHANGED <<blocklist, revoked, revived>>
    BY <2>1 DEF Decode, Idle
  <2>3. CallsFilled'
    BY <1>1, <2>2 DEF CallsFilled
  <2>4. Times'
    BY <1>1, <1>3, <2>2, TimesAssumption
    DEF Times, CallsInTime, EntriesBefore, EntriesLast, RevivedOutlived, CallsFilled
  <2> QED
    BY <1>2, <2>3, <2>4
<1>5. CASE Refuse(h)
  BY <1>1, <1>2, <1>3, <1>5
  DEF Refuse, CallsFilled, Times, CallsInTime, EntriesBefore, EntriesLast, RevivedOutlived, Idle
<1>6. CASE Accept(h)
  <2> DEFINE c == calls[h]
  <2>1. c.token \in Token /\ c.pc = "decoded" /\ logins[c.token[1]] # None
    BY <1>6 DEF Accept, CallsFilled
  <2>2. UNCHANGED <<blocklist, revoked>>
    BY <1>6 DEF Accept
  <2>3. \A g \in Handlers : calls'[g] = calls[g] \/ calls'[g].pc # "decoded"
    BY <1>6 DEF Accept, Call, Idle
  <2>4. CallsFilled'
    BY <1>1, <1>6, <2>1 DEF Accept, CallsFilled, Call, Idle
  <2>5. c.late => /\ revoked[c.token] # None
                  /\ revoked[c.token] + JtiTTL <= clock
                  /\ revoked[c.token] + JtiTTL < Expiry(c.token) + Delay
    <3> SUFFICES ASSUME c.late
                 PROVE  /\ revoked[c.token] # None
                        /\ revoked[c.token] + JtiTTL <= clock
                        /\ revoked[c.token] + JtiTTL < Expiry(c.token) + Delay
      OBVIOUS
    <3>1. revoked[c.token] # None /\ clock <= c.at + Delay /\ c.at < Expiry(c.token)
      BY <2>1 DEF Times, CallsInTime
    <3>2. revoked[c.token] + JtiTTL <= blocklist[c.token]
      BY <2>1, <3>1 DEF Times, EntriesLast
    <3>3. blocklist[c.token] <= clock
      <4>1. ~(clock < blocklist[c.token])
        BY <1>6 DEF Accept, Listed
      <4>2. blocklist[c.token] \in Nat /\ clock \in Nat
        BY <2>1
      <4> QED
        BY <4>1, <4>2
    <3>4. /\ revoked[c.token] \in Nat /\ c.at \in Nat /\ Expiry(c.token) \in Int
          /\ blocklist[c.token] \in Nat
      BY <2>1, <3>1, ExpiryType DEF Call
    <3> QED
      BY <3>1, <3>2, <3>3, <3>4, TimesAssumption DEF TimesAssumption
  <2>6. revived' \subseteq revived \cup {t \in Token : t = c.token /\ c.late}
    BY <1>6, <2>1 DEF Accept
  <2>7. RevivedOutlived'
    BY <1>1, <1>3, <2>1, <2>2, <2>5, <2>6 DEF Times, RevivedOutlived
  <2>8. CallsInTime' /\ EntriesLast'
    BY <1>1, <1>3, <2>2, <2>3 DEF Times, CallsInTime, EntriesLast, CallsFilled
  <2>9. EntriesBefore'
    BY <1>1, <2>2 DEF Times, EntriesBefore
  <2> QED
    BY <1>2, <2>4, <2>7, <2>8, <2>9 DEF Times
<1>7. CASE Revoke(h)
  <2> DEFINE t == calls[h].token
  <2>1. t \in Token /\ logins[t[1]] # None
    BY <1>7 DEF Revoke, CallsFilled
  <2>2. /\ blocklist' = [blocklist EXCEPT ![t] = clock + JtiTTL]
        /\ revoked' = [revoked EXCEPT ![t] = IF @ = None THEN clock ELSE @]
        /\ calls' = [calls EXCEPT ![h] = Idle]
        /\ revived' = revived
    BY <1>7 DEF Revoke, Entry
  <2>3. CallsFilled'
    BY <1>1, <2>2 DEF CallsFilled, Idle
  <2>4. revoked'[t] # None /\ revoked'[t] <= clock
    <3>1. CASE revoked[t] = None
      BY <2>1, <2>2, <3>1, NeverAssumption DEF NeverAssumption
    <3>2. CASE revoked[t] # None
      BY <2>1, <2>2, <3>2 DEF Times, EntriesBefore
    <3> QED
      BY <3>1, <3>2
  <2>5. \A s \in Token : revoked[s] # None => revoked'[s] = revoked[s]
    BY <2>1, <2>2
  <2>6. EntriesLast'
    <3> SUFFICES ASSUME NEW s \in Token, revoked'[s] # None
                 PROVE  logins'[s[1]] # None /\ revoked'[s] + JtiTTL <= blocklist'[s]
      BY DEF EntriesLast
    <3>1. CASE s = t
      <4>1. blocklist'[t] = clock + JtiTTL
        BY <2>1, <2>2
      <4>2. revoked'[t] \in Nat
        BY <2>1, <2>2, <2>4
      <4> QED
        BY <1>1, <2>1, <2>4, <3>1, <4>1, <4>2, TimesAssumption DEF TimesAssumption
    <3>2. CASE s # t
      BY <1>1, <2>1, <2>2, <3>2 DEF Times, EntriesLast
    <3> QED
      BY <3>1, <3>2
  <2>7. RevivedOutlived' /\ CallsInTime'
    BY <1>1, <1>3, <2>2, <2>5 DEF Times, RevivedOutlived, CallsInTime, CallsFilled, Idle
  <2>8. EntriesBefore'
    BY <1>1, <2>1, <2>2, <2>4 DEF Times, EntriesBefore
  <2> QED
    BY <1>2, <2>3, <2>6, <2>7, <2>8 DEF Times
<1> QED
  BY <1>4, <1>5, <1>6, <1>7 DEF TokenStep

\* An invitation adds an e-mail to those mailed, and nothing else.
LEMMA InviteKeeps ==
    ASSUME IInv, NEW n \in Names, Invite(n), UNCHANGED <<clock, tokens>>
    PROVE  TypeOK' /\ CallsFilled' /\ LinkVerifiesItsOwner' /\ Times'
<1> USE DEF IInv, TypeOK, Invite, tokens, Registered
<1>1. TypeOK'
  BY DEF Account
<1>2. \A t \in Token : Expiry(t)' = Expiry(t)
  BY DEF Expiry
<1>3. CallsFilled' /\ LinkVerifiesItsOwner'
  BY DEF CallsFilled, LinkVerifiesItsOwner
<1>4. Times'
  BY <1>2 DEF Times, CallsInTime, CallsFilled, EntriesBefore, EntriesLast, RevivedOutlived
<1> QED
  BY <1>1, <1>3, <1>4

-----------------------------------------------------------------------------
(* Accounts that share an e-mail *)

\* Whatever is no check and no commit of an account adds to neither set.
LEMMA OthersMakeNoRoom ==
    ASSUME IInv, Next, NEW e \in Emails,
           \A h \in Handlers : ~CommitAccount(h),
           \A h \in Handlers, n \in Names : ~Check(h, n, e)
    PROVE  ByEmail(e)' = ByEmail(e) /\ Registering(e)' \subseteq Registering(e)
<1> USE DEF IInv, TypeOK
<1>1. ASSUME UNCHANGED <<accounts, calls>>
      PROVE  ByEmail(e)' = ByEmail(e) /\ Registering(e)' \subseteq Registering(e)
  BY <1>1 DEF ByEmail, Registered, Registering
<1>2. ASSUME NEW h \in Handlers, accounts' = accounts,
             \A g \in Handlers \ {h} : calls'[g] = calls[g],
             calls'[h].pc # "checked" \/ calls'[h].email # e
      PROVE  ByEmail(e)' = ByEmail(e) /\ Registering(e)' \subseteq Registering(e)
  BY <1>2 DEF ByEmail, Registered, Registering
<1>3. ASSUME NEW h \in Handlers, AccountStep(h)
      PROVE  ByEmail(e)' = ByEmail(e) /\ Registering(e)' \subseteq Registering(e)
  <2>1. CASE \E n \in Names, f \in Emails : Check(h, n, f)
    <3>1. PICK n \in Names, f \in Emails : Check(h, n, f)
      BY <2>1
    <3>2. f # e
      BY <3>1
    <3> QED
      BY <1>2, <3>1, <3>2 DEF Check, Idle
  <2>2. CASE Mail(h) \/ Fail(h)
    BY <1>2, <2>2 DEF Mail, Fail, Idle
  <2>3. CASE \E f \in Emails : Find(h, f)
    BY <1>2, <2>3 DEF Find, Idle
  <2>4. CASE Verify(h)
    <3>1. calls[h].name \in Registered /\ accounts[calls[h].name] \in Account
      BY <2>4 DEF Verify, CallsFilled, Registered
    <3>2. \A n \in Names : /\ accounts'[n] = None <=> accounts[n] = None
                           /\ accounts[n] # None => accounts'[n].email = accounts[n].email
      BY <2>4, <3>1, NoneAssumption DEF Verify, Account
    <3>3. ByEmail(e)' = ByEmail(e)
      BY <3>2 DEF ByEmail, Registered
    <3>4. Registering(e)' \subseteq Registering(e)
      BY <2>4 DEF Verify, Registering, Idle
    <3> QED
      BY <3>3, <3>4
  <2> QED
    BY <1>3, <2>1, <2>2, <2>3, <2>4 DEF AccountStep
<1>4. ASSUME NEW h \in Handlers, TokenStep(h)
      PROVE  ByEmail(e)' = ByEmail(e) /\ Registering(e)' \subseteq Registering(e)
  <2>1. accounts' = accounts /\ \A g \in Handlers \ {h} : calls'[g] = calls[g]
    BY <1>4 DEF TokenStep, Decode, Refuse, Accept, Revoke, users
  <2>2. calls'[h].pc # "checked"
    <3>1. CASE \E t \in Token, logout \in BOOLEAN : Decode(h, t, logout)
      BY <3>1 DEF Decode, Idle
    <3>2. CASE Refuse(h) \/ Revoke(h)
      BY <3>2 DEF Refuse, Revoke, Idle
    <3>3. CASE Accept(h)
      <4>1. calls'[h] = Idle \/ calls'[h] = [calls[h] EXCEPT !.pc = "leaving"]
        BY <3>3 DEF Accept
      <4>2. calls[h] \in Call
        OBVIOUS
      <4> QED
        BY <4>1, <4>2 DEF Idle, Call
    <3> QED
      BY <1>4, <3>1, <3>2, <3>3 DEF TokenStep
  <2> QED
    BY <1>2, <2>1, <2>2
<1>5. CASE Tick \/ \E l \in Logins, f \in Emails : LogIn(l, f)
  BY <1>1, <1>5 DEF Tick, LogIn, users
<1>6. ASSUME NEW n \in Names, Invite(n)
      PROVE  ByEmail(e)' = ByEmail(e) /\ Registering(e)' \subseteq Registering(e)
  BY <1>1, <1>6 DEF Invite
<1> QED
  BY <1>3, <1>4, <1>5, <1>6 DEF Next, AccountsNext

LEMMA RoomIsKept ==
    ASSUME IInv, Next
    PROVE  RoomForAll'
<1> SUFFICES ASSUME NEW e \in Emails
             PROVE  /\ IsFiniteSet(ByEmail(e)')
                    /\ Cardinality(ByEmail(e)') + Cardinality(Registering(e)') <= Cardinality(Handlers)
  BY DEF RoomForAll
<1>0. IsFiniteSet(Handlers) /\ Cardinality(Handlers) \in Nat
  BY HandlersAssumption, FS_CardinalityType DEF HandlersAssumption
<1>1. /\ IsFiniteSet(Registering(e)) /\ Cardinality(Registering(e)) \in Nat
      /\ IsFiniteSet(Registering(e)') /\ Cardinality(Registering(e)') \in Nat
      /\ Cardinality(Registering(e)') <= Cardinality(Handlers)
  <2>1. Registering(e) \subseteq Handlers /\ Registering(e)' \subseteq Handlers
    BY DEF Registering
  <2> QED
    BY <1>0, <2>1, FS_Subset, FS_CardinalityType
<1>2. /\ IsFiniteSet(ByEmail(e)) /\ Cardinality(ByEmail(e)) \in Nat
      /\ Cardinality(ByEmail(e)) + Cardinality(Registering(e)) <= Cardinality(Handlers)
  BY FS_CardinalityType DEF IInv, RoomForAll
<1>3. ASSUME NEW h \in Handlers, NEW n \in Names, Check(h, n, e)
      PROVE  /\ IsFiniteSet(ByEmail(e)')
             /\ Cardinality(ByEmail(e)') + Cardinality(Registering(e)') <= Cardinality(Handlers)
  <2>1. ByEmail(e)' = {}
    BY <1>3 DEF Check, ByEmail, Registered
  <2> QED
    BY <1>0, <1>1, <2>1, FS_EmptySet
<1>4. ASSUME NEW h \in Handlers, CommitAccount(h)
      PROVE  /\ IsFiniteSet(ByEmail(e)')
             /\ Cardinality(ByEmail(e)') + Cardinality(Registering(e)') <= Cardinality(Handlers)
  <2> DEFINE c == calls[h]
  <2>1. /\ c.name \in Names /\ c.email \in Emails /\ c.pc = "checked"
        /\ accounts[c.name] = None
        /\ accounts' = [accounts EXCEPT ![c.name] = [email |-> c.email, verified |-> FALSE]]
        /\ calls' = [calls EXCEPT ![h].pc = "created"]
    BY <1>4 DEF CommitAccount, IInv, CallsFilled
  <2>2. Registering(e)' = Registering(e) \ {h}
    BY <2>1 DEF Registering, IInv, TypeOK, Call
  <2>3. CASE c.email = e
    <3>1. h \in Registering(e)
      BY <2>1, <2>3 DEF Registering
    <3>2. [email |-> c.email, verified |-> FALSE] # None
      <4>1. [email |-> c.email, verified |-> FALSE] \in Account
        BY <2>1 DEF Account
      <4> QED
        BY <4>1, NoneAssumption DEF NoneAssumption
    <3>3. ByEmail(e)' = ByEmail(e) \cup {c.name} /\ c.name \notin ByEmail(e)
      BY <2>1, <2>3, <3>2 DEF ByEmail, Registered, IInv, TypeOK
    <3>4. /\ IsFiniteSet(ByEmail(e)')
          /\ Cardinality(ByEmail(e)') = Cardinality(ByEmail(e)) + 1
      <4>1. /\ IsFiniteSet(ByEmail(e) \cup {c.name})
            /\ Cardinality(ByEmail(e) \cup {c.name}) = Cardinality(ByEmail(e)) + 1
        BY <1>2, <3>3, FS_AddElement
      <4> QED
        BY <3>3, <4>1
    <3>5. Cardinality(Registering(e)') = Cardinality(Registering(e)) - 1
      BY <1>1, <2>2, <3>1, FS_RemoveElement
    <3> QED
      BY <1>0, <1>1, <1>2, <3>4, <3>5
  <2>4. CASE c.email # e
    <3>1. ByEmail(e)' = ByEmail(e)
      BY <2>1, <2>4 DEF ByEmail, Registered, IInv, TypeOK
    <3>2. Registering(e)' = Registering(e)
      BY <2>2, <2>4 DEF Registering
    <3> QED
      BY <1>2, <3>1, <3>2
  <2> QED
    BY <2>3, <2>4
<1>5. CASE /\ \A h \in Handlers : ~CommitAccount(h)
           /\ \A h \in Handlers, n \in Names : ~Check(h, n, e)
  <2>1. ByEmail(e)' = ByEmail(e) /\ Registering(e)' \subseteq Registering(e)
    BY <1>5, OthersMakeNoRoom
  <2>2. Cardinality(Registering(e)') <= Cardinality(Registering(e))
    BY <1>1, <2>1, FS_Subset
  <2> QED
    BY <1>0, <1>1, <1>2, <2>1, <2>2
<1> QED
  BY <1>3, <1>4, <1>5

LEMMA NextIInv == IInv /\ [Next]_vars => IInv'
<1> SUFFICES ASSUME IInv, [Next]_vars PROVE IInv'
  OBVIOUS
<1>0. Next => RoomForAll'
  BY RoomIsKept
<1> USE DEF IInv
<1>1. CASE Tick
  <2>1. TypeOK'
    BY <1>1 DEF Tick, TypeOK, users, tokens
  <2>2. CallsFilled' /\ LinkVerifiesItsOwner'
    BY <1>1 DEF Tick, users, tokens, CallsFilled, LinkVerifiesItsOwner, Registered
  <2>3. \A t : Expiry(t)' = Expiry(t)
    BY <1>1 DEF Tick, tokens, Expiry
  <2>4. CallsInTime'
    BY <1>1, <2>3, TimesAssumption DEF Tick, tokens, TypeOK, Call, Times, CallsInTime
  <2>5. EntriesBefore' /\ EntriesLast'
    BY <1>1, <2>3 DEF Tick, tokens, TypeOK, Times, EntriesBefore, EntriesLast
  <2>6. RevivedOutlived'
    <3> SUFFICES ASSUME NEW t \in revived
                 PROVE  /\ revoked[t] # None
                        /\ revoked[t] + JtiTTL <= clock + 1
                        /\ revoked[t] + JtiTTL < Expiry(t) + Delay
      BY <1>1, <2>3 DEF Tick, tokens, RevivedOutlived
    <3>1. revoked[t] # None /\ revoked[t] + JtiTTL <= clock
      BY DEF Times, RevivedOutlived
    <3>2. revoked[t] \in Nat /\ clock \in Nat
      BY <3>1 DEF TypeOK
    <3> QED
      BY <3>1, <3>2, TimesAssumption DEF Times, RevivedOutlived, TimesAssumption
  <2> QED
    BY <1>0, <1>1, <2>1, <2>2, <2>4, <2>5, <2>6 DEF Next, Times
<1>2. CASE \E l \in Logins, e \in Emails : LogIn(l, e)
  <2>1. PICK l \in Logins, e \in Emails : LogIn(l, e)
    BY <1>2
  <2>2. PICK n \in Names : logins' = [logins EXCEPT ![l] = [name |-> n, at |-> clock]]
    BY <2>1 DEF LogIn, ByEmail, Registered
  <2>3. /\ UNCHANGED <<users, calls, clock, blocklist, revoked, revived>>
        /\ logins[l] = None
    BY <2>1 DEF LogIn
  <2>4. TypeOK'
    BY <2>2, <2>3 DEF TypeOK, users, Login
  <2>5. \A k \in Logins : logins[k] # None => logins'[k] = logins[k]
    BY <2>2, <2>3 DEF TypeOK
  <2>6. \A t \in Token : logins[t[1]] # None =>
            logins'[t[1]] # None /\ Expiry(t)' = Expiry(t)
    BY <2>5 DEF Token, Expiry
  <2>7. CallsFilled' /\ LinkVerifiesItsOwner'
    BY <2>3, <2>6 DEF users, CallsFilled, LinkVerifiesItsOwner, Registered
  <2>8. Times'
    BY <2>3, <2>6 DEF Times, CallsInTime, EntriesBefore, EntriesLast, RevivedOutlived, CallsFilled, TypeOK
  <2> QED
    BY <1>0, <1>2, <2>4, <2>7, <2>8 DEF Next
<1>3. ASSUME NEW h \in Handlers, AccountStep(h), UNCHANGED <<clock, tokens>>
      PROVE  IInv'
  BY <1>0, <1>3, AccountType, AccountKeeps DEF Next, AccountsNext
<1>4. ASSUME NEW h \in Handlers, TokenStep(h)
      PROVE  IInv'
  BY <1>0, <1>4, TokenType, TokenKeeps DEF Next
<1>5. CASE UNCHANGED vars
  BY <1>5 DEF vars, TypeOK, CallsFilled, LinkVerifiesItsOwner, RoomForAll, Registering,
     ByEmail, Registered, Times, CallsInTime, EntriesBefore, EntriesLast, RevivedOutlived, Expiry
<1> QED
  BY <1>1, <1>2, <1>3, <1>4, <1>5, <1>0, InviteKeeps DEF Next, AccountsNext

THEOREM Invariance == Spec => []IInv
BY InitIInv, NextIInv, PTL DEF Spec

-----------------------------------------------------------------------------

\* Accounts, logins and the blocklist stay well-formed.
THEOREM TypeCorrect == Spec => []TypeOK
<1>1. IInv => TypeOK
  BY DEF IInv
<1> QED
  BY <1>1, Invariance, PTL

\* Whoever is verified has an e-mail that a link was mailed to.
THEOREM LinksVerifyOwners == Spec => []LinkVerifiesItsOwner
<1>1. IInv => LinkVerifiesItsOwner
  BY DEF IInv
<1> QED
  BY <1>1, Invariance, PTL

\* As many accounts share an e-mail as registrations can overlap, never more.
THEOREM SharingIsBounded == Spec => []AccountsPerHandler
<1>1. ASSUME IInv PROVE AccountsPerHandler
  <2> SUFFICES ASSUME NEW e \in Emails
               PROVE  Cardinality(ByEmail(e)) <= Cardinality(Handlers)
    BY DEF AccountsPerHandler
  <2>1. IsFiniteSet(Handlers) /\ Registering(e) \subseteq Handlers
    BY HandlersAssumption DEF HandlersAssumption, Registering
  <2>2. /\ Cardinality(ByEmail(e)) \in Nat /\ Cardinality(Registering(e)) \in Nat
        /\ Cardinality(Handlers) \in Nat
    BY <1>1, <2>1, FS_Subset, FS_CardinalityType DEF IInv, RoomForAll
  <2> QED
    BY <1>1, <2>2 DEF IInv, RoomForAll
<1> QED
  BY <1>1, Invariance, PTL

\* No call that begins after the logout lets a revoked access token through.
THEOREM LogoutsLast == Spec => []LogoutLasts
<1>1. ASSUME IInv PROVE LogoutLasts
  <2> SUFFICES ASSUME NEW t \in revived, t[2] = "access"
               PROVE  revoked[t] < logins[t[1]].at + Skew + Delay
    BY DEF LogoutLasts
  <2>1. t \in Token /\ revoked[t] # None /\ revoked[t] + JtiTTL < Expiry(t) + Delay
    BY <1>1 DEF IInv, TypeOK, Times, RevivedOutlived
  <2>2. logins[t[1]] # None /\ t[1] \in Logins
    BY <1>1, <2>1 DEF IInv, Times, EntriesLast, Token
  <2>3. revoked[t] \in Nat /\ logins[t[1]].at \in Nat
    BY <1>1, <2>1, <2>2 DEF IInv, TypeOK, Login
  <2>4. Expiry(t) = logins[t[1]].at + Skew + AccessTTL
    BY DEF Expiry
  <2> QED
    BY <2>1, <2>3, <2>4, TimesAssumption DEF TimesAssumption
<1> QED
  BY <1>1, Invariance, PTL

\* A revoked token of either kind, the refresh token that outlives its entry
\* included, is let through again no sooner than JtiTTL after the first logout.
THEOREM RevokedStayAway == Spec => []BackAfterEntry
<1>1. ASSUME IInv PROVE BackAfterEntry
  <2> SUFFICES ASSUME NEW t \in revived PROVE clock >= revoked[t] + JtiTTL
    BY DEF BackAfterEntry
  <2>1. t \in Token /\ revoked[t] # None /\ revoked[t] + JtiTTL <= clock
    BY <1>1 DEF IInv, TypeOK, Times, RevivedOutlived
  <2>2. revoked[t] \in Nat /\ clock \in Nat
    BY <1>1, <2>1 DEF IInv, TypeOK
  <2> QED
    BY <2>1, <2>2, TimesAssumption DEF TimesAssumption
<1> QED
  BY <1>1, Invariance, PTL
=============================================================================
