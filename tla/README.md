# A TLA+ model of the board management API

The program is a FastAPI application: REST handlers over PostgreSQL (through an
asynchronous SQLAlchemy session), Redis for the token blocklist and the rate
limiter, Celery for mail, web sockets for live notifications. This directory
holds TLA+ modules of its core, the TLC runs that check them on small instances,
and theorems about them for instances of any size, checked by TLAPS.

Paths below are relative to the repository (`src/board/service.py` and so on).

## 1. Inventory

| Component | State it keeps | Operations | Here |
|---|---|---|---|
| Schema and sessions (`src/db/models.py`, `src/db/main.py`, `migrations/`) | eight tables; one session per request | SELECT, flush, commit, rollback | `BoardTables` |
| Permission check (`src/board/service.py:85-107`) | none | `board_admin_check` | `BoardTables!HasAuthority` |
| Membership and join requests (`src/board/service.py`, `src/auth/service.py`) | `boardusers`, `requests` | change of role, removal, departure, request, approval, rejection | `Membership`; `Access` is the abstract specification |
| Invitations (`src/auth/service.py:347-452`, two routes each way) | `invitations`, mailed links | send, accept, decline | `Invitations` |
| Board lifecycle (`src/board/service.py`) | `boards` | create, duplicate, archive, unarchive, update, publish or hide, delete | `BoardLifecycle` |
| Audit log | `audits` | one insert per logged action | `BoardTables!Logged` |
| Stored notifications | `notifications` | one insert per event and recipient; list, read, read-all | counted: `BoardTables!Notified`; row by row: `Delivery`; abstract: `Inbox` |
| Live delivery (`src/websocket_manager.py`, `src/auth/routes.py:330-336`) | dictionary of open sockets, per process | connect, disconnect, push | `Delivery` |
| Rate limiter (`src/ratelimiter.py`) | a sorted set per client and route in Redis | `check_rate_limit`, refusal, failing open | `RateLimiter` |
| Tokens and blocklist (`src/auth/utils.py`, `src/auth/dependencies.py`, `src/db/redis.py`) | blocklist entries that expire | login, the bearer of every route, logout | `Sessions` |
| Accounts (`src/auth/service.py`) | `users` | register, verify, log in; change password | `Accounts`; passwords left out |
| Lists and search | none | paged SELECTs | not modelled |
| Errors, configuration, middleware, Alembic's `env.py` | none | | not modelled |
| Mail worker (`src/celery_tasks.py`) | queue in Redis | send | its effect only: `mailed` |

How they interact. A route calls one or two services on the same session. A
service reads with one `await session.execute` at a time, records its writes in
the session, writes an audit row (`log_board_action`) and a notification row
(`send_notification`, which pushes to the socket of the recipient before the
commit: an exception of somebody else's socket ends the call), and commits once; `create_board` commits twice. The invitation mail is
queued before the invitation is committed. Nothing but the database connects two
handlers, and nothing in the code locks a row: no `with_for_update`, no unique
constraint on (user, board), no version column.

What is hard. Every check a handler makes is on rows it read one or more awaits
before its commit, while other handlers commit. Foreign keys and the row count
of an UPDATE are the only things the database checks again. Deletion cascades
through five tables under the feet of handlers that have checked the board. A
link in a mail never expires and is used any number of times. A handler may
fail, or its process die, between any two of its steps. `PROJECT.json` lists
these hazards one by one with their lines.

What makes each component correct:

- memberships: each has a grant, none appears or vanishes without a trace in the
  log, none ends more often than handlers overlap, no role without an explanation,
  the creator stays one until a removal or a departure, one per user (violated);
- requests: committed with their audit row and the owner's notification; what was
  decided never shows as undecided again (approved may still become rejected, and the
  reverse), is notified and never hidden; one per user (violated), and never more
  than the handlers that can check at the same time;
- invitations: a link and a notification each, accepted no more often than handlers
  overlap; a second one of one sender makes the links of both useless, and neither
  goes before the board;
- boards: gone for good, with everything filed under them; archived only by an
  archive action; no step touches two of them; their creators are members;
- log: it agrees with the memberships, requests and roles it tells of, as long as
  the board lives;
- rate limiter: never more calls than the limit in a window (true up to the delay
  of overlapping calls), no refusal without cause, and the promise of when to
  come back kept (violated);
- notifications: stored for all recipients or none, whatever happens to their
  sockets, shown to each of them in the end, and read only once shown;
- registry: forgets what it is told of, misses only users with several sockets,
  and leaves calls alone when their recipient is offline (violated);
- accounts and sessions: nobody is verified without a link to his e-mail, an e-mail
  has no more accounts than registrations overlap, a logout lasts as long as the
  access token it revokes, up to the offset of local time from UTC and the delay of
  the bearer, and for a refresh token, which lives longer, as long as the
  blocklist entry.

## 2. Modules

    BoardTables      tables, handlers, reads, writes, permission check, Fail
       |   \   \
    Membership  Invitations  BoardLifecycle     the handlers, step by step
       \        |        /
        BoardApp            Next, Spec, invariants, action properties
       /        \
    MCBoardApp   BoardAppTyping   theorem TypeCorrect
    (TLC)             |
                 BoardAppProofs   referential integrity, grants
                      |
                 BoardAppDecisions  roles and decisions
                      |
                 BoardAppAccess     BoardApp implements Access; boards are apart
                      |
                 BoardAppLedgers    archivings, requests, memberships, creators,
                                    invitations, duplicates, ends, answers

    Access           who may be a member, one rule at a time; BoardApp
                     instantiates it as Rules

    Inbox            what stored notifications promise
       |
    Delivery         sockets, registry, notifying calls, reading; instantiates
       |             Inbox as Promise; run by TLC as it is
    DeliveryProofs

    Accounts         registration and verification
       |
    Sessions         logins, tokens, blocklist; Next of both
       /        \
    MCSessions   SessionsProofs

    RateLimiter      one key of the limiter; stands alone
       /        \
    MCRateLimiter  RateLimiterProofs   the limit and the refusals

**State.** `boards`, `boardusers`, `requests`, `invitations` are the tables, as
functions or sets of rows. `audits` and `notifications` count rows per board and
action, or per board, user and type: no code updates or reads a single one of
them in the operations modelled. `mailed` is the set of links given to the mail
queue. `calls[h]` is what handler `h` is doing and what it has read; `served`
counts commits and only bounds the model.

**Steps.** `Begin...` is the call of an operation together with its first read;
`Load...`, `Check...` and `MailInvite` are the awaits that follow; `Commit...` is
the commit with every write the handler has put in the session; `Fail` is any
other end. The decisions behind this:

- PostgreSQL runs at READ COMMITTED (the default; `src/db/main.py` sets none), so
  each SELECT sees what is committed at that moment, and other handlers step
  between two SELECTs. A route's second SELECT of a row whose first object was
  dropped loads it afresh (SQLAlchemy's identity map is weak).
- The writes of a handler become visible at its commit, all at once. An UPDATE
  is sent only for an attribute whose new value differs from the loaded one
  (`CommitApprove`: `was = "approved"` leaves the table alone) and fails with
  StaleDataError when its row is gone (these handlers update one row; for several
  see read-all below). A DELETE of a vanished row only warns.
  An INSERT needs the row its foreign key names (`CanInsert`).
- `one_or_none` raises on two rows: `AtMostOne`, or a singleton in the guard.
- In `delete_board` the unit of work inserts the audit row before it deletes the
  board, and the cascades then take it away again.
- `unborn`, `live`, `gone` is the life of a board uuid; uuid4 does not repeat.
  `known` says that some response has shown the uuid to a client: a client
  can only name boards it was shown. The response of create and duplicate has
  no uuid; lists of boards by membership, and lists of public boards, do.
- `Fail` covers an exception raised anywhere before the commit, a push to a socket
  or to the broker that raises, a transaction PostgreSQL aborts, and the death of
  the process. A mail already queued stays queued.
- Left out of these modules: names, descriptions, text of notifications,
  timestamps, the acting user of an audit row; the operations `get_*`, which change
  nothing; `notify-user` and `notify-all-users`, which only add notifications of a
  type no property of `BoardApp` reads and which `Delivery` has. `accept_user_invite`, `reject_user_invite` and
  `add_user_from_email` are called by no route; with them go the audit actions
  INVITE_ACCEPTED and INVITE_REVOKED, so an acceptance by link logs nothing, and
  `MembershipLedger` counts acceptances by their notifications.

`RateLimiter` is independent of the rest: a route runs it before it calls a
service, and it shares nothing with the tables. Its steps are those between the
awaits of `check_rate_limit`: `Arrive` reads the clock; `Pass` or `Exceed` is the
pipeline (a MULTI/EXEC transaction, so one step), which forgets old entries,
counts, adds this call whatever the count, and renews the expiry of the key;
`Deny` reads the oldest entry and refuses; `FailOpen` is any exception of Redis,
with the pipeline executed or not. `Tick` lets time pass, at most `MaxDelay`
between the reading of a call and its pipeline. The code bounds this delay by
nothing; `MaxDelay` is a parameter that says how the promise weakens with it.
Two calls never read the same time (the code reads microseconds; equal readings
would share one member of the sorted set), and the clocks of the workers and of
Redis agree. `allowed`, `opened` and `denied` are history, read by no step.

`Access` has four variables: the life and the owner of each board, pairs of a
user and a board that are granted, and pairs that are members. `BoardApp` maps
its tables to them (`Lives`, `Owners`, `Grants`: requests and mailed links,
`Members`: memberships without key and role). A board is born with its owner and
dies once; only the owner, or somebody with a grant of his own, is admitted, and
only while the board lives. None of this has handlers in it, so that
`ImplementsAccess` says that checking early and committing late is invisible.

`Delivery` is about rows and sockets, so calls that notify are reduced to what they
do to both: a numbered message for a set of users on a board (`Begin`), a push for
one recipient after the other (`Push`, `PushRaises`), one commit of all rows
(`Commit`). This is `notify-all-users`; every other operation that notifies is the
same with one recipient, and why it notifies is the subject of `BoardApp`. A member
with two memberships gets the row and the push twice; here, once. `registry` is
`ConnectionManager.active_connections`, one per process; one process serves the
application. `sockets` are the connections and what their endpoint is doing:
`open` awaits the first text; `dropped` when the client is gone and the endpoint
does not know; `ended` when a text came, which is the end of the endpoint and of
the connection, without `disconnect`; `gone` after `disconnect`. `disconnect` pops
the entry of the user, whichever socket it holds. A push to a dropped socket may
be taken or may raise, one to an ended socket raises. `LoadAll` and `CommitRead`
are read-all: an UPDATE for each loaded row that was unread. When it is a single one
and a deletion took the row, the driver reports no row and the call raises
StaleDataError (`Stale`, `Refuse`). Two or more go to asyncpg as one batch
(`executemany`), whose rows SQLAlchemy does not count: rows that have gone are
skipped, the rest are marked, and the call answers with all it had loaded.
`Restart` is the process dying:
the registry, the sockets and the calls are lost, the database stays. `Fetch` is
`GET /notifications` over as many pages as there are: a page is a part of the
user's rows, and a client that wants the rest asks for the next one. `posts` and
`fetched` are history.

`Inbox` is `Delivery` without handlers, sockets and failures: post to all
recipients in one step, mark one's own rows, remove with the board. `Delivery`
maps the messages that were answered to those posted.

`Accounts` and `Sessions` share `calls`: a handler registers, verifies, or presents
a token. `Check` is `user_exists`, `CommitAccount` the commit, which only the
uniqueness of the name can refuse, `Mail` the queueing of the link. `/verify/{token}`
decodes any token of the one serializer and salt and reads its `email`
(`src/auth/routes.py:187-192`, `src/auth/utils.py:13-15`), which the token of an
invitation has as well (`src/auth/service.py:372-379`): `Invite` queues such a link
for any account, since any other may have a board to invite it to, and an account
whose own mail was lost by `Fail` can be verified by it. `Find` is the
lookup by e-mail when a link is opened: `result.first()` of as many accounts as
share the e-mail, in no order the query fixes. `first_name` is unique too and
left out: one unique name is enough here. In `Sessions` a clock
ticks; `Decode`, then `Refuse` or `Accept` are the bearer, with the await of the
blocklist between them, at most `Delay` long (the code bounds it by nothing;
`Delay` says how the promise weakens with it); `Revoke` is the route of logout,
after the bearer. `exp` is `datetime.now()`, naive local time, plus the lifetime,
and is compared with UTC: `Skew` is the offset. `verify_token_data` returns nothing
in either bearer, so both kinds of token pass. `revoked` and `revived` are
history.

Definitions marked *Faulty* are plausible mistakes (a lost guard, a row too
many): no action uses them. Put in the place of the definition they follow, each
makes TLC report the property it is paired with in `PROJECT.json`, which shows
that the property does depend on that piece of code.

## 3. Runs

Deadlock is not checked in the runs of `BoardApp`, `RateLimiter` and `Sessions`,
because there the system may stop: `MaxServed` calls have been served, or the clock
has reached `MaxTime`. `Delivery` can always be fetched from or restarted.

Fairness. Only `delivery` states liveness, under `FairSpec`: weak fairness of
`Run(h)` for each handler (the event loop resumes a coroutine whose await is
over, and nothing else in a call waits for anybody), of `Notice(s)` for each
socket (uvicorn pings its connections, so a lost client raises
WebSocketDisconnect in `receive_text`), and of `Fetch(u)` for each user, which is
an assumption about clients and not about the code: without it, nothing that is
only stored ever reaches anybody. Nothing is assumed of clients otherwise, none of
`Fail`, `Restart`, `Connect` or `Text`. Every other property is a safety
property and needs none.

| Run | Operations | Instance | What it shows |
|---|---|---|---|
| `join` | create, visibility, request, approve, reject, remove, leave | 3 users, 1 board, 3 handlers, 7 calls | requests, decisions and memberships agree with log and notifications; what was decided is never pending again; a membership ends at most once in each handler |
| `invite` | create, invite, accept, decline, remove, role | 3 users, 1 board, 2 handlers, 6 calls | memberships, roles and invitations keep their explanation; links used twice or raced; an invitation is accepted at most once in each handler; a second one of one sender is there to stay; implements `Access` |
| `lifecycle` | create, duplicate, archive, unarchive, update, delete, request, approve, role, remove | 2 users, 2 boards, 2 handlers, 6 calls | deletion leaves and gathers nothing; no step touches two boards, whatever row a handler remembers; archived boards have an archive action; as many requests of a user as handlers at most; creators are members, of other boards nothing is kept that nobody was shown; implements `Access` |
| `duplicate` | as `join` | 2 users, 6 calls | *violated*: one membership per user |
| `tworequests` | as `join` | 2 users, 6 calls | *violated*: one request per user |
| `limiter` | the limiter | 2 handlers, limit 2, window 5, delay 2, 5 calls, 8 ticks | no more calls than the limit, up to the delay; refusals justified |
| `delivery` | all of `Delivery` | 2 users, one of whom opens sockets and reads; 2 sockets, 1 board, 2 messages to both users, 2 handlers | all rows or none, the registry; liveness |
| `readall` | all of `Delivery` but sockets | 2 users, one of whom reads; 2 boards, 3 messages to both users, 2 handlers | nothing is read that was not returned, also when a deletion takes one row or some of several; the refinement of `Inbox` |
| `offline` | all of `Delivery` | the same with both users opening sockets | *violated*: an offline user disturbs nobody |
| `accounts` | all of `Accounts` | 3 names, 2 e-mails, 2 handlers | nobody is verified without a link to his e-mail; as many accounts of an e-mail as handlers at most |
| `sessions` | all of `Accounts` and `Sessions` | 2 names, 2 e-mails, 1 login, 2 handlers, lifetimes 2, 3 and 2, offset 1, delay 1, 4 ticks | a logout lasts; a revoked token is back no sooner than its entry goes |
| `retryafter` | the limiter | 1 handler, limit 2, window 4, delay 1, 6 calls, 9 ticks | *violated*: a client that waits as long as it is told is let through |

Bounds. `MaxServed` is the number of calls that commit; failed calls are free.
Six calls create and publish a board, file a request, decide it twice and still
leave room for a removal or a departure, so both races and their consequences
are inside; the seventh lets two decisions and two departures overlap. Three
handlers are one more than any pairwise race needs: two that race and one that
reads what they leave. Three users are an owner, a target and a bystander (or
second admin). `Uids` has as many keys as rows and remembered rows can exist at
once within the calls served; `CanInsert` needs a free one, and
none runs out in these runs. Users, boards and handlers are symmetric and no
liveness is checked, so symmetry is sound; keys are numbers, with `FreshUid` the
smallest free one. `invite` needs the most keys: one creation and five invitations.
In `lifecycle` six calls are two boards, or a board and its copy, with a request
and its approval, and two more that overlap: a deletion, an archiving, a change
of role or a removal.

In `limiter`, five calls are two that fill the window, two that overlap at its
end and one more; eight ticks reach past the first window with the delay, and
the key expires and is renewed on the way. The delay matters here: the same
instance violates the limit for the full window (a call at 0; two more read the
clock at 3 and 4 and reach Redis at 5, when the key has expired: three calls let
through within 5 ticks), so `LimitUpToDelay` does not hide the stronger statement.
In `delivery`, two sockets of one user are a reconnect with both disconnects still to
come; the second user is the offline recipient. Two messages, two handlers:
two calls that push, or one that pushes and a read-all, overlap; a message that
is posted while a read-all runs shares its user and its board with one that was
loaded. One board is enough here because one deletion is what a call can be overtaken
by; `readall` has two boards and three messages, so that a deletion may take none,
one, some or all of the rows a read-all has loaded, and no sockets, which no read
looks at. There is
no bound but these sets: restarts, failures, fetches and read-alls may recur
without end. No symmetry, because the runs check temporal properties.

In `accounts`, a third name is one more than two handlers can put on one e-mail at
once, and the clock stands still: `Accounts` does not read it. In `sessions`, two names and two e-mails let two registrations share an e-mail or
not; one login gives an access and a refresh token, each presented and revoked by
two overlapping calls. With a lifetime of 2, an offset of 1 and an entry of 2, the
access token outlives an entry written in the first two ticks, and the mutant that
shortens the entry by one is found: four ticks see token and entry expire.
`retryafter` needs two calls let through, some refused, and the time to come back.

## 4. Theorems

The theorems about `BoardApp` are for any sets of users, boards, keys, handlers and operations
and any `MaxServed`, from the assumptions of `BoardTables` alone: `Ops` are
operations, `None` is in no other set, `MaxServed` is a natural number, there are
finitely many handlers.

- `TypeCorrect` (`BoardAppTyping`). `TypeOK` is not inductive by itself: a commit
  builds rows from what its handler remembers. `CallsFilled` says that every
  handler under way remembers what its operation will write, `BoardsOwned` that a
  live board has an owner (who gets the notification of a request).
- `DeletionIsFinal`: every step `Evolves` the boards; each commit finds its board
  live or is not enabled.
- `ReferencesHold`: `RefIntegrity` is inductive with the typing invariant. An
  insert tests the board at the commit, never before; the cascade is complete.
- `MembersAreGranted`: `NobodyJoinsUnasked` is not inductive, because approve and
  accept insert on the strength of an earlier read. `CallsBacked` carries that
  read to the commit: the target of a loaded approval still has a request, or
  the board is gone and the commit will fail; the link of an acceptance stays
  mailed; the board of a half-done create still belongs to its creator. It is
  kept by the steps of others because requests go only with their board
  (`RequestsKept`), links never, and owners never change (`Evolves`).
- `RolesHaveReasons`, `DecisionsAreTold`, `PendingIsUndecided`, `DecisionsLast`
  (`BoardAppDecisions`), from one inductive invariant, `DecisionsInv`. Keys are unique
  (`KeysUnique`), and what a handler has loaded still names its target at the
  commit (`RowsLoaded`): a key is not given again while a handler remembers it,
  a loaded request goes only with its board, and one that was decided when it was
  loaded is still decided, which is why leaving out the UPDATE of an unchanged
  status is harmless. `AnsweredHasAsked` is what `PendingIsUndecided` needs when a
  user asks for the first time. `CountsGrow`: log and notifications only grow
  while the board lives.
- `LimitHolds`, `DenialsAreJustified` (`RateLimiterProofs`), for any limit, window,
  delay and number of handlers, from `LimiterAssumption` (a limit and a window of
  at least one; the bounds `MaxTime` and `MaxCalls` are any numbers). The sorted set
  alone says little about who was let through: the inductive `WindowInv` adds that a
  call let through stays stored, with the key outliving its window, until a window
  has passed (`AllowedAreStored`), that readings are timely and unique, and that
  whatever is stored has been counted. Then the calls that share a shortened
  window with a new one are among those its own pipeline counted, fewer than the
  limit; and what `Exceed` counted still counts when `Deny` answers.
- `AccessImplemented` (`BoardAppAccess`): a step of `BoardApp` is one rule of
  `Access` or a stutter. The proof is by action; `CallsBacked` is what turns an approval, an
  acceptance or the second commit of a creation into `Admit`, and `KeysUnique` what
  makes a removal expel one user or, when he has a second membership, nobody.
- `BoardsAreApart` (`BoardAppAccess`): no step changes two boards. That is not evident
  from the code: role changes, removals, departures and decisions write to a row
  remembered by its key, some awaits after it was found on the right board.
  `BoardsInv` says that this key, as long as a row has it, is on the handler's board
  (`RowsOnBoard`), and that no two rows of different boards share a key
  (`KeyBoard`). It holds because a row never changes its board and a new key is
  none that a handler remembers. `StepElsewhere`, that everything off the
  handler's board is `Untouched`, is what the counting proofs below use for all
  boards but one.
- `ArchivesAreLogged`, `RequestsAreLogged`, `SecondRequestsRace`, `MembershipsAreLogged`,
  `CreatorsStay`, `InvitationsReach`, `DuplicatesStay`, `SecondInvitationsStay`, `EndsAreBounded`,
  `AnswersAreBounded` (`BoardAppLedgers`), each from `DecisionsInv` and an invariant of its own.
  `ArchiveInv`: a board whose creation is logged, or half done, has the log entry if
  it is archived; without the half-done ones a copy of an archived board could later
  be claimed by a creation. `LedgerInv`: the requests are finitely many, a decision
  puts one row in the place of another, and no commit but that of a request logs or
  notifies of one. `AskedInv`, for the second requests: the requests of a user and the
  handlers about to commit one of his are together no more than there are
  handlers. A check that passes starts from no request at all, whatever else is
  about to be committed; a commit turns one of these handlers into a request; a
  decision swaps a row; nothing else adds to either. `EnrolInv`, for the memberships:
  the finitely many rows of a live board are `Balanced` with its log. Acceptances
  are in no log, and a sum of counters over the users could only be reasoned about by
  induction; so they are counted as the cardinality of a set with one element per
  notification (`NotificationsOf`), to which an acceptance adds one
  (`ToldOnce`). The inequality of `Balanced` leaves room for the removal of
  a row that has gone already, which logs and removes nothing. `CreatorsAreMembers` is
  `ListedInv` and `ShownInv`. The first is inductive beside `DecisionsInv` and
  `BoardsInv`: `CallsBacked` says that the member whom the second commit of a creation
  inserts is the owner. The second is about the boards without a creation in their
  log, half created or copied: such a board was shown to everybody, or it is private, has
  nothing but its own row (`Blank`), and no call names it but the one that creates it
  (`Unnamed`). A call begins on a board that passed the permission check, is public or
  has rows (`NamesShown`); a board shows by any of these only with `known`; and
  whatever files something does it under the board its call names. `InvitesInv` compares the open invitations of every recipient
  with his notifications, and remembers that a handler ready to commit has queued
  its mail. `KeysApart`: no key of a membership is one of a request or an
  invitation, so that what a handler loads is a row of a user with one membership, or no
  membership at all; nor is the key of an invitation one of the other two, and a handler
  loads an invitation only by a link that matches it alone, so that nobody deletes a row
  of a link that matches two. `EndsInv` and `AnswersInv` are about the rows that a use
  deletes, memberships and invitations, and say that they are `Covered`: with N handlers,
  N times the rows that are there, the uses that were done and the handlers that hold a
  row which has gone (`late`) are together at most N times the rows there ever were. A
  commit that deletes its row trades N for one use and at most N - 1 handlers that are
  late from then on, itself not among them; a late handler that commits trades itself for
  its use; a new row adds N to both sides; and nobody becomes late by loading, for what
  is loaded is there.
- `DeliveryProofs`, for any users, sockets, boards, messages, audiences and handlers,
  from the assumptions of `Delivery` (sockets and messages are numbers, `None` is
  none of the others). `TypeCorrect`; `StoredForAllOrNone`, `RegistryForgets`,
  `MissesAreReplaced` and `ReadsAreReturned` from one invariant `IInv`, which adds
  to the properties that a message has at most one handler, running exactly as long
  as the message does, that a reader's loaded rows are his own (`CallsFilled`), that
  a row is there exactly when its call was answered and its board lives
  (`RowsExact`), and that a socket not yet opened has no user (`SocketsOwned`);
  `InboxImplemented` from the same invariant.
- `SessionsProofs`, for any accounts, logins, lifetimes and offset, with
  `AccessTTL <= JtiTTL`, as in the code (both 3600). `LinksVerifyOwners`: whoever is
  being verified has an e-mail that a link was queued for, and keeps it, because no
  code changes or deletes an account. `SharingIsBounded`: the accounts of an e-mail and
  the handlers about to commit one are together no more than there are handlers,
  because a check that passes starts from no account at all. `LogoutsLast`: a revoked token has an entry
  of `JtiTTL` from its first revocation on, a decoded one is no older than
  `Delay`, and nobody decodes after the expiry; together these leave only a logout
  within `Delay` and the offset of its login. `RevokedStayAway`: for tokens of either
  kind, what a later call lets through was revoked a blocklist lifetime ago.

Only model-checked: the liveness properties of `Delivery` (`AnsweredReachesAll`,
`DroppedIsForgotten`, `CallsEnd`), because fairness and ENABLED are out of the
provers' reach; and the properties of the runs that are violated. Every other
property that a run checks is a theorem.

## 5. Divergences seen while modelling

Four runs end in a violation, each of something the repository says of itself; they
are the findings of `PROJECT.json`. These further ones are as real, but plain to see
in the code, and have no run:

- the audit row of a deletion goes with the board, by the cascade of the same
  commit (`src/board/service.py:355`, `src/db/models.py:134`), against the "full audit
  trail of every action" of the repository's README, line 19;
- the owner of a copy is no member of it, so that `get-user-boards`, "Get all boards
  for current user" (README, line 152), leaves the copy out (`src/board/service.py:183`,
  `src/auth/service.py:127-142`);
- two overlapping registrations may share an e-mail, which the code refuses to a second
  one ("User with email already exists", `src/errors.py:73`), for the column has no
  constraint (`src/db/models.py:62`): `AccountsPerHandler` says how many can;
- a second invitation by one sender makes `one_or_none` raise for every link that names
  both (`src/auth/service.py:363, 421`): `SecondInvitationIsPermanent`;
- on a server ahead of UTC a token outlives its blocklist entry (`src/auth/utils.py:35`),
  against "Revoke access token" (README, line 148): `LogoutLasts` says by how much;
- `notification-read` never finds its row (see below).

## 6. Not modelled

- Lists and search: single SELECTs that change nothing. They page with LIMIT and
  OFFSET but without ORDER BY, so that PostgreSQL promises nothing of what two pages show
  together; what one page shows is a filter.
- The connection pool (`src/db/main.py:6-12`) and the order in which PostgreSQL
  locks rows. A handler that times out waiting for a connection, or whose
  transaction is aborted as a deadlock victim, raises: it is a `Fail`.
- Passwords: registration and `change_password` write the hash, login reads none
  (`src/auth/routes.py:56-89`), so there is no behaviour for them to change.
- `notification-read`: the route passes user and notification in the order opposite to
  the service's parameters (`src/auth/routes.py:312`, `src/auth/service.py:259`), so it
  looks for a row that does not exist and always raises. It has no action.
- A Redis that loses blocklist entries or evicts them, several processes with a
  registry each, and clocks of workers that disagree: the code handles none of them.
- `src/errors.py`, `src/config.py`, `src/middleware.py`, `src/__init__.py`,
  `migrations/env.py`: exceptions mapped to responses, settings, logging and a
  generated driver, without state of their own.
