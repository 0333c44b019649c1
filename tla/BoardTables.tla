---------------------------- MODULE BoardTables ----------------------------
(***************************************************************************)
(* The PostgreSQL tables of the board application (src/db/models.py), the  *)
(* request handlers that work on them, and what the two services share:    *)
(* the permission check, the audit log, the notification insert and the    *)
(* life of a database session.                                             *)
(*                                                                         *)
(* A handler is a coroutine with a session of its own.  It reads with one  *)
(* SELECT per await, under READ COMMITTED, and other handlers run between  *)
(* its reads; session.add, session.delete and attribute assignments only   *)
(* reach the database in the flush of session.commit().  So a handler is a *)
(* record in "calls" that remembers what it has read, every read is a step,*)
(* and a commit is one atomic step that applies all its writes:            *)
(*   - an INSERT needs the live parent board its foreign key names;        *)
(*   - an UPDATE is sent only for an attribute that differs from what was  *)
(*     read, and raises StaleDataError when the row is gone;               *)
(*   - a DELETE of a row that is already gone is not an error.             *)
(* A commit that cannot happen leaves the handler to Fail.                 *)
(***************************************************************************)
EXTENDS Naturals, FiniteSets

CONSTANTS
    Users,      \* registered accounts; no code deletes one
    Boards,     \* the uuids boards draw
    Uids,       \* primary keys of the rows of the other tables
    Handlers,   \* handlers that may be running at the same time
    Ops,        \* the operations clients call
    None,       \* the absent value of an identifier
    MaxServed   \* bound: how many calls run to their commit

VARIABLES
    boards,         \* table boards
    boardusers,     \* table boardusers: the memberships
    requests,       \* table requests: the join requests
    invitations,    \* table invitations
    audits,         \* table audits: how many rows per board and action
    notifications,  \* table notifications: how many rows per board, user, type
    mailed,         \* invitation tokens handed to the mail queue
    calls,          \* what each handler is doing
    served          \* calls that have committed

tables == <<boards, boardusers, requests, invitations, audits, notifications>>
vars == <<boards, boardusers, requests, invitations, audits, notifications,
          mailed, calls, served>>

-----------------------------------------------------------------------------
(* Columns and rows *)

UserRole == {"owner", "admin", "member"}

RequestStatus == {"pending", "approved", "rejected"}

\* The actions some handler logs.  BOARD_UPDATED and INVITE_SENT are declared
\* in the source and never logged; INVITE_ACCEPTED and INVITE_REVOKED are
\* logged by functions that no route calls.
AuditAction ==
    {"board_created", "board_archived", "board_duplicated", "board_deleted",
     "member_added", "member_removed", "member_role_changed", "member_left",
     "request_sent", "request_approved", "request_rejected"}

NotificationType ==
    {"request_received", "request_approved", "request_rejected",
     "invite_received", "invite_accepted", "member_removed", "role_changed"}

\* A board uuid is unborn until a board draws it, and gone for ever once the
\* board is deleted.  "known" is no column: some response has shown the uuid to
\* a client.  The responses of create and duplicate do not; a board is shown
\* by the lists of its members, or of everybody once it is public.
Board == [life : {"unborn", "live", "gone"}, owner : Users \cup {None},
          archived : BOOLEAN, public : BOOLEAN, known : BOOLEAN]

BoardUser == [uid : Uids, user : Users, board : Boards, role : UserRole]

Request == [uid : Uids, user : Users, board : Boards, status : RequestStatus]

\* "accepted" is left out: the handler that sets it deletes the row in the
\* same flush.
Invitation ==
    [uid : Uids, user : Users, recipient : Users, board : Boards]

\* The payload of the signed link in an invitation mail.
Token == [user : Users, recipient : Users, board : Boards]

NoBoard(life) ==
    [life |-> life, owner |-> None, archived |-> FALSE, public |-> FALSE,
     known |-> FALSE]

NoAudits == [a \in AuditAction |-> 0]

NoNotifications == [u \in Users |-> [t \in NotificationType |-> 0]]

-----------------------------------------------------------------------------
(* Handlers *)

Operation ==
    {"create", "duplicate", "archive", "unarchive", "update", "visibility",
     "delete", "role", "remove", "leave", "request", "approve", "reject",
     "invite", "accept", "decline"}

\* pc: "checked" after the permission check, "outsider" once a requester is
\* known not to be a member, "ready" when only the commit is left.
\* row, was, archived, public: what the handler has loaded.
Call == [pc : {"idle", "checked", "outsider", "ready"},
         op : Operation \cup {None},
         user : Users \cup {None},
         target : Users \cup {None},
         board : Boards \cup {None},
         row : Uids \cup {None},
         was : UserRole \cup RequestStatus \cup {None},
         archived : BOOLEAN,
         public : BOOLEAN]

Idle == [pc |-> "idle", op |-> None, user |-> None, target |-> None,
         board |-> None, row |-> None, was |-> None,
         archived |-> FALSE, public |-> FALSE]

ASSUME OpsAssumption == Ops \subseteq Operation

ASSUME NoneAssumption ==
    /\ None \notin Users
    /\ None \notin Boards
    /\ None \notin Uids
    /\ None \notin Operation

ASSUME MaxServedAssumption == MaxServed \in Nat

ASSUME HandlersAssumption == IsFiniteSet(Handlers)

TypeOK ==
    /\ boards \in [Boards -> Board]
    /\ boardusers \subseteq BoardUser
    /\ requests \subseteq Request
    /\ invitations \subseteq Invitation
    /\ audits \in [Boards -> [AuditAction -> Nat]]
    /\ notifications \in [Boards -> [Users -> [NotificationType -> Nat]]]
    /\ mailed \subseteq Token
    /\ calls \in [Handlers -> Call]
    /\ served \in Nat

-----------------------------------------------------------------------------
(* Reads *)

Live(b) == boards[b].life = "live"

\* The boards a client can name in a call.
Reachable(b) == Live(b) /\ boards[b].known

Memberships(u, b) == {m \in boardusers : m.user = u /\ m.board = b}

RequestsOf(u, b) == {r \in requests : r.user = u /\ r.board = b}

Matching(t) == {i \in invitations : /\ i.user = t.user
                                    /\ i.recipient = t.recipient
                                    /\ i.board = t.board}

\* Result.one_or_none(): a second row is an error (MultipleResultsFound).
AtMostOne(rows) == \A r, s \in rows : r = s

\* The boards on which a client that is u passes board_admin_check.  Its outer join has a
\* row per membership of u, so a duplicate membership makes it raise.
HasAuthority(u, b) ==
    /\ Reachable(b)
    /\ AtMostOne(Memberships(u, b))
    /\ \/ boards[b].owner = u
       \/ \E m \in Memberships(u, b) : m.role = "admin"

\* A primary key that no row has and no handler remembers: uuid4 never repeats.
Fresh(uid) ==
    /\ \A m \in boardusers : m.uid # uid
    /\ \A r \in requests : r.uid # uid
    /\ \A i \in invitations : i.uid # uid
    /\ \A h \in Handlers : calls[h].row # uid

FreshUid == CHOOSE uid \in Uids : Fresh(uid)

-----------------------------------------------------------------------------
(* Writes.  Here and in the modules that follow, the definitions under     *)
(* "Faulty" are changes that a run must notice: a property that holds with *)
(* one of them in place of its original would say nothing.                 *)

\* Faulty: the foreign keys do not name the boards.
CanInsertAnywhere(b) == \E uid \in Uids : Fresh(uid)

\* A row with a key of its own, for a board that still exists.
CanInsert(b) == Live(b) /\ \E uid \in Uids : Fresh(uid)

\* Faulty: the row of an earlier action is replaced.
LoggedLast(b, A) ==
    [audits EXCEPT ![b] = [a \in AuditAction |-> IF a \in A THEN 1 ELSE 0]]

\* log_board_action for each action of A: the audits table after the commit.
Logged(b, A) ==
    [audits EXCEPT ![b] = [a \in AuditAction |->
        IF a \in A THEN audits[b][a] + 1 ELSE audits[b][a]]]

\* Faulty: one notification per board, user and type.
NotifiedOnce(b, u, t) == [notifications EXCEPT ![b][u][t] = 1]

\* send_notification: the notifications table after the commit.
Notified(b, u, t) == [notifications EXCEPT ![b][u][t] = @ + 1]

-----------------------------------------------------------------------------
(* Steps every handler takes *)

Busy == {h \in Handlers : calls[h].pc # "idle"}

\* A client calls an operation; no more are admitted than may be served.
Begin(h, op, call) ==
    /\ calls[h] = Idle
    /\ op \in Ops
    /\ served + Cardinality(Busy) < MaxServed
    /\ calls' = [calls EXCEPT ![h] = [call EXCEPT !.op = op]]
    /\ UNCHANGED served

\* The commit succeeds and the response is sent.
Finish(h) ==
    /\ calls' = [calls EXCEPT ![h] = Idle]
    /\ served' = served + 1

\* The handler raises before its commit, or its worker dies: a SELECT finds no
\* row or two, the push to a web socket or the mail broker fails, the flush
\* violates a foreign key or updates a vanished row, the connection is lost.
\* The session rolls back.
Fail(h) ==
    /\ calls[h] # Idle
    /\ calls' = [calls EXCEPT ![h] = Idle]
    /\ UNCHANGED <<tables, mailed, served>>

\* The operations that start with the permission check, on the board itself
\* or on one of its members, requesters or invitees.
OnBoard == {"duplicate", "archive", "update", "visibility", "delete"}
OnUser == {"role", "remove", "approve", "reject", "invite"}

\* Who asks is kept only where a later write needs it: the owner of a copy,
\* the sender of an invitation.
BeginOnBoard(h) ==
    \E op \in OnBoard, u \in Users, b \in Boards :
        /\ HasAuthority(u, b)
        /\ Begin(h, op, [Idle EXCEPT !.pc = "checked", !.board = b,
                            !.user = IF op = "duplicate" THEN u ELSE None])
        /\ UNCHANGED <<tables, mailed>>

BeginOnUser(h) ==
    \E op \in OnUser, u \in Users, t \in Users, b \in Boards :
        /\ HasAuthority(u, b)
        /\ Begin(h, op, [Idle EXCEPT !.pc = "checked", !.board = b, !.target = t,
                            !.user = IF op = "invite" THEN u ELSE None])
        /\ UNCHANGED <<tables, mailed>>

Init ==
    /\ boards = [b \in Boards |-> NoBoard("unborn")]
    /\ boardusers = {}
    /\ requests = {}
    /\ invitations = {}
    /\ audits = [b \in Boards |-> NoAudits]
    /\ notifications = [b \in Boards |-> NoNotifications]
    /\ mailed = {}
    /\ calls = [h \in Handlers |-> Idle]
    /\ served = 0
=============================================================================
