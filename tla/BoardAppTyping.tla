--------------------------- MODULE BoardAppTyping ---------------------------
(***************************************************************************)
(* Type correctness of BoardApp, for any number of users, boards, handlers *)
(* and calls.                                                              *)
(***************************************************************************)
EXTENDS BoardApp, TLAPS

USE OpsAssumption, NoneAssumption, MaxServedAssumption

-----------------------------------------------------------------------------
(* Typing of the operators the actions are built from *)

\* A fresh key is a key that nothing has or remembers.
LEMMA FreshKey ==
    ASSUME NEW b, CanInsert(b)
    PROVE  FreshUid \in Uids /\ Fresh(FreshUid)
BY DEF CanInsert, FreshUid

LEMMA IdleType == Idle \in Call
BY DEF Idle, Call

\* The record every handler starts from, with the operation filled in.
LEMMA BeginType ==
    ASSUME TypeOK, NEW h \in Handlers, NEW op, NEW call \in Call,
           Begin(h, op, call)
    PROVE  calls' \in [Handlers -> Call] /\ served' = served
<1>1. op \in Operation
  BY DEF Begin
<1>2. [call EXCEPT !.op = op] \in Call
  BY <1>1 DEF Call
<1> QED
  BY <1>2 DEF Begin, TypeOK

LEMMA FinishType ==
    ASSUME TypeOK, NEW h \in Handlers, Finish(h)
    PROVE  calls' \in [Handlers -> Call] /\ served' \in Nat
BY IdleType DEF Finish, TypeOK

LEMMA LoggedType ==
    ASSUME TypeOK, NEW b \in Boards, NEW A
    PROVE  Logged(b, A) \in [Boards -> [AuditAction -> Nat]]
BY DEF Logged, TypeOK

LEMMA NotifiedType ==
    ASSUME TypeOK, NEW b \in Boards, NEW u \in Users, NEW t \in NotificationType
    PROVE  Notified(b, u, t) \in [Boards -> [Users -> [NotificationType -> Nat]]]
BY DEF Notified, TypeOK

LEMMA SetStatusType ==
    ASSUME TypeOK, NEW uid, NEW status \in RequestStatus
    PROVE  SetStatus(uid, status) \subseteq Request
<1>1. \A r \in Request : [r EXCEPT !.status = status] \in Request
  BY DEF Request
<1>2. \A r \in requests :
        (IF r.uid = uid THEN [r EXCEPT !.status = status] ELSE r) \in Request
  BY <1>1 DEF TypeOK
<1> QED
  BY <1>2 DEF SetStatus

-----------------------------------------------------------------------------
(* Type correctness.  TypeOK is not inductive: a commit builds rows out of  *)
(* the identifiers its handler remembers, so those must be there.           *)

\* The operations that act on another user, and those whose caller is kept.
OnTarget == OnUser \cup {"request", "accept", "decline"}
OfUser == {"create", "duplicate", "invite", "accept", "decline"}

\* Every handler under way has the identifiers its commit will use.
CallsFilled ==
    \A h \in Handlers :
        /\ calls[h].pc # "idle" => calls[h].board \in Boards
        /\ calls[h].op \in OnTarget => calls[h].target \in Users
        /\ calls[h].op \in OfUser => calls[h].user \in Users

BoardsOwned == \A b \in Boards : Live(b) => boards[b].owner \in Users

Typed == TypeOK /\ CallsFilled /\ BoardsOwned

LEMMA InitTyped == Init => Typed
<1> SUFFICES ASSUME Init PROVE Typed
  OBVIOUS
<1>1. Idle \in Call
  BY IdleType
<1>2. NoBoard("unborn") \in Board
  BY DEF NoBoard, Board
<1>3. TypeOK
  BY <1>1, <1>2 DEF Init, TypeOK, NoAudits, NoNotifications
<1>4. CallsFilled
  BY DEF Init, CallsFilled, Idle, OnTarget, OnUser, OfUser, Operation
<1>5. BoardsOwned
  BY DEF Init, BoardsOwned, Live, NoBoard
<1> QED
  BY <1>3, <1>4, <1>5 DEF Typed

\* What a handler that has begun leaves behind, the tables apart.
LEMMA BeginTyped ==
    ASSUME Typed, NEW h \in Handlers, NEW op \in Operation, NEW call \in Call,
           Begin(h, op, call),
           call.board \in Boards,
           op \in OnTarget => call.target \in Users,
           op \in OfUser => call.user \in Users
    PROVE  calls' \in [Handlers -> Call] /\ served' \in Nat /\ CallsFilled'
<1>1. /\ calls' \in [Handlers -> Call]
      /\ served' \in Nat
  BY BeginType DEF Typed, TypeOK
<1>2. calls' = [calls EXCEPT ![h] = [call EXCEPT !.op = op]]
  BY DEF Begin
<1>3. /\ [call EXCEPT !.op = op].board = call.board
      /\ [call EXCEPT !.op = op].target = call.target
      /\ [call EXCEPT !.op = op].user = call.user
      /\ [call EXCEPT !.op = op].op = op
  BY DEF Call
<1>4. CallsFilled'
  BY <1>2, <1>3 DEF Typed, TypeOK, CallsFilled
<1> QED
  BY <1>1, <1>4

\* A handler that goes back to idle.
LEMMA IdleTyped ==
    ASSUME Typed, NEW h \in Handlers, calls' = [calls EXCEPT ![h] = Idle]
    PROVE  calls' \in [Handlers -> Call] /\ CallsFilled'
<1>1. calls' \in [Handlers -> Call]
  BY IdleType DEF Typed, TypeOK
<1>2. /\ Idle.pc = "idle"
      /\ Idle.op \notin OnTarget
      /\ Idle.op \notin OfUser
  BY DEF Idle, OnTarget, OnUser, OfUser, Operation
<1>3. CallsFilled'
  BY <1>2 DEF Typed, TypeOK, CallsFilled
<1> QED
  BY <1>1, <1>3

\* A handler that has read something: only what it loaded changes.
LEMMA LoadTyped ==
    ASSUME Typed, NEW h \in Handlers, NEW c \in Call,
           calls' = [calls EXCEPT ![h] = c],
           calls[h].pc # "idle",
           c.op = calls[h].op, c.board = calls[h].board,
           c.target = calls[h].target, c.user = calls[h].user
    PROVE  calls' \in [Handlers -> Call] /\ CallsFilled'
BY DEF Typed, TypeOK, CallsFilled

\* The tables as they were.
LEMMA TablesTyped ==
    ASSUME Typed, UNCHANGED tables,
           mailed' \subseteq Token, served' \in Nat,
           calls' \in [Handlers -> Call], CallsFilled'
    PROVE  Typed'
BY DEF Typed, TypeOK, BoardsOwned, Live, tables

\* A commit that leaves the boards alone and writes well-typed rows.
LEMMA CommitTyped ==
    ASSUME Typed, NEW h \in Handlers, Finish(h),
           boards' = boards,
           boardusers' \subseteq BoardUser,
           requests' \subseteq Request,
           invitations' \subseteq Invitation,
           audits' \in [Boards -> [AuditAction -> Nat]],
           notifications' \in [Boards -> [Users -> [NotificationType -> Nat]]],
           mailed' = mailed
    PROVE  Typed'
<1>1. calls' \in [Handlers -> Call] /\ CallsFilled'
  BY IdleTyped DEF Finish
<1>2. BoardsOwned'
  BY DEF Typed, BoardsOwned, Live
<1>3. TypeOK'
  BY <1>1 DEF Typed, TypeOK, Finish
<1> QED
  BY <1>1, <1>2, <1>3 DEF Typed

-----------------------------------------------------------------------------
(* Typing of the steps *)

LEMMA SharedTyped ==
    ASSUME Typed, NEW h \in Handlers,
           BeginOnBoard(h) \/ BeginOnUser(h) \/ Fail(h)
    PROVE  Typed'
<1>1. CASE BeginOnBoard(h)
  <2>1. PICK op \in OnBoard, u \in Users, b \in Boards :
            /\ Begin(h, op, [Idle EXCEPT !.pc = "checked", !.board = b,
                                !.user = IF op = "duplicate" THEN u ELSE None])
            /\ UNCHANGED <<tables, mailed>>
    BY <1>1 DEF BeginOnBoard
  <2> DEFINE call == [Idle EXCEPT !.pc = "checked", !.board = b,
                                  !.user = IF op = "duplicate" THEN u ELSE None]
  <2>2. /\ call \in Call
        /\ call.board = b
        /\ op \in OfUser => call.user = u
    BY DEF Call, Idle, OnBoard, OfUser
  <2>3. op \in Operation /\ op \notin OnTarget
    BY DEF OnBoard, OnUser, OnTarget, Operation
  <2> HIDE DEF call
  <2>4. calls' \in [Handlers -> Call] /\ served' \in Nat /\ CallsFilled'
    BY <2>1, <2>2, <2>3, BeginTyped DEF call
  <2> QED
    BY <2>1, <2>4, TablesTyped DEF Typed, TypeOK
<1>2. CASE BeginOnUser(h)
  <2>1. PICK op \in OnUser, u \in Users, t \in Users, b \in Boards :
            /\ Begin(h, op, [Idle EXCEPT !.pc = "checked", !.board = b,
                     !.target = t, !.user = IF op = "invite" THEN u ELSE None])
            /\ UNCHANGED <<tables, mailed>>
    BY <1>2 DEF BeginOnUser
  <2> DEFINE call == [Idle EXCEPT !.pc = "checked", !.board = b,
                      !.target = t, !.user = IF op = "invite" THEN u ELSE None]
  <2>2. /\ call \in Call
        /\ call.board = b
        /\ call.target = t
        /\ op \in OfUser => call.user = u
    BY DEF Call, Idle, OnUser, OfUser
  <2>3. op \in Operation
    BY DEF OnUser, Operation
  <2> HIDE DEF call
  <2>4. calls' \in [Handlers -> Call] /\ served' \in Nat /\ CallsFilled'
    BY <2>1, <2>2, <2>3, BeginTyped DEF call
  <2> QED
    BY <2>1, <2>4, TablesTyped DEF Typed, TypeOK
<1>3. CASE Fail(h)
  BY <1>3, IdleTyped, TablesTyped DEF Fail, Typed, TypeOK
<1> QED
  BY <1>1, <1>2, <1>3

LEMMA MembershipTyped ==
    ASSUME Typed, NEW h \in Handlers, MembershipStep(h)
    PROVE  Typed'
<1> DEFINE c == calls[h]
<1>c. /\ c \in Call
      /\ c.pc # "idle" => c.board \in Boards
      /\ c.op \in OnTarget => c.target \in Users
      /\ c.op \in OfUser => c.user \in Users
  BY DEF Typed, TypeOK, CallsFilled
<1>1. CASE LoadMember(h)
  <2>1. PICK m \in boardusers :
            calls' = [calls EXCEPT ![h].pc = "ready", ![h].row = m.uid,
                                   ![h].was = m.role]
    BY <1>1 DEF LoadMember
  <2> DEFINE d == [c EXCEPT !.pc = "ready", !.row = m.uid, !.was = m.role]
  <2>2. d \in Call
    BY <1>c DEF Typed, TypeOK, BoardUser, Call
  <2>3. calls' = [calls EXCEPT ![h] = d]
    BY <2>1 DEF Typed, TypeOK
  <2>4. d.op = c.op /\ d.board = c.board /\ d.target = c.target /\ d.user = c.user
    BY <1>c DEF Call
  <2> HIDE DEF d
  <2>5. calls' \in [Handlers -> Call] /\ CallsFilled'
    BY <1>1, <2>2, <2>3, <2>4, LoadTyped DEF LoadMember
  <2> QED
    BY <1>1, <2>5, TablesTyped DEF LoadMember, Typed, TypeOK
<1>2. CASE LoadRequest(h)
  <2>1. PICK r \in requests :
            calls' = [calls EXCEPT ![h].pc = "ready", ![h].row = r.uid,
                                   ![h].was = r.status]
    BY <1>2 DEF LoadRequest
  <2> DEFINE d == [c EXCEPT !.pc = "ready", !.row = r.uid, !.was = r.status]
  <2>2. d \in Call
    BY <1>c DEF Typed, TypeOK, Request, Call
  <2>3. calls' = [calls EXCEPT ![h] = d]
    BY <2>1 DEF Typed, TypeOK
  <2>4. d.op = c.op /\ d.board = c.board /\ d.target = c.target /\ d.user = c.user
    BY <1>c DEF Call
  <2> HIDE DEF d
  <2>5. calls' \in [Handlers -> Call] /\ CallsFilled'
    BY <1>2, <2>2, <2>3, <2>4, LoadTyped DEF LoadRequest
  <2> QED
    BY <1>2, <2>5, TablesTyped DEF LoadRequest, Typed, TypeOK
<1>3. CASE CommitRole(h)
  <2>1. c.board \in Boards /\ c.target \in Users
    BY <1>c, <1>3 DEF CommitRole, OnTarget, OnUser
  <2>2. \A m \in BoardUser, role \in UserRole :
            [m EXCEPT !.role = role] \in BoardUser
    BY DEF BoardUser
  <2>3. boardusers' \subseteq BoardUser
    BY <1>3, <2>2 DEF CommitRole, Without, Typed, TypeOK
  <2>4. /\ audits' \in [Boards -> [AuditAction -> Nat]]
        /\ notifications' \in [Boards -> [Users -> [NotificationType -> Nat]]]
    BY <1>3, <2>1, LoggedType, NotifiedType
       DEF CommitRole, Typed, NotificationType
  <2> QED
    BY <1>3, <2>3, <2>4, CommitTyped DEF CommitRole, Typed, TypeOK
<1>4. CASE CommitRemove(h)
  <2>1. c.board \in Boards /\ c.target \in Users
    BY <1>c, <1>4 DEF CommitRemove, OnTarget, OnUser
  <2>2. boardusers' \subseteq BoardUser
    BY <1>4 DEF CommitRemove, Without, Typed, TypeOK
  <2>3. /\ audits' \in [Boards -> [AuditAction -> Nat]]
        /\ notifications' \in [Boards -> [Users -> [NotificationType -> Nat]]]
    BY <1>4, <2>1, LoggedType, NotifiedType
       DEF CommitRemove, Typed, NotificationType
  <2> QED
    BY <1>4, <2>2, <2>3, CommitTyped DEF CommitRemove, Typed, TypeOK
<1>5. CASE BeginLeave(h)
  <2>1. PICK u \in Users, b \in Boards, m \in boardusers :
            /\ Begin(h, "leave", [Idle EXCEPT !.pc = "ready", !.board = b,
                                              !.row = m.uid])
            /\ UNCHANGED <<tables, mailed>>
    BY <1>5 DEF BeginLeave
  <2> DEFINE d == [Idle EXCEPT !.pc = "ready", !.board = b, !.row = m.uid]
  <2>2. /\ d \in Call
        /\ d.board = b
    BY DEF Call, Idle, Typed, TypeOK, BoardUser
  <2>3. "leave" \in Operation /\ "leave" \notin OnTarget /\ "leave" \notin OfUser
    BY DEF OnUser, OnTarget, OfUser, Operation
  <2> HIDE DEF d
  <2>4. calls' \in [Handlers -> Call] /\ served' \in Nat /\ CallsFilled'
    BY <2>1, <2>2, <2>3, BeginTyped DEF d
  <2> QED
    BY <2>1, <2>4, TablesTyped DEF Typed, TypeOK
<1>6. CASE CommitLeave(h)
  <2>1. c.board \in Boards
    BY <1>c, <1>6 DEF CommitLeave
  <2>2. boardusers' \subseteq BoardUser
    BY <1>6 DEF CommitLeave, Without, Typed, TypeOK
  <2>3. audits' \in [Boards -> [AuditAction -> Nat]]
    BY <1>6, <2>1, LoggedType DEF CommitLeave, Typed
  <2> QED
    BY <1>6, <2>2, <2>3, CommitTyped DEF CommitLeave, Typed, TypeOK
<1>7. CASE BeginRequest(h)
  <2>1. PICK u \in Users, b \in Boards :
            /\ Begin(h, "request", [Idle EXCEPT !.pc = "checked", !.target = u,
                                                !.board = b])
            /\ UNCHANGED <<tables, mailed>>
    BY <1>7 DEF BeginRequest
  <2> DEFINE d == [Idle EXCEPT !.pc = "checked", !.target = u, !.board = b]
  <2>2. /\ d \in Call
        /\ d.board = b
        /\ d.target = u
    BY DEF Call, Idle
  <2>3. "request" \in Operation /\ "request" \notin OfUser
    BY DEF OfUser, Operation
  <2> HIDE DEF d
  <2>4. calls' \in [Handlers -> Call] /\ served' \in Nat /\ CallsFilled'
    BY <2>1, <2>2, <2>3, BeginTyped DEF d
  <2> QED
    BY <2>1, <2>4, TablesTyped DEF Typed, TypeOK
<1>8. CASE CheckNotMember(h)
  <2> DEFINE d == [c EXCEPT !.pc = "outsider"]
  <2>1. d \in Call
    BY <1>c DEF Call
  <2>2. calls' = [calls EXCEPT ![h] = d]
    BY <1>8 DEF CheckNotMember, Typed, TypeOK
  <2>3. d.op = c.op /\ d.board = c.board /\ d.target = c.target /\ d.user = c.user
    BY <1>c DEF Call
  <2> HIDE DEF d
  <2>4. calls' \in [Handlers -> Call] /\ CallsFilled'
    BY <1>8, <2>1, <2>2, <2>3, LoadTyped DEF CheckNotMember
  <2> QED
    BY <1>8, <2>4, TablesTyped DEF CheckNotMember, Typed, TypeOK
<1>9. CASE CheckNoRequest(h)
  <2> DEFINE d == [c EXCEPT !.pc = "ready"]
  <2>1. d \in Call
    BY <1>c DEF Call
  <2>2. calls' = [calls EXCEPT ![h] = d]
    BY <1>9 DEF CheckNoRequest, Typed, TypeOK
  <2>3. d.op = c.op /\ d.board = c.board /\ d.target = c.target /\ d.user = c.user
    BY <1>c DEF Call
  <2> HIDE DEF d
  <2>4. calls' \in [Handlers -> Call] /\ CallsFilled'
    BY <1>9, <2>1, <2>2, <2>3, LoadTyped DEF CheckNoRequest
  <2> QED
    BY <1>9, <2>4, TablesTyped DEF CheckNoRequest, Typed, TypeOK
<1>10. CASE CommitRequest(h)
  <2>1. /\ c.board \in Boards
        /\ c.target \in Users
        /\ boards[c.board].owner \in Users
    BY <1>c, <1>10 DEF CommitRequest, CanInsert, OnTarget, Typed, BoardsOwned
  <2>2. FreshUid \in Uids
    BY <1>10, FreshKey DEF CommitRequest
  <2>3. requests' \subseteq Request
    BY <1>10, <2>1, <2>2
       DEF CommitRequest, Typed, TypeOK, Request, RequestStatus
  <2>4. /\ audits' \in [Boards -> [AuditAction -> Nat]]
        /\ notifications' \in [Boards -> [Users -> [NotificationType -> Nat]]]
    BY <1>10, <2>1, LoggedType, NotifiedType
       DEF CommitRequest, Typed, NotificationType
  <2> QED
    BY <1>10, <2>3, <2>4, CommitTyped DEF CommitRequest, Typed, TypeOK
<1>11. CASE CommitApprove(h)
  <2>1. c.board \in Boards /\ c.target \in Users
    BY <1>c, <1>11 DEF CommitApprove, OnTarget, OnUser
  <2>2. FreshUid \in Uids
    BY <1>11, FreshKey DEF CommitApprove
  <2>3. requests' \subseteq Request
    BY <1>11, SetStatusType DEF CommitApprove, Typed, TypeOK, RequestStatus
  <2>4. boardusers' \subseteq BoardUser
    BY <1>11, <2>1, <2>2 DEF CommitApprove, Typed, TypeOK, BoardUser, UserRole
  <2>5. /\ audits' \in [Boards -> [AuditAction -> Nat]]
        /\ notifications' \in [Boards -> [Users -> [NotificationType -> Nat]]]
    BY <1>11, <2>1, LoggedType, NotifiedType
       DEF CommitApprove, Typed, NotificationType
  <2> QED
    BY <1>11, <2>3, <2>4, <2>5, CommitTyped DEF CommitApprove, Typed, TypeOK
<1>12. CASE CommitReject(h)
  <2>1. c.board \in Boards /\ c.target \in Users
    BY <1>c, <1>12 DEF CommitReject, OnTarget, OnUser
  <2>2. requests' \subseteq Request
    BY <1>12, SetStatusType DEF CommitReject, Typed, TypeOK, RequestStatus
  <2>3. /\ audits' \in [Boards -> [AuditAction -> Nat]]
        /\ notifications' \in [Boards -> [Users -> [NotificationType -> Nat]]]
    BY <1>12, <2>1, LoggedType, NotifiedType
       DEF CommitReject, Typed, NotificationType
  <2> QED
    BY <1>12, <2>2, <2>3, CommitTyped DEF CommitReject, Typed, TypeOK
<1> QED
  BY <1>1, <1>2, <1>3, <1>4, <1>5, <1>6, <1>7, <1>8, <1>9, <1>10, <1>11, <1>12
     DEF MembershipStep

LEMMA InvitationsTyped ==
    ASSUME Typed, NEW h \in Handlers, InvitationsStep(h)
    PROVE  Typed'
<1> DEFINE c == calls[h]
<1>c. /\ c \in Call
      /\ c.pc # "idle" => c.board \in Boards
      /\ c.op \in OnTarget => c.target \in Users
      /\ c.op \in OfUser => c.user \in Users
  BY DEF Typed, TypeOK, CallsFilled
<1>1. CASE MailInvite(h)
  <2> DEFINE d == [c EXCEPT !.pc = "ready"]
  <2>1. d \in Call
    BY <1>c DEF Call
  <2>2. calls' = [calls EXCEPT ![h] = d]
    BY <1>1 DEF MailInvite, Typed, TypeOK
  <2>3. d.op = c.op /\ d.board = c.board /\ d.target = c.target /\ d.user = c.user
    BY <1>c DEF Call
  <2> HIDE DEF d
  <2>4. calls' \in [Handlers -> Call] /\ CallsFilled'
    BY <1>1, <2>1, <2>2, <2>3, LoadTyped DEF MailInvite
  <2>5. mailed' \subseteq Token
    BY <1>1, <1>c DEF MailInvite, Typed, TypeOK, Token, OnTarget, OnUser, OfUser
  <2> QED
    BY <1>1, <2>4, <2>5, TablesTyped DEF MailInvite, Typed, TypeOK
<1>2. CASE CommitInvite(h)
  <2>1. c.board \in Boards /\ c.target \in Users /\ c.user \in Users
    BY <1>c, <1>2 DEF CommitInvite, OnTarget, OnUser, OfUser
  <2>2. FreshUid \in Uids
    BY <1>2, FreshKey DEF CommitInvite
  <2>3. invitations' \subseteq Invitation
    BY <1>2, <2>1, <2>2 DEF CommitInvite, Typed, TypeOK, Invitation
  <2>4. notifications' \in [Boards -> [Users -> [NotificationType -> Nat]]]
    BY <1>2, <2>1, NotifiedType DEF CommitInvite, Typed, NotificationType
  <2> QED
    BY <1>2, <2>3, <2>4, CommitTyped DEF CommitInvite, Typed, TypeOK
<1>3. CASE BeginReply(h)
  <2>1. PICK op \in {"accept", "decline"}, t \in mailed, i \in invitations :
            /\ Begin(h, op, [Idle EXCEPT !.pc = "ready", !.user = t.user,
                     !.target = t.recipient, !.board = t.board, !.row = i.uid])
            /\ UNCHANGED <<tables, mailed>>
    BY <1>3 DEF BeginReply
  <2> DEFINE d == [Idle EXCEPT !.pc = "ready", !.user = t.user,
                     !.target = t.recipient, !.board = t.board, !.row = i.uid]
  <2>2. /\ t.user \in Users
        /\ t.recipient \in Users
        /\ t.board \in Boards
        /\ i.uid \in Uids
    BY DEF Typed, TypeOK, Token, Invitation
  <2>3. /\ d \in Call
        /\ d.board \in Boards
        /\ d.target \in Users
        /\ d.user \in Users
    BY <2>2 DEF Call, Idle
  <2>4. op \in Operation
    BY DEF Operation
  <2> HIDE DEF d
  <2>5. calls' \in [Handlers -> Call] /\ served' \in Nat /\ CallsFilled'
    BY <2>1, <2>3, <2>4, BeginTyped DEF d
  <2> QED
    BY <2>1, <2>5, TablesTyped DEF Typed, TypeOK
<1>4. CASE CommitAccept(h)
  <2>1. c.board \in Boards /\ c.target \in Users /\ c.user \in Users
    BY <1>c, <1>4 DEF CommitAccept, OnTarget, OfUser
  <2>2. FreshUid \in Uids
    BY <1>4, FreshKey DEF CommitAccept
  <2>3. boardusers' \subseteq BoardUser
    BY <1>4, <2>1, <2>2 DEF CommitAccept, Typed, TypeOK, BoardUser, UserRole
  <2>4. invitations' \subseteq Invitation
    BY <1>4 DEF CommitAccept, Typed, TypeOK
  <2>5. notifications' \in [Boards -> [Users -> [NotificationType -> Nat]]]
    BY <1>4, <2>1, NotifiedType DEF CommitAccept, Typed, NotificationType
  <2> QED
    BY <1>4, <2>3, <2>4, <2>5, CommitTyped DEF CommitAccept, Typed, TypeOK
<1>5. CASE CommitDecline(h)
  <2>1. invitations' \subseteq Invitation
    BY <1>5 DEF CommitDecline, Typed, TypeOK
  <2> QED
    BY <1>5, <2>1, CommitTyped DEF CommitDecline, Typed, TypeOK
<1> QED
  BY <1>1, <1>2, <1>3, <1>4, <1>5 DEF InvitationsStep

\* A commit that changes boards: each is as it was, newly born or gone.
LEMMA BoardsTyped ==
    ASSUME Typed, NEW h \in Handlers, Finish(h),
           boards' \in [Boards -> Board],
           \A b \in Boards : Live(b)' => boards'[b].owner \in Users,
           boardusers' \subseteq BoardUser,
           requests' \subseteq Request,
           invitations' \subseteq Invitation,
           audits' \in [Boards -> [AuditAction -> Nat]],
           notifications' \in [Boards -> [Users -> [NotificationType -> Nat]]],
           mailed' = mailed
    PROVE  Typed'
<1>1. calls' \in [Handlers -> Call] /\ CallsFilled'
  BY IdleTyped DEF Finish
<1>2. BoardsOwned'
  BY DEF BoardsOwned, Live
<1>3. TypeOK'
  BY <1>1 DEF Typed, TypeOK, Finish
<1> QED
  BY <1>1, <1>2, <1>3 DEF Typed

\* A column of a live board is written: its owner stays.
LEMMA BoardEdited ==
    ASSUME Typed, NEW b \in Boards, Live(b), NEW row \in Board,
           row.owner = boards[b].owner,
           boards' = [boards EXCEPT ![b] = row]
    PROVE  /\ boards' \in [Boards -> Board]
           /\ \A d \in Boards : Live(d)' => boards'[d].owner \in Users
BY DEF Typed, TypeOK, BoardsOwned, Live

LEMMA LifecycleTyped ==
    ASSUME Typed, NEW h \in Handlers, LifecycleStep(h)
    PROVE  Typed'
<1> DEFINE c == calls[h]
<1>c. /\ c \in Call
      /\ c.pc # "idle" => c.board \in Boards
      /\ c.op \in OnTarget => c.target \in Users
      /\ c.op \in OfUser => c.user \in Users
  BY DEF Typed, TypeOK, CallsFilled
<1>b. /\ \A u \in Users : \A archived, public \in BOOLEAN :
            /\ NewBoard(u, archived, public) \in Board
            /\ NewBoard(u, archived, public).owner = u
      /\ NoBoard("gone") \in Board
      /\ NoBoard("gone").life = "gone"
  BY DEF NewBoard, NoBoard, Board
<1>1. CASE BeginCreate(h)
  <2>1. PICK u \in Users, b \in Boards :
            /\ Begin(h, "create", [Idle EXCEPT !.pc = "ready", !.user = u,
                                               !.board = b])
            /\ boards' = [boards EXCEPT ![b] = NewBoard(u, FALSE, FALSE)]
    BY <1>1 DEF BeginCreate
  <2> DEFINE d == [Idle EXCEPT !.pc = "ready", !.user = u, !.board = b]
  <2>2. /\ d \in Call
        /\ d.board = b
        /\ d.user = u
    BY DEF Call, Idle
  <2>3. "create" \in Operation /\ "create" \notin OnTarget
    BY DEF OnUser, OnTarget, Operation
  <2> HIDE DEF d
  <2>4. calls' \in [Handlers -> Call] /\ served' \in Nat /\ CallsFilled'
    BY <2>1, <2>2, <2>3, BeginTyped DEF d
  <2>5. boards' \in [Boards -> Board] /\ BoardsOwned'
    BY <2>1, <1>b DEF Typed, TypeOK, BoardsOwned, Live
  <2> QED
    BY <1>1, <2>4, <2>5 DEF BeginCreate, Typed, TypeOK
<1>2. CASE CommitCreate(h)
  <2>1. c.board \in Boards /\ c.user \in Users
    BY <1>c, <1>2 DEF CommitCreate, OfUser
  <2>2. FreshUid \in Uids
    BY <1>2, FreshKey DEF CommitCreate
  <2>3. boardusers' \subseteq BoardUser
    BY <1>2, <2>1, <2>2 DEF CommitCreate, Typed, TypeOK, BoardUser, UserRole
  <2>4. audits' \in [Boards -> [AuditAction -> Nat]]
    BY <1>2, <2>1, LoggedType DEF CommitCreate, Typed
  <2>5. /\ boards' \in [Boards -> Board]
        /\ \A b \in Boards : Live(b)' => boards'[b].owner \in Users
    <3> DEFINE row == [boards[c.board] EXCEPT !.known = TRUE]
    <3>0. boards[c.board] \in Board
      BY <2>1 DEF Typed, TypeOK
    <3>1. row \in Board /\ row.owner = boards[c.board].owner
      BY <3>0 DEF Board
    <3>2. boards' = [boards EXCEPT ![c.board] = row] /\ Live(c.board)
      BY <1>2, <2>1 DEF CommitCreate, CanInsert, Typed, TypeOK
    <3> HIDE DEF row
    <3> QED
      BY <2>1, <3>1, <3>2, BoardEdited
  <2> QED
    BY <1>2, <2>3, <2>4, <2>5, BoardsTyped DEF CommitCreate, Typed, TypeOK
<1>3. CASE LoadBoard(h)
  <2> DEFINE d == [c EXCEPT !.pc = "ready",
                            !.archived = boards[c.board].archived,
                            !.public = boards[c.board].public]
  <2>1. c.board \in Boards
    BY <1>c, <1>3 DEF LoadBoard
  <2>2. d \in Call
    BY <1>c, <2>1 DEF Call, Typed, TypeOK, Board
  <2>3. calls' = [calls EXCEPT ![h] = d]
    BY <1>3 DEF LoadBoard, Typed, TypeOK
  <2>4. d.op = c.op /\ d.board = c.board /\ d.target = c.target /\ d.user = c.user
    BY <1>c DEF Call
  <2> HIDE DEF d
  <2>5. calls' \in [Handlers -> Call] /\ CallsFilled'
    BY <1>3, <2>2, <2>3, <2>4, LoadTyped DEF LoadBoard
  <2> QED
    BY <1>3, <2>5, TablesTyped DEF LoadBoard, Typed, TypeOK
<1>4. CASE CommitDuplicate(h)
  <2>1. c.board \in Boards /\ c.user \in Users
    BY <1>c, <1>4 DEF CommitDuplicate, OfUser
  <2>2. NewBoard(c.user, c.archived, c.public) \in Board
        /\ NewBoard(c.user, c.archived, c.public).owner \in Users
    BY <1>b, <1>c, <2>1 DEF Call
  <2>3. audits' \in [Boards -> [AuditAction -> Nat]]
    BY <1>4, <2>1, LoggedType DEF CommitDuplicate, Typed
  <2>4. /\ boards' \in [Boards -> Board]
        /\ \A b \in Boards : Live(b)' => boards'[b].owner \in Users
    BY <1>4, <2>2 DEF CommitDuplicate, Typed, TypeOK, BoardsOwned, Live
  <2> QED
    BY <1>4, <2>3, <2>4, BoardsTyped DEF CommitDuplicate, Typed, TypeOK
<1>5. CASE CommitArchive(h)
  <2>1. c.board \in Boards
    BY <1>c, <1>5 DEF CommitArchive
  <2>2. audits' \in [Boards -> [AuditAction -> Nat]]
    BY <1>5, <2>1, LoggedType DEF CommitArchive, Typed
  <2>3. /\ boards' \in [Boards -> Board]
        /\ \A b \in Boards : Live(b)' => boards'[b].owner \in Users
    BY <1>5, <2>1 DEF CommitArchive, Typed, TypeOK, BoardsOwned, Live, Board
  <2> QED
    BY <1>5, <2>2, <2>3, BoardsTyped DEF CommitArchive, Typed, TypeOK
<1>6. CASE BeginUnarchive(h)
  <2>1. PICK b \in Boards :
            /\ Begin(h, "unarchive", [Idle EXCEPT !.pc = "ready", !.board = b])
            /\ UNCHANGED <<tables, mailed>>
    BY <1>6 DEF BeginUnarchive
  <2> DEFINE d == [Idle EXCEPT !.pc = "ready", !.board = b]
  <2>2. d \in Call /\ d.board = b
    BY DEF Call, Idle
  <2>3. "unarchive" \in Operation /\ "unarchive" \notin OnTarget
        /\ "unarchive" \notin OfUser
    BY DEF OnUser, OnTarget, OfUser, Operation
  <2> HIDE DEF d
  <2>4. calls' \in [Handlers -> Call] /\ served' \in Nat /\ CallsFilled'
    BY <2>1, <2>2, <2>3, BeginTyped DEF d
  <2> QED
    BY <2>1, <2>4, TablesTyped DEF Typed, TypeOK
<1>7. CASE CommitUnarchive(h)
  <2>1. c.board \in Boards
    BY <1>c, <1>7 DEF CommitUnarchive
  <2>2. /\ boards' \in [Boards -> Board]
        /\ \A b \in Boards : Live(b)' => boards'[b].owner \in Users
    BY <1>7, <2>1 DEF CommitUnarchive, Typed, TypeOK, BoardsOwned, Live, Board
  <2> QED
    BY <1>7, <2>2, BoardsTyped DEF CommitUnarchive, Typed, TypeOK
<1>8. CASE CommitVisibility(h)
  <2>1. c.board \in Boards
    BY <1>c, <1>8 DEF CommitVisibility
  <2>2. PICK public \in BOOLEAN :
            boards' = IF public = c.public THEN boards
                      ELSE [boards EXCEPT ![c.board].public = public,
                                          ![c.board].known = @ \/ public]
    BY <1>8 DEF CommitVisibility
  <2> DEFINE old == boards[c.board]
             row == [old EXCEPT !.public = public, !.known = old.known \/ public]
  <2>3. /\ old \in Board
        /\ Live(c.board)
    BY <1>8, <2>1 DEF CommitVisibility, Typed, TypeOK
  <2>4. /\ boards' \in [Boards -> Board]
        /\ \A b \in Boards : Live(b)' => boards'[b].owner \in Users
    <3>1. CASE public = c.public
      BY <2>2, <3>1 DEF Typed, TypeOK, BoardsOwned, Live
    <3>2. CASE public # c.public
      <4>1. (old.known \/ public) \in BOOLEAN
        BY <2>3 DEF Board
      <4>2. row \in Board /\ row.owner = old.owner
        BY <2>3, <4>1 DEF Board
      <4>3. boards' = [boards EXCEPT ![c.board] = row]
        BY <2>1, <2>2, <3>2 DEF Typed, TypeOK
      <4> HIDE DEF row
      <4> QED
        BY <2>1, <2>3, <4>2, <4>3, BoardEdited
    <3> QED
      BY <3>1, <3>2
  <2> QED
    BY <1>8, <2>4, BoardsTyped DEF CommitVisibility, Typed, TypeOK
<1>9. CASE CommitDelete(h)
  <2>1. c.board \in Boards
    BY <1>c, <1>9 DEF CommitDelete
  <2>2. /\ boardusers' \subseteq BoardUser
        /\ requests' \subseteq Request
        /\ invitations' \subseteq Invitation
    BY <1>9 DEF CommitDelete, Typed, TypeOK
  <2>3. NoAudits \in [AuditAction -> Nat]
        /\ NoNotifications \in [Users -> [NotificationType -> Nat]]
    BY DEF NoAudits, NoNotifications
  <2>4. /\ audits' \in [Boards -> [AuditAction -> Nat]]
        /\ notifications' \in [Boards -> [Users -> [NotificationType -> Nat]]]
    BY <1>9, <2>1, <2>3 DEF CommitDelete, Typed, TypeOK
  <2>5. /\ boards' \in [Boards -> Board]
        /\ \A b \in Boards : Live(b)' => boards'[b].owner \in Users
    BY <1>9, <1>b, <2>1 DEF CommitDelete, Typed, TypeOK, BoardsOwned, Live
  <2> QED
    BY <1>9, <2>2, <2>4, <2>5, BoardsTyped DEF CommitDelete
<1> QED
  BY <1>1, <1>2, <1>3, <1>4, <1>5, <1>6, <1>7, <1>8, <1>9 DEF LifecycleStep

LEMMA NextTyped == Typed /\ [Next]_vars => Typed'
<1> SUFFICES ASSUME Typed, [Next]_vars PROVE Typed'
  OBVIOUS
<1>1. CASE UNCHANGED vars
  BY <1>1 DEF vars, Typed, TypeOK, CallsFilled, BoardsOwned, Live
<1>2. ASSUME NEW h \in Handlers, Step(h) PROVE Typed'
  BY <1>2, SharedTyped, MembershipTyped, InvitationsTyped, LifecycleTyped DEF Step
<1> QED
  BY <1>1, <1>2 DEF Next

\* Every table holds well-formed rows, and every handler what its pending
\* commit will write: whatever the handlers read, in whatever order.
THEOREM TypeCorrect == Spec => [](TypeOK /\ CallsFilled /\ BoardsOwned)
<1>1. Spec => []Typed
  BY InitTyped, NextTyped, PTL DEF Spec
<1>2. Typed => TypeOK /\ CallsFilled /\ BoardsOwned
  BY DEF Typed
<1> QED
  BY <1>1, <1>2, PTL
=============================================================================
