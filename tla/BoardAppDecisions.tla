-------------------------- MODULE BoardAppDecisions --------------------------
(***************************************************************************)
(* What roles and decisions owe to the log and to the notifications, for   *)
(* any instance of BoardApp, from the typing invariant and the grants.     *)
(***************************************************************************)
EXTENDS BoardAppProofs

Decision == {"approved", "rejected"}
Answer == {"request_approved", "request_rejected"}

-----------------------------------------------------------------------------
(* Rows and their keys *)

KeysUnique ==
    /\ \A m, n \in boardusers : m.uid = n.uid => m = n
    /\ \A r, s \in requests : r.uid = s.uid => r = s

\* The same row, whatever its role or its status has become.
SameRow(r, s) == r.uid = s.uid /\ r.user = s.user /\ r.board = s.board

\* A row is new, with a key no handler remembers, or was there.
MembersEvolve ==
    \A m \in boardusers' : \/ Fresh(m.uid)
                           \/ \E n \in boardusers : SameRow(m, n)

\* So is a request; it goes only with its board, and once decided it stays so.
RequestsEvolve ==
    /\ \A r \in requests' : Fresh(r.uid) \/ \E s \in requests : SameRow(r, s)
    /\ \A s \in requests : Live(s.board)' =>
            \E r \in requests' : /\ SameRow(r, s)
                                 /\ s.status # "pending" => r.status # "pending"

LEMMA StepMemberRows ==
    ASSUME Typed, KeysUnique, NEW h \in Handlers, Step(h)
    PROVE  /\ MembersEvolve
           /\ \A m, n \in boardusers' : m.uid = n.uid => m = n
<1> DEFINE c == calls[h]
<1>1. CASE boardusers' = boardusers
  BY <1>1 DEF MembersEvolve, KeysUnique, SameRow
<1>2. CASE CommitRole(h)
  <2>1. MembersEvolve
    BY <1>2, RoleRows DEF MembersEvolve, SameRow
  <2>2. PICK role \in UserRole :
            \/ boardusers' = boardusers
            \/ \E m \in boardusers :
                 /\ m.uid = c.row
                 /\ boardusers' = Without(c.row) \cup {[m EXCEPT !.role = role]}
    BY <1>2 DEF CommitRole
  <2>3. \A m \in boardusers : [m EXCEPT !.role = role].uid = m.uid
    BY DEF Typed, TypeOK, BoardUser
  <2> QED
    BY <2>1, <2>2, <2>3 DEF KeysUnique, Without
<1>3. CASE CommitRemove(h) \/ CommitLeave(h) \/ CommitDelete(h)
  <2>1. boardusers' \subseteq boardusers
    BY <1>3 DEF CommitRemove, CommitLeave, CommitDelete, Without
  <2> QED
    BY <2>1 DEF MembersEvolve, KeysUnique, SameRow
<1>4. CASE CommitApprove(h) \/ CommitAccept(h) \/ CommitCreate(h)
  <2>1. /\ \A m \in boardusers' \ boardusers : m.uid = FreshUid
        /\ \A m, n \in boardusers' \ boardusers : m = n
    BY <1>4 DEF CommitApprove, CommitAccept, CommitCreate
  <2>2. Fresh(FreshUid)
    BY <1>4, FreshKey DEF CommitApprove, CommitAccept, CommitCreate
  <2> QED
    BY <2>1, <2>2 DEF MembersEvolve, KeysUnique, SameRow, Fresh
<1> QED
  BY <1>1, <1>2, <1>3, <1>4, WritesMembers

\* A decision writes its status and leaves every other row alone.
LEMMA SetStatusDecides ==
    ASSUME Typed, NEW uid, NEW status
    PROVE  /\ \A s \in requests :
                 /\ s.uid = uid => [s EXCEPT !.status = status] \in SetStatus(uid, status)
                 /\ s.uid # uid => s \in SetStatus(uid, status)
           /\ \A r \in SetStatus(uid, status) :
                 \/ r.uid # uid /\ r \in requests
                 \/ r.status = status /\ r.uid = uid
                    /\ \E s \in requests : r = [s EXCEPT !.status = status] /\ SameRow(r, s)
           /\ \A s \in requests :
                 /\ SameRow([s EXCEPT !.status = status], s)
                 /\ [s EXCEPT !.status = status].status = status
<1>1. \A s \in requests : /\ SameRow([s EXCEPT !.status = status], s)
                          /\ [s EXCEPT !.status = status].status = status
  BY DEF Typed, TypeOK, Request, SameRow
<1>2. \A s \in requests :
         /\ s.uid = uid => [s EXCEPT !.status = status] \in SetStatus(uid, status)
         /\ s.uid # uid => s \in SetStatus(uid, status)
  BY DEF SetStatus
<1>3. ASSUME NEW r \in SetStatus(uid, status)
      PROVE  \/ r.uid # uid /\ r \in requests
             \/ r.status = status /\ r.uid = uid
                /\ \E s \in requests : r = [s EXCEPT !.status = status] /\ SameRow(r, s)
  <2>1. PICK s \in requests :
            r = IF s.uid = uid THEN [s EXCEPT !.status = status] ELSE s
    BY DEF SetStatus
  <2>2. CASE s.uid = uid
    BY <1>1, <2>1, <2>2 DEF SameRow
  <2>3. CASE s.uid # uid
    BY <2>1, <2>3
  <2> QED
    BY <2>2, <2>3
<1> QED
  BY <1>1, <1>2, <1>3

LEMMA StepRequestRows ==
    ASSUME Typed, KeysUnique, NEW h \in Handlers, Step(h)
    PROVE  /\ RequestsEvolve
           /\ \A r, s \in requests' : r.uid = s.uid => r = s
<1> DEFINE c == calls[h]
<1>1. CASE requests' = requests
  BY <1>1 DEF RequestsEvolve, KeysUnique, SameRow
<1>2. CASE CommitRequest(h)
  <2>1. /\ requests \subseteq requests'
        /\ \A r \in requests' \ requests : r.uid = FreshUid
        /\ \A r, s \in requests' \ requests : r = s
    BY <1>2 DEF CommitRequest
  <2>2. Fresh(FreshUid)
    BY <1>2, FreshKey DEF CommitRequest
  <2> QED
    BY <2>1, <2>2 DEF RequestsEvolve, KeysUnique, SameRow, Fresh
<1>3. ASSUME NEW uid, NEW status \in Decision, requests' = SetStatus(uid, status)
      PROVE  /\ RequestsEvolve
             /\ \A r, s \in requests' : r.uid = s.uid => r = s
  <2>1. \A r \in requests' : \E s \in requests : SameRow(r, s)
    BY <1>3, SetStatusDecides DEF SameRow
  <2>2. \A s \in requests : \E r \in requests' :
            SameRow(r, s) /\ (s.status # "pending" => r.status # "pending")
    <3> SUFFICES ASSUME NEW s \in requests
                 PROVE  \E r \in requests' :
                     SameRow(r, s) /\ (s.status # "pending" => r.status # "pending")
      OBVIOUS
    <3>1. CASE s.uid = uid
      <4>1. [s EXCEPT !.status = status] \in requests'
        BY <1>3, <3>1, SetStatusDecides
      <4>2. SameRow([s EXCEPT !.status = status], s)
        BY <1>3, SetStatusDecides
      <4>3. [s EXCEPT !.status = status].status # "pending"
        BY <1>3, SetStatusDecides DEF Decision
      <4> QED
        BY <4>1, <4>2, <4>3
    <3>2. CASE s.uid # uid
      BY <1>3, <3>2, SetStatusDecides DEF SameRow
    <3> QED
      BY <3>1, <3>2
  <2>3. \A r, s \in requests' : r.uid = s.uid => r = s
    BY <1>3, SetStatusDecides DEF KeysUnique, SameRow
  <2> QED
    BY <2>1, <2>2, <2>3 DEF RequestsEvolve
<1>4. CASE CommitApprove(h) \/ CommitReject(h)
  <2>1. \/ requests' = requests
        \/ \E status \in Decision : requests' = SetStatus(c.row, status)
    BY <1>4 DEF CommitApprove, CommitReject, Decision
  <2> QED
    BY <1>1, <1>3, <2>1
<1>5. CASE CommitDelete(h)
  <2>1. c.board \in Boards
    BY <1>5 DEF CommitDelete, Typed, CallsFilled
  <2>2. boards'[c.board].life # "live"
    BY <1>5, <2>1 DEF CommitDelete, NoBoard, Typed, TypeOK
  <2>3. requests' = {r \in requests : r.board # c.board}
    BY <1>5 DEF CommitDelete
  <2> QED
    BY <2>2, <2>3 DEF RequestsEvolve, KeysUnique, SameRow, Live
<1> QED
  BY <1>1, <1>2, <1>4, <1>5, WritesRequests

-----------------------------------------------------------------------------
(* Logs and notifications only grow *)

CountsGrow ==
    \A b \in Boards : Live(b) /\ Live(b)' =>
        /\ \A a \in AuditAction : audits[b][a] <= audits'[b][a]
        /\ \A u \in Users, t \in NotificationType :
                notifications[b][u][t] <= notifications'[b][u][t]

\* One more row for each action of A, none less for the others.
LEMMA LoggedGrows ==
    ASSUME Typed, NEW b \in Boards, NEW A
    PROVE  /\ \A d \in Boards, a \in AuditAction :
                 audits[d][a] <= Logged(b, A)[d][a]
           /\ \A a \in AuditAction : a \in A =>
                 Logged(b, A)[b][a] > 0
BY DEF Logged, Typed, TypeOK

\* One more notification of one user, and nothing else.
LEMMA NotifiedGrows ==
    ASSUME Typed, NEW b \in Boards, NEW u \in Users, NEW t \in NotificationType
    PROVE  /\ \A d \in Boards, v \in Users, s \in NotificationType :
                 /\ notifications[d][v][s] <= Notified(b, u, t)[d][v][s]
                 /\ \/ Notified(b, u, t)[d][v][s] = notifications[d][v][s]
                    \/ d = b /\ v = u /\ s = t
           /\ Notified(b, u, t)[b][u][t] > 0
BY DEF Notified, Typed, TypeOK

\* The steps that write to audits.
LEMMA WritesAudits ==
    ASSUME NEW h \in Handlers, Step(h)
    PROVE  \/ audits' = audits
           \/ /\ calls[h].pc # "idle"
              /\ \E A : audits' = Logged(calls[h].board, A)
           \/ CommitDelete(h)
<1>1. CASE BeginOnBoard(h) \/ BeginOnUser(h) \/ Fail(h)
  BY <1>1 DEF BeginOnBoard, BeginOnUser, Fail, tables
<1>2. CASE LoadMember(h) \/ LoadRequest(h) \/ BeginLeave(h) \/ BeginRequest(h)
           \/ CheckNotMember(h) \/ CheckNoRequest(h) \/ InvitationsStep(h)
  BY <1>2 DEF LoadMember, LoadRequest, BeginLeave, BeginRequest, CheckNotMember,
     CheckNoRequest, InvitationsStep, MailInvite, CommitInvite, BeginReply,
     CommitAccept, CommitDecline, tables
<1>3. CASE BeginCreate(h) \/ LoadBoard(h) \/ BeginUnarchive(h)
           \/ CommitUnarchive(h) \/ CommitVisibility(h)
  BY <1>3 DEF BeginCreate, LoadBoard, BeginUnarchive, CommitUnarchive,
     CommitVisibility, tables
<1>4. CASE CommitRole(h) \/ CommitRemove(h) \/ CommitLeave(h) \/ CommitRequest(h)
           \/ CommitApprove(h) \/ CommitReject(h)
  BY <1>4 DEF CommitRole, CommitRemove, CommitLeave, CommitRequest,
     CommitApprove, CommitReject
<1>5. CASE CommitCreate(h) \/ CommitDuplicate(h) \/ CommitArchive(h)
  BY <1>5 DEF CommitCreate, CommitDuplicate, CommitArchive
<1> QED
  BY <1>1, <1>2, <1>3, <1>4, <1>5 DEF Step, MembershipStep, LifecycleStep

\* The steps that write to notifications: an answer to a request goes to its
\* requester, from the commit that decides it.
LEMMA WritesNotifications ==
    ASSUME Typed, NEW h \in Handlers, Step(h)
    PROVE  \/ notifications' = notifications
           \/ /\ calls[h].pc # "idle"
              /\ \E u \in Users, t \in NotificationType :
                    /\ notifications' = Notified(calls[h].board, u, t)
                    /\ t \in Answer => /\ CommitApprove(h) \/ CommitReject(h)
                                       /\ u = calls[h].target
           \/ CommitDelete(h)
<1> DEFINE c == calls[h]
<1>c. /\ c.pc # "idle" => c.board \in Boards
      /\ c.op \in OnTarget => c.target \in Users
      /\ c.op \in OfUser => c.user \in Users
  BY DEF Typed, CallsFilled
<1>1. CASE UNCHANGED notifications
  BY <1>1
<1>2. CASE CommitRole(h)
  BY <1>2, <1>c DEF CommitRole, OnTarget, OnUser, NotificationType, Answer
<1>3. CASE CommitRemove(h)
  BY <1>3, <1>c DEF CommitRemove, OnTarget, OnUser, NotificationType, Answer
<1>4. CASE CommitRequest(h)
  BY <1>4, <1>c DEF CommitRequest, CanInsert, Typed, BoardsOwned,
     NotificationType, Answer
<1>5. CASE CommitApprove(h) \/ CommitReject(h)
  BY <1>5, <1>c DEF CommitApprove, CommitReject, OnTarget, OnUser,
     NotificationType
<1>6. CASE CommitInvite(h)
  BY <1>6, <1>c DEF CommitInvite, OnTarget, OnUser, NotificationType, Answer
<1>7. CASE CommitAccept(h)
  BY <1>7, <1>c DEF CommitAccept, OfUser, NotificationType, Answer
<1>8. CASE LifecycleStep(h)
  BY <1>8 DEF LifecycleStep, BeginCreate, CommitCreate, LoadBoard,
     CommitDuplicate, CommitArchive, BeginUnarchive, CommitUnarchive,
     CommitVisibility, tables
<1>9. CASE BeginOnBoard(h) \/ BeginOnUser(h) \/ Fail(h) \/ LoadMember(h)
           \/ LoadRequest(h) \/ BeginLeave(h) \/ CommitLeave(h)
           \/ BeginRequest(h) \/ CheckNotMember(h) \/ CheckNoRequest(h)
           \/ MailInvite(h) \/ BeginReply(h) \/ CommitDecline(h)
  BY <1>9 DEF BeginOnBoard, BeginOnUser, Fail, LoadMember, LoadRequest,
     BeginLeave, CommitLeave, BeginRequest, CheckNotMember, CheckNoRequest,
     MailInvite, BeginReply, CommitDecline, tables
<1> QED
  BY <1>1, <1>2, <1>3, <1>4, <1>5, <1>6, <1>7, <1>8, <1>9
     DEF Step, MembershipStep, InvitationsStep

LEMMA StepCounts ==
    ASSUME Typed, NEW h \in Handlers, Step(h)
    PROVE  CountsGrow
<1> DEFINE c == calls[h]
<1>c. c.pc # "idle" => c.board \in Boards
  BY DEF Typed, CallsFilled
<1>t. /\ \A b \in Boards, a \in AuditAction : audits[b][a] \in Nat
      /\ \A b \in Boards, u \in Users, t \in NotificationType :
             notifications[b][u][t] \in Nat
  BY DEF Typed, TypeOK
<1>1. CASE CommitDelete(h)
  <2>1. c.board \in Boards
    BY <1>1, <1>c DEF CommitDelete
  <2>2. boards'[c.board].life # "live"
    BY <1>1, <2>1 DEF CommitDelete, NoBoard, Typed, TypeOK
  <2>3. \A d \in Boards \ {c.board} : /\ audits'[d] = audits[d]
                                     /\ notifications'[d] = notifications[d]
    BY <1>1 DEF CommitDelete, Typed, TypeOK
  <2> QED
    BY <1>t, <2>2, <2>3 DEF CountsGrow, Live
<1>2. CASE ~CommitDelete(h)
  <2>1. \A b \in Boards, a \in AuditAction : audits[b][a] <= audits'[b][a]
    BY <1>2, <1>c, <1>t, WritesAudits, LoggedGrows
  <2>2. \A b \in Boards, u \in Users, t \in NotificationType :
            notifications[b][u][t] <= notifications'[b][u][t]
    BY <1>2, <1>c, <1>t, WritesNotifications, NotifiedGrows
  <2> QED
    BY <2>1, <2>2 DEF CountsGrow
<1> QED
  BY <1>1, <1>2

-----------------------------------------------------------------------------
(* What a handler has loaded still names its target when it commits *)

RoleLoaded(c) ==
    c.pc = "ready" /\ c.op = "role" =>
        \A m \in boardusers : m.uid = c.row => m.user = c.target /\ m.board = c.board

\* The request a decision has loaded is there as long as its board is; when it
\* was decided then, it is now.
RequestLoaded(c) ==
    c.pc = "ready" /\ c.op \in {"approve", "reject"} /\ Live(c.board) =>
        \E r \in requests : /\ r.uid = c.row
                            /\ r.user = c.target
                            /\ r.board = c.board
                            /\ c.was # "pending" => r.status # "pending"

RowsLoaded == \A h \in Handlers : RoleLoaded(calls[h]) /\ RequestLoaded(calls[h])

\* Others may decide or delete the row, never give its key to another row.
LEMMA LoadedKept ==
    ASSUME MembersEvolve, RequestsEvolve, Evolves, NEW c \in Call,
           ~Fresh(c.row), RoleLoaded(c), RequestLoaded(c),
           c.pc # "idle" => /\ c.board \in Boards
                            /\ boards[c.board].life # "unborn",
           boards \in [Boards -> Board]
    PROVE  RoleLoaded(c)' /\ RequestLoaded(c)'
<1>1. RoleLoaded(c)'
  <2>1. \A m \in boardusers' : m.uid = c.row =>
            \E n \in boardusers : SameRow(m, n)
    BY DEF MembersEvolve
  <2> QED
    BY <2>1 DEF RoleLoaded, SameRow
<1>2. RequestLoaded(c)'
  <2> SUFFICES ASSUME c.pc = "ready", c.op \in {"approve", "reject"}, Live(c.board)'
               PROVE  \E r \in requests' : /\ r.uid = c.row
                                           /\ r.user = c.target
                                           /\ r.board = c.board
                                           /\ c.was # "pending" => r.status # "pending"
    BY DEF RequestLoaded
  <2>1. boards[c.board].life \in {"live", "gone"}
    BY DEF Board
  <2>2. Live(c.board)
    BY <2>1 DEF Evolves, Live
  <2>3. PICK s \in requests : /\ s.uid = c.row
                              /\ s.user = c.target
                              /\ s.board = c.board
                              /\ c.was # "pending" => s.status # "pending"
    BY <2>2 DEF RequestLoaded
  <2>4. PICK r \in requests' : /\ SameRow(r, s)
                               /\ s.status # "pending" => r.status # "pending"
    BY <2>3 DEF RequestsEvolve
  <2> QED
    BY <2>3, <2>4 DEF SameRow
<1> QED
  BY <1>1, <1>2

\* A handler that has begun is where its record says, in its operation.
LEMMA BegunCall ==
    ASSUME Typed, NEW h \in Handlers, NEW op, NEW call \in Call,
           Begin(h, op, call)
    PROVE  calls'[h].pc = call.pc /\ calls'[h].op = op
BY DEF Begin, Typed, TypeOK, Call

\* The handler that steps has just loaded the row, or remembers none.
LEMMA OwnLoaded ==
    ASSUME Typed, KeysUnique, NEW h \in Handlers, Step(h)
    PROVE  RoleLoaded(calls[h])' /\ RequestLoaded(calls[h])'
<1> DEFINE c == calls[h]
<1>c. c \in Call
  BY DEF Typed, TypeOK
<1>1. CASE calls'[h].pc # "ready" \/ calls'[h].op \notin {"role", "approve", "reject"}
  BY <1>1 DEF RoleLoaded, RequestLoaded
<1>2. CASE LoadMember(h)
  <2>1. PICK m \in boardusers :
            /\ Memberships(c.target, c.board) = {m}
            /\ calls' = [calls EXCEPT ![h].pc = "ready", ![h].row = m.uid,
                                      ![h].was = m.role]
            /\ boardusers' = boardusers
    BY <1>2 DEF LoadMember, tables
  <2>2. /\ calls'[h].row = m.uid
        /\ calls'[h].board = c.board
        /\ calls'[h].target = c.target
        /\ calls'[h].op \notin {"approve", "reject"}
    BY <1>2, <1>c, <2>1 DEF LoadMember, Typed, TypeOK, Call
  <2>3. m.user = c.target /\ m.board = c.board
    BY <2>1 DEF Memberships
  <2> QED
    BY <2>1, <2>2, <2>3 DEF RoleLoaded, RequestLoaded, KeysUnique
<1>3. CASE LoadRequest(h)
  <2>1. PICK r \in requests :
            /\ RequestsOf(c.target, c.board) = {r}
            /\ calls' = [calls EXCEPT ![h].pc = "ready", ![h].row = r.uid,
                                      ![h].was = r.status]
            /\ requests' = requests
    BY <1>3 DEF LoadRequest, tables
  <2>2. /\ calls'[h].row = r.uid
        /\ calls'[h].was = r.status
        /\ calls'[h].board = c.board
        /\ calls'[h].target = c.target
        /\ calls'[h].op # "role"
    BY <1>3, <1>c, <2>1 DEF LoadRequest, Typed, TypeOK, Call
  <2>3. r.user = c.target /\ r.board = c.board
    BY <2>1 DEF RequestsOf
  <2> QED
    BY <2>1, <2>2, <2>3 DEF RoleLoaded, RequestLoaded
<1>4. \/ LoadMember(h) \/ LoadRequest(h)
      \/ calls'[h].pc # "ready"
      \/ calls'[h].op \notin {"role", "approve", "reject"}
  <2>1. CASE Fail(h) \/ Finish(h)
    BY <2>1 DEF Fail, Finish, Idle, Typed, TypeOK
  <2>2. CASE BeginOnBoard(h)
    <3>1. PICK op \in OnBoard, u \in Users, b \in Boards :
              Begin(h, op, [Idle EXCEPT !.pc = "checked", !.board = b,
                                !.user = IF op = "duplicate" THEN u ELSE None])
      BY <2>2 DEF BeginOnBoard
    <3> DEFINE d == [Idle EXCEPT !.pc = "checked", !.board = b,
                                !.user = IF op = "duplicate" THEN u ELSE None]
    <3>2. d \in Call /\ d.pc = "checked"
      BY DEF Idle, Call
    <3> HIDE DEF d
    <3> QED
      BY <3>1, <3>2, BegunCall DEF d
  <2>3. CASE BeginOnUser(h)
    <3>1. PICK op \in OnUser, u \in Users, t \in Users, b \in Boards :
              Begin(h, op, [Idle EXCEPT !.pc = "checked", !.board = b,
                                !.target = t,
                                !.user = IF op = "invite" THEN u ELSE None])
      BY <2>3 DEF BeginOnUser
    <3> DEFINE d == [Idle EXCEPT !.pc = "checked", !.board = b, !.target = t,
                                !.user = IF op = "invite" THEN u ELSE None]
    <3>2. d \in Call /\ d.pc = "checked"
      BY DEF Idle, Call
    <3> HIDE DEF d
    <3> QED
      BY <3>1, <3>2, BegunCall DEF d
  <2>6. CASE BeginLeave(h) \/ BeginRequest(h) \/ BeginReply(h) \/ BeginCreate(h)
             \/ BeginUnarchive(h)
    <3>1. CASE BeginLeave(h)
      BY <3>1 DEF BeginLeave, Begin, Idle, Typed, TypeOK
    <3>2. CASE BeginRequest(h)
      BY <3>2 DEF BeginRequest, Begin, Idle, Typed, TypeOK
    <3>3. CASE BeginReply(h)
      BY <3>3 DEF BeginReply, Begin, Idle, Typed, TypeOK
    <3>4. CASE BeginCreate(h)
      BY <3>4 DEF BeginCreate, Begin, Idle, Typed, TypeOK
    <3>5. CASE BeginUnarchive(h)
      BY <3>5 DEF BeginUnarchive, Begin, Idle, Typed, TypeOK
    <3> QED
      BY <2>6, <3>1, <3>2, <3>3, <3>4, <3>5
  <2>4. CASE CheckNotMember(h) \/ CheckNoRequest(h) \/ MailInvite(h)
    BY <2>4, <1>c DEF CheckNotMember, CheckNoRequest, MailInvite, Typed, TypeOK,
       Call
  <2>5. CASE LoadBoard(h)
    <3>1. calls'[h].op = c.op /\ c.op \in OnBoard
      BY <2>5, <1>c DEF LoadBoard, Typed, TypeOK, Call
    <3> QED
      BY <3>1 DEF OnBoard
  <2> QED
    BY <2>1, <2>2, <2>3, <2>4, <2>5, <2>6 DEF Step, MembershipStep,
       InvitationsStep, LifecycleStep, CommitRole, CommitRemove, CommitLeave, CommitRequest,
       CommitApprove, CommitReject, CommitInvite, CommitAccept, CommitDecline,
       CommitCreate, CommitDuplicate, CommitArchive, CommitUnarchive,
       CommitVisibility, CommitDelete
<1> QED
  BY <1>1, <1>2, <1>3, <1>4

-----------------------------------------------------------------------------
(* Roles *)

\* RoleIsExplained, of one membership.
Explained(m) ==
    \/ m.role = "admin"
    \/ m.role = "owner" /\ m.user # boards[m.board].owner
    => /\ audits[m.board]["member_role_changed"] > 0
       /\ notifications[m.board][m.user]["role_changed"] > 0

\* A membership that a step writes has its role by a grant or by the change
\* of role that this step logs.
LEMMA NewRoles ==
    ASSUME Typed, NEW h \in Handlers, Step(h), Evolves, Backed(calls[h]),
           RoleLoaded(calls[h]), NEW m \in boardusers', m \notin boardusers,
           Live(m.board)'
    PROVE  Explained(m)'
<1> DEFINE c == calls[h]
<1>c. /\ c.pc # "idle" => c.board \in Boards
      /\ c.op \in OnTarget => c.target \in Users
  BY DEF Typed, CallsFilled
<1>1. CASE CommitRole(h)
  <2>1. PICK role \in UserRole, n \in boardusers :
            /\ n.uid = c.row
            /\ m = [n EXCEPT !.role = role]
    BY <1>1 DEF CommitRole, Without
  <2>2. n.user = c.target /\ n.board = c.board
    BY <1>1, <2>1 DEF CommitRole, RoleLoaded
  <2>3. m.user = c.target /\ m.board = c.board
    BY <2>1, <2>2 DEF Typed, TypeOK, BoardUser
  <2>4. c.board \in Boards /\ c.target \in Users
    BY <1>1, <1>c DEF CommitRole, OnTarget, OnUser
  <2>5. audits'[c.board]["member_role_changed"] > 0
    BY <1>1, <2>4, LoggedGrows DEF CommitRole, AuditAction
  <2>6. notifications'[c.board][c.target]["role_changed"] > 0
    BY <1>1, <2>4, NotifiedGrows DEF CommitRole, NotificationType
  <2> QED
    BY <2>3, <2>5, <2>6 DEF Explained
<1>2. CASE CommitApprove(h) \/ CommitAccept(h)
  BY <1>2 DEF CommitApprove, CommitAccept, Explained
<1>3. CASE CommitCreate(h)
  <2>1. m.user = c.user /\ m.board = c.board /\ m.role = "owner"
    BY <1>3 DEF CommitCreate
  <2>2. boards[c.board].owner = c.user
    BY <1>3 DEF CommitCreate, CanInsert, Backed
  <2>3. boards'[c.board].owner = c.user
    BY <1>3, <1>c, <2>1, <2>2 DEF CommitCreate, CanInsert, Evolves, Live
  <2> QED
    BY <2>1, <2>3 DEF Explained
<1> QED
  BY <1>1, <1>2, <1>3, WritesMembers
     DEF CommitRemove, CommitLeave, CommitDelete, Without

LEMMA StepRoles ==
    ASSUME GrantsInv, RoleIsExplained, NEW h \in Handlers, Step(h),
           RoleLoaded(calls[h])
    PROVE  RoleIsExplained'
<1>1. Typed /\ RefIntegrity /\ Backed(calls[h])
  BY DEF GrantsInv, CallsBacked
<1>2. Typed' /\ RefIntegrity'
  BY StepGrants DEF GrantsInv
<1>3. Evolves /\ CountsGrow
  BY <1>1, StepEvolves, StepCounts
<1>4. ASSUME NEW m \in boardusers' PROVE Explained(m)'
  <2>1. m.board \in Boards /\ m.user \in Users /\ Live(m.board)'
    BY <1>2 DEF RefIntegrity, Typed, TypeOK, BoardUser
  <2>2. CASE m \in boardusers
    <3>1. Live(m.board) /\ Explained(m)
      BY <1>1, <2>2 DEF RefIntegrity, RoleIsExplained, Explained
    <3>2. boards'[m.board].owner = boards[m.board].owner
      BY <1>3, <2>1, <3>1 DEF Evolves, Live
    <3>3. /\ audits[m.board]["member_role_changed"]
                 <= audits'[m.board]["member_role_changed"]
          /\ notifications[m.board][m.user]["role_changed"]
                 <= notifications'[m.board][m.user]["role_changed"]
      BY <1>3, <2>1, <3>1 DEF CountsGrow, AuditAction, NotificationType
    <3>4. /\ audits[m.board]["member_role_changed"] \in Nat
          /\ audits'[m.board]["member_role_changed"] \in Nat
          /\ notifications[m.board][m.user]["role_changed"] \in Nat
          /\ notifications'[m.board][m.user]["role_changed"] \in Nat
      BY <1>1, <1>2, <2>1 DEF Typed, TypeOK, AuditAction, NotificationType
    <3> QED
      BY <3>1, <3>2, <3>3, <3>4 DEF Explained
  <2>3. CASE m \notin boardusers
    BY <1>1, <1>3, <2>1, <2>3, NewRoles
  <2> QED
    BY <2>2, <2>3
<1> QED
  BY <1>4 DEF RoleIsExplained, Explained

-----------------------------------------------------------------------------
(* Decisions *)

Undecided(u, b) ==
    /\ notifications[b][u]["request_approved"] = 0
    /\ notifications[b][u]["request_rejected"] = 0

\* An answer is only ever sent to a user who has asked.
AnsweredHasAsked ==
    \A u \in Users, b \in Boards :
        Live(b) => Undecided(u, b) \/ RequestsOf(u, b) # {}

\* A step sends an answer only to the target of the decision it commits.
LEMMA StepAnswers ==
    ASSUME Typed, NEW h \in Handlers, Step(h), NEW u \in Users, NEW b \in Boards,
           Live(b)', Undecided(u, b)
    PROVE  \/ Undecided(u, b)'
           \/ /\ CommitApprove(h) \/ CommitReject(h)
              /\ u = calls[h].target
              /\ b = calls[h].board
<1> DEFINE c == calls[h]
<1>c. c.pc # "idle" => c.board \in Boards
  BY DEF Typed, CallsFilled
<1>1. CASE CommitDelete(h)
  BY <1>1, <1>c DEF CommitDelete, NoNotifications, NotificationType, Undecided,
     Typed, TypeOK
<1>2. CASE notifications' = notifications
  BY <1>2 DEF Undecided
<1>3. CASE ~CommitDelete(h) /\ notifications' # notifications
  <2>1. c.board \in Boards
    BY <1>3, <1>c, WritesNotifications
  <2>2. PICK v \in Users, t \in NotificationType :
            /\ notifications' = Notified(c.board, v, t)
            /\ t \in Answer => /\ CommitApprove(h) \/ CommitReject(h)
                               /\ v = c.target
    BY <1>3, WritesNotifications
  <2>3. \A s \in Answer : \/ notifications'[b][u][s] = notifications[b][u][s]
                          \/ b = c.board /\ u = v /\ s = t
    BY <2>1, <2>2, NotifiedGrows DEF Answer, NotificationType
  <2> QED
    BY <2>2, <2>3 DEF Undecided, Answer
<1> QED
  BY <1>1, <1>2, <1>3

\* Where the decision of a handler went.
LEMMA DecisionWritten ==
    ASSUME Typed, KeysUnique, NEW h \in Handlers, RequestLoaded(calls[h]),
           CommitApprove(h) \/ CommitReject(h)
    PROVE  /\ \E r \in requests' : /\ r.status # "pending"
                                   /\ r.user = calls[h].target
                                   /\ r.board = calls[h].board
           /\ RequestsOf(calls[h].target, calls[h].board) # {}
           /\ \A r \in requests' : r \notin requests =>
                 /\ r.user = calls[h].target
                 /\ r.board = calls[h].board
                 /\ r.status = IF CommitApprove(h) THEN "approved" ELSE "rejected"
<1> DEFINE c == calls[h]
           decided == IF CommitApprove(h) THEN "approved" ELSE "rejected"
<1>1. /\ c.pc = "ready"
      /\ c.op \in {"approve", "reject"}
      /\ Live(c.board)
      /\ requests' = IF c.was = decided THEN requests
                     ELSE SetStatus(c.row, decided)
  BY DEF CommitApprove, CommitReject, CanInsert
<1>2. PICK s \in requests : /\ s.uid = c.row
                            /\ s.user = c.target
                            /\ s.board = c.board
                            /\ c.was # "pending" => s.status # "pending"
  BY <1>1 DEF RequestLoaded
<1>3. RequestsOf(c.target, c.board) # {}
  BY <1>2 DEF RequestsOf
<1>d. decided \in Decision
  BY DEF Decision
<1>4. CASE c.was = decided
  BY <1>1, <1>2, <1>3, <1>4 DEF Decision
<1>5. CASE c.was # decided
  <2> HIDE DEF decided
  <2>1. requests' = SetStatus(c.row, decided)
    BY <1>1, <1>5
  <2>2. /\ [s EXCEPT !.status = decided] \in requests'
        /\ SameRow([s EXCEPT !.status = decided], s)
        /\ [s EXCEPT !.status = decided].status = decided
    BY <1>2, <2>1, SetStatusDecides
  <2>3. \E r \in requests' : /\ r.status # "pending"
                             /\ r.user = c.target
                             /\ r.board = c.board
    BY <1>2, <1>d, <2>2 DEF SameRow, Decision
  <2>4. ASSUME NEW r \in requests', r \notin requests
        PROVE  r.user = c.target /\ r.board = c.board /\ r.status = decided
    <3>1. /\ r.status = decided
          /\ r.uid = c.row
          /\ \E n \in requests : SameRow(r, n)
      BY <2>1, <2>4, SetStatusDecides
    <3>2. SameRow(r, s)
      BY <1>2, <3>1 DEF KeysUnique, SameRow
    <3> QED
      BY <1>2, <3>1, <3>2 DEF SameRow
  <2> QED
    BY <1>3, <2>3, <2>4 DEF decided
<1> QED
  BY <1>4, <1>5

LEMMA StepNotified ==
    ASSUME GrantsInv, KeysUnique, DecisionIsNotified, NEW h \in Handlers,
           Step(h), RequestLoaded(calls[h])
    PROVE  DecisionIsNotified'
<1> DEFINE c == calls[h]
           Told(r) ==
               LET decision == IF r.status = "approved" THEN "request_approved"
                               ELSE "request_rejected"
               IN  notifications[r.board][r.user][decision] > 0
<1>1. Typed /\ RefIntegrity /\ Typed' /\ RefIntegrity'
  BY StepGrants DEF GrantsInv
<1>2. CountsGrow
  BY <1>1, StepCounts
<1>3. ASSUME NEW r \in requests', r.status # "pending" PROVE Told(r)'
  <2>1. r.board \in Boards /\ r.user \in Users /\ Live(r.board)'
    BY <1>1 DEF RefIntegrity, Typed, TypeOK, Request
  <2>2. CASE r \in requests
    <3>1. Live(r.board) /\ Told(r)
      BY <1>1, <1>3, <2>2 DEF RefIntegrity, DecisionIsNotified
    <3>2. \A t \in Answer :
              /\ notifications[r.board][r.user][t] <= notifications'[r.board][r.user][t]
              /\ notifications[r.board][r.user][t] \in Nat
              /\ notifications'[r.board][r.user][t] \in Nat
      BY <1>1, <1>2, <2>1, <3>1 DEF CountsGrow, Answer, NotificationType, Typed,
         TypeOK
    <3> QED
      BY <3>1, <3>2 DEF Answer
  <2>3. CASE r \notin requests
    <3>1. CommitApprove(h) \/ CommitReject(h)
      BY <1>3, <2>3, WritesRequests DEF CommitRequest, CommitDelete
    <3>2. /\ r.user = c.target
          /\ r.board = c.board
          /\ r.status = IF CommitApprove(h) THEN "approved" ELSE "rejected"
      BY <1>1, <2>3, <3>1, DecisionWritten
    <3>3. CASE CommitApprove(h)
      <4>1. notifications' = Notified(c.board, c.target, "request_approved")
        BY <3>3 DEF CommitApprove
      <4> QED
        BY <1>1, <2>1, <3>2, <3>3, <4>1, NotifiedGrows DEF NotificationType
    <3>4. CASE ~CommitApprove(h)
      <4>1. notifications' = Notified(c.board, c.target, "request_rejected")
        BY <3>1, <3>4 DEF CommitReject
      <4> QED
        BY <1>1, <2>1, <3>2, <3>4, <4>1, NotifiedGrows DEF NotificationType
    <3> QED
      BY <3>3, <3>4
  <2> QED
    BY <2>2, <2>3
<1> QED
  BY <1>3 DEF DecisionIsNotified

LEMMA StepAsked ==
    ASSUME Typed, RefIntegrity, KeysUnique, AnsweredHasAsked,
           NEW h \in Handlers, Step(h), RequestLoaded(calls[h])
    PROVE  AnsweredHasAsked'
<1> DEFINE c == calls[h]
<1> SUFFICES ASSUME NEW u \in Users, NEW b \in Boards, Live(b)', ~Undecided(u, b)'
             PROVE  RequestsOf(u, b)' # {}
  BY DEF AnsweredHasAsked
<1>1. RequestsKept
  BY StepKeepsRequests
<1>2. CASE ~Live(b)
  <2>1. Undecided(u, b)
    BY <1>2 DEF RefIntegrity, LiveBoards, NoNotifications, NotificationType,
       Undecided
  <2>2. CommitApprove(h) \/ CommitReject(h)
    BY <2>1, StepAnswers
  <2> QED
    BY <1>2, <2>2 DEF CommitApprove, CommitReject, CanInsert, Live
<1>3. CASE Live(b) /\ Undecided(u, b)
  <2>1. /\ CommitApprove(h) \/ CommitReject(h)
        /\ u = c.target
        /\ b = c.board
    BY <1>3, StepAnswers
  <2>2. \E r \in requests' : r.user = u /\ r.board = b
    BY <2>1, DecisionWritten
  <2> QED
    BY <2>2 DEF RequestsOf
<1>4. CASE Live(b) /\ ~Undecided(u, b)
  <2>1. PICK s \in requests : s.user = u /\ s.board = b
    BY <1>4 DEF AnsweredHasAsked, RequestsOf
  <2> QED
    BY <1>1, <2>1 DEF RequestsKept, RequestsOf
<1> QED
  BY <1>2, <1>3, <1>4

LEMMA StepPending ==
    ASSUME GrantsInv, KeysUnique, AnsweredHasAsked, PendingMeansUndecided,
           NEW h \in Handlers, Step(h), RequestLoaded(calls[h])
    PROVE  PendingMeansUndecided'
<1> DEFINE c == calls[h]
<1>1. Typed /\ RefIntegrity /\ Typed' /\ RefIntegrity'
  BY StepGrants DEF GrantsInv
<1> SUFFICES ASSUME NEW r \in requests', r.status = "pending",
                    RequestsOf(r.user, r.board)' = {r}
             PROVE  Undecided(r.user, r.board)'
  BY DEF PendingMeansUndecided, Undecided
<1>2. r.board \in Boards /\ r.user \in Users /\ Live(r.board)'
  BY <1>1 DEF RefIntegrity, Typed, TypeOK, Request
<1>3. \A s \in requests' : s.user = r.user /\ s.board = r.board => s = r
  BY DEF RequestsOf
\* The step is not the decision of this request.
<1>4. ASSUME CommitApprove(h) \/ CommitReject(h)
      PROVE  r.user # c.target \/ r.board # c.board
  <2>1. PICK s \in requests' : /\ s.status # "pending"
                               /\ s.user = c.target
                               /\ s.board = c.board
    BY <1>1, <1>4, DecisionWritten
  <2> QED
    BY <1>3, <2>1
\* Before the step nobody had answered it.
<1>5. Undecided(r.user, r.board)
  <2>1. ASSUME NEW s \in requests, s.user = r.user, s.board = r.board
        PROVE  s.uid = r.uid
    BY <1>1, <1>2, <1>3, <2>1, StepKeepsRequests DEF RequestsKept
  <2>2. CASE r \in requests
    <3>1. RequestsOf(r.user, r.board) = {r}
      BY <2>1, <2>2 DEF RequestsOf, KeysUnique
    <3> QED
      BY <2>2, <3>1 DEF PendingMeansUndecided, Undecided
  <2>3. CASE r \notin requests
    <3>1. CommitRequest(h)
      BY <1>1, <1>4, <2>3, WritesRequests, DecisionWritten DEF CommitDelete
    <3>2. Fresh(r.uid)
      BY <2>3, <3>1, FreshKey DEF CommitRequest
    <3>3. RequestsOf(r.user, r.board) = {}
      BY <2>1, <3>2 DEF Fresh, RequestsOf
    <3>4. Live(r.board)
      BY <2>3, <3>1 DEF CommitRequest, CanInsert
    <3> QED
      BY <1>2, <3>3, <3>4 DEF AnsweredHasAsked
  <2> QED
    BY <2>2, <2>3
<1> QED
  BY <1>1, <1>2, <1>4, <1>5, StepAnswers

-----------------------------------------------------------------------------
(* The invariant and its theorems *)

DecisionsInv ==
    /\ GrantsInv
    /\ KeysUnique
    /\ RowsLoaded
    /\ RoleIsExplained
    /\ AnsweredHasAsked
    /\ DecisionIsNotified
    /\ PendingMeansUndecided

LEMMA InitDecisions == Init => DecisionsInv
<1> SUFFICES ASSUME Init PROVE DecisionsInv
  OBVIOUS
<1>1. GrantsInv
  BY InitTyped, InitRef, InitBacked DEF GrantsInv
<1>2. RowsLoaded
  BY DEF Init, RowsLoaded, RoleLoaded, RequestLoaded, Idle
<1>3. KeysUnique /\ RoleIsExplained /\ DecisionIsNotified /\ PendingMeansUndecided
  BY DEF Init, KeysUnique, RoleIsExplained, DecisionIsNotified,
     PendingMeansUndecided
<1>4. AnsweredHasAsked
  BY DEF Init, AnsweredHasAsked, Live, NoBoard
<1> QED
  BY <1>1, <1>2, <1>3, <1>4 DEF DecisionsInv

LEMMA StepDecisions ==
    ASSUME DecisionsInv, NEW h \in Handlers, Step(h)
    PROVE  DecisionsInv'
<1>1. /\ GrantsInv /\ Typed /\ RefIntegrity /\ KeysUnique
      /\ \A g \in Handlers : RoleLoaded(calls[g]) /\ RequestLoaded(calls[g])
  BY DEF DecisionsInv, GrantsInv, RowsLoaded
<1>2. GrantsInv'
  BY <1>1, StepGrants
<1>3. MembersEvolve /\ RequestsEvolve /\ KeysUnique'
  BY <1>1, StepMemberRows, StepRequestRows DEF KeysUnique
<1>4. ASSUME NEW g \in Handlers
      PROVE  RoleLoaded(calls[g])' /\ RequestLoaded(calls[g])'
  <2>1. CASE g = h
    BY <1>1, <2>1, OwnLoaded
  <2>2. CASE g # h
    <3> DEFINE c == calls[g]
    <3>1. calls'[g] = c
      BY <1>1, <2>2, StepFrame DEF Typed, TypeOK
    <3>2. /\ c \in Call
          /\ ~Fresh(c.row)
          /\ RoleLoaded(c) /\ RequestLoaded(c)
          /\ c.pc # "idle" => /\ c.board \in Boards
                              /\ boards[c.board].life # "unborn"
      BY <1>1 DEF Typed, TypeOK, CallsFilled, Fresh, GrantsInv, CallsBacked, Backed
    <3>3. Evolves /\ boards \in [Boards -> Board]
      BY <1>1, StepEvolves DEF Typed, TypeOK
    <3>4. ASSUME NEW d \in Call, ~Fresh(d.row), RoleLoaded(d), RequestLoaded(d),
                 d.pc # "idle" => /\ d.board \in Boards
                                  /\ boards[d.board].life # "unborn"
          PROVE  RoleLoaded(d)' /\ RequestLoaded(d)'
      BY <1>3, <3>3, <3>4, LoadedKept
    <3> QED
      BY <3>1, <3>2, <3>4 DEF RoleLoaded, RequestLoaded
  <2> QED
    BY <2>1, <2>2
<1>5. RoleIsExplained'
  BY <1>1, StepRoles DEF DecisionsInv
<1>6. AnsweredHasAsked' /\ DecisionIsNotified' /\ PendingMeansUndecided'
  BY <1>1, StepAsked, StepNotified, StepPending DEF DecisionsInv
<1> QED
  BY <1>2, <1>3, <1>4, <1>5, <1>6 DEF DecisionsInv, RowsLoaded

LEMMA NextDecisions == DecisionsInv /\ [Next]_vars => DecisionsInv'
<1> SUFFICES ASSUME DecisionsInv, [Next]_vars PROVE DecisionsInv'
  OBVIOUS
<1>1. CASE UNCHANGED vars
  <2>1. Typed'
    BY NextTyped DEF DecisionsInv, GrantsInv
  <2>2. GrantsInv'
    BY <1>1, <2>1 DEF DecisionsInv, GrantsInv, vars, RefIntegrity, LiveBoards,
       Live, CallsBacked, Backed, NobodyJoinsUnasked, Granted, RequestsOf
  <2>3. KeysUnique' /\ RowsLoaded' /\ RoleIsExplained'
    BY <1>1 DEF DecisionsInv, vars, KeysUnique, RowsLoaded, RoleLoaded,
       RequestLoaded, RoleIsExplained, Live
  <2>4. AnsweredHasAsked' /\ DecisionIsNotified' /\ PendingMeansUndecided'
    BY <1>1 DEF DecisionsInv, vars, AnsweredHasAsked, DecisionIsNotified,
       PendingMeansUndecided, Undecided, RequestsOf, Live
  <2> QED
    BY <2>2, <2>3, <2>4 DEF DecisionsInv
<1> QED
  BY <1>1, StepDecisions DEF Next

\* An admin, and an "owner" who does not own the board, was given the role by a
\* change that the log has and that he was notified of: the handler that
\* writes the role writes it to the row of the user it loaded.
THEOREM RolesHaveReasons == Spec => []RoleIsExplained
<1>1. DecisionsInv => RoleIsExplained
  BY DEF DecisionsInv
<1> QED
  BY <1>1, InitDecisions, NextDecisions, PTL DEF Spec

\* Approved or rejected in the table means a notification of that decision,
\* whichever of two racing decisions wrote the status.
THEOREM DecisionsAreTold == Spec => []DecisionIsNotified
<1>1. DecisionsInv => DecisionIsNotified
  BY DEF DecisionsInv
<1> QED
  BY <1>1, InitDecisions, NextDecisions, PTL DEF Spec

\* As long as the only request of a user shows as pending, nobody has told him
\* that it was decided.
THEOREM PendingIsUndecided == Spec => []PendingMeansUndecided
<1>1. DecisionsInv => PendingMeansUndecided
  BY DEF DecisionsInv
<1> QED
  BY <1>1, InitDecisions, NextDecisions, PTL DEF Spec

\* No handler, whatever status it has loaded, undoes a decision of another.
THEOREM DecisionsLast == Spec => DecidedStaysDecided
<1>1. DecisionsInv /\ [Next]_vars =>
        [\A r \in requests :
            r.status # "pending" =>
                \/ ~Live(r.board)'
                \/ \E s \in requests' : s.uid = r.uid /\ s.status # "pending"]_vars
  <2>1. ASSUME DecisionsInv, NEW h \in Handlers, Step(h) PROVE RequestsEvolve
    BY <2>1, StepRequestRows DEF DecisionsInv, GrantsInv
  <2> QED
    BY <2>1 DEF Next, RequestsEvolve, SameRow
<1> QED
  BY <1>1, InitDecisions, NextDecisions, PTL DEF Spec, DecidedStaysDecided
=============================================================================
