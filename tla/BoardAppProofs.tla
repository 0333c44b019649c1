--------------------------- MODULE BoardAppProofs ---------------------------
(***************************************************************************)
(* The safety of BoardApp, for any number of users, boards, handlers and   *)
(* calls, from the typing invariant of BoardAppTyping.                     *)
(***************************************************************************)
EXTENDS BoardAppTyping

-----------------------------------------------------------------------------
(* How boards evolve *)

\* A gone board stays as it is; a live one stays live, with its owner, or goes.
Evolves ==
    \A b \in Boards :
        /\ boards[b].life = "gone" => boards'[b] = boards[b]
        /\ Live(b) => \/ boards'[b].life = "gone"
                      \/ Live(b)' /\ boards'[b].owner = boards[b].owner

\* The steps that write to boards.
LEMMA WritesBoards ==
    ASSUME NEW h \in Handlers, Step(h)
    PROVE  \/ boards' = boards
           \/ BeginCreate(h) \/ CommitCreate(h) \/ CommitDuplicate(h)
           \/ CommitArchive(h) \/ CommitUnarchive(h) \/ CommitVisibility(h)
           \/ CommitDelete(h)
<1>1. CASE BeginOnBoard(h) \/ BeginOnUser(h) \/ Fail(h)
  BY <1>1 DEF BeginOnBoard, BeginOnUser, Fail, tables
<1>2. CASE MembershipStep(h)
  BY <1>2 DEF MembershipStep, LoadMember, LoadRequest, CommitRole,
     CommitRemove, BeginLeave, CommitLeave, BeginRequest, CheckNotMember,
     CheckNoRequest, CommitRequest, CommitApprove, CommitReject, tables
<1>3. CASE InvitationsStep(h)
  BY <1>3 DEF InvitationsStep, MailInvite, CommitInvite, BeginReply,
     CommitAccept, CommitDecline, tables
<1>4. CASE LifecycleStep(h)
  BY <1>4 DEF LifecycleStep, LoadBoard, BeginUnarchive, tables
<1> QED
  BY <1>1, <1>2, <1>3, <1>4 DEF Step

\* No step writes to a board that is gone, whatever its handler has loaded:
\* each commit finds the row or fails.
LEMMA StepEvolves ==
    ASSUME Typed, NEW h \in Handlers, Step(h)
    PROVE  Evolves
<1> DEFINE c == calls[h]
<1>c. c.pc # "idle" => c.board \in Boards
  BY DEF Typed, CallsFilled
<1>b. boards \in [Boards -> Board]
  BY DEF Typed, TypeOK
<1>1. CASE boards' = boards
  BY <1>1 DEF Evolves, Live
<1>2. CASE BeginCreate(h)
  BY <1>2, <1>b DEF BeginCreate, Evolves, Live
<1>3. CASE CommitCreate(h)
  BY <1>3, <1>b, <1>c DEF CommitCreate, CanInsert, Evolves, Live, Board
<1>4. CASE CommitDuplicate(h)
  BY <1>4, <1>b DEF CommitDuplicate, Evolves, Live
<1>5. CASE CommitArchive(h)
  BY <1>5, <1>b, <1>c DEF CommitArchive, Evolves, Live, Board
<1>6. CASE CommitUnarchive(h)
  BY <1>6, <1>b, <1>c DEF CommitUnarchive, Evolves, Live, Board
<1>7. CASE CommitVisibility(h)
  BY <1>7, <1>b, <1>c DEF CommitVisibility, Evolves, Live, Board
<1>8. CASE CommitDelete(h)
  BY <1>8, <1>b, <1>c DEF CommitDelete, NoBoard, Evolves, Live
<1> QED
  BY <1>1, <1>2, <1>3, <1>4, <1>5, <1>6, <1>7, <1>8, WritesBoards

\* A deleted board is never written back, and a live one never changes hands.
THEOREM DeletionIsFinal == Spec => GoneIsForever
<1>1. Typed /\ [Next]_vars =>
        [\A b \in Boards :
            /\ boards[b].life = "gone" => boards'[b] = boards[b]
            /\ Live(b) /\ Live(b)' => boards'[b].owner = boards[b].owner]_vars
  BY StepEvolves DEF Next, Evolves, Live
<1>2. Spec => []Typed
  BY InitTyped, NextTyped, PTL DEF Spec
<1> QED
  BY <1>1, <1>2, PTL DEF Spec, GoneIsForever

-----------------------------------------------------------------------------
(* Referential integrity.  RefIntegrity is inductive with Typed: an insert  *)
(* needs its board at the moment of the commit, and a deletion cascades.    *)

LEMMA InitRef == Init => RefIntegrity
BY DEF Init, RefIntegrity, NoAudits, NoNotifications

\* A commit that leaves the boards alone and files rows under live ones.
LEMMA RefKept ==
    ASSUME RefIntegrity, boards' = boards, NEW b \in Boards, Live(b),
           \A m \in boardusers' : m.board = b \/ \E n \in boardusers : n.board = m.board,
           \A r \in requests' : r.board = b \/ \E s \in requests : s.board = r.board,
           \A i \in invitations' : i.board = b \/ \E j \in invitations : j.board = i.board,
           \A d \in Boards \ {b} : /\ audits'[d] = audits[d]
                                  /\ notifications'[d] = notifications[d]
    PROVE  RefIntegrity'
BY DEF RefIntegrity, LiveBoards, Live

\* Nothing is filed: boards may be born or edited.
LEMMA RefBoards ==
    ASSUME RefIntegrity,
           UNCHANGED <<boardusers, requests, invitations, notifications>>,
           NEW b \in Boards, Live(b)',
           \A d \in Boards : Live(d) => Live(d)',
           \A d \in Boards \ {b} : audits'[d] = audits[d],
           boardusers \subseteq BoardUser, requests \subseteq Request,
           invitations \subseteq Invitation
    PROVE  RefIntegrity'
BY DEF RefIntegrity, LiveBoards, BoardUser, Request, Invitation

\* What Logged and Notified leave alone.
LEMMA LoggedElsewhere ==
    ASSUME NEW b \in Boards, NEW A, Typed
    PROVE  \A d \in Boards \ {b} : Logged(b, A)[d] = audits[d]
BY DEF Logged, Typed, TypeOK

LEMMA NotifiedElsewhere ==
    ASSUME NEW b \in Boards, NEW u, NEW t, Typed
    PROVE  \A d \in Boards \ {b} : Notified(b, u, t)[d] = notifications[d]
BY DEF Notified, Typed, TypeOK

\* The rows a decision rewrites stay with their user and their board.
LEMMA SetStatusRows ==
    ASSUME Typed, NEW uid, NEW status
    PROVE  /\ \A r \in SetStatus(uid, status) : \E s \in requests :
                 s.uid = r.uid /\ s.user = r.user /\ s.board = r.board
           /\ \A s \in requests : \E r \in SetStatus(uid, status) :
                 s.uid = r.uid /\ s.user = r.user /\ s.board = r.board
<1>1. \A r \in requests : /\ [r EXCEPT !.status = status].uid = r.uid
                          /\ [r EXCEPT !.status = status].user = r.user
                          /\ [r EXCEPT !.status = status].board = r.board
  BY DEF Typed, TypeOK, Request
<1> QED
  BY <1>1 DEF SetStatus

\* A change of role keeps every membership with its user and its board.
LEMMA RoleRows ==
    ASSUME Typed, NEW h \in Handlers, CommitRole(h)
    PROVE  \A m \in boardusers' : \E n \in boardusers :
                n.uid = m.uid /\ n.user = m.user /\ n.board = m.board
<1>1. \A m \in boardusers : \A role \in UserRole :
            /\ [m EXCEPT !.role = role].uid = m.uid
            /\ [m EXCEPT !.role = role].user = m.user
            /\ [m EXCEPT !.role = role].board = m.board
  BY DEF Typed, TypeOK, BoardUser
<1> QED
  BY <1>1 DEF CommitRole, Without

LEMMA RefStep ==
    ASSUME Typed, RefIntegrity, NEW h \in Handlers, Step(h)
    PROVE  RefIntegrity'
<1> DEFINE c == calls[h]
<1>c. c.pc # "idle" => c.board \in Boards
  BY DEF Typed, CallsFilled
<1>t. /\ boards \in [Boards -> Board]
      /\ boardusers \subseteq BoardUser
      /\ requests \subseteq Request
      /\ invitations \subseteq Invitation
  BY DEF Typed, TypeOK
<1>1. CASE UNCHANGED tables
  BY <1>1 DEF tables, RefIntegrity, LiveBoards, Live
<1>2. CASE CommitRole(h)
  BY <1>2, <1>c, RefKept, RoleRows, LoggedElsewhere, NotifiedElsewhere
     DEF CommitRole
<1>3. CASE CommitRemove(h)
  BY <1>3, <1>c, RefKept, LoggedElsewhere, NotifiedElsewhere
     DEF CommitRemove, Without
<1>4. CASE CommitLeave(h)
  BY <1>4, <1>c, RefKept, LoggedElsewhere DEF CommitLeave, Without
<1>5. CASE CommitRequest(h)
  BY <1>5, <1>c, RefKept, LoggedElsewhere, NotifiedElsewhere
     DEF CommitRequest, CanInsert
<1>6. CASE CommitApprove(h)
  BY <1>6, <1>c, RefKept, SetStatusRows, LoggedElsewhere, NotifiedElsewhere
     DEF CommitApprove, CanInsert
<1>7. CASE CommitReject(h)
  BY <1>7, <1>c, RefKept, SetStatusRows, LoggedElsewhere, NotifiedElsewhere
     DEF CommitReject
<1>8. CASE CommitInvite(h)
  BY <1>8, <1>c, RefKept, NotifiedElsewhere DEF CommitInvite, CanInsert
<1>9. CASE CommitAccept(h)
  BY <1>9, <1>c, RefKept, NotifiedElsewhere DEF CommitAccept, CanInsert
<1>10. CASE CommitDecline(h)
  BY <1>10 DEF CommitDecline, RefIntegrity, LiveBoards, Live
<1>11. CASE BeginCreate(h)
  <2>1. PICK b \in Boards, u \in Users :
            boards' = [boards EXCEPT ![b] = NewBoard(u, FALSE, FALSE)]
    BY <1>11 DEF BeginCreate
  <2>2. Live(b)' /\ \A d \in Boards : Live(d) => Live(d)'
    BY <2>1, <1>t DEF Live, NewBoard
  <2> QED
    BY <1>11, <1>t, <2>2, RefBoards DEF BeginCreate
<1>12. CASE CommitCreate(h)
  <2>1. \A d \in Boards : Live(d) <=> Live(d)'
    BY <1>12, <1>t, <1>c DEF CommitCreate, CanInsert, Live, Board
  <2>2. \A d \in Boards \ {c.board} : audits'[d] = audits[d]
    BY <1>12, <1>c, LoggedElsewhere DEF CommitCreate
  <2> QED
    BY <1>12, <1>c, <1>t, <2>1, <2>2
       DEF CommitCreate, CanInsert, RefIntegrity, LiveBoards, BoardUser, Request,
           Invitation
<1>13. CASE CommitDuplicate(h)
  <2>1. \A d \in Boards : Live(d) => Live(d)'
    BY <1>13, <1>t DEF CommitDuplicate, Live, NewBoard
  <2>2. Live(c.board)
    BY <1>13 DEF CommitDuplicate
  <2> QED
    BY <1>13, <1>c, <1>t, <2>1, <2>2, RefBoards, LoggedElsewhere
       DEF CommitDuplicate
<1>14. CASE CommitArchive(h) \/ CommitUnarchive(h) \/ CommitVisibility(h)
  <2>1. \A d \in Boards : Live(d) => Live(d)'
    <3>1. CASE CommitArchive(h)
      BY <3>1, <1>t, <1>c DEF CommitArchive, Live, Board
    <3>2. CASE CommitUnarchive(h)
      BY <3>2, <1>t, <1>c DEF CommitUnarchive, Live, Board
    <3>3. CASE CommitVisibility(h)
      BY <3>3, <1>t, <1>c DEF CommitVisibility, Live, Board
    <3> QED
      BY <1>14, <3>1, <3>2, <3>3
  <2>2. c.board \in Boards /\ Live(c.board)
    BY <1>14, <1>c DEF CommitArchive, CommitUnarchive, CommitVisibility
  <2>3. \A d \in Boards \ {c.board} : audits'[d] = audits[d]
    BY <1>14, <2>2, LoggedElsewhere
       DEF CommitArchive, CommitUnarchive, CommitVisibility
  <2>4. UNCHANGED <<boardusers, requests, invitations, notifications>>
    BY <1>14 DEF CommitArchive, CommitUnarchive, CommitVisibility
  <2> QED
    BY <1>t, <2>1, <2>2, <2>3, <2>4, RefBoards
<1>15. CASE CommitDelete(h)
  <2>1. \A d \in Boards \ {c.board} :
            /\ boards'[d] = boards[d]
            /\ audits'[d] = audits[d]
            /\ notifications'[d] = notifications[d]
    BY <1>15, <1>c DEF CommitDelete, Typed, TypeOK
  <2>2. /\ audits'[c.board] = NoAudits
        /\ notifications'[c.board] = NoNotifications
    BY <1>15, <1>c DEF CommitDelete, Typed, TypeOK
  <2>3. /\ boardusers' = {m \in boardusers : m.board # c.board}
        /\ requests' = {r \in requests : r.board # c.board}
        /\ invitations' = {i \in invitations : i.board # c.board}
    BY <1>15 DEF CommitDelete
  <2> QED
    BY <1>t, <2>1, <2>2, <2>3
       DEF RefIntegrity, LiveBoards, Live, BoardUser, Request, Invitation
<1>16. \/ UNCHANGED tables
       \/ CommitRole(h) \/ CommitRemove(h) \/ CommitLeave(h)
       \/ CommitRequest(h) \/ CommitApprove(h) \/ CommitReject(h)
       \/ CommitInvite(h) \/ CommitAccept(h) \/ CommitDecline(h)
       \/ BeginCreate(h) \/ CommitCreate(h) \/ CommitDuplicate(h)
       \/ CommitArchive(h) \/ CommitUnarchive(h) \/ CommitVisibility(h)
       \/ CommitDelete(h)
  BY DEF Step, BeginOnBoard, BeginOnUser, Fail, MembershipStep, LoadMember,
     LoadRequest, BeginLeave, BeginRequest, CheckNotMember, CheckNoRequest,
     InvitationsStep, MailInvite, BeginReply, LifecycleStep, LoadBoard,
     BeginUnarchive
<1> QED
  BY <1>1, <1>2, <1>3, <1>4, <1>5, <1>6, <1>7, <1>8, <1>9, <1>10, <1>11, <1>12,
     <1>13, <1>14, <1>15, <1>16

\* No row of any table names a board that is gone or not yet born.
THEOREM ReferencesHold == Spec => []RefIntegrity
<1>1. Typed /\ RefIntegrity /\ [Next]_vars => RefIntegrity'
  <2> SUFFICES ASSUME Typed, RefIntegrity, [Next]_vars PROVE RefIntegrity'
    OBVIOUS
  <2>1. CASE UNCHANGED vars
    BY <2>1 DEF vars, RefIntegrity, LiveBoards, Live
  <2> QED
    BY <2>1, RefStep DEF Next
<1>2. Spec => []Typed
  BY InitTyped, NextTyped, PTL DEF Spec
<1> QED
  BY <1>1, <1>2, InitRef, PTL DEF Spec

-----------------------------------------------------------------------------
(* Grants.  NobodyJoinsUnasked is not inductive: the handler that inserts a *)
(* membership relies on what it read before, so the invariant says that     *)
(* this still holds when it commits, or that its commit will fail.          *)

\* Why the commit of a handler that remembers c may insert a membership: the
\* target of an approval has asked, the one of an acceptance was sent a link,
\* the creator owns the board.
Backed(c) ==
    c.pc # "idle" =>
        /\ boards[c.board].life # "unborn"
        /\ c.op = "approve" /\ c.pc = "ready" /\ Live(c.board)
               => RequestsOf(c.target, c.board) # {}
        /\ c.op = "accept"
               => \E t \in mailed : t.recipient = c.target /\ t.board = c.board
        /\ c.op = "create" /\ Live(c.board)
               => boards[c.board].owner = c.user

CallsBacked == \A h \in Handlers : Backed(calls[h])

\* The steps that write to requests.
LEMMA WritesRequests ==
    ASSUME NEW h \in Handlers, Step(h)
    PROVE  \/ requests' = requests
           \/ CommitRequest(h) \/ CommitApprove(h) \/ CommitReject(h)
           \/ CommitDelete(h)
<1>1. CASE BeginOnBoard(h) \/ BeginOnUser(h) \/ Fail(h)
  BY <1>1 DEF BeginOnBoard, BeginOnUser, Fail, tables
<1>2. CASE MembershipStep(h)
  BY <1>2 DEF MembershipStep, LoadMember, LoadRequest, CommitRole,
     CommitRemove, BeginLeave, CommitLeave, BeginRequest, CheckNotMember,
     CheckNoRequest, tables
<1>3. CASE InvitationsStep(h)
  BY <1>3 DEF InvitationsStep, MailInvite, CommitInvite, BeginReply,
     CommitAccept, CommitDecline, tables
<1>4. CASE LifecycleStep(h)
  BY <1>4 DEF LifecycleStep, BeginCreate, CommitCreate, LoadBoard,
     CommitDuplicate, CommitArchive, BeginUnarchive, CommitUnarchive,
     CommitVisibility, tables
<1> QED
  BY <1>1, <1>2, <1>3, <1>4 DEF Step

\* The steps that write to boardusers.
LEMMA WritesMembers ==
    ASSUME NEW h \in Handlers, Step(h)
    PROVE  \/ boardusers' = boardusers
           \/ CommitRole(h) \/ CommitRemove(h) \/ CommitLeave(h)
           \/ CommitApprove(h) \/ CommitAccept(h) \/ CommitCreate(h)
           \/ CommitDelete(h)
<1>1. CASE BeginOnBoard(h) \/ BeginOnUser(h) \/ Fail(h)
  BY <1>1 DEF BeginOnBoard, BeginOnUser, Fail, tables
<1>2. CASE MembershipStep(h)
  BY <1>2 DEF MembershipStep, LoadMember, LoadRequest, BeginLeave, BeginRequest,
     CheckNotMember, CheckNoRequest, CommitRequest, CommitReject, tables
<1>3. CASE InvitationsStep(h)
  BY <1>3 DEF InvitationsStep, MailInvite, CommitInvite, BeginReply,
     CommitDecline, tables
<1>4. CASE LifecycleStep(h)
  BY <1>4 DEF LifecycleStep, BeginCreate, LoadBoard, CommitDuplicate,
     CommitArchive, BeginUnarchive, CommitUnarchive, CommitVisibility, tables
<1> QED
  BY <1>1, <1>2, <1>3, <1>4 DEF Step

\* A request is only ever removed with its board.
RequestsKept ==
    \A s \in requests : Live(s.board)' =>
        \E r \in requests' : r.uid = s.uid /\ r.user = s.user /\ r.board = s.board

LEMMA StepKeepsRequests ==
    ASSUME Typed, NEW h \in Handlers, Step(h)
    PROVE  RequestsKept
<1> DEFINE c == calls[h]
<1>1. CASE requests' = requests
  BY <1>1 DEF RequestsKept
<1>2. CASE CommitRequest(h)
  BY <1>2 DEF CommitRequest, RequestsKept
<1>3. CASE CommitApprove(h)
  BY <1>3, SetStatusRows DEF CommitApprove, RequestsKept
<1>4. CASE CommitReject(h)
  BY <1>4, SetStatusRows DEF CommitReject, RequestsKept
<1>5. CASE CommitDelete(h)
  <2>1. c.board \in Boards
    BY <1>5 DEF CommitDelete, Typed, CallsFilled
  <2>2. boards'[c.board] = NoBoard("gone")
    BY <1>5, <2>1 DEF CommitDelete, Typed, TypeOK
  <2>3. boards'[c.board].life # "live"
    BY <2>2 DEF NoBoard
  <2>4. requests' = {r \in requests : r.board # c.board}
    BY <1>5 DEF CommitDelete
  <2> QED
    BY <2>3, <2>4 DEF RequestsKept, Live
<1> QED
  BY <1>1, <1>2, <1>3, <1>4, <1>5, WritesRequests

\* Links are never taken back, and a step is of one handler.
LEMMA StepFrame ==
    ASSUME Typed, NEW h \in Handlers, Step(h)
    PROVE  /\ mailed \subseteq mailed'
           /\ \E call : calls' = [calls EXCEPT ![h] = call]
<1>1. CASE BeginOnBoard(h) \/ BeginOnUser(h) \/ Fail(h)
  BY <1>1 DEF BeginOnBoard, BeginOnUser, Fail, Begin
<1>2. CASE MembershipStep(h)
  BY <1>2 DEF MembershipStep, LoadMember, LoadRequest, CommitRole,
     CommitRemove, BeginLeave, CommitLeave, BeginRequest, CheckNotMember,
     CheckNoRequest, CommitRequest, CommitApprove, CommitReject, Begin, Finish,
     Typed, TypeOK
<1>3. CASE InvitationsStep(h)
  BY <1>3 DEF InvitationsStep, MailInvite, CommitInvite, BeginReply,
     CommitAccept, CommitDecline, Begin, Finish, Typed, TypeOK
<1>4. CASE LifecycleStep(h)
  BY <1>4 DEF LifecycleStep, BeginCreate, CommitCreate, LoadBoard,
     CommitDuplicate, CommitArchive, BeginUnarchive, CommitUnarchive,
     CommitVisibility, CommitDelete, Begin, Finish, Typed, TypeOK
<1> QED
  BY <1>1, <1>2, <1>3, <1>4 DEF Step

\* What a handler relies on survives the steps of the others.
LEMMA BackedKept ==
    ASSUME Typed, Evolves, RequestsKept, mailed \subseteq mailed',
           NEW c \in Call, c.pc # "idle" => c.board \in Boards, Backed(c)
    PROVE  Backed(c)'
<1>1. CASE c.pc = "idle"
  BY <1>1 DEF Backed
<1>2. CASE c.pc # "idle"
  <2>1. boards[c.board].life \in {"live", "gone"}
    BY <1>2 DEF Backed, Typed, TypeOK, Board
  <2>2. boards'[c.board].life # "unborn"
    BY <1>2, <2>1 DEF Evolves, Live
  <2>3. Live(c.board)' => Live(c.board) /\ boards'[c.board].owner = boards[c.board].owner
    BY <1>2, <2>1 DEF Evolves, Live
  <2>4. Live(c.board)' /\ RequestsOf(c.target, c.board) # {}
            => RequestsOf(c.target, c.board)' # {}
    BY DEF RequestsOf, RequestsKept
  <2> QED
    BY <2>2, <2>3, <2>4 DEF Backed
<1> QED
  BY <1>1, <1>2

\* So does a grant, as long as the board lives.
LEMMA GrantKept ==
    ASSUME Evolves, RequestsKept, mailed \subseteq mailed',
           NEW u, NEW b \in Boards, Live(b), Live(b)', Granted(u, b)
    PROVE  Granted(u, b)'
BY DEF Evolves, RequestsKept, Granted, RequestsOf, Live

LEMMA InitBacked == Init => CallsBacked /\ NobodyJoinsUnasked
BY DEF Init, CallsBacked, Backed, Idle, NobodyJoinsUnasked

\* What the handler that steps relies on: read from the live rows of the
\* moment, or nothing any more.
LEMMA OwnBacked ==
    ASSUME Typed, RefIntegrity, NEW h \in Handlers, Backed(calls[h]),
           Step(h)
    PROVE  Backed(calls[h])'
<1> DEFINE c == calls[h]
<1>c. c \in Call
  BY DEF Typed, TypeOK
<1>1. CASE calls' = [calls EXCEPT ![h] = Idle]
  BY <1>1 DEF Backed, Idle, Typed, TypeOK
<1>2. CASE BeginOnBoard(h) \/ BeginOnUser(h)
  <2>1. PICK op \in OnBoard \cup OnUser, b \in Boards, call \in Call :
            /\ Live(b)
            /\ call.pc = "checked"
            /\ call.board = b
            /\ call.op = op
            /\ calls' = [calls EXCEPT ![h] = call]
            /\ boards' = boards
    <3>1. CASE BeginOnBoard(h)
      <4>1. PICK op \in OnBoard, u \in Users, b \in Boards :
                /\ HasAuthority(u, b)
                /\ Begin(h, op, [Idle EXCEPT !.pc = "checked", !.board = b,
                                !.user = IF op = "duplicate" THEN u ELSE None])
        BY <3>1 DEF BeginOnBoard
      <4> DEFINE d == [[Idle EXCEPT !.pc = "checked", !.board = b,
                                !.user = IF op = "duplicate" THEN u ELSE None]
                       EXCEPT !.op = op]
      <4>2. d \in Call /\ d.pc = "checked" /\ d.board = b /\ d.op = op
        BY DEF Idle, Call, OnBoard, Operation
      <4>3. calls' = [calls EXCEPT ![h] = d] /\ Live(b)
        BY <4>1 DEF Begin, HasAuthority, Reachable
      <4> HIDE DEF d
      <4> QED
        BY <3>1, <4>2, <4>3 DEF BeginOnBoard, tables
    <3>2. CASE BeginOnUser(h)
      <4>1. PICK op \in OnUser, u \in Users, t \in Users, b \in Boards :
                /\ HasAuthority(u, b)
                /\ Begin(h, op, [Idle EXCEPT !.pc = "checked", !.board = b,
                                !.target = t,
                                !.user = IF op = "invite" THEN u ELSE None])
        BY <3>2 DEF BeginOnUser
      <4> DEFINE d == [[Idle EXCEPT !.pc = "checked", !.board = b, !.target = t,
                                !.user = IF op = "invite" THEN u ELSE None]
                       EXCEPT !.op = op]
      <4>2. d \in Call /\ d.pc = "checked" /\ d.board = b /\ d.op = op
        BY DEF Idle, Call, OnUser, Operation
      <4>3. calls' = [calls EXCEPT ![h] = d] /\ Live(b)
        BY <4>1 DEF Begin, HasAuthority, Reachable
      <4> HIDE DEF d
      <4> QED
        BY <3>2, <4>2, <4>3 DEF BeginOnUser, tables
    <3> QED
      BY <1>2, <3>1, <3>2
  <2>2. boards[call.board].life # "unborn"
    BY <2>1 DEF Live
  <2>3. op # "accept" /\ op # "create"
    BY DEF OnBoard, OnUser
  <2> QED
    BY <2>1, <2>2, <2>3 DEF Backed, Typed, TypeOK
<1>3. CASE BeginLeave(h) \/ BeginRequest(h) \/ BeginUnarchive(h)
  <2>1. PICK op \in {"leave", "request", "unarchive"}, b \in Boards, call \in Call :
            /\ Live(b)
            /\ call.board = b
            /\ call.op = op
            /\ calls' = [calls EXCEPT ![h] = call]
            /\ boards' = boards
    <3>1. CASE BeginLeave(h)
      <4>1. PICK u \in Users, b \in Boards, m \in boardusers :
                /\ Memberships(u, b) = {m}
                /\ Begin(h, "leave", [Idle EXCEPT !.pc = "ready", !.board = b,
                                                  !.row = m.uid])
        BY <3>1 DEF BeginLeave
      <4> DEFINE d == [[Idle EXCEPT !.pc = "ready", !.board = b, !.row = m.uid]
                       EXCEPT !.op = "leave"]
      <4>2. m.uid \in Uids /\ m.board = b
        BY <4>1 DEF Memberships, Typed, TypeOK, BoardUser
      <4>3. d \in Call /\ d.board = b /\ d.op = "leave"
        BY <4>2 DEF Idle, Call, Operation
      <4>4. calls' = [calls EXCEPT ![h] = d] /\ Live(b)
        BY <4>1, <4>2 DEF Begin, RefIntegrity
      <4> HIDE DEF d
      <4> QED
        BY <3>1, <4>3, <4>4 DEF BeginLeave, tables
    <3>2. CASE BeginRequest(h)
      BY <3>2 DEF BeginRequest, Begin, tables, Idle, Call, Operation
    <3>3. CASE BeginUnarchive(h)
      BY <3>3 DEF BeginUnarchive, Begin, Reachable, tables, Idle, Call, Operation
    <3> QED
      BY <1>3, <3>1, <3>2, <3>3
  <2> QED
    BY <2>1 DEF Backed, Live, Typed, TypeOK
<1>4. CASE BeginReply(h)
  <2>1. PICK op \in {"accept", "decline"}, t \in mailed, i \in invitations :
            /\ Matching(t) = {i}
            /\ calls' = [calls EXCEPT ![h] =
                   [[Idle EXCEPT !.pc = "ready", !.user = t.user,
                       !.target = t.recipient, !.board = t.board, !.row = i.uid]
                    EXCEPT !.op = op]]
            /\ boards' = boards
            /\ mailed' = mailed
    BY <1>4 DEF BeginReply, Begin, tables
  <2>2. Live(t.board)
    BY <2>1 DEF Matching, RefIntegrity
  <2> QED
    BY <2>1, <2>2 DEF Backed, Idle, Live, Typed, TypeOK
<1>5. CASE BeginCreate(h)
  <2>1. PICK u \in Users, b \in Boards :
            /\ calls' = [calls EXCEPT ![h] =
                   [[Idle EXCEPT !.pc = "ready", !.user = u, !.board = b]
                    EXCEPT !.op = "create"]]
            /\ boards' = [boards EXCEPT ![b] = NewBoard(u, FALSE, FALSE)]
    BY <1>5 DEF BeginCreate, Begin
  <2> QED
    BY <2>1 DEF Backed, Idle, NewBoard, Typed, TypeOK
<1>6. CASE LoadRequest(h)
  <2>1. PICK r \in requests :
            /\ RequestsOf(c.target, c.board) = {r}
            /\ calls' = [calls EXCEPT ![h].pc = "ready", ![h].row = r.uid,
                                      ![h].was = r.status]
    BY <1>6 DEF LoadRequest
  <2>2. /\ calls'[h].board = c.board
        /\ calls'[h].target = c.target
        /\ calls'[h].op = c.op
    BY <1>c, <2>1 DEF Typed, TypeOK, Call
  <2>3. RequestsOf(c.target, c.board) # {}
    BY <2>1
  <2> QED
    BY <1>6, <2>2, <2>3 DEF LoadRequest, tables, Backed, Live, RequestsOf
<1>7. CASE LoadMember(h) \/ CheckNotMember(h) \/ CheckNoRequest(h)
           \/ MailInvite(h) \/ LoadBoard(h)
  <2>1. calls'[h].board = c.board /\ calls'[h].op = c.op
    <3>1. CASE LoadMember(h)
      BY <3>1, <1>c DEF LoadMember, Typed, TypeOK, Call
    <3>2. CASE CheckNotMember(h) \/ CheckNoRequest(h) \/ MailInvite(h)
      BY <3>2, <1>c DEF CheckNotMember, CheckNoRequest, MailInvite, Typed,
         TypeOK, Call
    <3>3. CASE LoadBoard(h)
      BY <3>3, <1>c DEF LoadBoard, Typed, TypeOK, Call
    <3> QED
      BY <1>7, <3>1, <3>2, <3>3
  <2>2. c.pc # "idle" /\ c.op \notin {"approve", "accept", "create"}
    BY <1>7 DEF LoadMember, CheckNotMember, CheckNoRequest, MailInvite,
       LoadBoard, OnBoard
  <2>3. boards' = boards
    BY <1>7 DEF LoadMember, CheckNotMember, CheckNoRequest, MailInvite,
       LoadBoard, tables
  <2> QED
    BY <2>1, <2>2, <2>3 DEF Backed
<1> QED
  BY <1>1, <1>2, <1>3, <1>4, <1>5, <1>6, <1>7 DEF Step, Fail, MembershipStep,
     InvitationsStep, LifecycleStep, CommitRole, CommitRemove, CommitLeave,
     CommitRequest, CommitApprove, CommitReject, CommitInvite, CommitAccept,
     CommitDecline, CommitCreate, CommitDuplicate, CommitArchive,
     CommitUnarchive, CommitVisibility, CommitDelete, Finish

\* A membership a step leaves in the table was there, role apart, or is granted
\* by what the handler relies on.
LEMMA StepMembers ==
    ASSUME Typed, NEW h \in Handlers, Backed(calls[h]), Step(h)
    PROVE  \A m \in boardusers' :
              \/ \E n \in boardusers : n.user = m.user /\ n.board = m.board
              \/ m.board \in Boards /\ Live(m.board) /\ Granted(m.user, m.board)
<1> DEFINE c == calls[h]
<1>c. c.pc # "idle" => c.board \in Boards
  BY DEF Typed, CallsFilled
<1>1. CASE boardusers' = boardusers
  BY <1>1
<1>2. CASE CommitRole(h)
  BY <1>2, RoleRows
<1>3. CASE CommitApprove(h)
  BY <1>3, <1>c DEF CommitApprove, CanInsert, Backed, Granted
<1>4. CASE CommitAccept(h)
  BY <1>4, <1>c DEF CommitAccept, CanInsert, Backed, Granted
<1>5. CASE CommitCreate(h)
  BY <1>5, <1>c DEF CommitCreate, CanInsert, Backed, Granted
<1>6. CASE CommitRemove(h) \/ CommitLeave(h) \/ CommitDelete(h)
  BY <1>6 DEF CommitRemove, CommitLeave, CommitDelete, Without
<1> QED
  BY <1>1, <1>2, <1>3, <1>4, <1>5, <1>6, WritesMembers

\* The invariant that carries the grants from the read to the commit.
GrantsInv == Typed /\ RefIntegrity /\ CallsBacked /\ NobodyJoinsUnasked

LEMMA StepGrants ==
    ASSUME GrantsInv, NEW h \in Handlers, Step(h)
    PROVE  GrantsInv'
<1>1. Typed /\ RefIntegrity /\ \A g \in Handlers : Backed(calls[g])
  BY DEF GrantsInv, CallsBacked
<1>2. Typed' /\ RefIntegrity'
  BY <1>1, NextTyped, RefStep DEF Next
<1>3. Evolves /\ RequestsKept /\ mailed \subseteq mailed'
  BY <1>1, StepEvolves, StepKeepsRequests, StepFrame
<1>4. ASSUME NEW g \in Handlers PROVE Backed(calls[g])'
  <2>1. CASE g = h
    BY <1>1, <2>1, OwnBacked
  <2>2. CASE g # h
    <3> DEFINE c == calls[g]
    <3>1. calls'[g] = c
      BY <1>1, <2>2, StepFrame DEF Typed, TypeOK
    <3>2. c \in Call /\ (c.pc # "idle" => c.board \in Boards) /\ Backed(c)
      BY <1>1 DEF Typed, TypeOK, CallsFilled
    <3>3. ASSUME NEW d \in Call, d.pc # "idle" => d.board \in Boards, Backed(d)
          PROVE  Backed(d)'
      BY <1>1, <1>3, <3>3, BackedKept
    <3> QED
      BY <3>1, <3>2, <3>3 DEF Backed
  <2> QED
    BY <2>1, <2>2
<1>5. NobodyJoinsUnasked'
  <2> SUFFICES ASSUME NEW m \in boardusers' PROVE Granted(m.user, m.board)'
    BY DEF NobodyJoinsUnasked
  <2>1. m.board \in Boards /\ Live(m.board)'
    BY <1>2 DEF RefIntegrity, Typed, TypeOK, BoardUser
  <2>2. Live(m.board) /\ Granted(m.user, m.board)
    BY <1>1, StepMembers DEF GrantsInv, NobodyJoinsUnasked, RefIntegrity
  <2> QED
    BY <1>3, <2>1, <2>2, GrantKept
<1> QED
  BY <1>2, <1>4, <1>5 DEF GrantsInv, CallsBacked

\* Whoever is a member of a board owns it, asked to join it or was sent an
\* invitation to it, whatever ran between the read that said so and the insert.
THEOREM MembersAreGranted == Spec => []NobodyJoinsUnasked
<1>1. Init => GrantsInv
  BY InitTyped, InitRef, InitBacked DEF GrantsInv
<1>2. GrantsInv /\ [Next]_vars => GrantsInv'
  <2> SUFFICES ASSUME GrantsInv, [Next]_vars PROVE GrantsInv'
    OBVIOUS
  <2>1. CASE UNCHANGED vars
    BY <2>1, NextTyped DEF GrantsInv, vars, RefIntegrity, LiveBoards, Live,
       CallsBacked, Backed, NobodyJoinsUnasked, Granted, RequestsOf
  <2> QED
    BY <2>1, StepGrants DEF Next
<1> QED
  BY <1>1, <1>2, PTL DEF Spec, GrantsInv

=============================================================================
