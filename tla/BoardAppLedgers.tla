-------------------------- MODULE BoardAppLedgers --------------------------
(***************************************************************************)
(* What the log and the notifications count, for any instance of BoardApp: *)
(* archived boards have been archived, join requests and memberships are   *)
(* as many as the log says, a user has no more requests than there are     *)
(* handlers, creators are members, invitations are told, and users with    *)
(* two memberships stay as they are.                                       *)
(***************************************************************************)
EXTENDS BoardAppAccess, FiniteSetTheorems

-----------------------------------------------------------------------------
(* Which step logs what *)

LEMMA LoggedExactly ==
    ASSUME Typed, NEW b \in Boards, NEW A, NEW d \in Boards, NEW a \in AuditAction
    PROVE  Logged(b, A)[d][a] = IF d = b /\ a \in A THEN audits[d][a] + 1
                                ELSE audits[d][a]
BY DEF Logged, Typed, TypeOK

\* Creations, requests, admissions, removals and departures are each logged by
\* one operation.
LEMMA LogsOf ==
    ASSUME NEW h \in Handlers, Step(h)
    PROVE  \/ audits' = audits
           \/ /\ calls[h].pc # "idle"
              /\ \E A : /\ audits' = Logged(calls[h].board, A)
                        /\ "board_created" \in A => CommitCreate(h)
                        /\ "request_sent" \in A => CommitRequest(h)
                        /\ "member_added" \in A => CommitApprove(h)
                        /\ "member_removed" \in A => CommitRemove(h)
                        /\ "member_left" \in A => CommitLeave(h)
           \/ CommitDelete(h)
<1>1. CASE BeginOnBoard(h) \/ BeginOnUser(h) \/ Fail(h)
  BY <1>1 DEF BeginOnBoard, BeginOnUser, Fail, tables
<1>2. CASE LoadMember(h) \/ LoadRequest(h) \/ BeginLeave(h) \/ BeginRequest(h)
           \/ CheckNotMember(h) \/ CheckNoRequest(h) \/ InvitationsStep(h)
  BY <1>2 DEF LoadMember, LoadRequest, BeginLeave, BeginRequest, CheckNotMember,
     CheckNoRequest, InvitationsStep, MailInvite, CommitInvite, BeginReply,
     CommitAccept, CommitDecline, tables
<1>3. CASE BeginCreate(h) \/ LoadBoard(h) \/ BeginUnarchive(h)
           \/ CommitUnarchive(h) \/ CommitVisibility(h)
  BY <1>3 DEF BeginCreate, LoadBoard, BeginUnarchive, CommitUnarchive,
     CommitVisibility, tables
<1>4. CASE CommitRole(h) \/ CommitReject(h) \/ CommitDuplicate(h) \/ CommitArchive(h)
  <2>1. \E A : /\ audits' = Logged(calls[h].board, A)
               /\ A \cap {"board_created", "request_sent", "member_added",
                          "member_removed", "member_left"} = {}
    BY <1>4 DEF CommitRole, CommitReject, CommitDuplicate, CommitArchive
  <2>2. calls[h].pc # "idle"
    BY <1>4 DEF CommitRole, CommitReject, CommitDuplicate, CommitArchive
  <2> QED
    BY <2>1, <2>2
<1>5. CASE CommitRequest(h)
  <2>1. calls[h].pc # "idle" /\ audits' = Logged(calls[h].board, {"request_sent"})
    BY <1>5 DEF CommitRequest
  <2> QED
    BY <1>5, <2>1
<1>6. CASE CommitCreate(h)
  <2>1. calls[h].pc # "idle" /\ audits' = Logged(calls[h].board, {"board_created"})
    BY <1>6 DEF CommitCreate
  <2> QED
    BY <1>6, <2>1
<1>7. CASE CommitApprove(h)
  <2>1. calls[h].pc # "idle" /\ audits' = Logged(calls[h].board, {"request_approved", "member_added"})
    BY <1>7 DEF CommitApprove
  <2> QED
    BY <1>7, <2>1
<1>8. CASE CommitRemove(h)
  <2>1. calls[h].pc # "idle" /\ audits' = Logged(calls[h].board, {"member_removed"})
    BY <1>8 DEF CommitRemove
  <2> QED
    BY <1>8, <2>1
<1>9. CASE CommitLeave(h)
  <2>1. calls[h].pc # "idle" /\ audits' = Logged(calls[h].board, {"member_left"})
    BY <1>9 DEF CommitLeave
  <2> QED
    BY <1>9, <2>1
<1> QED
  BY <1>1, <1>2, <1>3, <1>4, <1>5, <1>6, <1>7, <1>8, <1>9
     DEF Step, MembershipStep, LifecycleStep

-----------------------------------------------------------------------------
(* Archived boards *)

ArchiveLogged(b) == boards[b].archived => audits[b]["board_archived"] > 0

\* A board that has been created, or whose creation is half done: no copy.
Claimed(b) ==
    \/ audits[b]["board_created"] > 0
    \/ \E g \in Handlers : /\ calls[g].pc # "idle"
                           /\ calls[g].op = "create"
                           /\ calls[g].board = b

ArchiveInv == \A b \in Boards : Live(b) /\ Claimed(b) => ArchiveLogged(b)

\* After the permission check, a call is none of create.
LEMMA CheckedNotCreate ==
    ASSUME Typed, NEW h \in Handlers, BeginOnBoard(h) \/ BeginOnUser(h)
    PROVE  calls'[h].op # "create"
<1>1. CASE BeginOnBoard(h)
  <2>1. PICK op \in OnBoard, u \in Users, b \in Boards :
            Begin(h, op, [Idle EXCEPT !.pc = "checked", !.board = b,
                              !.user = IF op = "duplicate" THEN u ELSE None])
    BY <1>1 DEF BeginOnBoard
  <2> DEFINE d == [Idle EXCEPT !.pc = "checked", !.board = b,
                              !.user = IF op = "duplicate" THEN u ELSE None]
  <2>2. d \in Call /\ op # "create"
    BY DEF Idle, Call, OnBoard
  <2> HIDE DEF d
  <2> QED
    BY <2>1, <2>2, BegunCall DEF d
<1>2. CASE BeginOnUser(h)
  <2>1. PICK op \in OnUser, u \in Users, t \in Users, b \in Boards :
            Begin(h, op, [Idle EXCEPT !.pc = "checked", !.board = b, !.target = t,
                              !.user = IF op = "invite" THEN u ELSE None])
    BY <1>2 DEF BeginOnUser
  <2> DEFINE d == [Idle EXCEPT !.pc = "checked", !.board = b, !.target = t,
                              !.user = IF op = "invite" THEN u ELSE None]
  <2>2. d \in Call /\ op # "create"
    BY DEF Idle, Call, OnUser
  <2> HIDE DEF d
  <2> QED
    BY <2>1, <2>2, BegunCall DEF d
<1> QED
  BY <1>1, <1>2

\* How the call of the handler that steps goes on.
LEMMA CallSteps ==
    ASSUME Typed, NEW h \in Handlers, Step(h)
    PROVE  \/ calls'[h] = Idle
           \/ BeginOnBoard(h) \/ BeginOnUser(h) \/ BeginLeave(h) \/ BeginRequest(h)
           \/ BeginReply(h) \/ BeginUnarchive(h) \/ BeginCreate(h)
           \/ /\ calls[h].pc # "idle"
              /\ calls'[h].op = calls[h].op
              /\ calls'[h].board = calls[h].board
              /\ UNCHANGED tables
<1>t. calls \in [Handlers -> Call] /\ calls[h] \in Call
  BY DEF Typed, TypeOK
<1>1. CASE LoadMember(h)
  <2>1. PICK m \in boardusers :
            calls' = [calls EXCEPT ![h].pc = "ready", ![h].row = m.uid,
                                   ![h].was = m.role]
    BY <1>1 DEF LoadMember
  <2> QED
    BY <1>1, <1>t, <2>1 DEF Call, LoadMember
<1>2. CASE LoadRequest(h)
  <2>1. PICK r \in requests :
            calls' = [calls EXCEPT ![h].pc = "ready", ![h].row = r.uid,
                                   ![h].was = r.status]
    BY <1>2 DEF LoadRequest
  <2> QED
    BY <1>2, <1>t, <2>1 DEF Call, LoadRequest
<1>3. CASE CheckNotMember(h) \/ CheckNoRequest(h)
  BY <1>3, <1>t DEF CheckNotMember, CheckNoRequest, Call
<1>4. CASE MailInvite(h) \/ LoadBoard(h)
  BY <1>4, <1>t DEF MailInvite, LoadBoard, Call
<1>5. CASE Fail(h) \/ CommitRole(h) \/ CommitRemove(h) \/ CommitLeave(h)
           \/ CommitRequest(h) \/ CommitApprove(h) \/ CommitReject(h)
  BY <1>5, <1>t DEF Fail, CommitRole, CommitRemove, CommitLeave,
     CommitRequest, CommitApprove, CommitReject, Finish
<1>6. CASE CommitInvite(h) \/ CommitAccept(h) \/ CommitDecline(h)
           \/ CommitCreate(h) \/ CommitDuplicate(h) \/ CommitArchive(h)
           \/ CommitUnarchive(h) \/ CommitVisibility(h) \/ CommitDelete(h)
  BY <1>6, <1>t DEF CommitInvite, CommitAccept, CommitDecline, CommitCreate,
     CommitDuplicate, CommitArchive, CommitUnarchive, CommitVisibility,
     CommitDelete, Finish
<1> QED
  BY <1>1, <1>2, <1>3, <1>4, <1>5, <1>6
     DEF Step, MembershipStep, InvitationsStep, LifecycleStep

\* A call of create comes from BeginCreate and keeps its board.
LEMMA CreatesKept ==
    ASSUME Typed, NEW h \in Handlers, Step(h), ~BeginCreate(h), NEW g \in Handlers,
           calls'[g].pc # "idle", calls'[g].op = "create"
    PROVE  /\ calls[g].pc # "idle"
           /\ calls[g].op = "create"
           /\ calls[g].board = calls'[g].board
<1>t. calls \in [Handlers -> Call] /\ Idle.pc = "idle"
  BY DEF Typed, TypeOK, Idle
<1>1. CASE g # h
  BY <1>1, <1>t, StepFrame
<1>2. CASE g = h
  <2>1. CASE BeginOnBoard(h) \/ BeginOnUser(h)
    BY <1>2, <2>1, CheckedNotCreate
  <2>2. CASE BeginLeave(h) \/ BeginRequest(h) \/ BeginUnarchive(h)
    BY <1>2, <1>t, <2>2 DEF BeginLeave, BeginRequest, BeginUnarchive, Begin, Idle
  <2>3. CASE BeginReply(h)
    BY <1>2, <1>t, <2>3 DEF BeginReply, Begin, Idle
  <2> QED
    BY <1>2, <1>t, <2>1, <2>2, <2>3, CallSteps
<1> QED
  BY <1>1, <1>2

\* A board that lives after a step lived before it, or was born in it.
LEMMA BoardsBorn ==
    ASSUME Typed, NEW h \in Handlers, Step(h), NEW b \in Boards, Live(b)'
    PROVE  \/ Live(b) /\ (\/ boards'[b].archived = boards[b].archived
                          \/ boards'[b].archived = FALSE
                          \/ CommitArchive(h) /\ calls[h].board = b)
           \/ BeginCreate(h) /\ boards[b].life = "unborn"
              /\ boards'[b].archived = FALSE
           \/ CommitDuplicate(h) /\ boards[b].life = "unborn"
<1> DEFINE c == calls[h]
<1>b. boards \in [Boards -> Board] /\ (c.pc # "idle" => c.board \in Boards)
  BY DEF Typed, TypeOK, CallsFilled
<1>1. CASE boards' = boards
  BY <1>1 DEF Live
<1>2. CASE BeginCreate(h)
  <2>1. PICK u \in Users, d \in Boards :
            /\ boards[d].life = "unborn"
            /\ boards' = [boards EXCEPT ![d] = NewBoard(u, FALSE, FALSE)]
    BY <1>2 DEF BeginCreate
  <2>2. CASE b = d
    BY <1>2, <1>b, <2>1, <2>2 DEF NewBoard
  <2>3. CASE b # d
    BY <1>b, <2>1, <2>3 DEF Live
  <2> QED
    BY <2>2, <2>3
<1>3. CASE CommitCreate(h)
  BY <1>3, <1>b DEF CommitCreate, Live, Board
<1>4. CASE CommitDuplicate(h)
  BY <1>4, <1>b DEF CommitDuplicate, Live
<1>5. CASE CommitArchive(h)
  BY <1>5, <1>b DEF CommitArchive, Live, Board
<1>6. CASE CommitUnarchive(h)
  BY <1>6, <1>b DEF CommitUnarchive, Live, Board
<1>7. CASE CommitVisibility(h)
  BY <1>7, <1>b DEF CommitVisibility, Live, Board
<1>8. CASE CommitDelete(h)
  BY <1>8, <1>b DEF CommitDelete, NoBoard, Live
<1> QED
  BY <1>1, <1>2, <1>3, <1>4, <1>5, <1>6, <1>7, <1>8, WritesBoards

\* A claim is as old as the board: a step claims only a board it creates.
LEMMA ClaimsKept ==
    ASSUME Typed, NEW h \in Handlers, Step(h), ~BeginCreate(h),
           NEW b \in Boards, Claimed(b)'
    PROVE  Claimed(b)
<1> DEFINE c == calls[h]
<1>c. c.pc # "idle" => c.board \in Boards
  BY DEF Typed, CallsFilled
<1>t. "board_created" \in AuditAction /\ audits[b]["board_created"] \in Nat
  BY DEF Typed, TypeOK, AuditAction
<1>1. CASE audits'[b]["board_created"] > 0
  <2>1. CASE audits'[b]["board_created"] = audits[b]["board_created"]
    BY <1>1, <2>1 DEF Claimed
  <2>2. CASE CommitDelete(h)
    <3>1. audits'[b] = NoAudits \/ audits'[b] = audits[b]
      BY <2>2, <1>c DEF CommitDelete, Typed, TypeOK
    <3> QED
      BY <1>1, <1>t, <3>1 DEF NoAudits, Claimed
  <2>3. CASE audits'[b]["board_created"] # audits[b]["board_created"]
             /\ ~CommitDelete(h)
    <3>1. PICK A : /\ c.pc # "idle"
                   /\ audits' = Logged(c.board, A)
                   /\ "board_created" \in A => CommitCreate(h)
      BY <2>3, LogsOf
    <3>2. b = c.board /\ "board_created" \in A
      BY <2>3, <3>1, <1>c, <1>t, LoggedExactly
    <3> QED
      BY <3>1, <3>2 DEF CommitCreate, Claimed
  <2> QED
    BY <2>1, <2>2, <2>3
<1>2. CASE \E g \in Handlers : /\ calls'[g].pc # "idle"
                               /\ calls'[g].op = "create"
                               /\ calls'[g].board = b
  BY <1>2, CreatesKept DEF Claimed
<1> QED
  BY <1>1, <1>2 DEF Claimed

LEMMA StepArchive ==
    ASSUME DecisionsInv, ArchiveInv, NEW h \in Handlers, Step(h)
    PROVE  ArchiveInv'
<1> SUFFICES ASSUME NEW b \in Boards, Live(b)', Claimed(b)' PROVE ArchiveLogged(b)'
  BY DEF ArchiveInv
<1> DEFINE c == calls[h]
<1>i. Typed /\ RefIntegrity /\ CallsBacked
  BY DEF DecisionsInv, GrantsInv
<1>t. /\ "board_archived" \in AuditAction
      /\ audits[b]["board_archived"] \in Nat
      /\ calls \in [Handlers -> Call]
  BY <1>i DEF Typed, TypeOK, AuditAction
<1>1. CASE BeginCreate(h)
  <2>1. CASE boards'[b].archived = FALSE
    BY <2>1 DEF ArchiveLogged
  <2>2. CASE boards'[b].archived # FALSE
    <3>1. Live(b) /\ boards'[b].archived = boards[b].archived
      <4>1. calls[h] = Idle /\ Idle.pc = "idle"
        BY <1>1 DEF BeginCreate, Begin, Idle
      <4>2. ~CommitArchive(h) /\ ~CommitDuplicate(h)
        BY <4>1 DEF CommitArchive, CommitDuplicate
      <4> QED
        BY <2>2, <4>2, <1>i, BoardsBorn DEF Live
    <3>2. audits' = audits
      BY <1>1 DEF BeginCreate
    <3>3. PICK u \in Users, d \in Boards :
              /\ boards[d].life = "unborn"
              /\ Begin(h, "create", [Idle EXCEPT !.pc = "ready", !.user = u,
                                                 !.board = d])
      BY <1>1 DEF BeginCreate
    <3>4. calls'[h].board = d /\ \A g \in Handlers \ {h} : calls'[g] = calls[g]
      BY <3>3, <1>t DEF Begin, Idle
    <3>5. d # b
      BY <3>1, <3>3 DEF Live
    <3>6. Claimed(b)
      BY <3>2, <3>4, <3>5 DEF Claimed
    <3> QED
      BY <3>1, <3>2, <3>6 DEF ArchiveInv, ArchiveLogged
  <2> QED
    BY <2>1, <2>2
<1>2. CASE ~BeginCreate(h)
  <2>1. Claimed(b)
    BY <1>2, <1>i, ClaimsKept
  <2>2. Live(b)
    <3>1. CASE boards[b].life = "unborn"
      <4>1. audits[b] = NoAudits
        BY <1>i, <3>1 DEF RefIntegrity, LiveBoards, Live
      <4>2. audits[b]["board_created"] = 0
        BY <4>1 DEF NoAudits, AuditAction
      <4>3. ~\E g \in Handlers : calls[g].pc # "idle" /\ calls[g].board = b
        BY <3>1, <1>i DEF CallsBacked, Backed
      <4> QED
        BY <2>1, <4>2, <4>3 DEF Claimed
    <3> QED
      BY <1>2, <1>i, <3>1, BoardsBorn
  <2>3. ArchiveLogged(b)
    BY <2>1, <2>2 DEF ArchiveInv
  <2>4. audits[b]["board_archived"] <= audits'[b]["board_archived"]
    BY <1>i, <1>t, <2>2, StepCounts DEF CountsGrow
  <2>5. CASE CommitArchive(h) /\ c.board = b
    BY <1>i, <1>t, <2>5, LoggedGrows DEF CommitArchive, ArchiveLogged
  <2>6. CASE boards'[b].archived = boards[b].archived \/ boards'[b].archived = FALSE
    <3>1. audits'[b]["board_archived"] \in Nat
      <4>1. Typed'
        BY <1>i, NextTyped DEF Next
      <4> QED
        BY <4>1, <1>t DEF Typed, TypeOK
    <3> SUFFICES ASSUME boards'[b].archived PROVE audits'[b]["board_archived"] > 0
      BY DEF ArchiveLogged
    <3>2. boards[b].archived
      BY <2>6
    <3>3. audits[b]["board_archived"] > 0
      BY <2>3, <3>2 DEF ArchiveLogged
    <3> QED
      BY <1>t, <2>4, <3>1, <3>3
  <2> QED
    BY <1>2, <1>i, <2>2, <2>5, <2>6, BoardsBorn DEF Live
<1> QED
  BY <1>1, <1>2

\* A board that was created, not copied, shows as archived only with an archive
\* action in its log, however archivings and unarchivings overlap.
THEOREM ArchivesAreLogged == Spec => []ArchivedIsAudited
<1>1. Init => ArchiveInv
  BY DEF Init, ArchiveInv, Live, NoBoard
<1>2. DecisionsInv /\ ArchiveInv /\ [Next]_vars => ArchiveInv'
  <2>1. DecisionsInv /\ ArchiveInv /\ UNCHANGED vars => ArchiveInv'
    BY DEF vars, ArchiveInv, Live, Claimed, ArchiveLogged
  <2> QED
    BY <2>1, StepArchive DEF Next
<1>3. ArchiveInv => ArchivedIsAudited
  BY DEF ArchiveInv, ArchivedIsAudited, LiveBoards, Claimed, ArchiveLogged
<1> QED
  BY <1>1, <1>2, <1>3, InitDecisions, NextDecisions, PTL DEF Spec

-----------------------------------------------------------------------------
(* Which step notifies of what *)

LEMMA NotifiedExactly ==
    ASSUME Typed, NEW b \in Boards, NEW u \in Users, NEW t \in NotificationType,
           NEW d \in Boards, NEW v \in Users, NEW s \in NotificationType
    PROVE  Notified(b, u, t)[d][v][s] =
               IF d = b /\ v = u /\ s = t THEN notifications[d][v][s] + 1
               ELSE notifications[d][v][s]
BY DEF Notified, Typed, TypeOK

\* The owner hears of a request, and a user of an invitation, from the commit
\* that files it; the sender of an invitation of its acceptance, from the
\* commit that admits the member.
LEMMA NotifiesOf ==
    ASSUME Typed, NEW h \in Handlers, Step(h)
    PROVE  \/ notifications' = notifications
           \/ /\ calls[h].pc # "idle"
              /\ \E u \in Users, t \in NotificationType :
                    /\ notifications' = Notified(calls[h].board, u, t)
                    /\ t = "request_received" => CommitRequest(h)
                    /\ t = "invite_received" => CommitInvite(h)
                    /\ t = "invite_accepted" => CommitAccept(h)
           \/ CommitDelete(h)
<1> DEFINE c == calls[h]
<1>c. /\ c.pc # "idle" => c.board \in Boards
      /\ c.op \in OnTarget => c.target \in Users
      /\ c.op \in OfUser => c.user \in Users
  BY DEF Typed, CallsFilled
<1>1. CASE UNCHANGED notifications
  BY <1>1
<1>2. CASE CommitRole(h)
  BY <1>2, <1>c DEF CommitRole, OnTarget, OnUser, NotificationType
<1>3. CASE CommitRemove(h)
  BY <1>3, <1>c DEF CommitRemove, OnTarget, OnUser, NotificationType
<1>4. CASE CommitRequest(h)
  <2>1. /\ c.pc # "idle"
        /\ boards[c.board].owner \in Users
        /\ notifications' = Notified(c.board, boards[c.board].owner, "request_received")
    BY <1>4, <1>c DEF CommitRequest, CanInsert, Typed, BoardsOwned
  <2>2. "request_received" \in NotificationType
    BY DEF NotificationType
  <2> QED
    BY <1>4, <2>1, <2>2
<1>5. CASE CommitApprove(h) \/ CommitReject(h)
  BY <1>5, <1>c DEF CommitApprove, CommitReject, OnTarget, OnUser,
     NotificationType
<1>6. CASE CommitInvite(h)
  <2>1. /\ c.pc # "idle"
        /\ c.target \in Users
        /\ notifications' = Notified(c.board, c.target, "invite_received")
    BY <1>6, <1>c DEF CommitInvite, OnTarget, OnUser
  <2>2. "invite_received" \in NotificationType
    BY DEF NotificationType
  <2> QED
    BY <1>6, <2>1, <2>2
<1>7. CASE CommitAccept(h)
  <2>1. /\ c.pc # "idle"
        /\ c.user \in Users
        /\ notifications' = Notified(c.board, c.user, "invite_accepted")
    BY <1>7, <1>c DEF CommitAccept, OfUser
  <2>2. "invite_accepted" \in NotificationType
    BY DEF NotificationType
  <2> QED
    BY <1>7, <2>1, <2>2
<1>8. CASE LifecycleStep(h)
  BY <1>8 DEF LifecycleStep, BeginCreate, CommitCreate, LoadBoard,
     CommitDuplicate, CommitArchive, BeginUnarchive, CommitUnarchive,
     CommitVisibility, tables
<1>9. CASE BeginOnBoard(h) \/ BeginOnUser(h) \/ Fail(h) \/ LoadMember(h)
           \/ LoadRequest(h) \/ BeginLeave(h) \/ CommitLeave(h)
           \/ BeginRequest(h) \/ CheckNotMember(h) \/ CheckNoRequest(h)
           \/ MailInvite(h) \/ BeginReply(h) \/ CommitDecline(h)
  BY <1>9 DEF BeginOnBoard, BeginOnUser, Fail, LoadMember, LoadRequest,
     BeginLeave, CommitLeave, BeginRequest, CheckNotMember, CheckNoRequest,
     MailInvite, BeginReply, CommitDecline, tables
<1> QED
  BY <1>1, <1>2, <1>3, <1>4, <1>5, <1>6, <1>7, <1>8, <1>9
     DEF Step, MembershipStep, InvitationsStep

-----------------------------------------------------------------------------
(* Join requests and the log *)

RowsOf(rows, b) == {x \in rows : x.board = b}

Sent(b) == RowsOf(requests, b)

LedgerInv == IsFiniteSet(requests) /\ RequestLedger

\* A decision puts one row in the place of another.
LEMMA StatusSwaps ==
    ASSUME Typed, KeysUnique, NEW uid, NEW status
    PROVE  \/ SetStatus(uid, status) = requests
           \/ \E s \in requests : LET t == [s EXCEPT !.status = status] IN
                 /\ SetStatus(uid, status) = (requests \ {s}) \cup {t}
                 /\ t.user = s.user /\ t.board = s.board
                 /\ t \notin requests \ {s}
<1>1. CASE \A r \in requests : r.uid # uid
  BY <1>1 DEF SetStatus
<1>2. CASE \E s \in requests : s.uid = uid
  <2>1. PICK s \in requests : s.uid = uid
    BY <1>2
  <2> DEFINE t == [s EXCEPT !.status = status]
  <2>2. t.user = s.user /\ t.board = s.board /\ t.uid = uid
    BY <2>1 DEF Typed, TypeOK, Request
  <2>3. \A r \in requests : r.uid = uid => r = s
    BY <2>1 DEF KeysUnique
  <2>4. SetStatus(uid, status) = (requests \ {s}) \cup {t}
    BY <2>1, <2>3 DEF SetStatus
  <2>5. t \notin requests \ {s}
    BY <2>2, <2>3
  <2> QED
    BY <2>2, <2>4, <2>5
<1> QED
  BY <1>1, <1>2

LEMMA SwapKeepsRows ==
    ASSUME NEW S, NEW T, IsFiniteSet(S), NEW s \in S, NEW t, t.board = s.board,
           t \notin S \ {s}, T = (S \ {s}) \cup {t}, NEW b
    PROVE  Cardinality(RowsOf(T, b)) = Cardinality(RowsOf(S, b))
<1>1. IsFiniteSet(RowsOf(S, b)) /\ Cardinality(RowsOf(S, b)) \in Nat
  BY FS_Subset, FS_CardinalityType DEF RowsOf
<1>2. CASE s.board = b
  <2>1. /\ RowsOf(T, b) = (RowsOf(S, b) \ {s}) \cup {t}
        /\ t \notin RowsOf(S, b) \ {s}
        /\ s \in RowsOf(S, b)
    BY <1>2 DEF RowsOf
  <2>2. /\ IsFiniteSet(RowsOf(S, b) \ {s})
        /\ Cardinality(RowsOf(S, b) \ {s}) = Cardinality(RowsOf(S, b)) - 1
    BY <1>1, <2>1, FS_RemoveElement
  <2>3. Cardinality(RowsOf(T, b)) = Cardinality(RowsOf(S, b) \ {s}) + 1
    BY <2>1, <2>2, FS_AddElement
  <2> QED
    BY <1>1, <2>2, <2>3
<1>3. CASE s.board # b
  <2>1. RowsOf(T, b) = RowsOf(S, b)
    BY <1>3 DEF RowsOf
  <2> QED
    BY <2>1
<1> QED
  BY <1>2, <1>3

LEMMA SwapKeepsCount ==
    ASSUME NEW S, NEW T, IsFiniteSet(S), NEW s \in S, NEW t, t.board = s.board,
           t \notin S \ {s}, T = (S \ {s}) \cup {t}
    PROVE  /\ IsFiniteSet(T)
           /\ \A b : Cardinality(RowsOf(T, b)) = Cardinality(RowsOf(S, b))
<1>1. IsFiniteSet(T)
  BY FS_RemoveElement, FS_AddElement
<1> QED
  BY <1>1, SwapKeepsRows

\* Only a new request and a deletion change how many there are.
LEMMA CountsKept ==
    ASSUME Typed, KeysUnique, IsFiniteSet(requests), NEW h \in Handlers, Step(h),
           ~CommitRequest(h), ~CommitDelete(h)
    PROVE  /\ IsFiniteSet(requests')
           /\ \A b : Cardinality(Sent(b))' = Cardinality(Sent(b))
<1>1. CASE requests' = requests
  BY <1>1 DEF Sent
<1>2. CASE requests' # requests
  <2>1. PICK status \in Decision : requests' = SetStatus(calls[h].row, status)
    BY <1>2, WritesRequests DEF CommitApprove, CommitReject, Decision
  <2>2. PICK s \in requests : \E t : /\ requests' = (requests \ {s}) \cup {t}
                                     /\ t.board = s.board
                                     /\ t \notin requests \ {s}
    BY <1>2, <2>1, StatusSwaps
  <2> QED
    BY <2>2, SwapKeepsCount DEF Sent
<1> QED
  BY <1>1, <1>2

\* A request, its row in the log and the owner's notification, or none.
LedgerOf(b) ==
    /\ Cardinality(Sent(b)) = audits[b]["request_sent"]
    /\ Cardinality(Sent(b)) = notifications[b][boards[b].owner]["request_received"]

LEMMA StepLedger ==
    ASSUME DecisionsInv, LedgerInv, NEW h \in Handlers, Step(h)
    PROVE  LedgerInv'
<1> DEFINE c == calls[h]
<1>i. /\ Typed /\ RefIntegrity /\ KeysUnique
      /\ IsFiniteSet(requests)
      /\ \A b \in Boards : Live(b) => LedgerOf(b)
  BY DEF DecisionsInv, GrantsInv, LedgerInv, RequestLedger, LiveBoards, LedgerOf, Sent, RowsOf
<1>c. c.pc # "idle" => c.board \in Boards
  BY <1>i DEF Typed, CallsFilled
<1>t. "request_sent" \in AuditAction /\ "request_received" \in NotificationType
  BY DEF AuditAction, NotificationType
<1>1. IsFiniteSet(requests')
  <2>1. CASE CommitRequest(h)
    BY <2>1, <1>i, FS_AddElement DEF CommitRequest
  <2>2. CASE CommitDelete(h)
    <3>1. requests' \subseteq requests
      BY <2>2 DEF CommitDelete
    <3> QED
      BY <1>i, <3>1, FS_Subset
  <2> QED
    BY <1>i, <2>1, <2>2, CountsKept
<1>2. ASSUME NEW b \in Boards, Live(b)' PROVE LedgerOf(b)'
  <2>1. CASE ~Live(b)
    <3>1. CASE BeginCreate(h) \/ CommitDuplicate(h)
      <4>1. requests' = requests /\ notifications' = notifications
        BY <3>1 DEF BeginCreate, CommitDuplicate
      <4>2. audits'[b]["request_sent"] = audits[b]["request_sent"]
        <5>1. CASE BeginCreate(h)
          BY <5>1 DEF BeginCreate
        <5>2. CASE CommitDuplicate(h)
          BY <5>2, <1>i, <1>c, <1>t, LoggedExactly DEF CommitDuplicate
        <5> QED
          BY <3>1, <5>1, <5>2
      <4>3. boards'[b].owner \in Users
        <5>1. Typed'
          BY <1>i, NextTyped DEF Next
        <5> QED
          BY <1>2, <5>1 DEF Typed, BoardsOwned
      <4>4. Sent(b) = {} /\ Sent(b)' = {}
        BY <1>i, <2>1, <4>1 DEF RefIntegrity, Sent, RowsOf
      <4>5. audits[b] = NoAudits /\ notifications[b] = NoNotifications
        BY <1>i, <2>1 DEF RefIntegrity, LiveBoards
      <4>6. /\ audits[b]["request_sent"] = 0
            /\ notifications[b][boards'[b].owner]["request_received"] = 0
        BY <1>t, <4>3, <4>5 DEF NoAudits, NoNotifications
      <4> QED
        BY <4>1, <4>2, <4>4, <4>6, FS_EmptySet DEF LedgerOf
    <3> QED
      BY <1>2, <1>i, <2>1, <3>1, BoardsBorn
  <2>2. CASE Live(b)
    <3>1. boards'[b].owner = boards[b].owner /\ boards[b].owner \in Users
      <4>1. Evolves
        BY <1>i, StepEvolves
      <4> QED
        BY <1>2, <1>i, <2>2, <4>1 DEF Evolves, Live, Typed, BoardsOwned
    <3>2. CASE CommitRequest(h)
      <4>1. CASE b = c.board
        <5> DEFINE new == [uid |-> FreshUid, user |-> c.target,
                           board |-> c.board, status |-> "pending"]
        <5>1. new.board = b /\ new.uid = FreshUid
          BY <4>1
        <5>2. new \notin requests
          BY <3>2, <5>1, FreshKey DEF CommitRequest, Fresh
        <5>3. requests' = requests \cup {new}
          BY <3>2 DEF CommitRequest
        <5> HIDE DEF new
        <5>4. Sent(b)' = Sent(b) \cup {new} /\ new \notin Sent(b)
          BY <5>1, <5>2, <5>3 DEF Sent, RowsOf
        <5>5. IsFiniteSet(Sent(b))
          BY <1>i, FS_Subset DEF Sent, RowsOf
        <5>6. Cardinality(Sent(b)') = Cardinality(Sent(b)) + 1
          BY <5>4, <5>5, FS_AddElement
        <5>7. audits'[b]["request_sent"] = audits[b]["request_sent"] + 1
          BY <3>2, <4>1, <1>i, <1>t, LoggedExactly DEF CommitRequest
        <5>8. notifications'[b][boards[b].owner]["request_received"] =
                  notifications[b][boards[b].owner]["request_received"] + 1
          BY <3>1, <3>2, <4>1, <1>i, <1>t, NotifiedExactly DEF CommitRequest
        <5> QED
          BY <1>i, <2>2, <3>1, <5>6, <5>7, <5>8 DEF LedgerOf
      <4>2. CASE b # c.board
        <5>1. Sent(b)' = Sent(b)
          <6> DEFINE new == [uid |-> FreshUid, user |-> c.target,
                             board |-> c.board, status |-> "pending"]
          <6>1. new.board # b
            BY <4>2
          <6>2. requests' = requests \cup {new}
            BY <3>2 DEF CommitRequest
          <6> HIDE DEF new
          <6> QED
            BY <6>1, <6>2 DEF Sent, RowsOf
        <5>2. audits'[b] = audits[b] /\ notifications'[b] = notifications[b]
          BY <3>2, <4>2, <1>i, <1>c DEF CommitRequest, Logged, Notified, Typed, TypeOK
        <5> QED
          BY <1>i, <2>2, <3>1, <5>1, <5>2 DEF LedgerOf
      <4> QED
        BY <4>1, <4>2
    <3>3. CASE CommitDelete(h)
      <4>1. b # c.board
        BY <1>2, <1>c, <1>i, <3>3 DEF CommitDelete, NoBoard, Live, Typed, TypeOK
      <4>2. audits'[b] = audits[b] /\ notifications'[b] = notifications[b]
        BY <3>3, <4>1, <1>i DEF CommitDelete, Typed, TypeOK
      <4>3. Sent(b)' = Sent(b)
        BY <3>3, <4>1 DEF CommitDelete, Sent, RowsOf
      <4> QED
        BY <1>i, <2>2, <3>1, <4>2, <4>3 DEF LedgerOf
    <3>4. CASE ~CommitRequest(h) /\ ~CommitDelete(h)
      <4>1. Cardinality(Sent(b)') = Cardinality(Sent(b))
        BY <1>i, <3>4, CountsKept
      <4>2. audits'[b]["request_sent"] = audits[b]["request_sent"]
        BY <1>i, <1>c, <1>t, <3>4, LogsOf, LoggedExactly
      <4>3. notifications'[b][boards[b].owner]["request_received"] =
                notifications[b][boards[b].owner]["request_received"]
        BY <1>i, <1>c, <1>t, <3>1, <3>4, NotifiesOf, NotifiedExactly
      <4> QED
        BY <1>i, <2>2, <3>1, <4>1, <4>2, <4>3 DEF LedgerOf
    <3> QED
      BY <3>2, <3>3, <3>4
  <2> QED
    BY <2>1, <2>2
<1> QED
  BY <1>1, <1>2 DEF LedgerInv, RequestLedger, LiveBoards, LedgerOf, Sent, RowsOf

LEMMA InitLedger == Init => LedgerInv
BY FS_EmptySet DEF Init, LedgerInv, RequestLedger, LiveBoards, Live, NoBoard

LEMMA NextLedger == DecisionsInv /\ LedgerInv /\ [Next]_vars => LedgerInv'
<1>1. DecisionsInv /\ LedgerInv /\ UNCHANGED vars => LedgerInv'
  BY DEF vars, LedgerInv, RequestLedger, LiveBoards, Live
<1> QED
  BY <1>1, StepLedger DEF Next

\* The requests of a board, the log's and the owner's notifications of them are
\* always the same number, whoever decides, fails or deletes meanwhile.
THEOREM RequestsAreLogged == Spec => []RequestLedger
<1>1. LedgerInv => RequestLedger
  BY DEF LedgerInv
<1> QED
  BY <1>1, InitLedger, NextLedger, InitDecisions, NextDecisions, PTL DEF Spec

-----------------------------------------------------------------------------
(* Second requests *)

\* An invitation is ready to be committed only once its mail is queued, a
\* request only once no earlier one was found, an acceptance, a removal or a
\* departure only once its row is loaded.
LEMMA GetsReady ==
    ASSUME Typed, NEW h \in Handlers, Step(h), calls'[h].pc = "ready"
    PROVE  /\ calls'[h].op = "invite" => MailInvite(h)
           /\ calls'[h].op = "request" => CheckNoRequest(h)
           /\ calls'[h].op = "accept" => BeginReply(h)
           /\ calls'[h].op = "remove" => LoadMember(h)
           /\ calls'[h].op = "leave" => BeginLeave(h)
<1>t. calls \in [Handlers -> Call] /\ calls[h] \in Call /\ Idle.pc = "idle"
  BY DEF Typed, TypeOK, Idle
<1>1. ~BeginOnBoard(h)
  <2> SUFFICES ASSUME BeginOnBoard(h) PROVE FALSE
    OBVIOUS
  <2>1. PICK op \in OnBoard, u \in Users, b \in Boards :
            Begin(h, op, [Idle EXCEPT !.pc = "checked", !.board = b,
                              !.user = IF op = "duplicate" THEN u ELSE None])
    BY DEF BeginOnBoard
  <2> DEFINE d == [Idle EXCEPT !.pc = "checked", !.board = b,
                              !.user = IF op = "duplicate" THEN u ELSE None]
  <2>2. d \in Call /\ d.pc = "checked"
    BY DEF Idle, Call
  <2>3. Begin(h, op, d)
    BY <2>1
  <2> HIDE DEF d
  <2> QED
    BY <2>2, <2>3, BegunCall
<1>2. ~BeginOnUser(h)
  <2> SUFFICES ASSUME BeginOnUser(h) PROVE FALSE
    OBVIOUS
  <2>1. PICK op \in OnUser, u \in Users, t \in Users, b \in Boards :
            Begin(h, op, [Idle EXCEPT !.pc = "checked", !.board = b, !.target = t,
                              !.user = IF op = "invite" THEN u ELSE None])
    BY DEF BeginOnUser
  <2> DEFINE d == [Idle EXCEPT !.pc = "checked", !.board = b, !.target = t,
                              !.user = IF op = "invite" THEN u ELSE None]
  <2>2. d \in Call /\ d.pc = "checked"
    BY DEF Idle, Call
  <2>3. Begin(h, op, d)
    BY <2>1
  <2> HIDE DEF d
  <2> QED
    BY <2>2, <2>3, BegunCall
<1>3. BeginLeave(h) => calls'[h].op = "leave"
  BY <1>t DEF BeginLeave, Begin, Idle
<1>4. ~BeginRequest(h)
  BY <1>t DEF BeginRequest, Begin, Idle
<1>5. BeginReply(h) => calls'[h].op \in {"accept", "decline"}
  BY <1>t DEF BeginReply, Begin, Idle
<1>6. /\ BeginUnarchive(h) => calls'[h].op = "unarchive"
      /\ BeginCreate(h) => calls'[h].op = "create"
  BY <1>t DEF BeginUnarchive, BeginCreate, Begin, Idle
<1>7. LoadMember(h) => calls'[h].op \in {"role", "remove"}
  <2> SUFFICES ASSUME LoadMember(h) PROVE calls'[h].op \in {"role", "remove"}
    OBVIOUS
  <2>1. PICK m \in boardusers :
            calls' = [calls EXCEPT ![h].pc = "ready", ![h].row = m.uid,
                                   ![h].was = m.role]
    BY DEF LoadMember
  <2> QED
    BY <2>1, <1>t DEF LoadMember, Call
<1>8. LoadRequest(h) => calls'[h].op \in {"approve", "reject"}
  <2> SUFFICES ASSUME LoadRequest(h) PROVE calls'[h].op \in {"approve", "reject"}
    OBVIOUS
  <2>1. PICK r \in requests :
            calls' = [calls EXCEPT ![h].pc = "ready", ![h].row = r.uid,
                                   ![h].was = r.status]
    BY DEF LoadRequest
  <2> QED
    BY <2>1, <1>t DEF LoadRequest, Call
<1>9. ~CheckNotMember(h) /\ (LoadBoard(h) => calls'[h].op \in OnBoard)
  BY <1>t DEF CheckNotMember, LoadBoard, Call, OnBoard
<1>10. calls'[h] # Idle
  BY <1>t
<1>11. /\ ~Fail(h) /\ ~CommitRole(h) /\ ~CommitRemove(h) /\ ~CommitLeave(h)
       /\ ~CommitRequest(h) /\ ~CommitApprove(h) /\ ~CommitReject(h)
  BY <1>t, <1>10 DEF Fail, CommitRole, CommitRemove, CommitLeave, CommitRequest,
     CommitApprove, CommitReject, Finish
<1>12. /\ ~CommitInvite(h) /\ ~CommitAccept(h) /\ ~CommitDecline(h)
       /\ ~CommitCreate(h) /\ ~CommitDuplicate(h) /\ ~CommitArchive(h)
       /\ ~CommitUnarchive(h) /\ ~CommitVisibility(h) /\ ~CommitDelete(h)
  BY <1>t, <1>10 DEF CommitInvite, CommitAccept, CommitDecline, CommitCreate,
     CommitDuplicate, CommitArchive, CommitUnarchive, CommitVisibility,
     CommitDelete, Finish
<1>13. \/ BeginLeave(h) \/ BeginReply(h) \/ BeginUnarchive(h) \/ BeginCreate(h)
       \/ LoadMember(h) \/ LoadRequest(h) \/ LoadBoard(h)
       \/ MailInvite(h) \/ CheckNoRequest(h)
  BY <1>1, <1>2, <1>4, <1>9, <1>11, <1>12
     DEF Step, MembershipStep, InvitationsStep, LifecycleStep
<1>14. MailInvite(h) => calls'[h].op = "invite"
  BY <1>t DEF MailInvite, Call
<1>15. CheckNoRequest(h) => calls'[h].op = "request"
  BY <1>t DEF CheckNoRequest, Call
<1> QED
  BY <1>3, <1>5, <1>6, <1>7, <1>8, <1>9, <1>13, <1>14, <1>15 DEF OnBoard

\* The handlers that are about to commit a request of u to b.
Asking(u, b) ==
    {g \in Handlers : /\ calls[g].pc = "ready"
                      /\ calls[g].op = "request"
                      /\ calls[g].target = u
                      /\ calls[g].board = b}

\* Each request of a user, there or about to be, has taken a handler of its own.
AskedInv ==
    \A u \in Users, b \in Boards :
        Cardinality(RequestsOf(u, b)) + Cardinality(Asking(u, b))
            <= Cardinality(Handlers)

\* Handlers start to ask one by one, by their check.
LEMMA AskingGrows ==
    ASSUME Typed, NEW h \in Handlers, Step(h), NEW u \in Users, NEW b \in Boards
    PROVE  \/ Asking(u, b)' \subseteq Asking(u, b)
           \/ CheckNoRequest(h) /\ RequestsOf(u, b) = {}
<1>t. calls \in [Handlers -> Call] /\ calls' \in [Handlers -> Call]
  BY NextTyped DEF Next, Typed, TypeOK
<1> SUFFICES ASSUME NEW g \in Handlers, g \in Asking(u, b)', g \notin Asking(u, b)
             PROVE  CheckNoRequest(h) /\ RequestsOf(u, b) = {}
  BY DEF Asking
<1>1. g = h
  <2> SUFFICES ASSUME g # h PROVE FALSE
    OBVIOUS
  <2>1. calls'[g] = calls[g]
    BY <1>t, StepFrame
  <2> QED
    BY <2>1 DEF Asking
<1>2. CheckNoRequest(h)
  BY <1>1, GetsReady DEF Asking
<1>3. calls'[h].target = calls[h].target /\ calls'[h].board = calls[h].board
  BY <1>2, <1>t DEF CheckNoRequest, Call
<1> QED
  BY <1>1, <1>2, <1>3 DEF CheckNoRequest, Asking

\* Only a commit of a new one gives a user more requests.
LEMMA RequestsFall ==
    ASSUME Typed, KeysUnique, IsFiniteSet(requests), NEW h \in Handlers, Step(h),
           NEW u \in Users, NEW b \in Boards,
           ~(CommitRequest(h) /\ h \in Asking(u, b))
    PROVE  Cardinality(RequestsOf(u, b)') <= Cardinality(RequestsOf(u, b))
<1>f. IsFiniteSet(RequestsOf(u, b)) /\ Cardinality(RequestsOf(u, b)) \in Nat
  BY FS_Subset, FS_CardinalityType DEF RequestsOf
<1>1. CASE RequestsOf(u, b)' \subseteq RequestsOf(u, b)
  BY <1>1, <1>f, FS_Subset
<1>2. CASE requests' = requests \/ CommitDelete(h)
  BY <1>1, <1>2 DEF RequestsOf, CommitDelete
<1>3. CASE CommitRequest(h)
  <2> DEFINE new == [uid |-> FreshUid, user |-> calls[h].target,
                     board |-> calls[h].board, status |-> "pending"]
  <2>1. requests' = requests \cup {new}
    BY <1>3 DEF CommitRequest
  <2>2. new.user # u \/ new.board # b
    BY <1>3 DEF CommitRequest, Asking
  <2> HIDE DEF new
  <2>3. RequestsOf(u, b)' \subseteq RequestsOf(u, b)
    BY <2>1, <2>2 DEF RequestsOf
  <2> QED
    BY <1>1, <2>3
<1>4. CASE (CommitApprove(h) \/ CommitReject(h)) /\ requests' # requests
  <2>1. PICK status \in Decision : requests' = SetStatus(calls[h].row, status)
    BY <1>4 DEF CommitApprove, CommitReject, Decision
  <2>2. PICK s \in requests : \E t : /\ requests' = (requests \ {s}) \cup {t}
                                     /\ t.user = s.user /\ t.board = s.board
                                     /\ t \notin requests \ {s}
    BY <1>4, <2>1, StatusSwaps
  <2>3. PICK t : /\ requests' = (requests \ {s}) \cup {t}
                 /\ t.user = s.user /\ t.board = s.board
                 /\ t \notin requests \ {s}
    BY <2>2
  <2> DEFINE S == {r \in requests : r.user = u}
             T == {r \in requests' : r.user = u}
  <2>4. RowsOf(S, b) = RequestsOf(u, b) /\ RowsOf(T, b) = RequestsOf(u, b)'
    BY DEF RowsOf, RequestsOf
  <2>5. CASE s.user = u
    <3>1. /\ IsFiniteSet(S) /\ s \in S /\ t \notin S \ {s}
          /\ T = (S \ {s}) \cup {t}
      BY <2>3, <2>5, FS_Subset
    <3>2. Cardinality(RowsOf(T, b)) = Cardinality(RowsOf(S, b))
      <4>1. t.board = s.board /\ t \notin S \ {s}
        BY <2>3, <3>1
      <4> HIDE DEF S, T
      <4> QED
        BY <3>1, <4>1, SwapKeepsRows
    <3> QED
      BY <1>f, <2>4, <3>2
  <2>6. CASE s.user # u
    <3>1. RequestsOf(u, b)' = RequestsOf(u, b)
      BY <2>3, <2>6 DEF RequestsOf
    <3> QED
      BY <1>1, <3>1
  <2> QED
    BY <2>5, <2>6
<1> QED
  BY <1>2, <1>3, <1>4, WritesRequests

LEMMA StepAsking ==
    ASSUME DecisionsInv, LedgerInv, AskedInv, NEW h \in Handlers, Step(h)
    PROVE  AskedInv'
<1> SUFFICES ASSUME NEW u \in Users, NEW b \in Boards
             PROVE  Cardinality(RequestsOf(u, b)') + Cardinality(Asking(u, b)')
                        <= Cardinality(Handlers)
  BY DEF AskedInv
<1>i. /\ Typed /\ KeysUnique /\ IsFiniteSet(requests)
      /\ Cardinality(RequestsOf(u, b)) + Cardinality(Asking(u, b))
             <= Cardinality(Handlers)
  BY DEF DecisionsInv, GrantsInv, LedgerInv, AskedInv
<1>f. IsFiniteSet(requests')
  BY StepLedger DEF LedgerInv
<1>n. /\ IsFiniteSet(RequestsOf(u, b)) /\ Cardinality(RequestsOf(u, b)) \in Nat
      /\ IsFiniteSet(RequestsOf(u, b)') /\ Cardinality(RequestsOf(u, b)') \in Nat
  BY <1>i, <1>f, FS_Subset, FS_CardinalityType DEF RequestsOf
<1>m. /\ IsFiniteSet(Asking(u, b)) /\ Cardinality(Asking(u, b)) \in Nat
      /\ Cardinality(Asking(u, b)') \in Nat
      /\ Cardinality(Handlers) \in Nat
      /\ Cardinality(Asking(u, b)') <= Cardinality(Handlers)
  <2>1. Asking(u, b) \subseteq Handlers /\ Asking(u, b)' \subseteq Handlers
    BY DEF Asking
  <2> QED
    BY <2>1, HandlersAssumption, FS_Subset, FS_CardinalityType
<1>1. CASE CheckNoRequest(h) /\ RequestsOf(u, b) = {}
  <2>1. RequestsOf(u, b)' = {}
    BY <1>1 DEF CheckNoRequest, tables, RequestsOf
  <2> QED
    BY <2>1, <1>m, FS_EmptySet
<1>2. CASE CommitRequest(h) /\ h \in Asking(u, b)
  <2> DEFINE new == [uid |-> FreshUid, user |-> calls[h].target,
                     board |-> calls[h].board, status |-> "pending"]
  <2>1. requests' = requests \cup {new}
    BY <1>2 DEF CommitRequest
  <2>2. new.user = u /\ new.board = b /\ new.uid = FreshUid
    BY <1>2 DEF Asking
  <2>3. new \notin requests
    BY <1>2, <2>2, FreshKey DEF CommitRequest, Fresh
  <2> HIDE DEF new
  <2>4. RequestsOf(u, b)' = RequestsOf(u, b) \cup {new} /\ new \notin RequestsOf(u, b)
    BY <2>1, <2>2, <2>3 DEF RequestsOf
  <2>5. Cardinality(RequestsOf(u, b)') = Cardinality(RequestsOf(u, b)) + 1
    BY <1>n, <2>4, FS_AddElement
  <2>6. Asking(u, b)' \subseteq Asking(u, b) \ {h}
    <3>1. Asking(u, b)' \subseteq Asking(u, b)
      BY <1>2, <1>i, AskingGrows DEF CommitRequest, CheckNoRequest
    <3>2. calls'[h] = Idle /\ Idle.pc = "idle"
      BY <1>2, <1>i DEF CommitRequest, Finish, Typed, TypeOK, Idle
    <3> QED
      BY <3>1, <3>2 DEF Asking
  <2>7. /\ IsFiniteSet(Asking(u, b) \ {h})
        /\ Cardinality(Asking(u, b) \ {h}) = Cardinality(Asking(u, b)) - 1
    BY <1>2, <1>m, FS_RemoveElement
  <2>8. Cardinality(Asking(u, b)') <= Cardinality(Asking(u, b)) - 1
    BY <2>6, <2>7, FS_Subset
  <2> QED
    BY <1>i, <1>n, <1>m, <2>5, <2>8
<1>3. CASE /\ Asking(u, b)' \subseteq Asking(u, b)
           /\ ~(CommitRequest(h) /\ h \in Asking(u, b))
  <2>1. Cardinality(Asking(u, b)') <= Cardinality(Asking(u, b))
    BY <1>3, <1>m, FS_Subset
  <2>2. Cardinality(RequestsOf(u, b)') <= Cardinality(RequestsOf(u, b))
    BY <1>3, <1>i, RequestsFall
  <2> QED
    BY <1>i, <1>n, <1>m, <2>1, <2>2
<1> QED
  BY <1>1, <1>2, <1>3, <1>i, AskingGrows

\* A user gets a second request to a board only from handlers that check before
\* either commits: he never has more of them than there are handlers, however
\* many calls went before.
THEOREM SecondRequestsRace == Spec => []RequestsPerHandler
<1>1. Init => AskedInv
  <2> SUFFICES ASSUME Init PROVE AskedInv
    OBVIOUS
  <2>1. ASSUME NEW u \in Users, NEW b \in Boards
        PROVE  RequestsOf(u, b) = {} /\ Asking(u, b) = {}
    BY DEF Init, RequestsOf, Asking, Idle
  <2>2. Cardinality({}) = 0 /\ Cardinality(Handlers) \in Nat
    BY HandlersAssumption, FS_EmptySet, FS_CardinalityType
  <2> QED
    BY <2>1, <2>2 DEF AskedInv
<1>2. DecisionsInv /\ LedgerInv /\ AskedInv /\ [Next]_vars => AskedInv'
  <2>1. AskedInv /\ UNCHANGED vars => AskedInv'
    BY DEF vars, AskedInv, RequestsOf, Asking
  <2> QED
    BY <2>1, StepAsking DEF Next
<1>3. LedgerInv /\ AskedInv => RequestsPerHandler
  <2> SUFFICES ASSUME LedgerInv, AskedInv, NEW u \in Users, NEW b \in Boards
               PROVE  Cardinality(RequestsOf(u, b)) <= Cardinality(Handlers)
    BY DEF RequestsPerHandler
  <2>1. IsFiniteSet(RequestsOf(u, b)) /\ IsFiniteSet(Asking(u, b))
    BY HandlersAssumption, FS_Subset DEF LedgerInv, RequestsOf, Asking
  <2> QED
    BY <2>1, HandlersAssumption, FS_CardinalityType DEF AskedInv
<1> QED
  BY <1>1, <1>2, <1>3, InitLedger, NextLedger, InitDecisions, NextDecisions, PTL DEF Spec

-----------------------------------------------------------------------------
(* Members and the log.  A commit is counted for the board its handler works *)
(* on; StepElsewhere says that it leaves the memberships of the others.      *)

Enrolled(b) == RowsOf(boardusers, b)

Accepted(b) == NotificationsOf(b, "invite_accepted")

Entitled(b) ==
    audits[b]["board_created"] + audits[b]["member_added"] + Cardinality(Accepted(b))

Ended(b) == audits[b]["member_removed"] + audits[b]["member_left"]

\* MembershipLedger, of one board.
Balanced(b) ==
    /\ Cardinality(Enrolled(b)) <= Entitled(b)
    /\ Entitled(b) <= Cardinality(Enrolled(b)) + Ended(b)

EnrolInv ==
    /\ IsFiniteSet(boardusers)
    /\ \A b \in Boards : IsFiniteSet(Accepted(b))
    /\ \A b \in Boards : Live(b) => Balanced(b)

\* Notifications are counted user by user, and a step sends at most one more.
LEMMA ToldSame ==
    ASSUME NEW b \in Boards, NEW t \in NotificationType,
           \A u \in Users : notifications'[b][u][t] = notifications[b][u][t]
    PROVE  NotificationsOf(b, t)' = NotificationsOf(b, t)
BY DEF NotificationsOf

LEMMA ToldOnce ==
    ASSUME Typed, NEW b \in Boards, NEW v \in Users, NEW t \in NotificationType,
           notifications' = Notified(b, v, t)
    PROVE  \E n : /\ n \notin NotificationsOf(b, t)
                  /\ NotificationsOf(b, t)' = NotificationsOf(b, t) \cup {n}
<1> DEFINE Before(u) == notifications[b][u][t]
           After(u) == notifications'[b][u][t]
           n == <<v, Before(v) + 1>>
<1>1. \A u \in Users : Before(u) \in Nat
  BY DEF Typed, TypeOK
<1>2. \A u \in Users : After(u) = IF u = v THEN Before(u) + 1 ELSE Before(u)
  BY NotifiedExactly
<1>3. \A p : p \in NotificationsOf(b, t) <=>
                \E u \in Users : \E k \in 1 .. Before(u) : p = <<u, k>>
  BY DEF NotificationsOf
<1>4. \A p : p \in NotificationsOf(b, t)' <=>
                \E u \in Users : \E k \in 1 .. After(u) : p = <<u, k>>
  BY DEF NotificationsOf
<1> HIDE DEF Before, After
<1>5. n \notin NotificationsOf(b, t)
  BY <1>1, <1>3
<1>6. ASSUME NEW p, p \in NotificationsOf(b, t)' PROVE p \in NotificationsOf(b, t) \/ p = n
  <2>1. PICK u \in Users : \E k \in 1 .. After(u) : p = <<u, k>>
    BY <1>4, <1>6
  <2>2. PICK k \in 1 .. After(u) : p = <<u, k>>
    BY <2>1
  <2>3. k \in 1 .. Before(u) \/ (u = v /\ k = Before(v) + 1)
    BY <1>1, <1>2
  <2> QED
    BY <1>3, <2>2, <2>3
<1>7. ASSUME NEW u \in Users PROVE 1 .. Before(u) \subseteq 1 .. After(u)
  BY <1>1, <1>2
<1>8. Before(v) + 1 \in 1 .. After(v)
  BY <1>1, <1>2
<1>9. NotificationsOf(b, t) \cup {n} \subseteq NotificationsOf(b, t)'
  BY <1>3, <1>4, <1>7, <1>8
<1> HIDE DEF n
<1>10. NotificationsOf(b, t)' = NotificationsOf(b, t) \cup {n}
  BY <1>6, <1>9
<1> QED
  BY <1>5, <1>10

\* Nothing has been told of a board without notifications.
LEMMA ToldNone ==
    ASSUME NEW b \in Boards, NEW t \in NotificationType,
           notifications[b] = NoNotifications
    PROVE  NotificationsOf(b, t) = {}
<1>1. \A u \in Users : 1 .. notifications[b][u][t] = {}
  BY DEF NoNotifications
<1> QED
  BY <1>1 DEF NotificationsOf

\* A commit tells of one event of one type, and an invitation and its acceptance
\* are told of by their own commit only.
LEMMA ToldFinitely ==
    ASSUME Typed, NEW h \in Handlers, Step(h), NEW b \in Boards,
           NEW t \in NotificationType, IsFiniteSet(NotificationsOf(b, t))
    PROVE  IsFiniteSet(NotificationsOf(b, t)')
<1> DEFINE c == calls[h]
<1>c. c.pc # "idle" => c.board \in Boards
  BY DEF Typed, CallsFilled
<1>1. CASE \A u \in Users : notifications'[b][u][t] = notifications[b][u][t]
  BY <1>1, ToldSame
<1>2. CASE CommitDelete(h)
  <2>1. notifications'[b] = NoNotifications \/ notifications'[b] = notifications[b]
    BY <1>2, <1>c DEF CommitDelete, Typed, TypeOK
  <2>2. CASE notifications'[b] = NoNotifications
    <3>1. \A u \in Users : 1 .. notifications'[b][u][t] = {}
      BY <2>2 DEF NoNotifications
    <3>2. NotificationsOf(b, t)' = {}
      BY <3>1 DEF NotificationsOf
    <3> QED
      BY <3>2, FS_EmptySet
  <2> QED
    BY <1>1, <2>1, <2>2
<1>3. CASE notifications' # notifications /\ ~CommitDelete(h)
  <2>1. PICK v \in Users, s \in NotificationType :
            c.pc # "idle" /\ notifications' = Notified(c.board, v, s)
    BY <1>3, NotifiesOf
  <2>2. CASE c.board = b /\ s = t
    BY <2>1, <2>2, ToldOnce, FS_AddElement
  <2>3. CASE c.board # b \/ s # t
    <3>1. \A u \in Users : notifications'[b][u][t] = notifications[b][u][t]
      BY <1>c, <2>1, <2>3, NotifiedExactly
    <3> QED
      BY <1>1, <3>1
  <2> QED
    BY <2>2, <2>3
<1> QED
  BY <1>1, <1>2, <1>3

LEMMA ToldBy ==
    ASSUME Typed, NEW h \in Handlers, Step(h), ~CommitDelete(h), NEW b \in Boards
    PROVE  /\ ~CommitAccept(h) => NotificationsOf(b, "invite_accepted")'
                                      = NotificationsOf(b, "invite_accepted")
           /\ ~CommitInvite(h) => NotificationsOf(b, "invite_received")'
                                      = NotificationsOf(b, "invite_received")
<1> DEFINE c == calls[h]
<1>c. c.pc # "idle" => c.board \in Boards
  BY DEF Typed, CallsFilled
<1>t. {"invite_accepted", "invite_received"} \subseteq NotificationType
  BY DEF NotificationType
<1>1. ASSUME NEW t \in {"invite_accepted", "invite_received"},
             t = "invite_accepted" => ~CommitAccept(h),
             t = "invite_received" => ~CommitInvite(h)
      PROVE  NotificationsOf(b, t)' = NotificationsOf(b, t)
  <2>1. CASE notifications' = notifications
    BY <2>1, <1>t, ToldSame
  <2>2. CASE notifications' # notifications
    <3>1. PICK v \in Users, s \in NotificationType :
              /\ c.pc # "idle"
              /\ notifications' = Notified(c.board, v, s)
              /\ s # t
      BY <1>1, <2>2, NotifiesOf
    <3>2. \A u \in Users : notifications'[b][u][t] = notifications[b][u][t]
      BY <1>c, <1>t, <3>1, NotifiedExactly
    <3> QED
      BY <1>t, <3>2, ToldSame
  <2> QED
    BY <2>1, <2>2
<1> QED
  BY <1>1

\* A change of role puts one membership in the place of another.
LEMMA RoleSwaps ==
    ASSUME Typed, KeysUnique, NEW h \in Handlers, CommitRole(h),
           boardusers' # boardusers
    PROVE  \E m \in boardusers : \E n :
              /\ boardusers' = (boardusers \ {m}) \cup {n}
              /\ n.board = m.board
              /\ n \notin boardusers \ {m}
<1>1. PICK m \in boardusers, role \in UserRole :
          /\ m.uid = calls[h].row
          /\ boardusers' = Without(calls[h].row) \cup {[m EXCEPT !.role = role]}
  BY DEF CommitRole
<1> DEFINE n == [m EXCEPT !.role = role]
<1>2. n.board = m.board /\ n.uid = m.uid
  BY DEF Typed, TypeOK, BoardUser
<1>3. Without(calls[h].row) = boardusers \ {m}
  BY <1>1 DEF Without, KeysUnique
<1>4. n \notin boardusers \ {m}
  BY <1>2 DEF KeysUnique
<1>5. boardusers' = (boardusers \ {m}) \cup {n}
  BY <1>1, <1>3
<1> HIDE DEF n
<1> QED
  BY <1>2, <1>4, <1>5

\* The new one has the key of the old.
LEMMA RoleKeepsKeys ==
    ASSUME Typed, KeysUnique, NEW h \in Handlers, CommitRole(h),
           boardusers' # boardusers, NEW b \in Boards
    PROVE  \A m \in Enrolled(b) : \E n \in Enrolled(b)' : n.uid = m.uid
<1>1. PICK m \in boardusers, role \in UserRole :
          /\ m.uid = calls[h].row
          /\ boardusers' = Without(calls[h].row) \cup {[m EXCEPT !.role = role]}
  BY DEF CommitRole
<1> DEFINE n == [m EXCEPT !.role = role]
<1>2. n.board = m.board /\ n.uid = m.uid
  BY DEF Typed, TypeOK, BoardUser
<1>3. boardusers' = Without(calls[h].row) \cup {n}
  BY <1>1
<1> HIDE DEF n
<1> SUFFICES ASSUME NEW x \in Enrolled(b)
             PROVE  \E y \in Enrolled(b)' : y.uid = x.uid
  OBVIOUS
<1>4. CASE x.uid # calls[h].row
  BY <1>3, <1>4 DEF Enrolled, RowsOf, Without
<1>5. CASE x.uid = calls[h].row
  <2>1. x = m
    BY <1>1, <1>5 DEF KeysUnique, Enrolled, RowsOf
  <2> QED
    BY <1>2, <1>3, <2>1 DEF Enrolled, RowsOf
<1> QED
  BY <1>4, <1>5

\* A commit that admits inserts one row, with a new key, on its board.
LEMMA AdmitsRow ==
    ASSUME NEW h \in Handlers, CommitApprove(h) \/ CommitAccept(h) \/ CommitCreate(h)
    PROVE  \E n : /\ n \notin boardusers
                  /\ n.board = calls[h].board
                  /\ boardusers' = boardusers \cup {n}
<1>1. PICK u, role :
          boardusers' = boardusers \cup {[uid |-> FreshUid, user |-> u,
                                          board |-> calls[h].board, role |-> role]}
  <2>1. CASE CommitApprove(h)
    BY <2>1 DEF CommitApprove
  <2>2. CASE CommitAccept(h)
    BY <2>2 DEF CommitAccept
  <2>3. CASE CommitCreate(h)
    BY <2>3 DEF CommitCreate
  <2> QED
    BY <2>1, <2>2, <2>3
<1> DEFINE n == [uid |-> FreshUid, user |-> u, board |-> calls[h].board, role |-> role]
<1>2. Fresh(FreshUid)
  BY FreshKey DEF CommitApprove, CommitAccept, CommitCreate
<1>3. n.uid = FreshUid /\ n.board = calls[h].board
  OBVIOUS
<1>4. boardusers' = boardusers \cup {n}
  BY <1>1
<1> HIDE DEF n
<1> QED
  BY <1>2, <1>3, <1>4 DEF Fresh

\* A removal or a departure deletes at most one row, of its board.
LEMMA ExpelsRow ==
    ASSUME KeysUnique, BoardsInv, NEW h \in Handlers, CommitRemove(h) \/ CommitLeave(h)
    PROVE  \/ boardusers' = boardusers
           \/ \E m \in boardusers : /\ m.board = calls[h].board
                                     /\ boardusers' = boardusers \ {m}
<1>1. boardusers' = Without(calls[h].row)
  BY DEF CommitRemove, CommitLeave
<1>2. \A m \in boardusers : m.uid = calls[h].row =>
          /\ Without(calls[h].row) = boardusers \ {m}
          /\ m.board = calls[h].board
  BY DEF KeysUnique, Without, BoardsInv, RowsOnBoard, Rows
<1> QED
  BY <1>1, <1>2 DEF Without

LEMMA StepFinite ==
    ASSUME Typed, KeysUnique, EnrolInv, NEW h \in Handlers, Step(h)
    PROVE  IsFiniteSet(boardusers') /\ \A b \in Boards : IsFiniteSet(Accepted(b)')
<1>i. IsFiniteSet(boardusers) /\ \A b \in Boards : IsFiniteSet(Accepted(b))
  BY DEF EnrolInv
<1>1. IsFiniteSet(boardusers')
  <2>1. CASE boardusers' \subseteq boardusers
    BY <1>i, <2>1, FS_Subset
  <2>2. CASE CommitRole(h) /\ boardusers' # boardusers
    BY <1>i, <2>2, RoleSwaps, SwapKeepsCount
  <2>3. CASE CommitApprove(h) \/ CommitAccept(h) \/ CommitCreate(h)
    BY <1>i, <2>3, AdmitsRow, FS_AddElement
  <2>4. CASE CommitRemove(h) \/ CommitLeave(h) \/ CommitDelete(h)
    BY <2>1, <2>4 DEF CommitRemove, CommitLeave, CommitDelete, Without
  <2> QED
    BY <2>1, <2>2, <2>3, <2>4, WritesMembers
<1>2. \A b \in Boards : IsFiniteSet(Accepted(b)')
  BY <1>i, ToldFinitely DEF Accepted, NotificationType
<1> QED
  BY <1>1, <1>2

\* Each figure of the books is moved by one commit.
LEMMA BooksOf ==
    ASSUME Typed, NEW h \in Handlers, Step(h), ~CommitDelete(h), NEW b \in Boards
    PROVE  /\ ~CommitCreate(h) => audits'[b]["board_created"] = audits[b]["board_created"]
           /\ ~CommitApprove(h) => audits'[b]["member_added"] = audits[b]["member_added"]
           /\ ~CommitRemove(h) => audits'[b]["member_removed"] = audits[b]["member_removed"]
           /\ ~CommitLeave(h) => audits'[b]["member_left"] = audits[b]["member_left"]
           /\ ~CommitAccept(h) => Accepted(b)' = Accepted(b)
<1> DEFINE c == calls[h]
<1>c. c.pc # "idle" => c.board \in Boards
  BY DEF Typed, CallsFilled
<1>t. ~CommitAccept(h) => Accepted(b)' = Accepted(b)
  BY ToldBy DEF Accepted
<1>1. CASE audits' = audits
  BY <1>1, <1>t
<1>2. CASE audits' # audits
  <2>1. PICK A :
            /\ c.pc # "idle"
            /\ audits' = Logged(c.board, A)
            /\ "board_created" \in A => CommitCreate(h)
            /\ "member_added" \in A => CommitApprove(h)
            /\ "member_removed" \in A => CommitRemove(h)
            /\ "member_left" \in A => CommitLeave(h)
    BY <1>2, LogsOf
  <2>2. \A a \in AuditAction : a \notin A => audits'[b][a] = audits[b][a]
    BY <1>c, <2>1, LoggedExactly
  <2> QED
    BY <2>1, <2>2, <1>t DEF AuditAction
<1> QED
  BY <1>1, <1>2

\* Whoever comes in was entitled to by the same commit.
LEMMA AdmissionBooked ==
    ASSUME Typed, IsFiniteSet(boardusers), NEW h \in Handlers, Step(h),
           CommitApprove(h) \/ CommitAccept(h) \/ CommitCreate(h),
           NEW b \in Boards, calls[h].board = b, IsFiniteSet(Accepted(b))
    PROVE  /\ Cardinality(Enrolled(b)') = Cardinality(Enrolled(b)) + 1
           /\ Entitled(b)' = Entitled(b) + 1
           /\ Ended(b)' = Ended(b)
<1> DEFINE c == calls[h]
           ledger == {"board_created", "member_added", "member_removed", "member_left"}
<1>n. /\ IsFiniteSet(Enrolled(b))
      /\ Cardinality(Accepted(b)) \in Nat
      /\ \A a \in ledger : a \in AuditAction /\ audits[b][a] \in Nat
  BY FS_Subset, FS_CardinalityType DEF Enrolled, RowsOf, AuditAction, Typed, TypeOK
<1>d. ~CommitDelete(h) /\ ~CommitRemove(h) /\ ~CommitLeave(h)
  BY DEF CommitApprove, CommitAccept, CommitCreate, CommitRemove, CommitLeave,
     CommitDelete
<1>1. Cardinality(Enrolled(b)') = Cardinality(Enrolled(b)) + 1
  <2>1. PICK n : /\ n \notin boardusers
                 /\ n.board = b
                 /\ boardusers' = boardusers \cup {n}
    BY AdmitsRow
  <2>2. Enrolled(b)' = Enrolled(b) \cup {n} /\ n \notin Enrolled(b)
    BY <2>1 DEF Enrolled, RowsOf
  <2> QED
    BY <1>n, <2>2, FS_AddElement
<1>2. Ended(b)' = Ended(b)
  BY <1>d, BooksOf DEF Ended
<1>3. CASE CommitApprove(h)
  <2>1. ~CommitAccept(h) /\ ~CommitCreate(h)
    BY <1>3 DEF CommitApprove, CommitAccept, CommitCreate
  <2>2. audits'[b]["member_added"] = audits[b]["member_added"] + 1
    BY <1>n, <1>3, LoggedExactly DEF CommitApprove
  <2> QED
    BY <1>n, <1>d, <1>1, <1>2, <2>1, <2>2, BooksOf DEF Entitled
<1>4. CASE CommitCreate(h)
  <2>1. ~CommitAccept(h) /\ ~CommitApprove(h)
    BY <1>4 DEF CommitApprove, CommitAccept, CommitCreate
  <2>2. audits'[b]["board_created"] = audits[b]["board_created"] + 1
    BY <1>n, <1>4, LoggedExactly DEF CommitCreate
  <2> QED
    BY <1>n, <1>d, <1>1, <1>2, <2>1, <2>2, BooksOf DEF Entitled
<1>5. CASE CommitAccept(h)
  <2>1. ~CommitCreate(h) /\ ~CommitApprove(h)
    BY <1>5 DEF CommitApprove, CommitAccept, CommitCreate
  <2>2. c.user \in Users /\ notifications' = Notified(b, c.user, "invite_accepted")
    BY <1>5 DEF CommitAccept, Typed, CallsFilled, OfUser
  <2>3. Cardinality(Accepted(b)') = Cardinality(Accepted(b)) + 1
    BY <2>2, ToldOnce, FS_AddElement DEF Accepted, NotificationType
  <2> QED
    BY <1>n, <1>d, <1>1, <1>2, <2>1, <2>3, BooksOf DEF Entitled
<1> QED
  BY <1>3, <1>4, <1>5

\* A removal or a departure is logged once, and entitles nobody.
LEMMA ExpulsionBooked ==
    ASSUME Typed, NEW h \in Handlers, Step(h), CommitRemove(h) \/ CommitLeave(h),
           NEW b \in Boards, calls[h].board = b
    PROVE  Entitled(b)' = Entitled(b) /\ Ended(b)' = Ended(b) + 1
<1>n. /\ {"member_removed", "member_left"} \subseteq AuditAction
      /\ audits[b]["member_removed"] \in Nat /\ audits[b]["member_left"] \in Nat
  BY DEF AuditAction, Typed, TypeOK
<1>d. ~CommitDelete(h) /\ ~CommitAccept(h) /\ ~CommitApprove(h) /\ ~CommitCreate(h)
  BY DEF CommitApprove, CommitAccept, CommitCreate, CommitRemove, CommitLeave,
     CommitDelete
<1>1. Entitled(b)' = Entitled(b)
  BY <1>d, BooksOf DEF Entitled
<1>2. CASE CommitRemove(h)
  <2>1. ~CommitLeave(h)
    BY <1>2 DEF CommitRemove, CommitLeave
  <2>2. audits'[b]["member_removed"] = audits[b]["member_removed"] + 1
    BY <1>2, <1>n, LoggedExactly DEF CommitRemove
  <2> QED
    BY <1>n, <1>d, <1>1, <2>1, <2>2, BooksOf DEF Ended
<1>3. CASE CommitLeave(h)
  <2>1. ~CommitRemove(h)
    BY <1>3 DEF CommitRemove, CommitLeave
  <2>2. audits'[b]["member_left"] = audits[b]["member_left"] + 1
    BY <1>3, <1>n, LoggedExactly DEF CommitLeave
  <2> QED
    BY <1>n, <1>d, <1>1, <2>1, <2>2, BooksOf DEF Ended
<1> QED
  BY <1>2, <1>3

LEMMA StepEnrolled ==
    ASSUME DecisionsInv, BoardsInv, EnrolInv, NEW h \in Handlers, Step(h),
           NEW b \in Boards, Live(b)'
    PROVE  Balanced(b)'
<1> DEFINE c == calls[h]
           ledger == {"board_created", "member_added", "member_removed", "member_left"}
<1>i. /\ Typed /\ RefIntegrity /\ KeysUnique
      /\ IsFiniteSet(boardusers) /\ IsFiniteSet(Accepted(b))
      /\ Live(b) => Balanced(b)
  BY DEF DecisionsInv, GrantsInv, EnrolInv
<1>c. c.pc # "idle" => c.board \in Boards
  BY <1>i DEF Typed, CallsFilled
<1>n. /\ IsFiniteSet(Enrolled(b)) /\ Cardinality(Enrolled(b)) \in Nat
      /\ Cardinality(Accepted(b)) \in Nat
      /\ \A a \in ledger : a \in AuditAction /\ audits[b][a] \in Nat
  BY <1>i, FS_Subset, FS_CardinalityType
     DEF Enrolled, RowsOf, AuditAction, Typed, TypeOK
<1>1. CASE ~Live(b)
  <2>1. CASE BeginCreate(h) \/ CommitDuplicate(h)
    <3>1. boardusers' = boardusers /\ notifications' = notifications
      BY <2>1 DEF BeginCreate, CommitDuplicate
    <3>2. audits'[b] = audits[b]
      <4>1. CASE BeginCreate(h)
        BY <4>1 DEF BeginCreate
      <4>2. CASE CommitDuplicate(h)
        <5>1. c.board \in Boards /\ c.board # b
          BY <1>1, <1>c, <4>2 DEF CommitDuplicate
        <5> QED
          BY <1>i, <4>2, <5>1, LoggedElsewhere DEF CommitDuplicate
      <4> QED
        BY <2>1, <4>1, <4>2
    <3>3. audits[b] = NoAudits /\ notifications[b] = NoNotifications
      BY <1>1, <1>i DEF RefIntegrity, LiveBoards
    <3>4. Accepted(b)' = {} /\ Enrolled(b)' = {}
      BY <1>1, <1>i, <3>1, <3>3, ToldNone, ToldSame
         DEF Enrolled, RowsOf, RefIntegrity, Accepted, NotificationType
    <3>5. \A a \in ledger : audits'[b][a] = 0
      BY <3>2, <3>3 DEF NoAudits, AuditAction
    <3> QED
      BY <3>4, <3>5, FS_EmptySet DEF Balanced, Entitled, Ended
  <2> QED
    BY <1>1, <1>i, <2>1, BoardsBorn
<1>2. CASE Live(b) /\ b # c.board
  <2>1. Untouched(b)
    BY <1>2, <1>i, StepElsewhere
  <2>2. Enrolled(b)' = Enrolled(b) /\ Accepted(b)' = Accepted(b)
    BY <2>1, ToldSame DEF Untouched, Enrolled, RowsOf, Accepted, NotificationType
  <2> QED
    BY <1>2, <1>i, <2>1, <2>2 DEF Untouched, Balanced, Entitled, Ended
<1>3. CASE Live(b) /\ b = c.board
  <2>1. ~CommitDelete(h)
    BY <1>3, <1>i DEF CommitDelete, NoBoard, Live, Typed, TypeOK
  <2>2. Balanced(b)
    BY <1>3, <1>i
  <2>e. Entitled(b) \in Nat /\ Ended(b) \in Nat
    BY <1>n DEF Entitled, Ended
  <2>3. CASE CommitApprove(h) \/ CommitAccept(h) \/ CommitCreate(h)
    <3>1. /\ Cardinality(Enrolled(b)') = Cardinality(Enrolled(b)) + 1
          /\ Entitled(b)' = Entitled(b) + 1 /\ Ended(b)' = Ended(b)
      BY <1>3, <1>i, <2>3, AdmissionBooked
    <3> QED
      BY <1>n, <2>2, <2>e, <3>1 DEF Balanced
  <2>4. CASE CommitRemove(h) \/ CommitLeave(h)
    <3>1. Entitled(b)' = Entitled(b) /\ Ended(b)' = Ended(b) + 1
      BY <1>3, <1>i, <2>4, ExpulsionBooked
    <3>2. \/ Cardinality(Enrolled(b)') = Cardinality(Enrolled(b))
          \/ Cardinality(Enrolled(b)') = Cardinality(Enrolled(b)) - 1
      <4>1. CASE boardusers' = boardusers
        BY <4>1 DEF Enrolled
      <4>2. CASE boardusers' # boardusers
        <5>1. PICK m \in boardusers : m.board = b /\ boardusers' = boardusers \ {m}
          BY <1>3, <1>i, <2>4, <4>2, ExpelsRow
        <5>2. Enrolled(b)' = Enrolled(b) \ {m} /\ m \in Enrolled(b)
          BY <5>1 DEF Enrolled, RowsOf
        <5> QED
          BY <1>n, <5>2, FS_RemoveElement
      <4> QED
        BY <4>1, <4>2
    <3> QED
      BY <1>n, <2>2, <2>e, <3>1, <3>2 DEF Balanced
  <2>5. CASE ~(\/ CommitApprove(h) \/ CommitAccept(h) \/ CommitCreate(h)
               \/ CommitRemove(h) \/ CommitLeave(h))
    <3>1. Entitled(b)' = Entitled(b) /\ Ended(b)' = Ended(b)
      BY <1>i, <2>1, <2>5, BooksOf DEF Entitled, Ended
    <3>2. Cardinality(Enrolled(b)') = Cardinality(Enrolled(b))
      <4>1. CASE boardusers' = boardusers
        BY <4>1 DEF Enrolled
      <4>2. CASE boardusers' # boardusers
        <5>1. CommitRole(h)
          BY <2>1, <2>5, <4>2, WritesMembers
        <5> QED
          BY <1>i, <4>2, <5>1, RoleSwaps, SwapKeepsCount DEF Enrolled
      <4> QED
        BY <4>1, <4>2
    <3> QED
      BY <2>2, <3>1, <3>2 DEF Balanced
  <2> QED
    BY <2>3, <2>4, <2>5
<1> QED
  BY <1>1, <1>2, <1>3

LEMMA InitEnrolled == Init => EnrolInv
<1> SUFFICES ASSUME Init PROVE EnrolInv
  OBVIOUS
<1>1. \A b \in Boards : Accepted(b) = {} /\ ~Live(b)
  BY ToldNone DEF Init, Live, NoBoard, Accepted, NotificationType
<1> QED
  BY <1>1, FS_EmptySet DEF Init, EnrolInv

LEMMA NextEnrolled ==
    DecisionsInv /\ BoardsInv /\ EnrolInv /\ [Next]_vars => EnrolInv'
<1>1. EnrolInv /\ UNCHANGED vars => EnrolInv'
  BY DEF vars, EnrolInv, Accepted, NotificationsOf, Live, Balanced, Entitled, Ended,
     Enrolled, RowsOf
<1>2. ASSUME DecisionsInv, BoardsInv, EnrolInv, NEW h \in Handlers, Step(h)
      PROVE  EnrolInv'
  BY <1>2, StepFinite, StepEnrolled DEF EnrolInv, DecisionsInv, GrantsInv
<1> QED
  BY <1>1, <1>2 DEF Next

\* The members of a board are those whom its creation, an approval or an
\* acceptance let in, and whoever is no longer there was removed or has left:
\* the log and the notifications say so of every board, whatever interleaves.
THEOREM MembershipsAreLogged == Spec => []MembershipLedger
<1>1. EnrolInv => MembershipLedger
  BY DEF EnrolInv, MembershipLedger, LiveBoards, Balanced, Entitled, Ended, Enrolled,
     RowsOf, Accepted
<1>2. DecisionsInv /\ BoardsInv /\ [Next]_vars => BoardsInv'
  BY NextOnBoards DEF DecisionsInv, GrantsInv
<1> QED
  BY <1>1, <1>2, InitEnrolled, NextEnrolled, InitDecisions, NextDecisions,
     InitOnBoards, PTL DEF Spec

-----------------------------------------------------------------------------
(* Boards that nobody has been shown *)

\* No call names such a board, but the one that is creating it.
Unnamed(b) ==
    \A g \in Handlers :
        calls[g].pc # "idle" /\ calls[g].board = b => calls[g].op = "create"

\* Every live board has been shown to somebody, or nothing is kept of it.
ShownInv ==
    \A b \in Boards : Live(b) =>
        \/ boards[b].known
        \/ ~boards[b].public /\ Blank(b) /\ Unnamed(b)

LEMMA InitShown == Init => ShownInv
BY DEF Init, ShownInv, Live, NoBoard

\* Once shown, shown for ever.
LEMMA StaysKnown ==
    ASSUME Typed, NEW h \in Handlers, Step(h), NEW b \in Boards, Live(b), Live(b)'
    PROVE  /\ boards[b].known => boards'[b].known
           /\ boards'[b].public => boards[b].public \/ boards'[b].known
<1> DEFINE c == calls[h]
<1>b. boards \in [Boards -> Board] /\ (c.pc # "idle" => c.board \in Boards)
  BY DEF Typed, TypeOK, CallsFilled
<1>1. CASE boards' = boards
  BY <1>1
<1>2. CASE BeginCreate(h) \/ CommitDuplicate(h)
  BY <1>2, <1>b DEF BeginCreate, CommitDuplicate, Live
<1>3. CASE CommitCreate(h)
  BY <1>3, <1>b DEF CommitCreate, Board
<1>4. CASE CommitArchive(h)
  BY <1>4, <1>b DEF CommitArchive, Board
<1>5. CASE CommitUnarchive(h)
  BY <1>5, <1>b DEF CommitUnarchive, Board
<1>6. CASE CommitVisibility(h)
  BY <1>6, <1>b DEF CommitVisibility, Board
<1>7. CASE CommitDelete(h)
  BY <1>7, <1>b DEF CommitDelete, NoBoard, Live
<1> QED
  BY <1>1, <1>2, <1>3, <1>4, <1>5, <1>6, <1>7, WritesBoards

\* A new board is shown at once if it is public; of another, nothing is kept.
LEMMA BornBlank ==
    ASSUME Typed, RefIntegrity, NEW h \in Handlers, Step(h), NEW b \in Boards,
           ~Live(b), Live(b)'
    PROVE  boards'[b].public => boards'[b].known
<1> DEFINE c == calls[h]
<1>b. boards \in [Boards -> Board]
  BY DEF Typed, TypeOK
<1>1. CASE BeginCreate(h)
  BY <1>1, <1>b DEF BeginCreate, NewBoard, Live
<1>2. CASE CommitDuplicate(h)
  BY <1>2, <1>b DEF CommitDuplicate, NewBoard, Live
<1> QED
  BY <1>1, <1>2, BoardsBorn

\* A call that begins on a board names one that was shown: by the permission
\* check, or because something of it is kept, or because it is public.
LEMMA NamesShown ==
    ASSUME Typed, RefIntegrity, ShownInv, NEW h \in Handlers,
           \/ BeginOnBoard(h) \/ BeginOnUser(h) \/ BeginLeave(h) \/ BeginRequest(h)
           \/ BeginReply(h) \/ BeginUnarchive(h)
    PROVE  boards[calls'[h].board].known
<1>t. calls \in [Handlers -> Call] /\ Idle \in Call
  BY IdleType DEF Typed, TypeOK
<1>b. ASSUME NEW op, NEW call \in Call, Begin(h, op, call)
      PROVE  calls'[h].board = call.board
  BY <1>b, <1>t DEF Begin, Call
<1>r. \A b \in Boards, r \in boardusers \cup invitations :
          r.board = b => boards[b].known
  BY DEF ShownInv, Blank, RefIntegrity
<1>1. CASE BeginOnBoard(h)
  <2>1. PICK op \in OnBoard, u \in Users, b \in Boards :
            /\ HasAuthority(u, b)
            /\ Begin(h, op, [Idle EXCEPT !.pc = "checked", !.board = b,
                              !.user = IF op = "duplicate" THEN u ELSE None])
    BY <1>1 DEF BeginOnBoard
  <2> DEFINE d == [Idle EXCEPT !.pc = "checked", !.board = b,
                              !.user = IF op = "duplicate" THEN u ELSE None]
  <2>2. d \in Call /\ d.board = b
    BY DEF Idle, Call
  <2> HIDE DEF d
  <2>3. calls'[h].board = b
    BY <2>1, <2>2, <1>b DEF d
  <2> QED
    BY <2>1, <2>3 DEF HasAuthority, Reachable
<1>2. CASE BeginOnUser(h)
  <2>1. PICK op \in OnUser, u \in Users, t \in Users, b \in Boards :
            /\ HasAuthority(u, b)
            /\ Begin(h, op, [Idle EXCEPT !.pc = "checked", !.board = b, !.target = t,
                              !.user = IF op = "invite" THEN u ELSE None])
    BY <1>2 DEF BeginOnUser
  <2> DEFINE d == [Idle EXCEPT !.pc = "checked", !.board = b, !.target = t,
                              !.user = IF op = "invite" THEN u ELSE None]
  <2>2. d \in Call /\ d.board = b
    BY DEF Idle, Call
  <2> HIDE DEF d
  <2>3. calls'[h].board = b
    BY <2>1, <2>2, <1>b DEF d
  <2> QED
    BY <2>1, <2>3 DEF HasAuthority, Reachable
<1>3. CASE BeginLeave(h)
  <2>1. PICK u \in Users, b \in Boards, m \in boardusers :
            /\ Memberships(u, b) = {m}
            /\ Begin(h, "leave", [Idle EXCEPT !.pc = "ready", !.board = b,
                                              !.row = m.uid])
    BY <1>3 DEF BeginLeave
  <2> DEFINE d == [Idle EXCEPT !.pc = "ready", !.board = b, !.row = m.uid]
  <2>2. d \in Call /\ d.board = b
    BY DEF Idle, Call, Typed, TypeOK, BoardUser
  <2> HIDE DEF d
  <2>3. calls'[h].board = b
    BY <2>1, <2>2, <1>b DEF d
  <2>4. m.board = b
    BY <2>1 DEF Memberships
  <2> QED
    BY <1>r, <2>3, <2>4
<1>4. CASE BeginRequest(h)
  <2>1. PICK u \in Users, b \in Boards :
            /\ Live(b)
            /\ boards[b].public
            /\ Begin(h, "request", [Idle EXCEPT !.pc = "checked", !.target = u,
                                                !.board = b])
    BY <1>4 DEF BeginRequest
  <2> DEFINE d == [Idle EXCEPT !.pc = "checked", !.target = u, !.board = b]
  <2>2. d \in Call /\ d.board = b
    BY DEF Idle, Call
  <2> HIDE DEF d
  <2>3. calls'[h].board = b
    BY <2>1, <2>2, <1>b DEF d
  <2> QED
    BY <2>1, <2>3 DEF ShownInv
<1>5. CASE BeginReply(h)
  <2>1. PICK op \in {"accept", "decline"}, t \in mailed, i \in invitations :
            /\ Matching(t) = {i}
            /\ Begin(h, op, [Idle EXCEPT !.pc = "ready", !.user = t.user,
                     !.target = t.recipient, !.board = t.board, !.row = i.uid])
    BY <1>5 DEF BeginReply
  <2> DEFINE d == [Idle EXCEPT !.pc = "ready", !.user = t.user,
                     !.target = t.recipient, !.board = t.board, !.row = i.uid]
  <2>2. d \in Call /\ d.board = t.board
    BY DEF Idle, Call, Typed, TypeOK, Token, Invitation
  <2> HIDE DEF d
  <2>3. calls'[h].board = t.board
    BY <2>1, <2>2, <1>b DEF d
  <2>4. i.board = t.board /\ i.board \in Boards
    BY <2>1 DEF Matching, Typed, TypeOK, Invitation
  <2> QED
    BY <1>r, <2>3, <2>4
<1>6. CASE BeginUnarchive(h)
  <2>1. PICK b \in Boards :
            /\ Reachable(b)
            /\ Begin(h, "unarchive", [Idle EXCEPT !.pc = "ready", !.board = b])
    BY <1>6 DEF BeginUnarchive
  <2> DEFINE d == [Idle EXCEPT !.pc = "ready", !.board = b]
  <2>2. d \in Call /\ d.board = b
    BY DEF Idle, Call
  <2> HIDE DEF d
  <2>3. calls'[h].board = b
    BY <2>1, <2>2, <1>b DEF d
  <2> QED
    BY <2>1, <2>3 DEF Reachable
<1> QED
  BY <1>1, <1>2, <1>3, <1>4, <1>5, <1>6

\* A board is born with nothing kept of it, and nobody has named it before.
LEMMA BornUnnamed ==
    ASSUME Typed, RefIntegrity, CallsBacked, NEW h \in Handlers, Step(h),
           NEW b \in Boards, ~Live(b), Live(b)'
    PROVE  Blank(b)' /\ Unnamed(b)'
<1> DEFINE c == calls[h]
<1>t. calls \in [Handlers -> Call] /\ Idle.pc = "idle"
  BY DEF Typed, TypeOK, Idle
<1>c. c.pc # "idle" => c.board \in Boards
  BY DEF Typed, CallsFilled
<1>b. /\ boards[b].life = "unborn"
      /\ BeginCreate(h) \/ CommitDuplicate(h)
  BY BoardsBorn
<1>r. Blank(b)
  BY DEF RefIntegrity, LiveBoards, Blank
<1>1. Blank(b)'
  <2>1. CASE BeginCreate(h)
    BY <1>r, <2>1 DEF BeginCreate, Blank
  <2>2. CASE CommitDuplicate(h)
    <3>1. c.board \in Boards /\ c.board # b
      BY <1>c, <2>2 DEF CommitDuplicate
    <3>2. audits'[b] = audits[b]
      BY <2>2, <3>1, LoggedElsewhere DEF CommitDuplicate
    <3> QED
      BY <1>r, <2>2, <3>2 DEF CommitDuplicate, Blank
  <2> QED
    BY <1>b, <2>1, <2>2
<1>2. ASSUME NEW g \in Handlers, calls'[g].pc # "idle", calls'[g].board = b
      PROVE  calls'[g].op = "create"
  <2>1. CASE g # h
    <3>1. calls'[g] = calls[g]
      BY <1>t, <2>1, StepFrame
    <3> QED
      BY <1>2, <1>b, <3>1 DEF CallsBacked, Backed
  <2>2. CASE g = h /\ BeginCreate(h)
    BY <1>t, <2>2 DEF BeginCreate, Begin, Idle
  <2>3. CASE g = h /\ CommitDuplicate(h)
    BY <1>2, <1>t, <2>3 DEF CommitDuplicate, Finish
  <2> QED
    BY <1>b, <2>1, <2>2, <2>3
<1> QED
  BY <1>1, <1>2 DEF Unnamed

\* Nothing is filed under a board that only its creation names.
LEMMA StaysBlank ==
    ASSUME Typed, BoardsInv, NEW h \in Handlers, Step(h), NEW b \in Boards,
           Live(b), Live(b)', ~boards'[b].known, Blank(b), Unnamed(b)
    PROVE  Blank(b)'
<1> DEFINE c == calls[h]
<1>1. CASE b # c.board
  <2>1. Untouched(b)
    BY <1>1, StepElsewhere
  <2> QED
    BY <2>1 DEF Untouched, Blank
<1>2. CASE b = c.board
  <2>1. CASE UNCHANGED <<boardusers, requests, invitations, audits, notifications>>
    BY <2>1 DEF Blank
  <2>2. CASE CommitCreate(h)
    <3>1. boards'[b].known
      BY <1>2, <2>2 DEF CommitCreate, Typed, TypeOK, Board
    <3> QED
      BY <3>1
  <2>3. CASE c.pc = "idle" \/ c.op = "create"
    <3>1. CASE BeginOnBoard(h) \/ BeginOnUser(h) \/ Fail(h) \/ BeginCreate(h)
      BY <2>1, <3>1 DEF BeginOnBoard, BeginOnUser, Fail, BeginCreate, tables
    <3>2. CASE MembershipStep(h)
      BY <2>1, <2>3, <3>2 DEF MembershipStep, LoadMember, LoadRequest, CommitRole,
         CommitRemove, BeginLeave, CommitLeave, BeginRequest, CheckNotMember,
         CheckNoRequest, CommitRequest, CommitApprove, CommitReject, tables
    <3>3. CASE InvitationsStep(h)
      BY <2>1, <2>3, <3>3 DEF InvitationsStep, MailInvite, CommitInvite, BeginReply,
         CommitAccept, CommitDecline, tables
    <3>4. CASE LifecycleStep(h)
      BY <2>1, <2>2, <2>3, <3>1, <3>4 DEF LifecycleStep, LoadBoard,
         CommitDuplicate, CommitArchive, BeginUnarchive, CommitUnarchive,
         CommitVisibility, CommitDelete, tables
    <3> QED
      BY <3>1, <3>2, <3>3, <3>4 DEF Step
  <2> QED
    BY <1>2, <2>3 DEF Unnamed
<1> QED
  BY <1>1, <1>2

LEMMA StaysUnnamed ==
    ASSUME Typed, RefIntegrity, ShownInv, NEW h \in Handlers, Step(h), NEW b \in Boards,
           Live(b), ~boards[b].known, Unnamed(b)
    PROVE  Unnamed(b)'
<1>t. calls \in [Handlers -> Call] /\ Idle.pc = "idle"
  BY DEF Typed, TypeOK, Idle
<1> SUFFICES ASSUME NEW g \in Handlers, calls'[g].pc # "idle", calls'[g].board = b
             PROVE  calls'[g].op = "create"
  BY DEF Unnamed
<1>1. CASE g # h
  <2>1. calls'[g] = calls[g]
    BY <1>t, <1>1, StepFrame
  <2> QED
    BY <2>1 DEF Unnamed
<1>2. CASE g = h
  <2>1. CASE calls'[h] = Idle
    BY <1>2, <1>t, <2>1
  <2>2. CASE \/ BeginOnBoard(h) \/ BeginOnUser(h) \/ BeginLeave(h)
             \/ BeginRequest(h) \/ BeginReply(h) \/ BeginUnarchive(h)
    BY <1>2, <2>2, NamesShown
  <2>3. CASE BeginCreate(h)
    BY <1>2, <1>t, <2>3 DEF BeginCreate, Begin, Idle
  <2>4. CASE calls[h].pc # "idle" /\ calls'[h].op = calls[h].op
             /\ calls'[h].board = calls[h].board
    BY <1>2, <2>4 DEF Unnamed
  <2> QED
    BY <2>1, <2>2, <2>3, <2>4, CallSteps
<1> QED
  BY <1>1, <1>2

LEMMA NextShown ==
    DecisionsInv /\ BoardsInv /\ ShownInv /\ [Next]_vars => ShownInv'
<1>1. ShownInv /\ UNCHANGED vars => ShownInv'
  BY DEF vars, ShownInv, Live, Blank, Unnamed
<1>2. ASSUME DecisionsInv, BoardsInv, ShownInv, NEW h \in Handlers, Step(h)
      PROVE  ShownInv'
  <2>i. Typed /\ RefIntegrity /\ CallsBacked
    BY <1>2 DEF DecisionsInv, GrantsInv
  <2> SUFFICES ASSUME NEW b \in Boards, Live(b)', ~boards'[b].known
               PROVE  ~boards'[b].public /\ Blank(b)' /\ Unnamed(b)'
    BY DEF ShownInv
  <2>1. CASE ~Live(b)
    BY <1>2, <2>i, <2>1, BornBlank, BornUnnamed
  <2>2. CASE Live(b)
    <3>1. ~boards[b].known /\ (boards'[b].public => boards[b].public)
      BY <1>2, <2>i, <2>2, StaysKnown
    <3>2. ~boards[b].public /\ Blank(b) /\ Unnamed(b)
      BY <1>2, <2>2, <3>1 DEF ShownInv
    <3> QED
      BY <1>2, <2>i, <2>2, <3>1, <3>2, StaysBlank, StaysUnnamed
  <2> QED
    BY <2>1, <2>2
<1> QED
  BY <1>1, <1>2 DEF Next

-----------------------------------------------------------------------------
(* The creator and his board *)

\* CreatorsAreMembers, of one board with a creation in its log.
Listed(b) ==
    audits[b]["board_created"] > 0 /\ Ended(b) = 0
        => Memberships(boards[b].owner, b) # {}

LEMMA StepCreators ==
    ASSUME DecisionsInv, BoardsInv, NEW b \in Boards, Live(b) => Listed(b),
           NEW h \in Handlers, Step(h), Live(b)'
    PROVE  Listed(b)'
<1> DEFINE c == calls[h]
           ledger == {"board_created", "member_removed", "member_left"}
<1>i. Typed /\ RefIntegrity /\ KeysUnique /\ Backed(c)
  BY DEF DecisionsInv, GrantsInv, CallsBacked
<1>c. c.pc # "idle" => c.board \in Boards
  BY <1>i DEF Typed, CallsFilled
<1>n. \A a \in ledger : a \in AuditAction /\ audits[b][a] \in Nat
  BY <1>i DEF AuditAction, Typed, TypeOK
<1>o. Live(b) => boards'[b].owner = boards[b].owner
  <2>1. Evolves
    BY <1>i, StepEvolves
  <2> QED
    BY <2>1 DEF Evolves, Live
<1>1. CASE ~Live(b)
  <2>1. audits[b] = NoAudits
    BY <1>1, <1>i DEF RefIntegrity, LiveBoards
  <2>2. CASE BeginCreate(h)
    BY <1>n, <2>1, <2>2 DEF BeginCreate, NoAudits, Listed
  <2>3. CASE CommitDuplicate(h)
    <3>1. c.board \in Boards /\ c.board # b
      BY <1>1, <1>c, <2>3 DEF CommitDuplicate
    <3>2. audits'[b] = audits[b]
      BY <1>i, <2>3, <3>1, LoggedElsewhere DEF CommitDuplicate
    <3> QED
      BY <1>n, <2>1, <3>2 DEF NoAudits, Listed
  <2> QED
    BY <1>1, <1>i, <2>2, <2>3, BoardsBorn
<1>2. CASE Live(b) /\ b # c.board
  <2>1. Untouched(b)
    BY <1>2, <1>i, StepElsewhere
  <2>2. Memberships(boards[b].owner, b)' = Memberships(boards[b].owner, b)
    BY <1>o, <1>2, <2>1 DEF Untouched, Memberships
  <2> QED
    BY <1>2, <2>1, <2>2 DEF Untouched, Listed, Ended
<1>3. CASE Live(b) /\ b = c.board
  <2>1. ~CommitDelete(h)
    BY <1>3, <1>i DEF CommitDelete, NoBoard, Live, Typed, TypeOK
  <2>2. CASE CommitCreate(h)
    <3> DEFINE m == [uid |-> FreshUid, user |-> c.user, board |-> c.board,
                     role |-> "owner"]
    <3>1. m \in boardusers' /\ m.user = c.user /\ m.board = b
      BY <1>3, <2>2 DEF CommitCreate
    <3> HIDE DEF m
    <3>2. c.user = boards[b].owner
      BY <1>3, <1>i, <2>2 DEF CommitCreate, Backed
    <3> QED
      BY <1>3, <1>o, <3>1, <3>2 DEF Listed, Memberships
  <2>3. CASE CommitRemove(h) \/ CommitLeave(h)
    <3>1. Ended(b)' > 0
      <4>1. CASE CommitRemove(h)
        <5>1. ~CommitLeave(h)
          BY <4>1 DEF CommitRemove, CommitLeave
        <5>2. audits'[b]["member_left"] = audits[b]["member_left"]
          BY <1>i, <2>1, <5>1, BooksOf
        <5>3. audits'[b]["member_removed"] = audits[b]["member_removed"] + 1
          BY <1>3, <1>i, <1>n, <4>1, LoggedExactly DEF CommitRemove
        <5> QED
          BY <1>n, <5>2, <5>3 DEF Ended
      <4>2. CASE CommitLeave(h)
        <5>1. ~CommitRemove(h)
          BY <4>2 DEF CommitRemove, CommitLeave
        <5>2. audits'[b]["member_removed"] = audits[b]["member_removed"]
          BY <1>i, <2>1, <5>1, BooksOf
        <5>3. audits'[b]["member_left"] = audits[b]["member_left"] + 1
          BY <1>3, <1>i, <1>n, <4>2, LoggedExactly DEF CommitLeave
        <5> QED
          BY <1>n, <5>2, <5>3 DEF Ended
      <4> QED
        BY <2>3, <4>1, <4>2
    <3> QED
      BY <3>1 DEF Listed
  <2>4. CASE ~CommitCreate(h) /\ ~CommitRemove(h) /\ ~CommitLeave(h)
    <3>1. audits'[b]["board_created"] = audits[b]["board_created"] /\ Ended(b)' = Ended(b)
      BY <1>i, <2>1, <2>4, BooksOf DEF Ended
    <3>2. ASSUME NEW m \in Memberships(boards[b].owner, b)
          PROVE  Memberships(boards[b].owner, b)' # {}
      <4>1. CASE boardusers \subseteq boardusers'
        BY <1>3, <1>o, <4>1 DEF Memberships
      <4>2. CASE CommitRole(h) /\ boardusers' # boardusers
        <5>1. PICK role \in UserRole : \E n \in boardusers :
                  /\ n.uid = c.row
                  /\ boardusers' = Without(c.row) \cup {[n EXCEPT !.role = role]}
          BY <4>2 DEF CommitRole
        <5>2. m \in boardusers' \/ [m EXCEPT !.role = role] \in boardusers'
          BY <1>i, <5>1 DEF KeysUnique, Without, Memberships
        <5>3. /\ [m EXCEPT !.role = role].user = m.user
              /\ [m EXCEPT !.role = role].board = m.board
          BY <1>i DEF Typed, TypeOK, BoardUser, Memberships
        <5> QED
          BY <1>3, <1>o, <5>2, <5>3 DEF Memberships
      <4>3. CASE CommitApprove(h) \/ CommitAccept(h)
        <5>1. boardusers \subseteq boardusers'
          BY <4>3 DEF CommitApprove, CommitAccept
        <5> QED
          BY <4>1, <5>1
      <4> QED
        BY <2>1, <2>4, <4>1, <4>2, <4>3, WritesMembers
    <3> QED
      BY <1>3, <3>1, <3>2 DEF Listed
  <2> QED
    BY <2>2, <2>3, <2>4
<1> QED
  BY <1>1, <1>2, <1>3

ListedInv == \A b \in Boards : Live(b) => Listed(b)

\* A creation in the log comes with the membership of the owner, and nothing but
\* a removal or a departure, each of them logged, takes that back; a board without
\* one was shown to everybody, or only the call that is creating it names it.
THEOREM CreatorsStay == Spec => []CreatorsAreMembers
<1>1. Init => ListedInv
  BY DEF Init, ListedInv, Live, NoBoard
<1>2. DecisionsInv /\ BoardsInv /\ ListedInv /\ [Next]_vars => ListedInv'
  <2>1. ListedInv /\ UNCHANGED vars => ListedInv'
    BY DEF vars, ListedInv, Listed, Ended, Live, Memberships
  <2>2. ASSUME DecisionsInv, BoardsInv, ListedInv, NEW h \in Handlers, Step(h)
        PROVE  ListedInv'
    <3> SUFFICES ASSUME NEW b \in Boards, Live(b)' PROVE Listed(b)'
      BY DEF ListedInv
    <3>1. Live(b) => Listed(b)
      BY <2>2 DEF ListedInv
    <3> QED
      BY <2>2, <3>1, StepCreators
  <2> QED
    BY <2>1, <2>2 DEF Next
<1>3. DecisionsInv /\ BoardsInv /\ [Next]_vars => BoardsInv'
  BY NextOnBoards DEF DecisionsInv, GrantsInv
<1>4. ListedInv /\ ShownInv => CreatorsAreMembers
  BY DEF ListedInv, ShownInv, CreatorsAreMembers, LiveBoards, Listed, Ended
<1> QED
  BY <1>1, <1>2, <1>3, <1>4, InitDecisions, NextDecisions, InitOnBoards, InitShown,
     NextShown, PTL DEF Spec

-----------------------------------------------------------------------------
(* Invitations and their notifications *)

Open(u, b) == {i \in invitations : i.recipient = u /\ i.board = b}

LinkSent(u, v, b) == [user |-> u, recipient |-> v, board |-> b] \in mailed

\* Each open invitation has a link, and a notification of its own; the handler
\* about to commit one has queued its mail.
InvitesInv ==
    /\ IsFiniteSet(invitations)
    /\ \A u \in Users, b \in Boards :
          Cardinality(Open(u, b)) <= notifications[b][u]["invite_received"]
    /\ \A i \in invitations : LinkSent(i.user, i.recipient, i.board)
    /\ \A g \in Handlers :
          calls[g].pc = "ready" /\ calls[g].op = "invite"
              => LinkSent(calls[g].user, calls[g].target, calls[g].board)

LEMMA StepInvites ==
    ASSUME DecisionsInv, InvitesInv, NEW h \in Handlers, Step(h)
    PROVE  InvitesInv'
<1> DEFINE c == calls[h]
           new == [uid |-> FreshUid, user |-> c.user, recipient |-> c.target,
                   board |-> c.board]
<1>i. Typed /\ Typed' /\ IsFiniteSet(invitations)
  BY NextTyped DEF DecisionsInv, GrantsInv, InvitesInv, Next
<1>c. c.pc # "idle" => c.board \in Boards
  BY <1>i DEF Typed, CallsFilled
<1>t. /\ "invite_received" \in NotificationType
      /\ \A u \in Users, b \in Boards :
            /\ notifications[b][u]["invite_received"] \in Nat
            /\ notifications'[b][u]["invite_received"] \in Nat
  BY <1>i DEF NotificationType, Typed, TypeOK
<1>n. CommitInvite(h) => /\ invitations' = invitations \cup {new}
                         /\ new \notin invitations
                         /\ new.recipient = c.target /\ new.board = c.board
  <2> SUFFICES ASSUME CommitInvite(h) PROVE /\ invitations' = invitations \cup {new}
                                            /\ new \notin invitations
    OBVIOUS
  <2>1. Fresh(FreshUid)
    BY FreshKey DEF CommitInvite
  <2>2. new.uid = FreshUid
    OBVIOUS
  <2>3. invitations' = invitations \cup {new}
    BY DEF CommitInvite
  <2> HIDE DEF new
  <2> QED
    BY <2>1, <2>2, <2>3 DEF Fresh
<1>m. mailed \subseteq mailed'
  BY <1>i, StepFrame
<1>1. IsFiniteSet(invitations')
  <2>1. CASE CommitInvite(h)
    <3> HIDE DEF new
    <3> QED
      BY <2>1, <1>i, <1>n, FS_AddElement
  <2>2. CASE ~CommitInvite(h)
    BY <2>2, <1>i, InvitationsFall, FS_Subset
  <2> QED
    BY <2>1, <2>2
<1>2. ASSUME NEW u \in Users, NEW b \in Boards
      PROVE  Cardinality(Open(u, b)') <= notifications'[b][u]["invite_received"]
  <2>1. /\ IsFiniteSet(Open(u, b)) /\ IsFiniteSet(Open(u, b)')
        /\ Cardinality(Open(u, b)) \in Nat /\ Cardinality(Open(u, b)') \in Nat
    BY <1>i, <1>1, FS_Subset, FS_CardinalityType DEF Open
  <2>2. Cardinality(Open(u, b)) <= notifications[b][u]["invite_received"]
    BY DEF InvitesInv
  <2>3. CASE CommitDelete(h)
    <3>1. CASE b = c.board
      <4>1. Open(u, b)' = {}
        BY <2>3, <3>1 DEF CommitDelete, Open
      <4> QED
        BY <4>1, <1>t, FS_EmptySet
    <3>2. CASE b # c.board
      <4>1. Open(u, b)' = Open(u, b)
        BY <2>3, <3>2 DEF CommitDelete, Open
      <4>2. notifications'[b] = notifications[b]
        BY <2>3, <3>2, <1>i DEF CommitDelete, Typed, TypeOK
      <4> QED
        BY <2>2, <4>1, <4>2
    <3> QED
      BY <3>1, <3>2
  <2>4. CASE CommitInvite(h) /\ c.target = u /\ c.board = b
    <3> HIDE DEF new
    <3>1. Open(u, b)' = Open(u, b) \cup {new} /\ new \notin Open(u, b)
      BY <2>4, <1>n DEF Open
    <3>2. Cardinality(Open(u, b)') = Cardinality(Open(u, b)) + 1
      BY <2>1, <3>1, FS_AddElement
    <3>3. notifications'[b][u]["invite_received"] =
              notifications[b][u]["invite_received"] + 1
      BY <2>4, <1>i, <1>t, NotifiedExactly DEF CommitInvite
    <3> QED
      BY <2>1, <2>2, <3>2, <3>3, <1>t
  <2>5. CASE /\ ~CommitDelete(h)
             /\ CommitInvite(h) => c.target # u \/ c.board # b
    <3> HIDE DEF new
    <3>1. Open(u, b)' \subseteq Open(u, b)
      BY <2>5, <1>n, InvitationsFall DEF Open
    <3>2. Cardinality(Open(u, b)') <= Cardinality(Open(u, b))
      BY <2>1, <3>1, FS_Subset
    <3>3. notifications[b][u]["invite_received"] <=
              notifications'[b][u]["invite_received"]
      BY <2>5, <1>i, <1>c, <1>t, NotifiesOf, NotifiedExactly
    <3> QED
      BY <2>1, <2>2, <3>2, <3>3, <1>t
  <2> QED
    BY <2>3, <2>4, <2>5
<1>3. ASSUME NEW i \in invitations'
      PROVE  LinkSent(i.user, i.recipient, i.board)'
  <2>1. CASE i \in invitations
    BY <2>1, <1>m DEF InvitesInv, LinkSent
  <2>2. CASE i \notin invitations
    <3>1. CommitInvite(h)
      BY <2>2, InvitationsFall
    <3>2. i = new
      BY <2>2, <3>1, <1>n
    <3>3. LinkSent(c.user, c.target, c.board)
      BY <3>1 DEF CommitInvite, InvitesInv
    <3> QED
      BY <3>2, <3>3, <1>m DEF LinkSent
  <2> QED
    BY <2>1, <2>2
<1>4. ASSUME NEW g \in Handlers, calls'[g].pc = "ready", calls'[g].op = "invite"
      PROVE  LinkSent(calls[g].user, calls[g].target, calls[g].board)'
  <2>1. CASE g # h
    <3>1. calls'[g] = calls[g]
      BY <2>1, <1>i, StepFrame DEF Typed, TypeOK
    <3> QED
      BY <3>1, <1>4, <1>m DEF InvitesInv, LinkSent
  <2>2. CASE g = h
    <3>1. MailInvite(h)
      BY <2>2, <1>4, <1>i, GetsReady
    <3>2. /\ calls'[h].user = c.user /\ calls'[h].target = c.target
          /\ calls'[h].board = c.board
      BY <3>1, <1>i DEF MailInvite, Typed, TypeOK, Call
    <3> QED
      BY <2>2, <3>1, <3>2 DEF MailInvite, LinkSent
  <2> QED
    BY <2>1, <2>2
<1> QED
  BY <1>1, <1>2, <1>3, <1>4 DEF InvitesInv

LEMMA InitInvites == Init => InvitesInv
<1> SUFFICES ASSUME Init PROVE InvitesInv
  OBVIOUS
<1>1. \A u \in Users, b \in Boards : /\ Open(u, b) = {}
                                     /\ notifications[b][u]["invite_received"] = 0
  BY DEF Init, Open, NoNotifications, NotificationType
<1>2. \A g \in Handlers : calls[g].pc = "idle"
  BY DEF Init, Idle
<1> QED
  BY <1>1, <1>2, FS_EmptySet DEF Init, InvitesInv

LEMMA NextInvites == DecisionsInv /\ InvitesInv /\ [Next]_vars => InvitesInv'
<1>1. DecisionsInv /\ InvitesInv /\ UNCHANGED vars => InvitesInv'
  BY DEF vars, tables, InvitesInv, Open, LinkSent
<1> QED
  BY <1>1, StepInvites DEF Next

\* Whoever is invited has been told so, once for each invitation that is still
\* open, and a link that answers it is on its way: before the commit, not after.
THEOREM InvitationsReach == Spec => []InvitationReachesRecipient
<1>1. DecisionsInv /\ InvitesInv => InvitationReachesRecipient
  <2> SUFFICES ASSUME DecisionsInv, InvitesInv, NEW i \in invitations
               PROVE  /\ \E t \in mailed : i \in Matching(t)
                      /\ Cardinality(Open(i.recipient, i.board)) <=
                             notifications[i.board][i.recipient]["invite_received"]
    BY DEF InvitationReachesRecipient, Open
  <2>1. i.recipient \in Users /\ i.board \in Boards
    BY DEF DecisionsInv, GrantsInv, Typed, TypeOK, Invitation
  <2>2. LinkSent(i.user, i.recipient, i.board)
    BY DEF InvitesInv
  <2> QED
    BY <2>1, <2>2 DEF InvitesInv, LinkSent, Matching
<1> QED
  BY <1>1, InitInvites, NextInvites, InitDecisions, NextDecisions, PTL DEF Spec

-----------------------------------------------------------------------------
(* Users with two memberships *)

\* No key of a membership is a key of another table, nor a key of an invitation
\* one of a request or of another invitation.
KeysApart ==
    /\ \A m \in boardusers : /\ \A r \in requests : r.uid # m.uid
                             /\ \A i \in invitations : i.uid # m.uid
    /\ \A i \in invitations : /\ \A r \in requests : r.uid # i.uid
                              /\ \A j \in invitations : i.uid = j.uid => i = j

\* A step gives new keys to one table only.
LEMMA OneTableGrows ==
    ASSUME Typed, NEW h \in Handlers, Step(h)
    PROVE  \/ /\ boardusers' = boardusers
              /\ invitations' \subseteq invitations
           \/ boardusers' = boardusers /\ requests' = requests
           \/ /\ \A r \in requests' : \E s \in requests : r.uid = s.uid
              /\ invitations' \subseteq invitations
<1>1. CASE CommitRequest(h) \/ CommitInvite(h)
  BY <1>1 DEF CommitRequest, CommitInvite
<1>2. CASE ~CommitRequest(h) /\ ~CommitInvite(h)
  <2>1. invitations' \subseteq invitations
    BY <1>2, InvitationsFall
  <2>2. CASE requests' \subseteq requests
    BY <2>1, <2>2
  <2>3. CASE CommitApprove(h) \/ CommitReject(h)
    <3>1. \/ requests' = requests
          \/ \E status \in Decision : requests' = SetStatus(calls[h].row, status)
      BY <2>3 DEF CommitApprove, CommitReject, Decision
    <3> QED
      BY <2>1, <3>1, SetStatusDecides DEF SameRow
  <2>4. CASE CommitDelete(h)
    BY <2>2, <2>4 DEF CommitDelete
  <2> QED
    BY <1>2, <2>2, <2>3, <2>4, WritesRequests
<1> QED
  BY <1>1, <1>2

LEMMA StepKeysApart ==
    ASSUME Typed, KeysUnique, KeysApart, NEW h \in Handlers, Step(h)
    PROVE  KeysApart'
<1>1. \A m \in boardusers' : Fresh(m.uid) \/ \E n \in boardusers : m.uid = n.uid
  BY StepMemberRows DEF MembersEvolve, SameRow
<1>2. \A r \in requests' : Fresh(r.uid) \/ \E s \in requests : r.uid = s.uid
  BY StepRequestRows DEF RequestsEvolve, SameRow
<1>3. \A i \in invitations' : i \in invitations \/ Fresh(i.uid)
  BY InvitationRows
<1>u. \A i, j \in invitations' : i.uid = j.uid => i = j
  <2>1. CASE CommitInvite(h)
    <3>1. /\ \A i \in invitations' : i \in invitations \/ i.uid = FreshUid
          /\ \A i, j \in invitations' \ invitations : i = j
      BY <2>1 DEF CommitInvite
    <3>2. Fresh(FreshUid)
      BY <2>1, FreshKey DEF CommitInvite
    <3> QED
      BY <3>1, <3>2 DEF Fresh, KeysApart
  <2>2. CASE ~CommitInvite(h)
    BY <2>2, InvitationsFall DEF KeysApart
  <2> QED
    BY <2>1, <2>2
<1>4. CASE /\ boardusers' = boardusers
           /\ invitations' \subseteq invitations \/ requests' = requests
  BY <1>2, <1>3, <1>4, <1>u DEF KeysApart, Fresh
<1>5. CASE /\ \A r \in requests' : \E s \in requests : r.uid = s.uid
           /\ invitations' \subseteq invitations
  BY <1>1, <1>5, <1>u DEF KeysApart, Fresh
<1> QED
  BY <1>4, <1>5, OneTableGrows

LEMMA InitApart == Init => KeysApart
BY DEF Init, KeysApart

LEMMA NextApart == DecisionsInv /\ KeysApart /\ [Next]_vars => KeysApart'
<1>1. KeysApart /\ UNCHANGED vars => KeysApart'
  BY DEF vars, tables, KeysApart
<1> QED
  BY <1>1, StepKeysApart DEF Next, DecisionsInv, GrantsInv

\* While the board lives, the memberships of a stuck user stay as they are; a
\* new one has a key of its own.
LEMMA StuckRows ==
    ASSUME Typed, KeysUnique, NEW u \in Users, NEW b \in Boards, Stuck(u, b),
           NEW h \in Handlers, Step(h), Live(b)'
    PROVE  /\ Memberships(u, b) \subseteq Memberships(u, b)'
           /\ \A n \in Memberships(u, b)' : n \in Memberships(u, b) \/ Fresh(n.uid)
<1> DEFINE c == calls[h]
<1>s. \A m \in Memberships(u, b) : c.row # m.uid
  BY DEF Stuck
<1>1. CASE boardusers' = boardusers
  BY <1>1 DEF Memberships
<1>2. CASE CommitRole(h)
  <2>1. PICK role \in UserRole :
            \/ boardusers' = boardusers
            \/ \E m \in boardusers :
                 /\ m.uid = c.row
                 /\ boardusers' = Without(c.row) \cup {[m EXCEPT !.role = role]}
    BY <1>2 DEF CommitRole
  <2>2. ASSUME NEW m \in boardusers, m.uid = c.row,
               boardusers' = Without(c.row) \cup {[m EXCEPT !.role = role]}
        PROVE  Memberships(u, b)' = Memberships(u, b)
    <3> DEFINE n == [m EXCEPT !.role = role]
    <3>1. n.user = m.user /\ n.board = m.board
      BY DEF Typed, TypeOK, BoardUser
    <3>2. m \notin Memberships(u, b)
      BY <1>s, <2>2
    <3>3. n.user # u \/ n.board # b
      BY <3>1, <3>2 DEF Memberships
    <3>4. boardusers' = Without(c.row) \cup {n}
      BY <2>2
    <3> HIDE DEF n
    <3> QED
      BY <1>s, <3>3, <3>4 DEF Memberships, Without
  <2> QED
    BY <1>1, <2>1, <2>2
<1>3. CASE CommitRemove(h) \/ CommitLeave(h)
  <2>1. boardusers' = Without(c.row)
    BY <1>3 DEF CommitRemove, CommitLeave
  <2> QED
    BY <1>s, <2>1 DEF Memberships, Without
<1>4. CASE CommitApprove(h) \/ CommitAccept(h) \/ CommitCreate(h)
  <2>1. /\ boardusers \subseteq boardusers'
        /\ \A m \in boardusers' \ boardusers : m.uid = FreshUid
    BY <1>4 DEF CommitApprove, CommitAccept, CommitCreate
  <2>2. Fresh(FreshUid)
    BY <1>4, FreshKey DEF CommitApprove, CommitAccept, CommitCreate
  <2> QED
    BY <2>1, <2>2 DEF Memberships
<1>5. CASE CommitDelete(h)
  <2>1. b # c.board
    BY <1>5 DEF CommitDelete, NoBoard, Live, Typed, TypeOK
  <2> QED
    BY <1>5, <2>1 DEF CommitDelete, Memberships
<1> QED
  BY <1>1, <1>2, <1>3, <1>4, <1>5, WritesMembers

LEMMA StuckStays ==
    ASSUME Typed, KeysUnique, KeysApart, NEW u \in Users, NEW b \in Boards,
           Stuck(u, b), NEW h \in Handlers, Step(h), Live(b)'
    PROVE  Stuck(u, b)' /\ Memberships(u, b) \subseteq Memberships(u, b)'
<1>1. /\ Memberships(u, b) \subseteq Memberships(u, b)'
      /\ \A n \in Memberships(u, b)' : n \in Memberships(u, b) \/ Fresh(n.uid)
  BY StuckRows
<1>2. ASSUME NEW g \in Handlers, NEW n \in Memberships(u, b)'
      PROVE  calls'[g].row # n.uid
  <2>1. calls[g].row # n.uid
    BY <1>1 DEF Stuck, Fresh
  <2>2. CASE g # h
    <3>1. calls'[g] = calls[g]
      BY <2>2, StepFrame DEF Typed, TypeOK
    <3> QED
      BY <2>1, <3>1
  <2>3. CASE g = h
    <3>1. n.uid # None
      <4>1. Typed'
        BY NextTyped DEF Next
      <4> QED
        BY <4>1, NoneAssumption DEF Typed, TypeOK, BoardUser, Memberships
    <3>2. \A v, d : \A m \in boardusers : Memberships(v, d) = {m} => n.uid # m.uid
      <4> SUFFICES ASSUME NEW v, NEW d, NEW m \in boardusers,
                          Memberships(v, d) = {m}, n.uid = m.uid
                   PROVE  FALSE
        OBVIOUS
      <4>1. n = m /\ n \in Memberships(u, b)
        BY <1>1 DEF Fresh, KeysUnique, Memberships
      <4>2. v = u /\ d = b
        BY <4>1 DEF Memberships
      <4> QED
        BY <4>2 DEF Stuck, AtMostOne
    <3>3. /\ \A r \in requests : n.uid # r.uid
          /\ \A i \in invitations : n.uid # i.uid
      BY <1>1 DEF Fresh, KeysApart, Memberships
    <3> QED
      BY <2>1, <2>3, <3>1, <3>2, <3>3, RowLoaded
  <2> QED
    BY <2>2, <2>3
<1> QED
  BY <1>1, <1>2 DEF Stuck, AtMostOne

\* A user whom two concurrent grants have made a member twice, and whose rows no
\* handler has loaded, cannot leave, be removed or have a role changed any more:
\* both rows stay until the board is deleted.
THEOREM DuplicatesStay == Spec => DuplicateIsPermanent
<1> DEFINE A == \A u \in Users, b \in Boards :
                  Stuck(u, b) => \/ ~Live(b)'
                                 \/ /\ Stuck(u, b)'
                                    /\ Memberships(u, b) \subseteq Memberships(u, b)'
<1>1. DecisionsInv /\ KeysApart /\ [Next]_vars => [A]_vars
  BY StuckStays DEF Next, DecisionsInv, GrantsInv
<1> QED
  BY <1>1, InitApart, NextApart, InitDecisions, NextDecisions, PTL DEF Spec, DuplicateIsPermanent

-----------------------------------------------------------------------------
(* Links that two invitations answer to *)

\* While the board lives, the invitations of an ambiguous link stay as they are;
\* a new one has a key of its own.
LEMMA AmbiguousRows ==
    ASSUME Typed, NEW t \in mailed, Ambiguous(t), NEW h \in Handlers, Step(h),
           Live(t.board)'
    PROVE  /\ Matching(t) \subseteq Matching(t)'
           /\ \A j \in Matching(t)' : j \in Matching(t) \/ Fresh(j.uid)
<1> DEFINE c == calls[h]
<1>1. \A j \in Matching(t)' : j \in Matching(t) \/ Fresh(j.uid)
  BY InvitationRows DEF Matching
<1>2. ASSUME NEW i \in Matching(t) PROVE i \in invitations'
  <2>1. i \in invitations /\ i.board = t.board /\ c.row # i.uid
    BY DEF Ambiguous, Matching
  <2>2. CASE CommitAccept(h) \/ CommitDecline(h)
    BY <2>1, <2>2 DEF CommitAccept, CommitDecline
  <2>3. CASE CommitDelete(h)
    <3>1. t.board # c.board
      BY <2>3 DEF CommitDelete, NoBoard, Live, Typed, TypeOK, Token
    <3> QED
      BY <2>1, <2>3, <3>1 DEF CommitDelete
  <2>4. CASE CommitInvite(h) \/ invitations' = invitations
    BY <2>1, <2>4 DEF CommitInvite
  <2> QED
    BY <2>2, <2>3, <2>4, WritesInvitations
<1> QED
  BY <1>1, <1>2 DEF Matching

LEMMA AmbiguousStays ==
    ASSUME Typed, KeysApart, NEW t \in mailed, Ambiguous(t), NEW h \in Handlers,
           Step(h), Live(t.board)'
    PROVE  Ambiguous(t)' /\ Matching(t) \subseteq Matching(t)'
<1>1. /\ Matching(t) \subseteq Matching(t)'
      /\ \A j \in Matching(t)' : j \in Matching(t) \/ Fresh(j.uid)
  BY AmbiguousRows
<1>2. ASSUME NEW g \in Handlers, NEW j \in Matching(t)'
      PROVE  calls'[g].row # j.uid
  <2>1. calls[g].row # j.uid
    BY <1>1 DEF Ambiguous, Fresh
  <2>2. CASE g # h
    <3>1. calls'[g] = calls[g]
      BY <2>2, StepFrame DEF Typed, TypeOK
    <3> QED
      BY <2>1, <3>1
  <2>3. CASE g = h
    <3>1. j.uid # None
      <4>1. Typed'
        BY NextTyped DEF Next
      <4> QED
        BY <4>1, NoneAssumption DEF Typed, TypeOK, Invitation, Matching
    <3>2. \A k : \A i \in invitations : Matching(k) = {i} => j.uid # i.uid
      <4> SUFFICES ASSUME NEW k, NEW i \in invitations, Matching(k) = {i},
                          j.uid = i.uid
                   PROVE  FALSE
        OBVIOUS
      <4>1. j = i /\ j \in Matching(t)
        BY <1>1 DEF Fresh, KeysApart, Matching
      <4>2. Matching(t) = Matching(k)
        BY <4>1 DEF Matching
      <4> QED
        BY <4>2 DEF Ambiguous, AtMostOne
    <3>3. /\ \A m \in boardusers : j.uid # m.uid
          /\ \A r \in requests : j.uid # r.uid
      BY <1>1 DEF Fresh, KeysApart, Matching
    <3> QED
      BY <2>1, <2>3, <3>1, <3>2, <3>3, RowLoaded
  <2> QED
    BY <2>2, <2>3
<1> QED
  BY <1>1, <1>2 DEF Ambiguous, AtMostOne

\* A second invitation of the same sender spoils the link of the first for good:
\* it can neither be accepted nor declined any more, and both invitations stay
\* until the board itself is deleted.
THEOREM SecondInvitationsStay == Spec => SecondInvitationIsPermanent
<1> DEFINE A == \A t \in mailed :
                  Ambiguous(t) => \/ ~Live(t.board)'
                                  \/ /\ Ambiguous(t)'
                                     /\ Matching(t) \subseteq Matching(t)'
<1>1. DecisionsInv /\ KeysApart /\ [Next]_vars => [A]_vars
  BY AmbiguousStays DEF Next, DecisionsInv, GrantsInv
<1> QED
  BY <1>1, InitApart, NextApart, InitDecisions, NextDecisions, PTL
     DEF Spec, SecondInvitationIsPermanent

-----------------------------------------------------------------------------
(* Rows that several handlers have loaded at the same time.  Whichever of     *)
(* them commits first deletes the row; the others still do what they would    *)
(* have done with it, once each, and no handler loads it any more.            *)

\* Each of "rows" may still be used once by every handler, each of the handlers
\* "late", which loaded a row that has gone, once more: with what was "done" this
\* is no more than once in every handler for all there ever were to use.
Covered(rows, done, late, all) ==
    Cardinality(Handlers) * rows + done + late <= Cardinality(Handlers) * all

\* What changes the four: a row used and gone, a row gone unused, a row used that
\* had gone, and a new row.
LEMMA CoveredStill ==
    ASSUME NEW e \in Nat, NEW d \in Nat, NEW l \in Nat, NEW m \in Nat, NEW k \in Nat
    PROVE  /\ Covered(e + 1, d, l, k) /\ m + 1 <= Cardinality(Handlers)
                  => Covered(e, d + 1, m, k)
           /\ Covered(e + 1, d, l, k) /\ m <= Cardinality(Handlers)
                  => Covered(e, d, m, k)
           /\ Covered(e, d, l, k) /\ m + 1 <= l => Covered(e, d + 1, m, k)
           /\ Covered(e, d, l, k) /\ m <= l => Covered(e + 1, d, m, k + 1)
           /\ Covered(e, d, l, k) /\ m <= l => Covered(e, d, m, k)
           /\ Covered(e, d, l, k) => d <= Cardinality(Handlers) * k
           /\ Covered(0, 0, 0, 0)
<1> DEFINE n == Cardinality(Handlers)
<1>1. n \in Nat
  BY HandlersAssumption, FS_CardinalityType
<1> HIDE DEF n
<1>2. /\ n * e \in Nat /\ n * k \in Nat /\ n * 0 = 0
      /\ n * (e + 1) = n * e + n /\ n * (k + 1) = n * k + n
  BY <1>1
<1> DEFINE p == n * e
           q == n * k
<1>3. p \in Nat /\ q \in Nat /\ n * (e + 1) = p + n /\ n * (k + 1) = q + n
  BY <1>2
<1>4. \A x, y : /\ Covered(e + 1, x, y, k) <=> p + n + x + y <= q
                /\ Covered(e + 1, x, y, k + 1) <=> p + n + x + y <= q + n
                /\ Covered(e, x, y, k) <=> p + x + y <= q
  BY <1>3 DEF Covered, n
<1>5. Covered(0, 0, 0, 0)
  BY <1>2 DEF Covered, n
<1>6. n = Cardinality(Handlers) /\ q = Cardinality(Handlers) * k
  BY DEF n
<1> HIDE DEF p, q
<1> QED
  BY <1>1, <1>3, <1>4, <1>5, <1>6

LEMMA HandlersCounted ==
    ASSUME NEW S \in SUBSET Handlers, NEW T \in SUBSET Handlers, NEW h \in Handlers
    PROVE  /\ Cardinality(S) \in Nat /\ Cardinality(T) \in Nat
           /\ Cardinality(Handlers) \in Nat
           /\ Cardinality(T) <= Cardinality(Handlers)
           /\ h \notin T => Cardinality(T) + 1 <= Cardinality(Handlers)
           /\ T \subseteq S => Cardinality(T) <= Cardinality(S)
           /\ T \subseteq S \ {h} /\ h \in S => Cardinality(T) + 1 <= Cardinality(S)
<1>1. /\ IsFiniteSet(S) /\ IsFiniteSet(T) /\ IsFiniteSet(Handlers)
      /\ Cardinality(S) \in Nat /\ Cardinality(T) \in Nat
      /\ Cardinality(Handlers) \in Nat
  BY HandlersAssumption, FS_Subset, FS_CardinalityType
<1>2. T \subseteq S => Cardinality(T) <= Cardinality(S)
  BY <1>1, FS_Subset
<1>3. Cardinality(T) <= Cardinality(Handlers)
  BY <1>1, FS_Subset
<1>4. ASSUME h \notin T PROVE Cardinality(T) + 1 <= Cardinality(Handlers)
  <2>1. /\ IsFiniteSet(Handlers \ {h})
        /\ Cardinality(Handlers \ {h}) = Cardinality(Handlers) - 1
    BY <1>1, FS_RemoveElement
  <2>2. Cardinality(T) <= Cardinality(Handlers \ {h})
    BY <1>4, <2>1, FS_Subset
  <2> QED
    BY <1>1, <2>1, <2>2
<1>5. ASSUME T \subseteq S \ {h}, h \in S
      PROVE  Cardinality(T) + 1 <= Cardinality(S)
  <2>1. /\ IsFiniteSet(S \ {h}) /\ Cardinality(S \ {h}) = Cardinality(S) - 1
    BY <1>1, <1>5, FS_RemoveElement
  <2>2. Cardinality(T) <= Cardinality(S \ {h})
    BY <1>5, <2>1, FS_Subset
  <2> QED
    BY <1>1, <2>1, <2>2
<1> QED
  BY <1>1, <1>2, <1>3, <1>4, <1>5

\* The handlers that are about to end a membership of b that has ended.
Leaving(b) ==
    {g \in Handlers : /\ calls[g].pc = "ready"
                      /\ calls[g].op \in {"remove", "leave"}
                      /\ calls[g].board = b
                      /\ \A m \in Enrolled(b) : m.uid # calls[g].row}

EndsCovered(b) ==
    Covered(Cardinality(Enrolled(b)), Ended(b), Cardinality(Leaving(b)), Entitled(b))

\* Handlers load memberships that are there.
LEMMA LeavingFalls ==
    ASSUME Typed, NEW h \in Handlers, Step(h), NEW b \in Boards,
           \A m \in Enrolled(b) : \E n \in Enrolled(b)' : n.uid = m.uid
    PROVE  Leaving(b)' \subseteq Leaving(b)
<1>t. calls \in [Handlers -> Call] /\ calls[h] \in Call
  BY DEF Typed, TypeOK
<1> SUFFICES ASSUME NEW g \in Handlers, g \in Leaving(b)'
             PROVE  g \in Leaving(b)
  BY DEF Leaving
<1>1. CASE g # h
  <2>1. calls'[g] = calls[g]
    BY <1>1, <1>t, StepFrame
  <2> QED
    BY <2>1 DEF Leaving
<1>2. CASE g = h
  <2>1. \A n \in Enrolled(b)' : n.uid # calls'[h].row
    BY <1>2 DEF Leaving
  <2>2. LoadMember(h) \/ BeginLeave(h)
    BY <1>2, GetsReady DEF Leaving
  <2>3. Enrolled(b)' = Enrolled(b)
    BY <2>2 DEF LoadMember, BeginLeave, tables, Enrolled
  <2>4. PICK m \in boardusers : /\ \E u : Memberships(u, calls'[h].board) = {m}
                                /\ calls'[h].row = m.uid
    <3>1. CASE LoadMember(h)
      <4>1. PICK m \in boardusers :
                /\ Memberships(calls[h].target, calls[h].board) = {m}
                /\ calls' = [calls EXCEPT ![h].pc = "ready", ![h].row = m.uid,
                                          ![h].was = m.role]
        BY <3>1 DEF LoadMember
      <4>2. calls'[h].row = m.uid /\ calls'[h].board = calls[h].board
        BY <1>t, <4>1 DEF Call
      <4> QED
        BY <4>1, <4>2
    <3>2. CASE BeginLeave(h)
      <4>1. PICK u \in Users, d \in Boards, m \in boardusers :
                /\ Memberships(u, d) = {m}
                /\ Begin(h, "leave", [Idle EXCEPT !.pc = "ready", !.board = d,
                                                  !.row = m.uid])
        BY <3>2 DEF BeginLeave
      <4>2. calls'[h].row = m.uid /\ calls'[h].board = d
        BY <1>t, <4>1 DEF Begin, Idle
      <4> QED
        BY <4>1, <4>2
    <3> QED
      BY <2>2, <3>1, <3>2
  <2>5. m \in Enrolled(b)
    BY <1>2, <2>4 DEF Leaving, Memberships, Enrolled, RowsOf
  <2> QED
    BY <2>1, <2>3, <2>4, <2>5
<1> QED
  BY <1>1, <1>2

LEMMA StepEnds ==
    ASSUME DecisionsInv, BoardsInv, EnrolInv, NEW h \in Handlers, Step(h),
           NEW b \in Boards, Live(b) => EndsCovered(b), Live(b)'
    PROVE  EndsCovered(b)'
<1> DEFINE c == calls[h]
           E == Cardinality(Enrolled(b))
           L == Cardinality(Leaving(b))
<1>i. /\ Typed /\ RefIntegrity /\ CallsBacked /\ KeysUnique
      /\ IsFiniteSet(boardusers) /\ IsFiniteSet(Accepted(b))
      /\ IsFiniteSet(boardusers') /\ IsFiniteSet(Accepted(b)')
  BY StepFinite DEF DecisionsInv, GrantsInv, EnrolInv
<1>e. IsFiniteSet(Enrolled(b)) /\ E \in Nat /\ E' \in Nat
  <2>1. Enrolled(b) \subseteq boardusers /\ Enrolled(b)' \subseteq boardusers'
    BY DEF Enrolled, RowsOf
  <2>2. IsFiniteSet(Enrolled(b)) /\ IsFiniteSet(Enrolled(b)')
    BY <1>i, <2>1, FS_Subset
  <2> QED
    BY <2>2, FS_CardinalityType
<1>n. Entitled(b) \in Nat /\ Ended(b) \in Nat
  <2>1. \A a \in AuditAction : audits[b][a] \in Nat
    BY <1>i DEF Typed, TypeOK
  <2>2. Cardinality(Accepted(b)) \in Nat
    BY <1>i, FS_CardinalityType
  <2> QED
    BY <2>1, <2>2 DEF Entitled, Ended, AuditAction
<1>m. /\ L \in Nat /\ L' \in Nat
      /\ Leaving(b)' \subseteq Leaving(b) => L' <= L
      /\ h \notin Leaving(b)' => L' + 1 <= Cardinality(Handlers)
      /\ h \in Leaving(b) /\ Leaving(b)' \subseteq Leaving(b) \ {h} => L' + 1 <= L
  <2>1. Leaving(b) \in SUBSET Handlers /\ Leaving(b)' \in SUBSET Handlers
    BY DEF Leaving
  <2> QED
    BY <2>1, HandlersCounted
<1>f. Live(b) => Covered(E, Ended(b), L, Entitled(b))
  BY DEF EndsCovered
<1>g. EndsCovered(b)' <=> Covered(E', Ended(b)', L', Entitled(b)')
  BY DEF EndsCovered, Covered
<1> HIDE DEF E, L
<1>1. CASE ~Live(b)
  <2>1. Blank(b)' /\ Unnamed(b)'
    BY <1>1, <1>i, BornUnnamed
  <2>2. Enrolled(b)' = {}
    BY <2>1 DEF Blank, Enrolled, RowsOf
  <2>3. Accepted(b)' = {}
    <3>1. \A u \in Users : 1 .. notifications'[b][u]["invite_accepted"] = {}
      BY <2>1 DEF Blank, NoNotifications, NotificationType
    <3> QED
      BY <3>1 DEF Accepted, NotificationsOf
  <2>4. Leaving(b)' = {}
    BY <2>1 DEF Unnamed, Leaving
  <2>5. E' = 0 /\ L' = 0
    BY <2>2, <2>4, FS_EmptySet DEF E, L
  <2>6. Ended(b)' = 0 /\ Entitled(b)' = 0
    BY <2>1, <2>3, FS_EmptySet DEF Blank, NoAudits, AuditAction, Ended, Entitled
  <2> QED
    BY <1>g, <2>5, <2>6, CoveredStill
<1>2. CASE Live(b) /\ b # c.board
  <2>1. Untouched(b)
    BY <1>2, <1>i, StepElsewhere DEF DecisionsInv
  <2>2. Enrolled(b)' = Enrolled(b) /\ Accepted(b)' = Accepted(b)
    BY <2>1, ToldSame DEF Untouched, Enrolled, RowsOf, Accepted, NotificationType
  <2>3. E' = E /\ Entitled(b)' = Entitled(b) /\ Ended(b)' = Ended(b)
    BY <2>1, <2>2 DEF Untouched, Entitled, Ended, E
  <2>4. L' <= L
    BY <1>i, <1>m, <2>2, LeavingFalls
  <2> QED
    BY <1>2, <1>e, <1>f, <1>g, <1>n, <1>m, <2>3, <2>4, CoveredStill
<1>3. CASE Live(b) /\ b = c.board
  <2>d. ~CommitDelete(h)
    BY <1>3, <1>i DEF CommitDelete, NoBoard, Live, Typed, TypeOK
  <2>2. CASE CommitApprove(h) \/ CommitAccept(h) \/ CommitCreate(h)
    <3>1. E' = E + 1 /\ Entitled(b)' = Entitled(b) + 1 /\ Ended(b)' = Ended(b)
      BY <1>3, <1>i, <2>2, AdmissionBooked DEF E
    <3>2. boardusers \subseteq boardusers'
      BY <2>2, AdmitsRow
    <3>3. L' <= L
      BY <1>i, <1>m, <3>2, LeavingFalls DEF Enrolled, RowsOf
    <3> QED
      BY <1>3, <1>e, <1>f, <1>g, <1>n, <1>m, <3>1, <3>3, CoveredStill
  <2>3. CASE CommitRemove(h) \/ CommitLeave(h)
    <3>1. Entitled(b)' = Entitled(b) /\ Ended(b)' = Ended(b) + 1
      BY <1>3, <1>i, <2>3, ExpulsionBooked
    <3>2. h \notin Leaving(b)'
      <4>1. calls'[h] = Idle /\ Idle.pc = "idle"
        BY <1>i, <2>3 DEF CommitRemove, CommitLeave, Finish, Typed, TypeOK, Idle
      <4> QED
        BY <4>1 DEF Leaving
    <3>3. CASE boardusers' = boardusers
      <4>1. Enrolled(b)' = Enrolled(b) /\ E' = E
        BY <3>3 DEF Enrolled, E
      <4>2. h \in Leaving(b)
        <5>1. boardusers = Without(c.row)
          BY <2>3, <3>3 DEF CommitRemove, CommitLeave
        <5> QED
          BY <1>3, <2>3, <5>1
             DEF Leaving, CommitRemove, CommitLeave, Without, Enrolled, RowsOf
      <4>3. Leaving(b)' \subseteq Leaving(b) \ {h}
        BY <1>i, <3>2, <4>1, LeavingFalls
      <4>4. L' + 1 <= L
        BY <1>m, <4>2, <4>3
      <4>5. Covered(E, Ended(b) + 1, L', Entitled(b))
        BY <1>3, <1>e, <1>f, <1>n, <1>m, <4>4, CoveredStill
      <4> QED
        BY <1>g, <3>1, <4>1, <4>5
    <3>4. CASE boardusers' # boardusers
      <4>1. PICK m \in boardusers : m.board = b /\ boardusers' = boardusers \ {m}
        BY <1>3, <1>i, <2>3, <3>4, ExpelsRow
      <4>2. Enrolled(b)' = Enrolled(b) \ {m} /\ m \in Enrolled(b)
        BY <4>1 DEF Enrolled, RowsOf
      <4>3. Cardinality(Enrolled(b) \ {m}) = Cardinality(Enrolled(b)) - 1
        BY <1>e, <4>2, FS_RemoveElement
      <4>4. E = E' + 1
        BY <1>e, <4>2, <4>3 DEF E
      <4>5. Covered(E' + 1, Ended(b), L, Entitled(b))
        BY <1>3, <1>f, <4>4
      <4>6. Covered(E', Ended(b) + 1, L', Entitled(b))
        BY <1>e, <1>n, <1>m, <3>2, <4>5, CoveredStill
      <4> QED
        BY <1>g, <3>1, <4>6
    <3> QED
      BY <3>3, <3>4
  <2>4. CASE ~(\/ CommitApprove(h) \/ CommitAccept(h) \/ CommitCreate(h)
               \/ CommitRemove(h) \/ CommitLeave(h))
    <3>1. Entitled(b)' = Entitled(b) /\ Ended(b)' = Ended(b)
      BY <1>i, <2>d, <2>4, BooksOf DEF Entitled, Ended
    <3>2. E' = E /\ \A m \in Enrolled(b) : \E n \in Enrolled(b)' : n.uid = m.uid
      <4>1. CASE boardusers' = boardusers
        BY <4>1 DEF Enrolled, E
      <4>2. CASE boardusers' # boardusers
        <5>1. CommitRole(h)
          BY <2>d, <2>4, <4>2, WritesMembers
        <5>2. E' = E
          BY <1>i, <4>2, <5>1, RoleSwaps, SwapKeepsRows DEF Enrolled, E
        <5>3. \A m \in Enrolled(b) : \E n \in Enrolled(b)' : n.uid = m.uid
          BY <1>i, <4>2, <5>1, RoleKeepsKeys
        <5> QED
          BY <5>2, <5>3
      <4> QED
        BY <4>1, <4>2
    <3>3. L' <= L
      BY <1>i, <1>m, <3>2, LeavingFalls
    <3> QED
      BY <1>3, <1>e, <1>f, <1>g, <1>n, <1>m, <3>1, <3>2, <3>3, CoveredStill
  <2> QED
    BY <2>2, <2>3, <2>4
<1> QED
  BY <1>1, <1>2, <1>3

\* Each membership that was granted ends in the log at most once in every handler,
\* and twice only in handlers that have loaded it at the same time.
THEOREM EndsAreBounded == Spec => []EndsPerHandler
<1> DEFINE EndsInv == \A b \in Boards : Live(b) => EndsCovered(b)
<1>1. Init => EndsInv
  BY DEF Init, Live, NoBoard
<1>2. DecisionsInv /\ BoardsInv /\ EnrolInv /\ EndsInv /\ [Next]_vars => EndsInv'
  <2>1. EndsInv /\ UNCHANGED vars => EndsInv'
    BY DEF vars, EndsCovered, Covered, Live, Entitled, Ended, Enrolled, RowsOf, Accepted,
       NotificationsOf, Leaving
  <2> QED
    BY <2>1, StepEnds DEF Next
<1>3. EnrolInv /\ EndsInv /\ Typed => EndsPerHandler
  <2> SUFFICES ASSUME EnrolInv, EndsInv, Typed, NEW b \in Boards, Live(b)
               PROVE  Ended(b) <= Cardinality(Handlers) * Entitled(b)
    BY DEF EndsPerHandler, LiveBoards, Ended, Entitled, Accepted
  <2>1. /\ Cardinality(Enrolled(b)) \in Nat /\ Cardinality(Leaving(b)) \in Nat
        /\ Cardinality(Accepted(b)) \in Nat
    BY HandlersAssumption, FS_Subset, FS_CardinalityType
       DEF EnrolInv, Enrolled, RowsOf, Leaving
  <2>2. Ended(b) \in Nat /\ Entitled(b) \in Nat
    BY <2>1 DEF Ended, Entitled, Typed, TypeOK, AuditAction
  <2> QED
    BY <2>1, <2>2, CoveredStill DEF EndsCovered
<1>4. DecisionsInv => Typed
  BY DEF DecisionsInv, GrantsInv
<1>5. DecisionsInv /\ BoardsInv /\ [Next]_vars => BoardsInv'
  BY NextOnBoards DEF DecisionsInv, GrantsInv
<1> HIDE DEF EndsInv
<1> QED
  BY <1>1, <1>2, <1>3, <1>4, <1>5, InitEnrolled, NextEnrolled, InitDecisions,
     NextDecisions, InitOnBoards, PTL DEF Spec

Invited(b) == RowsOf(invitations, b)

Received(b) == NotificationsOf(b, "invite_received")

\* The handlers that are about to accept an invitation to b that has gone.
Answering(b) ==
    {g \in Handlers : /\ calls[g].pc = "ready"
                      /\ calls[g].op = "accept"
                      /\ calls[g].board = b
                      /\ \A i \in Invited(b) : i.uid # calls[g].row}

AnswersCovered(b) ==
    Covered(Cardinality(Invited(b)), Cardinality(Accepted(b)),
            Cardinality(Answering(b)), Cardinality(Received(b)))

AnswersInv ==
    /\ \A b \in Boards : IsFiniteSet(Received(b))
    /\ \A b \in Boards : Live(b) => AnswersCovered(b)

\* Handlers load invitations that are there.
LEMMA AnsweringFalls ==
    ASSUME Typed, NEW h \in Handlers, Step(h), NEW b \in Boards,
           Invited(b) \subseteq Invited(b)'
    PROVE  Answering(b)' \subseteq Answering(b)
<1>t. calls \in [Handlers -> Call] /\ calls[h] \in Call
  BY DEF Typed, TypeOK
<1> SUFFICES ASSUME NEW g \in Handlers, g \in Answering(b)'
             PROVE  g \in Answering(b)
  BY DEF Answering
<1>1. CASE g # h
  <2>1. calls'[g] = calls[g]
    BY <1>1, <1>t, StepFrame
  <2> QED
    BY <2>1 DEF Answering
<1>2. CASE g = h
  <2>1. calls'[h].board = b /\ \A i \in Invited(b)' : i.uid # calls'[h].row
    BY <1>2 DEF Answering
  <2>2. BeginReply(h)
    BY <1>2, GetsReady DEF Answering
  <2>3. PICK op \in {"accept", "decline"}, t \in mailed, i \in invitations :
            /\ Matching(t) = {i}
            /\ Begin(h, op, [Idle EXCEPT !.pc = "ready", !.user = t.user,
                     !.target = t.recipient, !.board = t.board, !.row = i.uid])
    BY <2>2 DEF BeginReply
  <2>4. calls'[h].row = i.uid /\ calls'[h].board = t.board
    BY <1>t, <2>3 DEF Begin, Idle
  <2>5. i \in Invited(b)
    BY <2>1, <2>3, <2>4 DEF Matching, Invited, RowsOf
  <2> QED
    BY <2>1, <2>4, <2>5
<1> QED
  BY <1>1, <1>2

LEMMA StepAnswering ==
    ASSUME DecisionsInv, BoardsInv, EnrolInv, InvitesInv, KeysApart, AnswersInv,
           NEW h \in Handlers, Step(h), NEW b \in Boards, Live(b)'
    PROVE  AnswersCovered(b)'
<1> DEFINE c == calls[h]
           I == Cardinality(Invited(b))
           A == Cardinality(Accepted(b))
           L == Cardinality(Answering(b))
           R == Cardinality(Received(b))
<1>i. /\ Typed /\ RefIntegrity /\ CallsBacked
      /\ IsFiniteSet(invitations) /\ IsFiniteSet(invitations')
      /\ IsFiniteSet(Accepted(b)) /\ IsFiniteSet(Received(b))
  BY StepInvites DEF DecisionsInv, GrantsInv, EnrolInv, InvitesInv, AnswersInv
<1>e. /\ IsFiniteSet(Invited(b)) /\ I \in Nat /\ I' \in Nat
      /\ A \in Nat /\ R \in Nat
  <2>1. Invited(b) \subseteq invitations /\ Invited(b)' \subseteq invitations'
    BY DEF Invited, RowsOf
  <2>2. IsFiniteSet(Invited(b)) /\ IsFiniteSet(Invited(b)')
    BY <1>i, <2>1, FS_Subset
  <2> QED
    BY <1>i, <2>2, FS_CardinalityType
<1>m. /\ L \in Nat /\ L' \in Nat /\ L' <= Cardinality(Handlers)
      /\ Answering(b)' \subseteq Answering(b) => L' <= L
      /\ h \notin Answering(b)' => L' + 1 <= Cardinality(Handlers)
      /\ h \in Answering(b) /\ Answering(b)' \subseteq Answering(b) \ {h} => L' + 1 <= L
  <2>1. Answering(b) \in SUBSET Handlers /\ Answering(b)' \in SUBSET Handlers
    BY DEF Answering
  <2> QED
    BY <2>1, HandlersCounted
<1>f. Live(b) => Covered(I, A, L, R)
  BY DEF AnswersInv, AnswersCovered
<1>g. AnswersCovered(b)' <=> Covered(I', A', L', R')
  BY DEF AnswersCovered, Covered
<1>a. Invited(b) \subseteq Invited(b)' => L' <= L
  BY <1>i, <1>m, AnsweringFalls
<1> HIDE DEF I, A, L, R
<1>1. CASE ~Live(b)
  <2>1. Blank(b)' /\ Unnamed(b)'
    BY <1>1, <1>i, BornUnnamed
  <2>2. Invited(b)' = {} /\ Answering(b)' = {}
    BY <2>1 DEF Blank, Unnamed, Invited, RowsOf, Answering
  <2>3. ASSUME NEW t \in {"invite_accepted", "invite_received"}
        PROVE  NotificationsOf(b, t)' = {}
    <3>1. \A u \in Users : 1 .. notifications'[b][u][t] = {}
      BY <2>1 DEF Blank, NoNotifications, NotificationType
    <3> QED
      BY <3>1 DEF NotificationsOf
  <2>4. Accepted(b)' = {} /\ Received(b)' = {}
    BY <2>3 DEF Accepted, Received
  <2>5. I' = 0 /\ A' = 0 /\ L' = 0 /\ R' = 0
    BY <2>2, <2>4, FS_EmptySet DEF I, A, L, R
  <2> QED
    BY <1>g, <2>5, CoveredStill
<1>2. CASE Live(b) /\ b # c.board
  <2>1. Untouched(b)
    BY <1>2, <1>i, StepElsewhere DEF DecisionsInv
  <2>2. /\ Invited(b)' = Invited(b)
        /\ Accepted(b)' = Accepted(b) /\ Received(b)' = Received(b)
    BY <2>1, ToldSame DEF Untouched, Invited, RowsOf, Accepted, Received,
       NotificationType
  <2>3. I' = I /\ A' = A /\ R' = R /\ L' <= L
    BY <1>a, <2>2 DEF I, A, R
  <2> QED
    BY <1>2, <1>e, <1>f, <1>g, <1>m, <2>3, CoveredStill
<1>3. CASE Live(b) /\ b = c.board
  <2>d. ~CommitDelete(h)
    BY <1>3, <1>i DEF CommitDelete, NoBoard, Live, Typed, TypeOK
  <2>2. CASE CommitInvite(h)
    <3> DEFINE new == [uid |-> FreshUid, user |-> c.user, recipient |-> c.target,
                       board |-> c.board]
    <3>1. /\ invitations' = invitations \cup {new}
          /\ new.uid = FreshUid /\ new.board = b
      BY <1>3, <2>2 DEF CommitInvite
    <3>2. Fresh(FreshUid)
      BY <2>2, FreshKey DEF CommitInvite
    <3> HIDE DEF new
    <3>3. Invited(b)' = Invited(b) \cup {new} /\ new \notin Invited(b)
      BY <3>1, <3>2 DEF Invited, RowsOf, Fresh
    <3>4. I' = I + 1
      BY <1>e, <3>3, FS_AddElement DEF I
    <3>5. c.target \in Users /\ notifications' = Notified(b, c.target, "invite_received")
      BY <1>3, <1>i, <2>2 DEF CommitInvite, Typed, CallsFilled, OnTarget, OnUser
    <3>6. PICK n : /\ n \notin Received(b)
                   /\ Received(b)' = Received(b) \cup {n}
      BY <1>i, <3>5, ToldOnce DEF Received, NotificationType
    <3>7. R' = R + 1
      BY <1>i, <3>6, FS_AddElement DEF R
    <3>8. A' = A
      BY <1>i, <2>2, <2>d, ToldBy DEF Accepted, A, CommitInvite, CommitAccept
    <3>9. Covered(I + 1, A, L', R + 1)
      BY <1>3, <1>a, <1>e, <1>f, <1>m, <3>3, CoveredStill
    <3> QED
      BY <1>g, <3>4, <3>7, <3>8, <3>9
  <2>3. CASE CommitAccept(h) \/ CommitDecline(h)
    <3>1. /\ invitations' = {i \in invitations : i.uid # c.row}
          /\ ~CommitInvite(h)
      BY <2>3 DEF CommitAccept, CommitDecline, CommitInvite
    <3>2. R' = R
      BY <1>i, <2>d, <3>1, ToldBy DEF Received, R
    <3>3. h \notin Answering(b)'
      <4>1. calls'[h] = Idle /\ Idle.pc = "idle"
        BY <1>i, <2>3 DEF CommitAccept, CommitDecline, Finish, Typed, TypeOK, Idle
      <4> QED
        BY <4>1 DEF Answering
    <3>4. IF CommitAccept(h) THEN A' = A + 1 ELSE A' = A
      <4>1. CASE CommitAccept(h)
        <5>1. c.user \in Users /\ notifications' = Notified(b, c.user, "invite_accepted")
          BY <1>3, <1>i, <4>1 DEF CommitAccept, Typed, CallsFilled, OfUser
        <5>2. PICK n : /\ n \notin Accepted(b)
                       /\ Accepted(b)' = Accepted(b) \cup {n}
          BY <1>i, <5>1, ToldOnce DEF Accepted, NotificationType
        <5> QED
          BY <1>i, <4>1, <5>2, FS_AddElement DEF A
      <4>2. CASE ~CommitAccept(h)
        BY <1>i, <2>d, <4>2, ToldBy DEF Accepted, A
      <4> QED
        BY <4>1, <4>2
    <3>5. CASE \A i \in Invited(b) : i.uid # c.row
      <4>1. Invited(b)' = Invited(b)
        BY <3>1, <3>5 DEF Invited, RowsOf
      <4>2. I' = I /\ Answering(b)' \subseteq Answering(b)
        BY <1>i, <4>1, AnsweringFalls DEF I
      <4>3. CASE CommitAccept(h)
        <5>1. h \in Answering(b)
          BY <1>3, <3>5, <4>3 DEF Answering, CommitAccept
        <5>2. L' + 1 <= L
          BY <1>m, <3>3, <4>2, <5>1
        <5>3. Covered(I, A + 1, L', R)
          BY <1>3, <1>e, <1>f, <1>m, <5>2, CoveredStill
        <5> QED
          BY <1>g, <3>2, <3>4, <4>2, <4>3, <5>3
      <4>4. CASE ~CommitAccept(h)
        <5>1. Covered(I, A, L', R)
          BY <1>3, <1>e, <1>f, <1>m, <4>2, CoveredStill
        <5> QED
          BY <1>g, <3>2, <3>4, <4>2, <4>4, <5>1
      <4> QED
        BY <4>3, <4>4
    <3>6. CASE \E i \in Invited(b) : i.uid = c.row
      <4>1. PICK i \in Invited(b) : i.uid = c.row
        BY <3>6
      <4>2. Invited(b)' = Invited(b) \ {i}
        BY <3>1, <4>1 DEF Invited, RowsOf, KeysApart
      <4>3. Cardinality(Invited(b) \ {i}) = Cardinality(Invited(b)) - 1
        BY <1>e, <4>1, FS_RemoveElement
      <4>4. I = I' + 1
        BY <1>e, <4>2, <4>3 DEF I
      <4>5. Covered(I' + 1, A, L, R)
        BY <1>3, <1>f, <4>4
      <4>6. Covered(I', A + 1, L', R) /\ Covered(I', A, L', R)
        BY <1>e, <1>m, <3>3, <4>5, CoveredStill
      <4> QED
        BY <1>g, <3>2, <3>4, <4>6
    <3> QED
      BY <3>5, <3>6
  <2>4. CASE ~CommitInvite(h) /\ ~CommitAccept(h) /\ ~CommitDecline(h)
    <3>1. invitations' = invitations
      BY <2>4, <2>d, WritesInvitations
    <3>2. Invited(b)' = Invited(b) /\ Accepted(b)' = Accepted(b)
          /\ Received(b)' = Received(b)
      BY <1>i, <2>4, <2>d, <3>1, ToldBy DEF Invited, Accepted, Received
    <3>3. I' = I /\ A' = A /\ R' = R /\ L' <= L
      BY <1>a, <3>2 DEF I, A, R
    <3> QED
      BY <1>3, <1>e, <1>f, <1>g, <1>m, <3>3, CoveredStill
  <2> QED
    BY <2>2, <2>3, <2>4
<1> QED
  BY <1>1, <1>2, <1>3

\* A link that is opened again and again lets its recipient in at most once in
\* every handler, and twice only in handlers that loaded the invitation together.
THEOREM AnswersAreBounded == Spec => []AcceptancesPerHandler
<1>1. Init => AnswersInv
  <2> SUFFICES ASSUME Init PROVE AnswersInv
    OBVIOUS
  <2>1. \A b \in Boards : Received(b) = {} /\ ~Live(b)
    BY ToldNone DEF Init, Live, NoBoard, Received, NotificationType
  <2> QED
    BY <2>1, FS_EmptySet DEF AnswersInv
<1>2. /\ DecisionsInv /\ BoardsInv /\ EnrolInv /\ InvitesInv /\ KeysApart
      /\ AnswersInv /\ [Next]_vars
      => AnswersInv'
  <2>1. AnswersInv /\ UNCHANGED vars => AnswersInv'
    BY DEF vars, tables, AnswersInv, AnswersCovered, Covered, Live, Invited, RowsOf,
       Accepted, Received, NotificationsOf, Answering
  <2>2. ASSUME DecisionsInv, BoardsInv, EnrolInv, InvitesInv, KeysApart, AnswersInv,
               NEW h \in Handlers, Step(h)
        PROVE  AnswersInv'
    <3>1. ASSUME NEW b \in Boards PROVE IsFiniteSet(Received(b)')
      BY <2>2, ToldFinitely
         DEF DecisionsInv, GrantsInv, AnswersInv, Received, NotificationType
    <3>2. ASSUME NEW b \in Boards, Live(b)' PROVE AnswersCovered(b)'
      BY <2>2, <3>2, StepAnswering
    <3> QED
      BY <3>1, <3>2 DEF AnswersInv
  <2> QED
    BY <2>1, <2>2 DEF Next
<1>3. EnrolInv /\ InvitesInv /\ AnswersInv => AcceptancesPerHandler
  <2> SUFFICES ASSUME EnrolInv, InvitesInv, AnswersInv, NEW b \in Boards, Live(b)
               PROVE  Cardinality(Accepted(b)) <=
                          Cardinality(Handlers) * Cardinality(Received(b))
    BY DEF AcceptancesPerHandler, LiveBoards, Accepted, Received
  <2>1. /\ Cardinality(Invited(b)) \in Nat /\ Cardinality(Answering(b)) \in Nat
        /\ Cardinality(Accepted(b)) \in Nat /\ Cardinality(Received(b)) \in Nat
    BY HandlersAssumption, FS_Subset, FS_CardinalityType
       DEF EnrolInv, InvitesInv, AnswersInv, Invited, RowsOf, Answering
  <2> QED
    BY <2>1, CoveredStill DEF AnswersInv, AnswersCovered
<1>4. DecisionsInv /\ BoardsInv /\ [Next]_vars => BoardsInv'
  BY NextOnBoards DEF DecisionsInv, GrantsInv
<1> QED
  BY <1>1, <1>2, <1>3, <1>4, InitApart, NextApart, InitInvites, NextInvites,
     InitEnrolled, NextEnrolled, InitDecisions, NextDecisions, InitOnBoards,
     PTL DEF Spec
=============================================================================
