--------------------------- MODULE BoardAppAccess ---------------------------
(***************************************************************************)
(* BoardApp implements Access: every step of a handler is one rule, or     *)
(* none, on the lives and the owners of the boards, the grants and the     *)
(* members, for any number of users, boards, handlers and calls.  And each *)
(* step is on one board.                                                   *)
(***************************************************************************)
EXTENDS BoardAppDecisions

-----------------------------------------------------------------------------
(* What a step leaves alone *)

\* Boards are born in two ways and die in one.
LEMMA BoardsKept ==
    ASSUME Typed, NEW h \in Handlers, Step(h),
           ~BeginCreate(h), ~CommitDuplicate(h), ~CommitDelete(h)
    PROVE  Lives' = Lives /\ Owners' = Owners
<1> DEFINE c == calls[h]
<1>b. boards \in [Boards -> Board] /\ (c.pc # "idle" => c.board \in Boards)
  BY DEF Typed, TypeOK, CallsFilled
<1>1. \A b \in Boards : /\ boards'[b].life = boards[b].life
                        /\ boards'[b].owner = boards[b].owner
  <2>1. CASE boards' = boards
    BY <2>1
  <2>2. CASE CommitCreate(h)
    BY <2>2, <1>b DEF CommitCreate, Board
  <2>3. CASE CommitArchive(h)
    BY <2>3, <1>b DEF CommitArchive, Board
  <2>4. CASE CommitUnarchive(h)
    BY <2>4, <1>b DEF CommitUnarchive, Board
  <2>5. CASE CommitVisibility(h)
    BY <2>5, <1>b DEF CommitVisibility, Board
  <2> QED
    BY <2>1, <2>2, <2>3, <2>4, <2>5, WritesBoards
<1> QED
  BY <1>1 DEF Lives, Owners

\* The steps that hand a link to the mail queue.
LEMMA WritesMailed ==
    ASSUME NEW h \in Handlers, Step(h)
    PROVE  mailed' = mailed \/ MailInvite(h)
<1>1. CASE BeginOnBoard(h) \/ BeginOnUser(h) \/ Fail(h)
  BY <1>1 DEF BeginOnBoard, BeginOnUser, Fail
<1>2. CASE MembershipStep(h)
  BY <1>2 DEF MembershipStep, LoadMember, LoadRequest, CommitRole, CommitRemove,
     BeginLeave, CommitLeave, BeginRequest, CheckNotMember, CheckNoRequest,
     CommitRequest, CommitApprove, CommitReject
<1>3. CASE InvitationsStep(h)
  BY <1>3 DEF InvitationsStep, CommitInvite, BeginReply, CommitAccept,
     CommitDecline
<1>4. CASE LifecycleStep(h)
  BY <1>4 DEF LifecycleStep, BeginCreate, CommitCreate, LoadBoard,
     CommitDuplicate, CommitArchive, BeginUnarchive, CommitUnarchive,
     CommitVisibility, CommitDelete
<1> QED
  BY <1>1, <1>2, <1>3, <1>4 DEF Step

\* A decision rewrites a request and grants or takes nothing.
LEMMA GrantsDecided ==
    ASSUME Typed, NEW uid, NEW status, mailed' = mailed,
           requests' = requests \/ requests' = SetStatus(uid, status)
    PROVE  Grants' = Grants
<1>1. CASE requests' = requests
  BY <1>1 DEF Grants
<1>2. CASE requests' = SetStatus(uid, status)
  <2>1. /\ \A r \in requests' : \E s \in requests :
               s.user = r.user /\ s.board = r.board
        /\ \A s \in requests : \E r \in requests' :
               s.user = r.user /\ s.board = r.board
    BY <1>2, SetStatusRows
  <2>2. {<<r.user, r.board>> : r \in requests'} = {<<r.user, r.board>> : r \in requests}
    BY <2>1
  <2> QED
    BY <2>2 DEF Grants
<1> QED
  BY <1>1, <1>2

LEMMA GrantsKept ==
    ASSUME Typed, NEW h \in Handlers, Step(h),
           ~CommitRequest(h), ~MailInvite(h), ~CommitDelete(h)
    PROVE  Grants' = Grants
<1>1. mailed' = mailed
  BY WritesMailed
<1>2. CASE requests' = requests
  BY <1>1, <1>2 DEF Grants
<1>3. CASE CommitApprove(h)
  BY <1>1, <1>3, GrantsDecided DEF CommitApprove
<1>4. CASE CommitReject(h)
  BY <1>1, <1>4, GrantsDecided DEF CommitReject
<1> QED
  BY <1>2, <1>3, <1>4, WritesRequests

\* A change of role makes and unmakes no member.
LEMMA MembersKept ==
    ASSUME Typed, KeysUnique, NEW h \in Handlers, CommitRole(h)
    PROVE  Members' = Members
<1>1. \A m \in boardusers' : \E n \in boardusers :
          n.user = m.user /\ n.board = m.board
  BY RoleRows
<1>2. ASSUME NEW n \in boardusers
      PROVE  \E m \in boardusers' : n.user = m.user /\ n.board = m.board
  <2>1. PICK role \in UserRole :
            \/ boardusers' = boardusers
            \/ \E m \in boardusers :
                 /\ m.uid = calls[h].row
                 /\ boardusers' = Without(calls[h].row) \cup {[m EXCEPT !.role = role]}
    BY DEF CommitRole
  <2>2. CASE boardusers' = boardusers
    BY <2>2
  <2>3. CASE boardusers' # boardusers
    <3>1. PICK m \in boardusers :
              /\ m.uid = calls[h].row
              /\ boardusers' = Without(calls[h].row) \cup {[m EXCEPT !.role = role]}
      BY <2>1, <2>3
    <3>2. CASE n.uid = calls[h].row
      <4>1. n = m
        BY <3>1, <3>2 DEF KeysUnique
      <4>2. /\ [m EXCEPT !.role = role].user = m.user
            /\ [m EXCEPT !.role = role].board = m.board
        BY DEF Typed, TypeOK, BoardUser
      <4> QED
        BY <3>1, <4>1, <4>2
    <3>3. CASE n.uid # calls[h].row
      BY <3>1, <3>3 DEF Without
    <3> QED
      BY <3>2, <3>3
  <2> QED
    BY <2>2, <2>3
<1> QED
  BY <1>1, <1>2 DEF Members

-----------------------------------------------------------------------------
(* What a step does *)

\* The row of a membership goes: its user is no member any more, or still is
\* by a second row.
LEMMA ExpelsOne ==
    ASSUME Typed, KeysUnique, NEW uid, boardusers' = Without(uid)
    PROVE  \/ Members' = Members
           \/ \E u \in Users, b \in Boards : Members' = Members \ {<<u, b>>}
<1>1. CASE \A m \in boardusers : m.uid # uid
  BY <1>1 DEF Without, Members
<1>2. CASE \E m \in boardusers : m.uid = uid
  <2>1. PICK m \in boardusers : m.uid = uid
    BY <1>2
  <2>2. boardusers' = boardusers \ {m}
    BY <2>1 DEF Without, KeysUnique
  <2>3. m.user \in Users /\ m.board \in Boards
    BY DEF Typed, TypeOK, BoardUser
  <2>4. CASE \E n \in boardusers \ {m} : n.user = m.user /\ n.board = m.board
    BY <2>2, <2>4 DEF Members
  <2>5. CASE ~\E n \in boardusers \ {m} : n.user = m.user /\ n.board = m.board
    <3>1. Members' = Members \ {<<m.user, m.board>>}
      BY <2>2, <2>5 DEF Members
    <3> QED
      BY <2>3, <3>1
  <2> QED
    BY <2>4, <2>5
<1> QED
  BY <1>1, <1>2

LEMMA AdmitsOne ==
    ASSUME NEW uid, NEW u, NEW b, NEW role,
           boardusers' = boardusers \cup {[uid |-> uid, user |-> u,
                                           board |-> b, role |-> role]}
    PROVE  Members' = Members \cup {<<u, b>>}
<1> DEFINE row == [uid |-> uid, user |-> u, board |-> b, role |-> role]
<1>1. row.user = u /\ row.board = b
  OBVIOUS
<1>2. boardusers' = boardusers \cup {row}
  OBVIOUS
<1> HIDE DEF row
<1> QED
  BY <1>1, <1>2 DEF Members

\* So with a grant, by a request or by a link.
LEMMA GrantsOne ==
    ASSUME NEW uid, NEW u, NEW b, NEW status, NEW sender,
           \/ /\ requests' = requests \cup {[uid |-> uid, user |-> u,
                                            board |-> b, status |-> status]}
              /\ mailed' = mailed
           \/ /\ mailed' = mailed \cup {[user |-> sender, recipient |-> u,
                                        board |-> b]}
              /\ requests' = requests
    PROVE  Grants' = Grants \cup {<<u, b>>}
<1> DEFINE row == [uid |-> uid, user |-> u, board |-> b, status |-> status]
           link == [user |-> sender, recipient |-> u, board |-> b]
<1>1. row.user = u /\ row.board = b /\ link.recipient = u /\ link.board = b
  OBVIOUS
<1>2. \/ requests' = requests \cup {row} /\ mailed' = mailed
      \/ mailed' = mailed \cup {link} /\ requests' = requests
  OBVIOUS
<1> HIDE DEF row, link
<1> QED
  BY <1>1, <1>2 DEF Grants

LEMMA StepRules ==
    ASSUME DecisionsInv, NEW h \in Handlers, Step(h)
    PROVE  Rules!Next \/ UNCHANGED Rules!vars
<1> DEFINE c == calls[h]
<1>i. Typed /\ KeysUnique /\ RefIntegrity /\ Backed(c)
  BY DEF DecisionsInv, GrantsInv, CallsBacked
<1>c. /\ c.pc # "idle" => c.board \in Boards
      /\ c.op \in OnTarget => c.target \in Users
      /\ c.op \in OfUser => c.user \in Users
  BY <1>i DEF Typed, CallsFilled
<1>b. boards \in [Boards -> Board]
  BY <1>i DEF Typed, TypeOK
<1>u. \A u \in Users, b \in Boards :
        Rules!Create(u, b) \/ Rules!Grant(u, b) \/ Rules!Admit(u, b)
            \/ Rules!Expel(u, b) => Rules!Next
  BY DEF Rules!Next
<1>1. CASE BeginCreate(h) \/ CommitDuplicate(h)
  <2>1. PICK u \in Users, b \in Boards, archived \in BOOLEAN, public \in BOOLEAN :
            /\ boards[b].life = "unborn"
            /\ boards' = [boards EXCEPT ![b] = NewBoard(u, archived, public)]
    <3>1. CASE BeginCreate(h)
      BY <3>1 DEF BeginCreate
    <3>2. CASE CommitDuplicate(h)
      <4>1. c.user \in Users /\ c.archived \in BOOLEAN /\ c.public \in BOOLEAN
        BY <3>2, <1>c, <1>i DEF CommitDuplicate, OfUser, Typed, TypeOK, Call
      <4> QED
        BY <3>2, <4>1 DEF CommitDuplicate
    <3> QED
      BY <1>1, <3>1, <3>2
  <2>2. Lives' = [Lives EXCEPT ![b] = "live"] /\ Owners' = [Owners EXCEPT ![b] = u]
    BY <2>1, <1>b DEF Lives, Owners, NewBoard
  <2>3. Grants' = Grants /\ Members' = Members
    BY <1>1 DEF BeginCreate, CommitDuplicate, Grants, Members
  <2>4. Rules!Create(u, b)
    BY <2>1, <2>2, <2>3 DEF Rules!Create, Lives
  <2> QED
    BY <2>4, <1>u
<1>2. CASE CommitRequest(h)
  <2>1. Lives' = Lives /\ Owners' = Owners
    BY <1>2 DEF CommitRequest, Lives, Owners
  <2>2. Grants' = Grants \cup {<<c.target, c.board>>} /\ Members' = Members
    BY <1>2, GrantsOne DEF CommitRequest, Members
  <2>3. c.target \in Users /\ c.board \in Boards
    BY <1>2, <1>c DEF CommitRequest, OnTarget
  <2>4. Rules!Grant(c.target, c.board)
    BY <2>1, <2>2 DEF Rules!Grant
  <2> QED
    BY <2>3, <2>4, <1>u
<1>3. CASE MailInvite(h)
  <2>1. Lives' = Lives /\ Owners' = Owners
    BY <1>3 DEF MailInvite, tables, Lives, Owners
  <2>2. Grants' = Grants \cup {<<c.target, c.board>>} /\ Members' = Members
    BY <1>3, GrantsOne DEF MailInvite, tables, Members
  <2>3. c.target \in Users /\ c.board \in Boards
    BY <1>3, <1>c DEF MailInvite, OnTarget, OnUser
  <2>4. Rules!Grant(c.target, c.board)
    BY <2>1, <2>2 DEF Rules!Grant
  <2> QED
    BY <2>3, <2>4, <1>u
<1>4. CASE CommitApprove(h)
  <2>1. Lives' = Lives /\ Owners' = Owners
    BY <1>4 DEF CommitApprove, Lives, Owners
  <2>2. Grants' = Grants
    BY <1>4, <1>i, GrantsDecided DEF CommitApprove
  <2>3. Members' = Members \cup {<<c.target, c.board>>}
    BY <1>4, AdmitsOne DEF CommitApprove
  <2>4. c.target \in Users /\ c.board \in Boards /\ Live(c.board)
    BY <1>4, <1>c DEF CommitApprove, OnTarget, OnUser, CanInsert
  <2>5. <<c.target, c.board>> \in Grants
    BY <1>4, <1>i, <2>4 DEF CommitApprove, Backed, RequestsOf, Grants
  <2>6. Rules!Admit(c.target, c.board)
    BY <2>1, <2>2, <2>3, <2>4, <2>5 DEF Rules!Admit, Lives, Live
  <2> QED
    BY <2>4, <2>6, <1>u
<1>5. CASE CommitAccept(h)
  <2>1. Lives' = Lives /\ Owners' = Owners
    BY <1>5 DEF CommitAccept, Lives, Owners
  <2>2. Grants' = Grants
    BY <1>5 DEF CommitAccept, Grants
  <2>3. Members' = Members \cup {<<c.target, c.board>>}
    BY <1>5, AdmitsOne DEF CommitAccept
  <2>4. c.target \in Users /\ c.board \in Boards /\ Live(c.board)
    BY <1>5, <1>c DEF CommitAccept, OnTarget, CanInsert
  <2>5. <<c.target, c.board>> \in Grants
    BY <1>5, <1>i DEF CommitAccept, Backed, Grants
  <2>6. Rules!Admit(c.target, c.board)
    BY <2>1, <2>2, <2>3, <2>4, <2>5 DEF Rules!Admit, Lives, Live
  <2> QED
    BY <2>4, <2>6, <1>u
<1>6. CASE CommitCreate(h)
  <2>1. c.user \in Users /\ c.board \in Boards /\ Live(c.board)
    BY <1>6, <1>c DEF CommitCreate, OfUser, CanInsert
  <2>2. Lives' = Lives /\ Owners' = Owners
    BY <1>6, <2>1, <1>b DEF CommitCreate, Lives, Owners, Board
  <2>3. Grants' = Grants
    BY <1>6 DEF CommitCreate, Grants
  <2>4. Members' = Members \cup {<<c.user, c.board>>}
    BY <1>6, AdmitsOne DEF CommitCreate
  <2>5. c.user = Owners[c.board]
    BY <1>6, <1>i, <2>1 DEF CommitCreate, Backed, Owners
  <2>6. Rules!Admit(c.user, c.board)
    BY <2>1, <2>2, <2>3, <2>4, <2>5 DEF Rules!Admit, Lives, Live
  <2> QED
    BY <2>1, <2>6, <1>u
<1>7. CASE CommitRemove(h) \/ CommitLeave(h)
  <2>1. Lives' = Lives /\ Owners' = Owners /\ Grants' = Grants
    BY <1>7 DEF CommitRemove, CommitLeave, Lives, Owners, Grants
  <2>2. \/ Members' = Members
        \/ \E u \in Users, b \in Boards : Members' = Members \ {<<u, b>>}
    BY <1>7, <1>i, ExpelsOne DEF CommitRemove, CommitLeave
  <2> QED
    BY <2>1, <2>2, <1>u DEF Rules!Expel, Rules!vars
<1>8. CASE CommitDelete(h)
  <2>1. c.board \in Boards /\ Live(c.board)
    BY <1>8, <1>c DEF CommitDelete
  <2>2. /\ Lives' = [Lives EXCEPT ![c.board] = "gone"]
        /\ Owners' = [Owners EXCEPT ![c.board] = None]
    BY <1>8, <2>1, <1>b DEF CommitDelete, Lives, Owners, NoBoard
  <2>3. Grants' \subseteq Grants /\ \A g \in Grants \ Grants' : g[2] = c.board
    BY <1>8 DEF CommitDelete, Grants
  <2>4. Members' = {m \in Members : m[2] # c.board}
    BY <1>8 DEF CommitDelete, Members
  <2>5. Rules!Delete(c.board)
    BY <2>1, <2>2, <2>3, <2>4 DEF Rules!Delete, Lives, Live
  <2> QED
    BY <2>1, <2>5 DEF Rules!Next
<1>9. CASE ~(\/ BeginCreate(h) \/ CommitDuplicate(h) \/ CommitRequest(h)
             \/ MailInvite(h) \/ CommitApprove(h) \/ CommitAccept(h)
             \/ CommitCreate(h) \/ CommitRemove(h) \/ CommitLeave(h)
             \/ CommitDelete(h))
  <2>1. Lives' = Lives /\ Owners' = Owners /\ Grants' = Grants
    BY <1>9, <1>i, BoardsKept, GrantsKept
  <2>2. Members' = Members
    <3>1. boardusers' = boardusers \/ CommitRole(h)
      BY <1>9, WritesMembers
    <3> QED
      BY <3>1, <1>i, MembersKept DEF Members
  <2> QED
    BY <2>1, <2>2 DEF Rules!vars
<1> QED
  BY <1>1, <1>2, <1>3, <1>4, <1>5, <1>6, <1>7, <1>8, <1>9

\* Whatever the handlers have read and however their steps interleave, what
\* they do to boards and members is a sequence of rules, each applied where it
\* is allowed: a member comes in while the board lives and by his own grant.
THEOREM AccessImplemented == Spec => ImplementsAccess
<1>1. Init => Rules!Init
  BY DEF Init, Rules!Init, Lives, Owners, Grants, Members, NoBoard
<1>2. DecisionsInv /\ [Next]_vars => [Rules!Next]_Rules!vars
  <2> SUFFICES ASSUME DecisionsInv, [Next]_vars
               PROVE  Rules!Next \/ UNCHANGED Rules!vars
    OBVIOUS
  <2>1. CASE UNCHANGED vars
    BY <2>1 DEF vars, Rules!vars, Lives, Owners, Grants, Members
  <2> QED
    BY <2>1, StepRules DEF Next
<1> QED
  BY <1>1, <1>2, InitDecisions, NextDecisions, PTL DEF Spec, ImplementsAccess, Rules!Spec

-----------------------------------------------------------------------------
(* One board at a time.  A handler remembers the row it will write by its   *)
(* key; the invariant is that the row of that key is, if there still is     *)
(* one, a row of the board the handler works on.                            *)

Rows == boardusers \cup requests \cup invitations

KeyBoard == \A x, y \in Rows : x.uid = y.uid => x.board = y.board

RowsOnBoard ==
    \A g \in Handlers, x \in Rows : x.uid = calls[g].row => x.board = calls[g].board

BoardsInv == KeyBoard /\ RowsOnBoard

\* The steps that write to invitations.
LEMMA WritesInvitations ==
    ASSUME NEW h \in Handlers, Step(h)
    PROVE  \/ invitations' = invitations
           \/ CommitInvite(h) \/ CommitAccept(h) \/ CommitDecline(h)
           \/ CommitDelete(h)
<1>1. CASE BeginOnBoard(h) \/ BeginOnUser(h) \/ Fail(h)
  BY <1>1 DEF BeginOnBoard, BeginOnUser, Fail, tables
<1>2. CASE MembershipStep(h)
  BY <1>2 DEF MembershipStep, LoadMember, LoadRequest, CommitRole, CommitRemove,
     BeginLeave, CommitLeave, BeginRequest, CheckNotMember, CheckNoRequest,
     CommitRequest, CommitApprove, CommitReject, tables
<1>3. CASE InvitationsStep(h)
  BY <1>3 DEF InvitationsStep, MailInvite, BeginReply, tables
<1>4. CASE LifecycleStep(h)
  BY <1>4 DEF LifecycleStep, BeginCreate, CommitCreate, LoadBoard,
     CommitDuplicate, CommitArchive, BeginUnarchive, CommitUnarchive,
     CommitVisibility, tables
<1> QED
  BY <1>1, <1>2, <1>3, <1>4 DEF Step

LEMMA InvitationsFall ==
    ASSUME NEW h \in Handlers, Step(h), ~CommitInvite(h)
    PROVE  invitations' \subseteq invitations
BY WritesInvitations DEF CommitAccept, CommitDecline, CommitDelete

LEMMA InvitationRows ==
    ASSUME NEW h \in Handlers, Step(h)
    PROVE  \A i \in invitations' : i \in invitations \/ Fresh(i.uid)
<1>1. CASE CommitInvite(h)
  <2>1. \A i \in invitations' : i \in invitations \/ i.uid = FreshUid
    BY <1>1 DEF CommitInvite
  <2>2. Fresh(FreshUid)
    BY <1>1, FreshKey DEF CommitInvite
  <2> QED
    BY <2>1, <2>2
<1> QED
  BY <1>1, InvitationsFall

\* A row has its key and its board from an earlier one, or is new, on the board
\* of the handler that steps.
LEMMA RowsEvolve ==
    ASSUME Typed, NEW h \in Handlers, Step(h)
    PROVE  \A x \in Rows' : \/ \E y \in Rows : x.uid = y.uid /\ x.board = y.board
                            \/ Fresh(x.uid) /\ x.board = calls[h].board
<1>1. ASSUME NEW x \in boardusers'
      PROVE  \/ \E y \in boardusers : x.uid = y.uid /\ x.board = y.board
             \/ Fresh(x.uid) /\ x.board = calls[h].board
  <2>1. CASE CommitRole(h)
    BY <2>1, RoleRows
  <2>2. CASE CommitRemove(h) \/ CommitLeave(h) \/ CommitDelete(h)
    BY <2>2 DEF CommitRemove, CommitLeave, CommitDelete, Without
  <2>3. CASE CommitApprove(h) \/ CommitAccept(h) \/ CommitCreate(h)
    <3>1. Fresh(FreshUid)
      BY <2>3, FreshKey DEF CommitApprove, CommitAccept, CommitCreate
    <3>2. \A m \in boardusers' \ boardusers :
              m.uid = FreshUid /\ m.board = calls[h].board
      BY <2>3 DEF CommitApprove, CommitAccept, CommitCreate
    <3> QED
      BY <3>1, <3>2
  <2> QED
    BY <2>1, <2>2, <2>3, WritesMembers
<1>2. ASSUME NEW x \in requests'
      PROVE  \/ \E y \in requests : x.uid = y.uid /\ x.board = y.board
             \/ Fresh(x.uid) /\ x.board = calls[h].board
  <2>1. CASE CommitRequest(h)
    <3>1. Fresh(FreshUid)
      BY <2>1, FreshKey DEF CommitRequest
    <3>2. \A r \in requests' \ requests :
              r.uid = FreshUid /\ r.board = calls[h].board
      BY <2>1 DEF CommitRequest
    <3> QED
      BY <3>1, <3>2
  <2>2. CASE CommitApprove(h)
    BY <2>2, SetStatusRows DEF CommitApprove
  <2>3. CASE CommitReject(h)
    BY <2>3, SetStatusRows DEF CommitReject
  <2>4. CASE CommitDelete(h)
    BY <2>4 DEF CommitDelete
  <2> QED
    BY <2>1, <2>2, <2>3, <2>4, WritesRequests
<1>3. ASSUME NEW x \in invitations'
      PROVE  \/ x \in invitations
             \/ Fresh(x.uid) /\ x.board = calls[h].board
  <2>1. CASE CommitInvite(h)
    <3>1. \A i \in invitations' \ invitations : i.board = calls[h].board
      BY <2>1 DEF CommitInvite
    <3> QED
      BY <3>1, InvitationRows
  <2>2. CASE ~CommitInvite(h)
    BY <2>2, InvitationsFall
  <2> QED
    BY <2>1, <2>2
<1> QED
  BY <1>1, <1>2, <1>3 DEF Rows

\* What a handler remembers is a row it loaded on its board: the only
\* membership of a user there, or a row of another table.
LEMMA RowLoaded ==
    ASSUME Typed, NEW h \in Handlers, Step(h)
    PROVE  \/ calls'[h].row = None
           \/ calls'[h].row = calls[h].row /\ calls'[h].board = calls[h].board
           \/ \E u : \E m \in boardusers :
                 Memberships(u, calls'[h].board) = {m} /\ calls'[h].row = m.uid
           \/ \E r \in requests :
                 calls'[h].row = r.uid /\ calls'[h].board = r.board
           \/ \E t : \E i \in invitations :
                 /\ Matching(t) = {i}
                 /\ calls'[h].row = i.uid /\ calls'[h].board = i.board
<1>t. /\ calls \in [Handlers -> Call] /\ calls[h] \in Call
      /\ Idle.row = None /\ Idle \in Call
  BY IdleType DEF Typed, TypeOK, Idle
<1>1. CASE BeginOnBoard(h)
  <2>1. PICK op \in OnBoard, u \in Users, b \in Boards :
            Begin(h, op, [Idle EXCEPT !.pc = "checked", !.board = b,
                              !.user = IF op = "duplicate" THEN u ELSE None])
    BY <1>1 DEF BeginOnBoard
  <2> QED
    BY <1>t, <2>1 DEF Begin, Idle
<1>2. CASE BeginOnUser(h)
  <2>1. PICK op \in OnUser, u \in Users, t \in Users, b \in Boards :
            Begin(h, op, [Idle EXCEPT !.pc = "checked", !.board = b, !.target = t,
                              !.user = IF op = "invite" THEN u ELSE None])
    BY <1>2 DEF BeginOnUser
  <2> QED
    BY <1>t, <2>1 DEF Begin, Idle
<1>3. CASE BeginLeave(h)
  <2>1. PICK u \in Users, b \in Boards, m \in boardusers :
            /\ Memberships(u, b) = {m}
            /\ Begin(h, "leave", [Idle EXCEPT !.pc = "ready", !.board = b,
                                              !.row = m.uid])
    BY <1>3 DEF BeginLeave
  <2>2. calls'[h].row = m.uid /\ calls'[h].board = b
    BY <1>t, <2>1 DEF Begin, Idle
  <2> QED
    BY <2>1, <2>2
<1>4. CASE BeginReply(h)
  <2>1. PICK op \in {"accept", "decline"}, t \in mailed, i \in invitations :
            /\ Matching(t) = {i}
            /\ Begin(h, op, [Idle EXCEPT !.pc = "ready", !.user = t.user,
                     !.target = t.recipient, !.board = t.board, !.row = i.uid])
    BY <1>4 DEF BeginReply
  <2>2. calls'[h].row = i.uid /\ calls'[h].board = t.board
    BY <1>t, <2>1 DEF Begin, Idle
  <2>3. i.board = t.board
    BY <2>1 DEF Matching
  <2> QED
    BY <2>1, <2>2, <2>3
<1>5. CASE BeginRequest(h) \/ BeginUnarchive(h) \/ BeginCreate(h)
  <2>1. CASE BeginRequest(h)
    BY <1>t, <2>1 DEF BeginRequest, Begin, Idle
  <2>2. CASE BeginUnarchive(h)
    BY <1>t, <2>2 DEF BeginUnarchive, Begin, Idle
  <2>3. CASE BeginCreate(h)
    BY <1>t, <2>3 DEF BeginCreate, Begin, Idle
  <2> QED
    BY <1>5, <2>1, <2>2, <2>3
<1>6. CASE LoadMember(h)
  <2>1. PICK m \in boardusers :
            /\ Memberships(calls[h].target, calls[h].board) = {m}
            /\ calls' = [calls EXCEPT ![h].pc = "ready", ![h].row = m.uid,
                                      ![h].was = m.role]
    BY <1>6 DEF LoadMember
  <2>2. calls'[h].row = m.uid /\ calls'[h].board = calls[h].board
    BY <1>t, <2>1 DEF Call
  <2> QED
    BY <2>1, <2>2
<1>7. CASE LoadRequest(h)
  <2>1. PICK r \in requests :
            /\ RequestsOf(calls[h].target, calls[h].board) = {r}
            /\ calls' = [calls EXCEPT ![h].pc = "ready", ![h].row = r.uid,
                                      ![h].was = r.status]
    BY <1>7 DEF LoadRequest
  <2>2. calls'[h].row = r.uid /\ calls'[h].board = calls[h].board
    BY <1>t, <2>1 DEF Call
  <2>3. r.board = calls[h].board
    BY <2>1 DEF RequestsOf
  <2> QED
    BY <2>2, <2>3
<1>8. CASE CheckNotMember(h) \/ CheckNoRequest(h) \/ MailInvite(h) \/ LoadBoard(h)
  BY <1>t, <1>8 DEF CheckNotMember, CheckNoRequest, MailInvite, LoadBoard, Call
<1>9. CASE Fail(h) \/ CommitRole(h) \/ CommitRemove(h) \/ CommitLeave(h)
           \/ CommitRequest(h) \/ CommitApprove(h) \/ CommitReject(h)
  BY <1>9, <1>t DEF Fail, CommitRole, CommitRemove, CommitLeave,
     CommitRequest, CommitApprove, CommitReject, Finish
<1>10. CASE CommitInvite(h) \/ CommitAccept(h) \/ CommitDecline(h)
            \/ CommitCreate(h) \/ CommitDuplicate(h) \/ CommitArchive(h)
            \/ CommitUnarchive(h) \/ CommitVisibility(h) \/ CommitDelete(h)
  BY <1>10, <1>t DEF CommitInvite, CommitAccept, CommitDecline, CommitCreate,
     CommitDuplicate, CommitArchive, CommitUnarchive, CommitVisibility,
     CommitDelete, Finish
<1> QED
  BY <1>1, <1>2, <1>3, <1>4, <1>5, <1>6, <1>7, <1>8, <1>9, <1>10
     DEF Step, MembershipStep, InvitationsStep, LifecycleStep

LEMMA StepOnBoards ==
    ASSUME Typed, BoardsInv, NEW h \in Handlers, Step(h)
    PROVE  BoardsInv'
<1>e. \A x \in Rows' : \/ \E y \in Rows : x.uid = y.uid /\ x.board = y.board
                       \/ Fresh(x.uid) /\ x.board = calls[h].board
  BY RowsEvolve
<1>f. \A uid : Fresh(uid) => /\ \A y \in Rows : y.uid # uid
                             /\ \A g \in Handlers : calls[g].row # uid
  BY DEF Fresh, Rows
<1>1. KeyBoard'
  BY <1>e, <1>f DEF BoardsInv, KeyBoard
<1>2. ASSUME NEW g \in Handlers, NEW x \in Rows', x.uid = calls'[g].row
      PROVE  x.board = calls'[g].board
  <2>1. CASE calls'[g].row = calls[g].row /\ calls'[g].board = calls[g].board
    BY <1>2, <1>e, <1>f, <2>1 DEF BoardsInv, RowsOnBoard
  <2>2. CASE g # h
    BY <2>1, <2>2, StepFrame DEF Typed, TypeOK
  <2>3. x.uid # None
    <3>1. Typed'
      BY NextTyped DEF Next
    <3> QED
      BY <3>1, NoneAssumption DEF Rows, Typed, TypeOK, BoardUser, Request, Invitation
  <2>4. ASSUME g = h, NEW y \in Rows, calls'[h].row = y.uid, calls'[h].board = y.board
        PROVE  x.board = calls'[g].board
    BY <1>2, <1>e, <1>f, <2>4 DEF BoardsInv, KeyBoard
  <2>5. CASE g = h
    BY <1>2, <2>1, <2>3, <2>4, <2>5, RowLoaded DEF Rows, Memberships
  <2> QED
    BY <2>2, <2>5
<1> QED
  BY <1>1, <1>2 DEF BoardsInv, RowsOnBoard

\* A step leaves every live board alone but the one its handler works on.
LEMMA StepElsewhere ==
    ASSUME Typed, BoardsInv, NEW h \in Handlers, Step(h),
           NEW b \in Boards, Live(b), b # calls[h].board
    PROVE  Untouched(b)
<1> DEFINE c == calls[h]
<1>c. c.pc # "idle" => c.board \in Boards
  BY DEF Typed, CallsFilled
<1>r. \A x \in Rows : x.uid = c.row => x.board # b
  BY DEF BoardsInv, RowsOnBoard
<1>1. boards'[b] = boards[b]
  <2>1. CASE BeginCreate(h)
    BY <2>1 DEF BeginCreate, Live, Typed, TypeOK
  <2>2. CASE CommitDuplicate(h)
    BY <2>2 DEF CommitDuplicate, Live, Typed, TypeOK
  <2>3. CASE CommitCreate(h) \/ CommitArchive(h)
    BY <2>3, <1>c DEF CommitCreate, CommitArchive, Typed, TypeOK
  <2>4. CASE CommitUnarchive(h) \/ CommitVisibility(h)
    BY <2>4, <1>c DEF CommitUnarchive, CommitVisibility, Typed, TypeOK
  <2>5. CASE CommitDelete(h)
    BY <2>5, <1>c DEF CommitDelete, Typed, TypeOK
  <2> QED
    BY <2>1, <2>2, <2>3, <2>4, <2>5, WritesBoards
<1>2. {m \in boardusers' : m.board = b} = {m \in boardusers : m.board = b}
  <2>r. \A m \in boardusers : m.uid = c.row => m.board # b
    BY <1>r DEF Rows
  <2>1. CASE CommitRole(h)
    <3>1. CASE boardusers' = boardusers
      BY <3>1
    <3>2. CASE boardusers' # boardusers
      <4>1. PICK m \in boardusers, role \in UserRole :
                /\ m.uid = c.row
                /\ boardusers' = Without(c.row) \cup {[m EXCEPT !.role = role]}
        BY <2>1, <3>2 DEF CommitRole
      <4> DEFINE n == [m EXCEPT !.role = role]
      <4>2. n.board # b
        BY <2>r, <4>1 DEF Typed, TypeOK, BoardUser
      <4>3. boardusers' = Without(c.row) \cup {n}
        BY <4>1
      <4> HIDE DEF n
      <4> QED
        BY <2>r, <4>2, <4>3 DEF Without
    <3> QED
      BY <3>1, <3>2
  <2>2. CASE CommitRemove(h) \/ CommitLeave(h)
    BY <2>r, <2>2 DEF CommitRemove, CommitLeave, Without
  <2>3. CASE CommitApprove(h) \/ CommitAccept(h) \/ CommitCreate(h)
    <3>1. /\ boardusers \subseteq boardusers'
          /\ \A m \in boardusers' \ boardusers : m.board = c.board
      BY <2>3 DEF CommitApprove, CommitAccept, CommitCreate
    <3> QED
      BY <3>1
  <2>4. CASE CommitDelete(h)
    BY <2>4 DEF CommitDelete
  <2> QED
    BY <2>1, <2>2, <2>3, <2>4, WritesMembers
<1>3. {r \in requests' : r.board = b} = {r \in requests : r.board = b}
  <2>r. \A r \in requests : r.uid = c.row => r.board # b
    BY <1>r DEF Rows
  <2>1. CASE CommitRequest(h)
    <3>1. /\ requests \subseteq requests'
          /\ \A r \in requests' \ requests : r.board = c.board
      BY <2>1 DEF CommitRequest
    <3> QED
      BY <3>1
  <2>2. ASSUME NEW status \in Decision, requests' = SetStatus(c.row, status)
        PROVE  {r \in requests' : r.board = b} = {r \in requests : r.board = b}
    <3>1. \A r \in requests : r.board = b => r \in requests'
      BY <2>r, <2>2, SetStatusDecides
    <3>2. \A r \in requests' : r.board = b => r \in requests
      BY <2>r, <2>2, SetStatusDecides DEF SameRow
    <3> QED
      BY <3>1, <3>2
  <2>3. CASE CommitApprove(h) \/ CommitReject(h)
    <3>1. \/ requests' = requests
          \/ \E status \in Decision : requests' = SetStatus(c.row, status)
      BY <2>3 DEF CommitApprove, CommitReject, Decision
    <3> QED
      BY <2>2, <3>1
  <2>4. CASE CommitDelete(h)
    BY <2>4 DEF CommitDelete
  <2> QED
    BY <2>1, <2>3, <2>4, WritesRequests
<1>4. {i \in invitations' : i.board = b} = {i \in invitations : i.board = b}
  <2>1. CASE CommitInvite(h)
    <3>1. /\ invitations \subseteq invitations'
          /\ \A i \in invitations' \ invitations : i.board = c.board
      BY <2>1 DEF CommitInvite
    <3> QED
      BY <3>1
  <2>2. CASE CommitAccept(h) \/ CommitDecline(h)
    BY <1>r, <2>2 DEF CommitAccept, CommitDecline, Rows
  <2>3. CASE CommitDelete(h)
    BY <2>3 DEF CommitDelete
  <2> QED
    BY <2>1, <2>2, <2>3, WritesInvitations
<1>5. audits'[b] = audits[b]
  <2>1. CASE CommitDelete(h)
    BY <2>1 DEF CommitDelete, Typed, TypeOK
  <2> QED
    BY <1>c, <2>1, WritesAudits, LoggedElsewhere
<1>6. notifications'[b] = notifications[b]
  <2>1. CASE CommitDelete(h)
    BY <2>1 DEF CommitDelete, Typed, TypeOK
  <2> QED
    BY <1>c, <2>1, WritesNotifications, NotifiedElsewhere
<1> QED
  BY <1>1, <1>2, <1>3, <1>4, <1>5, <1>6 DEF Untouched

LEMMA InitOnBoards == Init => BoardsInv
BY DEF Init, BoardsInv, KeyBoard, RowsOnBoard, Rows

LEMMA NextOnBoards == Typed /\ BoardsInv /\ [Next]_vars => BoardsInv'
<1>1. BoardsInv /\ UNCHANGED vars => BoardsInv'
  BY DEF vars, BoardsInv, KeyBoard, RowsOnBoard, Rows
<1> QED
  BY <1>1, StepOnBoards DEF Next

\* The rows a handler has loaded are written by their keys, after any number of
\* steps of others: it is still the handler's own board that they are on, and
\* no step changes anything of two live boards.
THEOREM BoardsAreApart == Spec => OneBoardAtATime
<1> DEFINE A == \A b, d \in Boards :
                  Live(b) /\ ~Untouched(b) /\ Live(d) /\ ~Untouched(d) => b = d
<1>1. Typed /\ BoardsInv /\ [Next]_vars => [A]_vars
  <2> SUFFICES ASSUME Typed, BoardsInv, NEW h \in Handlers, Step(h) PROVE A
    BY DEF Next
  <2> QED
    BY StepElsewhere
<1> QED
  BY <1>1, InitTyped, NextTyped, InitOnBoards, NextOnBoards, PTL DEF Spec, OneBoardAtATime
=============================================================================
