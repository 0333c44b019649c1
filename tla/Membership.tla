----------------------------- MODULE Membership -----------------------------
(***************************************************************************)
(* How users become and stop being members of a board, invitations apart:  *)
(* the join request and its decision, the change of a role, the removal    *)
(* and the departure of a member.  One operator per handler step, over the *)
(* tables of BoardTables.                                                  *)
(***************************************************************************)
EXTENDS BoardTables

\* Faulty: the status is not assigned.
KeepStatus(uid, status) == requests

\* Faulty: a status outside the decisions.
Expire(uid, status) ==
    {IF r.uid = uid THEN [r EXCEPT !.status = "expired"] ELSE r : r \in requests}

\* Faulty: every request of the board is decided.
SetAllStatus(uid, status) ==
    {IF \E s \in requests : s.uid = uid /\ s.board = r.board
     THEN [r EXCEPT !.status = status] ELSE r : r \in requests}

\* Faulty: a second decision withdraws the first.
ToggleStatus(uid, status) ==
    {IF r.uid # uid THEN r ELSE [r EXCEPT !.status =
        IF r.status = "pending" THEN status ELSE "pending"] : r \in requests}

SetStatus(uid, status) ==
    {IF r.uid = uid THEN [r EXCEPT !.status = status] ELSE r : r \in requests}

\* Faulty: every membership of the user goes.
WithoutUser(uid) ==
    {m \in boardusers : ~\E n \in boardusers : n.uid = uid /\ n.user = m.user}

\* Faulty: session.delete is a coroutine, and nobody awaits it.
WithoutNobody(uid) == boardusers

Without(uid) == {m \in boardusers : m.uid # uid}

-----------------------------------------------------------------------------
(* What the second SELECT of a handler loads *)

\* Faulty: the first of several memberships will do.
LoadFirstMember(h) ==
    LET c == calls[h] IN
    /\ c.pc = "checked"
    /\ c.op \in {"role", "remove"}
    /\ \E m \in Memberships(c.target, c.board) :
        calls' = [calls EXCEPT ![h].pc = "ready", ![h].row = m.uid,
                               ![h].was = m.role]
    /\ UNCHANGED <<tables, mailed, served>>

\* The only membership of the target, or an error.
LoadMember(h) ==
    LET c == calls[h] IN
    /\ c.pc = "checked"
    /\ c.op \in {"role", "remove"}
    /\ \E m \in boardusers :
        /\ Memberships(c.target, c.board) = {m}
        /\ calls' = [calls EXCEPT ![h].pc = "ready", ![h].row = m.uid,
                                  ![h].was = m.role]
    /\ UNCHANGED <<tables, mailed, served>>

\* Faulty: any request to the board lets the target in.
LoadAnyRequest(h) ==
    LET c == calls[h] IN
    /\ c.pc = "checked"
    /\ c.op \in {"approve", "reject"}
    /\ \E r \in requests :
        /\ r.board = c.board
        /\ calls' = [calls EXCEPT ![h].pc = "ready", ![h].row = r.uid,
                                  ![h].was = r.status]
    /\ UNCHANGED <<tables, mailed, served>>

\* The only join request of the target, whatever its status, or an error.
LoadRequest(h) ==
    LET c == calls[h] IN
    /\ c.pc = "checked"
    /\ c.op \in {"approve", "reject"}
    /\ \E r \in requests :
        /\ RequestsOf(c.target, c.board) = {r}
        /\ calls' = [calls EXCEPT ![h].pc = "ready", ![h].row = r.uid,
                                  ![h].was = r.status]
    /\ UNCHANGED <<tables, mailed, served>>

-----------------------------------------------------------------------------
(* Members *)

\* update_board_member_roles
CommitRole(h) ==
    LET c == calls[h] IN
    /\ c.pc = "ready"
    /\ c.op = "role"
    /\ Live(c.board)
    /\ \E role \in UserRole :
        \/ /\ role = c.was
           /\ UNCHANGED boardusers
        \/ /\ role # c.was
           /\ \E m \in boardusers :
                /\ m.uid = c.row
                /\ boardusers' = Without(c.row) \cup {[m EXCEPT !.role = role]}
    /\ audits' = Logged(c.board, {"member_role_changed"})
    /\ notifications' = Notified(c.board, c.target, "role_changed")
    /\ Finish(h)
    /\ UNCHANGED <<boards, requests, invitations, mailed>>

\* remove_member
CommitRemove(h) ==
    LET c == calls[h] IN
    /\ c.pc = "ready"
    /\ c.op = "remove"
    /\ Live(c.board)
    /\ boardusers' = Without(c.row)
    /\ audits' = Logged(c.board, {"member_removed"})
    /\ notifications' = Notified(c.board, c.target, "member_removed")
    /\ Finish(h)
    /\ UNCHANGED <<boards, requests, invitations, mailed>>

\* user_leave_board, which no permission check precedes
BeginLeave(h) ==
    \E u \in Users, b \in Boards, m \in boardusers :
        /\ Memberships(u, b) = {m}
        /\ Begin(h, "leave", [Idle EXCEPT !.pc = "ready", !.board = b,
                                          !.row = m.uid])
        /\ UNCHANGED <<tables, mailed>>

CommitLeave(h) ==
    LET c == calls[h] IN
    /\ c.pc = "ready"
    /\ c.op = "leave"
    /\ Live(c.board)
    /\ boardusers' = Without(c.row)
    /\ audits' = Logged(c.board, {"member_left"})
    /\ Finish(h)
    /\ UNCHANGED <<boards, requests, invitations, notifications, mailed>>

-----------------------------------------------------------------------------
(* Join requests *)

\* request_public_board_join reads the board, then the membership, then an
\* earlier request.
BeginRequest(h) ==
    \E u \in Users, b \in Boards :
        /\ Live(b)
        /\ boards[b].public
        /\ ~boards[b].archived
        /\ Begin(h, "request", [Idle EXCEPT !.pc = "checked", !.target = u,
                                            !.board = b])
        /\ UNCHANGED <<tables, mailed>>

CheckNotMember(h) ==
    LET c == calls[h] IN
    /\ c.pc = "checked"
    /\ c.op = "request"
    /\ Memberships(c.target, c.board) = {}
    /\ calls' = [calls EXCEPT ![h].pc = "outsider"]
    /\ UNCHANGED <<tables, mailed, served>>

\* Faulty: an earlier request is no obstacle.
CheckNothing(h) ==
    LET c == calls[h] IN
    /\ c.pc = "outsider"
    /\ c.op = "request"
    /\ calls' = [calls EXCEPT ![h].pc = "ready"]
    /\ UNCHANGED <<tables, mailed, served>>

CheckNoRequest(h) ==
    LET c == calls[h] IN
    /\ c.pc = "outsider"
    /\ c.op = "request"
    /\ RequestsOf(c.target, c.board) = {}
    /\ calls' = [calls EXCEPT ![h].pc = "ready"]
    /\ UNCHANGED <<tables, mailed, served>>

CommitRequest(h) ==
    LET c == calls[h] IN
    /\ c.pc = "ready"
    /\ c.op = "request"
    /\ CanInsert(c.board)
    /\ requests' = requests \cup {[uid |-> FreshUid, user |-> c.target,
                                   board |-> c.board, status |-> "pending"]}
    /\ audits' = Logged(c.board, {"request_sent"})
    /\ notifications' =
           Notified(c.board, boards[c.board].owner, "request_received")
    /\ Finish(h)
    /\ UNCHANGED <<boards, boardusers, invitations, mailed>>

\* approve_join_request looks at neither the status nor the memberships.
CommitApprove(h) ==
    LET c == calls[h] IN
    /\ c.pc = "ready"
    /\ c.op = "approve"
    /\ CanInsert(c.board)
    /\ requests' = IF c.was = "approved" THEN requests
                   ELSE SetStatus(c.row, "approved")
    /\ boardusers' = boardusers \cup {[uid |-> FreshUid, user |-> c.target,
                                       board |-> c.board, role |-> "member"]}
    /\ audits' = Logged(c.board, {"request_approved", "member_added"})
    /\ notifications' = Notified(c.board, c.target, "request_approved")
    /\ Finish(h)
    /\ UNCHANGED <<boards, invitations, mailed>>

\* reject_join_request
CommitReject(h) ==
    LET c == calls[h] IN
    /\ c.pc = "ready"
    /\ c.op = "reject"
    /\ Live(c.board)
    /\ requests' = IF c.was = "rejected" THEN requests
                   ELSE SetStatus(c.row, "rejected")
    /\ audits' = Logged(c.board, {"request_rejected"})
    /\ notifications' = Notified(c.board, c.target, "request_rejected")
    /\ Finish(h)
    /\ UNCHANGED <<boards, boardusers, invitations, mailed>>

MembershipStep(h) ==
    \/ LoadMember(h)
    \/ LoadRequest(h)
    \/ CommitRole(h)
    \/ CommitRemove(h)
    \/ BeginLeave(h)
    \/ CommitLeave(h)
    \/ BeginRequest(h)
    \/ CheckNotMember(h)
    \/ CheckNoRequest(h)
    \/ CommitRequest(h)
    \/ CommitApprove(h)
    \/ CommitReject(h)
=============================================================================
