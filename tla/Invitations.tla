----------------------------- MODULE Invitations -----------------------------
(***************************************************************************)
(* Invitations by e-mail.  The sender's handler hands the mail to the      *)
(* Celery queue before it commits the invitation; the recipient answers    *)
(* with the signed link of the mail, which names the sender, the recipient *)
(* and the board, never expires and needs no login.                        *)
(***************************************************************************)
EXTENDS BoardTables

\* After the permission check the route asks whether the target is already a
\* member and ignores the answer; send_board_invite then queues the mail.
\* The worker may never deliver it, or much later: a link is only ever used
\* after this step, and need not be.
MailInvite(h) ==
    LET c == calls[h] IN
    /\ c.pc = "checked"
    /\ c.op = "invite"
    /\ mailed' = mailed \cup {[user |-> c.user, recipient |-> c.target,
                               board |-> c.board]}
    /\ calls' = [calls EXCEPT ![h].pc = "ready"]
    /\ UNCHANGED <<tables, served>>

CommitInvite(h) ==
    LET c == calls[h] IN
    /\ c.pc = "ready"
    /\ c.op = "invite"
    /\ CanInsert(c.board)
    /\ invitations' = invitations \cup {[uid |-> FreshUid, user |-> c.user,
                              recipient |-> c.target, board |-> c.board]}
    /\ notifications' = Notified(c.board, c.target, "invite_received")
    /\ Finish(h)
    /\ UNCHANGED <<boards, boardusers, requests, audits, mailed>>

\* Faulty: whoever holds the link answers for himself.
BeginReplyAsAnyone(h) ==
    \E op \in {"accept", "decline"}, u \in Users, t \in mailed, i \in invitations :
        /\ Matching(t) = {i}
        /\ Begin(h, op, [Idle EXCEPT !.pc = "ready", !.user = t.user,
                             !.target = u, !.board = t.board, !.row = i.uid])
        /\ UNCHANGED <<tables, mailed>>

\* Faulty: any of the invitations the link names.
BeginReplyToAny(h) ==
    \E op \in {"accept", "decline"}, t \in mailed : \E i \in Matching(t) :
        /\ Begin(h, op, [Idle EXCEPT !.pc = "ready", !.user = t.user,
                     !.target = t.recipient, !.board = t.board, !.row = i.uid])
        /\ UNCHANGED <<tables, mailed>>

\* accept_or_reject_invitation loads the only invitation the link names.
BeginReply(h) ==
    \E op \in {"accept", "decline"}, t \in mailed, i \in invitations :
        /\ Matching(t) = {i}
        /\ Begin(h, op, [Idle EXCEPT !.pc = "ready", !.user = t.user,
                     !.target = t.recipient, !.board = t.board, !.row = i.uid])
        /\ UNCHANGED <<tables, mailed>>

\* Faulty: the row is set to accepted and kept.
CommitAcceptAgain(h) ==
    LET c == calls[h] IN
    /\ c.pc = "ready"
    /\ c.op = "accept"
    /\ CanInsert(c.board)
    /\ boardusers' = boardusers \cup {[uid |-> FreshUid, user |-> c.target,
                                       board |-> c.board, role |-> "member"]}
    /\ notifications' = Notified(c.board, c.user, "invite_accepted")
    /\ Finish(h)
    /\ UNCHANGED <<boards, requests, invitations, audits, mailed>>

\* The row is set to accepted, then deleted, so that only the DELETE is sent;
\* nothing is logged.
CommitAccept(h) ==
    LET c == calls[h] IN
    /\ c.pc = "ready"
    /\ c.op = "accept"
    /\ CanInsert(c.board)
    /\ boardusers' = boardusers \cup {[uid |-> FreshUid, user |-> c.target,
                                       board |-> c.board, role |-> "member"]}
    /\ invitations' = {i \in invitations : i.uid # c.row}
    /\ notifications' = Notified(c.board, c.user, "invite_accepted")
    /\ Finish(h)
    /\ UNCHANGED <<boards, requests, audits, mailed>>

CommitDecline(h) ==
    LET c == calls[h] IN
    /\ c.pc = "ready"
    /\ c.op = "decline"
    /\ invitations' = {i \in invitations : i.uid # c.row}
    /\ Finish(h)
    /\ UNCHANGED <<boards, boardusers, requests, audits, notifications, mailed>>

InvitationsStep(h) ==
    \/ MailInvite(h)
    \/ CommitInvite(h)
    \/ BeginReply(h)
    \/ CommitAccept(h)
    \/ CommitDecline(h)
=============================================================================
