--------------------------- MODULE BoardLifecycle ---------------------------
(***************************************************************************)
(* The life of a board: creation in two commits, copy, archive and         *)
(* unarchive, visibility, update and deletion with its cascades.  Titles   *)
(* and descriptions are left out.                                          *)
(***************************************************************************)
EXTENDS BoardTables

\* Faulty: boards are born archived.
NewArchivedBoard(u, archived, public) ==
    [life |-> "live", owner |-> u, archived |-> TRUE, public |-> public,
     known |-> public]

NewBoard(u, archived, public) ==
    [life |-> "live", owner |-> u, archived |-> archived, public |-> public,
     known |-> public]

\* create_board up to its first commit
BeginCreate(h) ==
    \E u \in Users, b \in Boards :
        /\ boards[b].life = "unborn"
        /\ Begin(h, "create", [Idle EXCEPT !.pc = "ready", !.user = u,
                                           !.board = b])
        /\ boards' = [boards EXCEPT ![b] = NewBoard(u, FALSE, FALSE)]
        /\ UNCHANGED <<boardusers, requests, invitations, audits,
                       notifications, mailed>>

\* The second commit makes the creator a member, whose list has the board.
CommitCreate(h) ==
    LET c == calls[h] IN
    /\ c.pc = "ready"
    /\ c.op = "create"
    /\ CanInsert(c.board)
    /\ boardusers' = boardusers \cup {[uid |-> FreshUid, user |-> c.user,
                                       board |-> c.board, role |-> "owner"]}
    /\ audits' = Logged(c.board, {"board_created"})
    /\ boards' = [boards EXCEPT ![c.board].known = TRUE]
    /\ Finish(h)
    /\ UNCHANGED <<requests, invitations, notifications, mailed>>

\* The board as the handler's own SELECT loads it, after the check.
LoadBoard(h) ==
    LET c == calls[h] IN
    /\ c.pc = "checked"
    /\ c.op \in OnBoard
    /\ Live(c.board)
    /\ calls' = [calls EXCEPT ![h].pc = "ready",
                              ![h].archived = boards[c.board].archived,
                              ![h].public = boards[c.board].public]
    /\ UNCHANGED <<tables, mailed, served>>

\* duplicate_board: the copy has an owner and no member.
CommitDuplicate(h) ==
    LET c == calls[h] IN
    /\ c.pc = "ready"
    /\ c.op = "duplicate"
    /\ Live(c.board)
    /\ \E b \in Boards :
        /\ boards[b].life = "unborn"
        /\ boards' = [boards EXCEPT ![b] = NewBoard(c.user, c.archived, c.public)]
    /\ audits' = Logged(c.board, {"board_duplicated"})
    /\ Finish(h)
    /\ UNCHANGED <<boardusers, requests, invitations, notifications, mailed>>

CommitArchive(h) ==
    LET c == calls[h] IN
    /\ c.pc = "ready"
    /\ c.op = "archive"
    /\ Live(c.board)
    /\ boards' = IF c.archived THEN boards
                 ELSE [boards EXCEPT ![c.board].archived = TRUE]
    /\ audits' = Logged(c.board, {"board_archived"})
    /\ Finish(h)
    /\ UNCHANGED <<boardusers, requests, invitations, notifications, mailed>>

\* Faulty: the board is written back although it is gone.
CommitUnarchiveBlindly(h) ==
    LET c == calls[h] IN
    /\ c.pc = "ready"
    /\ c.op = "unarchive"
    /\ boards' = [boards EXCEPT ![c.board].life = "live",
                                ![c.board].archived = FALSE]
    /\ Finish(h)
    /\ UNCHANGED <<boardusers, requests, invitations, audits, notifications,
                   mailed>>

\* unarchive_board looks only for an archived board.
BeginUnarchive(h) ==
    \E b \in Boards :
        /\ Reachable(b)
        /\ boards[b].archived
        /\ Begin(h, "unarchive", [Idle EXCEPT !.pc = "ready", !.board = b])
        /\ UNCHANGED <<tables, mailed>>

CommitUnarchive(h) ==
    LET c == calls[h] IN
    /\ c.pc = "ready"
    /\ c.op = "unarchive"
    /\ Live(c.board)
    /\ boards' = [boards EXCEPT ![c.board].archived = FALSE]
    /\ Finish(h)
    /\ UNCHANGED <<boardusers, requests, invitations, audits, notifications,
                   mailed>>

\* make_board_public_or_private, and update_board with "public" in its payload
CommitVisibility(h) ==
    LET c == calls[h] IN
    /\ c.pc = "ready"
    /\ c.op \in {"visibility", "update"}
    /\ Live(c.board)
    /\ \E public \in BOOLEAN :
        boards' = IF public = c.public THEN boards
                  ELSE [boards EXCEPT ![c.board].public = public,
                                      ![c.board].known = @ \/ public]
    /\ Finish(h)
    /\ UNCHANGED <<boardusers, requests, invitations, audits, notifications,
                   mailed>>

\* Faulty: the cascade reaches the memberships its members have elsewhere.
CommitDeleteOfMembers(h) ==
    LET c == calls[h]
        Elsewhere(rows) == {r \in rows : r.board # c.board}
        gone == {m.user : m \in {n \in boardusers : n.board = c.board}}
    IN
    /\ c.pc = "ready"
    /\ c.op = "delete"
    /\ Live(c.board)
    /\ boards' = [boards EXCEPT ![c.board] = NoBoard("gone")]
    /\ boardusers' = {m \in boardusers : m.user \notin gone}
    /\ requests' = Elsewhere(requests)
    /\ invitations' = Elsewhere(invitations)
    /\ audits' = [audits EXCEPT ![c.board] = NoAudits]
    /\ notifications' = [notifications EXCEPT ![c.board] = NoNotifications]
    /\ Finish(h)
    /\ UNCHANGED mailed

\* delete_board.  The flush inserts the audit row, which needs the board, then
\* deletes the memberships and the board, and the foreign keys delete every
\* other row of the board: the audit row just inserted among them.
CommitDelete(h) ==
    LET c == calls[h]
        Elsewhere(rows) == {r \in rows : r.board # c.board}
    IN
    /\ c.pc = "ready"
    /\ c.op = "delete"
    /\ Live(c.board)
    /\ boards' = [boards EXCEPT ![c.board] = NoBoard("gone")]
    /\ boardusers' = Elsewhere(boardusers)
    /\ requests' = Elsewhere(requests)
    /\ invitations' = Elsewhere(invitations)
    /\ audits' = [audits EXCEPT ![c.board] = NoAudits]
    /\ notifications' = [notifications EXCEPT ![c.board] = NoNotifications]
    /\ Finish(h)
    /\ UNCHANGED mailed

LifecycleStep(h) ==
    \/ BeginCreate(h)
    \/ CommitCreate(h)
    \/ LoadBoard(h)
    \/ CommitDuplicate(h)
    \/ CommitArchive(h)
    \/ BeginUnarchive(h)
    \/ CommitUnarchive(h)
    \/ CommitVisibility(h)
    \/ CommitDelete(h)
=============================================================================
