------------------------------ MODULE BoardApp ------------------------------
(***************************************************************************)
(* The board application: the handlers of Membership, Invitations and      *)
(* BoardLifecycle interleaved over one database, and what must hold of the *)
(* tables whatever the interleaving.                                       *)
(***************************************************************************)
EXTENDS Membership, Invitations, BoardLifecycle

Step(h) ==
    \/ BeginOnBoard(h)
    \/ BeginOnUser(h)
    \/ MembershipStep(h)
    \/ InvitationsStep(h)
    \/ LifecycleStep(h)
    \/ Fail(h)

Next == \E h \in Handlers : Step(h)

Spec == Init /\ [][Next]_vars

-----------------------------------------------------------------------------
(* Invariants *)

LiveBoards == {b \in Boards : Live(b)}

\* A deleted board leaves nothing behind, and nothing is ever filed under it
\* again: not by a handler that checked it, or loaded a row of it, before the
\* deletion committed.
RefIntegrity ==
    /\ \A m \in boardusers : Live(m.board)
    /\ \A r \in requests : Live(r.board)
    /\ \A i \in invitations : Live(i.board)
    /\ \A b \in Boards \ LiveBoards : /\ audits[b] = NoAudits
                                      /\ notifications[b] = NoNotifications

\* What entitles a user to a membership: owning the board, having asked to join
\* it or having been sent an invitation to it.
Granted(u, b) ==
    \/ u = boards[b].owner
    \/ RequestsOf(u, b) # {}
    \/ \E t \in mailed : t.recipient = u /\ t.board = b

\* Every membership has a grant, although the handler that inserts the row
\* relies on something it read some steps earlier.
NobodyJoinsUnasked == \A m \in boardusers : Granted(m.user, m.board)

\* A join request, its audit row and the owner's notification are committed
\* together: the three tables always tell the same number.
RequestLedger ==
    \A b \in LiveBoards :
        LET sent == Cardinality({r \in requests : r.board = b}) IN
        /\ sent = audits[b]["request_sent"]
        /\ sent = notifications[b][boards[b].owner]["request_received"]

\* Second requests of a user come from handlers that check at the same time,
\* and from nothing else: whatever sequence of calls went before, he never has
\* more requests to a board than there are handlers.
RequestsPerHandler ==
    \A u \in Users, b \in Boards :
        Cardinality(RequestsOf(u, b)) <= Cardinality(Handlers)

\* A decision reaches its requester: approved or rejected in the table means a
\* notification of that decision.
DecisionIsNotified ==
    \A r \in requests :
        r.status # "pending" =>
            LET decision == IF r.status = "approved" THEN "request_approved"
                            ELSE "request_rejected"
            IN  notifications[r.board][r.user][decision] > 0

\* A user's only request shows as pending exactly until its first decision: no
\* later write, of this handler or another, hides that it was decided.
PendingMeansUndecided ==
    \A r \in requests :
        /\ r.status = "pending"
        /\ RequestsOf(r.user, r.board) = {r}
        => /\ notifications[r.board][r.user]["request_approved"] = 0
           /\ notifications[r.board][r.user]["request_rejected"] = 0

\* The notifications of a type that were sent for a board, one by one.
NotificationsOf(b, t) ==
    UNION {{u} \X (1 .. notifications[b][u][t]) : u \in Users}

\* The memberships of a board never exceed the grants its log and its
\* notifications record, and none has vanished without a removal or a
\* departure in the log.  Two concurrent removals of a row log it twice, hence
\* the inequality.
MembershipLedger ==
    \A b \in LiveBoards :
        LET present == Cardinality({m \in boardusers : m.board = b})
            granted == audits[b]["board_created"] + audits[b]["member_added"]
                       + Cardinality(NotificationsOf(b, "invite_accepted"))
            ended == audits[b]["member_removed"] + audits[b]["member_left"]
        IN  present <= granted /\ granted <= present + ended

\* Nothing but its own row is kept of the board.
Blank(b) ==
    /\ \A r \in boardusers \cup requests \cup invitations : r.board # b
    /\ audits[b] = NoAudits
    /\ notifications[b] = NoNotifications

\* Whoever created a board finds it in his list: he is a member of it until the
\* log has a removal or a departure.  Two other kinds of board have no creation
\* in their log, those that are half created and copies: nobody can name them,
\* and nothing is ever filed under them, unless everybody was shown them.
CreatorsAreMembers ==
    \A b \in LiveBoards :
        IF audits[b]["board_created"] > 0
        THEN audits[b]["member_removed"] + audits[b]["member_left"] = 0
                 => Memberships(boards[b].owner, b) # {}
        ELSE boards[b].known \/ Blank(b)

\* A link that is used twice makes a member twice only in handlers that loaded
\* the invitation at the same time: of one invitation come at most as many
\* acceptances as there are handlers, whatever sequence of calls went before.
AcceptancesPerHandler ==
    \A b \in LiveBoards :
        Cardinality(NotificationsOf(b, "invite_accepted")) <=
            Cardinality(Handlers) * Cardinality(NotificationsOf(b, "invite_received"))

\* A membership that ends twice in the log ends in handlers that loaded it at
\* the same time: each that was granted ends at most once in each handler.
EndsPerHandler ==
    \A b \in LiveBoards :
        LET granted == audits[b]["board_created"] + audits[b]["member_added"]
                       + Cardinality(NotificationsOf(b, "invite_accepted"))
        IN  audits[b]["member_removed"] + audits[b]["member_left"] <=
                Cardinality(Handlers) * granted

\* An invitation can be answered and is known of: its link was handed to the
\* mail queue before it was committed, and its recipient has a notification for
\* each invitation that is still open.
InvitationReachesRecipient ==
    \A i \in invitations :
        LET open == {j \in invitations : /\ j.recipient = i.recipient
                                        /\ j.board = i.board}
        IN  /\ \E t \in mailed : i \in Matching(t)
            /\ Cardinality(open) <=
                   notifications[i.board][i.recipient]["invite_received"]

\* Nobody holds a role by accident: an admin, and an "owner" who does not own
\* the board, was given the role by a change that the log has and that this
\* very user was notified of.
RoleIsExplained ==
    \A m \in boardusers :
        \/ m.role = "admin"
        \/ m.role = "owner" /\ m.user # boards[m.board].owner
        => /\ audits[m.board]["member_role_changed"] > 0
           /\ notifications[m.board][m.user]["role_changed"] > 0

\* A board that has only ever been created and used, not copied, shows as
\* archived only with an archive action in its log, however archive and
\* unarchive handlers overlap.
ArchivedIsAudited ==
    \A b \in LiveBoards :
        boards[b].archived /\ audits[b]["board_created"] > 0
            => audits[b]["board_archived"] > 0

-----------------------------------------------------------------------------
(* Action properties *)

\* A user with two memberships of a board, neither loaded by a handler still
\* under way: every handler reads them with one_or_none and raises.
Stuck(u, b) ==
    /\ ~AtMostOne(Memberships(u, b))
    /\ \A h \in Handlers, m \in Memberships(u, b) : calls[h].row # m.uid

\* Such a user can neither leave, be removed nor have a role changed again,
\* until the board itself is deleted.
DuplicateIsPermanent ==
    [][\A u \in Users, b \in Boards :
        Stuck(u, b) => \/ ~Live(b)'
                       \/ /\ Stuck(u, b)'
                          /\ Memberships(u, b) \subseteq Memberships(u, b)'
      ]_vars

\* A link that two invitations answer to, neither loaded by a handler still under
\* way: every handler that opens it finds two and raises.
Ambiguous(t) ==
    /\ ~AtMostOne(Matching(t))
    /\ \A h \in Handlers, i \in Matching(t) : calls[h].row # i.uid

\* A second invitation of the same sender spoils the link of the first for good:
\* it can neither be accepted nor declined any more, and both invitations stay
\* until the board itself is deleted.
SecondInvitationIsPermanent ==
    [][\A t \in mailed :
        Ambiguous(t) => \/ ~Live(t.board)'
                        \/ /\ Ambiguous(t)'
                           /\ Matching(t) \subseteq Matching(t)'
      ]_vars

\* A deleted board stays deleted and a live one never changes hands: no handler
\* that loaded the board before the deletion writes it back.
GoneIsForever ==
    [][\A b \in Boards :
        /\ boards[b].life = "gone" => boards'[b] = boards[b]
        /\ Live(b) /\ Live(b)' => boards'[b].owner = boards[b].owner
      ]_vars

\* Everything that is kept of a board.
Untouched(b) ==
    /\ boards'[b] = boards[b]
    /\ {m \in boardusers' : m.board = b} = {m \in boardusers : m.board = b}
    /\ {r \in requests' : r.board = b} = {r \in requests : r.board = b}
    /\ {i \in invitations' : i.board = b} = {i \in invitations : i.board = b}
    /\ audits'[b] = audits[b]
    /\ notifications'[b] = notifications[b]

\* No operation reaches into a second board: the rows a handler remembers by
\* their keys alone are rows of the board it was allowed to change, and the
\* cascade of a deletion stops at its own board.
OneBoardAtATime ==
    [][\A b, d \in Boards :
        Live(b) /\ ~Untouched(b) /\ Live(d) /\ ~Untouched(d) => b = d
      ]_vars

\* A decided request is never undecided again while its board lives.
DecidedStaysDecided ==
    [][\A r \in requests :
        r.status # "pending" =>
            \/ ~Live(r.board)'
            \/ \E s \in requests' : s.uid = r.uid /\ s.status # "pending"
      ]_vars

-----------------------------------------------------------------------------
(* The abstract specification *)

Lives == [b \in Boards |-> boards[b].life]
Owners == [b \in Boards |-> boards[b].owner]
Grants == {<<r.user, r.board>> : r \in requests}
          \cup {<<t.recipient, t.board>> : t \in mailed}
Members == {<<m.user, m.board>> : m \in boardusers}

Rules == INSTANCE Access WITH life <- Lives, owner <- Owners, granted <- Grants,
                              members <- Members, NoOne <- None

\* The interleaved handlers do to owners, grants and members what one rule at a
\* time may do: whoever is let in has his grant, and the board lives, at the
\* moment of the commit, not when the handler looked.
ImplementsAccess == Rules!Spec

-----------------------------------------------------------------------------
(* What the documentation or the code's own reads say, and the code does   *)
(* not keep: each is the property of a run that TLC finds violated.        *)

\* one_or_none on (user, board), everywhere a membership is loaded by its
\* user, says there is at most one.
OneMembershipPerUser ==
    \A u \in Users, b \in Boards : AtMostOne(Memberships(u, b))

\* one_or_none on (user, board), where a request is loaded for its decision,
\* and the refusal of a second request, say there is at most one.
OneRequestPerUser ==
    \A u \in Users, b \in Boards : AtMostOne(RequestsOf(u, b))
=============================================================================
