-------------------------------- MODULE Inbox --------------------------------
(***************************************************************************)
(* What stored notifications promise, without handlers, sessions or        *)
(* sockets: a message is posted once, to all its recipients in one step;   *)
(* a user marks as read only rows that are his and still there; rows go    *)
(* only with their board.                                                  *)
(***************************************************************************)
CONSTANTS Users, Messages, Boards

VARIABLES
    rows,   \* the notifications: message, user and board
    read,   \* those marked as read
    posted, \* messages that have been posted
    live    \* boards that exist

vars == <<rows, read, posted, live>>

Init ==
    /\ rows = {}
    /\ read = {}
    /\ posted = {}
    /\ live = Boards

Post(m, b, to) ==
    /\ m \notin posted
    /\ b \in live
    /\ posted' = posted \cup {m}
    /\ rows' = rows \cup [message : {m}, user : to, board : {b}]
    /\ UNCHANGED <<read, live>>

MarkRead(u) ==
    /\ read' \in {read \cup some : some \in SUBSET {r \in rows : r.user = u}}
    /\ UNCHANGED <<rows, posted, live>>

Remove(b) ==
    /\ b \in live
    /\ live' = live \ {b}
    /\ rows' = {r \in rows : r.board # b}
    /\ read' = {r \in read : r.board # b}
    /\ UNCHANGED posted

Next ==
    \/ \E m \in Messages, b \in Boards, to \in SUBSET Users : Post(m, b, to)
    \/ \E u \in Users : MarkRead(u)
    \/ \E b \in Boards : Remove(b)

Spec == Init /\ [][Next]_vars
=============================================================================
