------------------------------ MODULE Delivery ------------------------------
(***************************************************************************)
(* Live and stored notifications: the registry of web sockets              *)
(* (src/websocket_manager.py), the endpoint that fills and empties it, the *)
(* handlers that push to it before they commit, and read-all.              *)
(*                                                                         *)
(* A call that notifies adds a row to its session and pushes to the socket *)
(* of the recipient, one recipient after the other, then commits all rows. *)
(* Every operation of the two services that notifies does so; which ones   *)
(* and why is BoardApp's concern, so here a call is a message to a set of  *)
(* users on a board.  The registry is a dictionary of the process: a       *)
(* restart empties it, closes every socket and loses every call.           *)
(***************************************************************************)
EXTENDS Naturals, FiniteSets

CONSTANTS
    Users,
    Clients,    \* those who open sockets and read; the others only fetch
    Sockets,    \* connections, numbered as they are opened
    Boards,
    Messages,   \* calls that notify, numbered as they are made
    Audiences,  \* the sets of users such a call may be for
    Handlers,
    None

ASSUME NumbersAssumption == Sockets \subseteq Nat /\ Messages \subseteq Nat
ASSUME ClientsAssumption == Clients \subseteq Users
ASSUME AudiencesAssumption == Audiences \subseteq SUBSET Users
ASSUME NoneAssumption == None \notin Sockets \cup Users \cup Boards \cup Messages

VARIABLES
    sockets,    \* the connections and what their endpoint is doing
    registry,   \* active_connections
    calls,      \* what each handler is doing
    posts,      \* what has become of the calls that notify
    rows,       \* table notifications
    read,       \* its rows with is_read
    live,       \* boards that are not deleted
    fetched     \* history: rows that GET /notifications has shown

db == <<rows, read, live>>
vars == <<sockets, registry, calls, posts, rows, read, live, fetched>>

-----------------------------------------------------------------------------
(* State *)

Row == [message : Messages, user : Users, board : Boards]

\* "open": registered, and the endpoint waits for a text.  "dropped": the client
\* is gone and the endpoint does not know yet.  "ended": the endpoint returned
\* on the first text, and the server closed the connection.  "gone": the
\* endpoint handled the disconnect.
Socket == [state : {"new", "open", "dropped", "ended", "gone"},
           user : Users \cup {None}]

\* todo: recipients still to be pushed to.  loaded: rows a read-all has loaded,
\* unread those it will write.
Call == [pc : {"idle", "sending", "reading"},
         message : Messages \cup {None},
         todo : SUBSET Users,
         user : Users \cup {None},
         loaded : SUBSET Row,
         unread : SUBSET Row]

Idle == [pc |-> "idle", message |-> None, todo |-> {}, user |-> None,
         loaded |-> {}, unread |-> {}]

Post == [fate : {"unsent", "running", "answered", "failed"},
         to : SUBSET Users,
         board : Boards \cup {None}]

Unsent == [fate |-> "unsent", to |-> {}, board |-> None]

TypeOK ==
    /\ sockets \in [Sockets -> Socket]
    /\ registry \in [Users -> Sockets \cup {None}]
    /\ calls \in [Handlers -> Call]
    /\ posts \in [Messages -> Post]
    /\ rows \subseteq Row
    /\ read \subseteq Row
    /\ live \subseteq Boards
    /\ fetched \subseteq Row

Init ==
    /\ sockets = [s \in Sockets |-> [state |-> "new", user |-> None]]
    /\ registry = [u \in Users |-> None]
    /\ calls = [h \in Handlers |-> Idle]
    /\ posts = [m \in Messages |-> Unsent]
    /\ rows = {}
    /\ read = {}
    /\ live = Boards
    /\ fetched = {}

RowsOf(u) == {r \in rows : r.user = u}

-----------------------------------------------------------------------------
(* Sockets *)

\* Faulty: the socket is accepted, the entry left as it was.
Accepted(s, u) == registry

Stored(s, u) == [registry EXCEPT ![u] = s]

\* manager.connect: accept, then the entry of the user is replaced.
Connect(s, u) ==
    /\ sockets[s].state = "new"
    /\ \A t \in Sockets : t < s => sockets[t].state # "new"
    /\ sockets' = [sockets EXCEPT ![s] = [state |-> "open", user |-> u]]
    /\ registry' = Stored(s, u)
    /\ UNCHANGED <<calls, posts, db, fetched>>

\* receive_text returns, and with it the endpoint, which disconnects nobody.
Text(s) ==
    /\ sockets[s].state = "open"
    /\ sockets' = [sockets EXCEPT ![s].state = "ended"]
    /\ UNCHANGED <<registry, calls, posts, db, fetched>>

\* The client closes the connection, or loses it.
Drop(s) ==
    /\ sockets[s].state = "open"
    /\ sockets' = [sockets EXCEPT ![s].state = "dropped"]
    /\ UNCHANGED <<registry, calls, posts, db, fetched>>

\* Faulty: the entry is left.
Kept(s) == registry

\* manager.disconnect: the entry of the user goes, whichever socket it holds.
Popped(s) == [registry EXCEPT ![sockets[s].user] = None]

\* WebSocketDisconnect
Notice(s) ==
    /\ sockets[s].state = "dropped"
    /\ sockets' = [sockets EXCEPT ![s].state = "gone"]
    /\ registry' = Popped(s)
    /\ UNCHANGED <<calls, posts, db, fetched>>

-----------------------------------------------------------------------------
(* Calls that notify *)

\* The permission check and the read of the recipients are over.
Begin(h, m, b, to) ==
    /\ calls[h] = Idle
    /\ posts[m] = Unsent
    /\ \A n \in Messages : n < m => posts[n] # Unsent
    /\ b \in live
    /\ posts' = [posts EXCEPT ![m] = [fate |-> "running", to |-> to, board |-> b]]
    /\ calls' = [calls EXCEPT ![h] = [Idle EXCEPT !.pc = "sending", !.message = m,
                                                  !.todo = to]]
    /\ UNCHANGED <<sockets, registry, db, fetched>>

State(u) == IF registry[u] = None THEN "offline" ELSE sockets[registry[u]].state

\* Faulty: a recipient without a socket is tried again.
Again(h, u) == IF registry[u] = None THEN calls[h].todo ELSE calls[h].todo \ {u}

Rest(h, u) == calls[h].todo \ {u}

\* send_notification: the socket takes the push, or there is none.  A socket
\* whose client has just gone may still take it.
Push(h, u) ==
    /\ calls[h].pc = "sending"
    /\ u \in calls[h].todo
    /\ State(u) \in {"offline", "open", "dropped"}
    /\ calls' = [calls EXCEPT ![h].todo = Rest(h, u)]
    /\ UNCHANGED <<sockets, registry, posts, db, fetched>>

\* The call ends without a commit.
Abandon(h) ==
    /\ calls' = [calls EXCEPT ![h] = Idle]
    /\ posts' = IF calls[h].pc = "sending"
                THEN [posts EXCEPT ![calls[h].message].fate = "failed"] ELSE posts
    /\ UNCHANGED <<sockets, registry, db, fetched>>

\* The push raises, and the call with it.
PushRaises(h, u) ==
    /\ calls[h].pc = "sending"
    /\ u \in calls[h].todo
    /\ State(u) \in {"dropped", "ended"}
    /\ Abandon(h)

\* Faulty: recipients who are connected are not given a row.
OfflineRows(m) ==
    [message : {m}, user : {u \in posts[m].to : registry[u] = None}, board : {posts[m].board}]

NewRows(m) == [message : {m}, user : posts[m].to, board : {posts[m].board}]

\* All rows at once, for a board that still exists.
Commit(h) ==
    LET m == calls[h].message IN
    /\ calls[h].pc = "sending"
    /\ calls[h].todo = {}
    /\ posts[m].board \in live
    /\ rows' = rows \cup NewRows(m)
    /\ posts' = [posts EXCEPT ![m].fate = "answered"]
    /\ calls' = [calls EXCEPT ![h] = Idle]
    /\ UNCHANGED <<sockets, registry, read, live, fetched>>

-----------------------------------------------------------------------------
(* Reading *)

\* read-all loads the rows of its user
LoadAll(h, u) ==
    /\ calls[h] = Idle
    /\ RowsOf(u) # {}
    /\ calls' = [calls EXCEPT ![h] = [Idle EXCEPT !.pc = "reading", !.user = u,
                                 !.loaded = RowsOf(u), !.unread = RowsOf(u) \ read]]
    /\ UNCHANGED <<sockets, registry, posts, db, fetched>>

\* Faulty: every row of the user is marked, by one UPDATE.
MarkedAll(c) == RowsOf(c.user)

\* Faulty: the rows are found again by what they say.
MarkedAlike(c) == {r \in rows : \E l \in c.unread : l.message = r.message}

\* An UPDATE for each row that was not read when it was loaded and is still there.
Marked(c) == c.unread \cap rows

\* A single row to write, and it is gone.  The driver counts the rows of one
\* UPDATE; two or more go out as one batch, whose rows nobody counts.
Stale(c) == \E r \in c.unread \ rows : c.unread = {r}

CommitRead(h) ==
    LET c == calls[h] IN
    /\ c.pc = "reading"
    /\ ~Stale(c)
    /\ read' = read \cup Marked(c)
    /\ calls' = [calls EXCEPT ![h] = Idle]
    /\ UNCHANGED <<sockets, registry, posts, rows, live, fetched>>

\* GET /notifications, as many pages as there are
Fetch(u) ==
    /\ fetched' = fetched \cup RowsOf(u)
    /\ UNCHANGED <<sockets, registry, calls, posts, db>>

\* A notification for a board that is gone, or the update of one row that is.
Refuse(h) ==
    /\ \/ /\ calls[h].pc = "sending"
          /\ calls[h].todo = {}
          /\ posts[calls[h].message].board \notin live
       \/ /\ calls[h].pc = "reading"
          /\ Stale(calls[h])
    /\ Abandon(h)

-----------------------------------------------------------------------------
(* The rest of the world *)

\* Anything else that ends a call: a lost connection, an error of the database.
Fail(h) ==
    /\ calls[h] # Idle
    /\ Abandon(h)

\* delete_board, and the cascade to its notifications
DeleteBoard(b) ==
    /\ b \in live
    /\ live' = live \ {b}
    /\ rows' = {r \in rows : r.board # b}
    /\ read' = {r \in read : r.board # b}
    /\ UNCHANGED <<sockets, registry, calls, posts, fetched>>

\* The process dies and another takes its place.
Restart ==
    /\ sockets' = [s \in Sockets |-> IF sockets[s].state = "new" THEN sockets[s]
                                     ELSE [state |-> "gone", user |-> None]]
    /\ registry' = [u \in Users |-> None]
    /\ calls' = [h \in Handlers |-> Idle]
    /\ posts' = [m \in Messages |-> IF posts[m].fate = "running"
                                    THEN [posts[m] EXCEPT !.fate = "failed"] ELSE posts[m]]
    /\ UNCHANGED <<db, fetched>>

-----------------------------------------------------------------------------

SocketStep ==
    \E s \in Sockets : \/ \E u \in Clients : Connect(s, u)
                       \/ Text(s)
                       \/ Drop(s)
                       \/ Notice(s)

\* What a call does by itself once it has begun.
Run(h) ==
    \/ \E u \in Users : Push(h, u) \/ PushRaises(h, u)
    \/ Commit(h)
    \/ CommitRead(h)
    \/ Refuse(h)

Next ==
    \/ SocketStep
    \/ \E h \in Handlers :
        \/ \E m \in Messages, b \in Boards, to \in Audiences : Begin(h, m, b, to)
        \/ \E u \in Clients : LoadAll(h, u)
        \/ Run(h)
        \/ Fail(h)
    \/ \E u \in Users : Fetch(u)
    \/ \E b \in Boards : DeleteBoard(b)
    \/ Restart

Spec == Init /\ [][Next]_vars

\* The event loop runs every coroutine that can go on: a call, and the endpoint
\* of a dropped connection, which the server pings.  That a client fetches its
\* notifications now and then is assumed of the client.
Fairness ==
    /\ \A h \in Handlers : WF_vars(Run(h))
    /\ \A s \in Sockets : WF_vars(Notice(s))
    /\ \A u \in Users : WF_vars(Fetch(u))

FairSpec == Spec /\ Fairness

-----------------------------------------------------------------------------
(* Properties *)

Recipients(m) == {r.user : r \in {x \in rows : x.message = m}}

\* A notification is stored for all recipients of a call, or for none: none
\* while the call pushes and none after a push has failed, whoever has been
\* pushed to by then (service.py:64 and :676 push before the commit of :686).
StoredIffAnswered ==
    \A m \in Messages :
        Recipients(m) = IF posts[m].fate = "answered" /\ posts[m].board \in live
                        THEN posts[m].to ELSE {}

\* The registry holds no socket whose disconnect has been handled, none that
\* never connected and none of another user, over any order of connects,
\* disconnects and restarts (websocket_manager.py:14 and :18).
HandledIsForgotten ==
    \A u \in Users : registry[u] # None =>
        /\ sockets[registry[u]].user = u
        /\ sockets[registry[u]].state \in {"open", "dropped", "ended"}

\* An open socket that the registry does not hold has another socket of the
\* same user to blame: one opened later, or an older one whose late disconnect
\* took the entry of the new (routes.py:332-336).
MissedIsReplaced ==
    \A s \in Sockets : sockets[s].state = "open" =>
        \/ registry[sockets[s].user] = s
        \/ \E t \in Sockets \ {s} : sockets[t].user = sockets[s].user

\* A row becomes read only when a read-all ends that answers with it: one that
\* was committed between the load and the write stays unread, and one that a
\* deletion took in between does not come back (service.py:278-288).
ReadWasReturned ==
    [][\A r \in read' \ read :
          /\ r \in rows'
          /\ \E h \in Handlers :
                /\ calls[h].pc = "reading"
                /\ r \in calls[h].loaded
                /\ calls'[h] = Idle]_vars

\* Messages that have been posted.
Answered == {m \in Messages : posts[m].fate = "answered"}

Promise == INSTANCE Inbox WITH posted <- Answered

\* Handlers, pushes, failures and restarts are steps of the inbox or stutters:
\* a message is posted once and to everybody, nobody's rows are read for him.
ImplementsInbox == Promise!Spec

\* A call that was answered reaches every recipient sooner or later, connected
\* or not when it was made ("they'll get the notification from the DB when they
\* come back online", websocket_manager.py:27), unless its board is deleted.
AnsweredReachesAll ==
    \A m \in Messages, u \in Users :
        (posts[m].fate = "answered" /\ u \in posts[m].to) ~>
            \/ \E r \in fetched : r.message = m /\ r.user = u
            \/ posts[m].board \notin live

\* A socket that has been dropped leaves the registry (routes.py:335).
DroppedIsForgotten ==
    \A s \in Sockets : (sockets[s].state = "dropped") ~> (\A u \in Users : registry[u] # s)

\* A call ends, whatever happens to the sockets it pushes to and the rows it
\* has loaded: some or all of them may be gone when it writes (service.py:676,
\* auth/service.py:284).
CallsEnd == \A h \in Handlers : (calls[h] # Idle) ~> (calls[h] = Idle)

\* "if user is offline, nothing happens" (websocket_manager.py:26): a push
\* raises only for a user some socket of whom is open, or was when it broke.
OfflineIsHarmless ==
    [][\A h \in Handlers, u \in Users : PushRaises(h, u) =>
        \E s \in Sockets : sockets[s].user = u /\ sockets[s].state \in {"open", "dropped"}]_vars
=============================================================================
