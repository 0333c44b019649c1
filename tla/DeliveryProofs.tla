--------------------------- MODULE DeliveryProofs ---------------------------
(***************************************************************************)
(* Delivery for any users, sockets, messages, boards and handlers: what is *)
(* stored, what is read, what the registry holds, and that all of it is an *)
(* Inbox.                                                                  *)
(***************************************************************************)
EXTENDS Delivery, TLAPS

-----------------------------------------------------------------------------
(* The inductive invariant *)

\* A call that sends is the only one to run its message; a read-all holds rows
\* of its user.
CallsFilled ==
    /\ \A h \in Handlers : calls[h].pc = "sending" =>
        /\ calls[h].message \in Messages
        /\ posts[calls[h].message].fate = "running"
    /\ \A h \in Handlers : calls[h].pc = "reading" =>
        /\ calls[h].user \in Users
        /\ calls[h].unread \subseteq calls[h].loaded
        /\ \A r \in calls[h].loaded : r.user = calls[h].user
    /\ \A g, h \in Handlers :
        /\ calls[g].pc = "sending"
        /\ calls[h].pc = "sending"
        /\ calls[g].message = calls[h].message
        => g = h

Shown(r) ==
    /\ posts[r.message].fate = "answered"
    /\ posts[r.message].board \in live
    /\ r.board = posts[r.message].board
    /\ r.user \in posts[r.message].to

\* The table, row by row.
RowsExact == \A r \in Row : r \in rows <=> Shown(r)

\* A socket has a user from its connection on.
SocketsOwned ==
    \A s \in Sockets :
        /\ sockets[s].state = "new" => sockets[s].user = None
        /\ sockets[s].state \in {"open", "dropped", "ended"} => sockets[s].user \in Users

IInv ==
    /\ TypeOK
    /\ CallsFilled
    /\ RowsExact
    /\ SocketsOwned
    /\ HandledIsForgotten
    /\ MissedIsReplaced

-----------------------------------------------------------------------------
(* Typing *)

LEMMA IdleIsCall == Idle \in Call
BY DEF Idle, Call

LEMMA NewRowsAreRows ==
    ASSUME TypeOK, NEW m \in Messages, posts[m].board \in live
    PROVE  NewRows(m) \subseteq Row
BY DEF TypeOK, Post, NewRows, Row

LEMMA InitIInv == Init => IInv
<1> SUFFICES ASSUME Init PROVE IInv
  OBVIOUS
<1>1. TypeOK
  BY IdleIsCall DEF Init, TypeOK, Socket, Unsent, Post
<1>2. CallsFilled
  BY DEF Init, CallsFilled, Idle
<1>3. RowsExact
  BY DEF Init, RowsExact, Shown, Unsent, Row
<1>4. SocketsOwned /\ HandledIsForgotten /\ MissedIsReplaced
  BY DEF Init, SocketsOwned, HandledIsForgotten, MissedIsReplaced
<1> QED
  BY <1>1, <1>2, <1>3, <1>4 DEF IInv

LEMMA AbandonType ==
    ASSUME TypeOK, CallsFilled, NEW h \in Handlers, Abandon(h)
    PROVE  TypeOK'
<1>1. calls' \in [Handlers -> Call]
  BY IdleIsCall DEF TypeOK, Abandon
<1>2. \A p \in Post : [p EXCEPT !.fate = "failed"] \in Post
  BY DEF Post
<1>3. posts' \in [Messages -> Post]
  BY <1>2 DEF TypeOK, CallsFilled, Abandon
<1> QED
  BY <1>1, <1>3 DEF TypeOK, Abandon, db

LEMMA SocketType ==
    ASSUME TypeOK, SocketsOwned, SocketStep
    PROVE  TypeOK'
<1> USE DEF TypeOK, db
<1>1. PICK s \in Sockets : \/ \E u \in Clients : Connect(s, u)
                           \/ Text(s) \/ Drop(s) \/ Notice(s)
  BY DEF SocketStep
<1>2. CASE \E u \in Clients : Connect(s, u)
  BY <1>2, ClientsAssumption DEF ClientsAssumption, Connect, Stored, Socket
<1>3. CASE Text(s)
  BY <1>3 DEF Text, Socket
<1>4. CASE Drop(s)
  BY <1>4 DEF Drop, Socket
<1>5. CASE Notice(s)
  <2>1. sockets[s].user \in Users
    BY <1>5 DEF Notice, SocketsOwned
  <2> QED
    BY <1>5, <2>1 DEF Notice, Popped, Socket
<1> QED
  BY <1>1, <1>2, <1>3, <1>4, <1>5

LEMMA NextType ==
    ASSUME IInv, Next
    PROVE  TypeOK'
<1> USE DEF IInv
<1>1. CASE SocketStep
  BY <1>1, SocketType
<1>2. ASSUME NEW h \in Handlers,
             \E m \in Messages, b \in Boards, to \in Audiences : Begin(h, m, b, to)
      PROVE  TypeOK'
  <2>1. PICK m \in Messages, b \in Boards, to \in Audiences : Begin(h, m, b, to)
    BY <1>2
  <2>2. to \subseteq Users
    BY AudiencesAssumption DEF AudiencesAssumption
  <2>3. [Idle EXCEPT !.pc = "sending", !.message = m, !.todo = to] \in Call
    BY <2>2 DEF Idle, Call
  <2>4. [fate |-> "running", to |-> to, board |-> b] \in Post
    BY <2>2 DEF Post
  <2> QED
    BY <2>1, <2>3, <2>4 DEF TypeOK, Begin, db
<1>3. ASSUME NEW h \in Handlers, NEW u \in Clients, LoadAll(h, u)
      PROVE  TypeOK'
  <2>1. [Idle EXCEPT !.pc = "reading", !.user = u,
                     !.loaded = RowsOf(u), !.unread = RowsOf(u) \ read] \in Call
    BY ClientsAssumption DEF ClientsAssumption, Idle, Call, RowsOf, TypeOK
  <2> QED
    BY <1>3, <2>1 DEF TypeOK, LoadAll, db
<1>4. ASSUME NEW h \in Handlers, NEW u \in Users, Push(h, u)
      PROVE  TypeOK'
  <2>1. [calls[h] EXCEPT !.todo = Rest(h, u)] \in Call
    BY DEF TypeOK, Call, Rest
  <2> QED
    BY <1>4, <2>1 DEF TypeOK, Push, db
<1>5. ASSUME NEW h \in Handlers, Commit(h)
      PROVE  TypeOK'
  <2>1. calls[h].message \in Messages
    BY <1>5 DEF Commit, CallsFilled
  <2> QED
    BY <1>5, <2>1, IdleIsCall, NewRowsAreRows DEF TypeOK, Commit, Post
<1>6. ASSUME NEW h \in Handlers, CommitRead(h)
      PROVE  TypeOK'
  BY <1>6, IdleIsCall DEF TypeOK, CommitRead, Marked, Call
<1>7. ASSUME NEW h \in Handlers,
             Fail(h) \/ Refuse(h) \/ \E u \in Users : PushRaises(h, u)
      PROVE  TypeOK'
  BY <1>7, AbandonType DEF Fail, Refuse, PushRaises
<1>8. ASSUME NEW u \in Users, Fetch(u)
      PROVE  TypeOK'
  BY <1>8 DEF TypeOK, Fetch, RowsOf, db
<1>9. ASSUME NEW b \in Boards, DeleteBoard(b)
      PROVE  TypeOK'
  BY <1>9 DEF TypeOK, DeleteBoard
<1>10. CASE Restart
  BY <1>10, IdleIsCall DEF TypeOK, Restart, Socket, Post, db
<1> QED
  BY <1>1, <1>2, <1>3, <1>4, <1>5, <1>6, <1>7, <1>8, <1>9, <1>10 DEF Next, Run

-----------------------------------------------------------------------------
(* The registry *)

\* Connects, disconnects and restarts: every other step leaves sockets alone.
LEMMA SocketsOrNot ==
    ASSUME Next
    PROVE  SocketStep \/ Restart \/ UNCHANGED <<sockets, registry>>
BY DEF Next, Run, Begin, LoadAll, Push, PushRaises, Refuse, Commit, CommitRead,
   Fail, Abandon, Fetch, DeleteBoard

LEMMA NextRegistry ==
    ASSUME IInv, Next
    PROVE  SocketsOwned' /\ HandledIsForgotten' /\ MissedIsReplaced'
<1> USE DEF IInv, TypeOK, Socket
<1> USE NoneAssumption DEF NoneAssumption
<1>1. ASSUME NEW s \in Sockets, NEW u \in Clients, Connect(s, u)
      PROVE  SocketsOwned' /\ HandledIsForgotten' /\ MissedIsReplaced'
  <2>1. u \in Users
    BY ClientsAssumption DEF ClientsAssumption
  <2>2. /\ sockets' = [sockets EXCEPT ![s] = [state |-> "open", user |-> u]]
        /\ registry' = [registry EXCEPT ![u] = s]
        /\ sockets[s].state = "new" /\ sockets[s].user = None
    BY <1>1 DEF Connect, Stored, SocketsOwned
  <2>3. SocketsOwned'
    BY <2>1, <2>2 DEF SocketsOwned
  <2>4. HandledIsForgotten'
    <3>1. \A v \in Users \ {u} : registry'[v] = registry[v] /\ registry[v] # s
      BY <2>1, <2>2 DEF HandledIsForgotten
    <3>2. registry'[u] = s /\ sockets'[s] = [state |-> "open", user |-> u]
      BY <2>1, <2>2
    <3> QED
      BY <2>2, <3>1, <3>2 DEF HandledIsForgotten
  <2>5. MissedIsReplaced'
    <3> SUFFICES ASSUME NEW t \in Sockets, sockets'[t].state = "open",
                        registry'[sockets'[t].user] # t
                 PROVE  \E k \in Sockets \ {t} : sockets'[k].user = sockets'[t].user
      BY DEF MissedIsReplaced
    <3>1. t # s
      BY <2>1, <2>2
    <3>2. sockets'[t] = sockets[t] /\ sockets[t].user \in Users
      BY <2>2, <3>1 DEF SocketsOwned
    <3>3. CASE sockets[t].user = u
      BY <2>2, <3>1, <3>2, <3>3
    <3>4. CASE sockets[t].user # u
      <4>1. registry[sockets[t].user] # t
        BY <2>1, <2>2, <3>2, <3>4
      <4>2. PICK k \in Sockets \ {t} : sockets[k].user = sockets[t].user
        BY <3>2, <4>1 DEF MissedIsReplaced
      <4>3. k # s
        BY <2>2, <3>2, <4>2
      <4> QED
        BY <2>2, <3>2, <4>2, <4>3
    <3> QED
      BY <3>3, <3>4
  <2> QED
    BY <2>3, <2>4, <2>5
<1>2. ASSUME NEW s \in Sockets, Text(s) \/ Drop(s)
      PROVE  SocketsOwned' /\ HandledIsForgotten' /\ MissedIsReplaced'
  <2>1. /\ registry' = registry /\ sockets[s].state = "open"
        /\ \A t \in Sockets \ {s} : sockets'[t] = sockets[t]
        /\ sockets'[s].user = sockets[s].user
        /\ sockets'[s].state \in {"ended", "dropped"}
    BY <1>2 DEF Text, Drop
  <2> QED
    BY <2>1 DEF SocketsOwned, HandledIsForgotten, MissedIsReplaced
<1>3. ASSUME NEW s \in Sockets, Notice(s)
      PROVE  SocketsOwned' /\ HandledIsForgotten' /\ MissedIsReplaced'
  <2> DEFINE u == sockets[s].user
  <2>1. /\ u \in Users
        /\ registry' = [registry EXCEPT ![u] = None]
        /\ \A t \in Sockets \ {s} : sockets'[t] = sockets[t]
        /\ sockets'[s].user = u /\ sockets'[s].state = "gone"
    BY <1>3 DEF Notice, Popped, SocketsOwned
  <2>2. SocketsOwned'
    BY <2>1 DEF SocketsOwned
  <2>3. HandledIsForgotten'
    BY <2>1 DEF HandledIsForgotten
  <2>4. MissedIsReplaced'
    BY <2>1 DEF MissedIsReplaced
  <2> QED
    BY <2>2, <2>3, <2>4
<1>4. CASE Restart
  BY <1>4 DEF Restart, SocketsOwned, HandledIsForgotten, MissedIsReplaced
<1>5. CASE UNCHANGED <<sockets, registry>>
  BY <1>5 DEF SocketsOwned, HandledIsForgotten, MissedIsReplaced
<1> QED
  BY <1>1, <1>2, <1>3, <1>4, <1>5, SocketsOrNot DEF SocketStep

-----------------------------------------------------------------------------
(* Calls and rows *)

LEMMA NextCalls ==
    ASSUME IInv, Next
    PROVE  CallsFilled'
<1> USE DEF IInv, TypeOK
<1>1. ASSUME UNCHANGED <<calls, posts>>
      PROVE  CallsFilled'
  BY <1>1 DEF CallsFilled
<1>2. ASSUME NEW h \in Handlers, NEW m \in Messages, NEW b \in Boards,
             NEW to \in Audiences, Begin(h, m, b, to)
      PROVE  CallsFilled'
  <2>1. /\ posts[m].fate # "running"
        /\ calls'[h].pc = "sending" /\ calls'[h].message = m
        /\ posts'[m].fate = "running"
        /\ \A n \in Messages \ {m} : posts'[n] = posts[n]
        /\ \A g \in Handlers \ {h} : calls'[g] = calls[g]
    BY <1>2 DEF Begin, Unsent, Idle
  <2> QED
    BY <2>1 DEF CallsFilled
<1>3. ASSUME NEW h \in Handlers, NEW u \in Clients, LoadAll(h, u)
      PROVE  CallsFilled'
  <2>1. /\ calls'[h].pc = "reading" /\ calls'[h].user = u
        /\ calls'[h].loaded = RowsOf(u) /\ calls'[h].unread \subseteq RowsOf(u)
        /\ posts' = posts
        /\ \A g \in Handlers \ {h} : calls'[g] = calls[g]
    BY <1>3 DEF LoadAll, Idle, db
  <2>2. u \in Users
    BY ClientsAssumption DEF ClientsAssumption
  <2> QED
    BY <2>1, <2>2 DEF CallsFilled, RowsOf
<1>4. ASSUME NEW h \in Handlers, NEW u \in Users, Push(h, u)
      PROVE  CallsFilled'
  <2>1. /\ posts' = posts
        /\ calls'[h].pc = "sending" /\ calls[h].pc = "sending"
        /\ calls'[h].message = calls[h].message
        /\ \A g \in Handlers \ {h} : calls'[g] = calls[g]
    BY <1>4 DEF Push, Call
  <2> QED
    BY <2>1 DEF CallsFilled
<1>5. ASSUME NEW h \in Handlers, Commit(h) \/ CommitRead(h) \/ Abandon(h)
      PROVE  CallsFilled'
  <2>1. /\ calls'[h] = Idle
        /\ \A g \in Handlers \ {h} : calls'[g] = calls[g]
    BY <1>5 DEF Commit, CommitRead, Abandon
  <2>2. \/ posts' = posts
        \/ /\ calls[h].pc = "sending"
           /\ \A n \in Messages \ {calls[h].message} : posts'[n] = posts[n]
    BY <1>5 DEF Commit, CommitRead, Abandon
  <2> QED
    BY <2>1, <2>2 DEF CallsFilled, Idle
<1>6. CASE Restart
  BY <1>6 DEF Restart, CallsFilled, Idle
<1>7. CASE SocketStep
  BY <1>1, <1>7 DEF SocketStep, Connect, Text, Drop, Notice
<1>8. ASSUME NEW u \in Users, Fetch(u)
      PROVE  CallsFilled'
  BY <1>1, <1>8 DEF Fetch
<1>9. ASSUME NEW b \in Boards, DeleteBoard(b)
      PROVE  CallsFilled'
  BY <1>1, <1>9 DEF DeleteBoard
<1> QED
  BY <1>2, <1>3, <1>4, <1>5, <1>6, <1>7, <1>8, <1>9
  DEF Next, Run, PushRaises, Refuse, Fail

\* Posts that are answered stay as they are, and none becomes so but by Commit.
Settled ==
    \A m \in Messages : (posts[m].fate = "answered" \/ posts'[m].fate = "answered") =>
        posts'[m] = posts[m]

LEMMA PostsSettle ==
    ASSUME IInv, Next, \A h \in Handlers : ~Commit(h)
    PROVE  Settled
<1> USE DEF IInv, TypeOK, Settled
<1>1. CASE posts' = posts
  BY <1>1
<1>2. ASSUME NEW h \in Handlers, NEW m \in Messages, NEW b \in Boards,
             NEW to \in Audiences, Begin(h, m, b, to)
      PROVE  Settled
  BY <1>2 DEF Begin, Unsent
<1>3. ASSUME NEW h \in Handlers, Abandon(h)
      PROVE  Settled
  BY <1>3 DEF Abandon, CallsFilled, Post
<1>4. CASE Restart
  BY <1>4 DEF Restart, Post
<1>5. \/ posts' = posts
      \/ Restart
      \/ \E h \in Handlers : Abandon(h)
      \/ \E h \in Handlers, m \in Messages, b \in Boards, to \in Audiences :
            Begin(h, m, b, to)
  BY DEF Next, Run, SocketStep, Connect, Text, Drop, Notice, LoadAll, Push,
     PushRaises, Refuse, CommitRead, Fail, Fetch, DeleteBoard
<1> QED
  BY <1>1, <1>2, <1>3, <1>4, <1>5

LEMMA RowsOrNot ==
    ASSUME Next
    PROVE  \/ \E h \in Handlers : Commit(h) \/ CommitRead(h)
           \/ \E b \in Boards : DeleteBoard(b)
           \/ UNCHANGED <<rows, read, live>>
BY DEF Next, Run, SocketStep, Connect, Text, Drop, Notice, Begin, LoadAll, Push,
   PushRaises, Refuse, Fail, Abandon, Fetch, Restart, db

LEMMA NextRows ==
    ASSUME IInv, Next
    PROVE  RowsExact'
<1> USE DEF IInv, TypeOK
<1>1. ASSUME NEW h \in Handlers, Commit(h)
      PROVE  RowsExact'
  <2> DEFINE m == calls[h].message
  <2>1. /\ m \in Messages /\ posts[m].fate = "running" /\ posts[m].board \in live
        /\ posts[m].board \in Boards
        /\ rows' = rows \cup NewRows(m) /\ live' = live
        /\ posts' = [posts EXCEPT ![m].fate = "answered"]
    BY <1>1 DEF Commit, CallsFilled
  <2>2. /\ posts'[m].fate = "answered" /\ posts'[m].board = posts[m].board
        /\ posts'[m].to = posts[m].to
        /\ \A n \in Messages \ {m} : posts'[n] = posts[n]
    BY <2>1 DEF Post
  <2>3. \A r \in Row : r.message \in Messages
    BY DEF Row
  <2>4. ASSUME NEW r \in Row, r.message = m
        PROVE  r \in rows' <=> Shown(r)'
    <3>1. r \notin rows
      BY <2>1, <2>4 DEF RowsExact, Shown
    <3>2. r \in NewRows(m) <=> r.user \in posts[m].to /\ r.board = posts[m].board
      BY <2>4 DEF NewRows, Row
    <3> QED
      BY <2>1, <2>2, <2>4, <3>1, <3>2 DEF Shown
  <2>5. ASSUME NEW r \in Row, r.message # m
        PROVE  r \in rows' <=> Shown(r)'
    <3>1. r \notin NewRows(m)
      BY <2>5 DEF NewRows, Row
    <3> QED
      BY <2>1, <2>2, <2>3, <2>5, <3>1 DEF RowsExact, Shown
  <2> QED
    BY <2>4, <2>5 DEF RowsExact
<1>2. ASSUME NEW b \in Boards, DeleteBoard(b)
      PROVE  RowsExact'
  <2>1. rows' = {r \in rows : r.board # b} /\ live' = live \ {b} /\ posts' = posts
    BY <1>2 DEF DeleteBoard
  <2> QED
    BY <2>1 DEF RowsExact, Shown
<1>3. ASSUME \A h \in Handlers : ~Commit(h), UNCHANGED <<rows, live>>
      PROVE  RowsExact'
  <2>1. \A r \in Row : r.message \in Messages
    BY DEF Row
  <2>2. \A r \in Row : Shown(r)' <=> Shown(r)
    BY <1>3, <2>1, PostsSettle DEF Shown, Settled
  <2> QED
    BY <1>3, <2>2 DEF RowsExact
<1>4. \A h \in Handlers : CommitRead(h) => UNCHANGED <<rows, live>>
  BY DEF CommitRead
<1> QED
  BY <1>1, <1>2, <1>3, <1>4, RowsOrNot

LEMMA NextIInv == IInv /\ [Next]_vars => IInv'
<1>1. IInv /\ Next => IInv'
  BY NextType, NextRegistry, NextCalls, NextRows DEF IInv
<1>2. IInv /\ UNCHANGED vars => IInv'
  BY DEF vars, IInv, TypeOK, CallsFilled, RowsExact, Shown, SocketsOwned,
     HandledIsForgotten, MissedIsReplaced
<1> QED
  BY <1>1, <1>2

THEOREM Invariance == Spec => []IInv
BY InitIInv, NextIInv, PTL DEF Spec

-----------------------------------------------------------------------------
(* Theorems *)

\* Registry, calls and tables stay well-formed, and calls keep what they need
\* to end: one that sends has a message, which is running and which no other
\* call sends; a read-all has a user and holds rows of that user only.
THEOREM TypeCorrect == Spec => [](TypeOK /\ CallsFilled)
<1>1. IInv => TypeOK /\ CallsFilled
  BY DEF IInv
<1> QED
  BY <1>1, Invariance, PTL

\* A call that was answered left a notification for each recipient, any other
\* call left none, whatever became of its pushes.
THEOREM StoredForAllOrNone == Spec => []StoredIffAnswered
<1>1. ASSUME IInv PROVE StoredIffAnswered
  <2> SUFFICES ASSUME NEW m \in Messages
               PROVE  Recipients(m) = IF posts[m].fate = "answered" /\ posts[m].board \in live
                                      THEN posts[m].to ELSE {}
    BY DEF StoredIffAnswered
  <2>0. TypeOK /\ RowsExact
    BY <1>1 DEF IInv
  <2>1. \A r \in rows : r \in Row /\ Shown(r)
    BY <2>0 DEF TypeOK, RowsExact
  <2>2. CASE posts[m].fate = "answered" /\ posts[m].board \in live
    <3>1. posts[m].to \subseteq Users /\ posts[m].board \in Boards
      BY <2>0, <2>2 DEF TypeOK, Post
    <3>2. ASSUME NEW u \in posts[m].to PROVE u \in Recipients(m)
      <4> DEFINE r == [message |-> m, user |-> u, board |-> posts[m].board]
      <4>1. r \in Row
        BY <3>1 DEF Row
      <4>2. Shown(r)
        BY <2>2 DEF Shown
      <4> QED
        BY <2>0, <4>1, <4>2 DEF RowsExact, Recipients
    <3>3. \A u \in Recipients(m) : u \in posts[m].to
      BY <2>1 DEF Recipients, Shown
    <3> QED
      BY <2>2, <3>2, <3>3
  <2>3. CASE ~(posts[m].fate = "answered" /\ posts[m].board \in live)
    <3>1. \A r \in rows : r.message # m
      BY <2>1, <2>3 DEF Shown
    <3> QED
      BY <2>3, <3>1 DEF Recipients
  <2> QED
    BY <2>2, <2>3
<1> QED
  BY <1>1, Invariance, PTL

\* The registry never holds a socket whose end was noticed, nor another user's.
THEOREM RegistryForgets == Spec => []HandledIsForgotten
<1>1. IInv => HandledIsForgotten
  BY DEF IInv
<1> QED
  BY <1>1, Invariance, PTL

\* Only another socket of its user takes an open one out of the registry.
THEOREM MissesAreReplaced == Spec => []MissedIsReplaced
<1>1. IInv => MissedIsReplaced
  BY DEF IInv
<1> QED
  BY <1>1, Invariance, PTL

\* No row is marked as read that is gone or that no answer of a read-all holds.
THEOREM ReadsAreReturned == Spec => ReadWasReturned
<1>1. IInv /\ [Next]_vars =>
        [\A r \in read' \ read :
          /\ r \in rows'
          /\ \E h \in Handlers :
                /\ calls[h].pc = "reading"
                /\ r \in calls[h].loaded
                /\ calls'[h] = Idle]_vars
  <2> SUFFICES ASSUME IInv, Next, NEW r \in read' \ read
               PROVE  /\ r \in rows'
                      /\ \E h \in Handlers : /\ calls[h].pc = "reading"
                                             /\ r \in calls[h].loaded
                                             /\ calls'[h] = Idle
    OBVIOUS
  <2>1. PICK h \in Handlers : CommitRead(h)
    BY RowsOrNot DEF Commit, DeleteBoard
  <2> QED
    BY <2>1 DEF CommitRead, Marked, IInv, TypeOK, CallsFilled
<1> QED
  BY <1>1, Invariance, PTL DEF Spec, ReadWasReturned

LEMMA CommitPosts ==
    ASSUME IInv, NEW h \in Handlers, Commit(h)
    PROVE  Promise!Next
<1> USE DEF IInv, TypeOK
<1> DEFINE m == calls[h].message
<1>1. /\ m \in Messages /\ posts[m].fate = "running" /\ posts[m].board \in live
      /\ posts[m].board \in Boards /\ posts[m].to \in SUBSET Users
      /\ rows' = rows \cup NewRows(m) /\ live' = live /\ read' = read
      /\ posts' = [posts EXCEPT ![m].fate = "answered"]
  BY DEF Commit, CallsFilled, Post
<1>2. m \notin Answered
  BY <1>1 DEF Answered
<1>3. Answered' = Answered \cup {m}
  BY <1>1 DEF Answered, Post
<1>4. Promise!Post(m, posts[m].board, posts[m].to)
  BY <1>1, <1>2, <1>3 DEF Promise!Post, NewRows
<1> QED
  BY <1>1, <1>4 DEF Promise!Next

LEMMA OtherKeepsAnswered ==
    ASSUME IInv, Next, \A h \in Handlers : ~Commit(h)
    PROVE  Answered' = Answered
BY PostsSettle DEF Settled, Answered

\* Every step of the handlers is a step of the inbox or none.
LEMMA StepRefines == IInv /\ [Next]_vars => [Promise!Next]_Promise!vars
<1> SUFFICES ASSUME IInv, [Next]_vars
             PROVE  Promise!Next \/ UNCHANGED Promise!vars
  OBVIOUS
<1>1. CASE UNCHANGED vars
  BY <1>1 DEF vars, Promise!vars, Answered
<1>2. ASSUME NEW h \in Handlers, Commit(h)
      PROVE  Promise!Next
  BY <1>2, CommitPosts
<1>3. ASSUME Next, NEW h \in Handlers, CommitRead(h), Answered' = Answered
      PROVE  Promise!Next
  <2> DEFINE c == calls[h]
  <2>1. /\ c.user \in Users /\ Marked(c) \subseteq {r \in rows : r.user = c.user}
        /\ read' = read \cup Marked(c) /\ UNCHANGED <<rows, live>>
    BY <1>3 DEF CommitRead, Marked, IInv, CallsFilled
  <2>2. Promise!MarkRead(c.user)
    BY <1>3, <2>1 DEF Promise!MarkRead
  <2> QED
    BY <2>1, <2>2 DEF Promise!Next
<1>4. ASSUME NEW b \in Boards, DeleteBoard(b), Answered' = Answered
      PROVE  Promise!Next
  BY <1>4 DEF DeleteBoard, Promise!Remove, Promise!Next
<1>5. ASSUME UNCHANGED <<rows, read, live>>, Answered' = Answered
      PROVE  UNCHANGED Promise!vars
  BY <1>5 DEF Promise!vars
<1> QED
  BY <1>1, <1>2, <1>3, <1>4, <1>5, RowsOrNot, OtherKeepsAnswered

\* Delivery implements Inbox.
THEOREM InboxImplemented == Spec => ImplementsInbox
<1>1. Init => Promise!Init
  BY DEF Init, Promise!Init, Answered, Unsent
<1> QED
  BY <1>1, StepRefines, Invariance, PTL DEF Spec, ImplementsInbox, Promise!Spec
=============================================================================
