------------------------------- MODULE Access -------------------------------
(***************************************************************************)
(* Who may be a member of a board, without handlers, sessions or tables: a *)
(* board is born with its owner and dies once, with all its memberships; a *)
(* member is let in while the board lives, as its owner or on a grant (a   *)
(* join request or a mailed invitation).  One thing happens at a time.     *)
(***************************************************************************)
CONSTANTS Users, Boards, NoOne

VARIABLES
    life,
    owner,
    granted,    \* pairs of a user and a board
    members     \* pairs of a user and a board

vars == <<life, owner, granted, members>>

Init ==
    /\ life = [b \in Boards |-> "unborn"]
    /\ owner = [b \in Boards |-> NoOne]
    /\ granted = {}
    /\ members = {}

Create(u, b) ==
    /\ life[b] = "unborn"
    /\ life' = [life EXCEPT ![b] = "live"]
    /\ owner' = [owner EXCEPT ![b] = u]
    /\ UNCHANGED <<granted, members>>

Grant(u, b) ==
    /\ granted' = granted \cup {<<u, b>>}
    /\ UNCHANGED <<life, owner, members>>

Admit(u, b) ==
    /\ life[b] = "live"
    /\ u = owner[b] \/ <<u, b>> \in granted
    /\ members' = members \cup {<<u, b>>}
    /\ UNCHANGED <<life, owner, granted>>

Expel(u, b) ==
    /\ members' = members \ {<<u, b>>}
    /\ UNCHANGED <<life, owner, granted>>

\* Links that have been mailed stay, requests do not.
Delete(b) ==
    /\ life[b] = "live"
    /\ life' = [life EXCEPT ![b] = "gone"]
    /\ owner' = [owner EXCEPT ![b] = NoOne]
    /\ granted' \subseteq granted
    /\ \A g \in granted \ granted' : g[2] = b
    /\ members' = {m \in members : m[2] # b}

Next ==
    \/ \E u \in Users, b \in Boards :
        Create(u, b) \/ Grant(u, b) \/ Admit(u, b) \/ Expel(u, b)
    \/ \E b \in Boards : Delete(b)

Spec == Init /\ [][Next]_vars
=============================================================================
