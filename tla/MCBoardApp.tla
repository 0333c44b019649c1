---------------------------- MODULE MCBoardApp ----------------------------
(* TLC instances of BoardApp: which operations the clients of a run call.  *)
EXTENDS BoardApp, TLC

\* Row keys are numbers so that FreshUid picks the smallest free one; users,
\* boards and handlers are interchangeable.
Symmetry == Permutations(Users) \cup Permutations(Boards)
            \cup Permutations(Handlers)

JoinOps == {"create", "visibility", "request", "approve", "reject", "remove",
            "leave"}

InviteOps == {"create", "invite", "accept", "decline", "remove", "role"}

LifecycleOps == {"create", "duplicate", "archive", "unarchive", "update",
                 "request", "approve", "role", "remove", "delete"}
=============================================================================
