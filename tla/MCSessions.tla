----------------------------- MODULE MCSessions -----------------------------
(* Sessions for TLC: names, e-mails and handlers are interchangeable. *)
EXTENDS Sessions, TLC

Symmetry == Permutations(Names) \cup Permutations(Emails) \cup Permutations(Handlers)
=============================================================================
