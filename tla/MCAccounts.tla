----------------------------- MODULE MCAccounts -----------------------------
(* Two threads, two accounts, two levels. *)
EXTENDS Accounts, TLC

CONSTANTS t1, t2, bob, eve, home, lobby

Symmetry == Permutations(Thread) \cup Permutations(Account)

\* Bounds.  Where both accounts have gone astray nothing is claimed of either;
\* and the second level, which has no part in the player database, is made only
\* while no account has.
OnCourse == astray # Account /\ (astray = {} \/ files \subseteq {main})
=============================================================================
