------------------------------ MODULE MCRoster ------------------------------
(* Instances of Roster: three connections, two accounts, three names of     *)
(* which two differ only by case.                                           *)
EXTENDS Roster, TLC

CONSTANTS s1, s2, s3, bob, BOB, ann, bobRow, annRow

ThreeSessions == {s1, s2, s3}
TwoSessions == {s1, s2}
Names == {bob, ann}
CaseNames == {bob, BOB, ann}
Rows == {bobRow, annRow}

\* COLLATE NOCASE folds bob and BOB onto one row.
Fold == [n \in Username |-> IF n = ann THEN annRow ELSE bobRow]

Symmetry == Permutations(Session)

\* Bound: bob is the operator from the start, and is never banned.  His row is
\* there, so only ann can log in for the first time and go astray.
BobIsOperator == bobRow \in ops \ bans

\* Two names of one account are alike when no file lists just one of them.
TwinSymmetry == Permutations(Session) \cup Permutations({bob, BOB})
=============================================================================
