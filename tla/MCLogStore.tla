----------------------------- MODULE MCLogStore -----------------------------
(* Lines of one and two bytes against a queue of three, files of three and a  *)
(* window of two: lines are refused, files rotate and windows start mid-line. *)
EXTENDS LogStore

Lengths == [line \in 0 .. MaxLines |-> IF line \in {2, 3} THEN 2 ELSE 1]

=============================================================================
