---------------------- MODULE MCSubmissionScheduler ----------------------
(* Instances of SubmissionScheduler for TLC.                              *)
EXTENDS SubmissionScheduler, TLC

CONSTANTS t1, t2, t3, g1, g2, w1, w2

\* Two sessions, two tasks in the first: the limit of one task in flight per
\* session makes the second task of g1 wait for done.
TwoSessions == [t \in Tasks |-> IF t = t3 THEN g2 ELSE g1]

\* t3 outweighs the others, but by less than the age bonus.
Mixed == [t \in Tasks |-> IF t = t3 THEN 1 ELSE 0]
Equal == [t \in Tasks |-> 0]

\* The workers are alike, and so are t1 and t2: same session, same weight.
Alike == Permutations({w1, w2}) \cup Permutations({t1, t2})
==========================================================================
