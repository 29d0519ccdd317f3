----------------------------- MODULE MCResults -----------------------------
\* Instances of Results.
EXTENDS Results

CONSTANTS s1, c1, c2, x1, x2, y1, g1, g2, r1

MCSectionOf == [e \in Exams |-> IF e = y1 THEN c2 ELSE c1]
MCTotalMarks == [e \in Exams |-> 1]
==============================================================================
