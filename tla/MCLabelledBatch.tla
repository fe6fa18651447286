---------------------------- MODULE MCLabelledBatch ----------------------------
EXTENDS LabelledBatch

CONSTANTS u1, w1, w2

\* The transactions of one new user.
MCSent == {[t \in Tx |-> [user |-> u1, date |-> 1]]}
=============================================================================
