--------------------------- MODULE MCThreadLocks ----------------------------
EXTENDS ThreadLocks

CONSTANTS t1, t2, t3

\* One id, ids that share slot 0 of the 4-slot table, and one more than the
\* 4-slot table takes, so that it grows.
OneId    == {5}
TwoIds   == {4, 8}
FourIds  == {1, 2, 3, 5}

\* How often each thread locks.
Once  == [t \in Threads |-> 1]
Twice == [t \in Threads |-> IF t = t1 THEN 2 ELSE 1]
\* t1 waits for an id while t2 fills the table and then comes back to the id.
OneWaiter == [t \in Threads |-> IF t = t1 THEN 1 ELSE 5]
=============================================================================
