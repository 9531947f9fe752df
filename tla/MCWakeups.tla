----------------------------- MODULE MCWakeups -----------------------------
(* Instances of Wakeups for TLC. *)
EXTENDS Wakeups

CONSTANTS t1, t2

MCTasks == {t1, t2}

\* Each task awaits two operations, and the reading future may move between
\* them.
Joined == [o \in Ops |-> CASE o = "Read"  -> MCTasks
                           [] o = "Write" -> {t1}
                           [] OTHER       -> {t2}]

\* A reader and a writer.
Apart == [o \in Ops |-> IF o = "Read" THEN {t1} ELSE {t2}]
=============================================================================
