--------------------------- MODULE MCReliableSync ---------------------------
(* Small instances of ReliableSync for TLC. *)
EXTENDS ReliableSync

CONSTANTS o1, o2, n1

\* Two incarnations of one name.
OneName == [o \in {o1, o2} |-> n1]

\* One incarnation of one name.
OneObject == [o \in {o1} |-> n1]

\* Behaviours go on from states with two sessions and two versions, or three of each
\* for an object that is never deleted; after a failed call or a restart of cloudcore,
\* from two of each for an object that is not deleted.
Few == sess <= 2 /\ \A o \in Objects : obj[o].rv <= 2
Kept == \A o \in Objects : obj[o].phase \in {"none", "live"}
Within ==
    \/ failures + crashes = 0 /\ (Few \/ Kept)
    \/ failures + crashes = 1 /\ Few /\ Kept
=============================================================================
