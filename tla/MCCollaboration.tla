-------------------------- MODULE MCCollaboration --------------------------
(* Instances of Collaboration for TLC. *)
EXTENDS Collaboration

CONSTANTS m0, m1, m2, t1, t2

MCMemberOrder == SelectSeq(<<m1, m0, m2>>, LAMBDA m : m \in Members)
MCTaskOrder == SelectSeq(<<t1, t2>>, LAMBDA t : t \in TaskIds)

\* A Brain grows with its tasks, most with one that is under way, with its ledger of
\* messages and with what its nodes announced, and a little with a node off line.
MCBrainSize(b) ==
    Cardinality(DOMAIN b.tasks)
    + 2 * Cardinality({t \in DOMAIN b.tasks : b.tasks[t].status \in {"accepted", "running"}})
    + Cardinality(b.replays)
    + Cardinality({m \in DOMAIN b.members : b.members[m].announced # None})
    + Cardinality({m \in DOMAIN b.members : ~b.members[m].online})
=============================================================================
