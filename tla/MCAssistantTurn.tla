-------------------------- MODULE MCAssistantTurn --------------------------
(* One employee in all his roles. *)
EXTENDS AssistantTurn, TLC

CONSTANTS cable, fan, ups, rack, o1, o2, p1, p2

ItemSymmetry == Permutations({cable, fan}) \cup Permutations({ups, rack})
                  \cup Permutations({o1, o2}) \cup Permutations({p1, p2})
============================================================================
