--------------------------- MODULE MCUserService ---------------------------
(* Small instances of UserService for TLC.                                 *)
EXTENDS UserService, TLC

\* Processes are alike, and so are requests.
Symmetry == Permutations(Procs) \cup Permutations(Requests)

\* An outdated version is outdated for good, and nothing asks by how much:
\* states that differ in that only have the same behaviours.
Outdated(v) == v \notin {0, row.version}
Seen(e) == <<e.ttl, Outdated(e.version)>>
View ==
    <<driver, row, [p \in Procs |-> Seen(l1[p])], Seen(l2),
      [p \in Procs |-> <<row.version \in warm[p], Cardinality(warm[p])>>],
      pc, proc, [r \in Requests |-> <<copy[r] = 0, Outdated(copy[r])>>], base, history, faults, raced>>
============================================================================
