---------------------------- MODULE MCMembership ----------------------------
(* Instances of Membership for TLC: one tenant, its owner and two others. *)
EXTENDS Membership, TLC

CONSTANTS owner, ann, bob, t1, i1, i2, r1, r2

\* An address for each user, the user standing for it.
MCEmailOf == [u \in Users |-> u]

MCFounders == [t \in Tenants |-> [u \in Users |-> IF u = owner THEN "owner" ELSE NoRole]]

MCMaxMembers == [t \in Tenants |-> 2]

Symmetry == Permutations(Users \ {owner}) \cup Permutations(Invites) \cup Permutations(Requests)
=============================================================================
