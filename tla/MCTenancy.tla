----------------------------- MODULE MCTenancy -----------------------------
(* Instances of Tenancy for TLC: one tenant at the start, one more to come. *)
EXTENDS Tenancy, TLC

CONSTANTS t1, t2, n1, n2, h1, h2, r1, r2, a, b

MCFounded == [t \in Tenants |-> IF t = t1 THEN [name |-> n1, active |-> FALSE] ELSE Absent]

MCRegistered == [h \in Hosts |-> IF h = h1 THEN t1 ELSE NoTenant]
=============================================================================
