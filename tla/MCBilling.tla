----------------------------- MODULE MCBilling -----------------------------
(* Instances of Billing for TLC. *)
EXTENDS Billing, TLC

CONSTANTS e1, e2, e3, d1, d2, d3, w1, w2, c1, c2, s1, s2

Stripe(type, s, c, status) == [type |-> type, sub |-> s, customer |-> c, status |-> status]

Failed(s) == Stripe("payment_failed", s, NoCustomer, "active")
Paid(s) == Stripe("payment_succeeded", s, NoCustomer, "active")
Deleted(s) == Stripe("deleted", s, NoCustomer, "active")
Updated(s, status) == Stripe("updated", s, NoCustomer, status)
Created(s, c, status) == Stripe("created", s, c, status)
TrialEnding(s) == Stripe("trial_will_end", s, NoCustomer, "trialing")
Other == Stripe("other", NoSub, NoCustomer, "active")

Account(s, status) == [subId |-> s, status |-> status, grace |-> NoGrace]

\* One tenant, a failed payment delivered repeatedly next to another event.
PipelineHistories ==
    {[e \in Events |-> IF e = e1 THEN Failed(s1) ELSE x] :
        x \in {Created(s1, c1, "active"), Created(s2, c1, "active"), Paid(s1), Other}}

PipelineAccounts == {[c \in Customers |-> Account(s, "active")] : s \in {NoSub, s1}}

\* Two tenants, three events of every type in any order.
RowContents ==
    {Failed(s1), Paid(s1), Deleted(s1), Failed(NoSub), TrialEnding(s1),
     Updated(s1, "past_due"), Created(s1, c1, "trialing"),
     Created(s1, NoCustomer, "active"), Created(s1, c2, "active")}

RowHistories == [Events -> RowContents]

RowSymmetry == Permutations(Deliveries) \cup Permutations(Events)

RowAccounts == {[c \in Customers |-> IF c = c1 THEN Account(s1, "active") ELSE Account(NoSub, "trialing")]}
=============================================================================
