---------------------------- MODULE WebhookInbox ----------------------------
(***************************************************************************)
(* What the webhook endpoint and its task promise of each Stripe event:     *)
(* however often it is delivered, it is accepted once and dispatched at     *)
(* most once, and what is dispatched is settled in the end.  An accepted    *)
(* event may stay undispatched for ever: the code has no way to resume it.  *)
(***************************************************************************)
EXTENDS Naturals

CONSTANT Events

VARIABLES
    accepted,    \* the events that have been logged
    dispatches,  \* how often each event has been handed to the workers
    settled      \* the events whose task has come to a result

vars == <<accepted, dispatches, settled>>

Init == accepted = {} /\ dispatches = [e \in Events |-> 0] /\ settled = {}

Accept(e) ==
    /\ e \notin accepted
    /\ accepted' = accepted \cup {e}
    /\ UNCHANGED <<dispatches, settled>>

Dispatch(e) ==
    /\ e \in accepted /\ dispatches[e] = 0
    /\ dispatches' = [dispatches EXCEPT ![e] = 1]
    /\ UNCHANGED <<accepted, settled>>

Settle(e) ==
    /\ dispatches[e] = 1 /\ e \notin settled
    /\ settled' = settled \cup {e}
    /\ UNCHANGED <<accepted, dispatches>>

Next == \E e \in Events : Accept(e) \/ Dispatch(e) \/ Settle(e)

Spec == Init /\ [][Next]_vars

FairSpec == Spec /\ \A e \in Events : WF_vars(Settle(e))
=============================================================================
