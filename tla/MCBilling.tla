----------------------------- MODULE MCBilling -----------------------------
\* Values for the constants of Billing: the events capabilities/notifications
\* subscribes to that Billing emits, and the payload types its handlers expect.
EXTENDS Billing

MCListeners == [e \in {"payment.completed", "membership.started", "membership.expired"} |->
                   IF e = "payment.completed" THEN "PaymentCompletedEvent"
                   ELSE "MembershipEvent"]

CallerSymmetry == Permutations(Callers)
=============================================================================
