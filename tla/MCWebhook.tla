----------------------------- MODULE MCWebhook -----------------------------
(***************************************************************************)
(* Instances of Webhook for TLC: events of two tenants, two workers.       *)
(***************************************************************************)
EXTENDS Webhook, TLC

CONSTANTS e1, e2, t1, t2, w1, w2

TwoEvents == {e1, e2}
OneWorker == {w1}
TwoWorkers == {w1, w2}
TwoTenants == {t1, t2}
OneTenant == {t1}
Owner == [e \in Event |-> IF e = e1 \/ t2 \notin Tenant THEN t1 ELSE t2]

Symmetric == Permutations(Worker)

=============================================================================
