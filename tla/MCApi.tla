------------------------------- MODULE MCApi -------------------------------
(***************************************************************************)
(* Instances of Api for TLC: two tenants that use the same key, an admin   *)
(* of acme, a user of the other tenant whose token expires first, and a    *)
(* pending transaction of acme.                                            *)
(***************************************************************************)
EXTENDS Api

CONSTANTS ann, bob, open, acme, other, k1

TwoRequests == 1..2
TwoTenants == {acme, other}
MCUsers == {ann, bob}
MCTenant == [x \in {ann, bob, open} |-> IF x = bob THEN other ELSE acme]
MCRole == [u \in MCUsers |-> IF u = ann THEN "admin" ELSE "service"]
MCExp == [u \in MCUsers |-> IF u = ann THEN 2 ELSE 1]

With(route, token, key, arg) ==
    [NoCall EXCEPT !.route = route, !.token = token, !.key = key, !.arg = arg]

\* Each endpoint, each credential, with and without a key; both tenants settle
\* the same transaction with the same key.
ApiMenu ==
    { With("post", 1, k1, open), With("post", bob, k1, open), With("fail", ann, k1, open),
      With("createAccount", ann, k1, None), With("transfer", bob, k1, None),
      With("createPending", ann, k1, None), With("fail", 1, None, open),
      With("getAccount", ann, None, 1), With("getTransaction", bob, None, open),
      With("getTransaction", ann, None, open), With("auditLog", ann, None, None),
      [NoCall EXCEPT !.route = "register", !.apiKey = other],
      [NoCall EXCEPT !.route = "register"],
      [NoCall EXCEPT !.user = ann], [NoCall EXCEPT !.user = 1],
      [NoCall EXCEPT !.route = "logout", !.user = bob] }

=============================================================================
