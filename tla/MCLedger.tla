------------------------------ MODULE MCLedger ------------------------------
(***************************************************************************)
(* Small instances of Ledger.                                              *)
(***************************************************************************)
EXTENDS Ledger, TLC

CONSTANTS r1, r2, r3, genesis, open, acme, other

\* Accounts 1 and 2 belong to acme, 3 to the other tenant, the rest do not exist yet.
MCOwner == (1 :> acme) @@ (2 :> acme) @@ (3 :> other) @@ (4 :> None)
           @@ (5 :> None) @@ (6 :> None)

\* Account 1 starts with 2 (a genesis row), and a transaction moving 2 from
\* account 1 to account 2 is pending.
Row(t, i, tenant, a, n) == [txn |-> t, line |-> i, tenant |-> tenant, account |-> a, amount |-> n]
MCEntries ==
    { Row(genesis, 1, acme, 1, 2), Row(open, 1, acme, 2, 2), Row(open, 2, acme, 1, -2) }
MCSeedTenant == [t \in {genesis, open} |-> acme]

Legs(a, m, b, n) == <<[account |-> a, amount |-> m], [account |-> b, amount |-> n]>>
Call(op, tenant, lines, t) == [op |-> op, tenant |-> tenant, lines |-> lines, txn |-> t]

Transfer(lines) == Call("ExecuteTransfer", acme, lines, None)
Pending(lines) == Call("CreatePendingTransaction", acme, lines, None)
Post(t) == Call("PostPendingTransaction", acme, <<>>, t)
Fail(t) == Call("FailPendingTransaction", acme, <<>>, t)

\* Contention: transfers over the same two accounts with their legs in either
\* order, posts and fails of one transaction, a pending call among them.
RaceMenu ==
    { Transfer(Legs(1, -1, 2, 1)), Transfer(Legs(2, 2, 1, -2)), Transfer(Legs(2, -1, 1, 1)),
      Pending(Legs(2, 1, 1, -1)), Post(open), Fail(open) }

\* Every operation and every refusal: invalid entries, unknown and foreign
\* accounts and transactions, accounts created on the way, a transaction
\* created and settled within the behaviour.
LifecycleMenu ==
    { Transfer(<<[account |-> 1, amount |-> 1]>>), Transfer(Legs(1, 0, 2, 0)),
      Transfer(Legs(1, -1, 2, 2)), Transfer(Legs(1, -1, 3, 1)), Transfer(Legs(1, -1, 4, 1)),
      Pending(Legs(4, 1, 1, -1)), Pending(Legs(3, 1, 1, -1)), Pending(Legs(1, -2, 2, 2)),
      Call("CreateAccount", acme, <<>>, None),
      Call("PostPendingTransaction", other, <<>>, open) }
    \cup { Post(t) : t \in Request \cup {open} } \cup { Fail(t) : t \in Request }

\* Money as a 4-bit integer: two debits of 8 from one account add up to -16,
\* which is 0 in Money, and leave its projected balance as it was.
OverflowMenu ==
    { Transfer(Legs(1, -8, 1, -8)), Transfer(Legs(1, -1, 2, 1)), Pending(Legs(1, -1, 2, 1)) }

Symmetric == Permutations(Request)
=============================================================================
