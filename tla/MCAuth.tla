------------------------------- MODULE MCAuth -------------------------------
(***************************************************************************)
(* Instances of Auth for TLC.  Tokens 1, 2, ... are issued by requests,    *)
(* token 9 by an earlier login of ann.                                     *)
(***************************************************************************)
EXTENDS Auth

CONSTANTS ann, bob

OneUser == {ann}
TwoUsers == {ann, bob}
ThreeRequests == 1..3
Seeds == {9}
SeedOwner == [t \in Seeds |-> ann]

Call(op, u, t) == [op |-> op, user |-> u, token |-> t]

\* Every refresh and logout of one session and its successors.
SessionMenu == { Call(op, None, t) : op \in {"Refresh", "Logout"}, t \in Token }

\* Every refresh of ann's session and its successors, logouts of the session's
\* first token, a login of hers, and registrations of bob.
AuthMenu ==
    { Call("Refresh", None, t) : t \in Token }
       \cup { Call("Logout", None, 9), Call("Login", ann, None), Call("Register", bob, None) }

=============================================================================
