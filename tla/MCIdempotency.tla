--------------------------- MODULE MCIdempotency ---------------------------
(***************************************************************************)
(* Instances of Idempotency for TLC.  The attempts are interchangeable and *)
(* so are the hashes.                                                      *)
(***************************************************************************)
EXTENDS Idempotency, TLC

CONSTANTS a1, a2, a3, h1, h2

TwoAttempts == {a1, a2}
ThreeAttempts == {a1, a2, a3}
TwoHashes == {h1, h2}

Symmetric == Permutations(Attempt) \cup Permutations(Hash)

=============================================================================
