------------------------ MODULE MCSignatureExchange ------------------------
(* Model values, source logs and symmetry for the runs of                  *)
(* SignatureExchange.                                                      *)
EXTENDS SignatureExchange, TLC

CONSTANTS v1, v2, v3

TwoValidators == {v1, v2}
ThreeValidators == {v1, v2, v3}

LockAt(t) == [kind |-> "lock", time |-> t]
RequestAt(t) == [kind |-> "request", time |-> t]

\* With signatures-expiration 1, the lock's signatures expire at 2.
LogLock == <<LockAt(1)>>
LogResign == <<LockAt(1), RequestAt(3)>>
\* A request that comes too early, one that counts, and a second one.
LogResignTwice == <<LockAt(1), RequestAt(2), RequestAt(3), RequestAt(5)>>

ValidatorSymmetry == Permutations(Validators)
=============================================================================
