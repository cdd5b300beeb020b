-------------------------- MODULE SignatureQuorums --------------------------
(***************************************************************************)
(* The three thresholds the validator compares a signature list with.      *)
(* Their argument is len(validators): main.go fills that map once under    *)
(* each validator's Koinos address and once under its Ethereum address, so *)
(* a bridge of V validators passes 2 * V.  All divisions are Go's integer  *)
(* divisions of non-negative ints.                                         *)
(***************************************************************************)
EXTENDS Naturals

\* len(validators) for a bridge of V validators.
ConfiguredEntries(V) == 2 * V

\* Used after the broadcast of a freshly locked transfer, on both chains.
LockQuorum(n) == ((n \div 2) * 10) \div 7

\* Used by the API, by the first half of the Ethereum re-signing handler and
\* by the second half of the Koinos re-signing handler.
SubmitQuorum(n) == (((((n \div 2) * 10) \div 3) * 2) \div 10) + 1

\* Used by the first half of the Koinos re-signing handler and by the second
\* half of the Ethereum re-signing handler.
RequestQuorum(n) == (((((n \div 7) * 20) \div 5) * 6) \div 12) + 3
=============================================================================
