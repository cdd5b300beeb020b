--------------------------- MODULE MCLockedTransfers ---------------------------
(* Validators, transactions and logs for the runs of LockedTransfers.      *)
EXTENDS LockedTransfers

CONSTANTS v1, v2, v3, t1, t2

OnePeer == {v2}
TwoValidators == {v1, v2}
ThreeValidators == {v1, v2, v3}
TwoTxIds == {t1, t2}

TransferIn(tx, op, amount) ==
  [tx |-> tx, op |-> op, amount |-> amount, named |-> TRUE, supported |-> TRUE]

Lock(t, time) == [kind |-> "lock", transfer |-> t, time |-> time]
Request(tx, op, time) ==
  [kind |-> "request", transfer |-> TransferIn(tx, op, 0), time |-> time]

EthereumLog(events) == [chain |-> "ethereum", events |-> events]
KoinosLog(events) == [chain |-> "koinos", events |-> events]

\* With Half = 2, an amount of 1 is plain, 3 is not an int64 and 5 is wider than
\* a word, whose low digits are those of 1.
Plain(tx, op) == TransferIn(tx, op, 1)
Negative(tx, op) == TransferIn(tx, op, 3)
Wide(tx, op) == TransferIn(tx, op, 5)
Unsupported(tx, op) == [Plain(tx, op) EXCEPT !.supported = FALSE]
Unnamed(tx, op) == [Plain(tx, op) EXCEPT !.named = FALSE]

\* With signatures-expiration 1, the signatures of a lock at 1 expire at 2 and
\* a request counts from 3 on.
EthereumLogs == {EthereumLog(events) : events \in {
  <<Lock(Plain(t1, 0), 1), Lock(Negative(t1, 0), 1)>>,
  <<Lock(Plain(t1, 0), 1), Lock(Wide(t1, 0), 1), Request(t1, 0, 3)>>,
  <<Lock(Wide(t1, 0), 1), Request(t1, 0, 3)>>,
  <<Lock(Plain(t1, 0), 1), Request(t1, 0, 2), Request(t1, 0, 3)>>,
  <<Lock(Unnamed(t1, 0), 1), Request(t1, 0, 3)>>,
  <<Lock(Unsupported(t2, 0), 1)>>}}

KoinosLogs == {KoinosLog(events) : events \in {
  <<Lock(Plain(t1, 1), 1), Lock(Unsupported(t1, 3), 1), Request(t1, 0, 3)>>,
  <<Lock(Negative(t1, 3), 1), Request(t1, 0, 3), Request(t1, 1, 5)>>,
  <<Lock(Plain(t1, 2), 1), Request(t1, 0, 3), Request(t1, 2, 3)>>,
  <<Lock(Wide(t2, 1), 1)>>}}

BothChains == EthereumLogs \cup KoinosLogs

\* A transfer that names no relayer, locked and later re-signed.
NoRelayerLog ==
  {EthereumLog(<<Lock(Unnamed(t1, 0), 1), Request(t1, 0, 3)>>)}
=============================================================================
