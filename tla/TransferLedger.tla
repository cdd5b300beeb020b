---------------------------- MODULE TransferLedger ----------------------------
(***************************************************************************)
(* What the signature exchange promises about one transfer, without its    *)
(* handlers, broadcasts and messages: each validator has an entry with the *)
(* newest hash it knows, the validators that signed it, and whether the    *)
(* transfer is completed.  SignatureExchange implements this module.       *)
(***************************************************************************)
EXTENDS Naturals

CONSTANTS
  Validators,  \* the validators of the bridge
  Quorums,     \* the sets of signers of one hash that complete the transfer
  MayReset     \* may a validator's entry be wiped?

Entry == [hash : Nat, signers : SUBSET Validators, completed : BOOLEAN]

\* The entry of a validator that knows nothing about the transfer.
Blank == [hash |-> 0, signers |-> {}, completed |-> FALSE]

VARIABLES
  ledger,  \* ledger[n]: the entry of validator n
  closed   \* has the destination chain completed the transfer?

Init ==
  /\ ledger = [n \in Validators |-> Blank]
  /\ closed = FALSE

\* Only n's entry may change, to one of the right form.
OnlyEntryOf(n) ==
  /\ ledger' \in [Validators -> Entry]
  /\ \A w \in Validators \ {n} : ledger'[w] = ledger[w]

\* Until the transfer is completed, an entry that keeps its hash keeps its
\* signers.
KeepsSigners(old, new) ==
  ~closed /\ new.hash = old.hash => old.signers \subseteq new.signers

\* An entry gets signers or moves on to a newer hash.  It says that the
\* transfer is completed only when that is so.
Gather(n) ==
  /\ OnlyEntryOf(n)
  /\ ledger'[n].hash >= ledger[n].hash
  /\ ledger[n].completed => ledger'[n].completed
  /\ ledger'[n].completed => closed
  /\ KeepsSigners(ledger[n], ledger'[n])
  /\ UNCHANGED closed

\* The destination contract accepts what some validator has gathered.
CompleteTransfer ==
  /\ ~closed
  /\ \E n \in Validators : ledger[n].signers \in Quorums
  /\ closed' = TRUE
  /\ UNCHANGED ledger

Wipe(n) ==
  /\ MayReset
  /\ OnlyEntryOf(n)
  /\ ledger'[n] = Blank
  /\ UNCHANGED closed

Next ==
  \/ \E n \in Validators : Gather(n) \/ Wipe(n)
  \/ CompleteTransfer

Spec == Init /\ [][Next]_<<ledger, closed>>
=============================================================================
