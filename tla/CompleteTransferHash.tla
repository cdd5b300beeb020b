------------------------- MODULE CompleteTransferHash -------------------------
(***************************************************************************)
(* The hash that the validators sign to complete a transfer, as each of    *)
(* the places that compute it does: the lock handler from the event, the   *)
(* re-signing handler from its record, and a peer from the record it is    *)
(* sent.                                                                   *)
(*                                                                         *)
(* SHA-256 and Keccak-256 are injective on what is hashed, so a hash is    *)
(* written as the record of those values.  Only values that the places     *)
(* convert differently are kept: the amount (the payment goes through the  *)
(* same conversions), the token, and whether the recipient and the relayer *)
(* are given.                                                              *)
(***************************************************************************)
EXTENDS Integers

CONSTANTS
  Half,   \* 2^63, the first amount that is not an int64
  TxIds   \* the identifiers of the transactions that lock tokens

ASSUME HalfAssumption == Half \in Nat \ {0}

Word == 2 * Half

Chains == {"ethereum", "koinos"}

\* The position of an event in its Koinos transaction.  Only 1 and 3 are special.
OpIds == 0..3

Transfer == [tx : TxIds, op : OpIds, amount : Nat,
             named : BOOLEAN,      \* are recipient and relayer given?
             supported : BOOLEAN]  \* is the token in the configuration?

\* The token that is hashed: the one configured, the zero address, no bytes.
Tokens == {"configured", "zero", "empty"}

Hash == [tx : TxIds, op : OpIds, amount : Nat, named : BOOLEAN, token : Tokens,
         expiration : Nat]

HashOf(t, amount, token, expiration) ==
  [tx |-> t.tx, op |-> t.op, amount |-> amount, named |-> t.named,
   token |-> token, expiration |-> expiration]

-----------------------------------------------------------------------------
(* Conversions.                                                            *)

\* big.Int.Uint64 keeps the low 64 bits.
Uint64(a) == a % Word

\* strconv.ParseUint(text, 0, 64) fails on a wider number.
IsUint64(a) == a < Word

\* big.NewInt(int64(a)).Bytes() is the magnitude of a two's complement number.
PaddedBytes(a) == IF a < Half THEN a ELSE Word - a

\* base58.Decode refuses the empty string.
IsBase58(given) == given

-----------------------------------------------------------------------------
(* The lock handler.                                                       *)

\* It panics unless the event decodes.
LockDecodes(chain, t) ==
  \/ chain = "ethereum" /\ IsBase58(t.supported)
  \/ chain = "koinos" /\ IsUint64(t.amount)

EthereumLockHash(t, expiration) ==
  HashOf(t, Uint64(t.amount), "configured", expiration)

\* An address that is not configured becomes the zero address.
KoinosLockHash(t, expiration) ==
  HashOf(t, PaddedBytes(t.amount),
         IF t.supported THEN "configured" ELSE "zero", expiration)

LockHash(chain, t, expiration) ==
  IF chain = "ethereum"
  THEN EthereumLockHash(t, expiration) ELSE KoinosLockHash(t, expiration)

-----------------------------------------------------------------------------
(* The re-signing handler, from the stored text of a transfer.             *)

\* It panics unless the record decodes: an absent relayer does not.
RecordDecodes(chain, t) ==
  \/ /\ chain = "ethereum"
     /\ IsBase58(t.supported)
     /\ IsBase58(t.named)
     /\ IsUint64(t.amount)
  \/ chain = "koinos" /\ IsUint64(t.amount)

EthereumRecordHash(t, expiration) ==
  HashOf(t, t.amount, "configured", expiration)

RecordHash(chain, t, expiration) ==
  IF chain = "ethereum"
  THEN EthereumRecordHash(t, expiration) ELSE KoinosLockHash(t, expiration)

-----------------------------------------------------------------------------
(* A peer, from the record it is sent.                                     *)

\* It refuses the request unless the record decodes; an absent recipient or
\* relayer does.
SubmittedDecodes(chain, t) ==
  /\ IsUint64(t.amount)
  /\ chain = "ethereum" => IsBase58(t.supported)

EthereumSubmittedHash(t, expiration) ==
  HashOf(t, t.amount, "configured", expiration)

\* An address that is not configured has no bytes.
KoinosSubmittedHash(t, expiration) ==
  HashOf(t, PaddedBytes(t.amount),
         IF t.supported THEN "configured" ELSE "empty", expiration)

SubmittedHash(chain, t, expiration) ==
  IF chain = "ethereum"
  THEN EthereumSubmittedHash(t, expiration)
  ELSE KoinosSubmittedHash(t, expiration)

\* Mutant of Verifies: a peer truncates amounts as the lock handler does.
VerifiesTruncated(chain, t, hash) ==
  hash = SubmittedHash(chain, [t EXCEPT !.amount = Uint64(@)], hash.expiration)

\* A peer signs nothing else than what it has computed itself from the record.
Verifies(chain, t, hash) ==
  /\ SubmittedDecodes(chain, t)
  /\ hash = SubmittedHash(chain, t, hash.expiration)
=============================================================================
