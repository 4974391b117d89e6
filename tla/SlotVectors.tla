---------------------------- MODULE SlotVectors -----------------------------
(***************************************************************************)
(* A ciphertext, abstracted to what it decrypts to: the first row of SEAL's *)
(* batching matrix, RowSize slots of integers modulo the plaintext modulus. *)
(* The second row is zero in everything the program encrypts and encodes,   *)
(* and no operation it uses moves a value from one row to the other.        *)
(***************************************************************************)
EXTENDS Integers

CONSTANTS
  RowSize,  \* slots of a row, half of poly_modulus_degree
  Modulus   \* plain_modulus

ASSUME SlotAssumption == RowSize \in Nat \ {0} /\ Modulus \in Nat /\ Modulus > 1

Slot == 0 .. RowSize - 1

\* The integers that BatchEncoder encodes, the negative ones as Modulus - |v|.
Value == {v \in Int : -Modulus < 2 * v /\ 2 * v <= Modulus}
decode(n) == IF 2 * n > Modulus THEN n - Modulus ELSE n

Row == [Slot -> 0 .. Modulus - 1]

Unit(j) == [s \in Slot |-> IF s = j THEN 1 ELSE 0]
Zero == [s \in Slot |-> 0]

\* BatchEncoder::encode of a vector with the same value in every slot.
encrypt(v) == [s \in Slot |-> v % Modulus]

\* Evaluator::sub_plain, multiply and multiply_plain, slot by slot.
sub(v, w) == [s \in Slot |-> (v[s] - w[s]) % Modulus]
multiply(v, w) == [s \in Slot |-> (v[s] * w[s]) % Modulus]

\* Evaluator::rotate_rows(v, -d): every slot moves d to the right.
rotate_rows(v, d) ==
  [s \in Slot |-> v[IF s >= d THEN s - d ELSE s - d + RowSize]]

\* shift_work of the Decryptor: every slot moves index to the left.
shift_work(v, index) ==
  [s \in Slot |-> v[IF s + index >= RowSize THEN s + index - RowSize ELSE s + index]]
=============================================================================
