------------------------------- MODULE Stripe -------------------------------
(***************************************************************************)
(* The algebra of one stripe: what the erasure code of HWDFS gives to the  *)
(* update schemes.                                                         *)
(*                                                                         *)
(* A stripe has one chunk on every data server and one on every parity     *)
(* server; a chunk is cut into parts.  The schemes touch the bytes of a    *)
(* part only through Galois::add / Galois::subtract (bytewise exclusive    *)
(* or), Galois::multiply by a coefficient parityRows[i][k], encodeParity   *)
(* and decodeMissing, all of them linear.  So the content of a data part   *)
(* is abstracted to an element of a vector space over GF(2), a set of      *)
(* symbols added by symmetric difference, and the multiplication by the    *)
(* coefficient of data server k to an injective linear map whose image is  *)
(* the k-th summand of a direct sum: tagging every symbol with k.  Two     *)
(* contents that are equal here are equal bytes for every choice of the    *)
(* user data; two contents that differ here are different bytes for some   *)
(* choice of it.                                                           *)
(***************************************************************************)

CONSTANTS
  Data,         \* the data servers, to_id in 0 .. setting->data - 1
  Parity,       \* the parity servers, to_id in data .. total - 1
  FirstParity,  \* the parity server with the smallest to_id
  Parts,        \* the part numbers of a chunk, 0 .. setting->part_num - 1
  Sym           \* the symbols the contents are made of

ASSUME StripeAssumption ==
  /\ Data # {}
  /\ Data \cap Parity = {}
  /\ FirstParity \in Parity

Server == Data \cup Parity

\* The content of one part of a data chunk, and of one part of a parity chunk.
Value       == SUBSET Sym
ParityValue == SUBSET (Data \X Sym)

\* Galois::add and Galois::subtract, which are the same exclusive or.
a (+) b == (a \ b) \cup (b \ a)

\* Galois::multiply of a content of data server k by parityRows[i][k].
Scale(k, v) == {k} \X v

\* encodeParity of one part: row[k] is the part of data server k.
Encode(row) == {x \in Data \X Sym : x[2] \in row[x[1]]}

\* Faulty variant: the other data shards are not taken out of the parity.
DecodeNoOthers(k, row, q) == q

\* decodeMissing with the single shard k missing: it takes the other data
\* shards and the first parity shard q.  The result is the missing content
\* multiplied by its coefficient, Scale(k, v) when the stripe is consistent.
Decode(k, row, q) == q (+) Encode([row EXCEPT ![k] = {}])

\* What a client asks of data server srv, for one part.
Request ==
  [op : {"write"}, srv : Data, part : Parts, val : Value]
    \cup [op : {"read", "repair"}, srv : Data, part : Parts, val : {{}}]
=============================================================================
