--------------------------- MODULE StripeTheorems ---------------------------
(***************************************************************************)
(* Facts about one stripe: what adding a delta to a parity does, and that  *)
(* decoding undoes encoding.                                               *)
(***************************************************************************)
EXTENDS Stripe, TLAPS

\* The fields of a request lie in their sets, whatever its operation.
LEMMA RequestFields ==
  ASSUME NEW r \in Request
  PROVE  /\ r.op \in {"write", "read", "repair"}
         /\ r.srv \in Data
         /\ r.srv \in Server
         /\ r.part \in Parts
         /\ r.val \in Value
  BY DEF Request, Value, Server

\* Exclusive or, multiplication, encoding and decoding stay within contents.
LEMMA AddType ==
  ASSUME NEW a \in Value, NEW b \in Value
  PROVE  a (+) b \in Value
  BY DEF (+), Value

LEMMA ScaleType ==
  ASSUME NEW k \in Data, NEW v \in Value
  PROVE  Scale(k, v) \in ParityValue
  BY DEF Scale, Value, ParityValue

LEMMA ParityAddType ==
  ASSUME NEW a \in ParityValue, NEW b \in ParityValue
  PROVE  a (+) b \in ParityValue
  BY DEF (+), ParityValue

LEMMA EncodeType ==
  ASSUME NEW row
  PROVE  Encode(row) \in ParityValue
  BY DEF Encode, ParityValue

LEMMA DecodeType ==
  ASSUME NEW k \in Data, NEW row, NEW q \in ParityValue
  PROVE  Decode(k, row, q) \in ParityValue
  BY EncodeType, ParityAddType DEF Decode

\* writeParity: adding the scaled difference of two contents of data server k
\* to the parity of a row with the old one gives the parity of the row with
\* the new one.
LEMMA EncodeDelta ==
  ASSUME NEW row \in [Data -> Value], NEW k \in Data,
         NEW old \in Value, NEW new \in Value
  PROVE  Encode([row EXCEPT ![k] = old]) (+) Scale(k, new (+) old)
           = Encode([row EXCEPT ![k] = new])
<1> DEFINE L == Encode([row EXCEPT ![k] = old]) (+) Scale(k, new (+) old)
           R == Encode([row EXCEPT ![k] = new])
<1>1. L \subseteq Data \X Sym /\ R \subseteq Data \X Sym
  BY DEF Encode, Scale, (+), Value
<1>2. ASSUME NEW j \in Data, NEW y \in Sym
      PROVE  <<j, y>> \in L <=> <<j, y>> \in R
  <2>1. <<j, y>> \in Encode([row EXCEPT ![k] = old])
          <=> y \in (IF j = k THEN old ELSE row[j])
    BY <1>2 DEF Encode
  <2>2. <<j, y>> \in Encode([row EXCEPT ![k] = new])
          <=> y \in (IF j = k THEN new ELSE row[j])
    BY <1>2 DEF Encode
  <2>3. <<j, y>> \in Scale(k, new (+) old) <=> j = k /\ y \in new (+) old
    BY DEF Scale
  <2> QED BY <2>1, <2>2, <2>3 DEF (+)
<1>3. \A z \in Data \X Sym : z \in L <=> z \in R
  <2>1. \A z \in Data \X Sym : \E j \in Data, y \in Sym : z = <<j, y>>
    OBVIOUS
  <2> HIDE DEF L, R
  <2> QED BY <1>2, <2>1
<1> HIDE DEF L, R
<1>4. L = R
  BY <1>1, <1>3
<1> QED BY <1>4 DEF L, R

\* decodeMissing: with a consistent parity the missing content comes back.
THEOREM DecodeEncode ==
  ASSUME NEW row \in [Data -> Value], NEW k \in Data
  PROVE  Decode(k, row, Encode(row)) = Scale(k, row[k])
<1> DEFINE L == Decode(k, row, Encode(row))
           R == Scale(k, row[k])
<1>1. L \subseteq Data \X Sym /\ R \subseteq Data \X Sym
  BY DEF Decode, Encode, Scale, (+), Value
<1>2. ASSUME NEW j \in Data, NEW y \in Sym
      PROVE  <<j, y>> \in L <=> <<j, y>> \in R
  <2>1. <<j, y>> \in Encode(row) <=> y \in row[j]
    BY <1>2 DEF Encode
  <2>2. <<j, y>> \in Encode([row EXCEPT ![k] = {}])
          <=> y \in (IF j = k THEN {} ELSE row[j])
    BY <1>2 DEF Encode
  <2>3. <<j, y>> \in R <=> j = k /\ y \in row[k]
    BY DEF Scale
  <2> QED BY <2>1, <2>2, <2>3 DEF Decode, (+)
<1>3. \A z \in Data \X Sym : z \in L <=> z \in R
  <2>1. \A z \in Data \X Sym : \E j \in Data, y \in Sym : z = <<j, y>>
    OBVIOUS
  <2> HIDE DEF L, R
  <2> QED BY <1>2, <2>1
<1> HIDE DEF L, R
<1>4. L = R
  BY <1>1, <1>3
<1> QED BY <1>4 DEF L, R
=============================================================================
