---------------------------- MODULE ClientProofs ----------------------------
(***************************************************************************)
(* The client side.  LargeCalls: the master's pieces of a range, and what  *)
(* threads nobody joins leave in the chunks, for every number of servers,  *)
(* size of a chunk and set of ranges.  ClientPrograms: what the programs   *)
(* of Client.cpp compare, for every file and all their arguments.          *)
(***************************************************************************)
EXTENDS LargeCalls, ClientPrograms, SequenceTheorems, WellFoundedInduction, TLAPS

Piece == [id : Nat, at : Nat, len : Int]

\* Quotient and remainder of what the master divides: offsets are not negative.
LEMMA QuotRem ==
  ASSUME NEW a \in Nat, NEW b \in Nat \ {0}
  PROVE  /\ Quot(a, b) \in Nat
         /\ Rem(a, b) \in 0..(b - 1)
         /\ a = b * Quot(a, b) + Rem(a, b)
<1>1. a = b * (a \div b) + (a % b) /\ a \div b \in Nat /\ a % b \in 0..(b - 1)
  BY SMT
<1>2. Quot(a, b) = a \div b
  BY DEF Quot
<1> QED
  BY <1>1, <1>2, SMT DEF Rem

\* A number below n units is in one of the first n units.
LEMMA BelowUnits ==
  ASSUME NEW q \in Nat, NEW r \in Nat, NEW b \in Nat \ {0}, NEW n \in Nat,
         b * q + r < b * n
  PROVE  q < n
<1> SUFFICES ASSUME q >= n PROVE FALSE
  OBVIOUS
<1>1. b * (q - n) >= 0
  BY SMT
<1>2. b * (q - n) = b * q - b * n
  BY SMT
<1> QED
  BY <1>1, <1>2, SMT

\* A sequence between two elements.
LEMMA Sandwich ==
  ASSUME NEW S, NEW f \in S, NEW z \in S, NEW n \in Nat, NEW g \in [1..n -> S]
  PROVE  LET ps == <<f>> \o g \o <<z>>
         IN /\ Len(ps) = n + 2
            /\ ps[1] = f
            /\ \A i \in 2..(n + 1) : ps[i] = g[i - 1]
            /\ ps[n + 2] = z
<1> DEFINE fg == <<f>> \o g
<1>1. g \in Seq(S) /\ Len(g) = n
  BY SMT
<1>2. /\ <<f>> \in Seq(S) /\ Len(<<f>>) = 1 /\ <<f>>[1] = f
      /\ <<z>> \in Seq(S) /\ Len(<<z>>) = 1 /\ <<z>>[1] = z
  BY SMT
<1>3. /\ fg \in Seq(S) /\ Len(fg) = n + 1
      /\ \A i \in 1..(n + 1) : fg[i] = IF i <= 1 THEN <<f>>[i] ELSE g[i - 1]
  <2> HIDE DEF fg
  <2>1. /\ fg \in Seq(S) /\ Len(fg) = Len(<<f>>) + Len(g)
        /\ \A i \in 1..(Len(<<f>>) + Len(g)) :
             fg[i] = IF i <= Len(<<f>>) THEN <<f>>[i] ELSE g[i - Len(<<f>>)]
    BY <1>1, <1>2, ConcatProperties, Zenon DEF fg
  <2> QED
    BY <1>1, <1>2, <2>1, SMT
<1> HIDE DEF fg
<1>4. /\ Len(fg \o <<z>>) = n + 2
      /\ \A i \in 1..(n + 2) : (fg \o <<z>>)[i] = IF i <= n + 1 THEN fg[i] ELSE <<z>>[i - (n + 1)]
  <2>1. /\ Len(fg \o <<z>>) = Len(fg) + Len(<<z>>)
        /\ \A i \in 1..(Len(fg) + Len(<<z>>)) :
             (fg \o <<z>>)[i] = IF i <= Len(fg) THEN fg[i] ELSE <<z>>[i - Len(fg)]
    BY <1>2, <1>3, ConcatProperties, Zenon
  <2> QED
    BY <1>2, <1>3, <2>1, SMT
<1> DEFINE h == fg \o <<z>>
<1>5. h[1] = f /\ h[n + 2] = z /\ \A i \in 2..(n + 1) : h[i] = g[i - 1]
  <2>1. \A i \in 1..(n + 2) : h[i] = IF i <= n + 1 THEN fg[i] ELSE <<z>>[i - (n + 1)]
    BY <1>4
  <2>2. <<z>>[1] = z
    BY <1>2
  <2>3. \A i \in 1..(n + 1) : fg[i] = IF i <= 1 THEN <<f>>[i] ELSE g[i - 1]
    BY <1>3
  <2>4. <<f>>[1] = f
    BY <1>2
  <2> HIDE DEF h
  <2>5. h[n + 2] = <<z>>[(n + 2) - (n + 1)] /\ (n + 2) - (n + 1) = 1
    BY <2>1, SMT
  <2>6. h[1] = fg[1] /\ fg[1] = <<f>>[1]
    BY <2>1, <2>3, SMT
  <2>7. \A i \in 2..(n + 1) : h[i] = g[i - 1]
    BY <2>1, <2>3, SMT
  <2> QED
    BY <2>2, <2>4, <2>5, <2>6, <2>7, Zenon
<1> QED
  BY <1>4, <1>5 DEF fg

\* What the master computes for one offset.
LEMMA InfoFields ==
  ASSUME NEW offset \in Nat, NEW unit \in Nat \ {0}
  PROVE  LET info == InfoByOffset(offset, unit)
         IN /\ info \in Piece
            /\ info.id = Quot(offset, unit)
            /\ info.at = Rem(offset, unit)
            /\ info.len = unit - offset
  BY QuotRem, SMT DEF InfoByOffset, Piece

\* Pieces in more than one unit: the first, whole ones, and the last.
LEMMA PiecesOver ==
  ASSUME NEW offset \in Nat, NEW length \in Nat \ {0}, NEW unit \in Nat \ {0},
         Quot(offset, unit) < Quot(offset + length - 1, unit)
  PROVE  LET ps == Pieces(offset, length, unit)
             p  == Quot(offset, unit)
             q  == Quot(offset + length - 1, unit)
         IN /\ Len(ps) = q - p + 1
            /\ ps[1] = InfoByOffset(offset, unit)
            /\ \A i \in 2..(q - p) : ps[i] = [id |-> p + i - 1, at |-> 0, len |-> unit]
            /\ ps[q - p + 1] = [id |-> q, at |-> 0,
                               len |-> Rem(offset + length - 1, unit) + 1]
<1> DEFINE p == Quot(offset, unit)
           q == Quot(offset + length - 1, unit)
           n == q - p - 1
           first == InfoByOffset(offset, unit)
           info  == InfoByOffset(offset + length - 1, unit)
           last  == [id |-> info.id, at |-> 0, len |-> info.at + 1]
           mid   == [i \in 1..n |-> [id |-> p + i, at |-> 0, len |-> unit]]
<1>1. offset + length - 1 \in Nat
  BY SMT
<1>2. p \in Nat /\ q \in Nat /\ n \in Nat
  <2>1. p \in Nat /\ q \in Nat
    BY <1>1, QuotRem
  <2> QED
    BY <2>1, SMT
<1>3. first \in Piece /\ first.id = p
  BY InfoFields
<1>4. info = [id |-> q, at |-> Rem(offset + length - 1, unit),
               len |-> unit - (offset + length - 1)]
  BY DEF InfoByOffset
<1>5. info.id = q
  <2> HIDE DEF info, q
  <2> QED
    BY <1>4, SMT
<1>6. last = [id |-> q, at |-> 0, len |-> Rem(offset + length - 1, unit) + 1]
  <2> HIDE DEF info, q
  <2> QED
    BY <1>4, SMT
<1>7. last \in Piece
  <2>1. Rem(offset + length - 1, unit) \in Int
    BY <1>1, QuotRem, SMT
  <2> HIDE DEF q, last
  <2> QED
    BY <1>2, <1>6, <2>1, SMT DEF Piece
<1>8. mid \in [1..n -> Piece]
  <2> HIDE DEF p, n
  <2> QED
    BY <1>2, SMT DEF Piece
<1>9. Pieces(offset, length, unit) = <<first>> \o mid \o <<last>>
  <2>1. first.id # info.id
    <3> HIDE DEF first, info
    <3> QED
      BY <1>2, <1>3, <1>5, SMT
  <2>2. Pieces(offset, length, unit)
          = <<first>> \o [i \in 1..(info.id - first.id - 1) |->
                             [id |-> first.id + i, at |-> 0, len |-> unit]] \o <<last>>
    BY <2>1, Zenon DEF Pieces
  <2> HIDE DEF first, info, last, p, q
  <2> QED
    BY <1>3, <1>5, <2>2, Zenon
<1> HIDE DEF first, info, last, mid, p, q
<1>10. LET ps == <<first>> \o mid \o <<last>>
      IN /\ Len(ps) = n + 2
         /\ ps[1] = first
         /\ \A i \in 2..(n + 1) : ps[i] = mid[i - 1]
         /\ ps[n + 2] = last
  <2> HIDE DEF n
  <2> QED
    BY <1>2, <1>3, <1>7, <1>8, Sandwich
<1>11. n + 2 = q - p + 1 /\ n + 1 = q - p
  BY <1>2, SMT
<1>12. \A i \in 2..(n + 1) : mid[i - 1] = [id |-> p + i - 1, at |-> 0, len |-> unit]
  <2> TAKE i \in 2..(n + 1)
  <2>1. i - 1 \in 1..n /\ p + (i - 1) = p + i - 1
    BY <1>2, SMT
  <2> QED
    BY <2>1 DEF mid
<1> QED
  BY <1>6, <1>9, <1>10, <1>11, <1>12, Zenon DEF first, p, q

\* The master finds one stripe for a range that ends in the first one.
LEMMA OneSegment ==
  ASSUME NEW offset \in Nat, NEW length \in Nat \ {0},
         Stripe \in Nat \ {0}, offset + length <= Stripe
  PROVE  ChunkServers(offset, length) = Pieces(offset, length, Size)
<1>1. Quot(offset, Stripe) = 0 /\ Rem(offset, Stripe) = offset
  <2>1. /\ Quot(offset, Stripe) \in Nat /\ Rem(offset, Stripe) \in Nat
        /\ Stripe * Quot(offset, Stripe) + Rem(offset, Stripe) < Stripe * 1
        /\ offset = Stripe * Quot(offset, Stripe) + Rem(offset, Stripe)
    BY QuotRem, SMT
  <2>2. Quot(offset, Stripe) < 1
    BY <2>1, BelowUnits, SMT
  <2>3. Quot(offset, Stripe) = 0
    BY <2>1, <2>2, SMT
  <2> QED
    BY <2>1, <2>3, SMT
<1>2. Quot(offset + length - 1, Stripe) = 0
  <2> DEFINE end == offset + length - 1
  <2>1. end \in Nat /\ end < Stripe
    BY SMT
  <2> HIDE DEF end
  <2>2. /\ Quot(end, Stripe) \in Nat /\ Rem(end, Stripe) \in Nat
        /\ Stripe * Quot(end, Stripe) + Rem(end, Stripe) < Stripe * 1
    BY <2>1, QuotRem, SMT
  <2>3. Quot(end, Stripe) < 1
    BY <2>2, BelowUnits, SMT
  <2> QED
    BY <2>2, <2>3, SMT DEF end
<1> DEFINE seg == <<[id |-> 0, at |-> offset, len |-> length]>>
<1>3. Pieces(offset, length, Stripe) = seg
  <2>1. /\ InfoByOffset(offset, Stripe).id = 0
        /\ InfoByOffset(offset, Stripe).at = offset
        /\ InfoByOffset(offset + length - 1, Stripe).id = 0
    BY <1>1, <1>2 DEF InfoByOffset
  <2> QED
    BY <2>1, Zenon DEF Pieces
<1>4. Len(seg) = 1 /\ seg[1].at = offset /\ seg[1].len = length
  BY SMT
<1> HIDE DEF seg
<1> QED
  BY <1>3, <1>4, Zenon DEF ChunkServers

\* A stripe has bytes.
LEMMA StripeType == Stripe \in Nat \ {0} /\ Stripe = Size * Data
<1>1. Size \in Nat \ {0} /\ Data \in Nat \ {0}
  BY LargeCallsAssumption
<1>2. Size * Data \in Nat \ {0}
  BY <1>1, SMT
<1> QED
  BY <1>2 DEF Stripe

\* The pieces of a good range are the range, in order and each within a chunk.
THEOREM GoodTiles ==
  ASSUME NEW offset \in Nat, NEW length \in Nat \ {0}, Good(offset, length)
  PROVE  Tiles(ChunkServers(offset, length), offset, length)
<1> DEFINE end == offset + length - 1
           p == Quot(offset, Size)
           q == Quot(end, Size)
           a == Rem(offset, Size)
           z == Rem(end, Size)
           ps == Pieces(offset, length, Size)
<1>1. Size \in Nat \ {0} /\ Data \in Nat \ {0}
  BY LargeCallsAssumption
<1>2. end \in Nat /\ end + 1 = offset + length /\ offset <= end /\ end < Size * Data
  BY StripeType, SMT DEF Good
<1>3. ChunkServers(offset, length) = ps
  BY OneSegment, StripeType DEF Good
<1> HIDE DEF end, ps
<1>4. p \in Nat /\ a \in 0..(Size - 1) /\ offset = Size * p + a
  BY <1>1, QuotRem
<1>5. q \in Nat /\ z \in 0..(Size - 1) /\ end = Size * q + z
  BY <1>1, <1>2, QuotRem
<1>6. offset < Size => p = 0
  <2> SUFFICES ASSUME offset < Size PROVE p = 0
    OBVIOUS
  <2> HIDE DEF p, a
  <2>1. Size * p + a < Size * 1
    BY <1>1, <1>4, SMT
  <2>2. p < 1
    BY <1>1, <1>4, <2>1, BelowUnits, SMT
  <2> QED
    BY <1>4, <2>2, SMT
<1>7. offset \div Size = p /\ end \div Size = q
  BY <1>2 DEF Quot
<1>8. offset < Size \/ p = q
  BY <1>7 DEF Good, end
<1>9. q < Data
  <2> HIDE DEF q, z
  <2>1. Size * q + z < Size * Data
    BY <1>1, <1>2, <1>5, SMT
  <2> QED
    BY <1>1, <1>5, <2>1, BelowUnits, SMT
<1> SUFFICES Tiles(ps, offset, length)
  BY <1>3
<1>10. CASE p = q
  <2>1. ps = <<[id |-> p, at |-> a, len |-> length]>>
    <3>1. /\ InfoByOffset(offset, Size).id = p /\ InfoByOffset(offset, Size).at = a
          /\ InfoByOffset(offset + length - 1, Size).id = q
      BY DEF InfoByOffset, end
    <3> HIDE DEF p, q, a
    <3> QED
      BY <1>10, <3>1, Zenon DEF Pieces, ps
  <2> HIDE DEF p, q, a, z
  <2>2. Size * p = Size * q
    BY <1>10
  <2>3. a + length = z + 1
    BY <1>1, <1>2, <1>4, <1>5, <2>2, SMT
  <2>4. /\ Len(ps) = 1
        /\ ps[1].id = p /\ ps[1].at = a /\ ps[1].len = length
    BY <2>1, SMT
  <2> HIDE DEF ps
  <2>5. p * Size = Size * p
    BY <1>1, <1>4, SMT
  <2>6. Begins(ps[1]) = offset /\ Ends(ps[1]) = offset + length
    BY <1>1, <1>4, <2>4, <2>5, SMT DEF Begins, Ends
  <2> QED
    BY <1>1, <1>4, <1>5, <1>9, <1>10, <2>3, <2>4, <2>6, SMT DEF Tiles
<1>11. CASE p # q
  <2>1. p = 0 /\ offset < Size /\ 0 < q
    BY <1>5, <1>6, <1>8, <1>11, SMT
  <2>2. a = offset
    <3> HIDE DEF p, a
    <3> QED
      BY <1>1, <1>4, <2>1, SMT
  <2>3. /\ Len(ps) = q + 1
        /\ ps[1] = InfoByOffset(offset, Size)
        /\ \A i \in 2..q : ps[i] = [id |-> i - 1, at |-> 0, len |-> Size]
        /\ ps[q + 1] = [id |-> q, at |-> 0, len |-> z + 1]
    <3>1. p < q
      BY <2>1
    <3>2. /\ Len(ps) = q - p + 1
          /\ ps[1] = InfoByOffset(offset, Size)
          /\ \A i \in 2..(q - p) : ps[i] = [id |-> p + i - 1, at |-> 0, len |-> Size]
          /\ ps[q - p + 1] = [id |-> q, at |-> 0, len |-> z + 1]
      BY <1>1, <3>1, PiecesOver DEF ps, end
    <3>3. q - p + 1 = q + 1 /\ q - p = q
      BY <1>5, <2>1, SMT
    <3>4. \A i \in 2..q : p + i - 1 = i - 1
      BY <2>1, SMT
    <3> HIDE DEF p, q, z
    <3> QED
      BY <3>2, <3>3, <3>4, Zenon
  <2>4. /\ InfoByOffset(offset, Size).id = 0 /\ InfoByOffset(offset, Size).at = offset
        /\ InfoByOffset(offset, Size).len = Size - offset
    BY <2>1, <2>2 DEF InfoByOffset
  <2> HIDE DEF p, q, a, z
  <2>5. /\ ps[1].id = 0 /\ ps[1].at = offset /\ ps[1].len = Size - offset
    BY <2>3, <2>4
  <2>6. \A i \in 2..q : ps[i].id = i - 1 /\ ps[i].at = 0 /\ ps[i].len = Size
    <3> TAKE i \in 2..q
    <3>1. ps[i] = [id |-> i - 1, at |-> 0, len |-> Size]
      BY <2>3
    <3> QED
      BY <3>1
  <2>7. ps[q + 1].id = q /\ ps[q + 1].at = 0 /\ ps[q + 1].len = z + 1
    BY <2>3, SMT
  <2>8. Begins(ps[1]) = offset /\ Ends(ps[1]) = Size
    BY <1>1, <2>5, SMT DEF Begins, Ends
  <2>9. \A i \in 2..q : Begins(ps[i]) = (i - 1) * Size /\ Ends(ps[i]) = i * Size
    <3> TAKE i \in 2..q
    <3>1. ps[i].id = i - 1 /\ ps[i].at = 0 /\ ps[i].len = Size
      BY <2>6
    <3>2. (i - 1) * Size + Size = i * Size
      BY <1>1, SMT
    <3>3. (i - 1) * Size \in Int
      BY <1>1, SMT
    <3> HIDE DEF ps
    <3>4. Begins(ps[i]) = (i - 1) * Size
      BY <3>1, <3>3, SMT DEF Begins
    <3> QED
      BY <3>1, <3>2, <3>4 DEF Ends
  <2>10. /\ Begins(ps[q + 1]) = q * Size
         /\ Ends(ps[q + 1]) = offset + length
    <3>1. q * Size = Size * q /\ q * Size \in Int
      BY <1>1, <1>5, SMT
    <3>2. Begins(ps[q + 1]) = q * Size
      BY <2>7, <3>1, SMT DEF Begins
    <3> QED
      BY <1>1, <1>2, <1>5, <2>7, <3>1, <3>2, SMT DEF Ends
  <2>11. \A i \in 1..q : Ends(ps[i]) = Begins(ps[i + 1])
    <3> TAKE i \in 1..q
    <3>1. Ends(ps[i]) = i * Size
      BY <1>1, <1>5, <2>8, <2>9, SMT
    <3>2. Begins(ps[i + 1]) = i * Size
      <4>1. CASE i = q
        BY <2>10, <4>1
      <4>2. CASE i # q
        <5>1. i + 1 \in 2..q /\ (i + 1) - 1 = i
          BY <1>5, <4>2, SMT
        <5> QED
          BY <2>9, <5>1, Zenon
      <4> QED
        BY <4>1, <4>2
    <3> QED
      BY <3>1, <3>2
  <2>12. \A i \in 1..(q + 1) :
           /\ ps[i].id \in 0..(Data - 1)
           /\ ps[i].at >= 0 /\ ps[i].len > 0
           /\ ps[i].at + ps[i].len <= Size
    <3> TAKE i \in 1..(q + 1)
    <3>1. CASE i = 1
      BY <1>1, <2>1, <2>5, <3>1, SMT
    <3>2. CASE i \in 2..q
      BY <1>1, <1>5, <1>9, <2>6, <3>2, SMT
    <3>3. CASE i = q + 1
      BY <1>1, <1>5, <1>9, <2>7, <3>3, SMT
    <3> QED
      BY <1>5, <3>1, <3>2, <3>3, SMT
  <2>13. (q + 1) - 1 = q
    BY <1>5, SMT
  <2>14. Len(ps) = q + 1
    BY <2>3
  <2> QED
    BY <2>8, <2>10, <2>11, <2>12, <2>13, <2>14, Zenon DEF Tiles
<1> QED
  BY <1>10, <1>11

-----------------------------------------------------------------------------
\* A call works on what the master answered for a range of the program.
CallInv ==
  call # NoCall =>
    \E r \in Ranges : /\ call.offset = r[1] /\ call.length = r[2]
                      /\ call.pieces = ChunkServers(r[1], r[2])
                      /\ call.op \in {"write", "read"}
                      /\ call.name \in Calls

\* No step leaves a call with other pieces.
LEMMA CallStep ==
  ASSUME CallInv, [Next]_vars
  PROVE  CallInv'
<1>1. ASSUME NEW c \in Calls, NEW r \in Ranges, CallRefused(c, r[1], r[2])
      PROVE  CallInv'
  BY <1>1 DEF CallRefused, ProgramEnds, CallInv
<1>2. ASSUME NEW c \in Calls, NEW r \in Ranges, NEW op \in {"write", "read"},
             NEW sym \in Sym, Call(c, op, r[1], r[2], sym)
      PROVE  CallInv'
  <2>1. call' = [name |-> c, op |-> op, offset |-> r[1], length |-> r[2],
                 pieces |-> ChunkServers(r[1], r[2])]
    BY <1>2, Zenon DEF Call
  <2>2. /\ call'.offset = r[1] /\ call'.length = r[2]
        /\ call'.pieces = ChunkServers(r[1], r[2])
        /\ call'.op \in {"write", "read"} /\ call'.name \in Calls
    BY <2>1
  <2> QED
    BY <2>2, Zenon DEF CallInv
<1>3. ASSUME NEW t \in threads, Sends(t) \/ Serve(t) \/ Resize(t) \/ ReadByte(t) \/ ThreadEnds(t)
      PROVE  CallInv'
  <2>1. call' = call
    BY <1>3, Zenon DEF Sends, Serve, Resize, ReadByte, ThreadEnds
  <2> QED
    BY <2>1, Zenon DEF CallInv
<1>4. ASSUME NEW t \in threads, LateEnds(t)
      PROVE  CallInv'
  <2>1. call' = NoCall
    BY <1>4, Zenon DEF LateEnds, ProgramEnds
  <2> QED
    BY <2>1, Zenon DEF CallInv
<1>5. CASE Return \/ Exit \/ LookTorn
  <2>1. call' = NoCall
    BY <1>5, Zenon DEF Return, Exit, LookTorn, ProgramEnds
  <2> QED
    BY <2>1, Zenon DEF CallInv
<1>6. CASE Launch \/ Create \/ Look \/ CopyByte \/ UNCHANGED vars
  <2>1. call' = call
    BY <1>6, Zenon DEF Launch, Create, Look, CopyByte, vars
  <2> QED
    BY <2>1, Zenon DEF CallInv
<1> QED
  BY <1>1, <1>2, <1>3, <1>4, <1>5, <1>6, Zenon DEF Next

\* The pieces of every call for a good range cover it, whatever the sizes: the
\* master's arithmetic and the client's running sum fit together.
THEOREM PiecesTiled == Spec => []PiecesTile
<1>1. Init => CallInv
  BY DEF Init, CallInv
<1>2. CallInv /\ [Next]_vars => CallInv'
  BY CallStep
<1>3. CallInv => PiecesTile
  <2> SUFFICES ASSUME CallInv, call # NoCall, Good(call.offset, call.length)
               PROVE  Tiles(call.pieces, call.offset, call.length)
    BY DEF PiecesTile
  <2>1. PICK r \in Ranges : /\ call.offset = r[1] /\ call.length = r[2]
                            /\ call.pieces = ChunkServers(r[1], r[2])
    BY DEF CallInv
  <2>2. r[1] \in Nat /\ r[2] \in Nat \ {0}
    <3>1. r[1] \in 0..(2 * Size * Data - 1) /\ r[2] \in Nat \ {0}
      BY LargeCallsAssumption
    <3> QED
      BY <3>1, SMT
  <2> QED
    BY <2>1, <2>2, GoodTiles
<1> QED
  BY <1>1, <1>2, <1>3, PTL DEF Spec


-----------------------------------------------------------------------------
\* A set of numbers that is not empty has a least element.
LEMMA Least ==
  ASSUME NEW T \in SUBSET Nat, T # {}
  PROVE  \E x \in T : \A y \in T : x <= y
<1>1. IsWellFoundedOn(OpToRel(<, Nat), Nat)
  BY NatLessThanWellFounded, Zenon
<1>2. \E x \in T : \A y \in T : <<y, x>> \notin OpToRel(<, Nat)
  BY <1>1, WFMin, Zenon
<1>3. \A x, y \in Nat : <<y, x>> \notin OpToRel(<, Nat) => ~(y < x)
  BY Zenon DEF OpToRel
<1>4. \A x, y \in Nat : ~(y < x) => x <= y
  OBVIOUS
<1> QED
  BY <1>2, <1>3, <1>4, Zenon

\* Intervals one after the other stay in the range from the first to the last, and
\* every number of that range is in one of them.
LEMMA IntervalsTile ==
  ASSUME NEW n \in Nat \ {0}, NEW b \in [1..n -> Int], NEW e \in [1..n -> Int],
         \A i \in 1..n : b[i] < e[i],
         \A i \in 1..(n - 1) : e[i] = b[i + 1]
  PROVE  /\ \A i \in 1..n : b[1] <= b[i] /\ e[i] <= e[n]
         /\ \A o \in b[1]..(e[n] - 1) : \E i \in 1..n : o \in b[i]..(e[i] - 1)
<1>1. \A i \in 2..n : e[i - 1] = b[i]
  <2> TAKE i \in 2..n
  <2>1. i - 1 \in 1..(n - 1) /\ (i - 1) + 1 = i
    OBVIOUS
  <2> QED
    BY <2>1
<1>2. \A i \in 1..n : b[1] <= b[i]
  <2> DEFINE T == {i \in 1..n : b[i] < b[1]}
  <2> SUFFICES ASSUME T # {} PROVE FALSE
    <3>1. T = {} => \A i \in 1..n : ~(b[i] < b[1])
      OBVIOUS
    <3>2. \A i \in 1..n : b[i] \in Int /\ b[1] \in Int
      OBVIOUS
    <3> HIDE DEF T
    <3> QED
      BY <3>1, <3>2
  <2>1. T \in SUBSET Nat
    OBVIOUS
  <2>2. PICK x \in T : \A y \in T : x <= y
    BY <2>1, Least
  <2>3. x \in 2..n /\ x - 1 \in 1..n /\ x - 1 \notin T
    BY <2>2
  <2>4. b[x - 1] < e[x - 1] /\ e[x - 1] = b[x]
    BY <1>1, <2>3
  <2> QED
    BY <2>2, <2>3, <2>4
<1>3. \A i \in 1..n : e[i] <= e[n]
  <2> DEFINE T == {k \in 0..(n - 1) : e[n - k] > e[n]}
  <2> SUFFICES ASSUME T # {} PROVE FALSE
    <3>1. \A i \in 1..n : n - i \in 0..(n - 1) /\ n - (n - i) = i
      OBVIOUS
    <3>2. T = {} => \A k \in 0..(n - 1) : ~(e[n - k] > e[n])
      OBVIOUS
    <3>3. \A i \in 1..n : e[i] \in Int /\ e[n] \in Int
      OBVIOUS
    <3>4. T = {} => \A i \in 1..n : ~(e[i] > e[n])
      <4> HIDE DEF T
      <4> QED
        BY <3>1, <3>2
    <3> HIDE DEF T
    <3> QED
      BY <3>3, <3>4
  <2>1. T \in SUBSET Nat
    OBVIOUS
  <2>2. PICK x \in T : \A y \in T : x <= y
    BY <2>1, Least
  <2>3. x # 0
    BY <2>2
  <2>4. /\ x - 1 \in 0..(n - 1) /\ n - (x - 1) = (n - x) + 1
        /\ n - x \in 1..(n - 1)
    BY <2>2, <2>3
  <2>7. x - 1 \notin T
    <3> HIDE DEF T
    <3> QED
      BY <2>1, <2>2
  <2>5. e[n - x] = b[(n - x) + 1] /\ b[(n - x) + 1] < e[(n - x) + 1]
    BY <2>4
  <2>6. e[(n - x) + 1] <= e[n]
    BY <2>4, <2>7
  <2> QED
    BY <2>2, <2>4, <2>5, <2>6
<1>4. ASSUME NEW o \in b[1]..(e[n] - 1)
      PROVE  \E i \in 1..n : o \in b[i]..(e[i] - 1)
  <2> DEFINE T == {i \in 1..n : o < e[i]}
  <2>1. T \in SUBSET Nat /\ n \in T
    BY <1>4
  <2>2. PICK x \in T : \A y \in T : x <= y
    BY <2>1, Least
  <2>3. CASE x = 1
    BY <1>4, <2>2, <2>3
  <2>4. CASE x # 1
    <3>1. x \in 2..n /\ x - 1 \in 1..n /\ x - 1 \notin T
      BY <2>2, <2>4
    <3>2. e[x - 1] <= o /\ e[x - 1] = b[x]
      BY <1>1, <1>4, <3>1
    <3> QED
      BY <1>4, <2>2, <3>2
  <2> QED
    BY <2>3, <2>4
<1> QED
  BY <1>2, <1>3, <1>4

\* A byte is at one place of one chunk.
LEMMA OnePlace ==
  ASSUME NEW b \in Nat \ {0}, NEW p \in Nat, NEW x \in 0..(b - 1),
         NEW q \in Nat, NEW y \in 0..(b - 1), p * b + x = q * b + y
  PROVE  p = q /\ x = y
<1>1. ASSUME NEW k \in Nat, NEW l \in Nat, k < l PROVE k * b + b <= l * b
  <2>1. b * (l - k - 1) >= 0
    BY <1>1
  <2>2. b * (l - k - 1) = l * b - k * b - b
    BY <1>1
  <2> QED
    BY <2>1, <2>2
<1>2. ~(p < q)
  BY <1>1
<1>3. ~(q < p)
  BY <1>1
<1>4. p = q
  BY <1>2, <1>3
<1> QED
  BY <1>4

\* A byte of a chunk is a byte of the stripe.
LEMMA InStripe ==
  ASSUME NEW s \in 0..(Data - 1), NEW j \in 0..(Size - 1)
  PROVE  s * Size + j \in Offsets
<1>1. Size \in Nat \ {0} /\ Data \in Nat \ {0}
  BY LargeCallsAssumption
<1>2. Size * (Data - 1 - s) >= 0
  BY <1>1
<1>3. Size * (Data - 1 - s) = Size * Data - Size - s * Size
  BY <1>1
<1>4. s * Size >= 0 /\ s * Size \in Int /\ Size * Data \in Int
  BY <1>1
<1> HIDE DEF Offsets
<1>5. s * Size + j <= Size * Data - 1 /\ s * Size + j >= 0
  BY <1>1, <1>2, <1>3, <1>4
<1> QED
  BY <1>4, <1>5, StripeType DEF Offsets

\* The client's running sum is where a piece begins in the range.
LEMMA BeforeIs ==
  ASSUME NEW n \in Nat \ {0}, NEW ps, NEW g \in [1..n -> Int], g[1] = 0,
         \A i \in 2..n : g[i] = g[i - 1] + ps[i - 1].len
  PROVE  Before(ps, n) = g[n]
<1> DEFINE temp_length == CHOOSE s : s =
             [k \in 1..n |-> IF k = 1 THEN 0 ELSE s[k - 1] + ps[k - 1].len]
<1>1. g = [k \in 1..n |-> IF k = 1 THEN 0 ELSE g[k - 1] + ps[k - 1].len]
  OBVIOUS
<1>2. \E s : s = [k \in 1..n |-> IF k = 1 THEN 0 ELSE s[k - 1] + ps[k - 1].len]
  BY <1>1, Zenon
<1>3. temp_length = [k \in 1..n |-> IF k = 1 THEN 0
                                    ELSE temp_length[k - 1] + ps[k - 1].len]
  BY <1>2, Zenon
<1>4. Before(ps, n) = temp_length[n]
  BY Zenon DEF Before
<1> HIDE DEF temp_length
<1>5. \A k \in 1..n : temp_length[k] = IF k = 1 THEN 0
                                       ELSE temp_length[k - 1] + ps[k - 1].len
  BY <1>3, Zenon
<1>6. temp_length[1] = g[1]
  BY <1>5
<1>7. \A i \in 2..n : temp_length[i - 1] = g[i - 1] => temp_length[i] = g[i]
  BY <1>5
<1>8. \A i \in 1..n : temp_length[i] = g[i]
  <2> DEFINE T == {i \in 1..n : temp_length[i] # g[i]}
  <2> SUFFICES ASSUME T # {} PROVE FALSE
    OBVIOUS
  <2>1. T \in SUBSET Nat
    OBVIOUS
  <2>2. PICK x \in T : \A y \in T : x <= y
    BY <2>1, Least
  <2>3. x \in 2..n /\ x - 1 \in 1..n /\ x - 1 \notin T
    BY <1>6, <2>2
  <2> QED
    BY <1>7, <2>2, <2>3
<1> QED
  BY <1>4, <1>8

\* What the client sends for a piece of a good range: the position is that of the
\* piece in its chunk.
LEMMA GoodPieces ==
  ASSUME NEW offset \in Nat, NEW length \in Nat \ {0}, Good(offset, length)
  PROVE  LET ps == ChunkServers(offset, length)
         IN /\ ps \in Seq(Piece) /\ Len(ps) \in Nat \ {0}
            /\ \A i \in 1..Len(ps) : Position(ps[i]) = ps[i].at
<1> DEFINE end == offset + length - 1
           p == Quot(offset, Size)
           q == Quot(end, Size)
           a == Rem(offset, Size)
           z == Rem(end, Size)
           ps == Pieces(offset, length, Size)
           mid == [i \in 1..(q - p - 1) |-> [id |-> p + i, at |-> 0, len |-> Size]]
<1>1. Size \in Nat \ {0} /\ Part \in Nat \ {0}
  BY LargeCallsAssumption
<1>2. end \in Nat
  OBVIOUS
<1>3. ChunkServers(offset, length) = ps
  BY OneSegment, StripeType DEF Good
<1> HIDE DEF end, ps
<1>4. p \in Nat /\ q \in Nat /\ a \in Nat /\ z \in Nat
  BY <1>1, <1>2, QuotRem
<1>5. a % Part = 0
  <2>1. a = offset % Size
    <3>1. Quot(offset, Size) = offset \div Size
      BY DEF Quot
    <3> QED
      BY <1>1, <3>1 DEF Rem
  <2> QED
    BY <2>1 DEF Good
<1> DEFINE first == InfoByOffset(offset, Size)
           last  == InfoByOffset(end, Size)
<1>6. first \in Piece /\ first.id = p /\ first.at = a
  BY <1>1, InfoFields
<1>7. last.id = q /\ last.at = z
  BY <1>1, <1>2, InfoFields
<1> HIDE DEF first, last, p, q, a, z, mid
<1>8. (a \div Part) * Part = a /\ (0 \div Part) * Part = 0
  <2>1. a = Part * (a \div Part) + (a % Part) /\ a \div Part \in Nat
    BY <1>1, <1>4
  <2>2. 0 \div Part = 0
    <3>1. /\ 0 = Part * (0 \div Part) + (0 % Part)
          /\ 0 \div Part \in Nat /\ 0 % Part \in Nat
      BY <1>1
    <3>2. 0 \div Part < 1
      <4>1. Part * (0 \div Part) + (0 % Part) < Part * 1
        BY <1>1, <3>1
      <4> QED
        BY <1>1, <3>1, <4>1, BelowUnits
    <3> QED
      BY <3>1, <3>2
  <2> QED
    BY <1>1, <1>5, <2>1, <2>2
<1> SUFFICES /\ ps \in Seq(Piece) /\ Len(ps) \in Nat \ {0}
             /\ \A i \in 1..Len(ps) : Position(ps[i]) = ps[i].at
  BY <1>3
<1>9. CASE p = q
  <2> DEFINE one == [id |-> p, at |-> a, len |-> length]
  <2>1. ps = <<one>>
    BY <1>6, <1>7, <1>9, Zenon DEF Pieces, ps, first, last, end
  <2>2. one \in Piece /\ one.at = a
    BY <1>4 DEF Piece
  <2> HIDE DEF one
  <2>3. ps \in Seq(Piece) /\ Len(ps) = 1 /\ ps[1] = one
    BY <2>1, <2>2
  <2>4. Position(ps[1]) = ps[1].at
    BY <1>8, <2>2, <2>3 DEF Position
  <2> QED
    BY <2>3, <2>4
<1>10. CASE p # q
  <2>1. offset \div Size = p /\ end \div Size = q
    BY <1>2 DEF Quot, p, q
  <2>2. offset < Size
    BY <1>10, <2>1 DEF Good, end
  <2>3. p = 0
    BY <1>1, <2>1, <2>2
  <2>4. p < q
    BY <1>4, <1>10, <2>3
  <2> DEFINE lastPiece == [id |-> q, at |-> 0, len |-> z + 1]
  <2>5. /\ Len(ps) = q - p + 1
        /\ ps[1] = first
        /\ \A i \in 2..(q - p) : ps[i] = [id |-> p + i - 1, at |-> 0, len |-> Size]
        /\ ps[q - p + 1] = lastPiece
    BY <1>1, <2>4, PiecesOver DEF ps, p, q, z, end, first
  <2>6. ps = <<first>> \o mid \o <<lastPiece>>
    BY <1>6, <1>7, <1>10, Zenon DEF Pieces, ps, first, last, end, mid
  <2>7. /\ <<first>> \in Seq(Piece) /\ mid \in Seq(Piece) /\ <<lastPiece>> \in Seq(Piece)
    <3>1. q - p - 1 \in Nat
      BY <1>4, <2>4
    <3>2. mid \in [1..(q - p - 1) -> Piece]
      BY <1>1, <1>4 DEF mid, Piece
    <3>3. lastPiece \in Piece
      BY <1>4 DEF Piece
    <3> HIDE DEF lastPiece
    <3> QED
      BY <1>6, <3>1, <3>2, <3>3
  <2>8. ps \in Seq(Piece)
    <3>1. <<first>> \o mid \in Seq(Piece)
      BY <2>7, ConcatProperties, Zenon
    <3> QED
      BY <2>6, <2>7, <3>1, ConcatProperties, Zenon
  <2>9. ps[1].at = a /\ \A i \in 2..(q - p + 1) : ps[i].at = 0
    <3>1. \A i \in 2..(q - p) : ps[i].at = 0
      <4> TAKE i \in 2..(q - p)
      <4>1. ps[i] = [id |-> p + i - 1, at |-> 0, len |-> Size]
        BY <2>5
      <4> QED
        BY <4>1
    <3>2. ps[q - p + 1].at = 0
      <4>1. lastPiece.at = 0
        OBVIOUS
      <4> HIDE DEF lastPiece
      <4> QED
        BY <2>5, <4>1
    <3>3. ps[1].at = a
      BY <1>6, <2>5
    <3> HIDE DEF ps
    <3>4. \A i \in 2..(q - p + 1) : i \in 2..(q - p) \/ i = q - p + 1
      BY <1>4
    <3> QED
      BY <3>1, <3>2, <3>3, <3>4, Zenon
  <2>10. \A i \in 1..Len(ps) : Position(ps[i]) = ps[i].at
    <3> TAKE i \in 1..Len(ps)
    <3>1. ps[i].at = a \/ ps[i].at = 0
      BY <1>4, <2>5, <2>9
    <3> QED
      BY <1>8, <3>1 DEF Position
  <2>11. Len(ps) \in Nat \ {0}
    BY <1>4, <2>4, <2>5
  <2> QED
    BY <2>8, <2>10, <2>11
<1> QED
  BY <1>9, <1>10

\* What the client and the servers make of piece i of a range: it is within a chunk,
\* its slice of the buffer is the one for its bytes, and these are of the range.
Placed(ps, i, offset, length) ==
  /\ ps[i].id \in 0..(Data - 1) /\ ps[i].at \in Nat /\ ps[i].len \in Nat \ {0}
  /\ ps[i].at + ps[i].len <= Size
  /\ Position(ps[i]) = ps[i].at
  /\ offset + Before(ps, i) = Begins(ps[i])
  /\ offset <= Begins(ps[i]) /\ Begins(ps[i]) + ps[i].len <= offset + length

\* The pieces of a good range are placed and leave no byte of it out.
LEMMA RangePieces ==
  ASSUME NEW offset \in Nat, NEW length \in Nat \ {0}, Good(offset, length),
         NEW ps, ps = ChunkServers(offset, length)
  PROVE  /\ \A i \in DOMAIN ps : Placed(ps, i, offset, length)
         /\ \A s \in 0..(Data - 1), j \in 0..(Size - 1) :
              s * Size + j \in offset..(offset + length - 1) =>
                \E i \in DOMAIN ps : /\ ps[i].id = s
                                     /\ j \in ps[i].at..(ps[i].at + ps[i].len - 1)
<1>1. ps = ChunkServers(offset, length)
  OBVIOUS
<1>2. PICK n \in Nat \ {0} : n = Len(ps)
  BY <1>1, GoodPieces
<1>3. Size \in Nat \ {0} /\ Data \in Nat \ {0}
  BY LargeCallsAssumption
<1>4. ps \in Seq(Piece) /\ DOMAIN ps = 1..n /\ \A i \in 1..n : Position(ps[i]) = ps[i].at
  BY <1>1, <1>2, GoodPieces
<1>5. Tiles(ps, offset, length)
  BY <1>1, GoodTiles
<1>6. /\ Begins(ps[1]) = offset /\ Ends(ps[n]) = offset + length
      /\ \A i \in 1..(n - 1) : Ends(ps[i]) = Begins(ps[i + 1])
  BY <1>2, <1>5, Zenon DEF Tiles
<1>7. \A i \in 1..n : /\ ps[i].id \in 0..(Data - 1)
                      /\ ps[i].at \in Nat /\ ps[i].len \in Nat \ {0}
                      /\ ps[i].at + ps[i].len <= Size
  <2> TAKE i \in 1..n
  <2>1. ps[i] \in Piece
    BY <1>2, <1>4
  <2>2. /\ ps[i].id \in 0..(Data - 1)
        /\ ps[i].at >= 0 /\ ps[i].len > 0 /\ ps[i].at + ps[i].len <= Size
    BY <1>2, <1>5, Zenon DEF Tiles
  <2>3. ps[i].at \in Nat /\ ps[i].len \in Int
    BY <2>1 DEF Piece
  <2> QED
    BY <2>2, <2>3
<1> DEFINE b == [i \in 1..n |-> Begins(ps[i])]
           e == [i \in 1..n |-> Ends(ps[i])]
<1>8. \A i \in 1..n : /\ Begins(ps[i]) \in Int /\ Ends(ps[i]) \in Int
                      /\ Ends(ps[i]) = Begins(ps[i]) + ps[i].len
                      /\ Begins(ps[i]) < Ends(ps[i])
  <2> TAKE i \in 1..n
  <2>1. ps[i].id * Size \in Int
    BY <1>3, <1>7
  <2>2. Begins(ps[i]) \in Int
    BY <1>7, <2>1 DEF Begins
  <2>3. Ends(ps[i]) = Begins(ps[i]) + ps[i].len
    BY DEF Ends
  <2> QED
    BY <1>7, <2>2, <2>3
<1>9. /\ \A i \in 1..n : b[1] <= b[i] /\ e[i] <= e[n]
      /\ \A o \in b[1]..(e[n] - 1) : \E i \in 1..n : o \in b[i]..(e[i] - 1)
  <2>1. b \in [1..n -> Int] /\ e \in [1..n -> Int]
    BY <1>8
  <2>2. \A i \in 1..n : b[i] < e[i]
    BY <1>8
  <2>3. \A i \in 1..(n - 1) : e[i] = b[i + 1]
    <3> TAKE i \in 1..(n - 1)
    <3>1. i \in 1..n /\ i + 1 \in 1..n
      OBVIOUS
    <3> QED
      BY <1>6, <3>1
  <2> HIDE DEF b, e
  <2> QED
    BY <2>1, <2>2, <2>3, IntervalsTile
<1>10. 1 \in 1..n /\ n \in 1..n
  OBVIOUS
<1>11. \A i \in 1..n : offset <= Begins(ps[i]) /\ Begins(ps[i]) + ps[i].len <= offset + length
  BY <1>6, <1>8, <1>9, <1>10
<1>12. \A i \in 1..n : offset + Before(ps, i) = Begins(ps[i])
  <2> TAKE i \in 1..n
  <2> DEFINE g == [k \in 1..i |-> Begins(ps[k]) - offset]
  <2>1. \A k \in 1..i : k \in 1..n
    OBVIOUS
  <2>2. g \in [1..i -> Int] /\ g[1] = 0
    BY <1>6, <1>8, <2>1
  <2>3. \A k \in 2..i : g[k] = g[k - 1] + ps[k - 1].len
    <3> TAKE k \in 2..i
    <3>1. k \in 1..i /\ k - 1 \in 1..i /\ k - 1 \in 1..(n - 1) /\ (k - 1) + 1 = k
      OBVIOUS
    <3>2. Ends(ps[k - 1]) = Begins(ps[k])
      BY <1>6, <3>1
    <3>3. Begins(ps[k]) = Begins(ps[k - 1]) + ps[k - 1].len
      BY <1>8, <2>1, <3>1, <3>2
    <3>4. Begins(ps[k - 1]) \in Int /\ ps[k - 1].len \in Int
      BY <1>7, <1>8, <2>1, <3>1
    <3> QED
      BY <3>1, <3>3, <3>4
  <2>4. Before(ps, i) = g[i]
    <3>1. i \in Nat \ {0}
      OBVIOUS
    <3>2. PICK f : f = g
      OBVIOUS
    <3>3. f \in [1..i -> Int] /\ f[1] = 0
      BY <2>2, <3>2, Zenon
    <3>4. \A k \in 2..i : f[k] = f[k - 1] + ps[k - 1].len
      BY <2>3, <3>2, Zenon
    <3> HIDE DEF g
    <3>5. Before(ps, i) = f[i]
      BY <3>1, <3>3, <3>4, BeforeIs, Zenon
    <3> QED
      BY <3>2, <3>5, Zenon
  <2> QED
    BY <1>8, <2>4
<1>13. \A i \in 1..n : Placed(ps, i, offset, length)
  BY <1>4, <1>7, <1>11, <1>12, Zenon DEF Placed
<1>14. ASSUME NEW s \in 0..(Data - 1), NEW j \in 0..(Size - 1),
              s * Size + j \in offset..(offset + length - 1)
       PROVE  \E i \in 1..n : /\ ps[i].id = s
                              /\ j \in ps[i].at..(ps[i].at + ps[i].len - 1)
  <2>1. PICK o : o = s * Size + j
    OBVIOUS
  <2>2. o \in b[1]..(e[n] - 1)
    BY <1>6, <1>10, <1>14, <2>1
  <2>3. PICK i \in 1..n : o \in Begins(ps[i])..(Ends(ps[i]) - 1)
    BY <1>9, <2>2
  <2>4. PICK k \in Nat : k = ps[i].id
    BY <1>7
  <2>5. PICK x \in Nat : x = ps[i].at
    BY <1>7
  <2>6. PICK l \in Nat : l = ps[i].len /\ x + l <= Size
    BY <1>7, <2>5
  <2>7. k * Size \in Int /\ s * Size \in Int
    BY <1>3
  <2>8. o >= k * Size + x /\ o < k * Size + x + l
    BY <2>3, <2>4, <2>5, <2>6, <2>7 DEF Begins, Ends
  <2>9. PICK y \in 0..(Size - 1) : s * Size + j = k * Size + y /\ y \in x..(x + l - 1)
    <3>1. (s * Size + j) - k * Size \in x..(x + l - 1)
      BY <2>1, <2>7, <2>8
    <3>2. s * Size + j = k * Size + ((s * Size + j) - k * Size)
      BY <2>7
    <3>3. (s * Size + j) - k * Size \in 0..(Size - 1)
      BY <1>3, <2>6, <3>1
    <3> QED
      BY <3>1, <3>2, <3>3
  <2>10. s = k /\ j = y
    BY <1>3, <2>9, OnePlace
  <2> QED
    BY <2>4, <2>5, <2>6, <2>9, <2>10
<1> QED
  BY <1>1, <1>4, <1>13, <1>14

-----------------------------------------------------------------------------
\* A thread is a record of its fields.
ThreadRecord(t) ==
  t = [call |-> t.call, op |-> t.op, slot |-> t.slot, srv |-> t.srv, pos |-> t.pos,
       len |-> t.len, state |-> t.state, data |-> t.data, got |-> t.got]

ThreadRecords == \A t \in threads : ThreadRecord(t)

\* What the proofs of a patient program carry from state to state.
PatientProgram == CallInv /\ ThreadRecords /\ PatientInv

\* What the program asks for is a range.
LEMMA RangeTypes ==
  ASSUME NEW r \in Ranges
  PROVE  r[1] \in Nat /\ r[2] \in Nat \ {0}
<1>1. r[1] \in 0..(2 * Size * Data - 1) /\ r[2] \in Nat \ {0}
  BY LargeCallsAssumption
<1> QED
  BY <1>1

\* The thread a call starts for piece i.
StartedFor(t, i, c, op, ps, offset, sym) ==
  /\ ThreadRecord(t)
  /\ t.call = c /\ t.op = op /\ t.slot = i /\ t.srv = ps[i].id
  /\ t.pos = Position(ps[i]) /\ t.len = ps[i].len /\ t.state = "started" /\ t.got = 0
  /\ t.data = IF op = "write" THEN Slice(ps, i, offset, sym) ELSE <<>>

LEMMA StartedThreads ==
  ASSUME NEW c, NEW op, NEW ps, NEW offset, NEW sym
  PROVE  /\ \A t \in Started(c, op, ps, offset, sym) :
              \E i \in DOMAIN ps : StartedFor(t, i, c, op, ps, offset, sym)
         /\ \A i \in DOMAIN ps :
              \E t \in Started(c, op, ps, offset, sym) : StartedFor(t, i, c, op, ps, offset, sym)
         /\ \A t, u \in Started(c, op, ps, offset, sym) : t.slot = u.slot => t = u
<1> DEFINE T(i) == [call |-> c, op |-> op, slot |-> i, srv |-> ps[i].id,
                    pos |-> Position(ps[i]), len |-> ps[i].len, state |-> "started", got |-> 0,
                    data |-> IF op = "write" THEN Slice(ps, i, offset, sym) ELSE <<>>]
<1>1. Started(c, op, ps, offset, sym) = {T(i) : i \in DOMAIN ps}
  BY Zenon DEF Started
<1>2. ASSUME NEW i \in DOMAIN ps
      PROVE  StartedFor(T(i), i, c, op, ps, offset, sym)
  BY DEF StartedFor, ThreadRecord
<1>3. \A i \in DOMAIN ps : T(i).slot = i
  OBVIOUS
<1> HIDE DEF T
<1> QED
  BY <1>1, <1>2, <1>3

\* The bytes a thread of a good write brings are what the program has then written.
LEMMA SliceIsImage ==
  ASSUME NEW offset \in Nat, NEW length \in Nat \ {0}, NEW sym, NEW ps, NEW i, NEW img,
         Placed(ps, i, offset, length), offset + length <= Stripe,
         \A o \in Offsets : o \in offset..(offset + length - 1) => img[o] = <<sym, o>>
  PROVE  Slice(ps, i, offset, sym)
           = [j \in 1..ps[i].len |-> img[ps[i].id * Size + Position(ps[i]) + j - 1]]
<1>1. Size \in Nat /\ Stripe \in Nat
  BY LargeCallsAssumption, StripeType
<1>2. PICK k \in Nat : k = ps[i].id * Size + Position(ps[i])
  <2>1. ps[i].id \in Nat /\ Position(ps[i]) \in Nat
    <3>1. ps[i].id \in 0..(Data - 1) /\ Position(ps[i]) \in Nat
      BY DEF Placed
    <3> QED
      BY <3>1, LargeCallsAssumption
  <2> QED
    BY <1>1, <2>1
<1>3. PICK l \in Nat : l = ps[i].len
  BY DEF Placed
<1>4. k = offset + Before(ps, i) /\ offset <= k /\ k + l <= offset + length
  BY <1>2, <1>3 DEF Placed, Begins
<1>5. ASSUME NEW j \in 1..l
      PROVE  <<sym, offset + Before(ps, i) + j - 1>> = img[k + j - 1]
  <2>1. k + j - 1 \in offset..(offset + length - 1) /\ k + j - 1 \in 0..(Stripe - 1)
    BY <1>1, <1>4
  <2>2. img[k + j - 1] = <<sym, k + j - 1>>
    BY <2>1 DEF Offsets
  <2> QED
    BY <1>4, <2>2
<1> QED
  BY <1>2, <1>3, <1>5 DEF Slice

-----------------------------------------------------------------------------
\* Nothing of a piece is part of it.
LEMMA EmptyPart ==
  ASSUME NEW p, p.len \in Nat
  PROVE  Len(<<>>) = 0 /\ PartOf(<<>>, p) /\ PartOf(<<>>, p)'
<1>1. Len(<<>>) = 0 /\ <<>> = [j \in 1..0 |-> <<>>[j]] /\ 0 \in 0..p.len
  OBVIOUS
<1>2. \A j \in 1..Len(<<>>) : FALSE
  BY <1>1
<1> QED
  BY <1>1, <1>2 DEF PartOf

\* A call: its threads are the only ones, and bring all of what a good write changes.
LEMMA CallKeeps ==
  ASSUME Patient, ThreadRecords, PatientInv,
         NEW c \in Calls, NEW op \in {"write", "read"},
         NEW offset \in Nat, NEW length \in Nat \ {0}, NEW sym,
         Call(c, op, offset, length, sym)
  PROVE  ThreadRecords' /\ PatientInv'
<1>1. PICK ps : ps = ChunkServers(offset, length)
  OBVIOUS
<1>2. threads = {} /\ call = NoCall /\ running /\ whole
  BY Zenon DEF Call, Callable
<1>3. /\ call' = [name |-> c, op |-> op, offset |-> offset, length |-> length, pieces |-> ps]
      /\ answers' = [i \in DOMAIN ps |-> <<>>]
      /\ threads' = threads \cup Started(c, op, ps, offset, sym)
      /\ file' = file /\ running' = running
  BY <1>1, Zenon DEF Call
<1>4. /\ call'.name = c /\ call'.op = op /\ call'.offset = offset
      /\ call'.length = length /\ call'.pieces = ps
  BY <1>3
<1>5. /\ op = "write" => /\ image' = [o \in Offsets |-> IF o \in offset..(offset + length - 1)
                                                       THEN <<sym, o>> ELSE image[o]]
                         /\ whole' = Good(offset, length)
      /\ op # "write" => image' = image /\ whole' = whole
  BY DEF Call
<1>6. threads' = Started(c, op, ps, offset, sym)
  BY <1>2, <1>3
<1>7. \A t \in threads' : \E i \in DOMAIN ps : StartedFor(t, i, c, op, ps, offset, sym)
  BY <1>6, StartedThreads, Zenon
<1>8. \A i \in DOMAIN ps : \E t \in threads' : StartedFor(t, i, c, op, ps, offset, sym)
  BY <1>6, StartedThreads, Zenon
<1>9. ThreadRecords'
  BY <1>7 DEF ThreadRecords, StartedFor
<1>10. Good(offset, length) => \A i \in DOMAIN ps : Placed(ps, i, offset, length)
  <2> HIDE DEF Placed
  <2> QED
    BY <1>1, RangePieces
<1>11. Good(offset, length) =>
         \A s \in 0..(Data - 1), j \in 0..(Size - 1) :
           s * Size + j \in offset..(offset + length - 1) =>
             \E i \in DOMAIN ps : ps[i].id = s /\ j \in ps[i].at..(ps[i].at + ps[i].len - 1)
  BY <1>1, RangePieces
<1>12. ThreadsOfCall'
  <2>1. \A t \in threads' : t.call = c /\ t.op = op /\ t.slot \in DOMAIN ps
    BY <1>7, Zenon DEF StartedFor
  <2>2. answers' = [i \in DOMAIN ps |-> answers'[i]]
    BY <1>3
  <2>3. call' # NoCall => call'.offset \in Nat /\ call'.length \in Nat \ {0}
    BY <1>4
  <2>4. ~running' => call' = NoCall
    BY <1>2, <1>3
  <2> QED
    BY <1>1, <1>4, <2>1, <2>2, <2>3, <2>4, Zenon DEF ThreadsOfCall
<1>13. FileBehindImage'
  <2>1. FileBehindImage
    BY DEF PatientInv
  <2>2. file' = [s \in 0..(Data - 1) |-> [j \in 0..(Size - 1) |-> file'[s][j]]]
    BY <1>3, <2>1 DEF FileBehindImage
  <2> SUFFICES ASSUME whole'
               PROVE  /\ \A t \in threads' : Writes(t) =>
                           /\ t.srv \in 0..(Data - 1) /\ t.pos \in Nat /\ t.pos + t.len <= Size
                           /\ t.len \in Nat
                           /\ t.data = [j \in 1..t.len |-> image'[t.srv * Size + t.pos + j - 1]]
                      /\ \A s \in 0..(Data - 1), j \in 0..(Size - 1) :
                           \/ file'[s][j] = image'[s * Size + j]
                           \/ \E t \in threads' : Covers(t, s, j)
    BY <2>2 DEF FileBehindImage
  <2>3. \A s \in 0..(Data - 1), j \in 0..(Size - 1) : file[s][j] = image[s * Size + j]
    BY <1>2, <2>1 DEF FileBehindImage
  <2>4. CASE op = "write"
    <3>1. /\ image' = [o \in Offsets |-> IF o \in offset..(offset + length - 1)
                                         THEN <<sym, o>> ELSE image[o]]
          /\ Good(offset, length)
      BY <1>5, <2>4
    <3>2. \A i \in DOMAIN ps : Placed(ps, i, offset, length)
      BY <1>10, <3>1
    <3>3. ASSUME NEW t \in threads'
          PROVE  /\ t.srv \in 0..(Data - 1) /\ t.pos \in Nat /\ t.pos + t.len <= Size
                 /\ t.len \in Nat
                 /\ t.data = [j \in 1..t.len |-> image'[t.srv * Size + t.pos + j - 1]]
      <4>1. PICK i \in DOMAIN ps : StartedFor(t, i, c, op, ps, offset, sym)
        BY <1>7
      <4>2. /\ t.srv = ps[i].id /\ t.pos = Position(ps[i]) /\ t.len = ps[i].len
            /\ t.data = Slice(ps, i, offset, sym)
        BY <2>4, <4>1 DEF StartedFor
      <4>3. Placed(ps, i, offset, length)
        BY <3>2
      <4>4. offset + length <= Stripe
        BY <3>1 DEF Good
      <4>5. PICK img : img = image'
        OBVIOUS
      <4>6. \A o \in Offsets : o \in offset..(offset + length - 1) => img[o] = <<sym, o>>
        BY <3>1, <4>5
      <4>7. t.data = [j \in 1..ps[i].len |-> img[ps[i].id * Size + Position(ps[i]) + j - 1]]
        <5> HIDE DEF Placed
        <5> QED
          BY <4>2, <4>3, <4>4, <4>6, SliceIsImage
      <4>8. t.data = [j \in 1..t.len |-> image'[t.srv * Size + t.pos + j - 1]]
        BY <4>2, <4>5, <4>7
      <4> QED
        BY <4>2, <4>3, <4>8 DEF Placed
    <3>4. ASSUME NEW s \in 0..(Data - 1), NEW j \in 0..(Size - 1),
                 ~ \E t \in threads' : Covers(t, s, j)
          PROVE  file'[s][j] = image'[s * Size + j]
      <4>1. s * Size + j \in Offsets
        BY InStripe
      <4>2. s * Size + j \notin offset..(offset + length - 1)
        <5> SUFFICES ASSUME s * Size + j \in offset..(offset + length - 1) PROVE FALSE
          OBVIOUS
        <5>1. PICK i \in DOMAIN ps : ps[i].id = s /\ j \in ps[i].at..(ps[i].at + ps[i].len - 1)
          BY <1>11, <3>1
        <5>2. PICK t \in threads' : StartedFor(t, i, c, op, ps, offset, sym)
          BY <1>8
        <5>3. Position(ps[i]) = ps[i].at
          BY <3>2 DEF Placed
        <5> QED
          BY <2>4, <3>4, <5>1, <5>2, <5>3 DEF StartedFor, Covers, Writes
      <4>3. image'[s * Size + j] = image[s * Size + j]
        BY <3>1, <4>1, <4>2, Zenon
      <4> QED
        BY <1>3, <2>3, <4>3
    <3> QED
      BY <3>3, <3>4
  <2>5. CASE op # "write"
    <3>1. \A t \in threads' : ~Writes(t)
      BY <1>7, <2>5, Zenon DEF StartedFor, Writes
    <3>2. image' = image
      BY <1>5, <2>5
    <3> QED
      BY <1>3, <2>3, <3>1, <3>2
  <2> QED
    BY <2>4, <2>5
<1>14. \A t, u \in threads' : t.slot = u.slot => t = u
  BY <1>6, StartedThreads
<1>15. AnswersFilled'
  <2> SUFFICES ASSUME Good(offset, length)
               PROVE  /\ \A t \in threads' : FilledBy(t)'
                      /\ \A i \in DOMAIN ps :
                           (\A t \in threads' : t.slot # i) => answers'[i] = Content(ps[i])'
    BY <1>4 DEF AnswersFilled, ReadsGood, FilledBy
  <2>1. ASSUME NEW t \in threads'
        PROVE  FilledBy(t)'
    <3>1. PICK i \in DOMAIN ps : StartedFor(t, i, c, op, ps, offset, sym)
      BY <1>7
    <3>2. Position(ps[i]) = ps[i].at
      BY <1>10 DEF Placed
    <3>3. /\ t.srv = ps[i].id /\ t.pos = ps[i].at /\ t.len = ps[i].len /\ t.slot = i
          /\ t.got = 0 /\ t.state = "started"
      BY <3>1, <3>2, Zenon DEF StartedFor
    <3>4. answers'[i] = <<>>
      BY <1>3
    <3> QED
      BY <1>4, <1>14, <3>3, <3>4 DEF FilledBy
  <2>2. \A i \in DOMAIN ps : ~(\A t \in threads' : t.slot # i)
    BY <1>8, Zenon DEF StartedFor
  <2> QED
    BY <2>1, <2>2, Zenon
<1>16. CopiesCurrent'
  <2> SUFFICES ASSUME Good(offset, length)
               PROVE  CopiesCurrent'
    BY <1>4 DEF CopiesCurrent, ReadsGood
  <2>1. /\ copy'.piece = 0 /\ copy'.left = 0 /\ copy'.answered = {}
        /\ copy'.bytes = [i \in DOMAIN ps |-> <<>>]
        /\ copy' = [piece |-> copy'.piece, left |-> copy'.left, answered |-> copy'.answered,
                    bytes |-> copy'.bytes]
    BY <1>1 DEF Call, NoCopy
  <2>2. Len(ps) \in Nat /\ \A i \in DOMAIN ps : i \in Nat \ {0}
    <3>1. Len(ps) \in Nat \ {0} /\ ps \in Seq(Piece)
      BY <1>1, GoodPieces
    <3> QED
      BY <3>1
  <2>3. ASSUME NEW i \in DOMAIN ps
        PROVE  /\ copy'.bytes[i] = <<>> /\ PartOf(<<>>, ps[i])' /\ Len(copy'.bytes[i]) = 0
    <3>1. ps[i].len \in Nat
      BY <1>10 DEF Placed
    <3> QED
      BY <2>1, <3>1, EmptyPart
  <2>4. copy'.bytes = [i \in DOMAIN ps |-> copy'.bytes[i]]
    BY <2>1
  <2>5. copy' = [piece |-> copy'.piece, left |-> copy'.left, answered |-> copy'.answered,
                bytes |-> [i \in DOMAIN ps |-> copy'.bytes[i]]]
    BY <2>1, <2>4, Zenon
  <2> QED
    <3>1. ASSUME NEW i \in DOMAIN ps
          PROVE  CopiedOf(i)'
      BY <1>4, <2>1, <2>2, <2>3, <3>1 DEF CopiedOf
    <3> QED
      BY <1>4, <2>1, <2>2, <2>5, <3>1 DEF CopiesCurrent
<1> QED
  BY <1>9, <1>12, <1>13, <1>15, <1>16 DEF PatientInv

\* Threads that bring the same bytes to the same place.
Alike(t, u) ==
  /\ Writes(t) /\ Writes(u)
  /\ t.srv = u.srv /\ t.pos = u.pos /\ t.len = u.len /\ t.data = u.data

\* Steps that change no byte: every thread that writes was there, and none of them is
\* lost unless nothing is said of the file any more.
LEMMA SameWriters ==
  ASSUME FileBehindImage, file' = file, image' = image, whole' => whole,
         \A t \in threads' : Writes(t) => \E u \in threads : Alike(t, u),
         \A u \in threads : whole' /\ Writes(u) => \E t \in threads' : Alike(t, u)
  PROVE  FileBehindImage'
<1>1. file' = [s \in 0..(Data - 1) |-> [j \in 0..(Size - 1) |-> file'[s][j]]]
  BY DEF FileBehindImage
<1> SUFFICES ASSUME whole'
             PROVE  /\ \A t \in threads' : Writes(t) =>
                         /\ t.srv \in 0..(Data - 1) /\ t.pos \in Nat /\ t.pos + t.len <= Size
                         /\ t.len \in Nat
                         /\ t.data = [j \in 1..t.len |-> image'[t.srv * Size + t.pos + j - 1]]
                    /\ \A s \in 0..(Data - 1), j \in 0..(Size - 1) :
                         \/ file'[s][j] = image'[s * Size + j]
                         \/ \E t \in threads' : Covers(t, s, j)
  BY <1>1 DEF FileBehindImage
<1>2. whole
  OBVIOUS
<1>3. ASSUME NEW t \in threads', Writes(t)
      PROVE  /\ t.srv \in 0..(Data - 1) /\ t.pos \in Nat /\ t.pos + t.len <= Size
             /\ t.len \in Nat
             /\ t.data = [j \in 1..t.len |-> image'[t.srv * Size + t.pos + j - 1]]
  <2>1. PICK u \in threads : Alike(t, u)
    BY <1>3
  <2>2. /\ Writes(u) /\ t.srv = u.srv /\ t.pos = u.pos /\ t.len = u.len /\ t.data = u.data
    BY <2>1 DEF Alike
  <2>3. /\ u.srv \in 0..(Data - 1) /\ u.pos \in Nat /\ u.pos + u.len <= Size
        /\ u.len \in Nat
        /\ u.data = [j \in 1..u.len |-> image[u.srv * Size + u.pos + j - 1]]
    BY <1>2, <2>2, Zenon DEF FileBehindImage
  <2> QED
    BY <2>2, <2>3
<1>4. ASSUME NEW s \in 0..(Data - 1), NEW j \in 0..(Size - 1),
             file'[s][j] # image'[s * Size + j]
      PROVE  \E t \in threads' : Covers(t, s, j)
  <2>1. PICK u \in threads : Covers(u, s, j)
    BY <1>2, <1>4, Zenon DEF FileBehindImage
  <2>2. PICK t \in threads' : Alike(t, u)
    BY <2>1 DEF Covers
  <2> QED
    BY <2>1, <2>2 DEF Covers, Alike
<1> QED
  BY <1>3, <1>4, Zenon

\* A thread of which some fields have changed.
Become(t, c, st, d, g) ==
  [call |-> c, op |-> t.op, slot |-> t.slot, srv |-> t.srv, pos |-> t.pos,
   len |-> t.len, state |-> st, data |-> d, got |-> g]

LEMMA ThreadChange ==
  ASSUME NEW t, NEW c, NEW st, NEW d, NEW g, NEW u, u = Become(t, c, st, d, g)
  PROVE  /\ ThreadRecord(u) /\ u.call = c /\ u.state = st /\ u.data = d /\ u.got = g
         /\ u.op = t.op /\ u.slot = t.slot /\ u.srv = t.srv
         /\ u.pos = t.pos /\ u.len = t.len
<1>1. u = [call |-> c, op |-> t.op, slot |-> t.slot, srv |-> t.srv, pos |-> t.pos,
           len |-> t.len, state |-> st, data |-> d, got |-> g]
  BY DEF Become
<1> QED
  BY <1>1 DEF ThreadRecord

\* What the steps make of a thread.
LEMMA ThreadFields ==
  ASSUME NEW t, ThreadRecord(t), NEW u
  PROVE  /\ \A st : u = [t EXCEPT !.state = st] => u = Become(t, t.call, st, t.data, t.got)
         /\ u = [t EXCEPT !.got = @ + 1] => u = Become(t, t.call, t.state, t.data, t.got + 1)
         /\ \A c : u = [t EXCEPT !.call = c] => u = Become(t, c, t.state, t.data, t.got)
<1>1. t = [call |-> t.call, op |-> t.op, slot |-> t.slot, srv |-> t.srv, pos |-> t.pos,
           len |-> t.len, state |-> t.state, data |-> t.data, got |-> t.got]
  BY DEF ThreadRecord
<1>2. ASSUME NEW st, u = [t EXCEPT !.state = st]
      PROVE  u = Become(t, t.call, st, t.data, t.got)
  BY <1>1, <1>2 DEF Become
<1>3. ASSUME u = [t EXCEPT !.got = @ + 1]
      PROVE  u = Become(t, t.call, t.state, t.data, t.got + 1)
  BY <1>1, <1>3 DEF Become
<1>4. ASSUME NEW c, u = [t EXCEPT !.call = c]
      PROVE  u = Become(t, c, t.state, t.data, t.got)
  BY <1>1, <1>4 DEF Become
<1> QED
  BY <1>2, <1>3, <1>4, Zenon

-----------------------------------------------------------------------------
\* A function on 1..n is a sequence.
LEMMA IsSequence ==
  ASSUME NEW n \in Nat, NEW s, s = [j \in 1..n |-> s[j]]
  PROVE  Len(s) = n /\ DOMAIN s = 1..n
<1> DEFINE S == {s[j] : j \in 1..n}
<1>1. s \in [1..n -> S]
  <2>1. \A j \in 1..n : s[j] \in S
    OBVIOUS
  <2> HIDE DEF S
  <2> QED
    BY <2>1
<1> HIDE DEF S
<1>2. s \in Seq(S)
  BY <1>1
<1> QED
  BY <1>1, <1>2

LEMMA AppendTo ==
  ASSUME NEW n \in Nat, NEW s, s = [j \in 1..n |-> s[j]], NEW x
  PROVE  /\ Len(s) = n
         /\ Len(Append(s, x)) = n + 1
         /\ Append(s, x) = [j \in 1..(n + 1) |-> IF j <= n THEN s[j] ELSE x]
<1> DEFINE S == {s[j] : j \in 1..n} \cup {x}
<1>1. s \in [1..n -> S] /\ x \in S
  <2>1. \A j \in 1..n : s[j] \in S
    OBVIOUS
  <2>2. x \in S
    OBVIOUS
  <2> HIDE DEF S
  <2> QED
    BY <2>1, <2>2
<1> HIDE DEF S
<1>2. s \in Seq(S) /\ Len(s) = n
  BY <1>1
<1>3. /\ Append(s, x) \in Seq(S) /\ Len(Append(s, x)) = n + 1
      /\ \A j \in 1..n : Append(s, x)[j] = s[j]
      /\ Append(s, x)[n + 1] = x
  BY <1>1, <1>2
<1>4. Append(s, x) = [j \in 1..(n + 1) |-> Append(s, x)[j]]
  BY <1>3
<1>5. \A j \in 1..(n + 1) : Append(s, x)[j] = IF j <= n THEN s[j] ELSE x
  BY <1>3
<1> QED
  BY <1>2, <1>3, <1>4, <1>5

\* The content of a piece has its length, and so have the vectors on the way to it.
LEMMA ContentLength ==
  ASSUME NEW p, p.len \in Nat
  PROVE  /\ Content(p) = [j \in 1..p.len |-> Content(p)[j]]
         /\ Len(Content(p)) = p.len /\ DOMAIN Content(p) = 1..p.len
         /\ \A n : /\ FilledTo(p, n) = [j \in 1..p.len |-> FilledTo(p, n)[j]]
                   /\ Len(FilledTo(p, n)) = p.len /\ DOMAIN FilledTo(p, n) = 1..p.len
         /\ FilledTo(p, 0) = [j \in 1..p.len |-> Zero]
         /\ FilledTo(p, p.len) = Content(p)
<1>1. Content(p) = [j \in 1..p.len |-> Content(p)[j]]
  BY DEF Content
<1>2. \A n : FilledTo(p, n) = [j \in 1..p.len |-> FilledTo(p, n)[j]]
  BY DEF FilledTo
<1>3. FilledTo(p, 0) = [j \in 1..p.len |-> Zero]
  BY DEF FilledTo
<1>4. FilledTo(p, p.len) = Content(p)
  <2>1. FilledTo(p, p.len) = [j \in 1..p.len |-> Content(p)[j]]
    BY DEF FilledTo
  <2> QED
    BY <1>1, <2>1
<1>5. Len(Content(p)) = p.len /\ DOMAIN Content(p) = 1..p.len
  BY <1>1, IsSequence
<1>6. \A n : Len(FilledTo(p, n)) = p.len /\ DOMAIN FilledTo(p, n) = 1..p.len
  BY <1>2, IsSequence
<1> QED
  BY <1>1, <1>2, <1>3, <1>4, <1>5, <1>6

\* The pieces and the answers of a read of a good range.
LEMMA PiecesOfRead ==
  ASSUME ThreadsOfCall, ReadsGood
  PROVE  /\ Len(call.pieces) \in Nat \ {0} /\ DOMAIN call.pieces = 1..Len(call.pieces)
         /\ \A i \in DOMAIN call.pieces :
              LET p == call.pieces[i]
              IN /\ p.id \in 0..(Data - 1) /\ p.at \in Nat /\ p.len \in Nat \ {0}
                 /\ p.at + p.len <= Size /\ Position(p) = p.at
         /\ Len(answers) = Len(call.pieces) /\ DOMAIN answers = DOMAIN call.pieces
         /\ \A t \in threads : Awaited(t) /\ t.slot \in DOMAIN call.pieces
<1>1. /\ call # NoCall /\ call.offset \in Nat /\ call.length \in Nat \ {0}
      /\ call.pieces = ChunkServers(call.offset, call.length)
      /\ answers = [i \in DOMAIN call.pieces |-> answers[i]]
      /\ \A t \in threads : t.call = call.name /\ t.slot \in DOMAIN call.pieces
      /\ Good(call.offset, call.length)
  BY Zenon DEF ThreadsOfCall, ReadsGood
<1>2. PICK n \in Nat \ {0} : n = Len(call.pieces)
  BY <1>1, GoodPieces
<1>3. call.pieces \in Seq(Piece)
  BY <1>1, GoodPieces
<1>4. DOMAIN call.pieces = 1..n
  BY <1>2, <1>3
<1>5. \A i \in DOMAIN call.pieces : Placed(call.pieces, i, call.offset, call.length)
  <2> HIDE DEF Placed
  <2> QED
    BY <1>1, RangePieces
<1>6. answers = [i \in 1..n |-> answers[i]]
  BY <1>1, <1>4
<1>7. Len(answers) = n /\ DOMAIN answers = 1..n
  BY <1>6, IsSequence
<1> QED
  BY <1>1, <1>2, <1>4, <1>5, <1>7 DEF Placed, Awaited

\* The content of a piece is that of the written image.
LEMMA SameContent ==
  ASSUME image' = image
  PROVE  /\ \A p : Content(p)' = Content(p)
         /\ \A p, n : FilledTo(p, n)' = FilledTo(p, n)
         /\ \A b, p : PartOf(b, p)' = PartOf(b, p)
<1>1. \A p : Content(p)' = Content(p)
  BY DEF Content
<1> QED
  BY <1>1 DEF FilledTo, PartOf

\* What the loop of a read finds in a vector: nothing, or a byte or zero at every place
\* of the piece, and its content when its thread has ended.
LEMMA AnswerIs ==
  ASSUME ThreadsOfCall, AnswersFilled, ReadsGood, NEW i \in DOMAIN call.pieces, NEW p,
         p = call.pieces[i]
  PROVE  /\ \/ answers[i] = <<>> /\ Len(answers[i]) = 0
            \/ /\ Len(answers[i]) = p.len /\ DOMAIN answers[i] = 1..p.len
               /\ \A j \in 1..p.len : answers[i][j] \in {Zero, Content(p)[j]}
         /\ (\A t \in threads : t.slot # i) =>
              /\ Len(answers[i]) = p.len /\ DOMAIN answers[i] = 1..p.len
              /\ \A j \in 1..p.len : answers[i][j] = Content(p)[j]
<1>1. p.len \in Nat
  BY PiecesOfRead
<1>2. /\ Len(Content(p)) = p.len /\ DOMAIN Content(p) = 1..p.len
      /\ \A n : Len(FilledTo(p, n)) = p.len /\ DOMAIN FilledTo(p, n) = 1..p.len
  BY <1>1, ContentLength
<1>3. CASE \A t \in threads : t.slot # i
  <2>1. answers[i] = Content(p)
    BY <1>3, Zenon DEF AnswersFilled
  <2> QED
    BY <1>2, <2>1, Zenon
<1>4. CASE \E t \in threads : t.slot = i
  <2>1. PICK t \in threads : t.slot = i
    BY <1>4
  <2>2. FilledBy(t)
    BY Zenon DEF AnswersFilled
  <2>3. answers[i] = IF t.state = "reading" THEN FilledTo(p, t.got) ELSE <<>>
    BY <2>1, <2>2, Zenon DEF FilledBy
  <2>4. \A j \in 1..p.len : FilledTo(p, t.got)[j] \in {Zero, Content(p)[j]}
    BY DEF FilledTo
  <2>5. Len(<<>>) = 0
    OBVIOUS
  <2> QED
    BY <1>2, <1>4, <2>3, <2>4, <2>5, Zenon
<1> QED
  BY <1>3, <1>4, Zenon

\* A thread of a call, or its vector, changes.
LEMMA AnswerChanges ==
  ASSUME ThreadsOfCall, AnswersFilled, CopiesCurrent, NEW t \in threads, NEW v,
         threads' = (threads \ {t}) \cup {v},
         v.slot = t.slot, v.srv = t.srv, v.pos = t.pos, v.len = t.len,
         image' = image, whole' = whole, call' = call, copy' = copy,
         ReadsGood =>
           /\ \A i \in DOMAIN call.pieces : i # t.slot => answers'[i] = answers[i]
           /\ Len(answers[t.slot]) # 0 => Len(answers'[t.slot]) # 0
           /\ LET p == call.pieces[t.slot]
              IN /\ v.got \in IF v.state = "reading" THEN 0..p.len ELSE {0}
                 /\ v.state \in {"served", "reading"} => v.data = Content(p)
                 /\ answers'[t.slot] = IF v.state = "reading" THEN FilledTo(p, v.got) ELSE <<>>
  PROVE  AnswersFilled' /\ CopiesCurrent'
<1> SUFFICES ASSUME ReadsGood PROVE AnswersFilled' /\ CopiesCurrent'
  BY DEF AnswersFilled, CopiesCurrent, ReadsGood
<1>1. /\ \A p : Content(p)' = Content(p)
      /\ \A p, n : FilledTo(p, n)' = FilledTo(p, n)
      /\ \A b, p : PartOf(b, p)' = PartOf(b, p)
  BY SameContent
<1>2. /\ \A u \in threads : FilledBy(u)
      /\ \A i \in DOMAIN call.pieces :
           (\A u \in threads : u.slot # i) => answers[i] = Content(call.pieces[i])
  BY Zenon DEF AnswersFilled
<1>3. \A u \in threads : u.slot = t.slot => u = t
  BY <1>2, Zenon DEF FilledBy
<1>4. /\ \A u \in threads' : u = v \/ (u \in threads /\ u.slot # t.slot)
      /\ \A u \in threads : \E w \in threads' : w.slot = u.slot
      /\ \A u \in threads' : \E w \in threads : w.slot = u.slot
  BY <1>3
<1>5. \A u \in threads : u.slot \in DOMAIN call.pieces
  BY PiecesOfRead
<1>6. AnswersFilled'
  <2>1. FilledBy(v)'
    <3>1. FilledBy(t)
      BY <1>2
    <3>2. \A u \in threads' : u.slot = v.slot => u = v
      BY <1>4
    <3> QED
      BY <1>1, <3>1, <3>2 DEF FilledBy
  <2>2. ASSUME NEW u \in threads', u # v
        PROVE  FilledBy(u)'
    <3>1. u \in threads /\ u.slot # t.slot
      BY <1>4, <2>2
    <3>2. FilledBy(u)
      BY <1>2, <3>1
    <3>3. answers'[u.slot] = answers[u.slot]
      BY <1>5, <3>1
    <3>4. \A w \in threads' : w.slot = u.slot => w = u
      BY <1>4, <3>1, <3>2 DEF FilledBy
    <3> QED
      BY <1>1, <3>2, <3>3, <3>4 DEF FilledBy
  <2>3. ASSUME NEW i \in DOMAIN call.pieces, \A u \in threads' : u.slot # i
        PROVE  answers'[i] = Content(call.pieces[i])
    BY <1>2, <1>4, <2>3
  <2> QED
    BY <1>1, <2>1, <2>2, <2>3 DEF AnswersFilled
<1>7. CopiesCurrent'
  <2>1. /\ copy.piece \in 0..Len(call.pieces) /\ copy.left \in Nat
        /\ copy = [piece |-> copy.piece, left |-> copy.left, answered |-> copy.answered,
                   bytes |-> [i \in DOMAIN call.pieces |-> copy.bytes[i]]]
        /\ copy.left > 0 => copy.piece > 0 /\ Len(answers[copy.piece]) # 0
        /\ \A i \in DOMAIN call.pieces : CopiedOf(i)
    BY Zenon DEF CopiesCurrent
  <2>2. copy.left > 0 => copy.piece > 0 /\ Len(answers'[copy.piece]) # 0
    <3> SUFFICES ASSUME copy.left > 0
                 PROVE  copy.piece > 0 /\ Len(answers'[copy.piece]) # 0
      OBVIOUS
    <3>1. copy.piece > 0 /\ Len(answers[copy.piece]) # 0
      BY <2>1
    <3>2. copy.piece \in DOMAIN call.pieces
      <4>1. DOMAIN call.pieces = 1..Len(call.pieces) /\ Len(call.pieces) \in Nat
        BY PiecesOfRead
      <4> QED
        BY <2>1, <3>1, <4>1
    <3> QED
      BY <3>1, <3>2, Zenon
  <2>3. ASSUME NEW i \in DOMAIN call.pieces
        PROVE  CopiedOf(i)'
    <3>1. CopiedOf(i)
      BY <2>1
    <3>2. (\A u \in threads : u.slot # i) => (\A u \in threads' : u.slot # i)
      BY <1>4
    <3> QED
      BY <1>1, <3>1, <3>2 DEF CopiedOf
  <2> QED
    BY <2>1, <2>2, <2>3 DEF CopiesCurrent
<1> QED
  BY <1>6, <1>7

-----------------------------------------------------------------------------
\* A thread sends its request.
LEMMA SendsKeeps ==
  ASSUME ThreadRecords, PatientInv, NEW t \in threads, Sends(t)
  PROVE  ThreadRecords' /\ PatientInv'
<1>1. PICK v : v = [t EXCEPT !.state = "sent"]
  OBVIOUS
<1>2. /\ t.state = "started" /\ threads' = (threads \ {t}) \cup {v}
      /\ file' = file /\ image' = image /\ whole' = whole /\ running' = running
      /\ call' = call /\ answers' = answers /\ copy' = copy
  BY <1>1, Zenon DEF Sends
<1>3. ThreadRecord(t)
  BY DEF ThreadRecords
<1>4. /\ ThreadRecord(v) /\ v.state = "sent" /\ v.got = t.got
      /\ v.call = t.call /\ v.op = t.op /\ v.slot = t.slot /\ v.srv = t.srv
      /\ v.pos = t.pos /\ v.len = t.len /\ v.data = t.data
  <2> HIDE DEF ThreadRecord
  <2>1. v = Become(t, t.call, "sent", t.data, t.got)
    BY <1>1, <1>3, ThreadFields, Zenon
  <2> QED
    BY <1>3, <2>1, ThreadChange
<1>5. ThreadRecords'
  BY <1>2, <1>4 DEF ThreadRecords
<1>6. ThreadsOfCall'
  BY <1>2, <1>4 DEF PatientInv, ThreadsOfCall
<1>7. FileBehindImage'
  <2>1. \A u \in threads' : Writes(u) => \E w \in threads : Alike(u, w)
    BY <1>2, <1>4 DEF Alike, Writes
  <2>2. \A u \in threads : whole' /\ Writes(u) => \E w \in threads' : Alike(w, u)
    BY <1>2, <1>4 DEF Alike, Writes
  <2> QED
    BY <1>2, <2>1, <2>2, SameWriters DEF PatientInv
<1>8. AnswersFilled' /\ CopiesCurrent'
  <2>1. ThreadsOfCall /\ AnswersFilled /\ CopiesCurrent
    BY DEF PatientInv
  <2>2. ReadsGood => FilledBy(t)
    BY <2>1 DEF AnswersFilled
  <2>3. ReadsGood => v.got = 0 /\ answers[t.slot] = <<>>
    BY <1>2, <1>4, <2>2 DEF FilledBy
  <2>4. v.state = "sent" /\ "sent" \notin {"served", "reading"}
    BY <1>4
  <2>5. threads' = (threads \ {t}) \cup {v}
    BY <1>2
  <2> QED
    BY <1>2, <1>4, <2>1, <2>3, <2>4, <2>5, AnswerChanges
<1> QED
  BY <1>5, <1>6, <1>7, <1>8 DEF PatientInv

\* The answers, when one of them is stored.
LEMMA Stored ==
  ASSUME ThreadsOfCall, call # NoCall, NEW i, NEW vector, Store(i, vector)
  PROVE  /\ answers' = [k \in DOMAIN call.pieces |-> answers'[k]]
         /\ \A k \in DOMAIN call.pieces : answers'[k] = IF k = i THEN vector ELSE answers[k]
<1>1. DOMAIN answers = DOMAIN call.pieces
  <2>1. answers = [k \in DOMAIN call.pieces |-> answers[k]]
    BY Zenon DEF ThreadsOfCall
  <2> QED
    BY <2>1
<1>2. answers' = [k \in DOMAIN answers |-> IF k = i THEN vector ELSE answers[k]]
  BY DEF Store
<1> QED
  BY <1>1, <1>2

\* What Resize and ReadByte have in common.
LEMMA DecodeKeeps ==
  ASSUME ThreadRecords, PatientInv, NEW t \in threads, NEW v, ThreadRecord(v),
         t.state \in {"served", "reading"}, v.state = "reading",
         threads' = (threads \ {t}) \cup {v},
         v.call = t.call, v.op = t.op, v.slot = t.slot, v.srv = t.srv,
         v.pos = t.pos, v.len = t.len, v.data = t.data,
         file' = file, image' = image, whole' = whole, running' = running,
         call' = call, copy' = copy,
         call # NoCall => answers' = [k \in DOMAIN call.pieces |-> answers'[k]],
         ReadsGood =>
           LET p == call.pieces[t.slot]
           IN /\ v.got \in 0..p.len /\ answers'[t.slot] = FilledTo(p, v.got)
              /\ \A i \in DOMAIN call.pieces : i # t.slot => answers'[i] = answers[i]
  PROVE  ThreadRecords' /\ PatientInv'
<1>1. ThreadsOfCall /\ AnswersFilled /\ CopiesCurrent /\ FileBehindImage
  BY DEF PatientInv
<1>2. ThreadRecords'
  BY DEF ThreadRecords
<1>3. ThreadsOfCall'
  BY <1>1 DEF ThreadsOfCall
<1>4. FileBehindImage'
  <2>1. ~Writes(t) /\ ~Writes(v)
    BY DEF Writes
  <2>2. \A u \in threads' : Writes(u) => \E w \in threads : Alike(u, w)
    BY <2>1 DEF Alike
  <2>3. \A u \in threads : whole' /\ Writes(u) => \E w \in threads' : Alike(w, u)
    BY <2>1 DEF Alike
  <2> QED
    BY <1>1, <2>2, <2>3, SameWriters
<1>5. AnswersFilled' /\ CopiesCurrent'
  <2>1. ASSUME ReadsGood
        PROVE  /\ v.data = Content(call.pieces[t.slot])
               /\ Len(answers'[t.slot]) # 0
    <3>1. PICK p : p = call.pieces[t.slot]
      OBVIOUS
    <3>2. p.len \in Nat \ {0}
      BY <1>1, <2>1, <3>1, PiecesOfRead
    <3>3. FilledBy(t)
      BY <1>1, <2>1 DEF AnswersFilled
    <3>4. v.data = Content(p)
      BY <3>1, <3>3 DEF FilledBy
    <3>5. Len(FilledTo(p, v.got)) = p.len
      BY <3>2, ContentLength
    <3>6. answers'[t.slot] = FilledTo(p, v.got)
      BY <2>1, <3>1
    <3> QED
      BY <3>1, <3>2, <3>4, <3>5, <3>6
  <2> QED
    BY <1>1, <2>1, AnswerChanges
<1> QED
  BY <1>2, <1>3, <1>4, <1>5 DEF PatientInv

\* A thread makes room in its vector.
LEMMA ResizeKeeps ==
  ASSUME ThreadRecords, PatientInv, NEW t \in threads, Resize(t)
  PROVE  ThreadRecords' /\ PatientInv'
<1>1. PICK v : v = [t EXCEPT !.state = "reading"]
  OBVIOUS
<1>2. /\ t.state = "served" /\ threads' = (threads \ {t}) \cup {v}
      /\ file' = file /\ image' = image /\ whole' = whole /\ running' = running
      /\ call' = call /\ copy' = copy
      /\ \E i \in Targets(t) : Store(i, [j \in DOMAIN t.data |-> Zero])
  BY <1>1, Zenon DEF Resize
<1>3. ThreadRecord(t)
  BY DEF ThreadRecords
<1>4. /\ ThreadRecord(v) /\ v.state = "reading" /\ v.got = t.got
      /\ v.call = t.call /\ v.op = t.op /\ v.slot = t.slot /\ v.srv = t.srv
      /\ v.pos = t.pos /\ v.len = t.len /\ v.data = t.data
  <2> HIDE DEF ThreadRecord
  <2>1. v = Become(t, t.call, "reading", t.data, t.got)
    BY <1>1, <1>3, ThreadFields, Zenon
  <2> QED
    BY <1>3, <2>1, ThreadChange
<1>5. call # NoCall => answers' = [k \in DOMAIN call.pieces |-> answers'[k]]
  <2> SUFFICES ASSUME call # NoCall PROVE answers' = [k \in DOMAIN call.pieces |-> answers'[k]]
    OBVIOUS
  <2>1. PICK i : Store(i, [j \in DOMAIN t.data |-> Zero])
    BY <1>2
  <2> QED
    BY <2>1, Stored DEF PatientInv
<1>6. ASSUME ReadsGood
      PROVE  LET p == call.pieces[t.slot]
             IN /\ v.got \in 0..p.len /\ answers'[t.slot] = FilledTo(p, v.got)
                /\ \A i \in DOMAIN call.pieces : i # t.slot => answers'[i] = answers[i]
  <2>1. PICK p : p = call.pieces[t.slot]
    OBVIOUS
  <2>2. /\ call # NoCall /\ Awaited(t) /\ t.slot \in DOMAIN call.pieces
        /\ p.len \in Nat \ {0}
    BY <1>6, <2>1, PiecesOfRead DEF PatientInv, ReadsGood
  <2>3. Store(t.slot, [j \in DOMAIN t.data |-> Zero])
    BY <1>2, <2>2 DEF Targets
  <2>4. \A k \in DOMAIN call.pieces :
          answers'[k] = IF k = t.slot THEN [j \in DOMAIN t.data |-> Zero] ELSE answers[k]
    BY <2>2, <2>3, Stored DEF PatientInv
  <2>5. FilledBy(t)
    BY <1>6 DEF PatientInv, AnswersFilled
  <2>6. t.got = 0 /\ t.data = Content(p)
    BY <1>2, <2>1, <2>5 DEF FilledBy
  <2>7. [j \in DOMAIN t.data |-> Zero] = FilledTo(p, 0)
    <3>1. DOMAIN Content(p) = 1..p.len /\ FilledTo(p, 0) = [j \in 1..p.len |-> Zero]
      BY <2>2, ContentLength
    <3> QED
      BY <2>6, <3>1
  <2> QED
    BY <1>4, <2>1, <2>2, <2>4, <2>6, <2>7
<1> HIDE DEF ThreadRecord, ThreadRecords
<1> QED
  BY <1>2, <1>4, <1>5, <1>6, DecodeKeeps

\* A thread decodes a byte.
LEMMA ReadByteKeeps ==
  ASSUME ThreadRecords, PatientInv, NEW t \in threads, ReadByte(t)
  PROVE  ThreadRecords' /\ PatientInv'
<1> DEFINE Filled1(i) == [j \in DOMAIN answers[i] |->
                            IF j = t.got + 1 THEN t.data[j] ELSE answers[i][j]]
<1>1. PICK v : v = [t EXCEPT !.got = @ + 1]
  OBVIOUS
<1>2. /\ t.state = "reading" /\ t.got < Len(t.data)
      /\ threads' = (threads \ {t}) \cup {v}
      /\ file' = file /\ image' = image /\ whole' = whole /\ running' = running
      /\ call' = call /\ copy' = copy
      /\ \E i \in Targets(t) : Store(i, Filled1(i))
  BY <1>1, Zenon DEF ReadByte
<1>3. ThreadRecord(t)
  BY DEF ThreadRecords
<1>4. /\ ThreadRecord(v) /\ v.state = "reading" /\ v.got = t.got + 1
      /\ v.call = t.call /\ v.op = t.op /\ v.slot = t.slot /\ v.srv = t.srv
      /\ v.pos = t.pos /\ v.len = t.len /\ v.data = t.data
  <2> HIDE DEF ThreadRecord
  <2>1. v = Become(t, t.call, t.state, t.data, t.got + 1)
    BY <1>1, <1>3, ThreadFields, Zenon
  <2> QED
    BY <1>2, <1>3, <2>1, ThreadChange
<1>5. call # NoCall => answers' = [k \in DOMAIN call.pieces |-> answers'[k]]
  <2> SUFFICES ASSUME call # NoCall PROVE answers' = [k \in DOMAIN call.pieces |-> answers'[k]]
    OBVIOUS
  <2>1. PICK i : Store(i, Filled1(i))
    BY <1>2
  <2> HIDE DEF Filled1
  <2> QED
    BY <2>1, Stored DEF PatientInv
<1>6. ASSUME ReadsGood
      PROVE  LET p == call.pieces[t.slot]
             IN /\ v.got \in 0..p.len /\ answers'[t.slot] = FilledTo(p, v.got)
                /\ \A i \in DOMAIN call.pieces : i # t.slot => answers'[i] = answers[i]
  <2>1. PICK p : p = call.pieces[t.slot]
    OBVIOUS
  <2>2. /\ call # NoCall /\ Awaited(t) /\ t.slot \in DOMAIN call.pieces
        /\ p.len \in Nat \ {0}
    BY <1>6, <2>1, PiecesOfRead DEF PatientInv, ReadsGood
  <2>3. Store(t.slot, Filled1(t.slot))
    BY <1>2, <2>2 DEF Targets
  <2>4. \A k \in DOMAIN call.pieces :
          answers'[k] = IF k = t.slot THEN Filled1(k) ELSE answers[k]
    <3> HIDE DEF Filled1
    <3> QED
      BY <2>2, <2>3, Stored DEF PatientInv
  <2>5. FilledBy(t)
    BY <1>6 DEF PatientInv, AnswersFilled
  <2>6. t.got \in 0..p.len /\ t.data = Content(p) /\ answers[t.slot] = FilledTo(p, t.got)
    BY <1>2, <2>1, <2>5 DEF FilledBy
  <2>7. /\ Len(Content(p)) = p.len /\ Content(p) = [j \in 1..p.len |-> Content(p)[j]]
        /\ DOMAIN FilledTo(p, t.got) = 1..p.len
    BY <2>2, ContentLength
  <2>8. v.got \in 0..p.len
    BY <1>2, <1>4, <2>2, <2>6, <2>7
  <2>9. Filled1(t.slot) = FilledTo(p, v.got)
    <3>1. Filled1(t.slot) = [j \in 1..p.len |-> IF j = t.got + 1 THEN Content(p)[j]
                                               ELSE FilledTo(p, t.got)[j]]
      BY <2>6, <2>7
    <3>2. \A j \in 1..p.len : FilledTo(p, t.got)[j] = IF j <= t.got THEN Content(p)[j] ELSE Zero
      BY DEF FilledTo
    <3>3. \A j \in 1..p.len : (j <= v.got) <=> (j = t.got + 1 \/ j <= t.got)
      BY <1>4, <2>2, <2>6
    <3>4. FilledTo(p, v.got) = [j \in 1..p.len |-> IF j <= v.got THEN Content(p)[j] ELSE Zero]
      BY DEF FilledTo
    <3> HIDE DEF Filled1
    <3> QED
      BY <3>1, <3>2, <3>3, <3>4
  <2> HIDE DEF Filled1
  <2> QED
    BY <2>1, <2>2, <2>4, <2>8, <2>9
<1> HIDE DEF ThreadRecord, ThreadRecords
<1> QED
  BY <1>2, <1>4, <1>5, <1>6, DecodeKeeps

\* A thread ends: the vector of its piece is full.
LEMMA ThreadEndsKeeps ==
  ASSUME CallInv, ThreadRecords, PatientInv, NEW t \in threads, ThreadEnds(t)
  PROVE  ThreadRecords' /\ PatientInv'
<1>1. /\ threads' = threads \ {t}
      /\ file' = file /\ image' = image /\ whole' = whole /\ running' = running
      /\ call' = call /\ answers' = answers /\ copy' = copy
      /\ \/ t.state = "reading" /\ t.got = Len(t.data)
         \/ t.state = "served" /\ t.call = NoCall
  BY DEF ThreadEnds
<1>2. ThreadsOfCall /\ AnswersFilled /\ CopiesCurrent /\ FileBehindImage
  BY DEF PatientInv
<1>3. ThreadRecords'
  BY <1>1 DEF ThreadRecords
<1>4. ThreadsOfCall'
  BY <1>1, <1>2 DEF ThreadsOfCall
<1>5. FileBehindImage'
  <2>1. ~Writes(t)
    BY <1>1 DEF Writes
  <2>2. \A u \in threads' : Writes(u) => \E w \in threads : Alike(u, w)
    BY <1>1 DEF Alike
  <2>3. \A u \in threads : whole' /\ Writes(u) => \E w \in threads' : Alike(w, u)
    BY <1>1, <2>1 DEF Alike
  <2> QED
    BY <1>1, <1>2, <2>2, <2>3, SameWriters
<1>6. AnswersFilled' /\ CopiesCurrent'
  <2> SUFFICES ASSUME ReadsGood PROVE AnswersFilled' /\ CopiesCurrent'
    BY <1>1 DEF AnswersFilled, CopiesCurrent, ReadsGood
  <2>1. /\ \A p : Content(p)' = Content(p)
        /\ \A p, n : FilledTo(p, n)' = FilledTo(p, n)
        /\ \A b, p : PartOf(b, p)' = PartOf(b, p)
    BY <1>1, SameContent
  <2>2. PICK p : p = call.pieces[t.slot]
    OBVIOUS
  <2>3. Awaited(t) /\ p.len \in Nat
    BY <1>2, <2>2, PiecesOfRead
  <2>4. t.state = "reading"
    BY <1>1, <2>3, LargeCallsAssumption DEF Awaited, CallInv
  <2>5. FilledBy(t)
    BY <1>2 DEF AnswersFilled
  <2>6. answers[t.slot] = Content(p)
    <3>1. /\ t.data = Content(p) /\ answers[t.slot] = FilledTo(p, t.got)
      BY <2>2, <2>4, <2>5 DEF FilledBy
    <3>2. t.got = p.len /\ FilledTo(p, p.len) = Content(p)
      BY <1>1, <2>3, <2>4, <3>1, ContentLength
    <3> QED
      BY <3>1, <3>2
  <2>7. AnswersFilled'
    <3>1. ASSUME NEW u \in threads'
          PROVE  FilledBy(u)'
      <4>1. FilledBy(u)
        BY <1>1, <1>2 DEF AnswersFilled
      <4> QED
        BY <1>1, <2>1, <4>1 DEF FilledBy
    <3>2. ASSUME NEW i \in DOMAIN call.pieces, \A u \in threads' : u.slot # i
          PROVE  answers[i] = Content(call.pieces[i])
      <4>1. CASE t.slot = i
        BY <2>2, <2>6, <4>1
      <4>2. CASE t.slot # i
        BY <1>1, <1>2, <3>2, <4>2 DEF AnswersFilled
      <4> QED
        BY <4>1, <4>2
    <3> QED
      BY <1>1, <2>1, <3>1, <3>2 DEF AnswersFilled
  <2>8. CopiesCurrent'
    <3>1. ASSUME NEW i \in DOMAIN call.pieces
          PROVE  CopiedOf(i)'
      <4>1. CopiedOf(i)
        BY <1>2 DEF CopiesCurrent
      <4> QED
        BY <1>1, <2>1, <4>1 DEF CopiedOf
    <3> QED
      BY <1>1, <1>2, <3>1 DEF CopiesCurrent
  <2> QED
    BY <2>7, <2>8
<1> QED
  BY <1>3, <1>4, <1>5, <1>6 DEF PatientInv

-----------------------------------------------------------------------------
\* Steps of the loop of a read.
LEMMA LoopKeeps ==
  ASSUME ThreadRecords, PatientInv,
         file' = file, image' = image, whole' = whole, running' = running,
         call' = call, answers' = answers, threads' = threads,
         CopiesCurrent'
  PROVE  ThreadRecords' /\ PatientInv'
<1>1. ThreadRecords'
  BY DEF ThreadRecords
<1>2. ThreadsOfCall'
  BY DEF PatientInv, ThreadsOfCall
<1>3. FileBehindImage'
  BY DEF PatientInv, FileBehindImage
<1>4. AnswersFilled'
  <2>1. /\ \A p : Content(p)' = Content(p)
        /\ \A p, n : FilledTo(p, n)' = FilledTo(p, n)
    BY SameContent
  <2>2. \A u \in threads : FilledBy(u)' <=> FilledBy(u)
    BY <2>1 DEF FilledBy
  <2> QED
    BY <2>1, <2>2 DEF PatientInv, AnswersFilled, ReadsGood
<1> QED
  BY <1>1, <1>2, <1>3, <1>4 DEF PatientInv

\* What CopiedOf says after a step of the loop.
LEMMA CopiedThen ==
  ASSUME image' = image, call' = call, threads' = threads, NEW i, NEW p, NEW b,
         p = call.pieces[i], b = copy'.bytes[i],
         LET all == Len(b) + (IF i = copy'.piece THEN copy'.left ELSE 0)
         IN /\ PartOf(b, p) /\ all \in {0, p.len}
            /\ i > copy'.piece => b = <<>> /\ i \notin copy'.answered
            /\ i \in copy'.answered => /\ \A t \in threads : t.slot # i
                                       /\ all = p.len
                                       /\ \A j \in 1..Len(b) : b[j] = Content(p)[j]
  PROVE  CopiedOf(i)'
<1>1. /\ \A q : Content(q)' = Content(q)
      /\ \A c, q : PartOf(c, q)' = PartOf(c, q)
  BY SameContent
<1> QED
  BY <1>1 DEF CopiedOf

\* The loop comes to the next vector.
LEMMA LookKeeps ==
  ASSUME ThreadRecords, PatientInv, Look
  PROVE  ThreadRecords' /\ PatientInv'
<1>1. PICK i : i = copy.piece + 1
  OBVIOUS
<1>2. PICK answered :
        answered = IF \A t \in threads : ~(Awaited(t) /\ t.slot = i)
                   THEN copy.answered \cup {i} ELSE copy.answered
  OBVIOUS
<1>3. /\ copy.left = 0 /\ copy.piece < Len(answers)
      /\ copy' = [copy EXCEPT !.piece = i, !.left = Len(answers[i]), !.answered = answered]
      /\ file' = file /\ image' = image /\ whole' = whole /\ running' = running
      /\ call' = call /\ answers' = answers /\ threads' = threads
  BY <1>1, <1>2, Zenon DEF Look, Looks
<1>4. CopiesCurrent'
  <2> SUFFICES ASSUME ReadsGood PROVE CopiesCurrent'
    BY <1>3 DEF CopiesCurrent, ReadsGood
  <2>1. \A b, p : PartOf(b, p)' = PartOf(b, p) /\ Content(p)' = Content(p)
    BY <1>3, SameContent
  <2>2. ThreadsOfCall /\ AnswersFilled /\ CopiesCurrent
    BY DEF PatientInv
  <2>3. /\ Len(answers) = Len(call.pieces) /\ Len(call.pieces) \in Nat
        /\ DOMAIN call.pieces = 1..Len(call.pieces)
        /\ \A k \in DOMAIN call.pieces : call.pieces[k].len \in Nat \ {0}
        /\ \A t \in threads : Awaited(t)
    BY <2>2, PiecesOfRead
  <2>4. copy.piece \in 0..Len(call.pieces) /\ i \in DOMAIN call.pieces /\ i \in Nat \ {0}
    BY <1>1, <1>3, <2>2, <2>3 DEF CopiesCurrent
  <2>5. /\ copy'.piece = i /\ copy'.left = Len(answers[i])
        /\ copy'.bytes = copy.bytes /\ copy'.answered = answered
        /\ copy' = [piece |-> copy'.piece, left |-> copy'.left, answered |-> copy'.answered,
                    bytes |-> copy'.bytes]
        /\ copy.bytes = [k \in DOMAIN call.pieces |-> copy.bytes[k]]
    <3>1. copy = [piece |-> copy.piece, left |-> copy.left, answered |-> copy.answered,
                  bytes |-> [k \in DOMAIN call.pieces |-> copy.bytes[k]]]
      BY <2>2, Zenon DEF CopiesCurrent
    <3>2. PICK b : b = [k \in DOMAIN call.pieces |-> copy.bytes[k]]
      OBVIOUS
    <3>3. copy = [piece |-> copy.piece, left |-> copy.left, answered |-> copy.answered,
                  bytes |-> b]
      BY <3>1, <3>2, Zenon
    <3>4. copy.bytes = b
      BY <3>3
    <3>5. copy' = [piece |-> i, left |-> Len(answers[i]), answered |-> answered, bytes |-> b]
      <4>1. PICK n : n = Len(answers[i])
        OBVIOUS
      <4>2. copy' = [copy EXCEPT !.piece = i, !.left = n, !.answered = answered]
        BY <1>3, <4>1
      <4>3. PICK k, l, w : k = copy.piece /\ l = copy.left /\ w = copy.answered
        OBVIOUS
      <4>4. copy = [piece |-> k, left |-> l, answered |-> w, bytes |-> b]
        BY <3>3, <4>3
      <4> QED
        BY <4>1, <4>2, <4>4
    <3> QED
      BY <3>2, <3>4, <3>5
  <2>6. copy' = [piece |-> copy'.piece, left |-> copy'.left, answered |-> copy'.answered,
                bytes |-> [k \in DOMAIN call.pieces |-> copy'.bytes[k]]]
    BY <2>5, Zenon
  <2>7. /\ Len(answers[i]) \in {0, call.pieces[i].len}
        /\ i \in answered \ copy.answered =>
             (\A t \in threads : t.slot # i) /\ Len(answers[i]) = call.pieces[i].len
    <3>1. i \in answered \ copy.answered => \A t \in threads : t.slot # i
      BY <1>2, <2>3
    <3> QED
      BY <2>2, <2>4, <3>1, AnswerIs
  <2>8. ASSUME NEW k \in DOMAIN call.pieces
        PROVE  CopiedOf(k)'
    <3> DEFINE p == call.pieces[k]
               b == copy.bytes[k]
    <3>1. /\ PartOf(b, p) /\ Len(b) + (IF k = copy.piece THEN copy.left ELSE 0) \in {0, p.len}
          /\ k > copy.piece => b = <<>> /\ k \notin copy.answered
          /\ k \in copy.answered =>
               /\ \A t \in threads : t.slot # k
               /\ Len(b) + (IF k = copy.piece THEN copy.left ELSE 0) = p.len
               /\ \A j \in 1..Len(b) : b[j] = Content(p)[j]
      BY <2>2, Zenon DEF CopiesCurrent, CopiedOf
    <3>2. Len(b) \in Nat /\ p.len \in Nat \ {0} /\ k \in 1..Len(call.pieces)
      BY <2>3, <3>1 DEF PartOf
    <3>3. Len(b) \in {0, p.len} /\ (k \in copy.answered => Len(b) = p.len)
      BY <1>3, <3>1, <3>2
    <3>4. k \in answered => k \in copy.answered \/ k = i
      BY <1>2
    <3> DEFINE all == Len(b) + (IF k = i THEN Len(answers[i]) ELSE 0)
    <3>5. CASE k = i
      <4>1. b = <<>> /\ k \notin copy.answered /\ Len(b) = 0
        BY <1>1, <2>4, <3>1, <3>5
      <4>2. all = Len(answers[i])
        BY <2>7, <3>2, <3>5, <4>1
      <4>3. /\ PartOf(b, p) /\ all \in {0, p.len}
            /\ k > i => b = <<>> /\ k \notin answered
            /\ k \in answered => /\ \A t \in threads : t.slot # k
                                 /\ all = p.len
                                 /\ \A j \in 1..Len(b) : b[j] = Content(p)[j]
        <5>1. \A j \in 1..Len(b) : FALSE
          BY <4>1
        <5>2. ~(k > i)
          BY <2>4, <3>5
        <5> HIDE DEF all, b
        <5> QED
          BY <2>7, <3>1, <3>5, <4>1, <4>2, <5>1, <5>2
      <4> QED
        BY <1>3, <2>1, <2>5, <4>3, CopiedThen
    <3>6. CASE k # i
      <4>1. all = Len(b)
        BY <3>2, <3>6
      <4>2. k > i => k > copy.piece
        BY <1>1, <2>4, <3>2
      <4>3. /\ PartOf(b, p) /\ all \in {0, p.len}
            /\ k > i => b = <<>> /\ k \notin answered
            /\ k \in answered => /\ \A t \in threads : t.slot # k
                                 /\ all = p.len
                                 /\ \A j \in 1..Len(b) : b[j] = Content(p)[j]
        <5> HIDE DEF all, b, p
        <5> QED
          BY <3>1, <3>3, <3>4, <3>6, <4>1, <4>2
      <4> QED
        BY <1>3, <2>1, <2>5, <4>3, CopiedThen
    <3> QED
      BY <3>5, <3>6
  <2>9. copy'.left > 0 => copy'.piece > 0 /\ Len(answers'[copy'.piece]) # 0
    BY <1>3, <2>4, <2>5, <2>7
  <2>10. copy'.piece \in 0..Len(call.pieces) /\ copy'.left \in Nat
    BY <2>3, <2>4, <2>5, <2>7
  <2> QED
    BY <1>3, <2>6, <2>8, <2>9, <2>10 DEF CopiesCurrent
<1> QED
  BY <1>3, <1>4, LoopKeeps

\* The loop copies a byte.
LEMMA CopyByteKeeps ==
  ASSUME ThreadRecords, PatientInv, CopyByte
  PROVE  ThreadRecords' /\ PatientInv'
<1>1. PICK i : i = copy.piece
  OBVIOUS
<1>2. PICK byte : LET j == Len(copy.bytes[i]) + 1
                  IN byte = IF j \in DOMAIN answers[i] THEN answers[i][j] ELSE Zero
  OBVIOUS
<1>3. /\ copy.left > 0
      /\ copy' = [copy EXCEPT !.left = @ - 1, !.bytes[i] = Append(@, byte)]
      /\ file' = file /\ image' = image /\ whole' = whole /\ running' = running
      /\ call' = call /\ answers' = answers /\ threads' = threads
  BY <1>1, <1>2, Zenon DEF CopyByte
<1>4. CopiesCurrent'
  <2> SUFFICES ASSUME ReadsGood PROVE CopiesCurrent'
    BY <1>3 DEF CopiesCurrent, ReadsGood
  <2>1. \A b, p : PartOf(b, p)' = PartOf(b, p) /\ Content(p)' = Content(p)
    BY <1>3, SameContent
  <2>2. ThreadsOfCall /\ AnswersFilled /\ CopiesCurrent
    BY DEF PatientInv
  <2>3. /\ Len(call.pieces) \in Nat /\ DOMAIN call.pieces = 1..Len(call.pieces)
        /\ \A k \in DOMAIN call.pieces : call.pieces[k].len \in Nat \ {0}
    BY <2>2, PiecesOfRead
  <2>4. /\ copy.left \in Nat \ {0} /\ i \in DOMAIN call.pieces /\ Len(answers[i]) # 0
        /\ copy = [piece |-> copy.piece, left |-> copy.left, answered |-> copy.answered,
                   bytes |-> [k \in DOMAIN call.pieces |-> copy.bytes[k]]]
    BY <1>1, <1>3, <2>2, <2>3 DEF CopiesCurrent
  <2>5. /\ copy'.piece = i /\ copy'.left = copy.left - 1 /\ copy'.answered = copy.answered
        /\ copy'.bytes = [copy.bytes EXCEPT ![i] = Append(@, byte)]
        /\ copy' = [piece |-> copy'.piece, left |-> copy'.left, answered |-> copy'.answered,
                    bytes |-> copy'.bytes]
    BY <1>1, <1>3, <2>4
  <2>6. copy.bytes = [k \in DOMAIN call.pieces |-> copy.bytes[k]]
    BY <2>4
  <2>7. /\ copy'.bytes = [k \in DOMAIN call.pieces |-> copy'.bytes[k]]
        /\ \A k \in DOMAIN call.pieces :
             copy'.bytes[k] = IF k = i THEN Append(copy.bytes[i], byte) ELSE copy.bytes[k]
    BY <2>4, <2>5, <2>6
  <2>8. copy' = [piece |-> copy'.piece, left |-> copy'.left, answered |-> copy'.answered,
                bytes |-> [k \in DOMAIN call.pieces |-> copy'.bytes[k]]]
    BY <2>5, <2>7, Zenon
  <2>9. CopiedOf(i)'
    <3>1. PICK p, b, n : p = call.pieces[i] /\ b = copy.bytes[i] /\ n = Len(b)
      OBVIOUS
    <3>2. /\ PartOf(b, p) /\ n + copy.left \in {0, p.len}
          /\ i \in copy.answered => /\ \A t \in threads : t.slot # i
                                    /\ n + copy.left = p.len
                                    /\ \A j \in 1..n : b[j] = Content(p)[j]
      BY <1>1, <2>2, <2>4, <3>1 DEF CopiesCurrent, CopiedOf
    <3>3. n \in Nat /\ p.len \in Nat /\ b = [j \in 1..n |-> b[j]]
      BY <2>3, <2>4, <3>1, <3>2 DEF PartOf
    <3>4. n + copy.left = p.len /\ n + 1 \in 1..p.len
      BY <2>4, <3>2, <3>3
    <3>5. /\ Len(Append(b, byte)) = n + 1
          /\ Append(b, byte) = [j \in 1..(n + 1) |-> IF j <= n THEN b[j] ELSE byte]
      BY <3>3, AppendTo
    <3>6. \/ answers[i] = <<>> /\ Len(answers[i]) = 0
          \/ /\ DOMAIN answers[i] = 1..p.len
             /\ \A j \in 1..p.len : answers[i][j] \in {Zero, Content(p)[j]}
      BY <2>2, <2>4, <3>1, AnswerIs
    <3>7. byte \in {Zero, Content(p)[n + 1]}
      BY <1>2, <2>4, <3>1, <3>4, <3>6
    <3>8. i \in copy.answered => byte = Content(p)[n + 1]
      <4> SUFFICES ASSUME i \in copy.answered PROVE byte = Content(p)[n + 1]
        OBVIOUS
      <4>1. DOMAIN answers[i] = 1..p.len /\ \A j \in 1..p.len : answers[i][j] = Content(p)[j]
        BY <2>2, <2>4, <3>1, <3>2, AnswerIs
      <4> QED
        BY <1>2, <3>1, <3>4, <4>1
    <3>9. PICK c : c = Append(b, byte)
      OBVIOUS
    <3>10. /\ Len(c) = n + 1 /\ c = [j \in 1..(n + 1) |-> IF j <= n THEN b[j] ELSE byte]
           /\ c = [j \in 1..(n + 1) |-> c[j]]
           /\ \A j \in 1..(n + 1) : c[j] = IF j <= n THEN b[j] ELSE byte
      BY <3>5, <3>9
    <3>11. \A j \in 1..(n + 1) : j = n + 1 \/ j \in 1..n
      BY <3>3
    <3>12. PartOf(c, p)
      <4>1. \A j \in 1..n : b[j] \in {Zero, Content(p)[j]}
        BY <3>1, <3>2 DEF PartOf
      <4>2. \A j \in 1..(n + 1) : c[j] \in {Zero, Content(p)[j]}
        BY <3>3, <3>7, <3>10, <3>11, <4>1
      <4> QED
        BY <3>3, <3>4, <3>10, <4>2 DEF PartOf
    <3>13. Len(c) + (copy.left - 1) = p.len
      BY <2>4, <3>3, <3>4, <3>10
    <3>14. i \in copy.answered => /\ \A t \in threads : t.slot # i
                                  /\ \A j \in 1..Len(c) : c[j] = Content(p)[j]
      BY <3>2, <3>3, <3>8, <3>10, <3>11
    <3>15. copy'.bytes[i] = c
      BY <2>4, <2>7, <3>1, <3>9
    <3>16. ~(i > i)
      BY <2>3, <2>4
    <3>17. LET all == Len(copy'.bytes[i]) + (IF i = copy'.piece THEN copy'.left ELSE 0)
           IN /\ PartOf(copy'.bytes[i], p) /\ all = p.len
              /\ ~(i > copy'.piece)
              /\ i \in copy'.answered =>
                   /\ \A t \in threads' : t.slot # i
                   /\ \A j \in 1..Len(copy'.bytes[i]) : copy'.bytes[i][j] = Content(p)[j]
      BY <1>3, <2>5, <3>12, <3>13, <3>14, <3>15, <3>16
    <3> QED
      BY <1>3, <3>1, <3>17, CopiedThen
  <2>10. ASSUME NEW k \in DOMAIN call.pieces, k # i
         PROVE  CopiedOf(k)'
    <3>1. CopiedOf(k)
      BY <2>2 DEF CopiesCurrent
    <3>2. copy'.bytes[k] = copy.bytes[k] /\ k # copy.piece /\ k # copy'.piece
      BY <1>1, <2>5, <2>7, <2>10
    <3> QED
      BY <1>1, <1>3, <2>1, <2>5, <3>1, <3>2 DEF CopiedOf
  <2>11. copy'.left > 0 => copy'.piece > 0 /\ Len(answers'[copy'.piece]) # 0
    BY <1>3, <2>3, <2>4, <2>5
  <2>12. copy'.piece \in 0..Len(call.pieces) /\ copy'.left \in Nat
    BY <2>3, <2>4, <2>5
  <2> QED
    BY <1>3, <2>8, <2>9, <2>10, <2>11, <2>12 DEF CopiesCurrent
<1> QED
  BY <1>3, <1>4, LoopKeeps

-----------------------------------------------------------------------------
\* The program ends.  Its write is cut unless every thread of it has sent its request.
LEMMA EndKeeps ==
  ASSUME ThreadRecords, PatientInv, ProgramEnds, file' = file, image' = image
  PROVE  ThreadRecords' /\ PatientInv'
<1>1. /\ running' = FALSE /\ call' = NoCall
      /\ threads' = {[t EXCEPT !.call = NoCall] : t \in {u \in threads : u.state = "sent"}}
      /\ whole' = (whole /\ ~\E t \in threads : t.op = "write" /\ t.state = "started")
  BY Zenon DEF ProgramEnds
<1>2. \A t \in threads' : \E u \in threads :
        /\ u.state = "sent" /\ t = [u EXCEPT !.call = NoCall]
  BY <1>1
<1>3. \A u \in threads : u.state = "sent" => [u EXCEPT !.call = NoCall] \in threads'
  BY <1>1
<1>4. ASSUME NEW u \in threads, NEW t, t = [u EXCEPT !.call = NoCall]
      PROVE  /\ ThreadRecord(t)
             /\ t.state = u.state /\ t.op = u.op /\ t.srv = u.srv
             /\ t.pos = u.pos /\ t.len = u.len /\ t.data = u.data
  <2>1. ThreadRecord(u)
    BY DEF ThreadRecords
  <2> HIDE DEF ThreadRecord
  <2>2. t = Become(u, NoCall, u.state, u.data, u.got)
    BY <1>4, <2>1, ThreadFields, Zenon
  <2> QED
    BY <2>1, <2>2, ThreadChange
<1>5. ThreadRecords'
  BY <1>2, <1>4, Zenon DEF ThreadRecords
<1>6. \A t \in threads' : Writes(t) => \E u \in threads : Alike(t, u)
  BY <1>2, <1>4 DEF Alike, Writes
<1>7. \A u \in threads : whole' /\ Writes(u) => \E t \in threads' : Alike(t, u)
  <2> SUFFICES ASSUME NEW u \in threads, whole', Writes(u)
               PROVE  \E t \in threads' : Alike(t, u)
    OBVIOUS
  <2>1. u.state = "sent"
    BY <1>1 DEF Writes
  <2>2. PICK t \in threads' : t = [u EXCEPT !.call = NoCall]
    BY <1>3, <2>1
  <2> QED
    BY <1>4, <2>2 DEF Alike, Writes
<1>8. FileBehindImage'
  BY <1>1, <1>6, <1>7, SameWriters DEF PatientInv
<1>9. ThreadsOfCall'
  BY <1>1 DEF ThreadsOfCall
<1>10. AnswersFilled' /\ CopiesCurrent'
  BY <1>1 DEF AnswersFilled, CopiesCurrent, ReadsGood
<1> QED
  BY <1>5, <1>8, <1>9, <1>10 DEF PatientInv

\* A data server serves a request: a write puts the bytes that are due at its place, a
\* read finds no byte that is still to be written.
LEMMA ServeWriteKeeps ==
  ASSUME ThreadRecords, PatientInv, NEW t \in threads, Serve(t), t.op = "write"
  PROVE  ThreadRecords' /\ PatientInv'
<1>1. PICK v : v = [t EXCEPT !.state = "served", !.data = <<>>]
  OBVIOUS
<1>2. /\ t.state = "sent" /\ threads' = (threads \ {t}) \cup {v}
      /\ image' = image /\ whole' = whole /\ running' = running
      /\ call' = call /\ answers' = answers
      /\ file' = [file EXCEPT ![t.srv] = [j \in DOMAIN @ |->
                    IF j \in t.pos..(t.pos + t.len - 1) THEN t.data[j - t.pos + 1]
                    ELSE @[j]]]
  BY <1>1, Zenon DEF Serve
<1>3. ThreadRecord(t)
  BY DEF ThreadRecords
<1>4. /\ ThreadRecord(v) /\ v.state = "served"
      /\ v.call = t.call /\ v.op = t.op /\ v.slot = t.slot /\ v.srv = t.srv
      /\ v.pos = t.pos /\ v.len = t.len
  <2>1. t = [call |-> t.call, op |-> t.op, slot |-> t.slot, srv |-> t.srv, pos |-> t.pos,
             len |-> t.len, state |-> t.state, data |-> t.data, got |-> t.got]
    BY <1>3 DEF ThreadRecord
  <2>2. v = Become(t, t.call, "served", <<>>, t.got)
    BY <1>1, <2>1 DEF Become
  <2> HIDE DEF ThreadRecord
  <2> QED
    BY <2>2, ThreadChange
<1>5. ThreadRecords'
  BY <1>2, <1>4 DEF ThreadRecords
<1>6. ThreadsOfCall'
  BY <1>2, <1>4 DEF PatientInv, ThreadsOfCall
<1>7. AnswersFilled' /\ CopiesCurrent'
  <2>1. call # NoCall => call.op = "write"
    BY DEF PatientInv, ThreadsOfCall
  <2> QED
    BY <1>2, <2>1 DEF AnswersFilled, CopiesCurrent, ReadsGood
<1>8. FileBehindImage'
  <2>1. file = [s \in 0..(Data - 1) |-> [j \in 0..(Size - 1) |-> file[s][j]]]
    BY DEF PatientInv, FileBehindImage
  <2>2. PICK n : n = [j \in DOMAIN file[t.srv] |->
                        IF j \in t.pos..(t.pos + t.len - 1) THEN t.data[j - t.pos + 1]
                        ELSE file[t.srv][j]]
    OBVIOUS
  <2>3. file' = [file EXCEPT ![t.srv] = n]
    BY <1>2, <2>2
  <2>4. /\ DOMAIN file = 0..(Data - 1)
        /\ \A s \in 0..(Data - 1) : /\ DOMAIN file[s] = 0..(Size - 1)
                                    /\ file[s] = [j \in 0..(Size - 1) |-> file[s][j]]
    BY <2>1
  <2>5. \A s \in 0..(Data - 1) : file'[s] = IF s = t.srv THEN n ELSE file[s]
    BY <2>3, <2>4
  <2>6. file' = [s \in 0..(Data - 1) |-> file'[s]]
    BY <2>3, <2>4
  <2>7. t.srv \in 0..(Data - 1) => n = [j \in 0..(Size - 1) |-> n[j]]
    BY <2>2, <2>4
  <2>8. \A s \in 0..(Data - 1) : file'[s] = [j \in 0..(Size - 1) |-> file'[s][j]]
    BY <2>4, <2>5, <2>7
  <2>9. file' = [s \in 0..(Data - 1) |-> [j \in 0..(Size - 1) |-> file'[s][j]]]
    BY <2>6, <2>8
  <2> SUFFICES ASSUME whole
               PROVE  /\ \A u \in threads' : Writes(u) =>
                           /\ u.srv \in 0..(Data - 1) /\ u.pos \in Nat /\ u.pos + u.len <= Size
                           /\ u.len \in Nat
                           /\ u.data = [j \in 1..u.len |-> image[u.srv * Size + u.pos + j - 1]]
                      /\ \A s \in 0..(Data - 1), j \in 0..(Size - 1) :
                           \/ file'[s][j] = image[s * Size + j]
                           \/ \E u \in threads' : Covers(u, s, j)
    <3>1. image' = image /\ whole' = whole
      BY <1>2
    <3> QED
      BY <2>9, <3>1, Zenon DEF FileBehindImage
  <2>10. /\ \A u \in threads : Writes(u) =>
              /\ u.srv \in 0..(Data - 1) /\ u.pos \in Nat /\ u.pos + u.len <= Size
              /\ u.len \in Nat
              /\ u.data = [j \in 1..u.len |-> image[u.srv * Size + u.pos + j - 1]]
         /\ \A s \in 0..(Data - 1), j \in 0..(Size - 1) :
              \/ file[s][j] = image[s * Size + j]
              \/ \E u \in threads : Covers(u, s, j)
    BY DEF PatientInv, FileBehindImage
  <2>11. ~Writes(v)
    BY <1>4 DEF Writes
  <2>12. ASSUME NEW s \in 0..(Data - 1), NEW j \in 0..(Size - 1),
                file'[s][j] # image[s * Size + j]
         PROVE  \E u \in threads' : Covers(u, s, j)
    <3>1. Writes(t)
      BY <1>2 DEF Writes
    <3>2. PICK l \in Nat, k \in Nat : l = t.len /\ k = t.pos
      BY <2>10, <3>1
    <3>3. ~Covers(t, s, j)
      <4> SUFFICES ASSUME Covers(t, s, j) PROVE FALSE
        OBVIOUS
      <4>1. s = t.srv /\ j \in k..(k + l - 1)
        BY <3>2 DEF Covers
      <4>2. file'[s][j] = t.data[j - k + 1]
        BY <2>2, <2>4, <2>5, <3>2, <4>1
      <4>3. j - k + 1 \in 1..l
        BY <3>2, <4>1
      <4>4. t.data = [i \in 1..l |-> image[t.srv * Size + k + i - 1]]
        BY <2>10, <3>1, <3>2
      <4>5. t.data[j - k + 1] = image[t.srv * Size + k + (j - k + 1) - 1]
        BY <4>3, <4>4, Zenon
      <4>6. t.srv * Size + k + (j - k + 1) - 1 = s * Size + j
        <5>1. PICK m \in Int : m = s * Size
          BY LargeCallsAssumption
        <5>2. t.srv * Size = m
          BY <4>1, <5>1
        <5>3. m + k + (j - k + 1) - 1 = m + j
          BY <3>2
        <5> QED
          BY <5>1, <5>2, <5>3
      <4> QED
        BY <2>12, <4>2, <4>5, <4>6, Zenon
    <3>4. file'[s][j] = file[s][j]
      <4>1. CASE s = t.srv
        <5>1. j \notin t.pos..(t.pos + t.len - 1)
          BY <3>1, <3>3, <4>1, Zenon DEF Covers
        <5> QED
          BY <2>2, <2>4, <2>5, <4>1, <5>1
      <4>2. CASE s # t.srv
        BY <2>5, <4>2
      <4> QED
        BY <4>1, <4>2
    <3>5. PICK u \in threads : Covers(u, s, j)
      BY <2>10, <2>12, <3>4
    <3> QED
      BY <1>2, <3>3, <3>5
  <2>13. \A u \in threads' : Writes(u) => u \in threads
    BY <1>2, <2>11
  <2> QED
    BY <2>10, <2>12, <2>13, Zenon
<1> QED
  BY <1>5, <1>6, <1>7, <1>8 DEF PatientInv

LEMMA ServeReadKeeps ==
  ASSUME CallInv, ThreadRecords, PatientInv, NEW t \in threads, Serve(t), t.op # "write"
  PROVE  ThreadRecords' /\ PatientInv'
<1>1. PICK d : d = [j \in 1..t.len |-> file[t.srv][t.pos + j - 1]]
  OBVIOUS
<1>2. PICK v : v = [t EXCEPT !.state = "served", !.data = d]
  OBVIOUS
<1>3. /\ t.state = "sent" /\ threads' = (threads \ {t}) \cup {v}
      /\ image' = image /\ whole' = whole /\ running' = running
      /\ call' = call /\ answers' = answers /\ copy' = copy /\ file' = file
  BY <1>1, <1>2, Zenon DEF Serve
<1>4. ThreadRecord(t)
  BY DEF ThreadRecords
<1>5. /\ ThreadRecord(v) /\ v.state = "served" /\ v.got = t.got
      /\ v.call = t.call /\ v.op = t.op /\ v.slot = t.slot /\ v.srv = t.srv
      /\ v.pos = t.pos /\ v.len = t.len /\ v.data = d
  <2>1. t = [call |-> t.call, op |-> t.op, slot |-> t.slot, srv |-> t.srv, pos |-> t.pos,
             len |-> t.len, state |-> t.state, data |-> t.data, got |-> t.got]
    BY <1>4 DEF ThreadRecord
  <2>2. v = Become(t, t.call, "served", d, t.got)
    BY <1>2, <2>1 DEF Become
  <2> HIDE DEF ThreadRecord
  <2> QED
    BY <2>2, ThreadChange
<1>6. ThreadRecords'
  BY <1>3, <1>5 DEF ThreadRecords
<1>7. ThreadsOfCall'
  BY <1>3, <1>5 DEF PatientInv, ThreadsOfCall
<1>8. FileBehindImage'
  <2>1. \A u \in threads' : Writes(u) => \E w \in threads : Alike(u, w)
    BY <1>3, <1>5 DEF Alike, Writes
  <2>2. \A u \in threads : whole' /\ Writes(u) => \E w \in threads' : Alike(w, u)
    BY <1>3 DEF Alike, Writes
  <2> QED
    BY <1>3, <2>1, <2>2, SameWriters DEF PatientInv
<1>9. AnswersFilled' /\ CopiesCurrent'
  <2>1. ThreadsOfCall /\ AnswersFilled /\ CopiesCurrent
    BY DEF PatientInv
  <2>2. ASSUME ReadsGood
        PROVE  v.got = 0 /\ answers[t.slot] = <<>> /\ d = Content(call.pieces[t.slot])
    <3>1. PICK p : p = call.pieces[t.slot]
      OBVIOUS
    <3>2. FilledBy(t)
      BY <2>1, <2>2 DEF AnswersFilled
    <3>3. t.srv = p.id /\ t.pos = p.at /\ t.len = p.len
      BY <3>1, <3>2 DEF FilledBy
    <3>4. t.got = 0 /\ answers[t.slot] = <<>>
      BY <1>3, <3>2 DEF FilledBy
    <3>5. \A u \in threads : ~Writes(u)
      BY <2>2 DEF PatientInv, ThreadsOfCall, Writes, ReadsGood
    <3>6. \A s \in 0..(Data - 1), j \in 0..(Size - 1) : file[s][j] = image[s * Size + j]
      BY <2>2, <3>5 DEF PatientInv, FileBehindImage, Covers, ReadsGood
    <3>7. /\ p.id \in 0..(Data - 1) /\ p.at \in Nat /\ p.len \in Nat \ {0}
          /\ p.at + p.len <= Size
      BY <2>1, <2>2, <3>1, PiecesOfRead
    <3>8. ASSUME NEW j \in 1..p.len
          PROVE  file[p.id][p.at + j - 1] = image[Begins(p) + j - 1]
      <4>1. p.at + j - 1 \in 0..(Size - 1)
        BY <3>7, LargeCallsAssumption
      <4>2. p.id * Size + (p.at + j - 1) = Begins(p) + j - 1
        <5>1. p.id * Size \in Int
          BY <3>7, LargeCallsAssumption
        <5> QED
          BY <3>7, <5>1 DEF Begins
      <4> QED
        BY <3>6, <3>7, <4>1, <4>2
    <3>9. d = Content(p)
      BY <1>1, <3>3, <3>8 DEF Content
    <3>10. v.got = 0
      BY <1>5, <3>4
    <3> QED
      BY <3>1, <3>4, <3>9, <3>10
  <2>3. v.state = "served" /\ threads' = (threads \ {t}) \cup {v}
    BY <1>3, <1>5
  <2> QED
    BY <1>3, <1>5, <2>1, <2>2, <2>3, AnswerChanges
<1> QED
  BY <1>6, <1>7, <1>8, <1>9 DEF PatientInv

\* A call returns, and what stays of it are its threads.
LEMMA ReturnKeeps ==
  ASSUME ThreadRecords, PatientInv, Return
  PROVE  ThreadRecords' /\ PatientInv'
<1>1. /\ call' = NoCall /\ file' = file /\ image' = image /\ whole' = whole
      /\ running' = running /\ threads' = threads
  BY DEF Return
<1>2. ThreadRecords'
  BY <1>1 DEF ThreadRecords
<1>3. ThreadsOfCall' /\ AnswersFilled' /\ CopiesCurrent'
  BY <1>1 DEF ThreadsOfCall, AnswersFilled, CopiesCurrent, ReadsGood
<1>4. FileBehindImage'
  <2>1. \A u \in threads : Writes(u) => Alike(u, u)
    BY DEF Alike
  <2> QED
    BY <1>1, <2>1, SameWriters DEF PatientInv
<1> QED
  BY <1>2, <1>3, <1>4 DEF PatientInv

\* The file is created again: no thread is left that could write to it.
LEMMA CreateKeeps ==
  ASSUME ThreadRecords, PatientInv, Create
  PROVE  ThreadRecords' /\ PatientInv'
<1>1. /\ threads = {} /\ ~running
      /\ image' = Created /\ file' = FilesOf(Created) /\ whole' = TRUE
      /\ running' = running /\ call' = call /\ answers' = answers /\ threads' = threads
  BY DEF Create
<1>2. call = NoCall
  BY <1>1 DEF PatientInv, ThreadsOfCall
<1>3. ThreadRecords'
  BY <1>1 DEF ThreadRecords
<1>4. ThreadsOfCall' /\ AnswersFilled' /\ CopiesCurrent'
  BY <1>1, <1>2 DEF ThreadsOfCall, AnswersFilled, CopiesCurrent, ReadsGood
<1>5. FileBehindImage'
  BY <1>1 DEF FileBehindImage, FilesOf
<1> QED
  BY <1>3, <1>4, <1>5 DEF PatientInv

\* Steps that change nothing of this.
LEMMA FrameKeeps ==
  ASSUME ThreadRecords, PatientInv, Launch \/ UNCHANGED vars
  PROVE  ThreadRecords' /\ PatientInv'
<1>1. /\ file' = file /\ image' = image /\ whole' = whole
      /\ call' = call /\ answers' = answers /\ copy' = copy /\ threads' = threads
      /\ ~running' => ~running
  BY DEF Launch, vars
<1>2. ThreadRecords'
  BY <1>1 DEF ThreadRecords
<1>3. /\ \A p : Content(p)' = Content(p)
      /\ \A p, n : FilledTo(p, n)' = FilledTo(p, n)
      /\ \A b, p : PartOf(b, p)' = PartOf(b, p)
  BY <1>1, SameContent
<1>4. AnswersFilled'
  <2>1. \A u \in threads : FilledBy(u)' <=> FilledBy(u)
    BY <1>1, <1>3 DEF FilledBy
  <2> QED
    BY <1>1, <1>3, <2>1 DEF PatientInv, AnswersFilled, ReadsGood
<1>5. CopiesCurrent'
  <2>1. \A i \in DOMAIN call.pieces : CopiedOf(i)' <=> CopiedOf(i)
    BY <1>1, <1>3 DEF CopiedOf
  <2> QED
    BY <1>1, <2>1 DEF PatientInv, CopiesCurrent, ReadsGood
<1>6. ThreadsOfCall'
  BY <1>1 DEF PatientInv, ThreadsOfCall
<1>7. FileBehindImage'
  BY <1>1 DEF PatientInv, FileBehindImage
<1> QED
  BY <1>2, <1>4, <1>5, <1>6, <1>7 DEF PatientInv

\* The invariant holds at first, and no step of a patient program breaks it.
LEMMA PatientInit == Init => PatientProgram
<1> SUFFICES ASSUME Init PROVE PatientProgram
  OBVIOUS
<1>1. /\ image = Created /\ file = FilesOf(Created) /\ running /\ call = NoCall
      /\ threads = {}
  BY DEF Init
<1>2. FileBehindImage
  BY <1>1 DEF FileBehindImage, FilesOf
<1>3. ThreadsOfCall /\ AnswersFilled /\ CopiesCurrent /\ CallInv /\ ThreadRecords
  BY <1>1 DEF ThreadsOfCall, AnswersFilled, CopiesCurrent, ReadsGood, CallInv, ThreadRecords
<1> QED
  BY <1>2, <1>3 DEF PatientProgram, PatientInv

LEMMA PatientStep ==
  ASSUME Patient, PatientProgram, [Next]_vars
  PROVE  PatientProgram'
<1>1. CallInv /\ ThreadRecords /\ PatientInv
  BY DEF PatientProgram
<1>2. CallInv'
  BY <1>1, CallStep
<1> SUFFICES ThreadRecords' /\ PatientInv'
  BY <1>2 DEF PatientProgram
<1> HIDE DEF PatientInv, ThreadRecords, CallInv
<1>3. ASSUME NEW c \in Calls, NEW r \in Ranges, CallRefused(c, r[1], r[2])
      PROVE  ThreadRecords' /\ PatientInv'
  BY <1>1, <1>3, EndKeeps DEF CallRefused
<1>4. ASSUME NEW c \in Calls, NEW r \in Ranges, NEW op \in {"write", "read"},
             NEW sym \in Sym, Call(c, op, r[1], r[2], sym)
      PROVE  ThreadRecords' /\ PatientInv'
  BY <1>1, <1>4, RangeTypes, CallKeeps
<1>5. ASSUME NEW t \in threads, Sends(t) \/ Serve(t) \/ Resize(t) \/ ReadByte(t) \/ ThreadEnds(t)
      PROVE  ThreadRecords' /\ PatientInv'
  BY <1>1, <1>5, SendsKeeps, ServeWriteKeeps, ServeReadKeeps, ResizeKeeps, ReadByteKeeps,
     ThreadEndsKeeps
<1>6. ASSUME NEW t \in threads, LateEnds(t)
      PROVE  ThreadRecords' /\ PatientInv'
  BY <1>1, <1>6, EndKeeps DEF LateEnds
<1>7. CASE Look \/ CopyByte \/ Return
  BY <1>1, <1>7, LookKeeps, CopyByteKeeps, ReturnKeeps
<1>8. CASE LookTorn \/ Exit
  BY <1>1, <1>8, EndKeeps DEF LookTorn, Exit
<1>9. CASE Create
  BY <1>1, <1>9, CreateKeeps
<1>10. CASE Launch \/ UNCHANGED vars
  BY <1>1, <1>10, FrameKeeps
<1> QED
  BY <1>3, <1>4, <1>5, <1>6, <1>7, <1>8, <1>9, <1>10 DEF Next

\* A program that waits for the threads of a call: its file is behind what it wrote by
\* no more than the threads on their way, the vectors of a read are as full as its
\* threads have come, and what it has copied of them is current or zero.
THEOREM PatientInvariant == Patient => (Spec => []PatientInv)
<1> SUFFICES ASSUME Patient PROVE Spec => []PatientInv
  OBVIOUS
<1>1. Init => PatientProgram
  BY PatientInit
<1>2. PatientProgram /\ [Next]_vars => PatientProgram'
  BY PatientStep
<1>3. PatientProgram => PatientInv
  BY DEF PatientProgram
<1> QED
  BY <1>1, <1>2, <1>3, PTL DEF Spec

\* When no thread has still to write, the chunks are what the program has written.
THEOREM FileIsImageAlways == Patient => (Spec => []FileIsImage)
<1>1. PatientInv => FileIsImage
  <2> SUFFICES ASSUME PatientInv, whole, \A t \in threads : t.op # "write"
               PROVE  file = FilesOf(image)
    BY DEF FileIsImage
  <2>1. \A s \in 0..(Data - 1), j \in 0..(Size - 1) : file[s][j] = image[s * Size + j]
    BY DEF PatientInv, FileBehindImage, Covers, Writes
  <2>2. file = [s \in 0..(Data - 1) |-> [j \in 0..(Size - 1) |-> file[s][j]]]
    BY DEF PatientInv, FileBehindImage
  <2> QED
    BY <2>1, <2>2 DEF FilesOf
<1> QED
  BY <1>1, PatientInvariant, PTL

-----------------------------------------------------------------------------
\* What was read stays right until the next call; a read that returns has copied what
\* CopiesCurrent says.
LEMMA ReadsStep ==
  ASSUME CallInv, PatientInv, ReadsCurrentBytes, [Next]_vars
  PROVE  ReadsCurrentBytes'
<1>1. ASSUME image' = image, seen' = seen, whole' => whole
      PROVE  ReadsCurrentBytes'
  <2>1. /\ \A p : Content(p)' = Content(p)
        /\ \A b, p : PartOf(b, p)' = PartOf(b, p)
    BY <1>1, SameContent
  <2> QED
    BY <1>1, <2>1 DEF ReadsCurrentBytes
<1>2. ASSUME seen' = NoCall PROVE ReadsCurrentBytes'
  BY <1>2 DEF ReadsCurrentBytes
<1>3. ASSUME NEW c \in Calls, NEW r \in Ranges,
             \/ CallRefused(c, r[1], r[2])
             \/ \E op \in {"write", "read"}, sym \in Sym : Call(c, op, r[1], r[2], sym)
      PROVE  ReadsCurrentBytes'
  BY <1>2, <1>3 DEF CallRefused, Call
<1>4. ASSUME NEW t \in threads, Sends(t) \/ Serve(t) \/ Resize(t) \/ ReadByte(t) \/ ThreadEnds(t)
      PROVE  ReadsCurrentBytes'
  <2>1. image' = image /\ seen' = seen /\ whole' = whole
    BY <1>4, Zenon DEF Sends, Serve, Resize, ReadByte, ThreadEnds
  <2> QED
    BY <1>1, <2>1
<1>5. ASSUME NEW t \in threads, LateEnds(t)
      PROVE  ReadsCurrentBytes'
  <2>1. image' = image /\ seen' = seen /\ (whole' => whole)
    BY <1>5 DEF LateEnds, ProgramEnds
  <2> QED
    BY <1>1, <2>1
<1>6. CASE Return
  <2>1. call # NoCall /\ image' = image /\ whole' = whole
    BY <1>6 DEF Return
  <2>2. CASE call.op = "write"
    BY <1>2, <1>6, <2>2 DEF Return
  <2>3. CASE call.op # "write"
    <3>1. seen' = [call |-> call, copied |-> copy.bytes, answered |-> copy.answered]
      BY <1>6, <2>3, Zenon DEF Return
    <3>2. seen'.call = call /\ seen'.copied = copy.bytes /\ seen'.answered = copy.answered
      BY <3>1
    <3>3. /\ \A p : Content(p)' = Content(p)
          /\ \A b, p : PartOf(b, p)' = PartOf(b, p)
      BY <2>1, SameContent
    <3>4. call.op = "read"
      BY <2>1, <2>3 DEF CallInv
    <3> SUFFICES ASSUME ReadsGood, NEW i \in DOMAIN call.pieces
                 PROVE  LET p == call.pieces[i]
                            b == copy.bytes[i]
                        IN IF i \in copy.answered THEN b = Content(p)
                           ELSE b = <<>> \/ (Len(b) = p.len /\ PartOf(b, p))
      BY <2>1, <3>2, <3>3, <3>4 DEF ReadsCurrentBytes, ReadsGood
    <3>5. PICK p, b, n : p = call.pieces[i] /\ b = copy.bytes[i] /\ n = Len(b)
      OBVIOUS
    <3>6. copy.left = 0 /\ p.len \in Nat
      BY <1>6, <3>4, <3>5, PiecesOfRead DEF Return, PatientInv
    <3>7. CopiedOf(i)
      BY DEF PatientInv, CopiesCurrent
    <3>8. /\ PartOf(b, p) /\ n \in {0, p.len}
          /\ i \in copy.answered => n = p.len /\ \A j \in 1..n : b[j] = Content(p)[j]
      <4>1. n \in Nat
        BY <3>5, <3>6, <3>7 DEF CopiedOf, PartOf
      <4> QED
        BY <3>5, <3>6, <3>7, <4>1 DEF CopiedOf
    <3>9. b = [j \in 1..n |-> b[j]]
      BY <3>5, <3>8 DEF PartOf
    <3>10. n = 0 => b = <<>>
      BY <3>9
    <3>11. i \in copy.answered => b = Content(p)
      <4>1. Content(p) = [j \in 1..p.len |-> Content(p)[j]]
        BY <3>6, ContentLength
      <4> QED
        BY <3>8, <3>9, <4>1
    <3> QED
      BY <3>5, <3>8, <3>10, <3>11
  <2> QED
    BY <2>2, <2>3
<1>7. CASE LookTorn \/ Exit \/ Create
  BY <1>2, <1>7 DEF LookTorn, Exit, Create
<1>8. CASE Launch \/ Look \/ CopyByte \/ UNCHANGED vars
  BY <1>1, <1>8 DEF Launch, Look, CopyByte, vars
<1> QED
  BY <1>3, <1>4, <1>5, <1>6, <1>7, <1>8 DEF Next

\* For any sizes and ranges: a read of a patient program copies out each chunk or nothing
\* of it, with the current bytes if the chunk's thread had ended, and at worst zero for
\* some of them if not, however decoding and copying interleave.
THEOREM ReadsCurrentBytesAlways == Patient => (Spec => []ReadsCurrentBytes)
<1> SUFFICES ASSUME Patient PROVE Spec => []ReadsCurrentBytes
  OBVIOUS
<1> DEFINE I == PatientProgram /\ ReadsCurrentBytes
<1>1. Init => I
  BY PatientInit DEF Init, ReadsCurrentBytes
<1>2. I /\ [Next]_vars => I'
  BY PatientStep, ReadsStep DEF PatientProgram
<1> QED
  BY <1>1, <1>2, PTL DEF Spec

-----------------------------------------------------------------------------
(***************************************************************************)
(* The programs of Client.cpp: where the numbered files go.                *)
(***************************************************************************)

LEMMA Residue ==
  ASSUME NEW x \in Nat, NEW n \in Nat \ {0}
  PROVE  /\ x \div n \in Nat /\ x % n \in 0..(n - 1)
         /\ x = n * (x \div n) + (x % n)
  BY SMT

\* Less than n lies strictly between no two multiples of n.
LEMMA NoMultiple ==
  ASSUME NEW d \in Int, NEW n \in Nat \ {0}, n * d < n, -n < n * d
  PROVE  d = 0
<1>1. CASE d >= 1
  <2>1. n * d = n * (d - 1) + n /\ n * (d - 1) >= 0
    BY <1>1, SMT
  <2> QED
    BY <2>1, SMT
<1>2. CASE d <= -1
  <2>1. n * d = -(n * (-1 - d)) - n /\ n * (-1 - d) >= 0
    BY <1>2, SMT
  <2> QED
    BY <2>1, SMT
<1> QED
  BY <1>1, <1>2, SMT

\* Files that follow each other by less than num go to different ranges.
LEMMA RangesDiffer ==
  ASSUME NEW x \in Nat, NEW y \in Nat, NEW n \in Nat \ {0}, x < y, y < x + n
  PROVE  x % n # y % n
<1> DEFINE d == (y \div n) - (x \div n)
<1>1. SUFFICES ASSUME x % n = y % n PROVE FALSE
  OBVIOUS
<1>2. d \in Int /\ n * d = n * (y \div n) - n * (x \div n)
  BY Residue, SMT
<1>3. n * d = y - x
  BY <1>1, <1>2, Residue, SMT
<1> HIDE DEF d
<1>4. d = 0
  BY <1>2, <1>3, NoMultiple, SMT
<1> QED
  BY <1>3, <1>4, SMT

\* The i-th file of a round goes to range i.
LEMMA RangeInRound ==
  ASSUME NEW q \in Nat, NEW n \in Nat \ {0}, NEW i \in 0..(n - 1)
  PROVE  (q * n + i) % n = i
<1> DEFINE x == q * n + i
           d == (x \div n) - q
<1>1. x \in Nat
  BY SMT
<1>2. /\ x \div n \in Nat /\ x % n \in 0..(n - 1)
      /\ x = n * (x \div n) + (x % n)
  BY <1>1, Residue
<1>3. d \in Int /\ n * d = n * (x \div n) - n * q
  BY <1>2, SMT
<1>4. n * d = i - (x % n)
  BY <1>2, <1>3, SMT
<1> HIDE DEF d
<1>5. d = 0
  BY <1>2, <1>3, <1>4, NoMultiple, SMT
<1> QED
  BY <1>2, <1>4, <1>5, SMT

\* The arguments of a program.
LEMMA ArgsTypes ==
  ASSUME NEW a \in Args
  PROVE  /\ a.rounds \in Nat \ {0} /\ a.num \in Nat \ {0} /\ a.size \in Nat \ {0}
         /\ Step(a) \in Nat /\ Step(a) * (a.num - 1) + a.size <= FileSize
         /\ a.rounds * a.num \in Nat
<1>1. /\ a.rounds \in Rounds /\ a.num \in Nums /\ a.size \in Sizes
      /\ Step(a) * (a.num - 1) + a.size <= FileSize
  BY DEF Args
<1>2. a.rounds \in Nat \ {0} /\ a.num \in Nat \ {0} /\ a.size \in Nat \ {0}
  BY <1>1, ClientAssumption
<1>3. Step(a) \in Nat
  BY <1>2, ClientAssumption, Residue DEF Step
<1>4. a.rounds * a.num \in Nat
  BY <1>2, SMT
<1> QED
  BY <1>1, <1>2, <1>3, <1>4

\* A largest argument.
LEMMA Largest ==
  ASSUME NEW S \in {Rounds, Nums}
  PROVE  MaxOf(S) \in Nat \ {0} /\ \A x \in S : x <= MaxOf(S)
<1>1. S \subseteq Nat \ {0} /\ \E x \in S : \A y \in S : x >= y
  BY ClientAssumption
<1>2. MaxOf(S) \in S /\ \A y \in S : MaxOf(S) >= y
  BY <1>1, Zenon DEF MaxOf
<1>3. \A m, x \in Nat : m >= x => x <= m
  BY SMT
<1>4. MaxOf(S) \in Nat \ {0} /\ \A x \in S : x \in Nat
  BY <1>1, <1>2, Zenon
<1> QED
  BY <1>2, <1>3, <1>4, Zenon

\* A program has a number for each of its files.
LEMMA FilesNumbered ==
  /\ Numbers \subseteq Nat
  /\ \A a \in Args : 1..(a.rounds * a.num) \subseteq Numbers
<1>1. MaxOf(Rounds) \in Nat /\ MaxOf(Nums) \in Nat
  BY Largest
<1> SUFFICES ASSUME NEW a \in Args PROVE a.rounds * a.num <= MaxOf(Rounds) * MaxOf(Nums)
  BY <1>1, ArgsTypes, SMT DEF Numbers
<1> DEFINE r == a.rounds
           n == a.num
           R == MaxOf(Rounds)
           N == MaxOf(Nums)
<1>2. /\ r \in Nat /\ n \in Nat /\ R \in Nat /\ N \in Nat
      /\ r <= R /\ n <= N
  <2>1. r \in Rounds /\ n \in Nums
    BY DEF Args
  <2> QED
    BY <1>1, <2>1, Largest, ArgsTypes
<1> HIDE DEF r, n, R, N
<1>3. R * N = r * n + r * (N - n) + (R - r) * N /\ r * (N - n) >= 0 /\ (R - r) * N >= 0
  BY <1>2, SMT
<1>4. r * n <= R * N
  BY <1>2, <1>3, SMT
<1> QED
  BY <1>4 DEF r, n, R, N

\* The ranges of a program are in the file, and apart if they are no longer than a step.
LEMMA RangesInFile ==
  ASSUME NEW a \in Args, NEW i \in 0..(a.num - 1), NEW j \in 0..(a.size - 1)
  PROVE  Step(a) * i + j \in 0..(FileSize - 1)
<1> DEFINE s == Step(a)
           n == a.num
<1>1. s \in Nat /\ n \in Nat \ {0} /\ a.size \in Nat /\ s * (n - 1) + a.size <= FileSize
      /\ FileSize \in Nat
  BY ArgsTypes, ClientAssumption
<1> HIDE DEF s
<1>2. s * (n - 1) = s * i + s * (n - 1 - i) /\ s * (n - 1 - i) >= 0 /\ s * i >= 0
      /\ s * i \in Nat
  BY <1>1, SMT
<1>3. s * i + j \in 0..(FileSize - 1)
  BY <1>1, <1>2, SMT
<1> QED
  BY <1>3 DEF s

LEMMA RangesApart ==
  ASSUME NEW a \in Args, Apart(a), NEW i \in Nat, NEW h \in Nat, i # h,
         NEW j \in 0..(a.size - 1)
  PROVE  Step(a) * i + j \notin (Step(a) * h)..(Step(a) * h + a.size - 1)
<1> DEFINE s == Step(a)
<1>1. s \in Nat /\ a.size \in Nat \ {0} /\ a.size <= s
  BY ArgsTypes DEF Apart
<1> HIDE DEF s
<1>2. s * i \in Nat /\ s * h \in Nat
  BY <1>1, SMT
<1>3. CASE i < h
  <2>1. s * h = s * i + s + s * (h - 1 - i) /\ s * (h - 1 - i) >= 0
    BY <1>1, <1>3, SMT
  <2> QED
    BY <1>1, <1>2, <2>1, SMT DEF s
<1>4. CASE i > h
  <2>1. s * i = s * h + s + s * (i - 1 - h) /\ s * (i - 1 - h) >= 0
    BY <1>1, <1>4, SMT
  <2> QED
    BY <1>1, <1>2, <2>1, SMT DEF s
<1> QED
  BY <1>3, <1>4, SMT


-----------------------------------------------------------------------------
(***************************************************************************)
(* The inductive invariant of the programs.                                *)
(***************************************************************************)
Running == [op : {"write", "read", "repair"}, args : Args, made : Nat]

LEMMA ProgramsInitial == ProgramsInit => ProgramsInv
<1> SUFFICES ASSUME ProgramsInit PROVE ProgramsInv
  OBVIOUS
<1>1. ProgramsTypeOK
  BY DEF ProgramsInit, ProgramsTypeOK, FileByte, Absent
<1> QED
  BY <1>1 DEF ProgramsInit, ProgramsInv, ProgramProgress, LastRoundWritten

\* What createUpdateData puts into a buffer.
LEMMA FilledTypes ==
  ASSUME ProgramsTypeOK, NEW a \in Args, NEW k \in Numbers
  PROVE  Filled(k, a.size) \in [0..(a.size - 1) -> FileByte]
  BY ArgsTypes, SMT DEF Filled, FileByte

LEMMA DiskTypes ==
  ASSUME ProgramsTypeOK, NEW a \in Args, NEW k \in Numbers
  PROVE  /\ DiskWith(k, a.size) \in [Numbers -> {Absent} \cup Nat]
         /\ \A i \in Numbers : disk[i] # Absent => DiskWith(k, a.size)[i] = disk[i]
         /\ DiskWith(k, a.size)[k] = IF disk[k] = Absent THEN a.size ELSE disk[k]
         /\ DiskWith(k, a.size)[k] # Absent
  BY ArgsTypes, SMT DEF ProgramsTypeOK, DiskWith, Absent

\* The files of the last round, by the range they go to.
LEMMA ComparedFiles ==
  ASSUME NEW a \in Args
  PROVE  /\ FirstCompared(a) \in Nat \ {0}
         /\ FirstCompared(a) + a.num - 1 = a.rounds * a.num
         /\ \A i \in 0..(a.num - 1) : (FirstCompared(a) + i - 1) % a.num = i
<1> DEFINE r == a.rounds
           n == a.num
<1>1. r \in Nat \ {0} /\ n \in Nat \ {0}
  BY ArgsTypes
<1>2. FirstCompared(a) = (r - 1) * n + 1
  BY DEF FirstCompared
<1>3. \A i \in 0..(n - 1) : ((r - 1) * n + i) % n = i
  <2>1. r - 1 \in Nat
    BY <1>1, SMT
  <2> QED
    BY <1>1, <2>1, RangeInRound
<1> HIDE DEF r, n
<1>4. (r - 1) * n \in Nat /\ (r - 1) * n + n = r * n
  BY <1>1, SMT
<1>5. \A i \in 0..(n - 1) : (r - 1) * n + i = ((r - 1) * n + 1) + i - 1
  BY <1>1, <1>4, SMT
<1>6. (r - 1) * n + 1 \in Nat \ {0} /\ (r - 1) * n + 1 + n - 1 = r * n
  BY <1>1, <1>4, SMT
<1> QED
  BY <1>2, <1>3, <1>5, <1>6 DEF r, n

\* A step that neither loses a file nor touches the bytes of HWDFS.
LEMMA StaysWritten ==
  ASSUME NEW a \in Args, NEW k \in Numbers, Written(a, k),
         disk'[k] = disk[k], content' = content
  PROVE  Written(a, k)'
  BY DEF Written

\* A write puts its file where it belongs, and leaves the ranges of others alone.
LEMMA WritesFile ==
  ASSUME ProgramsInv, prog # NoProg, UpdateStep,
         NEW a \in Args, a = prog.args, Apart(a),
         NEW k \in 1..(prog.made + 1), k > (prog.made + 1) - a.num
  PROVE  Written(a, k)'
<1> DEFINE m == prog.made + 1
           n == a.num
           at(i) == Step(a) * ((i - 1) % n)
<1>1. /\ ProgramsTypeOK /\ prog \in Running
      /\ prog.made \in Nat /\ prog.made < a.rounds * n
  BY DEF ProgramsInv, ProgramsTypeOK, Running, UpdateStep
<1>2. /\ a.rounds \in Nat \ {0} /\ n \in Nat \ {0} /\ a.size \in Nat \ {0}
      /\ Step(a) \in Nat /\ a.rounds * n \in Nat
  BY <1>1, ArgsTypes
<1>3. m \in Numbers /\ k \in Numbers /\ k \in Nat
  <2>1. m \in 1..(a.rounds * n) /\ k \in 1..(a.rounds * n)
    BY <1>1, <1>2, SMT
  <2> QED
    BY <1>1, <2>1, FilesNumbered
<1>4. /\ disk' = DiskWith(m, a.size)
      /\ content' = [o \in DOMAIN content |->
                       IF o \in at(m)..(at(m) + a.size - 1)
                       THEN Filled(m, a.size)[o - at(m)] ELSE content[o]]
      /\ prog' = [prog EXCEPT !.made = @ + 1]
  <2>1. m - 1 = prog.made
    BY <1>1, SMT
  <2> QED
    BY <2>1 DEF UpdateStep
<1>5. DOMAIN content = 0..(FileSize - 1)
  BY <1>1 DEF ProgramsTypeOK
<1>6. \A i \in {k, m} : /\ (i - 1) % n \in 0..(n - 1)
                        /\ at(i) \in Nat
                        /\ \A j \in 0..(a.size - 1) : at(i) + j \in 0..(FileSize - 1)
  <2> SUFFICES ASSUME NEW i \in {k, m}
               PROVE  /\ (i - 1) % n \in 0..(n - 1)
                      /\ at(i) \in Nat
                      /\ \A j \in 0..(a.size - 1) : at(i) + j \in 0..(FileSize - 1)
    OBVIOUS
  <2>1. i - 1 \in Nat
    BY <1>1, SMT
  <2>2. (i - 1) % n \in 0..(n - 1)
    BY <1>2, <2>1, Residue
  <2>3. at(i) \in Nat
    <3> DEFINE q == (i - 1) % n
               s == Step(a)
    <3>1. q \in Nat /\ s \in Nat
      BY <1>2, <2>2, SMT
    <3> HIDE DEF q, s
    <3>2. s * q \in Nat
      BY <3>1, SMT
    <3> QED
      BY <3>2 DEF q, s
  <2> QED
    BY <1>1, <2>2, <2>3, RangesInFile
<1>7. CASE k = m
  <2>1. disk'[m] # Absent /\ disk'[m] = IF disk[m] = Absent THEN a.size ELSE disk[m]
    BY <1>1, <1>3, <1>4, DiskTypes
  <2>2. ASSUME NEW j \in 0..(a.size - 1), j < disk'[m]
        PROVE  content'[at(m) + j] = <<m, j>>
    <3>1. /\ at(m) + j \in DOMAIN content
          /\ at(m) + j \in at(m)..(at(m) + a.size - 1)
          /\ (at(m) + j) - at(m) = j
      <4>1. at(m) \in Nat /\ at(m) + j \in DOMAIN content
        BY <1>5, <1>6
      <4> HIDE DEF at, m
      <4> QED
        BY <1>2, <4>1, SMT
    <3>2. content'[at(m) + j] = Filled(m, a.size)[j]
      BY <1>4, <3>1
    <3>3. Filled(m, a.size)[j] = <<m, j>>
      BY <2>1, <2>2 DEF Filled
    <3> QED
      BY <3>2, <3>3
  <2> QED
    BY <1>7, <2>1, <2>2 DEF Written
<1>8. CASE k # m
  <2>1. k \in 1..prog.made /\ k > prog.made - n
    BY <1>1, <1>2, <1>8, SMT
  <2>2. Written(a, k)
    BY <2>1, <1>1 DEF ProgramsInv, LastRoundWritten, Running, UpdateStep
  <2>3. disk'[k] = disk[k]
    BY <1>1, <1>3, <1>4, <2>2, DiskTypes DEF Written
  <2>4. (k - 1) % n # (m - 1) % n
    <3>1. k - 1 \in Nat /\ m - 1 \in Nat /\ k - 1 < m - 1 /\ m - 1 < (k - 1) + n
      BY <1>1, <1>2, <2>1, SMT
    <3> QED
      BY <1>2, <3>1, RangesDiffer
  <2>5. ASSUME NEW j \in 0..(a.size - 1), j < disk'[k]
        PROVE  content'[at(k) + j] = <<k, j>>
    <3>1. at(k) + j \in DOMAIN content
      BY <1>5, <1>6
    <3>2. at(k) + j \notin at(m)..(at(m) + a.size - 1)
      <4>1. (k - 1) % n \in Nat /\ (m - 1) % n \in Nat
        BY <1>2, <1>6, SMT
      <4> QED
        BY <1>1, <2>4, <4>1, RangesApart
    <3>3. content'[at(k) + j] = content[at(k) + j]
      BY <1>4, <3>1, <3>2
    <3> QED
      BY <2>2, <2>3, <2>5, <3>3 DEF Written
  <2> QED
    BY <2>2, <2>3, <2>5 DEF Written
<1> QED
  BY <1>7, <1>8

LEMMA CreateFileKeeps == ProgramsInv /\ CreateFile => ProgramsInv'
<1> SUFFICES ASSUME ProgramsInv, CreateFile PROVE ProgramsInv'
  OBVIOUS
<1> USE DEF ProgramsInv, CreateFile
<1>1. ProgramsTypeOK'
  BY DEF ProgramsTypeOK, FileByte
<1>2. ProgramProgress' /\ LastRoundWritten'
  BY DEF ProgramProgress, LastRoundWritten
<1> QED
  BY <1>1, <1>2

LEMMA StartKeeps ==
  ASSUME ProgramsInv, NEW op \in {"write", "read", "repair"}, NEW a \in Args, Start(op, a)
  PROVE  ProgramsInv'
<1> USE DEF ProgramsInv, Start
<1>1. ProgramsTypeOK'
  BY DEF ProgramsTypeOK
<1>2. ProgramProgress'
  <2>1. a.rounds * a.num \in Nat /\ a.num \in Nat
    BY ArgsTypes
  <2>2. 0 <= a.rounds * a.num /\ 0 <= a.num
    BY <2>1, SMT
  <2>3. /\ prog'.op = op /\ prog'.args = a /\ prog'.made = 0 /\ prog' # NoProg /\ ~alarm'
        /\ op = "write" => updated' = NoProg
    BY DEF NoProg
  <2> QED
    BY <2>2, <2>3 DEF ProgramProgress
<1>3. LastRoundWritten'
  <2>1. ASSUME prog' # NoProg, prog'.op = "write"
        PROVE  \A k \in 1..prog'.made : FALSE
    BY SMT
  <2>2. ASSUME updated' # NoProg, Apart(updated)',
               NEW k \in (FirstCompared(updated)..(updated.rounds * updated.num))'
        PROVE  Written(updated, k)'
    <3>1. updated' = updated /\ disk' = disk /\ content' = content
      BY <2>2
    <3>2. Written(updated, k)
      BY <2>2, <3>1 DEF LastRoundWritten
    <3> QED
      BY <3>1, <3>2 DEF Written
  <2>3. prog'.made = 0
    OBVIOUS
  <2> HIDE DEF Start, ProgramsInv
  <2> QED
    BY <2>1, <2>2 DEF LastRoundWritten
<1> QED
  BY <1>1, <1>2, <1>3

LEMMA UpdateKeeps == ProgramsInv /\ prog # NoProg /\ UpdateStep => ProgramsInv'
<1> SUFFICES ASSUME ProgramsInv, prog # NoProg, UpdateStep PROVE ProgramsInv'
  OBVIOUS
<1> PICK a \in Args : a = prog.args
  BY DEF ProgramsInv, ProgramsTypeOK
<1> DEFINE m == prog.made + 1
           offset == Step(a) * (prog.made % a.num)
<1>1. /\ ProgramsTypeOK /\ prog \in Running /\ prog.made \in Nat /\ prog.op = "write"
      /\ prog.made < a.rounds * a.num
      /\ disk' = DiskWith(m, a.size)
      /\ content' = [o \in DOMAIN content |->
                       IF o \in offset..(offset + a.size - 1)
                       THEN Filled(m, a.size)[o - offset] ELSE content[o]]
      /\ prog' = [prog EXCEPT !.made = @ + 1]
      /\ alarm' = alarm /\ updated' = updated
      /\ ~alarm /\ updated = NoProg
  BY DEF ProgramsInv, ProgramsTypeOK, ProgramProgress, Running, UpdateStep
<1>2. /\ a.rounds \in Nat \ {0} /\ a.num \in Nat \ {0} /\ a.size \in Nat \ {0}
      /\ Step(a) \in Nat /\ a.rounds * a.num \in Nat
  BY ArgsTypes
<1>3. m \in Numbers
  <2>1. m \in 1..(a.rounds * a.num)
    BY <1>1, <1>2, SMT
  <2> QED
    BY <2>1, FilesNumbered
<1>4. /\ prog' \in Running /\ prog'.args = a /\ prog'.op = "write" /\ prog'.made = m
      /\ prog' # NoProg
  BY <1>1 DEF Running, NoProg
<1>5. ProgramsTypeOK'
  <2>1. disk' \in [Numbers -> {Absent} \cup Nat]
    BY <1>1, <1>3, DiskTypes
  <2>2. content' \in [0..(FileSize - 1) -> FileByte]
    <3>1. Filled(m, a.size) \in [0..(a.size - 1) -> FileByte]
      BY <1>1, <1>3, FilledTypes
    <3>2. offset \in Nat
      <4> DEFINE q == prog.made % a.num
      <4>1. q \in Nat
        <5>1. q \in 0..(a.num - 1)
          BY <1>1, <1>2, Residue
        <5> QED
          BY <1>2, <5>1, SMT
      <4> HIDE DEF q
      <4>2. Step(a) * q \in Nat
        BY <1>2, <4>1, SMT
      <4> QED
        BY <4>2 DEF q
    <3>3. content \in [0..(FileSize - 1) -> FileByte]
      BY <1>1 DEF ProgramsTypeOK
    <3> HIDE DEF offset, m
    <3>4. \A o \in offset..(offset + a.size - 1) : o - offset \in 0..(a.size - 1)
      BY <1>2, <3>2, SMT
    <3> QED
      BY <1>1, <3>1, <3>3, <3>4
  <2> QED
    BY <1>1, <1>4, <2>1, <2>2 DEF ProgramsTypeOK, Running
<1>6. ProgramProgress'
  <2>1. m <= a.rounds * a.num
    BY <1>1, <1>2, SMT
  <2> QED
    BY <1>1, <1>4, <2>1 DEF ProgramProgress
<1>7. LastRoundWritten'
  <2>1. ASSUME Apart(a)
        PROVE  \A k \in 1..m : k > m - a.num => Written(a, k)'
    <3> SUFFICES ASSUME NEW k \in 1..m, k > m - a.num PROVE Written(a, k)'
      OBVIOUS
    <3>1. k \in 1..(prog.made + 1) /\ k > (prog.made + 1) - a.num
      OBVIOUS
    <3> QED
      BY <2>1, <3>1, WritesFile, Zenon
  <2>2. updated' = NoProg
    BY <1>1
  <2> QED
    BY <1>4, <2>1, <2>2 DEF LastRoundWritten, Written
<1> QED
  BY <1>5, <1>6, <1>7 DEF ProgramsInv

LEMMA CompareKeeps == ProgramsInv /\ prog # NoProg /\ CompareStep => ProgramsInv'
<1> SUFFICES ASSUME ProgramsInv, prog # NoProg, CompareStep PROVE ProgramsInv'
  OBVIOUS
<1> PICK a \in Args : a = prog.args
  BY DEF ProgramsInv, ProgramsTypeOK
<1> DEFINE m == FirstCompared(a) + prog.made
<1>1. /\ ProgramsTypeOK /\ prog \in Running /\ prog.made \in Nat
      /\ prog.op \in {"read", "repair"} /\ prog.made < a.num
      /\ disk' = DiskWith(m, a.size)
      /\ content' = content /\ updated' = updated /\ alarm' \in BOOLEAN
      /\ prog' = [prog EXCEPT !.made = @ + 1]
  BY DEF ProgramsInv, ProgramsTypeOK, Running, CompareStep
<1>2. a.num \in Nat /\ a.rounds * a.num \in Nat
  BY ArgsTypes
<1>3. m \in Numbers
  <2>1. m \in 1..(a.rounds * a.num)
    <3>1. /\ FirstCompared(a) \in Nat \ {0}
          /\ FirstCompared(a) + a.num - 1 = a.rounds * a.num
      BY ComparedFiles
    <3> QED
      BY <1>1, <1>2, <3>1, SMT
  <2> QED
    BY <2>1, FilesNumbered
<1>4. /\ prog' \in Running /\ prog'.args = a /\ prog'.op = prog.op
      /\ prog'.made = prog.made + 1 /\ prog' # NoProg /\ prog'.op # "write"
  BY <1>1 DEF Running, NoProg
<1>5. ProgramsTypeOK'
  <2>1. disk' \in [Numbers -> {Absent} \cup Nat]
    BY <1>1, <1>3, DiskTypes
  <2> QED
    BY <1>1, <1>4, <2>1 DEF ProgramsTypeOK, Running
<1>6. ProgramProgress'
  <2>1. prog'.made <= a.num
    BY <1>1, <1>2, <1>4, SMT
  <2> QED
    BY <1>4, <2>1 DEF ProgramProgress
<1>7. LastRoundWritten'
  <2>1. ASSUME updated # NoProg, Apart(updated),
               NEW k \in FirstCompared(updated)..(updated.rounds * updated.num)
        PROVE  Written(updated, k)'
    <3>1. PICK b \in Args : b = updated
      BY <1>1, <2>1 DEF ProgramsTypeOK
    <3>2. Written(b, k)
      BY <2>1, <3>1 DEF ProgramsInv, LastRoundWritten
    <3>3. k \in Numbers
      <4>1. k \in 1..(b.rounds * b.num)
        <5>1. FirstCompared(b) \in Nat \ {0} /\ b.rounds * b.num \in Nat
          BY ComparedFiles, ArgsTypes
        <5> QED
          BY <2>1, <3>1, <5>1, SMT
      <4> QED
        BY <4>1, FilesNumbered
    <3>4. disk'[k] = disk[k]
      BY <1>1, <1>3, <3>2, <3>3, DiskTypes DEF Written
    <3>5. Written(b, k)'
      BY <1>1, <3>2, <3>3, <3>4, StaysWritten
    <3> QED
      BY <1>1, <3>1, <3>5 DEF Written
  <2> QED
    BY <1>1, <1>4, <2>1 DEF LastRoundWritten
<1> QED
  BY <1>5, <1>6, <1>7 DEF ProgramsInv

LEMMA MainEndKeeps == ProgramsInv /\ End => ProgramsInv'
<1> SUFFICES ASSUME ProgramsInv, End PROVE ProgramsInv'
  OBVIOUS
<1> PICK a \in Args : a = prog.args
  BY DEF ProgramsInv, ProgramsTypeOK, End
<1>1. ProgramsTypeOK'
  BY DEF ProgramsInv, ProgramsTypeOK, End
<1>2. ProgramProgress'
  BY DEF ProgramProgress, End
<1>3. LastRoundWritten'
  <2>1. prog' = NoProg /\ disk' = disk /\ content' = content
    BY DEF End
  <2>2. CASE prog.op = "write"
    <3>1. updated' = a /\ prog.made = a.num * a.rounds
      BY <2>2 DEF End
    <3>2. ASSUME Apart(a), NEW k \in FirstCompared(a)..(a.rounds * a.num)
          PROVE  Written(a, k)'
      <4>1. k \in 1..prog.made /\ k > prog.made - a.num
        <5>1. /\ FirstCompared(a) \in Nat \ {0}
              /\ FirstCompared(a) + a.num - 1 = a.rounds * a.num
              /\ a.num \in Nat \ {0} /\ a.rounds \in Nat /\ a.rounds * a.num \in Nat
          BY ComparedFiles, ArgsTypes
        <5>2. prog.made = a.rounds * a.num
          BY <3>1, <5>1, SMT
        <5> QED
          BY <3>2, <5>1, <5>2, SMT
      <4>2. Written(a, k)
        BY <2>2, <3>2, <4>1 DEF ProgramsInv, LastRoundWritten, End
      <4> QED
        BY <2>1, <4>2 DEF Written
    <3> QED
      BY <2>1, <3>1, <3>2 DEF LastRoundWritten, Written
  <2>3. CASE prog.op # "write"
    BY <2>1, <2>3 DEF ProgramsInv, LastRoundWritten, Written, End
  <2> QED
    BY <2>2, <2>3
<1> QED
  BY <1>1, <1>2, <1>3 DEF ProgramsInv

LEMMA KillKeeps == ProgramsInv /\ Kill => ProgramsInv'
<1> SUFFICES ASSUME ProgramsInv, Kill PROVE ProgramsInv'
  OBVIOUS
<1>1. /\ ProgramsTypeOK /\ prog # NoProg /\ prog' = NoProg /\ ~alarm'
      /\ content' = content /\ updated' = updated
  BY DEF ProgramsInv, Kill
<1>2. CASE UNCHANGED disk
  BY <1>1, <1>2 DEF ProgramsInv, ProgramsTypeOK, ProgramProgress, LastRoundWritten,
     Written, Kill
<1>3. CASE /\ prog.op = "write"
           /\ \E n \in 0..(prog.args.size - 1) : disk' = [disk EXCEPT ![prog.made + 1] = n]
  <2>1. updated = NoProg
    BY <1>1, <1>3 DEF ProgramsInv, ProgramProgress
  <2>2. disk' \in [Numbers -> {Absent} \cup Nat]
    <3>1. PICK n \in 0..(prog.args.size - 1) : disk' = [disk EXCEPT ![prog.made + 1] = n]
      BY <1>3
    <3>2. prog.args \in Args
      BY <1>1 DEF ProgramsTypeOK
    <3>3. n \in Nat
      BY <3>2, ArgsTypes, SMT
    <3> QED
      BY <1>1, <3>1, <3>3 DEF ProgramsTypeOK
  <2>3. ProgramsTypeOK'
    BY <1>1, <2>2 DEF ProgramsTypeOK, Kill
  <2> QED
    BY <1>1, <2>1, <2>3 DEF ProgramsInv, ProgramProgress, LastRoundWritten
<1> QED
  BY <1>2, <1>3 DEF Kill

LEMMA ProgramsStep == ProgramsInv /\ [ProgramsNext]_programVars => ProgramsInv'
<1> SUFFICES ASSUME ProgramsInv, [ProgramsNext]_programVars PROVE ProgramsInv'
  OBVIOUS
<1>1. CASE CreateFile
  BY <1>1, CreateFileKeeps
<1>2. CASE \E op \in {"write", "read", "repair"}, a \in Args : Start(op, a)
  BY <1>2, StartKeeps
<1>3. CASE prog # NoProg /\ UpdateStep
  BY <1>3, UpdateKeeps
<1>4. CASE prog # NoProg /\ CompareStep
  BY <1>4, CompareKeeps
<1>5. CASE End
  BY <1>5, MainEndKeeps
<1>6. CASE Kill
  BY <1>6, KillKeeps
<1>7. CASE UNCHANGED programVars
  BY <1>7 DEF programVars, ProgramsInv, ProgramsTypeOK, ProgramProgress, LastRoundWritten,
     Written
<1> QED
  BY <1>1, <1>2, <1>3, <1>4, <1>5, <1>6, <1>7 DEF ProgramsNext

\* The inductive invariant of the programs: after every program, however many were
\* killed before it, the ranges hold the files of its last round as far as these go.
THEOREM ProgramsInvariant == ProgramsSpec => []ProgramsInv
<1> QED
  BY ProgramsInitial, ProgramsStep, PTL DEF ProgramsSpec

\* A comparison with the arguments of the program that wrote last.
LEMMA ComparesEqual ==
  ASSUME ProgramsInv, prog # NoProg, CompareStep, prog.args = updated, Apart(updated),
         ~alarm, alarm'
  PROVE  \E k \in FirstCompared(updated)..(updated.rounds * updated.num) :
           disk'[k] < updated.size
<1> PICK a \in Args : a = prog.args
  BY DEF ProgramsInv, ProgramsTypeOK
<1> DEFINE m == FirstCompared(a) + prog.made
<1>1. ProgramsTypeOK /\ prog.made \in Nat /\ prog.made < a.num /\ disk' = DiskWith(m, a.size)
  BY DEF ProgramsInv, ProgramsTypeOK, CompareStep
<1>2. /\ a.num \in Nat /\ a.size \in Nat \ {0} /\ a.rounds * a.num \in Nat
      /\ FirstCompared(a) \in Nat \ {0}
      /\ FirstCompared(a) + a.num - 1 = a.rounds * a.num
  BY ArgsTypes, ComparedFiles
<1>3. m \in FirstCompared(a)..(a.rounds * a.num) /\ m \in 1..(a.rounds * a.num)
  BY <1>1, <1>2, SMT
<1>4. m \in Numbers
  BY <1>3, FilesNumbered
<1>5. (m - 1) % a.num = prog.made
  <2>1. prog.made \in 0..(a.num - 1)
    BY <1>1, <1>2, SMT
  <2> QED
    BY <2>1, ComparedFiles
<1>6. Written(a, m)
  <2>1. a # NoProg
    BY DEF Args, NoProg
  <2> QED
    BY <1>3, <2>1 DEF ProgramsInv, LastRoundWritten
<1>7. disk'[m] = disk[m] /\ disk[m] \in Nat
  BY <1>1, <1>4, <1>6, DiskTypes DEF Written, ProgramsTypeOK
<1>8. CASE disk[m] < a.size
  BY <1>3, <1>7, <1>8
<1>9. CASE ~(disk[m] < a.size)
  <2> DEFINE offset == Step(a) * prog.made
             temp   == Filled(m, a.size)
             data   == [j \in 0..(a.size - 1) |-> content[offset + j]]
  <2>1. temp = [j \in 0..(a.size - 1) |-> <<m, j>>]
    <3>1. \A j \in 0..(a.size - 1) : j < disk[m]
      BY <1>2, <1>7, <1>9, SMT
    <3> QED
      BY <3>1 DEF Filled
  <2>2. data = [j \in 0..(a.size - 1) |-> <<m, j>>]
    <3>1. \A j \in 0..(a.size - 1) : j < disk[m]
      BY <1>2, <1>7, <1>9, SMT
    <3> QED
      BY <1>5, <1>6, <3>1 DEF Written
  <2>3. {j \in DOMAIN temp : Known(temp[j]) /\ Known(data[j])} = DOMAIN temp
    <3>1. \A j \in DOMAIN temp : temp[j] = <<m, j>> /\ data[j] = <<m, j>>
      BY <2>1, <2>2
    <3>2. \A j \in DOMAIN temp : Known(<<m, j>>)
      BY SMT DEF Known
    <3> QED
      BY <3>1, <3>2
  <2>4. alarm' = alarm
    BY <2>1, <2>2, <2>3 DEF CompareStep
  <2> QED
    BY <2>4
<1> QED
  BY <1>8, <1>9

LEMMA AlarmInit == ProgramsInit => NoFalseAlarm
  BY DEF ProgramsInit, NoFalseAlarm

LEMMA AlarmStep == NoFalseAlarm /\ ProgramsInv /\ [ProgramsNext]_programVars => NoFalseAlarm'
<1> SUFFICES ASSUME NoFalseAlarm, ProgramsInv, [ProgramsNext]_programVars, alarm'
             PROVE  NoFalseAlarm'
  BY DEF NoFalseAlarm
<1>1. CASE prog # NoProg /\ CompareStep
  <2> SUFFICES ASSUME prog'.args = updated', ~(prog'.args.size > Step(prog'.args))
               PROVE  \E k \in FirstCompared(prog'.args)..(prog'.args.rounds * prog'.args.num) :
                        disk'[k] < prog'.args.size
    BY DEF NoFalseAlarm
  <2>1. prog'.args = prog.args /\ updated' = updated
    BY <1>1 DEF ProgramsInv, ProgramsTypeOK, CompareStep
  <2>2. PICK a \in Args : a = prog.args /\ a = updated
    BY <1>1, <2>1 DEF ProgramsInv, ProgramsTypeOK
  <2>3. Apart(a)
    BY <2>1, <2>2, ArgsTypes, SMT DEF Apart
  <2>4. CASE ~alarm
    BY <1>1, <2>1, <2>2, <2>3, <2>4, ComparesEqual
  <2>5. CASE alarm
    <3>1. PICK k \in FirstCompared(a)..(a.rounds * a.num) : disk[k] < a.size
      BY <2>1, <2>2, <2>5 DEF NoFalseAlarm
    <3>2. a # NoProg
      BY DEF Args, NoProg
    <3>3. Written(a, k)
      BY <2>2, <2>3, <3>2 DEF ProgramsInv, LastRoundWritten
    <3>4. k \in Numbers
      <4>1. FirstCompared(a) \in Nat \ {0} /\ a.rounds * a.num \in Nat
        BY ComparedFiles, ArgsTypes
      <4>2. k \in 1..(a.rounds * a.num)
        BY <4>1, SMT
      <4> QED
        BY <4>2, FilesNumbered
    <3>5. disk'[k] = disk[k]
      <4> DEFINE m == FirstCompared(a) + prog.made
      <4>1. disk' = DiskWith(m, a.size)
        BY <1>1, <2>2 DEF CompareStep
      <4>2. \A i \in Numbers : i # m \/ disk[i] # Absent => DiskWith(m, a.size)[i] = disk[i]
        BY DEF ProgramsInv, ProgramsTypeOK, DiskWith
      <4> QED
        BY <3>3, <3>4, <4>1, <4>2 DEF Written
    <3> QED
      BY <2>1, <2>2, <3>1, <3>5
  <2> QED
    BY <2>4, <2>5
<1>2. CASE prog # NoProg /\ UpdateStep
  BY <1>2 DEF ProgramsInv, ProgramProgress, UpdateStep
<1>3. CASE UNCHANGED programVars
  BY <1>3 DEF NoFalseAlarm, programVars
<1> QED
  BY <1>1, <1>2, <1>3 DEF ProgramsNext, CreateFile, Start, End, Kill

\* For any file and all arguments: run with the arguments of the program that wrote last,
\* whose ranges do not overlap and whose files of data are long enough, read_iops and
\* degard_read_iops report no failure, whatever programs ran or were killed before.
THEOREM NoFalseAlarmAlways == ProgramsSpec => []NoFalseAlarm
<1> QED
  BY AlarmInit, AlarmStep, ProgramsInvariant, PTL DEF ProgramsSpec
=============================================================================
