---------------------------- MODULE MCLargeCalls ----------------------------
(***************************************************************************)
(* A stripe of three chunks of two bytes, for TLC.                         *)
(***************************************************************************)
EXTENDS LargeCalls

\* The stripe; a range with part of the first and of the last chunk, and one that ends in
\* the second; the first byte of a chunk and the last one of another.
GoodRanges == {<<0, 6>>, <<1, 4>>, <<0, 3>>, <<0, 1>>, <<5, 1>>}

\* A range that crosses a border from a later chunk, and some that leave the stripe: in
\* the next one, into it, and over a whole one.
OtherRanges == {<<3, 2>>, <<6, 2>>, <<4, 4>>, <<7, 6>>, <<0, 13>>}

MCRanges == GoodRanges \cup OtherRanges
=============================================================================
