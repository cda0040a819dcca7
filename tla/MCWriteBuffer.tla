---------------------------- MODULE MCWriteBuffer -----------------------------
(***************************************************************************)
(* Instances of WriteBuffer for TLC.                                       *)
(***************************************************************************)
EXTENDS WriteBuffer, TLC

\* A sector of the first sub-page, and a range over the border of the two.
TwoRanges == {{<<0, 0>>}, {<<0, 1>>, <<1, 0>>}}

Symmetric == Permutations(Lpns) \cup Permutations(Users) \cup Permutations(Values)
=============================================================================
