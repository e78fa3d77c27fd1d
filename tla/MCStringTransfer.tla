-------------------------- MODULE MCStringTransfer --------------------------
(* Bytes of one bit make 16 addresses; chunks are of two bytes. *)
EXTENDS StringTransfer

MCSizes == {11, 16}
MCTexts ==
  {<< >>, <<1>>, <<1, 0>>, <<1, 0, 1>>, <<0, 1, 1, 0, 1>>, <<1, 1, 0, 1, 0, 0>>}
MCPointers == {0, 1, 3, 5, 7, 8, 9, 12, 14, 15}
MCLengths == {0, 1, 2, 3}
MCLeftovers == {0, 1, 3, 6, 15}

=============================================================================
