-------------------------- MODULE MCFramedChannel --------------------------
(* Bits for bytes and a size field of three of them: messages of no, one, two *)
(* and three bytes, so that the bytes of the size differ.                   *)
EXTENDS FramedChannel

SomeMessages == {<<>>, <<1>>, <<0, 1>>, <<1, 1, 0>>}

ASSUME SizesAgree == SizesReadBack
=============================================================================
