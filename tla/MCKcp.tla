------------------------------- MODULE MCKcp -------------------------------
(* Segments of two bytes and a window of three segments: messages of one    *)
(* fragment, of two, and of three, which ikcp_send refuses.                 *)
EXTENDS Kcp

SomeWork == [A |-> <<<<2, 3, 4>>, <<5, 5, 5, 5, 5>>, <<6, 7, 8>>>>, B |-> <<>>]
=============================================================================
