--------------------------- MODULE MCSocketLogger ---------------------------
(* Instances of SocketLogger: messages of one and of two bytes.              *)
EXTENDS SocketLogger

MCBytes == {"a", "b"}
MCMessages == {<<"a">>, <<"b", "b">>}
=============================================================================
