------------------------------ MODULE MCSipCall -------------------------------
(* CallsSipCall for TLC: this program with itself and with a foreign end.    *)
EXTENDS CallsSipCall

MCForeigners == {{}, {"caller"}, {"callee"}}

Line(tag, suite) == [tag |-> tag, suite |-> suite, key |-> <<"foreign", tag>>]

\* No common codec; no encryption; nothing that parses; a line the program has
\* offered; one of its tags for another suite; a tag it never offers; two lines
\* and one that does not parse, in another order than its own.
MCForeignMedia ==
  {[codec |-> FALSE, crypto |-> <<>>, garbled |-> FALSE],
   [codec |-> TRUE, crypto |-> <<>>, garbled |-> TRUE],
   [codec |-> TRUE, garbled |-> TRUE,
    crypto |-> <<Line(4, "AES_CM_128_SHA1_32"), Line(3, "AES_CM_128_SHA1_80")>>]} \cup
  {[codec |-> TRUE, crypto |-> crypto, garbled |-> FALSE] : crypto \in
    {<<>>,
     <<Line(1, "AES_256_CM_SHA1_80")>>,
     <<Line(2, "AES_CM_128_SHA1_80")>>,
     <<Line(7, "AES_CM_128_SHA1_32")>>}}

MCNoCodec == {[codec |-> FALSE, crypto |-> <<>>, garbled |-> FALSE]}
=============================================================================
