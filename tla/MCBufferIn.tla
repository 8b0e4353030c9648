----------------------------- MODULE MCBufferIn -----------------------------
(* Instances of BufferIn: a byte has three values, so that a payload of one    *)
(* byte has a length with a zero high byte and one of four has two others.     *)
EXTENDS BufferIn

ShortAndLong == {<<1>>, <<2, 1>>, <<1, 2, 2, 1>>}
=============================================================================
