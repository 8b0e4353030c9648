------------------------------- MODULE Buffer -------------------------------
(***************************************************************************)
(* buffer/Buffer.{h,cpp}: a list of byte vectors and the number of bytes   *)
(* in it, which is counted apart.  The stage and the maximal size that a   *)
(* Buffer also carries are variables of the modules that use them.         *)
(***************************************************************************)
EXTENDS Naturals, SequencesExt

EmptyBuffer == [chunks |-> <<>>, size |-> 0]

PushFront(b, bytes) ==
    [chunks |-> <<bytes>> \o b.chunks, size |-> b.size + Len(bytes)]

PushBack(b, bytes) ==
    [chunks |-> Append(b.chunks, bytes), size |-> b.size + Len(bytes)]

\* pop(): the first vector whatever its length; it throws when size is 0.
CanPopFront(b) == b.size # 0
AfterPopFront(b) ==
    [chunks |-> Tail(b.chunks), size |-> b.size - Len(Head(b.chunks))]

\* What the loop of pop(n) does to one vector of the list.
PopStep(acc, chunk) ==
    IF Len(chunk) <= acc.left
    THEN [taken |-> acc.taken \o chunk, left |-> acc.left - Len(chunk), rest |-> acc.rest]
    ELSE [taken |-> acc.taken \o SubSeq(chunk, 1, acc.left), left |-> 0,
          rest |-> Append(acc.rest, SubSeq(chunk, acc.left + 1, Len(chunk)))]

\* pop(n): it throws when n > size.
CanPop(b, n) == n <= b.size
Popped(b, n) ==
    FoldLeft(PopStep, [taken |-> <<>>, left |-> n, rest |-> <<>>], b.chunks)
SizeAfterPop(b, n) == b.size - n
AfterPop(b, n) == [chunks |-> Popped(b, n).rest, size |-> SizeAfterPop(b, n)]

Content(b) == FlattenSeq(b.chunks)
=============================================================================
