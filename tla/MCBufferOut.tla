---------------------------- MODULE MCBufferOut ----------------------------
(* Instances of BufferOut.  Once the threads have disturbed each other only    *)
(* NothingLost says something, and it does not see the order of the bytes on   *)
(* the wire: View keeps how often each byte of payload is there.               *)
EXTENDS BufferOut

OnWire == [p \in DOMAIN sent |->
              [i \in DOMAIN sent[p] |-> Cardinality({j \in DOMAIN wire : wire[j] = sent[p][i]})]]
View == <<sent, bufferOut, stage, pc, hand, room, wanting, edge, disturbed,
          IF disturbed THEN OnWire ELSE <<wire, notices>> >>
=============================================================================
