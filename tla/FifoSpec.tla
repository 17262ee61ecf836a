------------------------------ MODULE FifoSpec ------------------------------
(* A bounded stream of bytes: what goes in comes out, in order, once.       *)
EXTENDS Naturals, Sequences

CONSTANTS Byte, Capacity

VARIABLES
  pending,   \* the bytes that are in
  last       \* the byte that came out, after a step in which one did

StreamInit == pending = <<>>

PutByte ==
  /\ Len(pending) < Capacity
  /\ \E c \in Byte : pending' = Append(pending, c)

GetByte ==
  /\ pending # <<>>
  /\ last' = Head(pending)
  /\ pending' = Tail(pending)

Stream == StreamInit /\ [][PutByte \/ GetByte]_pending
=============================================================================
