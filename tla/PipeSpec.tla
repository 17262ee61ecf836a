------------------------------ MODULE PipeSpec -------------------------------
(***************************************************************************)
(* What pipes promise (pintos2): each is a bounded queue of characters     *)
(* with two ends, which any process may use, and which lives until both    *)
(* ends are closed.                                                        *)
(***************************************************************************)
EXTENDS Integers, Sequences

CONSTANTS Slot, Char, PIPE_BUFFER_SIZE

VARIABLES
  chan,   \* each pipe: the ends that are open, and the data in it
  moved   \* the data the last read or write moved

Ends == {"read", "write"}

PipeInit ==
  /\ chan = [i \in Slot |-> [ends |-> {}, data |-> <<>>]]
  /\ moved = <<>>

Create(i) ==
  /\ chan[i].ends = {}
  /\ chan' = [chan EXCEPT ![i] = [ends |-> Ends, data |-> <<>>]]
  /\ UNCHANGED moved

Read(i) ==
  /\ chan[i].ends # {}
  /\ \E n \in 0 .. Len(chan[i].data) :
       /\ moved' = SubSeq(chan[i].data, 1, n)
       /\ chan' = [chan EXCEPT ![i].data = SubSeq(@, n + 1, Len(@))]

Write(i) ==
  /\ chan[i].ends # {}
  /\ \E n \in 0 .. PIPE_BUFFER_SIZE - Len(chan[i].data) : \E s \in [1 .. n -> Char] :
       /\ moved' = s
       /\ chan' = [chan EXCEPT ![i].data = @ \o s]

Close(i, e) ==
  /\ e \in chan[i].ends
  /\ chan' = [chan EXCEPT ![i].ends = @ \ {e},
                          ![i].data = IF chan[i].ends = {e} THEN <<>> ELSE @]
  /\ UNCHANGED moved

PipeNext ==
  \E i \in Slot :
    \/ Create(i) \/ Read(i) \/ Write(i)
    \/ \E e \in Ends : Close(i, e)

Spec == PipeInit /\ [][PipeNext]_<<chan, moved>>
==============================================================================
