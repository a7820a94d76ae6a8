-------------------------------- MODULE Fifo --------------------------------
(* What a queue with many writers and one reader promises: what was put in   *)
(* comes out, once, in the order in which it was put in.                     *)
EXTENDS Sequences, Naturals

CONSTANT Item

VARIABLES put,  \* everything put in, in order
          got   \* everything taken out, in order

Init == put = <<>> /\ got = <<>>

Put(x) == put' = Append(put, x) /\ UNCHANGED got

Take == /\ Len(got) < Len(put)
        /\ got' = Append(got, put[Len(got) + 1])
        /\ UNCHANGED put

Next == Take \/ \E x \in Item : Put(x)

Spec == Init /\ [][Next]_<<put, got>>
=============================================================================
