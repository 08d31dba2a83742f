----------------------------- MODULE BytePipes -----------------------------
(***************************************************************************)
(* What a tunnel promises of each direction of each stream: the receiver   *)
(* gets the sender's frames in order, without a gap and without a repeat.  *)
(* It may stop getting them at any time.                                   *)
(***************************************************************************)
EXTENDS Naturals, Sequences

CONSTANT Pipes

VARIABLES
  sent,  \* how many frames have been put into a pipe: frames 1..sent[p]
  got    \* the frames that have come out of it

Init ==
  /\ sent = [p \in Pipes |-> 0]
  /\ got  = [p \in Pipes |-> <<>>]

Put(p) == /\ sent' = [sent EXCEPT ![p] = @ + 1]
          /\ UNCHANGED got

Get(p) == /\ Len(got[p]) < sent[p]
          /\ got' = [got EXCEPT ![p] = Append(@, Len(@) + 1)]
          /\ UNCHANGED sent

Next == \E p \in Pipes : Put(p) \/ Get(p)

Spec == Init /\ [][Next]_<<sent, got>>
=============================================================================
