---------------------------- MODULE ThreadOutbox ----------------------------
(***************************************************************************)
(* What the delivery spool promises Teams and Navigator, whatever          *)
(* processes share it: an accepted event is held, with its body, until     *)
(* Navigator has decided it; an event is forwarded, once or more, when     *)
(* every earlier one of its thread is decided.                             *)
(***************************************************************************)
EXTENDS Naturals, Sequences

CONSTANTS Deliveries, Bodies, ThreadOf

VARIABLES
  log,        \* the accepted events, in the order of acceptance
  held,       \* the numbers and bodies that may still be forwarded
  forwarded,  \* the numbers that went to Navigator
  decided     \* the numbers Navigator accepted or terminally refused

Init == log = << >> /\ held = {} /\ forwarded = {} /\ decided = {}

Accept(e) ==
  /\ log' = Append(log, e)
  /\ held' = held \cup {<<Len(log) + 1, e.body>>}
  /\ UNCHANGED <<forwarded, decided>>

Forward(n) ==
  /\ \A m \in 1..(n - 1) :
       ThreadOf[log[m].delivery_id] = ThreadOf[log[n].delivery_id] => m \in decided
  /\ forwarded' = forwarded \cup {n}
  /\ UNCHANGED <<log, held, decided>>

Decide(n) ==
  /\ n \in forwarded
  /\ decided' = decided \cup {n}
  /\ UNCHANGED <<log, held, forwarded>>

Forget(n) ==
  /\ n \in decided
  /\ held' = {h \in held : h[1] # n}
  /\ UNCHANGED <<log, forwarded, decided>>

Next ==
  \/ \E d \in Deliveries, b \in Bodies : Accept([delivery_id |-> d, body |-> b])
  \/ \E n \in 1..Len(log) : Forward(n) \/ Decide(n) \/ Forget(n)

Spec == Init /\ [][Next]_<<log, held, forwarded, decided>>
=============================================================================
