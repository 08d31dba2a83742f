--------------------------- MODULE TunnelChannels ---------------------------
(***************************************************************************)
(* What the Workspace relay, the Authority bridge and the connectors share: *)
(* bounded frame queues and connections.  A HalfClose frame is forwarded   *)
(* like data and stands under data; frames carry their number instead of   *)
(* bytes.  The queues between two processes include the transport.         *)
(*                                                                         *)
(* Source: runtime/rust/cyrene-workspace-relay, -frontend-bridge and       *)
(* sdk/rust/cyrene-workspace-client-sdk (open_relay_tunnel).               *)
(***************************************************************************)
EXTENDS Naturals, Sequences, FiniteSets

CONSTANTS
  MaxStream,    \* bound: streams ever opened, numbered in the order they are
  MaxSession,   \* bound: sessions of the bridge at the relay
  RelayCap,     \* FRAME_QUEUE_CAPACITY of the relay: up and inbox
  BridgeCap,    \* FRAME_QUEUE_CAPACITY of the bridge: down and tcpq
  MaxStreams,   \* MAX_ACTIVE_STREAMS
  MaxUp,        \* bound: data frames a connector sends on a stream
  MaxDown,      \* bound: data frames the Authority sends on a stream
  MaxFaults,    \* bound: connections that break, peers that leave or misbehave
  None

Sessions == 1..MaxSession
Streams  == 1..MaxStream
Pipes    == Streams \X {"up", "down"}

ASSUME TunnelAssumption ==
  /\ MaxSession \in Nat \ {0} /\ MaxStream \in Nat /\ MaxStreams \in Nat \ {0}
  /\ RelayCap \in Nat \ {0} /\ BridgeCap \in Nat \ {0}
  /\ MaxUp \in [Streams -> Nat] /\ MaxDown \in [Streams -> Nat] /\ MaxFaults \in Nat
  /\ None \notin Nat

VARIABLES
  up,      \* frames from the relay to the bridge, by session
  down,    \* frames from the bridge to the relay, by session
  inbox,   \* frames from the relay to the connector, by stream
  link,    \* the bridge's connection to the relay, by session
  client,  \* the connector's end of a stream
  sent,    \* frames a connector or the Authority has put into a stream
  got      \* frames the Authority or a connector has taken out of it

channelVars == <<up, down, inbox, link, client, sent, got>>

InitChannels ==
  /\ up     = [b \in Sessions |-> <<>>]
  /\ down   = [b \in Sessions |-> <<>>]
  /\ inbox  = [s \in Streams |-> <<>>]
  /\ link   = [b \in Sessions |-> "none"]
  /\ client = [s \in Streams |-> "none"]
  /\ sent   = [p \in Pipes |-> 0]
  /\ got    = [p \in Pipes |-> <<>>]

Frame(kind, s) == [kind |-> kind, s |-> s, n |-> 0]
Data(s, n)     == [kind |-> "data", s |-> s, n |-> n]
Terminal(f)    == f.kind \in {"closed", "error"}

\* Mutant: one frame more than the queue holds.
RoomForOneMore(q, cap) == Len(q) <= cap
Room(q, cap) == Len(q) < cap

TypeOKChannels ==
  /\ \A b \in Sessions : Len(up[b]) <= RelayCap /\ Len(down[b]) <= BridgeCap
  /\ \A s \in Streams : Len(inbox[s]) <= RelayCap
  /\ link \in [Sessions -> {"none", "up", "broken"}]
  /\ client \in [Streams -> {"none", "waiting", "up", "gone"}]
=============================================================================
