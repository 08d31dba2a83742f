-------------------------- MODULE TunnelRestProofs --------------------------
(***************************************************************************)
(* What is left when no task of the tunnel can go on, for any number of    *)
(* streams and sessions and any traffic: nobody waits for anybody, every   *)
(* connector of a broken session has been told, and nothing of a stream    *)
(* that has ended is left at the bridge.                                   *)
(***************************************************************************)
EXTENDS TunnelProofs

-----------------------------------------------------------------------------
(* The inductive invariant, on top of that of TunnelProofs. *)

(* A session that has not been torn down. *)
Standing(b) == demux[b].pc \in {"read", "send", "end"}

(* A session whose connection holds is the registered one and is served at both  *)
(* ends; one that is over at the bridge knows no stream.                         *)
SessionInvAt(b) ==
  /\ link[b] = "none" <=> demux[b].pc = "none"
  /\ link[b] = "none" <=> session[b].pc = "none"
  /\ link[b] = "up" => bridge = b /\ demux[b].pc \in {"read", "send"} /\ Alive(b)
  /\ bridge = b => Standing(b)
  /\ closed[b] => link[b] = "broken"
  /\ ~Alive(b) => known[b] = {}
  /\ demux[b].pc # "tear" => demux[b].todo = {}

SessionInv == \A b \in Sessions : SessionInvAt(b)

(* The streams that a teardown has still to tell, and those it may find. *)
InTodo(s) == \E b \in Sessions : s \in demux[b].todo
Held(s)   == s \in streams \/ InTodo(s)

(* Frames on their way down are those of announced streams, and of the session a *)
(* stream was opened through.                                                    *)
From(b, s) == serve[s].home = b /\ serve[s].pc \notin Unannounced

DownHomeAt(b) ==
  /\ \A i \in 1..Len(down[b]) : From(b, down[b][i].s)
  /\ demux[b].pc = "send" => From(b, demux[b].f.s)
  /\ session[b].pc = "refuse" =>
       /\ From(b, session[b].f.s) /\ owner[session[b].f.s] = None
       /\ \A i \in 1..Len(up[b]) : up[b][i].kind = "accepted" => up[b][i].s # session[b].f.s

DownHome == \A b \in Sessions : DownHomeAt(b)

(* What a stream's task and its connector know of each other. *)
PeerAt(s) ==
  /\ InTodo(s) => s \notin streams
  /\ serve[s].pc \in {"none", "insert"} => ~Held(s) /\ inbox[s] = <<>>
  /\ serve[s].pc = "send" => link[serve[s].via] # "none"
  /\ Opening(s) => client[s] = "waiting"
  /\ serve[s].pc = "cancelled" => client[s] = "gone"
  /\ client[s] = "waiting" /\ ~Opening(s) => inbox[s] # <<>>
  /\ client[s] \in {"waiting", "up"} /\ serve[s].pc \in {"accept", "opened", "read", "lookup", "send"} =>
       Held(s) \/ \E i \in 1..Len(inbox[s]) : Terminal(inbox[s][i])

PeerInv == \A s \in Streams : PeerAt(s)

(* The bridge may still send something down a stream that has sent it nothing. *)
Announced(b, s) == \E i \in 1..Len(up[b]) : up[b][i].kind = "accepted" /\ up[b][i].s = s
Refusing(b, s)  == session[b].pc = "refuse" /\ session[b].f.s = s
Producing(s) ==
  \/ Announced(serve[s].home, s) \/ Refusing(serve[s].home, s)
  \/ writer[s] \in {"connecting", "failing"} \/ reader[s] \in {"on", "last", "error"}

InDown(b, s) == \E i \in 1..Len(down[b]) : down[b][i].s = s
InHand(b, s) == demux[b].pc = "send" /\ demux[b].f.s = s
OnTheWay(s)  == InDown(serve[s].home, s) \/ InHand(serve[s].home, s)

(* There is one frame of the stream at most. *)
Once(q, s) == \A i, j \in 1..Len(q) : q[i].s = s /\ q[j].s = s => i = j

(* Before a connector is answered, the bridge sends it one frame at most and a *)
(* teardown another one.                                                       *)
OpeningAt(s) ==
  LET b == serve[s].home
      told == IF Held(s) THEN 0 ELSE 1 IN
  /\ serve[s].pc = "accept" => Len(inbox[s]) <= told
  /\ serve[s].pc = "opened" =>
       /\ reader[s] # "send"
       /\ Producing(s) => ~OnTheWay(s)
       /\ Producing(s) \/ OnTheWay(s) => Len(inbox[s]) <= told
       /\ InHand(b, s) => ~InDown(b, s)
       /\ Once(down[b], s)
       /\ Len(inbox[s]) <= told + 1

OpeningInv == \A s \in Streams : OpeningAt(s)

(* A stream that got into the map after the teardown of the session it was   *)
(* opened through: once it has sent something, another session is to fail.   *)
LateAt(s) ==
  s \in streams /\ demux[serve[s].home].pc \in {"tear", "done"} /\ sent[<<s, "up">>] > 0 =>
    \/ serve[s].pc \in {"lookup", "tell", "remove"}
    \/ serve[s].pc = "send" /\ Standing(serve[s].via)
    \/ \E b \in Sessions :
         Standing(b) /\ (link[b] = "broken" \/ \E i \in 1..Len(up[b]) : IsData(up[b][i], s))

LateInv == \A s \in Streams : LateAt(s)

(* A stream that has ended at the relay and not at the bridge: the frame that ends *)
(* it there is on its way, behind the announcement.                                *)
Ending(b, s) ==
  \/ session[b].pc = "send" /\ session[b].f.s = s /\ Terminal(session[b].f)
  \/ \E i \in 1..Len(up[b]) :
       /\ up[b][i].s = s /\ Terminal(up[b][i])
       /\ \A j \in 1..Len(up[b]) : up[b][j].kind = "accepted" /\ up[b][j].s = s => j < i

EndAt(s) ==
  LET b == serve[s].home IN
  serve[s].pc \in {"done", "remove", "tell"} /\ link[b] = "up" /\ (s \in known[b] \/ Announced(b, s)) =>
    Ending(b, s)

EndInv == \A s \in Streams : EndAt(s)

RInv == SessionInv /\ DownHome /\ PeerInv /\ OpeningInv /\ LateInv /\ EndInv

-----------------------------------------------------------------------------
(* What a state at rest looks like. *)

Caps == RelayCap >= 3

(* The queue of a connector that is there has room: either it is read, or it *)
(* has at most the two frames that may come before the answer.               *)
LEMMA InboxHasRoom ==
  ASSUME IInv, RInv, AtRest, Caps, NEW s \in Streams, client[s] # "none"
  PROVE  ~InboxFull(s)
<1> SUFFICES ASSUME client[s] # "gone" PROVE Room(inbox[s], RelayCap)
  BY DEF InboxFull
<1>1. inbox[s] \in Seq(Frames) /\ client[s] \in {"waiting", "up"} /\ RelayCap \in Nat
  BY TunnelAssumption DEF IInv, Shapes, ShapesOfChannels
<1>2. CASE ~Opening(s)
  <2>1. inbox[s] = <<>>
    BY <1>1, <1>2 DEF AtRest, ConnectorRests
  <2> QED
    BY <1>1, <2>1 DEF Room, Caps
<1>3. CASE Opening(s)
  <2>1. Len(inbox[s]) <= 2
    <3>1. OpeningAt(s) /\ (serve[s].pc = "insert" => inbox[s] = <<>>)
      BY DEF RInv, OpeningInv, PeerInv, PeerAt
    <3>2. \A n \in Nat, m \in {0, 1} : n <= m + 1 \/ n <= m => n <= 2
      OBVIOUS
    <3> QED
      BY <1>1, <1>3, <3>1, <3>2 DEF OpeningAt, Opening
  <2> QED
    BY <1>1, <2>1 DEF Room, Caps
<1> QED
  BY <1>2, <1>3

(* So no task of the relay waits for a connector, nor any for the mutex. *)
LEMMA NobodyTears ==
  ASSUME IInv, RInv, AtRest, Caps
  PROVE  /\ lock = None
         /\ \A b \in Sessions : demux[b].pc \in {"none", "read", "done"}
<1>1. \A s \in Streams : serve[s].pc # "none" => ~InboxFull(s)
  BY InboxHasRoom DEF IInv, HandInv
<1>2. ASSUME NEW b \in Sessions PROVE demux[b].pc # "send"
  <2> SUFFICES ASSUME demux[b].pc = "send" PROVE FALSE
    OBVIOUS
  <2>1. demux[b].f \in Frames
    BY DEF IInv, HandInv
  <2>2. demux[b].f.s \in Streams
    BY <2>1 DEF Frames
  <2>3. serve[demux[b].f.s].pc # "none"
    BY DEF RInv, DownHome, DownHomeAt, From, Unannounced
  <2> QED
    BY <1>1, <2>2, <2>3 DEF AtRest, RelaySessionRests
<1>3. ASSUME NEW b \in Sessions PROVE demux[b].pc # "tear"
  <2> SUFFICES ASSUME demux[b].pc = "tear" PROVE FALSE
    OBVIOUS
  <2>1. demux[b].todo \in SUBSET Streams /\ demux[b].todo # {}
    BY DEF IInv, Shapes, ShapesOfRelay, Demuxes, AtRest, RelaySessionRests
  <2>2. PICK s \in Streams : s \in demux[b].todo
    BY <2>1
  <2>3. serve[s].pc # "none"
    BY <2>2 DEF RInv, PeerInv, PeerAt, Held, InTodo
  <2> QED
    BY <1>1, <2>2, <2>3 DEF AtRest, RelaySessionRests
<1>4. lock = None
  BY <1>3 DEF IInv, LockInv, Shapes, ShapesOfRelay
<1>5. \A b \in Sessions : demux[b].pc # "end"
  BY <1>4 DEF AtRest, RelaySessionRests
<1>6. \A b \in Sessions : demux[b].pc \in {"none", "read", "send", "end", "tear", "done"}
  BY DEF IInv, Shapes, ShapesOfRelay, Demuxes
<1> QED
  BY <1>2, <1>3, <1>4, <1>5, <1>6

(* A session whose connection holds has passed on everything, in both directions. *)
LEMMA NothingQueued ==
  ASSUME IInv, RInv, AtRest, Caps, NEW b \in Sessions, link[b] = "up"
  PROVE  /\ ~DownFull(b) /\ up[b] = <<>> /\ session[b].pc = "read" /\ ~closed[b]
<1>1. BridgeCap \in Nat \ {0}
  BY TunnelAssumption
<1>2. \A a \in Sessions : link[a] = "up" => ~DownFull(a)
  <2> SUFFICES ASSUME NEW a \in Sessions, link[a] = "up" PROVE ~DownFull(a)
    OBVIOUS
  <2>1. demux[a].pc = "read"
    BY NobodyTears DEF RInv, SessionInv, SessionInvAt
  <2>2. down[a] = <<>>
    BY <2>1 DEF AtRest, RelaySessionRests
  <2> QED
    BY <1>1, <2>2 DEF DownFull, Room
<1>3. session[b].pc \in {"read", "send", "refuse"}
  BY DEF RInv, SessionInv, SessionInvAt, Alive
<1>4. session[b].pc # "refuse"
  BY <1>2 DEF AtRest, BridgeSessionRests
<1>5. session[b].pc # "send"
  <2> SUFFICES ASSUME session[b].pc = "send" PROVE FALSE
    OBVIOUS
  <2> DEFINE s == session[b].f.s
  <2>1. session[b].f \in Frames /\ owner[s] = b
    BY DEF IInv, HandInv, OwnerInv, Holds
  <2>2. s \in Streams
    BY <2>1 DEF Frames
  <2>3. tcpq[s] # <<>> /\ writer[s] # "done"
    BY <1>1 DEF AtRest, BridgeSessionRests, Room
  <2> HIDE DEF s
  <2>4. writer[s] \in {"none", "connecting", "on", "failing", "done"}
    BY <2>2 DEF IInv, Shapes, ShapesOfBridge
  <2>5. b # None
    BY TunnelAssumption DEF Sessions
  <2>6. writer[s] # "none"
    BY <2>1, <2>2, <2>5 DEF IInv, OwnerInv, Owned
  <2>7. writer[s] \notin {"connecting", "failing", "on"}
    BY <1>2, <2>1, <2>2, <2>3 DEF AtRest, BridgeStreamRests
  <2> QED
    BY <2>3, <2>4, <2>6, <2>7
<1>6. up[b] = <<>>
  BY <1>3, <1>4, <1>5 DEF AtRest, BridgeSessionRests
<1> QED
  BY <1>2, <1>3, <1>4, <1>5, <1>6 DEF RInv, SessionInv, SessionInvAt

(* Every task of a stream has ended or waits for its connector. *)
LEMMA TasksWait ==
  ASSUME IInv, RInv, AtRest, Caps, NEW s \in Streams
  PROVE  serve[s].pc \in {"none", "read", "done", "cancelled"}
<1>1. \A b \in Sessions : link[b] # "none" => ~UpFull(b)
  <2> SUFFICES ASSUME NEW b \in Sessions, link[b] # "none", ~closed[b] PROVE Room(up[b], RelayCap)
    BY DEF UpFull
  <2>1. link[b] = "up"
    BY DEF AtRest, RelaySessionRests, IInv, Shapes, ShapesOfChannels
  <2>2. up[b] = <<>>
    BY <2>1, NothingQueued
  <2> QED
    BY <2>2, TunnelAssumption DEF Room
<1>2. serve[s].pc \in ServePCs /\ serve[s].home \in Sessions \cup {None}
  BY DEF IInv, Shapes, ShapesOfRelay, Serves
<1>3. serve[s].pc # "none" => serve[s].home \in Sessions /\ link[serve[s].home] # "none" /\ client[s] # "none"
  BY <1>2 DEF IInv, HandInv, LinkInv
<1>4. serve[s].pc # "accept"
  BY <1>1, <1>3 DEF AtRest, RelayStreamRests
<1>5. serve[s].pc # "send"
  <2>1. serve[s].pc = "send" => serve[s].via \in Sessions /\ link[serve[s].via] # "none"
    BY DEF IInv, HandInv, RInv, PeerInv, PeerAt
  <2> QED
    BY <1>1, <2>1 DEF AtRest, RelayStreamRests
<1>6. serve[s].pc # "lookup"
  BY NobodyTears DEF AtRest, RelayStreamRests
<1>7. serve[s].pc # "opened"
  <2>1. serve[s].pc = "opened" => client[s] = "waiting"
    BY DEF RInv, PeerInv, PeerAt, Opening
  <2> QED
    BY <1>3, <2>1, InboxHasRoom DEF AtRest, RelayStreamRests, InboxFull
<1>8. serve[s].pc # "tell"
  BY <1>3, InboxHasRoom DEF AtRest, RelayStreamRests
<1>9. serve[s].pc \notin {"insert", "remove"}
  BY DEF AtRest, RelayStreamRests
<1> QED
  BY <1>2, <1>4, <1>5, <1>6, <1>7, <1>8, <1>9 DEF ServePCs

(* A connector that waits for a session that broke would be one the teardown   *)
(* did not find, and whose own frames had not yet ended another session.       *)
LEMMA ConnectorsTold ==
  ASSUME IInv, RInv, AtRest, Caps, \A r \in Streams : MaxUp[r] >= 1,
         NEW s \in Streams, serve[s].home # None, link[serve[s].home] = "broken"
  PROVE  client[s] = "gone"
<1> DEFINE b == serve[s].home
<1>1. b \in Sessions /\ serve[s].pc # "none" /\ client[s] \in {"waiting", "up", "gone"}
  <2>1. b \in Sessions \cup {None} /\ client[s] \in {"none", "waiting", "up", "gone"}
    BY DEF IInv, Shapes, ShapesOfChannels, ShapesOfRelay, Serves
  <2>2. serve[s].pc # "none" /\ client[s] # "none"
    BY DEF IInv, HandInv
  <2> QED
    BY <2>1, <2>2
<1> SUFFICES ASSUME client[s] \in {"waiting", "up"} PROVE FALSE
  BY <1>1
<1>2. serve[s].pc \in {"read", "done"}
  BY <1>1, TasksWait DEF RInv, PeerInv, PeerAt
<1>3. inbox[s] = <<>>
  BY <1>2 DEF AtRest, ConnectorRests, Opening
<1>4. \A a \in Sessions : demux[a].pc \in {"none", "read", "done"} /\ demux[a].todo = {}
  BY NobodyTears DEF RInv, SessionInv, SessionInvAt
<1>5. \A a \in Sessions : s \notin demux[a].todo /\ (demux[a].pc = "send" => demux[a].f.s # s)
  BY <1>4
<1>6. serve[s].pc = "read"
  <2> SUFFICES ASSUME serve[s].pc = "done" PROVE FALSE
    BY <1>2
  <2>1. s \notin streams
    BY DEF IInv, PlaceInv
  <2>2. NoSender(s)
    BY <1>5, <2>1 DEF NoSender
  <2> QED
    BY <1>3, <2>2 DEF AtRest, ConnectorRests
<1>7. client[s] = "up"
  BY <1>3, <1>6 DEF RInv, PeerInv, PeerAt, Opening
<1>8. sent[<<s, "up">>] > 0
  <2>1. sent[<<s, "up">>] >= MaxUp[s] /\ MaxUp[s] >= 1
    BY <1>6, <1>7 DEF AtRest, RelayStreamRests
  <2>2. sent[<<s, "up">>] \in Nat /\ MaxUp[s] \in Nat
    BY PipeTypes, TunnelAssumption DEF IInv, Shapes, ShapesOfChannels, Pipes
  <2> QED
    BY <2>1, <2>2
<1>9. s \in streams
  <2>1. Len(inbox[s]) = 0
    BY <1>3
  <2>2. ~ \E i \in 1..Len(inbox[s]) : Terminal(inbox[s][i])
    BY <2>1
  <2> QED
    BY <1>6, <1>7, <1>5, <2>2 DEF RInv, PeerInv, PeerAt, Held, InTodo
<1>10. demux[b].pc = "done"
  <2>1. demux[b].pc # "none" /\ demux[b].pc # "read"
    BY <1>1 DEF RInv, SessionInv, SessionInvAt, AtRest, RelaySessionRests
  <2> QED
    BY <1>1, <1>4, <2>1
<1>11. PICK a \in Sessions : Standing(a) /\ (link[a] = "broken" \/ \E i \in 1..Len(up[a]) : IsData(up[a][i], s))
  BY <1>6, <1>8, <1>9, <1>10 DEF RInv, LateInv, LateAt
<1>12. demux[a].pc = "read" /\ link[a] # "broken" /\ link[a] # "none"
  BY <1>4, <1>11 DEF Standing, AtRest, RelaySessionRests, RInv, SessionInv, SessionInvAt
<1>13. link[a] = "up"
  BY <1>12 DEF IInv, Shapes, ShapesOfChannels
<1>14. up[a] = <<>>
  BY <1>13, NothingQueued
<1> QED
  BY <1>11, <1>12, <1>14

(* At rest the cut of a session has been noticed by all it concerns. *)
LEMMA RestAfterCut ==
  ASSUME IInv, RInv, Caps, \A r \in Streams : MaxUp[r] >= 1
  PROVE  CutIsNoticed
<1> SUFFICES ASSUME AtRest
             PROVE  /\ lock = None
                    /\ \A b \in Sessions : link[b] = "broken" => demux[b].pc = "done"
                    /\ \A s \in Streams :
                         serve[s].home # None /\ link[serve[s].home] = "broken" => client[s] = "gone"
  BY DEF CutIsNoticed
<1>1. ASSUME NEW b \in Sessions, link[b] = "broken" PROVE demux[b].pc = "done"
  <2>1. demux[b].pc # "none" /\ demux[b].pc # "read"
    BY <1>1 DEF RInv, SessionInv, SessionInvAt, AtRest, RelaySessionRests
  <2> QED
    BY <2>1, NobodyTears
<1> QED
  BY <1>1, NobodyTears, ConnectorsTold

(* At rest the bridge has nothing left of a stream that has ended at the relay. *)
LEMMA RestAtBridge ==
  ASSUME IInv, RInv, Caps
  PROVE  BridgeForgets
<1> SUFFICES ASSUME AtRest, NEW s \in Streams, serve[s].pc = "done"
             PROVE  /\ \A b \in Sessions : s \notin known[b]
                    /\ writer[s] \in {"none", "done"} /\ reader[s] \in {"none", "done"}
  BY DEF BridgeForgets
<1>1. ASSUME NEW b \in Sessions, s \in known[b] PROVE FALSE
  <2>1. serve[s].home = b
    <3>1. owner[s] = b /\ b # None
      BY <1>1, TunnelAssumption DEF IInv, OwnerInv, Holds, Sessions
    <3> QED
      BY <3>1 DEF IInv, OwnerInv, Owned
  <2>2. link[b] \in {"none", "up", "broken"} /\ session[b].pc \in LoopPCs
    BY DEF IInv, Shapes, ShapesOfChannels, ShapesOfBridge, Loops, LoopPCs
  <2>3. Alive(b)
    BY <1>1 DEF RInv, SessionInv, SessionInvAt
  <2>4. link[b] # "none"
    BY <2>3 DEF RInv, SessionInv, SessionInvAt, Alive
  <2>5. link[b] # "broken"
    <3> SUFFICES ASSUME link[b] = "broken" PROVE FALSE
      OBVIOUS
    <3>1. session[b].pc = "send"
      BY <2>3 DEF AtRest, BridgeSessionRests, DownFull, Alive
    <3> DEFINE r == session[b].f.s
    <3>2. session[b].f \in Frames /\ owner[r] = b /\ b # None
      BY <3>1, TunnelAssumption DEF IInv, HandInv, OwnerInv, Holds, Sessions
    <3>3. r \in Streams
      BY <3>2 DEF Frames
    <3>4. tcpq[r] # <<>> /\ writer[r] # "done"
      BY <3>1, TunnelAssumption DEF AtRest, BridgeSessionRests, Room
    <3> HIDE DEF r
    <3>5. writer[r] \in {"none", "connecting", "on", "failing", "done"}
      BY <3>3 DEF IInv, Shapes, ShapesOfBridge
    <3>6. writer[r] # "none"
      BY <3>2, <3>3 DEF IInv, OwnerInv, Owned
    <3>7. writer[r] \notin {"connecting", "failing", "on"}
      BY <3>2, <3>3, <3>4 DEF AtRest, BridgeStreamRests, DownFull
    <3> QED
      BY <3>4, <3>5, <3>6, <3>7
  <2>6. link[b] = "up" /\ up[b] = <<>> /\ session[b].pc = "read"
    BY <2>2, <2>4, <2>5, NothingQueued
  <2>7. Ending(b, s)
    BY <1>1, <2>1, <2>6 DEF RInv, EndInv, EndAt
  <2> QED
    BY <2>6, <2>7 DEF Ending
<1>2. /\ writer[s] \in {"none", "connecting", "on", "failing", "done"}
      /\ reader[s] \in {"none", "on", "send", "last", "error", "done"}
      /\ owner[s] \in Sessions \cup {None}
  BY DEF IInv, Shapes, ShapesOfBridge
<1>3. writer[s] # "none" => owner[s] \in Sessions
  BY <1>2 DEF IInv, OwnerInv, Owned
<1>4. \A b \in Sessions : link[b] = "up" => ~DownFull(b)
  BY NothingQueued
<1>5. ASSUME NEW b \in Sessions, link[b] = "none", owner[s] = b PROVE FALSE
  <2>1. b # None
    BY TunnelAssumption DEF Sessions
  <2>2. serve[s].home = b
    BY <1>5, <2>1 DEF IInv, OwnerInv, Owned
  <2> QED
    BY <1>5, <2>1, <2>2 DEF IInv, LinkInv
<1>6. writer[s] # "none" => ~DownFull(owner[s])
  BY <1>3, <1>4, <1>5 DEF IInv, Shapes, ShapesOfChannels, DownFull
<1>7. writer[s] \in {"none", "on", "done"}
  BY <1>2, <1>6 DEF AtRest, BridgeStreamRests
<1>8. writer[s] # "on"
  <2> SUFFICES ASSUME writer[s] = "on" PROVE FALSE
    OBVIOUS
  <2> DEFINE b == owner[s]
  <2>1. b \in Sessions /\ session[b].pc = "send" /\ session[b].f.s = s
    BY <1>1, <1>3 DEF AtRest, BridgeStreamRests
  <2>2. tcpq[s] = <<>>
    BY DEF AtRest, BridgeStreamRests
  <2>3. ~Room(tcpq[s], BridgeCap)
    BY <2>1 DEF AtRest, BridgeSessionRests
  <2> QED
    BY <2>2, <2>3, TunnelAssumption DEF Room
<1>9. reader[s] # "none" => writer[s] # "none"
  BY DEF IInv, OwnerInv, Owned
<1>10. reader[s] \notin {"send", "last", "error"}
  BY <1>6, <1>9 DEF AtRest, BridgeStreamRests
<1>11. reader[s] # "on"
  BY <1>7, <1>8, <1>9 DEF AtRest, BridgeStreamRests
<1> QED
  BY <1>1, <1>2, <1>7, <1>8, <1>10, <1>11

-----------------------------------------------------------------------------
(* Steps that leave a part of the invariant alone. *)

(* A queue as it was, without its first frame, or cleared. *)
Shorter(r, q) == r = q \/ r = <<>> \/ (q # <<>> /\ r = Tail(q))

(* A queue with no more frames of stream s. *)
Fewer(r, q, s) ==
  /\ (\E i \in 1..Len(r) : r[i].s = s) => \E i \in 1..Len(q) : q[i].s = s
  /\ Once(q, s) => Once(r, s)

(* Every frame of such a queue was there, and there is none twice. *)
LEMMA ShorterFrames ==
  ASSUME NEW q \in Seq(Frames), NEW r, Shorter(r, q)
  PROVE  /\ \A i \in 1..Len(r) : \E j \in 1..Len(q) : r[i] = q[j]
         /\ \A s \in Streams : Fewer(r, q, s)
<1>1. CASE r = q
  BY <1>1 DEF Fewer
<1>2. CASE r = <<>>
  BY <1>2 DEF Fewer, Once
<1>3. CASE q # <<>> /\ r = Tail(q)
  <2>1. \A i \in 1..Len(r) : i \in Nat /\ i + 1 \in 1..Len(q) /\ r[i] = q[i + 1]
    BY <1>3, QueueTail
  <2>2. \A i, j \in Nat : i + 1 = j + 1 => i = j
    OBVIOUS
  <2>3. ASSUME NEW s \in Streams, Once(q, s),
               NEW i \in 1..Len(r), NEW j \in 1..Len(r), r[i].s = s, r[j].s = s
        PROVE  i = j
    <3>1. i + 1 \in 1..Len(q) /\ j + 1 \in 1..Len(q) /\ q[i + 1].s = s /\ q[j + 1].s = s
      BY <2>1, <2>3
    <3>2. i + 1 = j + 1
      BY <2>3, <3>1 DEF Once
    <3> QED
      BY <2>1, <2>2, <3>2
  <2> QED
    BY <2>1, <2>3 DEF Fewer, Once
<1> QED
  BY <1>1, <1>2, <1>3 DEF Shorter

(* A frame of another stream does not count. *)
LEMMA FewerAppend ==
  ASSUME NEW q \in Seq(Frames), NEW f \in Frames, NEW s \in Streams, f.s # s
  PROVE  Fewer(Append(q, f), q, s)
<1> DEFINE r == Append(q, f)
<1>1. /\ Len(q) \in Nat /\ Len(r) = Len(q) + 1 /\ r[Len(q) + 1] = f
      /\ \A i \in 1..Len(q) : r[i] = q[i]
  BY QueueAppend
<1> HIDE DEF r
<1>2. \A i \in 1..Len(r) : i \in 1..Len(q) \/ i = Len(q) + 1
  BY <1>1
<1>3. \A i \in 1..Len(r) : r[i].s = s => i \in 1..Len(q) /\ q[i].s = s
  BY <1>1, <1>2
<1>4. Fewer(r, q, s)
  BY <1>3 DEF Fewer, Once
<1> QED
  BY <1>4 DEF r

(* What each part of the invariant says of queues alone. *)
LEMMA QueueTypes ==
  ASSUME IInv, NEW b \in Sessions
  PROVE  /\ down[b] \in Seq(Frames) /\ up[b] \in Seq(Frames)
         /\ \A i \in 1..Len(down[b]) : down[b][i] \in Frames /\ down[b][i].s \in Streams
         /\ \A i \in 1..Len(up[b]) : up[b][i] \in Frames /\ up[b][i].s \in Streams
         /\ demux[b].pc = "send" => demux[b].f.s \in Streams
         /\ session[b].pc \in {"send", "refuse"} => session[b].f.s \in Streams
         /\ b # None
<1>1. \A f \in Frames : f.s \in Streams
  BY DEF Frames
<1>2. down[b] \in Seq(Frames) /\ up[b] \in Seq(Frames) /\ b # None
  BY TunnelAssumption DEF IInv, Shapes, ShapesOfChannels, Sessions
<1>3. /\ \A i \in 1..Len(down[b]) : down[b][i] \in Frames
      /\ \A i \in 1..Len(up[b]) : up[b][i] \in Frames
  BY <1>2
<1>4. /\ demux[b].pc = "send" => demux[b].f \in Frames
      /\ session[b].pc \in {"send", "refuse"} => session[b].f \in Frames
  BY DEF IInv, HandInv
<1> QED
  BY <1>1, <1>2, <1>3, <1>4

(* The session a stream was opened through. *)
LEMMA HomeOf ==
  ASSUME IInv, NEW s \in Streams, serve[s].pc # "none"
  PROVE  serve[s].home \in Sessions /\ link[serve[s].home] \in {"up", "broken"} /\ client[s] # "none"
<1>1. serve[s] \in Serves
  BY DEF IInv, Shapes, ShapesOfRelay
<1>2. serve[s].home \in Sessions /\ client[s] # "none"
  BY <1>1 DEF IInv, HandInv, Serves
<1>3. serve[s].home # None
  BY <1>2, TunnelAssumption DEF Sessions
<1>4. link[serve[s].home] # "none"
  BY <1>3 DEF IInv, LinkInv
<1> QED
  BY <1>2, <1>4 DEF IInv, Shapes, ShapesOfChannels

(* The tasks of sessions go on without beginning or ending. *)
SessionSteady ==
  /\ UNCHANGED <<link, bridge, closed>>
  /\ \A b \in Sessions :
       /\ demux'[b].todo = demux[b].todo
       /\ demux'[b].pc = demux[b].pc \/ {demux'[b].pc, demux[b].pc} \subseteq {"read", "send"}
       /\ session'[b].pc = session[b].pc \/ (Alive(b) /\ Alive(b)')
       /\ known'[b] \subseteq known[b] \/ Alive(b)'

(* Such steps keep a session in order. *)
LEMMA SessionIdle ==
  ASSUME SessionInv, SessionSteady
  PROVE  SessionInv'
<1> SUFFICES ASSUME NEW b \in Sessions PROVE SessionInvAt(b)'
  BY DEF SessionInv
<1>1. SessionInvAt(b)
  BY DEF SessionInv
<1>2. /\ demux'[b].todo = demux[b].todo
      /\ demux'[b].pc = demux[b].pc \/ {demux'[b].pc, demux[b].pc} \subseteq {"read", "send"}
      /\ session'[b].pc = session[b].pc \/ (Alive(b) /\ Alive(b)')
      /\ known'[b] \subseteq known[b] \/ Alive(b)'
      /\ link'[b] = link[b] /\ bridge' = bridge /\ closed'[b] = closed[b]
  BY DEF SessionSteady
<1>3. /\ demux'[b].pc = "none" <=> demux[b].pc = "none"
      /\ demux'[b].pc \in {"read", "send"} <=> demux[b].pc \in {"read", "send"}
      /\ demux'[b].pc # "tear" <=> demux[b].pc # "tear"
      /\ Standing(b)' <=> Standing(b)
  BY <1>2 DEF Standing
<1>4. /\ session'[b].pc = "none" <=> session[b].pc = "none"
      /\ Alive(b)' <=> Alive(b)
  BY <1>2 DEF Alive
<1>5. ~Alive(b)' => known'[b] = {}
  BY <1>1, <1>2, <1>4 DEF SessionInvAt
<1> QED
  BY <1>1, <1>2, <1>3, <1>4, <1>5 DEF SessionInvAt

(* A stream that was announced stays so. *)
Goes(b, s) == serve'[s].home = b /\ serve'[s].pc \notin Unannounced
GoesOn     == \A b \in Sessions, s \in Streams : From(b, s) => Goes(b, s)

(* Steps that put nothing on the way down. *)
DownSteadyAt(b) ==
  /\ Shorter(down'[b], down[b])
  /\ demux'[b].pc = "send" => demux[b].pc = "send" /\ demux'[b].f = demux[b].f
  /\ session'[b].pc = "refuse" =>
       /\ session[b].pc = "refuse" /\ session'[b].f = session[b].f
       /\ owner'[session[b].f.s] = owner[session[b].f.s] /\ Shorter(up'[b], up[b])

(* They leave what is on the way down in order. *)
LEMMA DownIdleAt ==
  ASSUME IInv, NEW b \in Sessions, DownHomeAt(b), GoesOn, DownSteadyAt(b)
  PROVE  DownHomeAt(b)'
<1>1. /\ down[b] \in Seq(Frames) /\ up[b] \in Seq(Frames)
      /\ \A i \in 1..Len(down[b]) : down[b][i].s \in Streams
      /\ demux[b].pc = "send" => demux[b].f.s \in Streams
      /\ session[b].pc \in {"send", "refuse"} => session[b].f.s \in Streams
  BY QueueTypes
<1>2. ASSUME NEW i \in 1..Len(down'[b]) PROVE Goes(b, down'[b][i].s)
  <2>0. Shorter(down'[b], down[b])
    BY DEF DownSteadyAt
  <2>1. PICK j \in 1..Len(down[b]) : down'[b][i] = down[b][j]
    BY <1>1, <2>0, ShorterFrames
  <2>2. From(b, down[b][j].s) /\ down[b][j].s \in Streams
    BY <1>1 DEF DownHomeAt
  <2> QED
    BY <2>1, <2>2 DEF GoesOn
<1>3. ASSUME demux'[b].pc = "send" PROVE Goes(b, demux'[b].f.s)
  <2>1. demux'[b].f = demux[b].f /\ demux[b].f.s \in Streams /\ From(b, demux[b].f.s)
    BY <1>1, <1>3 DEF DownSteadyAt, DownHomeAt
  <2> QED
    BY <2>1 DEF GoesOn
<1>4. ASSUME session'[b].pc = "refuse"
      PROVE  /\ Goes(b, session'[b].f.s) /\ owner'[session'[b].f.s] = None
             /\ \A i \in 1..Len(up'[b]) : up'[b][i].kind = "accepted" => up'[b][i].s # session'[b].f.s
  <2>1. /\ session'[b].f = session[b].f /\ session[b].f.s \in Streams /\ From(b, session[b].f.s)
        /\ owner'[session[b].f.s] = None
        /\ \A i \in 1..Len(up[b]) : up[b][i].kind = "accepted" => up[b][i].s # session[b].f.s
    BY <1>1, <1>4 DEF DownSteadyAt, DownHomeAt
  <2>2. \A i \in 1..Len(up'[b]) : \E j \in 1..Len(up[b]) : up'[b][i] = up[b][j]
    BY <1>1, <1>4, ShorterFrames DEF DownSteadyAt
  <2>3. Goes(b, session[b].f.s)
    BY <2>1 DEF GoesOn
  <2> QED
    BY <2>1, <2>2, <2>3
<1> QED
  BY <1>2, <1>3, <1>4 DEF DownHomeAt, From, Goes

(* A step that is not about a stream, its connector and its place. *)
PeerSteady(s) ==
  /\ serve'[s].pc = serve[s].pc /\ serve'[s].via = serve[s].via
  /\ client'[s] = client[s] /\ inbox'[s] = inbox[s]
  /\ s \in streams' <=> s \in streams
  /\ InTodo(s)' <=> InTodo(s)
  /\ \A b \in Sessions : link'[b] = "none" => link[b] = "none"

(* It leaves what they know of each other. *)
LEMMA PeerIdle ==
  ASSUME IInv, NEW s \in Streams, PeerAt(s), PeerSteady(s)
  PROVE  PeerAt(s)'
<1>1. serve[s].pc = "send" => serve[s].via \in Sessions
  BY DEF IInv, HandInv
<1>2. serve'[s].pc = "send" => link'[serve'[s].via] # "none"
  BY <1>1 DEF PeerAt, PeerSteady
<1>3. (Held(s)' <=> Held(s)) /\ (Opening(s)' <=> Opening(s))
  BY DEF Held, PeerSteady, Opening
<1> QED
  BY <1>2, <1>3 DEF PeerAt, PeerSteady

(* A step that brings a stream nothing before its connector is answered. *)
OpeningSteady(s) ==
  LET b == serve[s].home IN
  serve'[s].pc \in {"accept", "opened"} =>
    /\ serve'[s].pc = serve[s].pc /\ serve'[s].home = serve[s].home
    /\ inbox'[s] = inbox[s]
    /\ Held(s)' => Held(s)
    /\ serve[s].pc = "opened" =>
         /\ reader'[s] = "send" => reader[s] = "send"
         /\ Producing(s)' => Producing(s)
         /\ demux'[b].pc = "send" /\ demux'[b].f.s = s => InHand(b, s)
         /\ Fewer(down'[b], down[b], s)

(* It leaves what such a stream may still be brought. *)
LEMMA OpeningIdle ==
  ASSUME IInv, NEW s \in Streams, OpeningAt(s), OpeningSteady(s)
  PROVE  OpeningAt(s)'
<1> DEFINE b == serve[s].home
<1> DEFINE told == IF Held(s) THEN 0 ELSE 1
<1> DEFINE toldNext == IF Held(s)' THEN 0 ELSE 1
<1>1. inbox[s] \in Seq(Frames) /\ Len(inbox[s]) \in Nat /\ serve[s] \in Serves
  BY DEF IInv, Shapes, ShapesOfChannels, ShapesOfRelay
<1>2. ASSUME serve'[s].pc = "accept" PROVE Len(inbox'[s]) <= toldNext
  <2>1. serve[s].pc = "accept" /\ inbox'[s] = inbox[s] /\ (Held(s)' => Held(s))
    BY <1>2 DEF OpeningSteady
  <2>2. Len(inbox[s]) <= told
    BY <2>1 DEF OpeningAt
  <2> QED
    BY <1>1, <2>1, <2>2
<1>3. ASSUME serve'[s].pc = "opened"
      PROVE  /\ reader'[s] # "send"
             /\ Producing(s)' => ~OnTheWay(s)'
             /\ Producing(s)' \/ OnTheWay(s)' => Len(inbox'[s]) <= toldNext
             /\ InHand(b, s)' => ~InDown(b, s)'
             /\ Once(down'[b], s)
             /\ Len(inbox'[s]) <= toldNext + 1
  <2>1. /\ serve[s].pc = "opened" /\ serve'[s].home = b
        /\ inbox'[s] = inbox[s] /\ (Held(s)' => Held(s))
        /\ reader'[s] = "send" => reader[s] = "send"
        /\ Producing(s)' => Producing(s)
        /\ demux'[b].pc = "send" /\ demux'[b].f.s = s => InHand(b, s)
        /\ Fewer(down'[b], down[b], s)
    BY <1>3 DEF OpeningSteady
  <2>2. /\ reader[s] # "send"
        /\ Producing(s) => ~OnTheWay(s)
        /\ Producing(s) \/ OnTheWay(s) => Len(inbox[s]) <= told
        /\ InHand(b, s) => ~InDown(b, s)
        /\ Once(down[b], s)
        /\ Len(inbox[s]) <= told + 1
    BY <2>1 DEF OpeningAt
  <2>6. Once(down'[b], s)
    BY <2>1, <2>2 DEF Fewer
  <2>7. (\E i \in 1..Len(down'[b]) : down'[b][i].s = s) => InDown(b, s)
    BY <2>1 DEF InDown, Fewer
  <2>8. (InDown(b, s)' => InDown(b, s)) /\ (InHand(b, s)' => InHand(b, s))
    BY <2>1, <2>7 DEF InDown, InHand
  <2>9. OnTheWay(s)' => OnTheWay(s)
    BY <2>1, <2>7 DEF OnTheWay, InDown, InHand
  <2>10. told <= toldNext
    BY <2>1
  <2> HIDE DEF told, toldNext
  <2>11. told \in Nat /\ toldNext \in Nat
    BY DEF told, toldNext
  <2>12. (Len(inbox[s]) <= told => Len(inbox[s]) <= toldNext) /\ Len(inbox[s]) <= toldNext + 1
    BY <1>1, <2>2, <2>10, <2>11
  <2> QED
    BY <2>1, <2>2, <2>6, <2>8, <2>9, <2>12
<1>4. serve'[s].pc \in {"accept", "opened"} => serve'[s].home = b
  BY DEF OpeningSteady
<1> QED
  BY <1>2, <1>3, <1>4 DEF OpeningAt, Once

(* A step that is not about a stream's task, and ends no session of the relay. *)
LateSteady(s) ==
  /\ s \in streams' => s \in streams
  /\ serve'[s] = serve[s] /\ sent'[<<s, "up">>] = sent[<<s, "up">>]
  /\ \A b \in Sessions :
       /\ demux'[b].pc \in {"tear", "done"} => demux[b].pc \in {"tear", "done"}
       /\ Standing(b) =>
            /\ Standing(b)'
            /\ link[b] = "broken" => link'[b] = "broken"
            /\ (\E i \in 1..Len(up[b]) : IsData(up[b][i], s)) =>
                 link'[b] = "broken" \/ \E i \in 1..Len(up'[b]) : IsData(up'[b][i], s)

(* It leaves what is to come of a stream that was late. *)
LEMMA LateIdle ==
  ASSUME IInv, NEW s \in Streams, LateAt(s), LateSteady(s)
  PROVE  LateAt(s)'
<1> SUFFICES ASSUME s \in streams', demux'[serve'[s].home].pc \in {"tear", "done"}, sent'[<<s, "up">>] > 0
             PROVE  \/ serve'[s].pc \in {"lookup", "tell", "remove"}
                    \/ serve'[s].pc = "send" /\ demux'[serve'[s].via].pc \in {"read", "send", "end"}
                    \/ \E b \in Sessions :
                         Standing(b)' /\ (link'[b] = "broken" \/ \E i \in 1..Len(up'[b]) : IsData(up'[b][i], s))
  BY DEF LateAt, Standing, IsData
<1>1. s \in streams /\ serve'[s] = serve[s] /\ sent[<<s, "up">>] > 0 /\ serve[s].pc # "none"
  BY DEF LateSteady, IInv, PlaceInv
<1>2. serve[s].home \in Sessions
  BY <1>1 DEF IInv, HandInv, Shapes, ShapesOfRelay, Serves
<1>3. demux[serve[s].home].pc \in {"tear", "done"}
  BY <1>1, <1>2 DEF LateSteady
<1>4. CASE serve[s].pc \in {"lookup", "tell", "remove"}
  BY <1>1, <1>4
<1>5. CASE serve[s].pc = "send" /\ Standing(serve[s].via)
  <2>1. serve[s].via \in Sessions
    BY <1>5 DEF IInv, HandInv
  <2> QED
    BY <1>1, <1>5, <2>1 DEF LateSteady, Standing
<1>6. CASE \E b \in Sessions :
             Standing(b) /\ (link[b] = "broken" \/ \E i \in 1..Len(up[b]) : IsData(up[b][i], s))
  BY <1>6 DEF LateSteady
<1> QED
  BY <1>1, <1>3, <1>4, <1>5, <1>6 DEF LateAt

(* Ending, in the state after a step. *)
EndingNext(b, s) ==
  \/ session'[b].pc = "send" /\ session'[b].f.s = s /\ Terminal(session'[b].f)
  \/ \E i \in 1..Len(up'[b]) :
       /\ up'[b][i].s = s /\ Terminal(up'[b][i])
       /\ \A j \in 1..Len(up'[b]) : up'[b][j].kind = "accepted" /\ up'[b][j].s = s => j < i

AnnouncedNext(b, s) == \E i \in 1..Len(up'[b]) : up'[b][i].kind = "accepted" /\ up'[b][i].s = s

(* A step that neither ends a stream at the relay nor takes what ends it. *)
EndSteady(s) ==
  LET b == serve[s].home IN
  /\ serve'[s].pc \in {"done", "remove", "tell"} =>
       serve[s].pc \in {"done", "remove", "tell"} /\ serve'[s].home = serve[s].home
  /\ link'[b] = "up" /\ (s \in known'[b] \/ AnnouncedNext(b, s)) =>
       /\ link[b] = "up"
       /\ s \in known[b] \/ Announced(b, s)
       /\ Ending(b, s) => EndingNext(b, s)

(* It leaves the frame that ends it on its way. *)
LEMMA EndIdle ==
  ASSUME NEW s \in Streams, EndAt(s), EndSteady(s)
  PROVE  EndAt(s)'
<1> DEFINE b == serve[s].home
<1> SUFFICES ASSUME serve'[s].pc \in {"done", "remove", "tell"}, link'[serve'[s].home] = "up",
                    s \in known'[serve'[s].home] \/ AnnouncedNext(serve'[s].home, s)
             PROVE  EndingNext(serve'[s].home, s)
  BY DEF EndAt, Announced, AnnouncedNext, Ending, EndingNext, Terminal
<1>1. serve[s].pc \in {"done", "remove", "tell"} /\ serve'[s].home = b
  BY DEF EndSteady
<1>2. /\ link[b] = "up"
      /\ s \in known[b] \/ Announced(b, s)
      /\ Ending(b, s) => EndingNext(b, s)
  BY <1>1 DEF EndSteady
<1>3. Ending(b, s)
  BY <1>1, <1>2 DEF EndAt
<1> QED
  BY <1>1, <1>2, <1>3

-----------------------------------------------------------------------------
(* The connection of a stream to the Authority. *)

(* Steps of the writer and the reader that send nothing to the relay, and have *)
(* nothing new to send.                                                        *)
LEMMA TcpRests ==
  ASSUME IInv, RInv,
         UNCHANGED <<relayVars, session, owner, up, down, inbox, link, client>>,
         \A r \in Streams : sent'[<<r, "up">>] = sent[<<r, "up">>],
         \A b \in Sessions : known'[b] \subseteq known[b],
         \A r \in Streams :
           /\ writer'[r] \in {"connecting", "failing"} => writer[r] \in {"connecting", "failing"}
           /\ reader'[r] \in {"on", "last", "error"} =>
                writer[r] = "connecting" \/ reader[r] \in {"on", "last", "error"}
           /\ serve[r].pc = "opened" /\ reader'[r] = "send" => reader[r] = "send"
  PROVE  RInv'
<1>0. UNCHANGED <<bridge, lock, streams, closed, demux, serve>>
  BY DEF relayVars
<1>1. SessionInv'
  BY <1>0, SessionIdle DEF RInv, SessionSteady
<1>2. DownHome'
  <2>1. GoesOn
    BY <1>0 DEF GoesOn, Goes, From
  <2>2. \A b \in Sessions : DownSteadyAt(b)
    BY <1>0 DEF DownSteadyAt, Shorter
  <2> QED
    BY <2>1, <2>2, DownIdleAt DEF RInv, DownHome
<1>3. ASSUME NEW s \in Streams PROVE PeerAt(s)'
  <2>1. PeerSteady(s)
    BY <1>0 DEF PeerSteady, InTodo
  <2> QED
    BY <2>1, PeerIdle DEF RInv, PeerInv
<1>4. ASSUME NEW s \in Streams PROVE OpeningAt(s)'
  <2>1. Producing(s)' => Producing(s)
    BY <1>0 DEF Producing, Announced, Refusing
  <2>2. Held(s)' => Held(s)
    BY <1>0 DEF Held, InTodo
  <2>3. OpeningSteady(s)
    BY <1>0, <2>1, <2>2 DEF OpeningSteady, InHand, Fewer
  <2> QED
    BY <2>3, OpeningIdle DEF RInv, OpeningInv
<1>5. ASSUME NEW s \in Streams PROVE LateAt(s)'
  <2>1. LateSteady(s)
    BY <1>0 DEF LateSteady, Standing
  <2> QED
    BY <2>1, LateIdle DEF RInv, LateInv
<1>6. ASSUME NEW s \in Streams PROVE EndAt(s)'
  <2>1. serve[s].pc # "none" => serve[s].home \in Sessions
    BY HomeOf
  <2>2. EndSteady(s) \/ serve[s].pc = "none"
    <3> SUFFICES ASSUME serve[s].pc # "none" PROVE EndSteady(s)
      OBVIOUS
    <3> DEFINE b == serve[s].home
    <3>1. b \in Sessions /\ known'[b] \subseteq known[b]
      BY <2>1
    <3>2. Ending(b, s) => EndingNext(b, s)
      BY DEF Ending, EndingNext
    <3>3. AnnouncedNext(b, s) => Announced(b, s)
      BY DEF Announced, AnnouncedNext
    <3> QED
      BY <1>0, <3>1, <3>2, <3>3 DEF EndSteady
  <2>3. serve[s].pc = "none" => EndAt(s)'
    BY <1>0 DEF EndAt
  <2> QED
    BY <2>2, <2>3, EndIdle DEF RInv, EndInv
<1> QED
  BY <1>1, <1>2, <1>3, <1>4, <1>5, <1>6 DEF RInv, PeerInv, OpeningInv, LateInv, EndInv

(* Every such step. *)
LEMMA TcpRestKeeps ==
  ASSUME IInv, RInv, NEW s \in Streams, UNCHANGED relayVars,
         \/ ConnectUpstream(s) \/ ConnectFails(s) \/ ReadFails(s) \/ StopReader(s) \/ ReadUpstream(s)
         \/ WriteUpstream(s) \/ WriteFails(s)
  PROVE  RInv'
<1>1. /\ writer \in [Streams -> {"none", "connecting", "on", "failing", "done"}]
      /\ reader \in [Streams -> {"none", "on", "send", "last", "error", "done"}]
      /\ known \in [Sessions -> SUBSET Streams] /\ sent \in [Pipes -> Nat]
  BY DEF IInv, Shapes, ShapesOfBridge, ShapesOfChannels
<1>2. CASE ConnectUpstream(s)
  <2>1. UNCHANGED <<session, known, owner, up, down, inbox, link, client, sent>>
    BY <1>2 DEF ConnectUpstream, channelVars
  <2>2. /\ writer[s] = "connecting" /\ writer'[s] = "on" /\ reader'[s] = "on"
        /\ \A r \in Streams : r # s => writer'[r] = writer[r] /\ reader'[r] = reader[r]
    BY <1>1, <1>2 DEF ConnectUpstream
  <2> QED
    BY <2>1, <2>2, TcpRests
<1>3. CASE ConnectFails(s)
  <2>1. UNCHANGED <<session, known, owner, reader, up, down, inbox, link, client, sent>>
    BY <1>3 DEF ConnectFails, channelVars
  <2>2. /\ writer[s] = "connecting" /\ writer'[s] = "failing"
        /\ \A r \in Streams : r # s => writer'[r] = writer[r]
    BY <1>1, <1>3 DEF ConnectFails
  <2> QED
    BY <2>1, <2>2, TcpRests
<1>4. CASE ReadFails(s) \/ StopReader(s)
  <2>1. UNCHANGED <<session, known, owner, writer, up, down, inbox, link, client, sent>>
    BY <1>4 DEF ReadFails, StopReader, channelVars
  <2>2. /\ reader[s] = "on" /\ reader'[s] \in {"error", "done"}
        /\ \A r \in Streams : r # s => reader'[r] = reader[r]
    BY <1>1, <1>4 DEF ReadFails, StopReader
  <2> QED
    BY <2>1, <2>2, TcpRests
<1>5. CASE ReadUpstream(s)
  <2>1. UNCHANGED <<session, known, owner, writer, up, down, inbox, link, client>>
    BY <1>5 DEF ReadUpstream
  <2>2. PICK pc \in {"send", "last"} :
          /\ pc = "send" => got[<<s, "up">>] # <<>>
          /\ reader' = [reader EXCEPT ![s] = pc]
    BY <1>5 DEF ReadUpstream
  <2>3. /\ reader[s] = "on" /\ reader'[s] = pc
        /\ \A r \in Streams : r # s => reader'[r] = reader[r]
    BY <1>1, <1>5, <2>2 DEF ReadUpstream
  <2>4. \A r \in Streams : sent'[<<r, "up">>] = sent[<<r, "up">>]
    BY <1>1, <1>5 DEF ReadUpstream, Pipes
  <2>5. serve[s].pc = "opened" => pc # "send"
    <3> SUFFICES ASSUME serve[s].pc = "opened", pc = "send" PROVE FALSE
      OBVIOUS
    <3>1. sent[<<s, "up">>] = 0
      BY DEF IInv, OwnerInv, Owned
    <3>2. Len(got[<<s, "up">>]) \in Nat /\ got[<<s, "up">>] \in Seq(Nat)
      BY PipeTypes DEF IInv, Shapes
    <3>3. PICK k \in 0..sent[<<s, "up">>] : Run(tcpq[s], s, Len(got[<<s, "up">>]), k)
      BY DEF IInv, UpInv, UpAt
    <3>4. Len(got[<<s, "up">>]) = 0
      BY <3>1, <3>2, <3>3 DEF Run
    <3> QED
      BY <2>2, <3>2, <3>4
  <2> QED
    BY <2>1, <2>3, <2>4, <2>5, TcpRests
<1>6. CASE WriteUpstream(s) \/ WriteFails(s)
  <2>1. UNCHANGED <<session, owner, reader, up, down, inbox, link, client, sent>>
    BY <1>6 DEF WriteUpstream, WriteFails, channelVars
  <2>2. (writer' = writer /\ known' = known) \/ (writer[s] = "on" /\ StopWriter(s))
    BY <1>6 DEF WriteUpstream, WriteFails
  <2>3. CASE writer' = writer /\ known' = known
    BY <2>1, <2>3, TcpRests
  <2>4. CASE writer[s] = "on" /\ StopWriter(s)
    <3>1. /\ writer'[s] = "done" /\ \A r \in Streams : r # s => writer'[r] = writer[r]
      BY <1>1, <2>4 DEF StopWriter
    <3>2. \A b \in Sessions : known'[b] \subseteq known[b]
      BY <1>1, <2>4 DEF StopWriter, Forget
    <3> QED
      BY <2>1, <2>4, <3>1, <3>2, TcpRests
  <2> QED
    BY <2>2, <2>3, <2>4
<1> QED
  BY <1>2, <1>3, <1>4, <1>5, <1>6

(* The bridge puts frame f on the way to the relay, or finds the session over. *)
Sends(b, f) ==
  /\ \A a \in Sessions \ {b} : down'[a] = down[a]
  /\ down'[b] = down[b] \/ down'[b] = Append(down[b], f)

(* The last frame a stream is sent before its connector is answered. *)
LEMMA LastBefore ==
  ASSUME IInv, RInv, NEW b \in Sessions, NEW f \in Frames, NEW s \in Streams, s = f.s,
         UNCHANGED <<relayVars, inbox>>, serve[s].pc = "opened", serve[s].home = b,
         down'[b] = Append(down[b], f), Producing(s), ~Producing(s)', reader'[s] # "send"
  PROVE  OpeningAt(s)'
<1>0. UNCHANGED <<demux, serve, streams, inbox>>
  BY DEF relayVars
<1>1. /\ ~InDown(b, s) /\ ~InHand(b, s)
      /\ Len(inbox[s]) <= IF Held(s) THEN 0 ELSE 1
  BY DEF RInv, OpeningInv, OpeningAt, OnTheWay
<1>2. down[b] \in Seq(Frames)
  BY QueueTypes
<1>3. /\ Len(down[b]) \in Nat /\ Len(down'[b]) = Len(down[b]) + 1
      /\ \A i \in 1..Len(down[b]) : down'[b][i] = down[b][i]
  BY <1>2, QueueAppend
<1>4. \A i \in 1..Len(down'[b]) : i \in 1..Len(down[b]) \/ i = Len(down[b]) + 1
  BY <1>3
<1>5. \A i \in 1..Len(down'[b]) : down'[b][i].s = s => i = Len(down[b]) + 1
  BY <1>1, <1>3, <1>4 DEF InDown
<1>6. Once(down'[b], s)
  BY <1>5 DEF Once
<1>7. ~InHand(b, s)' /\ (Held(s)' <=> Held(s))
  BY <1>0, <1>1 DEF InHand, Held, InTodo
<1>8. inbox[s] \in Seq(Frames) /\ Len(inbox[s]) \in Nat
  BY DEF IInv, Shapes, ShapesOfChannels
<1>9. Len(inbox[s]) <= (IF Held(s) THEN 0 ELSE 1) + 1
  BY <1>1, <1>8
<1>10. Len(inbox'[s]) = Len(inbox[s]) /\ serve'[s].home = b /\ serve'[s].pc = "opened"
  BY <1>0
<1>11. Len(inbox'[s]) <= IF Held(s)' THEN 0 ELSE 1
  BY <1>1, <1>7, <1>10
<1>12. Len(inbox'[s]) <= (IF Held(s)' THEN 0 ELSE 1) + 1
  BY <1>7, <1>9, <1>10
<1> QED
  BY <1>6, <1>7, <1>10, <1>11, <1>12 DEF OpeningAt

(* What a step at the bridge does to the tasks when it sends the relay a frame. *)
SendingSteady ==
  /\ UNCHANGED <<relayVars, owner, up, inbox, link, client, sent>>
  /\ \A a \in Sessions :
       /\ known'[a] \subseteq known[a]
       /\ session'[a] = session[a] \/ (session[a].pc = "refuse" /\ session'[a].pc = "read")
  /\ \A r \in Streams :
       /\ writer'[r] \in {"connecting", "failing"} => writer[r] \in {"connecting", "failing"}
       /\ reader'[r] \in {"on", "last", "error"} =>
            reader[r] \in {"on", "last", "error"} \/ serve[r].pc # "opened"
       /\ reader'[r] = "send" => reader[r] = "send"

(* A step of the bridge that sends the relay a frame. *)
LEMMA SendingKeeps ==
  ASSUME IInv, RInv, NEW b \in Sessions, NEW f \in Frames, NEW s \in Streams, s = f.s,
         From(b, s), Sends(b, f), SendingSteady,
         down'[b] # down[b] /\ serve[s].pc = "opened" => Producing(s) /\ ~Producing(s)'
  PROVE  RInv'
<1>0. UNCHANGED <<bridge, lock, streams, closed, demux, serve, owner, up, inbox, link, client, sent>>
  BY DEF SendingSteady, relayVars
<1>d. down[b] \in Seq(Frames)
  BY QueueTypes
<1>1. SessionInv'
  <2>1. \A a \in Sessions : session'[a].pc = session[a].pc \/ (Alive(a) /\ Alive(a)')
    BY DEF SendingSteady, Alive
  <2> QED
    BY <1>0, <2>1, SessionIdle DEF RInv, SessionSteady, SendingSteady
<1>2. ASSUME NEW a \in Sessions PROVE DownHomeAt(a)'
  <2>1. GoesOn
    BY <1>0 DEF GoesOn, Goes, From
  <2>2. session'[a].pc = "refuse" => session[a].pc = "refuse" /\ session'[a].f = session[a].f
    BY DEF SendingSteady
  <2>3. CASE down'[a] = down[a]
    <3>1. DownSteadyAt(a)
      BY <1>0, <2>2, <2>3 DEF DownSteadyAt, Shorter
    <3> QED
      BY <2>1, <3>1, DownIdleAt DEF RInv, DownHome
  <2>4. CASE a = b /\ down'[b] = Append(down[b], f)
    <3>1. /\ Len(down[b]) \in Nat /\ Len(down'[b]) = Len(down[b]) + 1
          /\ \A i \in 1..Len(down[b]) : down'[b][i] = down[b][i]
          /\ down'[b][Len(down[b]) + 1] = f
      BY <1>d, <2>4, QueueAppend
    <3>2. \A i \in 1..Len(down'[b]) : i \in 1..Len(down[b]) \/ i = Len(down[b]) + 1
      BY <3>1
    <3>3. \A i \in 1..Len(down[b]) : From(b, down[b][i].s)
      BY DEF RInv, DownHome, DownHomeAt
    <3>4. \A i \in 1..Len(down'[b]) : From(b, down'[b][i].s)
      BY <3>1, <3>2, <3>3
    <3>5. DownHomeAt(b)
      BY DEF RInv, DownHome
    <3> QED
      BY <1>0, <2>2, <2>4, <3>4, <3>5 DEF DownHomeAt, From
  <2> QED
    BY <2>3, <2>4 DEF Sends
<1>3. ASSUME NEW r \in Streams PROVE PeerAt(r)'
  <2>1. PeerSteady(r)
    BY <1>0 DEF PeerSteady, InTodo
  <2> QED
    BY <2>1, PeerIdle DEF RInv, PeerInv
<1>4. ASSUME NEW r \in Streams PROVE OpeningAt(r)'
  <2>1. serve[r].pc = "opened" => (Producing(r)' => Producing(r))
    <3>1. \A a \in Sessions : Refusing(a, r)' => Refusing(a, r)
      BY DEF SendingSteady, Refusing
    <3>2. serve[r].pc = "opened" => serve[r].home \in Sessions
      BY HomeOf
    <3>3. \A a \in Sessions : Announced(a, r)' => Announced(a, r)
      BY <1>0 DEF Announced
    <3>4. /\ writer'[r] \in {"connecting", "failing"} => writer[r] \in {"connecting", "failing"}
          /\ reader'[r] \in {"on", "last", "error"} =>
               reader[r] \in {"on", "last", "error"} \/ serve[r].pc # "opened"
      BY DEF SendingSteady

    <3> QED
      BY <1>0, <3>1, <3>2, <3>3, <3>4 DEF Producing, Refusing, Announced
  <2>2. Held(r)' => Held(r)
    BY <1>0 DEF Held, InTodo
  <2>3. CASE r = s /\ serve[s].pc = "opened" /\ down'[b] # down[b]
    <3>1. down'[b] = Append(down[b], f) /\ serve[s].home = b
      BY <2>3 DEF Sends, From
    <3>2. reader'[s] # "send"
      BY <2>3 DEF SendingSteady, RInv, OpeningInv, OpeningAt
    <3>3. UNCHANGED <<relayVars, inbox>>
      BY DEF SendingSteady
    <3>4. Producing(s) /\ ~Producing(s)'
      BY <2>3
    <3> QED
      BY <2>3, <3>1, <3>2, <3>3, <3>4, LastBefore
  <2>4. CASE ~(r = s /\ serve[s].pc = "opened" /\ down'[b] # down[b])
    <3>1. serve[r].pc = "opened" => Fewer(down'[serve[r].home], down[serve[r].home], r)
      <4> SUFFICES ASSUME serve[r].pc = "opened" PROVE Fewer(down'[serve[r].home], down[serve[r].home], r)
        OBVIOUS
      <4>1. serve[r].home \in Sessions
        BY HomeOf
      <4>2. CASE down'[serve[r].home] = down[serve[r].home]
        BY <4>2 DEF Fewer
      <4>3. CASE serve[r].home = b /\ down'[b] = Append(down[b], f) /\ down'[b] # down[b]
        <5>1. f.s # r
          BY <2>4, <4>3
        <5> QED
          BY <1>d, <4>3, <5>1, FewerAppend
      <4> QED
        BY <4>1, <4>2, <4>3 DEF Sends
    <3>2. OpeningSteady(r)
      BY <1>0, <2>1, <2>2, <3>1 DEF OpeningSteady, InHand, SendingSteady
    <3> QED
      BY <3>2, OpeningIdle DEF RInv, OpeningInv
  <2> QED
    BY <2>3, <2>4
<1>5. ASSUME NEW r \in Streams PROVE LateAt(r)'
  <2>1. LateSteady(r)
    BY <1>0 DEF LateSteady, Standing
  <2> QED
    BY <2>1, LateIdle DEF RInv, LateInv
<1>6. ASSUME NEW r \in Streams PROVE EndAt(r)'
  <2>1. CASE serve[r].pc # "none"
    <3> DEFINE h == serve[r].home
    <3>1. h \in Sessions
      BY <2>1, HomeOf
    <3>2. known'[h] \subseteq known[h] /\ (session[h].pc = "send" => session'[h] = session[h])
      BY <3>1 DEF SendingSteady
    <3>3. Ending(h, r) => EndingNext(h, r)
      BY <1>0, <3>2 DEF Ending, EndingNext
    <3>4. AnnouncedNext(h, r) => Announced(h, r)
      BY <1>0 DEF Announced, AnnouncedNext
    <3>5. EndSteady(r)
      BY <1>0, <3>2, <3>3, <3>4 DEF EndSteady
    <3> QED
      BY <3>5, EndIdle DEF RInv, EndInv
  <2>2. CASE serve[r].pc = "none"
    BY <1>0, <2>2 DEF EndAt
  <2> QED
    BY <2>1, <2>2
<1> QED
  BY <1>1, <1>2, <1>3, <1>4, <1>5, <1>6 DEF RInv, DownHome, PeerInv, OpeningInv, LateInv, EndInv

(* The bridge refuses a stream: it has no other frame for it. *)
LEMMA RefuseKeeps ==
  ASSUME IInv, RInv, NEW b \in Sessions, RefuseStream(b), UNCHANGED relayVars
  PROVE  RInv'
<1>1. /\ session[b].pc = "refuse" /\ ToRelay(b, session[b].f)
      /\ UNCHANGED <<known, tcpq, owner, writer, reader, up, inbox, link, client, sent, got>>
      /\ SessionTo(b, "read", None)
  BY DEF RefuseStream, ToRelay
<1>2. PICK f \in Frames : f = session[b].f
  BY <1>1 DEF IInv, HandInv
<1>3. DownHomeAt(b)
  BY DEF RInv, DownHome
<1>s. PICK s \in Streams : s = f.s
  BY <1>1, <1>2, QueueTypes
<1>4. /\ From(b, s) /\ owner[s] = None
      /\ \A i \in 1..Len(up[b]) : up[b][i].kind = "accepted" => up[b][i].s # s
  BY <1>1, <1>2, <1>3, <1>s DEF DownHomeAt
<1>5. SessionAt(b, "read", None)
  BY <1>1, SessionMoves DEF IInv, Shapes, LoopPCs
<1>6. Sends(b, f)
  BY <1>1, <1>2, ToRelayEffect DEF Sends
<1>7. SendingSteady
  BY <1>1, <1>5 DEF SendingSteady, SessionAt
<1>8. Producing(s) /\ ~Producing(s)'
  <2>1. writer[s] = "none" /\ reader[s] = "none" /\ serve[s].home = b /\ serve' = serve
    BY <1>4 DEF IInv, OwnerInv, Owned, From, relayVars
  <2>2. Producing(s)
    BY <1>1, <1>2, <1>s, <2>1 DEF Producing, Refusing
  <2>3. ~Producing(s)'
    BY <1>1, <1>4, <1>5, <2>1 DEF Producing, Refusing, Announced, SessionAt
  <2> QED
    BY <2>2, <2>3
<1> QED
  BY <1>s, <1>4, <1>6, <1>7, <1>8, SendingKeeps

(* The bridge tells of a connection that failed, or passes on what the Authority sent. *)
LEMMA UpstreamSendKeeps ==
  ASSUME IInv, RInv, NEW s \in Streams, UpstreamFailed(s) \/ SendUpstreamData(s), UNCHANGED relayVars
  PROVE  RInv'
<1> DEFINE b == owner[s]
<1>1. /\ writer \in [Streams -> {"none", "connecting", "on", "failing", "done"}]
      /\ reader \in [Streams -> {"none", "on", "send", "last", "error", "done"}]
      /\ known \in [Sessions -> SUBSET Streams] /\ sent[<<s, "down">>] \in Nat
  BY PipeTypes DEF IInv, Shapes, ShapesOfBridge
<1>2. UNCHANGED <<relayVars, session, owner, up, inbox, link, client, sent>>
  BY DEF UpstreamFailed, SendUpstreamData
<1>3. writer[s] = "failing" \/ reader[s] \in {"send", "last", "error"}
  BY DEF UpstreamFailed, SendUpstreamData
<1>4. b \in Sessions /\ b # None /\ link[b] \in {"up", "broken"}
  BY <1>3, OwnerOf
<1>5. serve[s].home = b /\ From(b, s)
  BY <1>4 DEF IInv, OwnerInv, Owned, From
<1>6. PICK f \in Frames : f.s = s /\ ToRelay(b, f)
  <2>1. CASE UpstreamFailed(s)
    BY <2>1, PlainFrame DEF UpstreamFailed
  <2>2. CASE SendUpstreamData(s)
    <3>1. Data(s, sent[<<s, "down">>]) \in Frames /\ Data(s, sent[<<s, "down">>]).s = s
      BY <1>1 DEF Data, Frames
    <3>2. Frame("error", s) \in Frames /\ Frame("error", s).s = s
      BY PlainFrame
    <3> QED
      BY <2>2, <3>1, <3>2 DEF SendUpstreamData
  <2> QED
    BY <2>1, <2>2
<1>7. Sends(b, f)
  BY <1>4, <1>6, ToRelayEffect DEF Sends
<1>8. \A a \in Sessions : known'[a] \subseteq known[a]
  BY <1>1, <1>4 DEF UpstreamFailed, SendUpstreamData, Forget
<1>9. \A r \in Streams : r # s => writer'[r] = writer[r] /\ reader'[r] = reader[r]
  BY <1>1 DEF UpstreamFailed, SendUpstreamData
<1>10. \/ writer[s] = "failing" /\ writer'[s] = "done" /\ reader'[s] = reader[s] /\ reader[s] = "none"
       \/ /\ writer'[s] = writer[s] /\ writer[s] \notin {"none", "connecting", "failing"}
          /\ reader[s] # "send" => reader'[s] = "done"
          /\ reader'[s] \in {"on", "done"}
          /\ reader[s] \in {"send", "last", "error"}
  <2>1. writer[s] \in {"none", "connecting", "failing"} => reader[s] = "none"
    BY DEF IInv, OwnerInv, Owned
  <2>2. CASE UpstreamFailed(s)
    BY <1>1, <2>1, <2>2 DEF UpstreamFailed
  <2>3. CASE SendUpstreamData(s)
    BY <1>1, <2>1, <2>3 DEF SendUpstreamData
  <2> QED
    BY <2>2, <2>3
<1>11. serve[s].pc = "opened" => reader[s] # "send"
  BY DEF RInv, OpeningInv, OpeningAt
<1>12. SendingSteady
  <2>1. \A r \in Streams :
         /\ writer'[r] \in {"connecting", "failing"} => writer[r] \in {"connecting", "failing"}
         /\ reader'[r] \in {"on", "last", "error"} =>
              reader[r] \in {"on", "last", "error"} \/ serve[r].pc # "opened"
         /\ reader'[r] = "send" => reader[r] = "send"
    BY <1>9, <1>10, <1>11
  <2> QED
    BY <1>2, <1>8, <2>1 DEF SendingSteady
<1>13. serve[s].pc = "opened" => Producing(s) /\ ~Producing(s)'
  <2> SUFFICES ASSUME serve[s].pc = "opened" PROVE Producing(s) /\ ~Producing(s)'
    OBVIOUS
  <2>1. Producing(s)
    BY <1>10, <1>11 DEF Producing
  <2>2. ~Announced(b, s) /\ ~Refusing(b, s)
    <3>1. ~Announced(b, s)
      BY <1>4 DEF Announced, IInv, OwnerInv, UpFrames
    <3>2. ~Refusing(b, s)
      BY <1>4 DEF Refusing, RInv, DownHome, DownHomeAt
    <3> QED
      BY <3>1, <3>2
  <2>3. serve'[s].home = b /\ session' = session /\ up' = up
    BY <1>2, <1>5 DEF relayVars
  <2>4. writer'[s] \notin {"connecting", "failing"} /\ reader'[s] \notin {"on", "last", "error"}
    BY <1>10, <1>11
  <2> HIDE DEF b
  <2>5. ~Producing(s)'
    BY <2>2, <2>3, <2>4 DEF Producing, Announced, Refusing
  <2> QED
    BY <2>1, <2>5
<1> HIDE DEF b
<1> QED
  BY <1>4, <1>5, <1>6, <1>7, <1>12, <1>13, SendingKeeps

-----------------------------------------------------------------------------
(* A session of the bridge. *)

(* A connection that breaks: the loop notices it, or is at its end. *)
LEMMA BreakRests ==
  ASSUME IInv, RInv, NEW b \in Sessions,
         UNCHANGED <<relayVars, owner, writer, reader, down, inbox, client, sent>>,
         link[b] # "none", link'[b] = "broken",
         \A a \in Sessions \ {b} :
           link'[a] = link[a] /\ session'[a] = session[a] /\ known'[a] = known[a] /\ up'[a] = up[a],
         Shorter(up'[b], up[b]),
         \/ session'[b] = session[b] /\ known'[b] = known[b]
         \/ session'[b].pc \in {"ended", "failed", "unknown"} /\ known'[b] = {}
  PROVE  RInv'
<1>0. UNCHANGED <<bridge, lock, streams, closed, demux, serve>>
  BY DEF relayVars
<1>a. \A a \in Sessions : \A i \in 1..Len(up'[a]) : \E j \in 1..Len(up[a]) : up'[a][i] = up[a][j]
  <2>1. up[b] \in Seq(Frames)
    BY QueueTypes
  <2>2. \A i \in 1..Len(up'[b]) : \E j \in 1..Len(up[b]) : up'[b][i] = up[b][j]
    BY <2>1, ShorterFrames
  <2>3. \A a \in Sessions \ {b} :
          \A i \in 1..Len(up'[a]) : \E j \in 1..Len(up[a]) : up'[a][i] = up[a][j]
    OBVIOUS
  <2> QED
    BY <2>2, <2>3
<1>1. SessionInv'
  <2> SUFFICES ASSUME NEW a \in Sessions PROVE SessionInvAt(a)'
    BY DEF SessionInv
  <2>1. SessionInvAt(a)
    BY DEF RInv, SessionInv
  <2>2. CASE a # b
    BY <1>0, <2>1, <2>2 DEF SessionInvAt, Standing, Alive
  <2>3. CASE a = b
    <3>1. session[b].pc # "none" /\ demux[b].pc # "none"
      BY <2>1, <2>3 DEF SessionInvAt
    <3>2. session'[b].pc # "none" /\ (~Alive(b)' => known'[b] = {})
      BY <2>1, <2>3, <3>1 DEF SessionInvAt, Alive
    <3> QED
      BY <1>0, <2>1, <2>3, <3>1, <3>2 DEF SessionInvAt, Standing
  <2> QED
    BY <2>2, <2>3
<1>2. DownHome'
  <2>1. GoesOn
    BY <1>0 DEF GoesOn, Goes, From
  <2>2. ASSUME NEW a \in Sessions PROVE DownSteadyAt(a)
    <3>1. CASE a = b
      BY <1>0, <3>1 DEF DownSteadyAt, Shorter
    <3>2. CASE a # b
      BY <1>0, <3>2 DEF DownSteadyAt, Shorter
    <3> QED
      BY <3>1, <3>2
  <2> QED
    BY <2>1, <2>2, DownIdleAt DEF RInv, DownHome
<1>3. ASSUME NEW s \in Streams PROVE PeerAt(s)'
  <2>1. PeerSteady(s)
    BY <1>0 DEF PeerSteady, InTodo
  <2> QED
    BY <2>1, PeerIdle DEF RInv, PeerInv
<1>4. ASSUME NEW s \in Streams PROVE OpeningAt(s)'
  <2>1. \A a \in Sessions : (Announced(a, s)' => Announced(a, s)) /\ (Refusing(a, s)' => Refusing(a, s))
    <3> SUFFICES ASSUME NEW a \in Sessions
                 PROVE  (Announced(a, s)' => Announced(a, s)) /\ (Refusing(a, s)' => Refusing(a, s))
      OBVIOUS
    <3>1. Announced(a, s)' => Announced(a, s)
      BY <1>a DEF Announced
    <3>2. Refusing(a, s)' => Refusing(a, s)
      BY DEF Refusing
    <3> QED
      BY <3>1, <3>2
  <2>2. serve[s].pc = "opened" => serve[s].home \in Sessions
    BY HomeOf
  <2>3. serve[s].pc = "opened" => (Producing(s)' => Producing(s))
    BY <1>0, <2>1, <2>2 DEF Producing, Announced, Refusing
  <2>4. Held(s)' => Held(s)
    BY <1>0 DEF Held, InTodo
  <2>5. OpeningSteady(s)
    BY <1>0, <2>3, <2>4 DEF OpeningSteady, InHand, Fewer
  <2> QED
    BY <2>5, OpeningIdle DEF RInv, OpeningInv
<1>5. ASSUME NEW s \in Streams PROVE LateAt(s)'
  <2>1. LateSteady(s)
    BY <1>0 DEF LateSteady, Standing
  <2> QED
    BY <2>1, LateIdle DEF RInv, LateInv
<1>6. ASSUME NEW s \in Streams PROVE EndAt(s)'
  <2>1. CASE serve[s].pc = "none" \/ serve[s].home = b
    BY <1>0, <2>1 DEF EndAt
  <2>2. CASE serve[s].pc # "none" /\ serve[s].home # b
    <3> DEFINE h == serve[s].home
    <3>1. h \in Sessions \ {b}
      BY <2>2, HomeOf
    <3>2. link'[h] = link[h] /\ session'[h] = session[h] /\ known'[h] = known[h] /\ up'[h] = up[h]
      BY <3>1
    <3>3. EndSteady(s)
      BY <1>0, <3>2 DEF EndSteady, Announced, AnnouncedNext, Ending, EndingNext
    <3> QED
      BY <3>3, EndIdle DEF RInv, EndInv
  <2> QED
    BY <2>1, <2>2
<1> QED
  BY <1>1, <1>2, <1>3, <1>4, <1>5, <1>6 DEF RInv, PeerInv, OpeningInv, LateInv, EndInv

(* The connection fails, or the loop finds that it has. *)
LEMMA BreakKeeps ==
  ASSUME IInv, RInv, NEW b \in Sessions, Disconnect(b) \/ SessionEnds(b), UNCHANGED relayVars
  PROVE  RInv'
<1>1. /\ link \in [Sessions -> {"none", "up", "broken"}] /\ known \in [Sessions -> SUBSET Streams]
  BY DEF IInv, Shapes, ShapesOfChannels, ShapesOfBridge
<1>2. CASE Disconnect(b)
  <2>1. UNCHANGED <<session, known, owner, writer, reader, up, down, inbox, client, sent>>
    BY <1>2 DEF Disconnect, bridgeVars
  <2>2. link[b] # "none" /\ link'[b] = "broken" /\ \A a \in Sessions \ {b} : link'[a] = link[a]
    BY <1>1, <1>2 DEF Disconnect
  <2>3. Shorter(up'[b], up[b])
    BY <2>1 DEF Shorter
  <2> QED
    BY <2>1, <2>2, <2>3, BreakRests
<1>3. CASE SessionEnds(b)
  <2>1. UNCHANGED <<owner, writer, reader, up, down, inbox, client, sent>> /\ EndSession(b, "ended")
    BY <1>3 DEF SessionEnds
  <2>2. SessionAt(b, "ended", None)
    BY <2>1, SessionMoves DEF IInv, Shapes, LoopPCs, EndSession
  <2>3. /\ link[b] # "none" /\ link'[b] = "broken" /\ known'[b] = {}
        /\ \A a \in Sessions \ {b} : link'[a] = link[a] /\ known'[a] = known[a]
    BY <1>1, <1>3, <2>1 DEF SessionEnds, EndSession
  <2>4. Shorter(up'[b], up[b])
    BY <2>1 DEF Shorter
  <2> QED
    BY <2>1, <2>2, <2>3, <2>4, BreakRests DEF SessionAt
<1> QED
  BY <1>2, <1>3

(* The loop hands a frame to the stream's writer, or ends at one that is gone. *)
LEMMA HandOverKeeps ==
  ASSUME IInv, RInv, NEW b \in Sessions, SendToStream(b), UNCHANGED relayVars
  PROVE  RInv'
<1>0. /\ UNCHANGED <<bridge, lock, streams, closed, demux, serve>>
      /\ UNCHANGED <<owner, writer, reader, up, down, inbox, client, sent>>
      /\ session[b].pc = "send"
  BY DEF SendToStream, relayVars
<1>t. /\ link \in [Sessions -> {"none", "up", "broken"}] /\ known \in [Sessions -> SUBSET Streams]
  BY DEF IInv, Shapes, ShapesOfChannels, ShapesOfBridge
<1>f. PICK f \in Frames : f = session[b].f
  BY <1>0 DEF IInv, HandInv
<1>s. f.s \in Streams /\ owner[f.s] = b /\ f.kind \in {"data", "closed", "error"} /\ b # None
  BY <1>0, <1>f, QueueTypes DEF IInv, OwnerInv, Holds, HandInv
<1>1. CASE EndSession(b, "failed")
  <2>1. SessionAt(b, "failed", None)
    BY <1>1, SessionMoves DEF IInv, Shapes, LoopPCs, EndSession
  <2>2. /\ link'[b] = "broken" /\ known'[b] = {}
        /\ \A a \in Sessions \ {b} : link'[a] = link[a] /\ known'[a] = known[a]
    BY <1>t, <1>1 DEF EndSession
  <2>3. link[b] # "none"
    BY <1>0 DEF RInv, SessionInv, SessionInvAt
  <2>4. Shorter(up'[b], up[b])
    BY <1>0 DEF Shorter
  <2> QED
    BY <1>0, <2>1, <2>2, <2>3, <2>4, BreakRests DEF SessionAt
<1>2. CASE /\ SessionTo(b, "read", None) /\ UNCHANGED link
           /\ IF Terminal(f) THEN Forget(b, f.s) ELSE UNCHANGED known
  <2>1. SessionAt(b, "read", None)
    BY <1>2, SessionMoves DEF IInv, Shapes, LoopPCs
  <2>2. /\ \A a \in Sessions : known'[a] \subseteq known[a]
        /\ Terminal(f) => f.s \notin known'[b]
    BY <1>t, <1>2 DEF Forget
  <2>3. \A a \in Sessions : session'[a] = session[a] \/ (a = b /\ session'[a].pc = "read")
    BY <2>1 DEF SessionAt
  <2>4. SessionInv'
    <3>1. \A a \in Sessions : session'[a].pc = session[a].pc \/ (Alive(a) /\ Alive(a)')
      BY <1>0, <2>3 DEF Alive
    <3> QED
      BY <1>0, <1>2, <2>2, <3>1, SessionIdle DEF RInv, SessionSteady
  <2>5. DownHome'
    <3>1. GoesOn
      BY <1>0 DEF GoesOn, Goes, From
    <3>2. \A a \in Sessions : DownSteadyAt(a)
      BY <1>0, <2>3 DEF DownSteadyAt, Shorter
    <3> QED
      BY <3>1, <3>2, DownIdleAt DEF RInv, DownHome
  <2>6. ASSUME NEW s \in Streams PROVE PeerAt(s)'
    <3>1. PeerSteady(s)
      BY <1>0, <1>2 DEF PeerSteady, InTodo
    <3> QED
      BY <3>1, PeerIdle DEF RInv, PeerInv
  <2>7. ASSUME NEW s \in Streams PROVE OpeningAt(s)'
    <3>1. \A a \in Sessions : Refusing(a, s)' => Refusing(a, s)
      BY <2>3 DEF Refusing
    <3>2. serve[s].pc = "opened" => serve[s].home \in Sessions
      BY HomeOf
    <3>3. serve[s].pc = "opened" => (Producing(s)' => Producing(s))
      BY <1>0, <3>1, <3>2 DEF Producing, Announced, Refusing
    <3>4. Held(s)' => Held(s)
      BY <1>0 DEF Held, InTodo
    <3>5. OpeningSteady(s)
      BY <1>0, <3>3, <3>4 DEF OpeningSteady, InHand, Fewer
    <3> QED
      BY <3>5, OpeningIdle DEF RInv, OpeningInv
  <2>8. ASSUME NEW s \in Streams PROVE LateAt(s)'
    <3>1. LateSteady(s)
      BY <1>0, <1>2 DEF LateSteady, Standing
    <3> QED
      BY <3>1, LateIdle DEF RInv, LateInv
  <2>9. ASSUME NEW s \in Streams PROVE EndAt(s)'
    <3>1. CASE serve[s].pc = "none"
      BY <1>0, <3>1 DEF EndAt
    <3>2. CASE s = f.s /\ Terminal(f)
      <4>1. serve[s].home = b
        BY <1>s, <3>2 DEF IInv, OwnerInv, Owned
      <4>2. \A i \in 1..Len(up[b]) : up[b][i].kind = "accepted" => up[b][i].s # s
        BY <1>s, <3>2 DEF IInv, OwnerInv, UpFrames
      <4> QED
        BY <1>0, <2>2, <3>2, <4>1, <4>2 DEF EndAt, Announced
    <3>3. CASE serve[s].pc # "none" /\ ~(s = f.s /\ Terminal(f))
      <4> DEFINE h == serve[s].home
      <4>1. h \in Sessions
        BY <3>3, HomeOf
      <4>2. Ending(h, s) => EndingNext(h, s)
        BY <1>0, <1>f, <2>3, <3>3, <4>1 DEF Ending, EndingNext
      <4>3. AnnouncedNext(h, s) => Announced(h, s)
        BY <1>0 DEF Announced, AnnouncedNext
      <4>4. known'[h] \subseteq known[h] /\ link'[h] = link[h]
        BY <1>2, <2>2, <4>1
      <4>5. EndSteady(s)
        BY <1>0, <4>2, <4>3, <4>4 DEF EndSteady
      <4> QED
        BY <4>5, EndIdle DEF RInv, EndInv
    <3> QED
      BY <3>1, <3>2, <3>3
  <2> QED
    BY <2>4, <2>5, <2>6, <2>7, <2>8, <2>9 DEF RInv, PeerInv, OpeningInv, LateInv, EndInv
<1>3. f.kind = "data" => ~Terminal(f)
  BY DEF Terminal
<1> QED
  BY <1>f, <1>1, <1>2, <1>3 DEF SendToStream

(* The loop takes a frame f of the relay: a stream it accepts or refuses, a frame *)
(* for a stream it knows, or the end of one it does not.                          *)
Takes(b, f) ==
  /\ UNCHANGED <<bridge, lock, streams, closed, demux, serve, reader, down, inbox, link, client, sent>>
  /\ \A a \in Sessions \ {b} : session'[a] = session[a] /\ known'[a] = known[a]
  /\ \A r \in Streams : r # f.s => owner'[r] = owner[r] /\ writer'[r] = writer[r]
  /\ \/ f.kind = "accepted" /\ session'[b].pc = "read" /\ known'[b] \subseteq known[b] \cup {f.s}
     \/ /\ f.kind = "accepted" /\ session'[b].pc = "refuse" /\ session'[b].f.s = f.s
        /\ UNCHANGED <<known, owner, writer>>
     \/ /\ f.kind # "accepted" /\ f.s \in known[b] /\ session'[b].pc = "send" /\ session'[b].f = f
        /\ UNCHANGED <<known, owner, writer>>
     \/ Terminal(f) /\ f.s \notin known[b] /\ UNCHANGED <<session, known, owner, writer>>

(* Taking the first frame of the queue keeps the frame that ends a stream on its way. *)
LEMMA TakeEnds ==
  ASSUME IInv, NEW b \in Sessions, NEW f \in Frames, NEW s \in Streams,
         session[b].pc = "read", up[b] # <<>>, f = Head(up[b]), up'[b] = Tail(up[b]), Takes(b, f),
         Ending(b, s), s \in known'[b] \/ AnnouncedNext(b, s)
  PROVE  EndingNext(b, s)
<1>1. up[b] \in Seq(Frames)
  BY QueueTypes
<1>2. /\ Len(up[b]) \in Nat \ {0} /\ f = up[b][1] /\ Len(up'[b]) = Len(up[b]) - 1
      /\ \A i \in 1..Len(up'[b]) : i + 1 \in 1..Len(up[b]) /\ up'[b][i] = up[b][i + 1]
  BY <1>1, QueueTail
<1>3. PICK i \in 1..Len(up[b]) :
        /\ up[b][i].s = s /\ Terminal(up[b][i])
        /\ \A j \in 1..Len(up[b]) : up[b][j].kind = "accepted" /\ up[b][j].s = s => j < i
  BY DEF Ending
<1>4. CASE i # 1
  <2> DEFINE k == i - 1
  <2>1. k \in 1..Len(up'[b]) /\ k + 1 = i /\ i \in Nat
    BY <1>2, <1>4
  <2>2. up'[b][k] = up[b][i]
    BY <1>2, <2>1
  <2> HIDE DEF k
  <2>3. ASSUME NEW j \in 1..Len(up'[b]), up'[b][j].kind = "accepted", up'[b][j].s = s PROVE j < k
    <3>1. j + 1 \in 1..Len(up[b]) /\ up'[b][j] = up[b][j + 1]
      BY <1>2
    <3>2. j + 1 < i
      BY <1>3, <2>3, <3>1
    <3> QED
      BY <2>1, <3>2
  <2> QED
    BY <1>3, <2>1, <2>2, <2>3 DEF EndingNext
<1>5. CASE i = 1
  <2>1. f.s = s /\ Terminal(f)
    BY <1>2, <1>3, <1>5
  <2>2. ~AnnouncedNext(b, s)
    <3> SUFFICES ASSUME NEW j \in 1..Len(up'[b]), up'[b][j].kind = "accepted", up'[b][j].s = s PROVE FALSE
      BY DEF AnnouncedNext
    <3>1. j + 1 \in 1..Len(up[b]) /\ up'[b][j] = up[b][j + 1]
      BY <1>2
    <3>2. j + 1 < 1
      BY <1>3, <1>5, <3>1
    <3> QED
      BY <3>2
  <2>3. f.kind # "accepted"
    BY <2>1 DEF Terminal
  <2>4. session'[b].pc = "send" /\ session'[b].f = f
    BY <2>1, <2>2, <2>3 DEF Takes
  <2> QED
    BY <2>1, <2>4 DEF EndingNext
<1> QED
  BY <1>4, <1>5

(* The session goes on with what it has taken. *)
LEMMA TakeRests ==
  ASSUME IInv, RInv, NEW b \in Sessions, NEW f \in Frames,
         session[b].pc = "read", up[b] # <<>>, f = Head(up[b]), up' = [up EXCEPT ![b] = Tail(@)], Takes(b, f)
  PROVE  RInv'
<1>1. /\ up'[b] = Tail(up[b]) /\ \A a \in Sessions \ {b} : up'[a] = up[a]
      /\ serve[f.s].pc \notin Unannounced
      /\ f.kind = "accepted" =>
           /\ serve[f.s].home = b /\ owner[f.s] = None
           /\ \A i \in 1..Len(up'[b]) : ~(up'[b][i].kind = "accepted" /\ up'[b][i].s = f.s)
  <2>1. /\ up'[b] = Tail(up[b]) /\ \A a \in Sessions \ {b} : up'[a] = up[a]
        /\ serve[Head(up[b]).s].pc \notin Unannounced
        /\ Head(up[b]).kind = "accepted" =>
             /\ serve[Head(up[b]).s].home = b /\ owner[Head(up[b]).s] = None
             /\ \A i \in 1..Len(Tail(up[b])) :
                  ~(Tail(up[b])[i].kind = "accepted" /\ Tail(up[b])[i].s = Head(up[b]).s)
    BY UpTake
  <2> QED
    BY <2>1
<1>2. /\ up[b] \in Seq(Frames) /\ Len(up[b]) \in Nat \ {0} /\ f = up[b][1] /\ f.s \in Streams
      /\ \A i \in 1..Len(up'[b]) : i + 1 \in 1..Len(up[b]) /\ up'[b][i] = up[b][i + 1]
      /\ Len(up'[b]) = Len(up[b]) - 1
  <2>1. up[b] \in Seq(Frames) /\ f.s \in Streams
    BY QueueTypes DEF Frames
  <2>2. up'[b] = Tail(up[b])
    BY <1>1
  <2>3. /\ Len(up[b]) \in Nat \ {0} /\ Head(up[b]) = up[b][1]
        /\ Len(Tail(up[b])) = Len(up[b]) - 1
        /\ \A i \in 1..Len(Tail(up[b])) : i + 1 \in 1..Len(up[b]) /\ Tail(up[b])[i] = up[b][i + 1]
    BY <2>1, QueueTail
  <2> QED
    BY <2>1, <2>2, <2>3
<1>3. UNCHANGED <<bridge, lock, streams, closed, demux, serve, reader, down, inbox, link, client, sent>>
  BY DEF Takes
<1>4. /\ \A a \in Sessions \ {b} : session'[a] = session[a] /\ known'[a] = known[a]
      /\ \A r \in Streams : r # f.s => owner'[r] = owner[r] /\ writer'[r] = writer[r]
      /\ session'[b].pc \in {"read", "send", "refuse"}
      /\ session'[b].pc = "refuse" =>
           f.kind = "accepted" /\ session'[b].f.s = f.s /\ UNCHANGED <<known, owner, writer>>
      /\ known'[b] \subseteq known[b] \/ (f.kind = "accepted" /\ known'[b] \subseteq known[b] \cup {f.s})
      /\ f.kind # "accepted" => UNCHANGED <<known, owner, writer>>
  <2>1. CASE f.kind = "accepted" /\ session'[b].pc = "read" /\ known'[b] \subseteq known[b] \cup {f.s}
    BY <2>1 DEF Takes
  <2>2. CASE /\ f.kind = "accepted" /\ session'[b].pc = "refuse" /\ session'[b].f.s = f.s
             /\ UNCHANGED <<known, owner, writer>>
    BY <2>2 DEF Takes
  <2>3. CASE /\ f.kind # "accepted" /\ f.s \in known[b] /\ session'[b].pc = "send" /\ session'[b].f = f
             /\ UNCHANGED <<known, owner, writer>>
    BY <2>3 DEF Takes
  <2>4. CASE Terminal(f) /\ f.s \notin known[b] /\ UNCHANGED <<session, known, owner, writer>>
    BY <2>4 DEF Takes, Terminal
  <2> QED
    BY <2>1, <2>2, <2>3, <2>4 DEF Takes
<1>5. SessionInv'
  <2>1. SessionSteady
    BY <1>3, <1>4 DEF SessionSteady, Alive
  <2> QED
    BY <2>1, SessionIdle DEF RInv
<1>6. DownHome'
  <2> SUFFICES ASSUME NEW a \in Sessions PROVE DownHomeAt(a)'
    BY DEF DownHome
  <2>1. GoesOn
    BY <1>3 DEF GoesOn, Goes, From
  <2>2. DownHomeAt(a)
    BY DEF RInv, DownHome
  <2>3. CASE a = b /\ session'[b].pc = "refuse"
    <3>1. /\ session'[b].f.s = f.s /\ From(b, f.s) /\ owner'[f.s] = None
          /\ \A i \in 1..Len(up'[b]) : up'[b][i].kind = "accepted" => up'[b][i].s # f.s
      BY <1>1, <1>4, <2>3 DEF From
    <3> QED
      BY <1>3, <2>2, <2>3, <3>1 DEF DownHomeAt, From
  <2>4. CASE a = b /\ session'[b].pc # "refuse"
    <3>1. DownSteadyAt(b)
      BY <1>3, <2>4 DEF DownSteadyAt, Shorter
    <3> QED
      BY <2>1, <2>2, <2>4, <3>1, DownIdleAt
  <2>5. CASE a # b
    <3>1. session[a].pc = "refuse" => session[a].f.s # f.s \/ owner' = owner
      <4> SUFFICES ASSUME session[a].pc = "refuse", session[a].f.s = f.s PROVE owner' = owner
        OBVIOUS
      <4>1. serve[f.s].home = a
        BY <2>2 DEF DownHomeAt, From
      <4> QED
        BY <1>1, <1>4, <2>5, <4>1
    <3>2. session[a].pc = "refuse" => owner'[session[a].f.s] = owner[session[a].f.s]
      BY <1>4, <3>1, QueueTypes
    <3>3. DownSteadyAt(a)
      BY <1>1, <1>3, <1>4, <2>5, <3>2 DEF DownSteadyAt, Shorter
    <3> QED
      BY <2>1, <2>2, <3>3, DownIdleAt
  <2> QED
    BY <2>3, <2>4, <2>5
<1>7. ASSUME NEW s \in Streams PROVE PeerAt(s)'
  <2>1. PeerSteady(s)
    BY <1>3 DEF PeerSteady, InTodo
  <2> QED
    BY <2>1, PeerIdle DEF RInv, PeerInv
<1>8. ASSUME NEW s \in Streams PROVE OpeningAt(s)'
  <2>1. serve[s].pc = "opened" => (Producing(s)' => Producing(s))
    <3>1. CASE f.kind = "accepted" /\ s = f.s
      <4>1. Announced(b, s)
        BY <1>2, <3>1 DEF Announced
      <4> QED
        BY <1>1, <3>1, <4>1 DEF Producing
    <3>2. CASE ~(f.kind = "accepted" /\ s = f.s)
      <4>1. \A a \in Sessions : Announced(a, s)' => Announced(a, s)
        <5>1. Announced(b, s)' => Announced(b, s)
          BY <1>2 DEF Announced
        <5>2. \A a \in Sessions \ {b} : Announced(a, s)' => Announced(a, s)
          BY <1>1 DEF Announced
        <5> QED
          BY <5>1, <5>2
      <4>2. \A a \in Sessions : Refusing(a, s)' => Refusing(a, s)
        BY <1>4, <3>2 DEF Refusing
      <4>3. serve[s].pc = "opened" => serve[s].home \in Sessions
        BY HomeOf
      <4>4. writer'[s] = writer[s]
        BY <1>4, <3>2
      <4> QED
        BY <1>3, <4>1, <4>2, <4>3, <4>4 DEF Producing, Announced, Refusing
    <3> QED
      BY <3>1, <3>2
  <2>2. Held(s)' => Held(s)
    BY <1>3 DEF Held, InTodo
  <2>3. OpeningSteady(s)
    BY <1>3, <2>1, <2>2 DEF OpeningSteady, InHand, Fewer
  <2> QED
    BY <2>3, OpeningIdle DEF RInv, OpeningInv
<1>9. ASSUME NEW s \in Streams PROVE LateAt(s)'
  <2>1. CASE IsData(f, s) /\ Standing(b)
    <3>1. s \in known[b]
      BY <2>1 DEF IsData, Terminal, Takes
    <3>2. owner[s] = b /\ b # None
      BY <3>1, QueueTypes DEF IInv, OwnerInv, Holds
    <3>3. serve[s].home = b
      BY <3>2 DEF IInv, OwnerInv, Owned
    <3> QED
      BY <1>3, <2>1, <3>3 DEF LateAt, Standing
  <2>2. CASE ~(IsData(f, s) /\ Standing(b))
    <3>1. Standing(b) /\ (\E i \in 1..Len(up[b]) : IsData(up[b][i], s)) =>
            \E i \in 1..Len(up'[b]) : IsData(up'[b][i], s)
      <4> SUFFICES ASSUME Standing(b), NEW i \in 1..Len(up[b]), IsData(up[b][i], s)
                   PROVE  \E j \in 1..Len(up'[b]) : IsData(up'[b][j], s)
        OBVIOUS
      <4>1. i # 1
        BY <1>2, <2>2
      <4>2. i - 1 \in 1..Len(up'[b]) /\ (i - 1) + 1 = i
        BY <1>2, <4>1
      <4>3. up'[b][i - 1] = up[b][i]
        BY <1>2, <4>2
      <4> QED
        BY <4>2, <4>3
    <3>2. LateSteady(s)
      BY <1>1, <1>3, <3>1 DEF LateSteady, Standing
    <3> QED
      BY <3>2, LateIdle DEF RInv, LateInv
  <2> QED
    BY <2>1, <2>2
<1>10. ASSUME NEW s \in Streams PROVE EndAt(s)'
  <2> DEFINE h == serve[s].home
  <2>1. CASE serve[s].pc = "none"
    BY <1>3, <2>1 DEF EndAt
  <2>2. CASE serve[s].pc # "none" /\ h # b
    <3>1. h \in Sessions \ {b}
      BY <2>2, HomeOf
    <3>2. session'[h] = session[h] /\ known'[h] = known[h] /\ up'[h] = up[h] /\ link'[h] = link[h]
      BY <1>1, <1>3, <1>4, <3>1
    <3>a. Ending(h, s) => EndingNext(h, s)
      BY <3>2 DEF Ending, EndingNext
    <3>b. AnnouncedNext(h, s) => Announced(h, s)
      BY <3>2 DEF Announced, AnnouncedNext
    <3>3. EndSteady(s)
      BY <1>3, <3>2, <3>a, <3>b DEF EndSteady
    <3> QED
      BY <3>3, EndIdle DEF RInv, EndInv
  <2>3. CASE h = b
    <3>1. AnnouncedNext(b, s) => Announced(b, s)
      BY <1>2 DEF Announced, AnnouncedNext
    <3>2. s \in known'[b] => s \in known[b] \/ Announced(b, s)
      BY <1>2, <1>4 DEF Announced
    <3>3. s \in known'[b] \/ AnnouncedNext(b, s) => (Ending(b, s) => EndingNext(b, s))
      BY <1>1, TakeEnds
    <3> HIDE DEF h
    <3>h. serve'[s].home = serve[s].home /\ serve[s].home = b /\ link'[b] = link[b] /\ serve' = serve
      BY <1>3, <2>3 DEF h
    <3>4. EndSteady(s)
      BY <3>h, <3>1, <3>2, <3>3 DEF EndSteady
    <3> QED
      BY <3>4, EndIdle DEF RInv, EndInv
  <2> QED
    BY <2>1, <2>2, <2>3
<1> QED
  BY <1>5, <1>6, <1>7, <1>8, <1>9, <1>10 DEF RInv, PeerInv, OpeningInv, LateInv, EndInv

(* Every frame of the relay. *)
LEMMA ReadKeeps ==
  ASSUME IInv, RInv, NEW b \in Sessions, ReadFrame(b), UNCHANGED relayVars
  PROVE  RInv'
<1>1. /\ UNCHANGED <<bridge, lock, streams, closed, demux, serve, reader, down, inbox, client, sent>>
      /\ session[b].pc = "read" /\ up[b] # <<>> /\ up' = [up EXCEPT ![b] = Tail(@)]
  BY DEF ReadFrame, relayVars
<1>2. PICK f \in Frames : f = Head(up[b])
  BY <1>1, UpTake
<1>3. f.s \in Streams /\ up'[b] = Tail(up[b]) /\ \A a \in Sessions \ {b} : up'[a] = up[a]
  BY <1>1, <1>2, UpTake DEF Frames
<1>t. /\ link \in [Sessions -> {"none", "up", "broken"}] /\ known \in [Sessions -> SUBSET Streams]
      /\ writer \in [Streams -> {"none", "connecting", "on", "failing", "done"}]
      /\ owner \in [Streams -> Sessions \cup {None}]
  BY DEF IInv, Shapes, ShapesOfChannels, ShapesOfBridge
<1>4. CASE /\ f.kind = "accepted"
           /\ known' = [known EXCEPT ![b] = @ \cup {f.s}]
           /\ owner' = [owner EXCEPT ![f.s] = b]
           /\ writer' = [writer EXCEPT ![f.s] = "connecting"]
           /\ UNCHANGED <<session, link>>
  <2>1. Takes(b, f)
    BY <1>1, <1>3, <1>t, <1>4 DEF Takes
  <2> QED
    BY <1>1, <1>2, <2>1, TakeRests
<1>5. CASE /\ f.kind = "accepted" /\ SessionTo(b, "refuse", Frame("error", f.s))
           /\ UNCHANGED <<known, owner, writer, link>>
  <2>1. SessionAt(b, "refuse", Frame("error", f.s)) /\ Frame("error", f.s).s = f.s
    BY <1>3, <1>5, SessionMoves, PlainFrame DEF IInv, Shapes, LoopPCs
  <2>2. Takes(b, f)
    BY <1>1, <1>5, <2>1 DEF Takes, SessionAt
  <2> QED
    BY <1>1, <1>2, <2>2, TakeRests
<1>6. CASE /\ f.kind # "accepted" /\ f.s \in known[b] /\ SessionTo(b, "send", f)
           /\ UNCHANGED <<known, owner, writer, link>>
  <2>1. SessionAt(b, "send", f)
    BY <1>6, SessionMoves DEF IInv, Shapes, LoopPCs
  <2>2. Takes(b, f)
    BY <1>1, <1>6, <2>1 DEF Takes, SessionAt
  <2> QED
    BY <1>1, <1>2, <2>2, TakeRests
<1>7. CASE EndSession(b, "unknown") /\ UNCHANGED <<owner, writer>>
  <2>1. SessionAt(b, "unknown", None)
    BY <1>7, SessionMoves DEF IInv, Shapes, LoopPCs, EndSession
  <2>2. /\ link'[b] = "broken" /\ known'[b] = {}
        /\ \A a \in Sessions \ {b} : link'[a] = link[a] /\ known'[a] = known[a]
    BY <1>t, <1>7 DEF EndSession
  <2>3. link[b] # "none"
    BY <1>1 DEF RInv, SessionInv, SessionInvAt
  <2>4. Shorter(up'[b], up[b])
    BY <1>1, <1>3 DEF Shorter
  <2>5. UNCHANGED <<relayVars, owner, writer, reader, down, inbox, client, sent>>
    BY <1>1, <1>7 DEF relayVars
  <2>6. session'[b].pc \in {"ended", "failed", "unknown"} /\ \A a \in Sessions \ {b} : session'[a] = session[a]
    BY <2>1 DEF SessionAt
  <2> QED
    BY <1>3, <2>2, <2>3, <2>4, <2>5, <2>6, BreakRests
<1>8. CASE /\ Terminal(f) /\ f.s \notin known[b] /\ UNCHANGED <<session, known, owner, writer, link>>
  <2>1. Takes(b, f)
    BY <1>1, <1>8 DEF Takes
  <2> QED
    BY <1>1, <1>2, <2>1, TakeRests
<1> QED
  BY <1>2, <1>4, <1>5, <1>6, <1>7, <1>8 DEF ReadFrame

-----------------------------------------------------------------------------
(* A session at the relay. *)

(* Steps that tell nobody anything: a frame dropped, a queue cleared. *)
LEMMA RelayIdle ==
  ASSUME IInv, RInv, SessionInv',
         UNCHANGED <<streams, serve, inbox, link, client, sent, session, known, owner, writer, reader>>,
         \A a \in Sessions :
           /\ Shorter(down'[a], down[a]) /\ Shorter(up'[a], up[a])
           /\ up'[a] = up[a] \/ link[a] = "broken"
           /\ demux'[a].todo = demux[a].todo
           /\ demux'[a].pc = "send" => demux[a].pc = "send" /\ demux'[a].f = demux[a].f
           /\ demux'[a].pc \in {"tear", "done"} => demux[a].pc \in {"tear", "done"}
           /\ Standing(a) => Standing(a)'
  PROVE  RInv'
<1>2. DownHome'
  <2>1. GoesOn
    BY DEF GoesOn, Goes, From
  <2>2. \A a \in Sessions : DownSteadyAt(a)
    BY DEF DownSteadyAt
  <2> QED
    BY <2>1, <2>2, DownIdleAt DEF RInv, DownHome
<1>3. ASSUME NEW s \in Streams PROVE PeerAt(s)'
  <2>1. PeerSteady(s)
    BY DEF PeerSteady, InTodo
  <2> QED
    BY <2>1, PeerIdle DEF RInv, PeerInv
<1>4. ASSUME NEW s \in Streams PROVE OpeningAt(s)'
  <2>1. \A a \in Sessions : Announced(a, s)' => Announced(a, s)
    <3> SUFFICES ASSUME NEW a \in Sessions, Announced(a, s)' PROVE Announced(a, s)
      OBVIOUS
    <3>1. up[a] \in Seq(Frames) /\ Shorter(up'[a], up[a])
      BY QueueTypes
    <3>2. \A i \in 1..Len(up'[a]) : \E j \in 1..Len(up[a]) : up'[a][i] = up[a][j]
      BY <3>1, ShorterFrames
    <3> QED
      BY <3>2 DEF Announced
  <2>2. serve[s].pc = "opened" => serve[s].home \in Sessions
    BY HomeOf
  <2>3. serve[s].pc = "opened" => (Producing(s)' => Producing(s))
    BY <2>1, <2>2 DEF Producing, Announced, Refusing
  <2>4. Held(s)' => Held(s)
    BY DEF Held, InTodo
  <2>5. serve[s].pc = "opened" => Fewer(down'[serve[s].home], down[serve[s].home], s)
    BY <2>2, QueueTypes, ShorterFrames
  <2>6. OpeningSteady(s)
    BY <2>2, <2>3, <2>4, <2>5 DEF OpeningSteady, InHand
  <2> QED
    BY <2>6, OpeningIdle DEF RInv, OpeningInv
<1>5. ASSUME NEW s \in Streams PROVE LateAt(s)'
  <2>1. LateSteady(s)
    BY DEF LateSteady
  <2> QED
    BY <2>1, LateIdle DEF RInv, LateInv
<1>6. ASSUME NEW s \in Streams PROVE EndAt(s)'
  <2> DEFINE h == serve[s].home
  <2>1. CASE serve[s].pc = "none" \/ link[h] = "broken"
    BY <2>1 DEF EndAt
  <2>2. CASE serve[s].pc # "none" /\ link[h] # "broken"
    <3>1. up'[h] = up[h]
      BY <2>2, HomeOf
    <3>2. Ending(h, s) => EndingNext(h, s)
      BY <3>1 DEF Ending, EndingNext
    <3>3. AnnouncedNext(h, s) => Announced(h, s)
      BY <3>1 DEF Announced, AnnouncedNext
    <3>4. serve'[s] = serve[s] /\ known'[h] = known[h] /\ link'[h] = link[h]
      OBVIOUS
    <3>5. EndSteady(s)
      BY <3>2, <3>3, <3>4 DEF EndSteady
    <3> QED
      BY <3>5, EndIdle DEF RInv, EndInv
  <2> QED
    BY <2>1, <2>2
<1> QED
  BY <1>2, <1>3, <1>4, <1>5, <1>6 DEF RInv, PeerInv, OpeningInv, LateInv, EndInv

(* The end of a teardown, the drop of a response, and a step in which nothing happens. *)
LEMMA RelayIdleKeeps ==
  ASSUME IInv, RInv,
         \/ \E b \in Sessions : (TeardownDone(b) \/ DropResponse(b)) /\ UNCHANGED bridgeVars
         \/ UNCHANGED vars
  PROVE  RInv'
<1>1. ASSUME NEW b \in Sessions, TeardownDone(b), UNCHANGED bridgeVars PROVE RInv'
  <2>1. /\ UNCHANGED <<bridge, streams, closed, serve, up, down, inbox, link, client, sent>>
        /\ UNCHANGED <<session, known, owner, writer, reader>>
        /\ demux[b].pc = "tear" /\ demux[b].todo = {}
    BY <1>1 DEF TeardownDone, channelVars, bridgeVars
  <2>2. DemuxAt(b, "done", demux[b].f, demux[b].todo)
    <3>1. demux[b] \in Demuxes
      BY DEF IInv, Shapes, ShapesOfRelay
    <3>2. demux[b].f \in Frames \cup {None}
      BY <3>1 DEF Demuxes
    <3> QED
      BY <1>1, <2>1, <3>2, DemuxMoves DEF IInv, Shapes, DemuxPCs, TeardownDone, DemuxTo
  <2>3. SessionInv'
    <3> SUFFICES ASSUME NEW a \in Sessions PROVE SessionInvAt(a)'
      BY DEF SessionInv
    <3>1. SessionInvAt(a)
      BY DEF RInv, SessionInv
    <3>2. CASE a = b
      BY <2>1, <2>2, <3>1, <3>2 DEF SessionInvAt, DemuxAt, Standing, Alive
    <3>3. CASE a # b
      BY <2>1, <2>2, <3>1, <3>3 DEF SessionInvAt, DemuxAt, Standing, Alive
    <3> QED
      BY <3>2, <3>3
  <2> QED
    BY <2>1, <2>2, <2>3, RelayIdle DEF DemuxAt, Shorter, Standing
<1>2. ASSUME NEW b \in Sessions, DropResponse(b), UNCHANGED bridgeVars PROVE RInv'
  <2>1. /\ UNCHANGED <<bridge, streams, demux, serve, down, inbox, link, client, sent>>
        /\ UNCHANGED <<session, known, owner, writer, reader>>
        /\ link[b] = "broken"
    BY <1>2 DEF DropResponse, bridgeVars
  <2>2. /\ up'[b] = <<>> /\ closed'[b] = TRUE
        /\ \A a \in Sessions \ {b} : up'[a] = up[a] /\ closed'[a] = closed[a]
    BY <1>2 DEF DropResponse, IInv, Shapes, ShapesOfChannels, ShapesOfRelay
  <2>3. SessionInv'
    <3> SUFFICES ASSUME NEW a \in Sessions PROVE SessionInvAt(a)'
      BY DEF SessionInv
    <3>1. SessionInvAt(a)
      BY DEF RInv, SessionInv
    <3>2. closed'[a] => link[a] = "broken"
      BY <2>1, <2>2, <3>1 DEF SessionInvAt
    <3> QED
      BY <2>1, <3>1, <3>2 DEF SessionInvAt, Standing, Alive
  <2> QED
    BY <2>1, <2>2, <2>3, RelayIdle DEF Shorter, Standing
<1>3. CASE UNCHANGED vars
  <2>1. UNCHANGED <<up, down, inbox, link, client, sent, bridge, streams, closed, demux, serve,
                    session, known, owner, writer, reader>>
    BY <1>3 DEF vars, channelVars, relayVars, bridgeVars
  <2>2. SessionInv'
    BY <2>1 DEF RInv, SessionInv, SessionInvAt, Standing, Alive
  <2> QED
    BY <2>1, <2>2, RelayIdle DEF Shorter, Standing
<1> QED
  BY <1>1, <1>2, <1>3

(* A bridge registers: the one before it is over. *)
LEMMA RegisterRests ==
  ASSUME IInv, RInv, NEW b \in Sessions, Register(b)
  PROVE  RInv'
<1>1. /\ UNCHANGED <<lock, streams, closed, serve, up, down, inbox, client, sent>>
      /\ UNCHANGED <<known, owner, writer, reader>>
      /\ link[b] = "none" /\ bridge' = b /\ (bridge # None => closed[bridge])
  BY DEF Register, Connect, RegisterAuthorityBridge
<1>2. DemuxAt(b, "read", demux[b].f, demux[b].todo)
  <2>1. demux[b] \in Demuxes
    BY DEF IInv, Shapes, ShapesOfRelay
  <2>2. demux[b].f \in Frames \cup {None} /\ demux[b].todo \in SUBSET Streams
    BY <2>1 DEF Demuxes
  <2> QED
    BY <2>2, DemuxMoves DEF IInv, Shapes, DemuxPCs, Register, RegisterAuthorityBridge
<1>3. SessionAt(b, "read", session[b].f)
  <2>1. session[b] \in Loops
    BY DEF IInv, Shapes, ShapesOfBridge
  <2>2. session[b].f \in Frames \cup {None}
    BY <2>1 DEF Loops
  <2> QED
    BY <2>2, SessionMoves DEF IInv, Shapes, LoopPCs, Register, Connect
<1>4. link'[b] = "up" /\ \A a \in Sessions \ {b} : link'[a] = link[a]
  BY DEF Register, Connect, IInv, Shapes, ShapesOfChannels
<1>5. /\ demux'[b].pc = "read" /\ \A a \in Sessions \ {b} : demux'[a] = demux[a]
      /\ session'[b].pc = "read" /\ \A a \in Sessions \ {b} : session'[a] = session[a]
      /\ \A a \in Sessions : demux'[a].todo = demux[a].todo
  BY <1>2, <1>3 DEF DemuxAt, SessionAt
<1>6. demux[b].pc = "none" /\ session[b].pc = "none" /\ demux[b].todo = {}
  BY <1>1 DEF RInv, SessionInv, SessionInvAt
<1>7. SessionInv'
  <2> SUFFICES ASSUME NEW a \in Sessions PROVE SessionInvAt(a)'
    BY DEF SessionInv
  <2>1. SessionInvAt(a)
    BY DEF RInv, SessionInv
  <2>2. CASE a = b
    <3>1. ~closed[b]
      BY <1>1, <2>1, <2>2 DEF SessionInvAt
    <3> QED
      BY <1>1, <1>4, <1>5, <1>6, <2>2, <3>1 DEF SessionInvAt, Standing, Alive
  <2>3. CASE a # b
    <3>1. link[a] # "up"
      <4> SUFFICES ASSUME link[a] = "up" PROVE FALSE
        OBVIOUS
      <4>1. bridge = a /\ a # None
        BY <2>1, QueueTypes DEF SessionInvAt
      <4>2. closed[a]
        BY <1>1, <4>1
      <4> QED
        BY <2>1, <4>2 DEF SessionInvAt
    <3> QED
      BY <1>1, <1>4, <1>5, <2>1, <2>3, <3>1 DEF SessionInvAt, Standing, Alive
  <2> QED
    BY <2>2, <2>3
<1>8. DownHome'
  <2>1. GoesOn
    BY <1>1 DEF GoesOn, Goes, From
  <2>2. \A a \in Sessions : DownSteadyAt(a)
    BY <1>1, <1>5 DEF DownSteadyAt, Shorter
  <2> QED
    BY <2>1, <2>2, DownIdleAt DEF RInv, DownHome
<1>9. ASSUME NEW s \in Streams PROVE PeerAt(s)'
  <2>1. PeerSteady(s)
    BY <1>1, <1>4, <1>5 DEF PeerSteady, InTodo
  <2> QED
    BY <2>1, PeerIdle DEF RInv, PeerInv
<1>10. ASSUME NEW s \in Streams PROVE OpeningAt(s)'
  <2>1. \A a \in Sessions : Refusing(a, s)' => Refusing(a, s)
    BY <1>5 DEF Refusing
  <2>2. serve[s].pc = "opened" => serve[s].home \in Sessions
    BY HomeOf
  <2>3. serve[s].pc = "opened" => (Producing(s)' => Producing(s))
    BY <1>1, <2>1, <2>2 DEF Producing, Announced, Refusing
  <2>4. Held(s)' => Held(s)
    BY <1>1, <1>5 DEF Held, InTodo
  <2>5. OpeningSteady(s)
    BY <1>1, <1>5, <2>2, <2>3, <2>4 DEF OpeningSteady, InHand, Fewer
  <2> QED
    BY <2>5, OpeningIdle DEF RInv, OpeningInv
<1>11. ASSUME NEW s \in Streams PROVE LateAt(s)'
  <2>1. LateSteady(s)
    BY <1>1, <1>4, <1>5, <1>6 DEF LateSteady, Standing
  <2> QED
    BY <2>1, LateIdle DEF RInv, LateInv
<1>12. ASSUME NEW s \in Streams PROVE EndAt(s)'
  <2> DEFINE h == serve[s].home
  <2>1. CASE serve[s].pc = "none"
    BY <1>1, <2>1 DEF EndAt
  <2>2. CASE serve[s].pc # "none"
    <3>1. h \in Sessions \ {b}
      BY <1>1, <2>2, HomeOf
    <3>2. session'[h] = session[h] /\ link'[h] = link[h]
      BY <1>4, <1>5, <3>1
    <3>3. Ending(h, s) => EndingNext(h, s)
      BY <1>1, <3>2 DEF Ending, EndingNext
    <3>4. AnnouncedNext(h, s) => Announced(h, s)
      BY <1>1 DEF Announced, AnnouncedNext
    <3>5. EndSteady(s)
      BY <1>1, <3>2, <3>3, <3>4 DEF EndSteady
    <3> QED
      BY <3>5, EndIdle DEF RInv, EndInv
  <2> QED
    BY <2>1, <2>2
<1> QED
  BY <1>7, <1>8, <1>9, <1>10, <1>11, <1>12 DEF RInv, PeerInv, OpeningInv, LateInv, EndInv

(* A step of one session's task at the relay leaves the streams that have ended. *)
LEMMA EndsElsewhere ==
  ASSUME IInv, RInv, NEW s \in Streams, UNCHANGED <<serve, link, known, up, session>>
  PROVE  EndAt(s)'
<1>1. \A b : (Ending(b, s) => EndingNext(b, s)) /\ (AnnouncedNext(b, s) => Announced(b, s))
  BY DEF Ending, EndingNext, AnnouncedNext, Announced
<1>2. EndSteady(s)
  BY <1>1 DEF EndSteady
<1> QED
  BY <1>2, EndIdle DEF RInv, EndInv

(* The relay takes a frame of the bridge for a stream. *)
LEMMA TakesFrame ==
  ASSUME IInv, RInv, NEW b \in Sessions, NEW f \in Frames,
         UNCHANGED <<bridge, lock, streams, closed, serve, up, inbox, link, client, sent>>,
         UNCHANGED <<session, known, owner, writer, reader>>,
         demux[b].pc = "read", down[b] # <<>>, f = Head(down[b]),
         DemuxAt(b, "send", f, demux[b].todo),
         down'[b] = Tail(down[b]), \A a \in Sessions \ {b} : down'[a] = down[a]
  PROVE  RInv'
<1>1. /\ demux'[b].pc = "send" /\ demux'[b].f = f /\ \A a \in Sessions \ {b} : demux'[a] = demux[a]
      /\ \A a \in Sessions : demux'[a].todo = demux[a].todo
  BY DEF DemuxAt
<1>2. down[b] \in Seq(Frames) /\ f.s \in Streams
  BY QueueTypes DEF Frames
<1>3. /\ Len(down[b]) \in Nat \ {0} /\ f = down[b][1]
      /\ \A i \in 1..Len(down'[b]) : i + 1 \in 1..Len(down[b]) /\ down'[b][i] = down[b][i + 1]
  BY <1>2, QueueTail
<1>4. From(b, f.s)
  BY <1>3 DEF RInv, DownHome, DownHomeAt
<1>5. SessionInv'
  BY <1>1, SessionIdle DEF RInv, SessionSteady
<1>6. DownHome'
  <2> SUFFICES ASSUME NEW a \in Sessions PROVE DownHomeAt(a)'
    BY DEF DownHome
  <2>1. DownHomeAt(a)
    BY DEF RInv, DownHome
  <2>2. CASE a = b
    <3>1. \A i \in 1..Len(down'[b]) : From(b, down'[b][i].s)
      BY <1>3, <2>1, <2>2 DEF DownHomeAt
    <3>2. \A r : Goes(b, r) <=> From(b, r)
      BY DEF From, Goes
    <3>3. session'[b].pc = "refuse" =>
            /\ Goes(b, session'[b].f.s) /\ owner'[session'[b].f.s] = None
            /\ \A i \in 1..Len(up'[b]) : up'[b][i].kind = "accepted" => up'[b][i].s # session'[b].f.s
      BY <2>1, <2>2, <3>2 DEF DownHomeAt
    <3>4. demux'[b].pc = "send" => Goes(b, demux'[b].f.s)
      BY <1>1, <1>4, <3>2
    <3>5. \A i \in 1..Len(down'[b]) : Goes(b, down'[b][i].s)
      BY <3>1, <3>2
    <3> QED
      BY <2>2, <3>3, <3>4, <3>5 DEF DownHomeAt, From, Goes
  <2>3. CASE a # b
    BY <1>1, <2>1, <2>3 DEF DownHomeAt, From
  <2> QED
    BY <2>2, <2>3
<1>7. ASSUME NEW s \in Streams PROVE PeerAt(s)'
  <2>1. PeerSteady(s)
    BY <1>1 DEF PeerSteady, InTodo
  <2> QED
    BY <2>1, PeerIdle DEF RInv, PeerInv
<1>8. ASSUME NEW s \in Streams PROVE OpeningAt(s)'
  <2>1. (Held(s)' <=> Held(s)) /\ (Producing(s)' <=> Producing(s))
    BY <1>1 DEF Held, InTodo, Producing, Announced, Refusing
  <2>2. CASE s = f.s /\ serve[s].pc = "opened"
    <3>1. serve[s].home = b
      BY <1>4, <2>2 DEF From
    <3>2. OpeningAt(s)
      BY DEF RInv, OpeningInv
    <3>3. InDown(b, s)
      BY <1>3, <2>2 DEF InDown
    <3>4. ~Producing(s) /\ Once(down[b], s) /\ reader[s] # "send"
      BY <2>2, <3>1, <3>2, <3>3 DEF OpeningAt, OnTheWay
    <3>5. Len(inbox[s]) <= (IF Held(s) THEN 0 ELSE 1)
      BY <2>2, <3>1, <3>2, <3>3 DEF OpeningAt, OnTheWay
    <3>6. \A i \in 1..Len(down'[b]) : down'[b][i].s # s
      <4> SUFFICES ASSUME NEW i \in 1..Len(down'[b]), down'[b][i].s = s PROVE FALSE
        OBVIOUS
      <4>1. i + 1 \in 1..Len(down[b]) /\ down[b][i + 1].s = s /\ 1 \in 1..Len(down[b]) /\ down[b][1].s = s
        BY <1>3, <2>2
      <4>2. i + 1 = 1
        BY <3>4, <4>1 DEF Once
      <4> QED
        BY <4>2
    <3>7. inbox[s] \in Seq(Frames) /\ Len(inbox[s]) \in Nat
      BY DEF IInv, Shapes, ShapesOfChannels
    <3>8. Len(inbox[s]) <= (IF Held(s) THEN 0 ELSE 1) + 1
      BY <3>5, <3>7
    <3>9. Once(down'[b], s)
      BY <3>6 DEF Once
    <3>10. ~InDown(b, s)'
      BY <3>6 DEF InDown
    <3>11. serve'[s].pc = "opened" /\ serve'[s].home = b /\ inbox'[s] = inbox[s] /\ reader'[s] = reader[s]
      BY <2>2, <3>1
    <3>12. /\ ~Producing(s)' /\ reader'[s] # "send"
           /\ Len(inbox'[s]) <= (IF Held(s)' THEN 0 ELSE 1)
           /\ Len(inbox'[s]) <= (IF Held(s)' THEN 0 ELSE 1) + 1
      BY <2>1, <3>4, <3>5, <3>8, <3>11
    <3> QED
      BY <3>9, <3>10, <3>11, <3>12 DEF OpeningAt, InDown, Once
  <2>3. CASE ~(s = f.s /\ serve[s].pc = "opened")
    <3>1. \A a \in Sessions : Fewer(down'[a], down[a], s)
      <4>1. Shorter(down'[b], down[b])
        BY DEF Shorter
      <4>2. Fewer(down'[b], down[b], s)
        BY <1>2, <4>1, ShorterFrames
      <4>3. \A a \in Sessions \ {b} : Fewer(down'[a], down[a], s)
        BY DEF Fewer
      <4> QED
        BY <4>2, <4>3
    <3>2. serve[s].pc = "opened" => serve[s].home \in Sessions
      BY HomeOf
    <3>3. serve[s].pc = "opened" =>
            (demux'[serve[s].home].pc = "send" /\ demux'[serve[s].home].f.s = s => InHand(serve[s].home, s))
      BY <1>1, <2>3, <3>2 DEF InHand
    <3>4. serve'[s] = serve[s] /\ inbox'[s] = inbox[s] /\ reader'[s] = reader[s]
      OBVIOUS
    <3>5. serve[s].pc = "opened" => Fewer(down'[serve[s].home], down[serve[s].home], s)
      BY <3>1, <3>2
    <3>6. OpeningSteady(s)
      BY <2>1, <3>3, <3>4, <3>5 DEF OpeningSteady
    <3> QED
      BY <3>6, OpeningIdle DEF RInv, OpeningInv
  <2> QED
    BY <2>2, <2>3
<1>9. ASSUME NEW s \in Streams PROVE LateAt(s)'
  <2>1. LateSteady(s)
    BY <1>1 DEF LateSteady, Standing
  <2> QED
    BY <2>1, LateIdle DEF RInv, LateInv
<1>10. ASSUME NEW s \in Streams PROVE EndAt(s)'
  BY EndsElsewhere
<1> QED
  BY <1>5, <1>6, <1>7, <1>8, <1>9, <1>10 DEF RInv, PeerInv, OpeningInv, LateInv, EndInv

(* The relay reads what the bridge sent, or finds the connection broken. *)
LEMMA DemuxReadRests ==
  ASSUME IInv, RInv, NEW b \in Sessions, DemuxRead(b), UNCHANGED bridgeVars
  PROVE  RInv'
<1>1. /\ UNCHANGED <<bridge, lock, streams, closed, serve, up, inbox, link, client, sent>>
      /\ UNCHANGED <<session, known, owner, writer, reader>>
      /\ demux[b].pc = "read"
  BY DEF DemuxRead, bridgeVars
<1>2. /\ down \in [Sessions -> Seq(Frames)] /\ down[b] \in Seq(Frames)
      /\ demux[b].f \in Frames \cup {None} /\ demux[b].todo \in SUBSET Streams
  <2>1. demux[b] \in Demuxes
    BY DEF IInv, Shapes, ShapesOfRelay
  <2> QED
    BY <2>1 DEF IInv, Shapes, ShapesOfChannels, Demuxes
<1>3. CASE /\ down[b] # <<>> /\ down' = [down EXCEPT ![b] = Tail(@)]
           /\ demux' = [demux EXCEPT ![b].pc = "send", ![b].f = Head(down[b])]
  <2>1. PICK f \in Frames : f = Head(down[b])
    BY <1>2, <1>3, QueueTail
  <2>2. down'[b] = Tail(down[b]) /\ \A a \in Sessions \ {b} : down'[a] = down[a]
    BY <1>2, <1>3
  <2>3. DemuxAt(b, "send", f, demux[b].todo)
    BY <1>2, <1>3, <2>1, DemuxMoves DEF IInv, Shapes, DemuxPCs
  <2> QED
    BY <1>1, <1>3, <2>1, <2>2, <2>3, TakesFrame
<1>4. CASE down[b] # <<>> /\ down' = [down EXCEPT ![b] = Tail(@)] /\ demux' = demux
  <2>1. \A a \in Sessions : Shorter(down'[a], down[a]) /\ Shorter(up'[a], up[a])
    BY <1>1, <1>2, <1>4 DEF Shorter
  <2>2. SessionInv'
    BY <1>1, <1>4, SessionIdle DEF RInv, SessionSteady
  <2> QED
    BY <1>1, <1>4, <2>1, <2>2, RelayIdle DEF Standing
<1>5. CASE link[b] = "broken" /\ DemuxTo(b, "end") /\ down' = [down EXCEPT ![b] = <<>>]
  <2>1. \A a \in Sessions : Shorter(down'[a], down[a]) /\ Shorter(up'[a], up[a])
    BY <1>1, <1>2, <1>5 DEF Shorter
  <2>2. DemuxAt(b, "end", demux[b].f, demux[b].todo)
    BY <1>2, <1>5, DemuxMoves DEF IInv, Shapes, DemuxPCs, DemuxTo
  <2>3. /\ demux'[b].pc = "end" /\ \A a \in Sessions \ {b} : demux'[a] = demux[a]
        /\ \A a \in Sessions : demux'[a].todo = demux[a].todo
    BY <2>2 DEF DemuxAt
  <2>4. SessionInv'
    <3> SUFFICES ASSUME NEW a \in Sessions PROVE SessionInvAt(a)'
      BY DEF SessionInv
    <3>1. SessionInvAt(a)
      BY DEF RInv, SessionInv
    <3>2. CASE a = b
      BY <1>1, <1>5, <2>3, <3>1, <3>2 DEF SessionInvAt, Standing, Alive
    <3>3. CASE a # b
      BY <1>1, <2>3, <3>1, <3>3 DEF SessionInvAt, Standing, Alive
    <3> QED
      BY <3>2, <3>3
  <2>5. \A a \in Sessions :
          /\ demux'[a].pc = "send" => demux[a].pc = "send" /\ demux'[a].f = demux[a].f
          /\ demux'[a].pc \in {"tear", "done"} => demux[a].pc \in {"tear", "done"}
          /\ Standing(a) => Standing(a)'
    BY <2>3 DEF Standing
  <2> QED
    BY <1>1, <2>1, <2>3, <2>4, <2>5, RelayIdle
<1> QED
  BY <1>3, <1>4, <1>5 DEF DemuxRead

(* Frame f is put into the queue of its connector. *)
Delivered(s, f) ==
  /\ inbox[s] \in Seq(Frames) /\ inbox'[s] = Append(inbox[s], f)
  /\ \A r \in Streams : r # s => inbox'[r] = inbox[r]

(* The queue is no longer empty, what was in it still is, and f is in it. *)
LEMMA DeliveredFrames ==
  ASSUME NEW s \in Streams, NEW f \in Frames, Delivered(s, f)
  PROVE  /\ inbox'[s] # <<>> /\ Len(inbox[s]) \in Nat /\ Len(inbox'[s]) = Len(inbox[s]) + 1
         /\ (\E i \in 1..Len(inbox[s]) : Terminal(inbox[s][i])) =>
              \E i \in 1..Len(inbox'[s]) : Terminal(inbox'[s][i])
         /\ Terminal(f) => \E i \in 1..Len(inbox'[s]) : Terminal(inbox'[s][i])
<1>1. /\ Len(inbox[s]) \in Nat /\ Len(inbox'[s]) = Len(inbox[s]) + 1
      /\ \A i \in 1..Len(inbox[s]) : inbox'[s][i] = inbox[s][i]
      /\ inbox'[s][Len(inbox[s]) + 1] = f
  BY QueueAppend DEF Delivered
<1>2. \A i \in 1..Len(inbox[s]) : i \in 1..Len(inbox'[s])
  BY <1>1
<1>3. Len(inbox[s]) + 1 \in 1..Len(inbox'[s])
  BY <1>1
<1>4. inbox'[s] # <<>>
  BY <1>1
<1> QED
  BY <1>1, <1>2, <1>3, <1>4

(* The relay delivers a frame, and ends the stream with it when it is terminal. *)
LEMMA DeliverRests ==
  ASSUME IInv, RInv, NEW b \in Sessions, NEW f \in Frames, NEW s \in Streams, s = f.s,
         UNCHANGED <<bridge, lock, closed, serve, up, down, link, client, sent>>,
         UNCHANGED <<session, known, owner, writer, reader>>,
         demux[b].pc = "send", demux[b].f = f, DemuxAt(b, "read", None, demux[b].todo),
         \/ UNCHANGED <<inbox, streams>>
         \/ Delivered(s, f) /\ streams' = IF Terminal(f) THEN streams \ {s} ELSE streams
  PROVE  RInv'
<1>1. /\ demux'[b].pc = "read" /\ \A a \in Sessions \ {b} : demux'[a] = demux[a]
      /\ \A a \in Sessions : demux'[a].todo = demux[a].todo
  BY DEF DemuxAt
<1>2. From(b, s) /\ serve[s].home = b /\ serve[s].pc \notin Unannounced
  BY DEF RInv, DownHome, DownHomeAt, From
<1>3. \A r \in Streams : (InTodo(r)' <=> InTodo(r)) /\ (r \in streams' => r \in streams)
  BY <1>1 DEF InTodo
<1>4. SessionInv'
  BY <1>1, SessionIdle DEF RInv, SessionSteady
<1>5. DownHome'
  <2>1. GoesOn
    BY DEF GoesOn, Goes, From
  <2>2. \A a \in Sessions : DownSteadyAt(a)
    BY <1>1 DEF DownSteadyAt, Shorter
  <2> QED
    BY <2>1, <2>2, DownIdleAt DEF RInv, DownHome
<1>6. ASSUME NEW r \in Streams PROVE PeerAt(r)'
  <2>1. CASE r # s \/ UNCHANGED <<inbox, streams>>
    <3>1. inbox'[r] = inbox[r] /\ (r \in streams' <=> r \in streams)
      BY <2>1 DEF Delivered
    <3>2. PeerSteady(r)
      BY <1>3, <3>1 DEF PeerSteady
    <3> QED
      BY <3>2, PeerIdle DEF RInv, PeerInv
  <2>2. CASE r = s /\ Delivered(s, f) /\ streams' = IF Terminal(f) THEN streams \ {s} ELSE streams
    <3>1. PeerAt(s)
      BY DEF RInv, PeerInv
    <3>2. /\ inbox'[s] # <<>>
          /\ (\E i \in 1..Len(inbox[s]) : Terminal(inbox[s][i])) =>
               \E i \in 1..Len(inbox'[s]) : Terminal(inbox'[s][i])
          /\ Terminal(f) => \E i \in 1..Len(inbox'[s]) : Terminal(inbox'[s][i])
      BY <2>2, DeliveredFrames
    <3>3. ~Terminal(f) => (Held(s)' <=> Held(s))
      BY <1>3, <2>2 DEF Held
    <3>4. client[s] \in {"waiting", "up"} /\ serve[s].pc \in {"accept", "opened", "read", "lookup", "send"} =>
            Held(s)' \/ \E i \in 1..Len(inbox'[s]) : Terminal(inbox'[s][i])
      BY <3>1, <3>2, <3>3 DEF PeerAt
    <3>5. InTodo(s)' => s \notin streams'
      BY <1>3, <3>1 DEF PeerAt
    <3>6. serve[s].pc \notin {"none", "insert"}
      BY <1>2 DEF Unannounced
    <3>7. serve' = serve /\ client' = client /\ link' = link /\ (Opening(s)' <=> Opening(s))
      BY DEF Opening
    <3>8. /\ serve[s].pc = "send" => link[serve[s].via] # "none"
          /\ Opening(s) => client[s] = "waiting"
          /\ serve[s].pc = "cancelled" => client[s] = "gone"
      BY <3>1 DEF PeerAt
    <3> QED
      BY <2>2, <3>2, <3>4, <3>5, <3>6, <3>7, <3>8 DEF PeerAt
  <2> QED
    BY <2>1, <2>2
<1>7. ASSUME NEW r \in Streams PROVE OpeningAt(r)'
  <2>1. (Held(r)' => Held(r)) /\ (Producing(r)' <=> Producing(r))
    BY <1>1, <1>3 DEF Held, Producing, Announced, Refusing
  <2>2. CASE r = s /\ serve[s].pc = "opened" /\ Delivered(s, f)
    <3>1. OpeningAt(s) /\ InHand(b, s)
      BY DEF RInv, OpeningInv, InHand
    <3>2. /\ ~Producing(s) /\ Once(down[b], s) /\ reader[s] # "send" /\ ~InDown(b, s)
          /\ Len(inbox[s]) <= (IF Held(s) THEN 0 ELSE 1)
      BY <1>2, <2>2, <3>1 DEF OpeningAt, OnTheWay
    <3>3. Len(inbox'[s]) = Len(inbox[s]) + 1 /\ Len(inbox[s]) \in Nat
      BY <2>2, DeliveredFrames
    <3>4. Len(inbox'[s]) <= (IF Held(s)' THEN 0 ELSE 1) + 1
      BY <2>1, <2>2, <3>2, <3>3
    <3>5. ~InHand(b, s)' /\ ~InDown(b, s)' /\ Once(down'[b], s)
      BY <1>1, <3>2 DEF InHand, InDown
    <3>6. serve'[s].pc = "opened" /\ serve'[s].home = b /\ ~Producing(s)' /\ reader'[s] # "send"
      BY <1>2, <2>1, <2>2, <3>2
    <3>7. ~OnTheWay(s)'
      BY <1>1, <3>5, <3>6 DEF OnTheWay, InHand, InDown
    <3> QED
      BY <2>2, <3>4, <3>5, <3>6, <3>7 DEF OpeningAt, Once, InHand
  <2>3. CASE ~(r = s /\ serve[s].pc = "opened" /\ Delivered(s, f))
    <3>1. serve[r].pc \in {"accept", "opened"} => inbox'[r] = inbox[r]
      BY <1>2, <2>3 DEF Unannounced, Delivered
    <3>2. serve[r].pc = "opened" => serve[r].home \in Sessions
      BY HomeOf
    <3>3. serve[r].pc = "opened" =>
            (demux'[serve[r].home].pc = "send" /\ demux'[serve[r].home].f.s = r => InHand(serve[r].home, r))
      BY <1>1, <3>2 DEF InHand
    <3>4. OpeningSteady(r)
      BY <2>1, <3>1, <3>3 DEF OpeningSteady, Fewer
    <3> QED
      BY <3>4, OpeningIdle DEF RInv, OpeningInv
  <2> QED
    BY <2>2, <2>3
<1>8. ASSUME NEW r \in Streams PROVE LateAt(r)'
  <2>1. LateSteady(r)
    BY <1>1, <1>3 DEF LateSteady, Standing
  <2> QED
    BY <2>1, LateIdle DEF RInv, LateInv
<1>9. ASSUME NEW r \in Streams PROVE EndAt(r)'
  BY EndsElsewhere
<1> QED
  BY <1>4, <1>5, <1>6, <1>7, <1>8, <1>9 DEF RInv, PeerInv, OpeningInv, LateInv, EndInv

(* Every delivery. *)
LEMMA DemuxSendRests ==
  ASSUME IInv, RInv, NEW b \in Sessions, DemuxSend(b), UNCHANGED bridgeVars
  PROVE  RInv'
<1>1. /\ UNCHANGED <<bridge, lock, closed, serve, up, down, link, client, sent>>
      /\ UNCHANGED <<session, known, owner, writer, reader>>
      /\ demux[b].pc = "send"
  BY DEF DemuxSend, bridgeVars
<1>2. PICK f \in Frames : f = demux[b].f
  BY <1>1 DEF IInv, HandInv
<1>3. PICK s \in Streams : s = f.s
  BY DEF Frames
<1>4. DemuxAt(b, "read", None, demux[b].todo)
  <2>1. demux[b] \in Demuxes
    BY DEF IInv, Shapes, ShapesOfRelay
  <2>2. demux[b].todo \in SUBSET Streams /\ None \in Frames \cup {None}
    BY <2>1 DEF Demuxes
  <2> QED
    BY <2>2, DemuxMoves DEF IInv, Shapes, DemuxPCs, DemuxSend
<1>5. CASE UNCHANGED <<inbox, streams>>
  BY <1>1, <1>2, <1>3, <1>4, <1>5, DeliverRests
<1>6. CASE /\ Room(inbox[s], RelayCap) /\ inbox' = [inbox EXCEPT ![s] = Append(@, f)]
           /\ streams' = IF Terminal(f) THEN streams \ {s} ELSE streams
  <2>1. Delivered(s, f)
    BY <1>3, <1>6, InboxAppend DEF Delivered
  <2> QED
    BY <1>1, <1>2, <1>3, <1>4, <1>6, <2>1, DeliverRests
<1> QED
  BY <1>2, <1>3, <1>5, <1>6 DEF DemuxSend

(* The streams of the map become those the teardown has to tell. *)
LEMMA TeardownRests ==
  ASSUME IInv, RInv, NEW b \in Sessions, Teardown(b), UNCHANGED bridgeVars
  PROVE  RInv'
<1>1. /\ UNCHANGED <<closed, serve, up, down, inbox, link, client, sent>>
      /\ UNCHANGED <<session, known, owner, writer, reader>>
      /\ demux[b].pc = "end" /\ streams' = {} /\ bridge' = IF bridge = b THEN None ELSE bridge
  BY DEF Teardown, channelVars, bridgeVars
<1>2. DemuxAt(b, "tear", demux[b].f, streams)
  <2>1. demux[b] \in Demuxes /\ streams \in SUBSET Streams
    BY DEF IInv, Shapes, ShapesOfRelay
  <2>2. demux[b].f \in Frames \cup {None}
    BY <2>1 DEF Demuxes
  <2> QED
    BY <2>1, <2>2, DemuxMoves DEF IInv, Shapes, DemuxPCs, Teardown
<1>3. /\ demux'[b].pc = "tear" /\ demux'[b].todo = streams
      /\ \A a \in Sessions \ {b} : demux'[a] = demux[a]
  BY <1>2 DEF DemuxAt
<1>4. demux[b].todo = {} /\ link[b] = "broken"
  <2>1. SessionInvAt(b)
    BY DEF RInv, SessionInv
  <2> QED
    BY <1>1, <2>1 DEF SessionInvAt, IInv, Shapes, ShapesOfChannels
<1>5. SessionInv'
  <2> SUFFICES ASSUME NEW a \in Sessions PROVE SessionInvAt(a)'
    BY DEF SessionInv
  <2>1. SessionInvAt(a)
    BY DEF RInv, SessionInv
  <2>2. CASE a = b
    <3>1. bridge' # b
      BY <1>1, QueueTypes
    <3> QED
      BY <1>1, <1>3, <1>4, <2>1, <2>2, <3>1 DEF SessionInvAt, Standing, Alive
  <2>3. CASE a # b
    <3>1. bridge' = a <=> bridge = a
      BY <1>1, <2>3, QueueTypes
    <3> QED
      BY <1>1, <1>3, <2>1, <2>3, <3>1 DEF SessionInvAt, Standing, Alive
  <2> QED
    BY <2>2, <2>3
<1>6. DownHome'
  <2>1. GoesOn
    BY <1>1 DEF GoesOn, Goes, From
  <2>2. \A a \in Sessions : DownSteadyAt(a)
    BY <1>1, <1>3 DEF DownSteadyAt, Shorter
  <2> QED
    BY <2>1, <2>2, DownIdleAt DEF RInv, DownHome
<1>7. \A s \in Streams : Held(s)' <=> Held(s)
  <2>1. \A s \in Streams : InTodo(s)' <=> InTodo(s) \/ s \in streams
    BY <1>3, <1>4 DEF InTodo
  <2> QED
    BY <1>1, <2>1 DEF Held
<1>8. ASSUME NEW s \in Streams PROVE PeerAt(s)'
  <2>1. PeerAt(s)
    BY DEF RInv, PeerInv
  <2>2. Opening(s)' <=> Opening(s)
    BY <1>1 DEF Opening
  <2> QED
    BY <1>1, <1>7, <2>1, <2>2 DEF PeerAt
<1>9. ASSUME NEW s \in Streams PROVE OpeningAt(s)'
  <2>1. Producing(s)' <=> Producing(s)
    BY <1>1 DEF Producing, Announced, Refusing
  <2>2. serve[s].pc = "opened" => serve[s].home \in Sessions
    BY HomeOf
  <2>3. OpeningSteady(s)
    BY <1>1, <1>3, <1>7, <2>1, <2>2 DEF OpeningSteady, InHand, Fewer
  <2> QED
    BY <2>3, OpeningIdle DEF RInv, OpeningInv
<1>10. ASSUME NEW s \in Streams PROVE LateAt(s)'
  BY <1>1 DEF LateAt
<1>11. ASSUME NEW s \in Streams PROVE EndAt(s)'
  BY <1>1, EndsElsewhere
<1> QED
  BY <1>5, <1>6, <1>8, <1>9, <1>10, <1>11 DEF RInv, PeerInv, OpeningInv, LateInv, EndInv

(* A stream of the teardown is told, or its connector is gone. *)
LEMMA TeardownSendRests ==
  ASSUME IInv, RInv, NEW b \in Sessions, TeardownSend(b), UNCHANGED bridgeVars
  PROVE  RInv'
<1>1. /\ UNCHANGED <<bridge, lock, streams, closed, serve, up, down, link, client, sent>>
      /\ UNCHANGED <<session, known, owner, writer, reader>> /\ demux[b].pc = "tear"
  BY DEF TeardownSend, bridgeVars
<1>2. demux[b] \in Demuxes
  BY DEF IInv, Shapes, ShapesOfRelay
<1>3. demux[b].todo \in SUBSET Streams /\ demux[b].f \in Frames \cup {None}
  BY <1>2 DEF Demuxes
<1>4. PICK s \in Streams :
        /\ s \in demux[b].todo
        /\ \/ client[s] = "gone" /\ UNCHANGED inbox
           \/ /\ client[s] # "gone" /\ Room(inbox[s], RelayCap)
              /\ inbox' = [inbox EXCEPT ![s] = Append(@, Frame("error", s))]
        /\ demux' = [demux EXCEPT ![b].todo = @ \ {s}]
  BY <1>3 DEF TeardownSend
<1>5. PICK f \in Frames : f = Frame("error", s)
  BY PlainFrame
<1>6. f.s = s /\ Terminal(f)
  BY <1>5 DEF Frame, Terminal
<1>7. DemuxAt(b, demux[b].pc, demux[b].f, demux[b].todo \ {s})
  <2>1. demux[b].todo \ {s} \in SUBSET Streams /\ demux[b].pc \in DemuxPCs
    BY <1>1, <1>3 DEF DemuxPCs
  <2>2. demux' = [demux EXCEPT ![b].todo = demux[b].todo \ {s}]
    BY <1>4 DEF IInv, Shapes, ShapesOfRelay
  <2> QED
    BY <1>3, <2>1, <2>2, DemuxMoves DEF IInv, Shapes
<1>8. /\ \A a \in Sessions : demux'[a].pc = demux[a].pc /\ demux'[a].f = demux[a].f
      /\ demux'[b].todo = demux[b].todo \ {s}
      /\ \A a \in Sessions \ {b} : demux'[a].todo = demux[a].todo
  BY <1>7 DEF DemuxAt
<1>9. \A a \in Sessions \ {b} : demux[a].todo = {}
  <2> SUFFICES ASSUME NEW a \in Sessions \ {b} PROVE demux[a].todo = {}
    OBVIOUS
  <2>1. demux[a].pc # "tear"
    BY <1>1 DEF IInv, LockInv
  <2> QED
    BY <2>1 DEF RInv, SessionInv, SessionInvAt
<1>10. /\ ~InTodo(s)' /\ InTodo(s)
       /\ \A r \in Streams : r # s => (InTodo(r)' <=> InTodo(r))
  <2>1. InTodo(s)
    BY <1>4 DEF InTodo
  <2>2. ~InTodo(s)'
    BY <1>8, <1>9 DEF InTodo
  <2>3. \A r \in Streams : r # s => (InTodo(r)' <=> InTodo(r))
    BY <1>8 DEF InTodo
  <2> QED
    BY <2>1, <2>2, <2>3
<1>11. PeerAt(s) /\ s \notin streams /\ serve[s].pc \notin {"none", "insert"}
  <2>1. PeerAt(s)
    BY DEF RInv, PeerInv
  <2> QED
    BY <1>10, <2>1 DEF PeerAt, Held
<1>12. Held(s) /\ ~Held(s)'
  BY <1>1, <1>10, <1>11 DEF Held
<1>13. \A r \in Streams : r # s => inbox'[r] = inbox[r] /\ (Held(r)' <=> Held(r))
  <2>1. inbox \in [Streams -> Seq(Frames)]
    BY DEF IInv, Shapes, ShapesOfChannels
  <2>2. \A r \in Streams : r # s => inbox'[r] = inbox[r]
    BY <1>4, <2>1
  <2> QED
    BY <1>1, <1>10, <2>2 DEF Held
<1>14. (client[s] = "gone" /\ inbox' = inbox) \/ Delivered(s, f)
  BY <1>4, <1>5, <1>6, InboxAppend DEF Delivered
<1>15. SessionInv'
  <2> SUFFICES ASSUME NEW a \in Sessions PROVE SessionInvAt(a)'
    BY DEF SessionInv
  <2>1. SessionInvAt(a)
    BY DEF RInv, SessionInv
  <2>2. demux'[a].pc # "tear" => demux'[a].todo = {}
    BY <1>1, <1>8, <1>9
  <2> QED
    BY <1>1, <1>8, <2>1, <2>2 DEF SessionInvAt, Standing, Alive
<1>16. DownHome'
  <2>1. GoesOn
    BY <1>1 DEF GoesOn, Goes, From
  <2>2. \A a \in Sessions : DownSteadyAt(a)
    BY <1>1, <1>8 DEF DownSteadyAt, Shorter
  <2> QED
    BY <2>1, <2>2, DownIdleAt DEF RInv, DownHome
<1>17. ASSUME NEW r \in Streams PROVE PeerAt(r)'
  <2>1. CASE r # s
    <3>1. PeerSteady(r)
      BY <1>1, <1>10, <1>13, <2>1 DEF PeerSteady
    <3> QED
      BY <3>1, PeerIdle DEF RInv, PeerInv
  <2>2. CASE r = s
    <3>1. serve' = serve /\ client' = client /\ link' = link /\ (Opening(s)' <=> Opening(s))
      BY <1>1 DEF Opening
    <3>2. client[s] # "gone" => inbox'[s] # <<>> /\ \E i \in 1..Len(inbox'[s]) : Terminal(inbox'[s][i])
      BY <1>6, <1>14, DeliveredFrames
    <3>3. /\ serve[s].pc = "send" => link[serve[s].via] # "none"
          /\ Opening(s) => client[s] = "waiting"
          /\ serve[s].pc = "cancelled" => client[s] = "gone"
      BY <1>11 DEF PeerAt
    <3>4. ~InTodo(s)'
      BY <1>10
    <3> QED
      BY <1>11, <2>2, <3>1, <3>2, <3>3, <3>4 DEF PeerAt
  <2> QED
    BY <2>1, <2>2
<1>18. ASSUME NEW r \in Streams PROVE OpeningAt(r)'
  <2>1. Producing(r)' <=> Producing(r)
    BY <1>1 DEF Producing, Announced, Refusing
  <2>2. serve[r].pc = "opened" => serve[r].home \in Sessions
    BY HomeOf
  <2>3. CASE r # s \/ inbox' = inbox
    <3>1. inbox'[r] = inbox[r] /\ (Held(r)' => Held(r))
      BY <1>12, <1>13, <2>3
    <3>2. OpeningSteady(r)
      BY <1>1, <1>8, <2>1, <2>2, <3>1 DEF OpeningSteady, InHand, Fewer
    <3> QED
      BY <3>2, OpeningIdle DEF RInv, OpeningInv
  <2>4. CASE r = s /\ Delivered(s, f)
    <3> DEFINE h == serve[s].home
    <3>1. OpeningAt(s)
      BY DEF RInv, OpeningInv
    <3>2. Len(inbox'[s]) = Len(inbox[s]) + 1 /\ Len(inbox[s]) \in Nat
      BY <2>4, DeliveredFrames
    <3>3. serve[s].pc = "accept" => Len(inbox'[s]) <= 1
      BY <1>12, <3>1, <3>2 DEF OpeningAt
    <3>4. ASSUME serve[s].pc = "opened"
          PROVE  /\ reader'[s] # "send"
                 /\ Producing(s)' => ~OnTheWay(s)'
                 /\ Producing(s)' \/ OnTheWay(s)' => Len(inbox'[s]) <= 1
                 /\ InHand(h, s)' => ~InDown(h, s)'
                 /\ Once(down'[h], s)
                 /\ Len(inbox'[s]) <= 2
      <4>1. /\ reader[s] # "send"
            /\ Producing(s) => ~OnTheWay(s)
            /\ Producing(s) \/ OnTheWay(s) => Len(inbox[s]) <= 0
            /\ InHand(h, s) => ~InDown(h, s)
            /\ Once(down[h], s)
            /\ Len(inbox[s]) <= 0 + 1
        BY <1>12, <3>1, <3>4 DEF OpeningAt
      <4>2. h \in Sessions /\ serve'[s].home = h
        BY <1>1, <2>2, <2>4, <3>4
      <4>3. (InHand(h, s)' <=> InHand(h, s)) /\ (InDown(h, s)' <=> InDown(h, s))
        BY <1>1, <1>8, <4>2 DEF InHand, InDown
      <4>4. OnTheWay(s)' <=> OnTheWay(s)
        BY <1>1, <1>8, <4>2 DEF OnTheWay, InHand, InDown
      <4>5. (Len(inbox[s]) <= 0 => Len(inbox'[s]) <= 1) /\ Len(inbox'[s]) <= 2
        BY <3>2, <4>1
      <4> QED
        BY <1>1, <2>1, <2>4, <4>1, <4>3, <4>4, <4>5
    <3>5. serve' = serve
      BY <1>1
    <3> QED
      BY <1>12, <2>4, <3>3, <3>4, <3>5 DEF OpeningAt, Once
  <2> QED
    BY <1>14, <2>3, <2>4
<1>19. ASSUME NEW r \in Streams PROVE LateAt(r)'
  <2>1. LateSteady(r)
    BY <1>1, <1>8 DEF LateSteady, Standing
  <2> QED
    BY <2>1, LateIdle DEF RInv, LateInv
<1>20. ASSUME NEW r \in Streams PROVE EndAt(r)'
  BY <1>1, EndsElsewhere
<1> QED
  BY <1>15, <1>16, <1>17, <1>18, <1>19, <1>20 DEF RInv, PeerInv, OpeningInv, LateInv, EndInv

-----------------------------------------------------------------------------
(* The task of a stream at the relay. *)

(* The queue to session b as a step of stream s leaves it. *)
UpGrows(b, s) ==
  \/ up'[b] = up[b]
  \/ \E f \in Frames :
       /\ f.s = s /\ (f.kind = "accepted" => serve[s].pc \in Unannounced)
       /\ up'[b] = Append(up[b], f)

(* It is the same for the other streams. *)
LEMMA GrowsForOthers ==
  ASSUME IInv, NEW b \in Sessions, NEW s \in Streams, UpGrows(b, s)
  PROVE  /\ \A i \in 1..Len(up[b]) : i \in 1..Len(up'[b]) /\ up'[b][i] = up[b][i]
         /\ \A i \in 1..Len(up'[b]) :
              \/ i \in 1..Len(up[b])
              \/ up'[b][i].s = s /\ (up'[b][i].kind = "accepted" => serve[s].pc \in Unannounced)
<1>1. up[b] \in Seq(Frames)
  BY QueueTypes
<1>2. CASE up'[b] = up[b]
  BY <1>2
<1>3. ASSUME NEW f \in Frames, f.s = s, f.kind = "accepted" => serve[s].pc \in Unannounced,
             up'[b] = Append(up[b], f)
      PROVE  /\ \A i \in 1..Len(up[b]) : i \in 1..Len(up'[b]) /\ up'[b][i] = up[b][i]
             /\ \A i \in 1..Len(up'[b]) :
                  \/ i \in 1..Len(up[b])
                  \/ up'[b][i].s = s /\ (up'[b][i].kind = "accepted" => serve[s].pc \in Unannounced)
  <2>1. /\ Len(up[b]) \in Nat /\ Len(up'[b]) = Len(up[b]) + 1
        /\ \A i \in 1..Len(up[b]) : up'[b][i] = up[b][i]
        /\ up'[b][Len(up[b]) + 1] = f
    BY <1>1, <1>3, QueueAppend
  <2>2. \A i \in 1..Len(up[b]) : i \in 1..Len(up'[b])
    BY <2>1
  <2>3. \A i \in 1..Len(up'[b]) : i \in 1..Len(up[b]) \/ i = Len(up[b]) + 1
    BY <2>1
  <2> QED
    BY <1>3, <2>1, <2>2, <2>3
<1> QED
  BY <1>2, <1>3 DEF UpGrows

(* A step of the task of stream s is about nothing of the others. *)
TaskGoes(s) ==
  /\ UNCHANGED <<bridge, lock, closed, demux, down, link, bridgeVars>>
  /\ \A r \in Streams \ {s} :
       /\ serve'[r] = serve[r] /\ client'[r] = client[r] /\ inbox'[r] = inbox[r]
       /\ sent'[<<r, "up">>] = sent[<<r, "up">>] /\ (r \in streams' <=> r \in streams)
  /\ \A b \in Sessions : UpGrows(b, s) /\ (From(b, s) => Goes(b, s))

(* What it does to the stream itself is for the step to show. *)
LEMMA TaskGoesOn ==
  ASSUME IInv, RInv, NEW s \in Streams, TaskGoes(s), PeerAt(s)', OpeningAt(s)', LateAt(s)', EndAt(s)'
  PROVE  RInv'
<1>1. /\ UNCHANGED <<bridge, lock, closed, demux, down, link, session, known, owner, writer, reader>>
      /\ \A r \in Streams \ {s} :
           /\ serve'[r] = serve[r] /\ client'[r] = client[r] /\ inbox'[r] = inbox[r]
           /\ sent'[<<r, "up">>] = sent[<<r, "up">>] /\ (r \in streams' <=> r \in streams)
      /\ \A b \in Sessions : UpGrows(b, s) /\ (From(b, s) => Goes(b, s))
  BY DEF TaskGoes, bridgeVars
<1>2. \A b \in Sessions :
        /\ \A i \in 1..Len(up[b]) : i \in 1..Len(up'[b]) /\ up'[b][i] = up[b][i]
        /\ \A i \in 1..Len(up'[b]) :
             \/ i \in 1..Len(up[b])
             \/ up'[b][i].s = s /\ (up'[b][i].kind = "accepted" => serve[s].pc \in Unannounced)
  BY <1>1, GrowsForOthers
<1>3. \A r \in Streams : (InTodo(r)' <=> InTodo(r)) /\ (r # s => (Held(r)' <=> Held(r)))
  BY <1>1 DEF InTodo, Held
<1>4. SessionInv'
  BY <1>1, SessionIdle DEF RInv, SessionSteady
<1>5. DownHome'
  <2>1. \A b \in Sessions, r \in Streams : From(b, r) => From(b, r)'
    BY <1>1 DEF From, Goes
  <2> SUFFICES ASSUME NEW b \in Sessions PROVE DownHomeAt(b)'
    BY DEF DownHome
  <2>2. DownHomeAt(b)
    BY DEF RInv, DownHome
  <2>3. /\ \A i \in 1..Len(down[b]) : down[b][i].s \in Streams
        /\ demux[b].pc = "send" => demux[b].f.s \in Streams
        /\ session[b].pc = "refuse" => session[b].f.s \in Streams
    BY QueueTypes
  <2>4. \A i \in 1..Len(down'[b]) : Goes(b, down'[b][i].s)
    BY <1>1, <2>1, <2>2, <2>3 DEF DownHomeAt, From, Goes
  <2>5. demux'[b].pc = "send" => Goes(b, demux'[b].f.s)
    BY <1>1, <2>1, <2>2, <2>3 DEF DownHomeAt, From, Goes
  <2>6. ASSUME session'[b].pc = "refuse"
        PROVE  /\ Goes(b, session'[b].f.s) /\ owner'[session'[b].f.s] = None
               /\ \A i \in 1..Len(up'[b]) : up'[b][i].kind = "accepted" => up'[b][i].s # session'[b].f.s
    <3>1. /\ From(b, session[b].f.s) /\ owner[session[b].f.s] = None
          /\ \A i \in 1..Len(up[b]) : up[b][i].kind = "accepted" => up[b][i].s # session[b].f.s
      BY <1>1, <2>2, <2>6 DEF DownHomeAt
    <3>2. Goes(b, session[b].f.s)
      BY <1>1, <2>1, <2>3, <2>6, <3>1 DEF From, Goes
    <3>3. session[b].f.s = s => serve[s].pc \notin Unannounced
      BY <3>1 DEF From
    <3>4. \A i \in 1..Len(up'[b]) : up'[b][i].kind = "accepted" => up'[b][i].s # session[b].f.s
      BY <1>2, <3>1, <3>3
    <3> QED
      BY <1>1, <3>1, <3>2, <3>4
  <2> QED
    BY <2>4, <2>5, <2>6 DEF DownHomeAt, From, Goes
<1>6. ASSUME NEW r \in Streams, r # s PROVE PeerAt(r)'
  <2>1. PeerSteady(r)
    BY <1>1, <1>3, <1>6 DEF PeerSteady
  <2> QED
    BY <2>1, PeerIdle DEF RInv, PeerInv
<1>7. ASSUME NEW r \in Streams, r # s, NEW b \in Sessions
      PROVE  /\ AnnouncedNext(b, r) => Announced(b, r)
             /\ Ending(b, r) => EndingNext(b, r)
             /\ (\E i \in 1..Len(up[b]) : IsData(up[b][i], r)) => \E i \in 1..Len(up'[b]) : IsData(up'[b][i], r)
  <2>1. AnnouncedNext(b, r) => Announced(b, r)
    BY <1>2, <1>7 DEF AnnouncedNext, Announced
  <2>2. Ending(b, r) => EndingNext(b, r)
    <3>1. CASE session[b].pc = "send" /\ session[b].f.s = r /\ Terminal(session[b].f)
      BY <1>1, <3>1 DEF EndingNext
    <3>2. ASSUME NEW i \in 1..Len(up[b]), up[b][i].s = r, Terminal(up[b][i]),
                 \A j \in 1..Len(up[b]) : up[b][j].kind = "accepted" /\ up[b][j].s = r => j < i
          PROVE  EndingNext(b, r)
      <4>1. i \in 1..Len(up'[b]) /\ up'[b][i].s = r /\ Terminal(up'[b][i])
        BY <1>2, <3>2
      <4>2. \A j \in 1..Len(up'[b]) : up'[b][j].kind = "accepted" /\ up'[b][j].s = r => j < i
        BY <1>2, <1>7, <3>2
      <4> QED
        BY <4>1, <4>2 DEF EndingNext
    <3> QED
      BY <3>1, <3>2 DEF Ending
  <2>3. (\E i \in 1..Len(up[b]) : IsData(up[b][i], r)) => \E i \in 1..Len(up'[b]) : IsData(up'[b][i], r)
    BY <1>2
  <2> QED
    BY <2>1, <2>2, <2>3
<1>8. ASSUME NEW r \in Streams, r # s PROVE OpeningAt(r)'
  <2>1. serve[r].pc = "opened" => serve[r].home \in Sessions
    BY HomeOf
  <2>2. serve[r].pc = "opened" => (AnnouncedNext(serve[r].home, r) => Announced(serve[r].home, r))
    BY <1>7, <1>8, <2>1
  <2>r. serve'[r] = serve[r] /\ writer' = writer /\ reader' = reader /\ session' = session
    BY <1>1, <1>8
  <2>3. serve[r].pc = "opened" => (Producing(r)' => Producing(r))
    BY <2>r, <2>2 DEF Producing, Refusing, Announced, AnnouncedNext
  <2>4. OpeningSteady(r)
    BY <1>1, <1>3, <1>8, <2>3 DEF OpeningSteady, InHand, Fewer
  <2> QED
    BY <2>4, OpeningIdle DEF RInv, OpeningInv
<1>9. ASSUME NEW r \in Streams, r # s PROVE LateAt(r)'
  <2>1. LateSteady(r)
    BY <1>1, <1>7, <1>9 DEF LateSteady, Standing
  <2> QED
    BY <2>1, LateIdle DEF RInv, LateInv
<1>10. ASSUME NEW r \in Streams, r # s PROVE EndAt(r)'
  <2>1. CASE serve[r].pc = "none"
    BY <1>1, <1>10, <2>1 DEF EndAt
  <2>2. CASE serve[r].pc # "none"
    <3>1. serve[r].home \in Sessions
      BY <2>2, HomeOf
    <3>2. EndSteady(r)
      BY <1>1, <1>7, <1>10, <3>1 DEF EndSteady
    <3> QED
      BY <3>2, EndIdle DEF RInv, EndInv
  <2> QED
    BY <2>1, <2>2
<1> QED
  BY <1>4, <1>5, <1>6, <1>8, <1>9, <1>10 DEF RInv, PeerInv, OpeningInv, LateInv, EndInv

(* A step that leaves the connector, the place, the counts and the queues. *)
LEMMA TaskQuiet ==
  ASSUME NEW s \in Streams, NEW pc, NEW via, NEW f, ServeAt(s, pc, serve[s].home, via, f),
         UNCHANGED <<bridge, lock, closed, demux, down, link, bridgeVars>>,
         \A b \in Sessions : UpGrows(b, s),
         serve[s].pc \notin Unannounced => pc \notin Unannounced,
         \A r \in Streams \ {s} :
           /\ client'[r] = client[r] /\ inbox'[r] = inbox[r]
           /\ sent'[<<r, "up">>] = sent[<<r, "up">>] /\ (r \in streams' <=> r \in streams)
  PROVE  TaskGoes(s)
<1>1. \A r \in Streams \ {s} : serve'[r] = serve[r]
  BY DEF ServeAt
<1>2. \A b \in Sessions : From(b, s) => Goes(b, s)
  BY DEF From, Goes, ServeAt
<1> QED
  BY <1>1, <1>2 DEF TaskGoes

(* What has not been announced is nothing to the bridge. *)
LEMMA NotAnnounced ==
  ASSUME IInv, NEW s \in Streams, serve[s].pc \in Unannounced, NEW b \in Sessions
  PROVE  s \notin known[b] /\ ~Announced(b, s)
<1>1. owner[s] = None /\ b # None
  BY QueueTypes DEF IInv, OwnerInv, Owned
<1>2. s \notin known[b]
  BY <1>1 DEF IInv, OwnerInv, Holds
<1>3. ~Announced(b, s)
  BY DEF Announced, IInv, OwnerInv, UpFrames
<1> QED
  BY <1>2, <1>3

(* A connector opens a stream through the registered session. *)
LEMMA OpenTunnelRests ==
  ASSUME IInv, RInv, NEW s \in Streams, OpenTunnel(s), UNCHANGED bridgeVars
  PROVE  RInv'
<1>1. /\ UNCHANGED <<bridge, lock, streams, closed, demux, up, down, inbox, link, sent, bridgeVars>>
      /\ client[s] = "none" /\ client' = [client EXCEPT ![s] = "waiting"] /\ bridge # None
      /\ serve' = [serve EXCEPT ![s].pc = "insert", ![s].home = bridge]
  BY DEF OpenTunnel
<1>2. ServeAt(s, "insert", bridge, serve[s].via, serve[s].f)
  <2>1. bridge \in Sessions
    BY <1>1 DEF IInv, Shapes, ShapesOfRelay
  <2> QED
    BY <1>1, <2>1, ServeMoves DEF IInv, Shapes, ServePCs
<1>3. serve[s].pc = "none"
  BY <1>1 DEF IInv, HandInv
<1>4. client'[s] = "waiting" /\ \A r \in Streams \ {s} : client'[r] = client[r] /\ serve'[r] = serve[r]
  BY <1>1, <1>2 DEF IInv, Shapes, ShapesOfChannels, ServeAt
<1>5. TaskGoes(s)
  <2>1. \A b \in Sessions : ~From(b, s)
    BY <1>3 DEF From, Unannounced
  <2> QED
    BY <1>1, <1>4, <2>1 DEF TaskGoes, UpGrows
<1>6. PeerAt(s) /\ ~Held(s) /\ inbox[s] = <<>>
  BY <1>3 DEF RInv, PeerInv, PeerAt
<1>7. serve'[s].pc = "insert" /\ Opening(s)' /\ (InTodo(s)' <=> InTodo(s)) /\ (Held(s)' <=> Held(s))
  BY <1>1, <1>2 DEF ServeAt, Opening, InTodo, Held
<1>8. PeerAt(s)'
  BY <1>1, <1>4, <1>6, <1>7 DEF PeerAt
<1>9. OpeningAt(s)' /\ EndAt(s)'
  BY <1>7 DEF OpeningAt, EndAt
<1>10. LateAt(s)'
  <2>1. s \notin streams'
    BY <1>1, <1>3 DEF IInv, PlaceInv
  <2> QED
    BY <2>1 DEF LateAt
<1> QED
  BY <1>5, <1>8, <1>9, <1>10, TaskGoesOn

(* A place in the map, or none. *)
LEMMA InsertStreamRests ==
  ASSUME IInv, RInv, NEW s \in Streams, InsertStream(s), UNCHANGED bridgeVars
  PROVE  RInv'
<1>1. /\ UNCHANGED <<bridge, lock, closed, demux, up, down, inbox, link, sent, bridgeVars>>
      /\ serve[s].pc = "insert"
  BY DEF InsertStream
<1>2. \A b \in Sessions : UpGrows(b, s)
  BY <1>1 DEF UpGrows
<1>3. PeerAt(s) /\ ~Held(s) /\ ~InTodo(s) /\ inbox[s] = <<>> /\ client[s] = "waiting"
  BY <1>1 DEF RInv, PeerInv, PeerAt, Held, Opening
<1>4. ~InTodo(s)' /\ sent'[<<s, "up">>] = 0
  BY <1>1, <1>3 DEF InTodo, IInv, OwnerInv, Owned, Unannounced
<1>5. LateAt(s)'
  BY <1>4 DEF LateAt
<1>6. CASE ServeTo(s, "done") /\ client' = [client EXCEPT ![s] = "gone"] /\ UNCHANGED streams
  <2>1. ServeAt(s, "done", serve[s].home, serve[s].via, serve[s].f)
    BY <1>6, ServeMoves DEF IInv, Shapes, ServePCs
  <2>2. client'[s] = "gone" /\ \A r \in Streams \ {s} : client'[r] = client[r]
    BY <1>6 DEF IInv, Shapes, ShapesOfChannels
  <2>3. TaskGoes(s)
    BY <1>1, <1>2, <1>6, <2>1, <2>2, TaskQuiet DEF Unannounced
  <2>4. serve'[s].pc = "done" /\ serve'[s].home = serve[s].home /\ ~Opening(s)'
    BY <2>1 DEF ServeAt, Opening
  <2>5. PeerAt(s)' /\ OpeningAt(s)'
    BY <1>4, <2>2, <2>4 DEF PeerAt, OpeningAt
  <2>6. EndAt(s)'
    <3>1. serve[s].home \in Sessions
      BY <1>1, HomeOf
    <3>2. s \notin known[serve[s].home] /\ ~Announced(serve[s].home, s)
      BY <1>1, <3>1, NotAnnounced DEF Unannounced
    <3> QED
      BY <1>1, <2>4, <3>2 DEF EndAt, Announced, bridgeVars
  <2> QED
    BY <1>5, <2>3, <2>5, <2>6, TaskGoesOn
<1>7. CASE streams' = streams \cup {s} /\ ServeTo(s, "accept") /\ UNCHANGED client
  <2>1. ServeAt(s, "accept", serve[s].home, serve[s].via, serve[s].f)
    BY <1>7, ServeMoves DEF IInv, Shapes, ServePCs
  <2>2. \A r \in Streams \ {s} : r \in streams' <=> r \in streams
    BY <1>7
  <2>3. TaskGoes(s)
    BY <1>1, <1>2, <1>7, <2>1, <2>2, TaskQuiet DEF Unannounced
  <2>4. serve'[s].pc = "accept" /\ Opening(s)' /\ Held(s)'
    BY <1>7, <2>1 DEF ServeAt, Opening, Held
  <2>5. PeerAt(s)'
    BY <1>3, <1>4, <1>7, <2>4 DEF PeerAt
  <2>6. OpeningAt(s)' /\ EndAt(s)'
    <3>1. Len(inbox'[s]) <= 0
      BY <1>1, <1>3
    <3> QED
      BY <2>4, <3>1 DEF OpeningAt, EndAt
  <2> QED
    BY <1>5, <2>3, <2>5, <2>6, TaskGoesOn
<1> QED
  BY <1>6, <1>7 DEF InsertStream

(* The handler is dropped while it waits. *)
LEMMA CancelOpenRests ==
  ASSUME IInv, RInv, NEW s \in Streams, CancelOpen(s), UNCHANGED bridgeVars
  PROVE  RInv'
<1>1. /\ UNCHANGED <<bridge, lock, streams, closed, demux, up, down, link, sent, bridgeVars>>
      /\ serve[s].pc = "accept" /\ ServeTo(s, "cancelled")
      /\ client' = [client EXCEPT ![s] = "gone"] /\ inbox' = [inbox EXCEPT ![s] = <<>>]
  BY DEF CancelOpen
<1>2. ServeAt(s, "cancelled", serve[s].home, serve[s].via, serve[s].f)
  BY <1>1, ServeMoves DEF IInv, Shapes, ServePCs
<1>3. client'[s] = "gone" /\ \A r \in Streams \ {s} : client'[r] = client[r] /\ inbox'[r] = inbox[r]
  BY <1>1 DEF IInv, Shapes, ShapesOfChannels
<1>4. TaskGoes(s)
  BY <1>1, <1>2, <1>3, TaskQuiet DEF Unannounced, UpGrows
<1>5. serve'[s].pc = "cancelled" /\ ~Opening(s)' /\ (InTodo(s)' <=> InTodo(s))
  BY <1>1, <1>2 DEF ServeAt, Opening, InTodo
<1>6. PeerAt(s)'
  <2>1. PeerAt(s)
    BY DEF RInv, PeerInv
  <2> QED
    BY <1>1, <1>3, <1>5, <2>1 DEF PeerAt
<1>7. OpeningAt(s)' /\ EndAt(s)'
  BY <1>5 DEF OpeningAt, EndAt
<1>8. LateAt(s)'
  <2>1. sent'[<<s, "up">>] = 0
    BY <1>1 DEF IInv, OwnerInv, Owned, Unannounced
  <2> QED
    BY <2>1 DEF LateAt
<1> QED
  BY <1>4, <1>6, <1>7, <1>8, TaskGoesOn

(* The connector is answered. *)
LEMMA SendOpenedRests ==
  ASSUME IInv, RInv, NEW s \in Streams, SendOpened(s), UNCHANGED bridgeVars
  PROVE  RInv'
<1>1. /\ UNCHANGED <<bridge, lock, streams, closed, demux, up, down, link, client, sent, bridgeVars>>
      /\ serve[s].pc = "opened" /\ Room(inbox[s], RelayCap) /\ ServeTo(s, "read")
      /\ inbox' = [inbox EXCEPT ![s] = Append(@, Frame("opened", s))]
  BY DEF SendOpened
<1>2. ServeAt(s, "read", serve[s].home, serve[s].via, serve[s].f)
  BY <1>1, ServeMoves DEF IInv, Shapes, ServePCs
<1>3. PICK f \in Frames : f = Frame("opened", s) /\ f.s = s
  BY PlainFrame
<1>4. Delivered(s, f)
  BY <1>1, <1>3, InboxAppend DEF Delivered
<1>5. TaskGoes(s)
  BY <1>1, <1>2, <1>4, TaskQuiet DEF Unannounced, UpGrows, Delivered
<1>6. serve'[s].pc = "read" /\ ~Opening(s)' /\ (InTodo(s)' <=> InTodo(s)) /\ (Held(s)' <=> Held(s))
  BY <1>1, <1>2 DEF ServeAt, Opening, InTodo, Held
<1>7. PeerAt(s)'
  <2>1. PeerAt(s)
    BY DEF RInv, PeerInv
  <2>2. /\ inbox'[s] # <<>>
        /\ (\E i \in 1..Len(inbox[s]) : Terminal(inbox[s][i])) =>
             \E i \in 1..Len(inbox'[s]) : Terminal(inbox'[s][i])
    BY <1>4, DeliveredFrames
  <2> QED
    BY <1>1, <1>6, <2>1, <2>2 DEF PeerAt
<1>8. OpeningAt(s)' /\ EndAt(s)'
  BY <1>6 DEF OpeningAt, EndAt
<1>9. LateAt(s)'
  <2>1. sent'[<<s, "up">>] = 0
    BY <1>1 DEF IInv, OwnerInv, Owned
  <2> QED
    BY <2>1 DEF LateAt
<1> QED
  BY <1>5, <1>7, <1>8, <1>9, TaskGoesOn

(* Nothing comes down a stream that has not been announced. *)
LEMMA NothingDown ==
  ASSUME IInv, RInv, NEW s \in Streams, serve[s].pc \in Unannounced, NEW b \in Sessions
  PROVE  ~InDown(b, s) /\ ~InHand(b, s)
<1>1. ~From(b, s) /\ DownHomeAt(b)
  BY DEF From, RInv, DownHome
<1> QED
  BY <1>1 DEF DownHomeAt, InDown, InHand

(* The announcement, or a session that is over. *)
LEMMA SendAcceptedRests ==
  ASSUME IInv, RInv, NEW s \in Streams, SendAccepted(s), UNCHANGED bridgeVars
  PROVE  RInv'
<1>1. /\ UNCHANGED <<bridge, lock, closed, demux, down, link, sent, bridgeVars>>
      /\ serve[s].pc = "accept"
  BY DEF SendAccepted
<1>2. PICK h \in Sessions : h = serve[s].home
  BY <1>1, HomeOf
<1>3. PeerAt(s) /\ (InTodo(s)' <=> InTodo(s)) /\ client[s] = "waiting"
  BY <1>1 DEF RInv, PeerInv, PeerAt, InTodo, Opening
<1>4. LateAt(s)'
  <2>1. sent'[<<s, "up">>] = 0
    BY <1>1 DEF IInv, OwnerInv, Owned, Unannounced
  <2> QED
    BY <2>1 DEF LateAt
<1>5. CASE /\ closed[h] /\ streams' = streams \ {s} /\ ServeTo(s, "done")
           /\ client' = [client EXCEPT ![s] = "gone"]
           /\ inbox' = [inbox EXCEPT ![s] = <<>>] /\ UNCHANGED up
  <2>1. ServeAt(s, "done", serve[s].home, serve[s].via, serve[s].f)
    BY <1>5, ServeMoves DEF IInv, Shapes, ServePCs
  <2>2. client'[s] = "gone" /\ \A r \in Streams \ {s} : client'[r] = client[r] /\ inbox'[r] = inbox[r]
    BY <1>5 DEF IInv, Shapes, ShapesOfChannels
  <2>3. \A r \in Streams \ {s} : r \in streams' <=> r \in streams
    BY <1>5
  <2>4. TaskGoes(s)
    BY <1>1, <1>5, <2>1, <2>2, <2>3, TaskQuiet DEF Unannounced, UpGrows
  <2>5. serve'[s].pc = "done" /\ serve'[s].home = h /\ ~Opening(s)'
    BY <1>2, <2>1 DEF ServeAt, Opening
  <2>6. PeerAt(s)' /\ OpeningAt(s)'
    BY <1>5, <2>2, <2>5 DEF PeerAt, OpeningAt
  <2>7. link'[h] = "broken"
    BY <1>1, <1>5 DEF RInv, SessionInv, SessionInvAt
  <2>8. EndAt(s)'
    BY <2>5, <2>7 DEF EndAt
  <2> QED
    BY <1>4, <2>4, <2>6, <2>8, TaskGoesOn
<1>6. CASE /\ ~closed[h] /\ Room(up[h], RelayCap)
           /\ up' = [up EXCEPT ![h] = Append(@, Frame("accepted", s))]
           /\ ServeTo(s, "opened") /\ UNCHANGED <<streams, client, inbox>>
  <2>1. ServeAt(s, "opened", serve[s].home, serve[s].via, serve[s].f)
    BY <1>6, ServeMoves DEF IInv, Shapes, ServePCs
  <2>2. PICK f \in Frames : f = Frame("accepted", s) /\ f.s = s
    BY PlainFrame
  <2>3. up'[h] = Append(up[h], f) /\ \A a \in Sessions : a # h => up'[a] = up[a]
    BY <1>6, <2>2, UpAppend
  <2>4. \A b \in Sessions : UpGrows(b, s)
    <3>1. UpGrows(h, s)
      BY <1>1, <2>2, <2>3 DEF UpGrows, Unannounced
    <3>2. \A b \in Sessions \ {h} : UpGrows(b, s)
      BY <2>3 DEF UpGrows
    <3> QED
      BY <3>1, <3>2
  <2>5. TaskGoes(s)
    BY <1>1, <1>6, <2>1, <2>4, TaskQuiet DEF Unannounced
  <2>6. serve'[s].pc = "opened" /\ serve'[s].home = h /\ Opening(s)' /\ (Held(s)' <=> Held(s))
    BY <1>2, <1>3, <1>6, <2>1 DEF ServeAt, Opening, Held
  <2>7. PeerAt(s)'
    BY <1>1, <1>3, <1>6, <2>6 DEF PeerAt
  <2>8. OpeningAt(s)'
    <3>1. ~InDown(h, s) /\ ~InHand(h, s)
      BY <1>1, NothingDown DEF Unannounced
    <3>2. ~InDown(h, s)' /\ ~InHand(h, s)' /\ Once(down'[h], s)
      BY <1>1, <3>1 DEF InDown, InHand, Once
    <3>3. ~OnTheWay(s)'
      BY <2>6, <3>2 DEF OnTheWay, InDown, InHand
    <3>4. reader'[s] # "send"
      BY <1>1 DEF IInv, OwnerInv, Owned, Unannounced, bridgeVars
    <3>5. Len(inbox[s]) <= (IF Held(s) THEN 0 ELSE 1) /\ Len(inbox[s]) \in Nat
      BY <1>1 DEF RInv, OpeningInv, OpeningAt, IInv, Shapes, ShapesOfChannels
    <3>6. Len(inbox[s]) <= (IF Held(s) THEN 0 ELSE 1) + 1
      BY <3>5
    <3>7. /\ Len(inbox'[s]) <= (IF Held(s)' THEN 0 ELSE 1)
          /\ Len(inbox'[s]) <= (IF Held(s)' THEN 0 ELSE 1) + 1
      BY <1>6, <2>6, <3>5, <3>6
    <3> QED
      BY <2>6, <3>2, <3>3, <3>4, <3>7 DEF OpeningAt, Once, InDown
  <2>9. EndAt(s)'
    BY <2>6 DEF EndAt
  <2> QED
    BY <1>4, <2>5, <2>7, <2>8, <2>9, TaskGoesOn
<1> QED
  BY <1>2, <1>5, <1>6 DEF SendAccepted

(* The connector's next frame, or the end of its input. *)
LEMMA ServeRests ==
  ASSUME IInv, RInv, NEW s \in Streams,
         ServeData(s) \/ ServeTerminal(s) \/ ServeInvalid(s) \/ ServeEnd(s), UNCHANGED bridgeVars
  PROVE  RInv'
<1>1. /\ UNCHANGED <<bridge, lock, closed, demux, up, down, inbox, link, client, bridgeVars>>
      /\ serve[s].pc = "read"
      /\ streams' = streams \/ (streams' = streams \ {s} /\ client[s] = "gone")
  BY DEF ServeData, ServeTerminal, ServeInvalid, ServeEnd, channelVars
<1>2. PICK f \in Frames : serve' = [serve EXCEPT ![s].pc = "lookup", ![s].f = f]
  <2>1. \A kind \in {"closed", "error", "left"} : Frame(kind, s) \in Frames
    BY PlainFrame
  <2>2. CASE ServeData(s)
    <3>1. sent[<<s, "up">>] + 1 \in Nat
      <4>1. PICK n \in Nat : n = sent[<<s, "up">>]
        BY PipeTypes DEF IInv, Shapes
      <4> QED
        BY <4>1
    <3>2. Data(s, sent[<<s, "up">>] + 1) \in Frames
      BY <3>1 DEF Data, Frames
    <3> QED
      BY <2>2, <3>2 DEF ServeData, Forward
  <2>3. CASE ServeTerminal(s)
    BY <2>1, <2>3 DEF ServeTerminal, Forward
  <2>4. CASE ServeInvalid(s)
    BY <2>1, <2>4 DEF ServeInvalid, Forward
  <2>5. CASE ServeEnd(s)
    BY <2>1, <2>5 DEF ServeEnd
  <2> QED
    BY <2>2, <2>3, <2>4, <2>5
<1>3. ServeAt(s, "lookup", serve[s].home, serve[s].via, f)
  BY <1>2, ServeMoves DEF IInv, Shapes, ServePCs
<1>4. \A r \in Streams \ {s} : sent'[<<r, "up">>] = sent[<<r, "up">>]
  <2>1. CASE ServeData(s)
    <3>1. sent' = [sent EXCEPT ![<<s, "up">>] = @ + 1] /\ sent \in [Pipes -> Nat]
      BY <2>1 DEF ServeData, IInv, Shapes, ShapesOfChannels
    <3>2. \A r \in Streams \ {s} : <<r, "up">> \in Pipes /\ <<r, "up">> # <<s, "up">>
      BY DEF Pipes
    <3> QED
      BY <3>1, <3>2
  <2>2. CASE ServeTerminal(s) \/ ServeInvalid(s) \/ ServeEnd(s)
    BY <2>2 DEF ServeTerminal, ServeInvalid, ServeEnd, channelVars
  <2> QED
    BY <2>1, <2>2
<1>5. TaskGoes(s)
  <2>1. \A r \in Streams \ {s} : r \in streams' <=> r \in streams
    BY <1>1
  <2> QED
    BY <1>1, <1>3, <1>4, <2>1, TaskQuiet DEF Unannounced, UpGrows
<1>6. serve'[s].pc = "lookup" /\ ~Opening(s)' /\ ~Opening(s) /\ (InTodo(s)' <=> InTodo(s))
  BY <1>1, <1>3 DEF ServeAt, Opening, InTodo
<1>7. PeerAt(s)'
  <2>1. PeerAt(s)
    BY DEF RInv, PeerInv
  <2>2. client[s] # "gone" => (Held(s)' <=> Held(s))
    BY <1>1, <1>6 DEF Held
  <2>3. InTodo(s)' => s \notin streams'
    BY <1>1, <1>6, <2>1 DEF PeerAt
  <2> QED
    BY <1>1, <1>6, <2>1, <2>2, <2>3 DEF PeerAt
<1>8. OpeningAt(s)' /\ LateAt(s)' /\ EndAt(s)'
  BY <1>6 DEF OpeningAt, LateAt, EndAt
<1> QED
  BY <1>5, <1>7, <1>8, TaskGoesOn

(* The last steps of a task. *)
LEMMA TellConnectorRests ==
  ASSUME IInv, RInv, NEW s \in Streams, TellConnector(s), UNCHANGED bridgeVars
  PROVE  RInv'
<1>1. /\ UNCHANGED <<bridge, lock, closed, demux, up, down, link, client, sent, bridgeVars>>
      /\ serve[s].pc \in {"remove", "tell"} /\ ServeTo(s, "done") /\ streams' = streams \ {s}
  BY DEF TellConnector
<1>2. ServeAt(s, "done", serve[s].home, serve[s].via, serve[s].f)
  BY <1>1, ServeMoves DEF IInv, Shapes, ServePCs
<1>3. PICK f \in Frames : f = Frame("error", s) /\ f.s = s
  BY PlainFrame
<1>4. inbox' = inbox \/ Delivered(s, f)
  BY <1>3, InboxAppend DEF TellConnector, Delivered
<1>5. TaskGoes(s)
  <2>1. \A r \in Streams \ {s} : inbox'[r] = inbox[r] /\ (r \in streams' <=> r \in streams)
    BY <1>1, <1>4 DEF Delivered
  <2> QED
    BY <1>1, <1>2, <2>1, TaskQuiet DEF Unannounced, UpGrows
<1>6. /\ serve'[s].pc = "done" /\ serve'[s].home = serve[s].home /\ ~Opening(s)' /\ ~Opening(s)
      /\ s \notin streams'
  BY <1>1, <1>2 DEF ServeAt, Opening
<1>7. PeerAt(s)'
  <2>1. inbox[s] # <<>> => inbox'[s] # <<>>
    BY <1>4, DeliveredFrames
  <2>2. client[s] = "waiting" => inbox[s] # <<>>
    BY <1>6 DEF RInv, PeerInv, PeerAt
  <2> QED
    BY <1>1, <1>6, <2>1, <2>2 DEF PeerAt
<1>8. OpeningAt(s)' /\ LateAt(s)'
  BY <1>6 DEF OpeningAt, LateAt
<1>9. EndAt(s)'
  <2>1. \A b : (Ending(b, s) => EndingNext(b, s)) /\ (AnnouncedNext(b, s) => Announced(b, s))
    BY <1>1 DEF Ending, EndingNext, AnnouncedNext, Announced, bridgeVars
  <2>2. EndSteady(s)
    BY <1>1, <1>6, <2>1 DEF EndSteady, bridgeVars
  <2> QED
    BY <2>2, EndIdle DEF RInv, EndInv
<1> QED
  BY <1>5, <1>7, <1>8, <1>9, TaskGoesOn

(* What the task may do after a send: a frame of data is the only one it goes on after. *)
LEMMA AfterSend ==
  ASSUME IInv, NEW s \in Streams, serve[s].pc \in {"lookup", "send"}, NEW ok \in BOOLEAN
  PROVE  /\ Afterwards(serve[s].f, ok) \in {"done", "read", "remove", "tell"}
         /\ Afterwards(serve[s].f, ok) = "read" <=> ok /\ serve[s].f.kind = "data"
         /\ Afterwards(serve[s].f, ok) = "done" => s \notin streams
<1>1. /\ serve[s].f.kind \in {"data", "closed", "error", "left"}
      /\ serve[s].f.kind = "left" => s \notin streams
  BY DEF IInv, HandInv, PlaceInv
<1> QED
  BY <1>1 DEF Afterwards

(* A send that failed: the session of the stream is no longer up. *)
LEMMA SendFails ==
  ASSUME IInv, RInv, NEW s \in Streams, SendDone(s, FALSE), serve[s].pc \in {"lookup", "send"},
         UNCHANGED <<bridge, lock, streams, closed, demux, up, down, inbox, link, client, sent, bridgeVars>>,
         link[serve[s].home] # "up"
  PROVE  RInv'
<1> DEFINE pc == Afterwards(serve[s].f, FALSE)
<1>1. ServeAt(s, pc, serve[s].home, None, None)
  BY SendDoneMoves
<1>2. pc \in {"done", "remove", "tell"} /\ (pc = "done" => s \notin streams)
  BY AfterSend
<1> HIDE DEF pc
<1>3. serve'[s].pc = pc /\ serve'[s].home = serve[s].home /\ ~Opening(s)' /\ ~Opening(s)
  BY <1>1, <1>2 DEF ServeAt, Opening
<1>4. TaskGoes(s)
  <2>1. \A b \in Sessions : UpGrows(b, s)
    BY DEF UpGrows
  <2>2. pc \notin Unannounced
    BY <1>2 DEF Unannounced
  <2> QED
    BY <1>1, <2>1, <2>2, TaskQuiet
<1>5. PeerAt(s)'
  <2>1. PeerAt(s)
    BY DEF RInv, PeerInv
  <2>2. InTodo(s)' <=> InTodo(s)
    BY DEF InTodo
  <2> QED
    BY <1>2, <1>3, <2>1, <2>2 DEF PeerAt
<1>6. OpeningAt(s)' /\ LateAt(s)'
  BY <1>2, <1>3 DEF OpeningAt, LateAt
<1>7. EndAt(s)'
  BY <1>3 DEF EndAt
<1> QED
  BY <1>4, <1>5, <1>6, <1>7, TaskGoesOn

(* The session registered now is looked up. *)
LEMMA LookupBridgeRests ==
  ASSUME IInv, RInv, NEW s \in Streams, LookupBridge(s), UNCHANGED bridgeVars
  PROVE  RInv'
<1>1. /\ UNCHANGED <<bridge, lock, streams, closed, demux, up, down, inbox, link, client, sent, bridgeVars>>
      /\ serve[s].pc = "lookup"
  BY DEF LookupBridge, channelVars
<1>2. PICK h \in Sessions : h = serve[s].home
  BY <1>1, HomeOf
<1>3. CASE bridge = None /\ SendDone(s, FALSE)
  <2>1. link[h] # "up"
    BY <1>3, QueueTypes DEF RInv, SessionInv, SessionInvAt
  <2> QED
    BY <1>1, <1>2, <1>3, <2>1, SendFails
<1>4. CASE bridge # None /\ serve' = [serve EXCEPT ![s].pc = "send", ![s].via = bridge]
  <2>1. PICK b \in Sessions : b = bridge
    BY <1>4 DEF IInv, Shapes, ShapesOfRelay
  <2>2. ServeAt(s, "send", serve[s].home, b, serve[s].f)
    <3>1. serve[s].f \in Frames
      BY <1>1 DEF IInv, HandInv
    <3> QED
      BY <1>4, <2>1, <3>1, ServeMoves DEF IInv, Shapes, ServePCs
  <2>3. serve'[s].pc = "send" /\ serve'[s].via = b /\ ~Opening(s)' /\ ~Opening(s)
    BY <1>1, <2>2 DEF ServeAt, Opening
  <2>4. Standing(b) /\ link[b] # "none"
    BY <1>4, <2>1 DEF RInv, SessionInv, SessionInvAt, IInv, LinkInv
  <2>5. TaskGoes(s)
    BY <1>1, <2>2, TaskQuiet DEF Unannounced, UpGrows
  <2>6. PeerAt(s)'
    <3>1. PeerAt(s)
      BY DEF RInv, PeerInv
    <3>2. (InTodo(s)' <=> InTodo(s)) /\ (Held(s)' <=> Held(s))
      BY <1>1 DEF InTodo, Held
    <3>3. link'[b] # "none"
      BY <1>1, <2>4
    <3> QED
      BY <1>1, <2>3, <3>1, <3>2, <3>3 DEF PeerAt
  <2>7. OpeningAt(s)' /\ EndAt(s)'
    BY <2>3 DEF OpeningAt, EndAt
  <2>8. LateAt(s)'
    <3>1. demux'[serve'[s].via].pc \in {"read", "send", "end"}
      BY <1>1, <2>3, <2>4 DEF Standing
    <3> QED
      BY <2>3, <3>1 DEF LateAt, Standing
  <2> QED
    BY <2>5, <2>6, <2>7, <2>8, TaskGoesOn
<1> QED
  BY <1>3, <1>4 DEF LookupBridge

(* The frame is sent to the session that was looked up. *)
LEMMA SendGoes ==
  ASSUME IInv, RInv, NEW s \in Streams, NEW b \in Sessions, NEW f \in Frames,
         serve[s].pc = "send", serve[s].via = b, SendDone(s, TRUE), f.s = s,
         f.kind \in {"data", "closed", "error"}, f.kind = "data" <=> serve[s].f.kind = "data",
         ~closed[b], Room(up[b], RelayCap), up' = [up EXCEPT ![b] = Append(@, f)],
         UNCHANGED <<bridge, lock, streams, closed, demux, down, inbox, link, client, sent, bridgeVars>>
  PROVE  RInv'
<1> DEFINE pc == Afterwards(serve[s].f, TRUE)
<1>1. ServeAt(s, pc, serve[s].home, None, None)
  BY SendDoneMoves
<1>2. /\ pc \in {"done", "read", "remove", "tell"} /\ (pc = "done" => s \notin streams)
      /\ pc = "read" <=> f.kind = "data"
  BY AfterSend
<1> HIDE DEF pc
<1>3. PICK h \in Sessions : h = serve[s].home
  BY HomeOf
<1>4. serve'[s].pc = pc /\ serve'[s].home = h /\ ~Opening(s)' /\ ~Opening(s)
  BY <1>1, <1>2, <1>3 DEF ServeAt, Opening
<1>5. up'[b] = Append(up[b], f) /\ up[b] \in Seq(Frames) /\ \A a \in Sessions : a # b => up'[a] = up[a]
  BY UpAppend
<1>6. /\ Len(up[b]) \in Nat /\ Len(up'[b]) = Len(up[b]) + 1
      /\ \A i \in 1..Len(up[b]) : up'[b][i] = up[b][i]
      /\ up'[b][Len(up[b]) + 1] = f
  BY <1>5, QueueAppend
<1>7. /\ Len(up[b]) + 1 \in 1..Len(up'[b])
      /\ \A i \in 1..Len(up'[b]) : (i \in 1..Len(up[b]) /\ i < Len(up[b]) + 1) \/ i = Len(up[b]) + 1
  BY <1>6
<1>8. TaskGoes(s)
  <2>1. UpGrows(b, s)
    BY <1>5 DEF UpGrows
  <2>2. \A a \in Sessions \ {b} : UpGrows(a, s)
    BY <1>5 DEF UpGrows
  <2>3. pc \notin Unannounced /\ \A a \in Sessions : UpGrows(a, s)
    BY <1>2, <2>1, <2>2 DEF Unannounced
  <2> QED
    BY <1>1, <2>3, TaskQuiet
<1>9. PeerAt(s)'
  <2>1. PeerAt(s)
    BY DEF RInv, PeerInv
  <2>2. (InTodo(s)' <=> InTodo(s)) /\ (Held(s)' <=> Held(s))
    BY DEF InTodo, Held
  <2>3. client[s] \in {"waiting", "up"} => Held(s) \/ \E i \in 1..Len(inbox[s]) : Terminal(inbox[s][i])
    BY <2>1 DEF PeerAt
  <2> QED
    BY <1>2, <1>4, <2>1, <2>2, <2>3 DEF PeerAt
<1>10. OpeningAt(s)'
  BY <1>2, <1>4 DEF OpeningAt
<1>11. LateAt(s)'
  <2> SUFFICES ASSUME s \in streams, demux[h].pc \in {"tear", "done"}, sent[<<s, "up">>] > 0, pc = "read"
               PROVE  \E a \in Sessions :
                        /\ demux[a].pc \in {"read", "send", "end"}
                        /\ link[a] = "broken" \/ \E i \in 1..Len(up'[a]) : IsData(up'[a][i], s)
    <3>1. serve'[s].pc \in {"lookup", "tell", "remove"} \/ pc = "read" \/ s \notin streams
      BY <1>2, <1>4
    <3> QED
      BY <1>4, <3>1 DEF LateAt, Standing, IsData
  <2>1. IsData(up'[b][Len(up[b]) + 1], s)
    BY <1>2, <1>6 DEF IsData
  <2>2. CASE Standing(b)
    BY <1>7, <2>1, <2>2 DEF Standing
  <2>3. CASE ~Standing(b)
    <3>1. PICK a \in Sessions :
            Standing(a) /\ (link[a] = "broken" \/ \E i \in 1..Len(up[a]) : IsData(up[a][i], s))
      BY <1>3, <2>3 DEF RInv, LateInv, LateAt
    <3>2. a # b
      BY <2>3, <3>1
    <3> QED
      BY <1>5, <3>1, <3>2 DEF Standing
  <2> QED
    BY <2>2, <2>3
<1>12. EndAt(s)'
  <2> SUFFICES ASSUME pc \in {"done", "remove", "tell"}, link[h] = "up" PROVE EndingNext(h, s)
    BY <1>4 DEF EndAt, Ending, EndingNext, Terminal
  <2>1. bridge = h
    BY DEF RInv, SessionInv, SessionInvAt
  <2>2. h = b
    BY <1>3, <2>1 DEF IInv, LinkInv
  <2>3. Terminal(f) /\ f.kind # "accepted"
    BY <1>2 DEF Terminal
  <2>4. up'[b][Len(up[b]) + 1].s = s /\ Terminal(up'[b][Len(up[b]) + 1])
    BY <1>6, <2>3
  <2>5. \A j \in 1..Len(up'[b]) : up'[b][j].kind = "accepted" => j < Len(up[b]) + 1
    BY <1>6, <1>7, <2>3
  <2> QED
    BY <1>7, <2>2, <2>4, <2>5 DEF EndingNext
<1> QED
  BY <1>8, <1>9, <1>10, <1>11, <1>12, TaskGoesOn

(* Every send to a session. *)
LEMMA SendToBridgeRests ==
  ASSUME IInv, RInv, NEW s \in Streams, SendToBridge(s), UNCHANGED bridgeVars
  PROVE  RInv'
<1>1. /\ UNCHANGED <<bridge, lock, streams, closed, demux, down, inbox, link, client, sent, bridgeVars>>
      /\ serve[s].pc = "send"
  BY DEF SendToBridge
<1>2. PICK b \in Sessions : b = serve[s].via
  BY <1>1 DEF IInv, HandInv
<1>3. PICK g \in Frames : g = serve[s].f /\ g.s = s /\ g.kind \in {"data", "closed", "error", "left"}
  BY <1>1 DEF IInv, HandInv
<1>4. CASE closed[b] /\ SendDone(s, FALSE) /\ UNCHANGED up
  <2>1. PICK h \in Sessions : h = serve[s].home
    BY <1>1, HomeOf
  <2>2. link[h] # "up"
    <3> SUFFICES ASSUME link[h] = "up" PROVE FALSE
      OBVIOUS
    <3>1. bridge = h
      BY DEF RInv, SessionInv, SessionInvAt
    <3>2. h = b
      BY <1>1, <1>2, <2>1, <3>1 DEF IInv, LinkInv
    <3> QED
      BY <1>4, <3>2 DEF RInv, SessionInv, SessionInvAt
  <2> QED
    BY <1>1, <1>4, <2>1, <2>2, SendFails
<1>5. CASE /\ ~closed[b] /\ Room(up[b], RelayCap)
           /\ up' = [up EXCEPT ![b] = Append(@, IF g.kind = "left" THEN Frame("closed", s) ELSE g)]
           /\ SendDone(s, TRUE)
  <2>1. PICK f \in Frames :
          /\ f = IF g.kind = "left" THEN Frame("closed", s) ELSE g
          /\ f.s = s /\ f.kind \in {"data", "closed", "error"}
          /\ f.kind = "data" <=> g.kind = "data"
    <3>1. CASE g.kind = "left"
      BY <3>1, PlainFrame
    <3>2. CASE g.kind # "left"
      BY <1>3, <3>2
    <3> QED
      BY <3>1, <3>2
  <2>2. up' = [up EXCEPT ![b] = Append(@, f)]
    BY <1>5, <2>1
  <2> QED
    BY <1>1, <1>2, <1>3, <1>5, <2>1, <2>2, SendGoes
<1> QED
  BY <1>2, <1>3, <1>4, <1>5 DEF SendToBridge

-----------------------------------------------------------------------------
(* The connector. *)

(* A step of the connector of stream s, which is past its answer. *)
LEMMA ConnectorGoes ==
  ASSUME IInv, RInv, NEW s \in Streams, client[s] \in {"waiting", "up"}, ~Opening(s),
         UNCHANGED <<relayVars, bridgeVars, up, down, link, sent>>,
         \A r \in Streams \ {s} : client'[r] = client[r] /\ inbox'[r] = inbox[r],
         \/ client'[s] = "gone"
         \/ /\ client'[s] = "up"
            /\ (\E i \in 1..Len(inbox[s]) : Terminal(inbox[s][i])) =>
                 \E i \in 1..Len(inbox'[s]) : Terminal(inbox'[s][i])
  PROVE  RInv'
<1>1. UNCHANGED <<bridge, lock, streams, closed, demux, serve, session, known, owner, writer, reader>>
  BY DEF relayVars, bridgeVars
<1>2. TaskGoes(s)
  <2>1. \A b \in Sessions : UpGrows(b, s) /\ (From(b, s) => Goes(b, s))
    BY <1>1 DEF UpGrows, From, Goes
  <2> QED
    BY <1>1, <2>1 DEF TaskGoes
<1>3. serve[s].pc # "none"
  BY DEF IInv, HandInv
<1>4. ~Opening(s)' /\ (InTodo(s)' <=> InTodo(s)) /\ (Held(s)' <=> Held(s))
  BY <1>1 DEF Opening, InTodo, Held
<1>5. PeerAt(s)'
  <2>1. PeerAt(s) /\ serve[s].pc \notin {"none", "insert"}
    BY <1>3 DEF RInv, PeerInv, Opening
  <2>2. client[s] # "gone"
    OBVIOUS
  <2> QED
    BY <1>1, <1>4, <2>1, <2>2 DEF PeerAt
<1>6. OpeningAt(s)'
  BY <1>4 DEF OpeningAt, Opening
<1>7. LateAt(s)'
  <2>1. LateSteady(s)
    BY <1>1 DEF LateSteady, Standing
  <2> QED
    BY <2>1, LateIdle DEF RInv, LateInv
<1>8. EndAt(s)'
  BY <1>1, EndsElsewhere
<1> QED
  BY <1>2, <1>5, <1>6, <1>7, <1>8, TaskGoesOn

(* Every step of a connector. *)
LEMMA ConnectorRestKeeps ==
  ASSUME IInv, RInv, NEW s \in Streams, ClientRead(s) \/ ClientEnd(s) \/ ClientLeave(s),
         UNCHANGED <<relayVars, bridgeVars>>
  PROVE  RInv'
<1>1. /\ client \in [Streams -> {"none", "waiting", "up", "gone"}] /\ inbox \in [Streams -> Seq(Frames)]
      /\ inbox[s] \in Seq(Frames)
  BY DEF IInv, Shapes, ShapesOfChannels
<1>2. CASE ClientRead(s)
  <2> DEFINE f == Head(inbox[s])
  <2> DEFINE bad == Terminal(f) \/ (client[s] = "waiting" /\ f.kind # "opened")
  <2>1. /\ client[s] \in {"waiting", "up"} /\ ~Opening(s) /\ inbox[s] # <<>>
        /\ UNCHANGED <<up, down, link, sent>>
        /\ client' = [client EXCEPT ![s] = IF bad THEN "gone" ELSE "up"]
        /\ inbox' = [inbox EXCEPT ![s] = IF bad THEN <<>> ELSE Tail(@)]
    BY <1>2 DEF ClientRead
  <2>2. ~bad => ~Terminal(f)
    OBVIOUS
  <2> HIDE DEF bad
  <2>3. \A r \in Streams \ {s} : client'[r] = client[r] /\ inbox'[r] = inbox[r]
    BY <1>1, <2>1
  <2>4. (bad => client'[s] = "gone") /\ (~bad => client'[s] = "up" /\ inbox'[s] = Tail(inbox[s]))
    BY <1>1, <2>1
  <2>5. CASE bad
    BY <2>1, <2>3, <2>4, <2>5, ConnectorGoes
  <2>6. CASE ~bad
    <3>1. /\ Len(inbox[s]) \in Nat \ {0} /\ ~Terminal(inbox[s][1]) /\ Len(inbox'[s]) = Len(inbox[s]) - 1
          /\ \A i \in 1..Len(inbox'[s]) : inbox'[s][i] = inbox[s][i + 1]
      BY <1>1, <2>1, <2>2, <2>4, <2>6, QueueTail
    <3>2. ASSUME NEW i \in 1..Len(inbox[s]), Terminal(inbox[s][i])
          PROVE  \E j \in 1..Len(inbox'[s]) : Terminal(inbox'[s][j])
      <4>1. i # 1
        BY <3>1, <3>2
      <4>2. i - 1 \in 1..Len(inbox'[s]) /\ (i - 1) + 1 = i
        BY <3>1, <4>1
      <4>3. inbox'[s][i - 1] = inbox[s][i]
        BY <3>1, <4>2
      <4> QED
        BY <3>2, <4>2, <4>3
    <3> QED
      BY <2>1, <2>3, <2>4, <2>6, <3>2, ConnectorGoes
  <2> QED
    BY <2>5, <2>6
<1>3. CASE ClientEnd(s)
  <2>1. client[s] \in {"waiting", "up"} /\ ~Opening(s) /\ UNCHANGED <<up, down, inbox, link, sent>>
    BY <1>3 DEF ClientEnd, NoSender, Opening
  <2>2. client'[s] = "gone" /\ \A r \in Streams \ {s} : client'[r] = client[r]
    BY <1>1, <1>3 DEF ClientEnd
  <2> QED
    BY <2>1, <2>2, ConnectorGoes
<1>4. CASE ClientLeave(s)
  <2>1. client[s] \in {"waiting", "up"} /\ ~Opening(s) /\ UNCHANGED <<up, down, link, sent>>
    BY <1>4 DEF ClientLeave
  <2>2. client'[s] = "gone" /\ \A r \in Streams \ {s} : client'[r] = client[r] /\ inbox'[r] = inbox[r]
    BY <1>1, <1>4 DEF ClientLeave
  <2> QED
    BY <2>1, <2>2, ConnectorGoes
<1> QED
  BY <1>2, <1>3, <1>4

-----------------------------------------------------------------------------
(* The whole tunnel. *)

(* Nobody has begun at first. *)
LEMMA RestInitially == Init => RInv
<1> SUFFICES ASSUME Init PROVE RInv
  OBVIOUS
<1>1. /\ down = [b \in Sessions |-> <<>>] /\ inbox = [s \in Streams |-> <<>>]
      /\ link = [b \in Sessions |-> "none"] /\ client = [s \in Streams |-> "none"]
  BY DEF Init, InitChannels
<1>2. /\ bridge = None /\ streams = {} /\ closed = [b \in Sessions |-> FALSE]
      /\ demux = [b \in Sessions |-> [pc |-> "none", f |-> None, todo |-> {}]]
      /\ serve = [s \in Streams |-> [pc |-> "none", home |-> None, via |-> None, f |-> None]]
  BY DEF Init, InitRelay
<1>3. session = [b \in Sessions |-> [pc |-> "none", f |-> None]] /\ known = [b \in Sessions |-> {}]
  BY DEF Init, InitBridge
<1>4. \A b \in Sessions : b # None
  BY TunnelAssumption DEF Sessions
<1>5. SessionInv
  BY <1>1, <1>2, <1>3, <1>4 DEF SessionInv, SessionInvAt, Standing, Alive
<1>6. DownHome
  BY <1>1, <1>2, <1>3 DEF DownHome, DownHomeAt
<1>7. ASSUME NEW s \in Streams PROVE PeerAt(s) /\ OpeningAt(s) /\ LateAt(s) /\ EndAt(s)
  <2>1. ~Held(s) /\ ~Opening(s)
    BY <1>2 DEF Held, InTodo, Opening
  <2>2. serve[s].pc = "none" /\ client[s] = "none" /\ inbox[s] = <<>> /\ s \notin streams
    BY <1>1, <1>2
  <2> QED
    BY <2>1, <2>2 DEF PeerAt, OpeningAt, LateAt, EndAt
<1> QED
  BY <1>5, <1>6, <1>7 DEF RInv, PeerInv, OpeningInv, LateInv, EndInv

(* What the tasks do by themselves. *)
LEMMA ProgressRests ==
  ASSUME IInv, RInv, Progress
  PROVE  RInv'
<1>1. ASSUME NEW b \in Sessions, RelaySession(b), UNCHANGED bridgeVars PROVE RInv'
  BY <1>1, DemuxReadRests, DemuxSendRests, TeardownRests, TeardownSendRests, RelayIdleKeeps DEF RelaySession
<1>2. ASSUME NEW b \in Sessions, BridgeSession(b), UNCHANGED relayVars PROVE RInv'
  BY <1>2, ReadKeeps, RefuseKeeps, HandOverKeeps, BreakKeeps DEF BridgeSession
<1>3. ASSUME NEW s \in Streams, RelayStream(s), UNCHANGED bridgeVars PROVE RInv'
  BY <1>3, InsertStreamRests, SendAcceptedRests, SendOpenedRests, ServeRests, LookupBridgeRests,
     SendToBridgeRests, TellConnectorRests DEF RelayStream
<1>4. ASSUME NEW s \in Streams, BridgeStream(s), UNCHANGED relayVars PROVE RInv'
  BY <1>4, TcpRestKeeps, UpstreamSendKeeps DEF BridgeStream
<1>5. ASSUME NEW s \in Streams, ClientRead(s) \/ ClientEnd(s), UNCHANGED <<relayVars, bridgeVars>> PROVE RInv'
  BY <1>5, ConnectorRestKeeps
<1> QED
  BY <1>1, <1>2, <1>3, <1>4, <1>5 DEF Progress

(* Connections that break, peers that leave or misbehave. *)
LEMMA FaultRests ==
  ASSUME IInv, RInv, Fault
  PROVE  RInv'
<1>1. ASSUME NEW b \in Sessions, Disconnect(b), UNCHANGED relayVars PROVE RInv'
  BY <1>1, BreakKeeps
<1>2. ASSUME NEW s \in Streams, ConnectFails(s) \/ WriteFails(s) \/ ReadFails(s), UNCHANGED relayVars PROVE RInv'
  BY <1>2, TcpRestKeeps
<1>3. ASSUME NEW s \in Streams, ServeTerminal(s) \/ ServeInvalid(s), UNCHANGED bridgeVars PROVE RInv'
  BY <1>3, ServeRests
<1>4. ASSUME NEW s \in Streams, ClientLeave(s), UNCHANGED <<relayVars, bridgeVars>> PROVE RInv'
  BY <1>4, ConnectorRestKeeps
<1> QED
  BY <1>1, <1>2, <1>3, <1>4 DEF Fault

(* The invariant holds throughout. *)
LEMMA RestInvariance == Spec => [](IInv /\ RInv)
<1>1. IInv /\ RInv /\ [Next]_vars => RInv'
  <2> SUFFICES ASSUME IInv, RInv, [Next]_vars PROVE RInv'
    OBVIOUS
  <2>1. ASSUME NEW s \in Streams, OpenTunnel(s) \/ CancelOpen(s), UNCHANGED bridgeVars PROVE RInv'
    BY <2>1, OpenTunnelRests, CancelOpenRests
  <2>2. ASSUME NEW s \in Streams, ReadUpstream(s), UNCHANGED relayVars PROVE RInv'
    BY <2>2, TcpRestKeeps
  <2>3. CASE Next
    BY <2>1, <2>2, <2>3, ProgressRests, RegisterRests, FaultRests DEF Next
  <2>4. CASE UNCHANGED vars
    BY <2>4, RelayIdleKeeps
  <2> QED
    BY <2>3, <2>4
<1> QED
  BY <1>1, RestInitially, Invariance, PTL DEF Spec

(* When no task can go on, whatever broke on the way, the mutex is free, every  *)
(* broken session is torn down and every connector of one has been told.  The   *)
(* queues hold FRAME_QUEUE_CAPACITY (3) frames or more, and every connector has *)
(* something to send: the one that got into the map after the teardown is told  *)
(* as it sends.                                                                 *)
THEOREM CutNoticed ==
  ASSUME RelayCap >= 3, \A s \in Streams : MaxUp[s] >= 1
  PROVE  Spec => []CutIsNoticed
<1>1. IInv /\ RInv => CutIsNoticed
  BY RestAfterCut DEF Caps
<1> QED
  BY <1>1, RestInvariance, PTL

(* When no task can go on, the bridge keeps no entry of and no connection for a *)
(* stream that has ended at the relay, for the same queues.                     *)
THEOREM BridgeLeavesNothing ==
  ASSUME RelayCap >= 3
  PROVE  Spec => []BridgeForgets
<1>1. IInv /\ RInv => BridgeForgets
  BY RestAtBridge DEF Caps
<1> QED
  BY <1>1, RestInvariance, PTL

=============================================================================
