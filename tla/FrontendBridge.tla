--------------------------- MODULE FrontendBridge ---------------------------
(***************************************************************************)
(* The Authority bridge: sessions with the relay, one after the other, each *)
(* with a loop that hands the relay's frames to its streams, and for every *)
(* stream a writer and a reader on a TCP connection to the Authority.      *)
(*                                                                         *)
(* Source: runtime/rust/cyrene-workspace-frontend-bridge/src/lib.rs        *)
(***************************************************************************)
EXTENDS TunnelChannels

VARIABLES
  session,  \* serve_authority_tunnel_once: its loop, by session
  known,    \* its map of streams, by session
  tcpq,     \* the queue to a stream's writer
  owner,    \* the session that accepted a stream
  writer,   \* bridge_tcp_stream: connecting, then the writer task
  reader    \* bridge_tcp_stream: the reader loop

bridgeVars == <<session, known, tcpq, owner, writer, reader>>

InitBridge ==
  /\ session = [b \in Sessions |-> [pc |-> "none", f |-> None]]
  /\ known   = [b \in Sessions |-> {}]
  /\ tcpq    = [s \in Streams |-> <<>>]
  /\ owner   = [s \in Streams |-> None]
  /\ writer  = [s \in Streams |-> "none"]
  /\ reader  = [s \in Streams |-> "none"]

\* The process reconnects once its last session is over.
Connect(b) ==
  /\ link[b] = "none"
  /\ \A a \in 1..(b - 1) : session[a].pc \in {"ended", "failed", "unknown"}
  /\ link' = [link EXCEPT ![b] = "up"]
  /\ session' = [session EXCEPT ![b].pc = "read"]
  /\ UNCHANGED <<known, tcpq, owner, writer, reader>>

SessionTo(b, pc, f) == session' = [session EXCEPT ![b] = [pc |-> pc, f |-> f]]
Forget(b, s)        == known' = [known EXCEPT ![b] = @ \ {s}]

\* The session returns, its map is cleared and its connection dropped.
EndSession(b, why) ==
  /\ SessionTo(b, why, None)
  /\ known' = [known EXCEPT ![b] = {}]
  /\ link' = [link EXCEPT ![b] = "broken"]

\* The next frame of the relay.  Data for a stream the session does not know
\* is an error of the relay and ends the session; a terminal frame is not.
ReadFrame(b) ==
  /\ session[b].pc = "read" /\ up[b] # <<>>
  /\ up' = [up EXCEPT ![b] = Tail(@)]
  /\ LET f == Head(up[b]) IN
     \/ /\ f.kind = "accepted" /\ Cardinality(known[b]) < MaxStreams
        /\ known' = [known EXCEPT ![b] = @ \cup {f.s}]
        /\ owner' = [owner EXCEPT ![f.s] = b]
        /\ writer' = [writer EXCEPT ![f.s] = "connecting"]
        /\ UNCHANGED <<session, link>>
     \/ /\ f.kind = "accepted" /\ Cardinality(known[b]) >= MaxStreams
        /\ SessionTo(b, "refuse", Frame("error", f.s))
        /\ UNCHANGED <<known, owner, writer, link>>
     \/ /\ f.kind # "accepted" /\ f.s \in known[b]
        /\ SessionTo(b, "send", f)
        /\ UNCHANGED <<known, owner, writer, link>>
     \/ /\ f.kind = "data" /\ f.s \notin known[b]
        /\ EndSession(b, "unknown") /\ UNCHANGED <<owner, writer>>
     \/ /\ Terminal(f) /\ f.s \notin known[b]
        /\ UNCHANGED <<session, known, owner, writer, link>>
  /\ UNCHANGED <<tcpq, reader, down, inbox, client, sent, got>>

\* BRIDGE_STREAM_LIMIT
RefuseStream(b) ==
  /\ session[b].pc = "refuse"
  /\ \/ link[b] = "broken" /\ UNCHANGED down
     \/ /\ link[b] = "up" /\ Room(down[b], BridgeCap)
        /\ down' = [down EXCEPT ![b] = Append(@, session[b].f)]
  /\ SessionTo(b, "read", None)
  /\ UNCHANGED <<known, tcpq, owner, writer, reader, up, inbox, link, client, sent, got>>

\* send_to_stream with the sender found before: wait for room; a writer that is
\* gone ends the session when the frame is data.
SendToStream(b) ==
  /\ session[b].pc = "send"
  /\ LET f == session[b].f IN
     \/ /\ writer[f.s] = "done" /\ f.kind = "data"
        /\ EndSession(b, "failed") /\ UNCHANGED tcpq
     \/ /\ writer[f.s] = "done" /\ Terminal(f)
        /\ SessionTo(b, "read", None) /\ Forget(b, f.s) /\ UNCHANGED <<tcpq, link>>
     \/ /\ writer[f.s] # "done" /\ Room(tcpq[f.s], BridgeCap)
        /\ tcpq' = [tcpq EXCEPT ![f.s] = Append(@, f)]
        /\ SessionTo(b, "read", None)
        /\ IF Terminal(f) THEN Forget(b, f.s) ELSE UNCHANGED known
        /\ UNCHANGED link
  /\ UNCHANGED <<owner, writer, reader, up, down, inbox, client, sent, got>>

\* The connection to the relay fails, and the loop notices it.
Disconnect(b) ==
  /\ link[b] = "up"
  /\ link' = [link EXCEPT ![b] = "broken"]
  /\ UNCHANGED <<bridgeVars, up, down, inbox, client, sent, got>>

SessionEnds(b) ==
  /\ session[b].pc = "read" /\ link[b] = "broken"
  /\ EndSession(b, "ended")
  /\ UNCHANGED <<tcpq, owner, writer, reader, up, down, inbox, client, sent, got>>

-----------------------------------------------------------------------------
(* bridge_tcp_stream.                                                       *)

ConnectUpstream(s) ==
  /\ writer[s] = "connecting"
  /\ writer' = [writer EXCEPT ![s] = "on"]
  /\ reader' = [reader EXCEPT ![s] = "on"]
  /\ UNCHANGED <<session, known, tcpq, owner, channelVars>>

ConnectFails(s) ==
  /\ writer[s] = "connecting"
  /\ writer' = [writer EXCEPT ![s] = "failing"]
  /\ UNCHANGED <<session, known, tcpq, owner, reader, channelVars>>

\* Put a frame on the way to the relay: wait for room, or find the session over.
ToRelay(b, f) ==
  \/ link[b] = "broken" /\ UNCHANGED down
  \/ /\ link[b] = "up" /\ Room(down[b], BridgeCap)
     /\ down' = [down EXCEPT ![b] = Append(@, f)]

\* AUTHORITY_UPSTREAM_UNAVAILABLE or _TIMEOUT
UpstreamFailed(s) ==
  /\ writer[s] = "failing"
  /\ ToRelay(owner[s], Frame("error", s))
  /\ Forget(owner[s], s)
  /\ writer' = [writer EXCEPT ![s] = "done"]
  /\ tcpq' = [tcpq EXCEPT ![s] = <<>>]
  /\ UNCHANGED <<session, owner, reader, up, inbox, link, client, sent, got>>

StopWriter(s) ==
  /\ writer' = [writer EXCEPT ![s] = "done"]
  /\ tcpq' = [tcpq EXCEPT ![s] = <<>>]
  /\ Forget(owner[s], s)

\* The writer: data to the Authority; a terminal frame or a queue without
\* senders ends it.
WriteUpstream(s) ==
  /\ writer[s] = "on"
  /\ LET b == owner[s] IN
     \/ /\ tcpq[s] # <<>> /\ Head(tcpq[s]).kind = "data"
        /\ got' = [got EXCEPT ![<<s, "up">>] = Append(@, Head(tcpq[s]).n)]
        /\ tcpq' = [tcpq EXCEPT ![s] = Tail(@)]
        /\ UNCHANGED <<writer, known>>
     \/ /\ \/ tcpq[s] # <<>> /\ Terminal(Head(tcpq[s]))
           \/ tcpq[s] = <<>> /\ s \notin known[b] /\ (session[b].pc = "send" => session[b].f.s # s)
        /\ StopWriter(s) /\ UNCHANGED got
  /\ UNCHANGED <<session, owner, reader, up, down, inbox, link, client, sent>>

\* Mutant: the frame of a write that failed is passed over.
WriteFailsQuietly(s) ==
  /\ writer[s] = "on" /\ tcpq[s] # <<>> /\ Head(tcpq[s]).kind = "data"
  /\ tcpq' = [tcpq EXCEPT ![s] = Tail(@)]
  /\ UNCHANGED <<session, known, owner, writer, reader, channelVars>>

\* The Authority's socket fails under a write: the stream ends, and the relay
\* is not told.
WriteFails(s) ==
  /\ writer[s] = "on" /\ tcpq[s] # <<>> /\ Head(tcpq[s]).kind = "data"
  /\ StopWriter(s)
  /\ UNCHANGED <<session, owner, reader, channelVars>>

\* The Authority answers what it was sent, or closes its side.
ReadUpstream(s) ==
  /\ reader[s] = "on" /\ writer[s] = "on" /\ sent[<<s, "down">>] < MaxDown[s]
  /\ sent' = [sent EXCEPT ![<<s, "down">>] = @ + 1]
  /\ \E pc \in {"send", "last"} :
       /\ pc = "send" => got[<<s, "up">>] # <<>>
       /\ reader' = [reader EXCEPT ![s] = pc]
  /\ UNCHANGED <<session, known, tcpq, owner, writer, up, down, inbox, link, client, got>>

\* AUTHORITY_UPSTREAM_READ_FAILED
ReadFails(s) ==
  /\ reader[s] = "on" /\ writer[s] = "on"
  /\ reader' = [reader EXCEPT ![s] = "error"]
  /\ UNCHANGED <<session, known, tcpq, owner, writer, channelVars>>

SendUpstreamData(s) ==
  /\ reader[s] \in {"send", "last", "error"}
  /\ ToRelay(owner[s], IF reader[s] = "error" THEN Frame("error", s)
                       ELSE Data(s, sent[<<s, "down">>]))
  /\ reader' = [reader EXCEPT ![s] = IF @ = "send" /\ link[owner[s]] = "up" THEN "on" ELSE "done"]
  /\ UNCHANGED <<session, known, tcpq, owner, writer, up, inbox, link, client, sent, got>>

StopReader(s) ==
  /\ reader[s] = "on" /\ writer[s] = "done"
  /\ reader' = [reader EXCEPT ![s] = "done"]
  /\ UNCHANGED <<session, known, tcpq, owner, writer, channelVars>>

BridgeSession(b) == ReadFrame(b) \/ RefuseStream(b) \/ SendToStream(b) \/ SessionEnds(b)

BridgeStream(s) ==
  \/ ConnectUpstream(s) \/ UpstreamFailed(s) \/ WriteUpstream(s)
  \/ SendUpstreamData(s) \/ StopReader(s)

-----------------------------------------------------------------------------
(* A task at rest.                                                          *)

DownFull(b) == link[b] # "broken" /\ ~Room(down[b], BridgeCap)

\* No step of BridgeSession(b) can be taken.
BridgeSessionRests(b) ==
  /\ session[b].pc = "read" => up[b] = <<>> /\ link[b] # "broken"
  /\ session[b].pc = "refuse" => DownFull(b)
  /\ session[b].pc = "send" =>
       writer[session[b].f.s] # "done" /\ ~Room(tcpq[session[b].f.s], BridgeCap)

\* No step of BridgeStream(s) can be taken.
BridgeStreamRests(s) ==
  /\ writer[s] # "connecting"
  /\ writer[s] = "failing" => DownFull(owner[s])
  /\ writer[s] = "on" =>
       /\ tcpq[s] = <<>>
       /\ s \in known[owner[s]] \/ (session[owner[s]].pc = "send" /\ session[owner[s]].f.s = s)
  /\ reader[s] \in {"send", "last", "error"} => DownFull(owner[s])
  /\ reader[s] = "on" => writer[s] # "done"
=============================================================================
