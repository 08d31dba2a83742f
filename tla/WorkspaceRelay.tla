--------------------------- MODULE WorkspaceRelay ---------------------------
(***************************************************************************)
(* The Workspace relay: one task per registered Authority bridge, one per  *)
(* connector stream, the map of streams and the registered bridge's sender *)
(* behind a mutex that the teardown of a session holds while it sends.     *)
(* A task that waits for room in a queue waits in a step of its own, with  *)
(* the sender it looked up before.                                         *)
(*                                                                         *)
(* Source: runtime/rust/cyrene-workspace-relay/src/lib.rs                  *)
(***************************************************************************)
EXTENDS TunnelChannels

VARIABLES
  bridge,   \* authority_bridge: the session whose sender is registered
  lock,     \* the session whose teardown holds the authority_bridge mutex
  streams,  \* the keys of connector_streams
  closed,   \* is_closed() of a session's sender: its response was dropped
  demux,    \* serve_authority_bridge, by session
  serve     \* open_connector_tunnel and serve_connector_stream, by stream

relayVars == <<bridge, lock, streams, closed, demux, serve>>

InitRelay ==
  /\ bridge = None /\ lock = None /\ streams = {}
  /\ closed = [b \in Sessions |-> FALSE]
  /\ demux  = [b \in Sessions |-> [pc |-> "none", f |-> None, todo |-> {}]]
  /\ serve  = [s \in Streams |-> [pc |-> "none", home |-> None, via |-> None, f |-> None]]

DemuxTo(b, pc) == demux' = [demux EXCEPT ![b].pc = pc]
ServeTo(s, pc) == serve' = [serve EXCEPT ![s].pc = pc]

\* The handler holds the receiver of the connector's queue until it answers.
Opening(s) == serve[s].pc \in {"insert", "accept", "opened"}

-----------------------------------------------------------------------------
(* The bridge's session.                                                    *)

\* register_authority_bridge, for a bridge that connects: a registered one
\* whose response is still open keeps its place.  The AuthorityBridgeRegistered
\* frame, sent next, is left out: the bridge takes it before it enters its loop.
\* Should a stream's frame get in before it, the bridge ends the session; that is
\* one of the ways a connection fails (Disconnect).
RegisterAuthorityBridge(b) ==
  /\ lock = None
  /\ bridge # None => closed[bridge]
  /\ bridge' = b
  /\ demux' = [demux EXCEPT ![b].pc = "read"]
  /\ UNCHANGED <<lock, streams, closed, serve, up, down, inbox, client, sent, got>>

\* The next frame of the bridge, or the end of its input.  A frame for a stream
\* that is not active is dropped.
DemuxRead(b) ==
  /\ demux[b].pc = "read"
  /\ \/ /\ down[b] # <<>>
        /\ LET f == Head(down[b]) IN
           demux' = IF f.s \in streams
                    THEN [demux EXCEPT ![b].pc = "send", ![b].f = f] ELSE demux
        /\ down' = [down EXCEPT ![b] = Tail(@)]
     \/ /\ link[b] = "broken"
        /\ DemuxTo(b, "end")
        /\ down' = [down EXCEPT ![b] = <<>>]
  /\ UNCHANGED <<bridge, lock, streams, closed, serve, up, inbox, link, client, sent, got>>

\* A terminal frame that was delivered ends the stream.
DemuxSend(b) ==
  /\ demux[b].pc = "send"
  /\ LET f == demux[b].f IN
     \/ /\ client[f.s] = "gone" /\ UNCHANGED <<inbox, streams>>
     \/ /\ client[f.s] # "gone" /\ Room(inbox[f.s], RelayCap)
        /\ inbox' = [inbox EXCEPT ![f.s] = Append(@, f)]
        /\ streams' = IF Terminal(f) THEN streams \ {f.s} ELSE streams
  /\ demux' = [demux EXCEPT ![b].pc = "read", ![b].f = None]
  /\ UNCHANGED <<bridge, lock, closed, serve, up, down, link, client, sent, got>>

\* Mutant: the streams are dropped and nobody is told.
TeardownSilent(b) ==
  /\ demux[b].pc = "end" /\ lock = None
  /\ lock' = b
  /\ bridge' = IF bridge = b THEN None ELSE bridge
  /\ demux' = [demux EXCEPT ![b].pc = "tear"]
  /\ streams' = {}
  /\ UNCHANGED <<closed, serve, channelVars>>

\* The teardown takes every stream, whichever session it was opened through.
Teardown(b) ==
  /\ demux[b].pc = "end" /\ lock = None
  /\ lock' = b
  /\ bridge' = IF bridge = b THEN None ELSE bridge
  /\ demux' = [demux EXCEPT ![b].pc = "tear", ![b].todo = streams]
  /\ streams' = {}
  /\ UNCHANGED <<closed, serve, channelVars>>

\* AUTHORITY_BRIDGE_DISCONNECTED to each of them, waiting for room, in the order
\* of the map, which may be any.
TeardownSend(b) ==
  /\ demux[b].pc = "tear"
  /\ \E s \in demux[b].todo :
       /\ \/ client[s] = "gone" /\ UNCHANGED inbox
          \/ /\ client[s] # "gone" /\ Room(inbox[s], RelayCap)
             /\ inbox' = [inbox EXCEPT ![s] = Append(@, Frame("error", s))]
       /\ demux' = [demux EXCEPT ![b].todo = @ \ {s}]
  /\ UNCHANGED <<bridge, lock, streams, closed, serve, up, down, link, client, sent, got>>

TeardownDone(b) ==
  /\ demux[b].pc = "tear" /\ demux[b].todo = {}
  /\ lock' = None
  /\ DemuxTo(b, "done")
  /\ UNCHANGED <<bridge, streams, closed, serve, channelVars>>

\* The server drops the response of a connection that broke.
DropResponse(b) ==
  /\ link[b] = "broken" /\ ~closed[b]
  /\ closed' = [closed EXCEPT ![b] = TRUE]
  /\ up' = [up EXCEPT ![b] = <<>>]
  /\ UNCHANGED <<bridge, lock, streams, demux, serve, down, inbox, link, client, sent, got>>

-----------------------------------------------------------------------------
(* A connector's stream.                                                    *)

\* open_connector_tunnel: look up the bridge ...
OpenTunnel(s) ==
  /\ client[s] = "none" /\ \A r \in 1..(s - 1) : client[r] # "none"
  /\ lock = None
  /\ bridge # None /\ ~closed[bridge]
  /\ client' = [client EXCEPT ![s] = "waiting"]
  /\ serve' = [serve EXCEPT ![s].pc = "insert", ![s].home = bridge]
  /\ UNCHANGED <<bridge, lock, streams, closed, demux, up, down, inbox, link, sent, got>>

\* ... take a place in the map ...
InsertStream(s) ==
  /\ serve[s].pc = "insert"
  /\ \/ /\ Cardinality(streams) >= MaxStreams
        /\ ServeTo(s, "done") /\ client' = [client EXCEPT ![s] = "gone"]
        /\ UNCHANGED streams
     \/ /\ Cardinality(streams) < MaxStreams
        /\ streams' = streams \cup {s}
        /\ ServeTo(s, "accept") /\ UNCHANGED client
  /\ UNCHANGED <<bridge, lock, closed, demux, up, down, inbox, link, sent, got>>

\* ... announce the stream to that bridge, or give the place back ...
SendAccepted(s) ==
  /\ serve[s].pc = "accept"
  /\ LET b == serve[s].home IN
     \/ /\ closed[b]
        /\ streams' = streams \ {s}
        /\ ServeTo(s, "done") /\ client' = [client EXCEPT ![s] = "gone"]
        /\ inbox' = [inbox EXCEPT ![s] = <<>>]
        /\ UNCHANGED up
     \/ /\ ~closed[b] /\ Room(up[b], RelayCap)
        /\ up' = [up EXCEPT ![b] = Append(@, Frame("accepted", s))]
        /\ ServeTo(s, "opened") /\ UNCHANGED <<streams, client, inbox>>
  /\ UNCHANGED <<bridge, lock, closed, demux, down, link, sent, got>>

\* ... and answer the connector.  The queue cannot be closed here, for the
\* handler itself still holds its receiver.
SendOpened(s) ==
  /\ serve[s].pc = "opened" /\ Room(inbox[s], RelayCap)
  /\ inbox' = [inbox EXCEPT ![s] = Append(@, Frame("opened", s))]
  /\ ServeTo(s, "read")
  /\ UNCHANGED <<bridge, lock, streams, closed, demux, up, down, link, client, sent, got>>

\* A connector that leaves while the handler waits for room in the bridge's
\* queue: the server drops the handler, and nothing after the wait is run.
CancelOpen(s) ==
  /\ client[s] = "waiting"
  /\ serve[s].pc = "accept" /\ ~closed[serve[s].home] /\ ~Room(up[serve[s].home], RelayCap)
  /\ ServeTo(s, "cancelled")
  /\ client' = [client EXCEPT ![s] = "gone"]
  /\ inbox' = [inbox EXCEPT ![s] = <<>>]
  /\ UNCHANGED <<bridge, lock, streams, closed, demux, up, down, link, sent, got>>

Forward(s, kind) ==
  serve' = [serve EXCEPT ![s].pc = "lookup", ![s].f =
              IF kind = "data" THEN Data(s, sent[<<s, "up">>] + 1) ELSE Frame(kind, s)]

\* The next data frame of the connector.
ServeData(s) ==
  /\ serve[s].pc = "read" /\ client[s] = "up" /\ sent[<<s, "up">>] < MaxUp[s]
  /\ Forward(s, "data")
  /\ sent' = [sent EXCEPT ![<<s, "up">>] = @ + 1]
  /\ UNCHANGED <<bridge, lock, streams, closed, demux, up, down, inbox, link, client, got>>

\* A terminal frame of the connector, and one that is not valid on its stream,
\* which becomes an error for both ends.
ServeTerminal(s) ==
  /\ serve[s].pc = "read" /\ client[s] = "up"
  /\ Forward(s, "closed")
  /\ UNCHANGED <<bridge, lock, streams, closed, demux, channelVars>>

ServeInvalid(s) ==
  /\ serve[s].pc = "read" /\ client[s] = "up"
  /\ Forward(s, "error")
  /\ UNCHANGED <<bridge, lock, streams, closed, demux, channelVars>>

\* Mutant: the bridge is not told of a connector that left.
ServeEndSilent(s) ==
  /\ serve[s].pc = "read" /\ client[s] = "gone"
  /\ streams' = streams \ {s}
  /\ ServeTo(s, "done")
  /\ UNCHANGED <<bridge, lock, closed, demux, channelVars>>

\* The end of the input: close_connector_stream gives the place back first.
ServeEnd(s) ==
  /\ serve[s].pc = "read" /\ client[s] = "gone"
  /\ streams' = streams \ {s}
  /\ serve' = [serve EXCEPT ![s].pc = "lookup", ![s].f = Frame("left", s)]
  /\ UNCHANGED <<bridge, lock, closed, demux, channelVars>>

\* Where the task goes after a send to the bridge.
Afterwards(f, ok) ==
  CASE f.kind = "left"          -> "done"
    [] f.kind = "data" /\ ok    -> "read"
    [] f.kind = "closed" /\ ok  -> "remove"
    [] OTHER                    -> "tell"

SendDone(s, ok) == serve' = [serve EXCEPT ![s].pc = Afterwards(serve[s].f, ok),
                                          ![s].via = None, ![s].f = None]

\* send_to_bridge: the sender of the bridge registered now, not of the one the
\* stream was announced to.
LookupBridge(s) ==
  /\ serve[s].pc = "lookup" /\ lock = None
  /\ IF bridge = None THEN SendDone(s, FALSE)
     ELSE serve' = [serve EXCEPT ![s].pc = "send", ![s].via = bridge]
  /\ UNCHANGED <<bridge, lock, streams, closed, demux, channelVars>>

SendToBridge(s) ==
  /\ serve[s].pc = "send"
  /\ LET b == serve[s].via
         f == serve[s].f IN
     \/ closed[b] /\ SendDone(s, FALSE) /\ UNCHANGED up
     \/ /\ ~closed[b] /\ Room(up[b], RelayCap)
        /\ up' = [up EXCEPT ![b] = Append(@, IF f.kind = "left" THEN Frame("closed", s) ELSE f)]
        /\ SendDone(s, TRUE)
  /\ UNCHANGED <<bridge, lock, streams, closed, demux, down, inbox, link, client, sent, got>>

\* Mutant: the connector is told and its place is kept.
TellConnectorOnly(s) ==
  /\ \/ serve[s].pc = "remove" /\ UNCHANGED inbox
     \/ serve[s].pc = "tell" /\ client[s] = "gone" /\ UNCHANGED inbox
     \/ /\ serve[s].pc = "tell" /\ client[s] # "gone" /\ Room(inbox[s], RelayCap)
        /\ inbox' = [inbox EXCEPT ![s] = Append(@, Frame("error", s))]
  /\ streams' = IF serve[s].pc = "remove" THEN streams \ {s} ELSE streams
  /\ ServeTo(s, "done")
  /\ UNCHANGED <<bridge, lock, closed, demux, up, down, link, client, sent, got>>

\* The last steps of a task that met an error or a terminal frame; the
\* connector's response ends with the task.
TellConnector(s) ==
  /\ \/ serve[s].pc = "remove" /\ UNCHANGED inbox
     \/ serve[s].pc = "tell" /\ client[s] = "gone" /\ UNCHANGED inbox
     \/ /\ serve[s].pc = "tell" /\ client[s] # "gone" /\ Room(inbox[s], RelayCap)
        /\ inbox' = [inbox EXCEPT ![s] = Append(@, Frame("error", s))]
  /\ streams' = streams \ {s}
  /\ ServeTo(s, "done")
  /\ UNCHANGED <<bridge, lock, closed, demux, up, down, link, client, sent, got>>

RelaySession(b) ==
  \/ DemuxRead(b) \/ DemuxSend(b) \/ Teardown(b) \/ TeardownSend(b)
  \/ TeardownDone(b) \/ DropResponse(b)

RelayStream(s) ==
  \/ InsertStream(s) \/ SendAccepted(s) \/ SendOpened(s)
  \/ ServeData(s) \/ ServeEnd(s) \/ LookupBridge(s) \/ SendToBridge(s) \/ TellConnector(s)

-----------------------------------------------------------------------------
(* A task at rest: it has ended, waits for input, or waits for somebody.    *)

InboxFull(s) == client[s] # "gone" /\ ~Room(inbox[s], RelayCap)
UpFull(b)    == ~closed[b] /\ ~Room(up[b], RelayCap)

\* No step of RelaySession(b) can be taken.
RelaySessionRests(b) ==
  /\ demux[b].pc = "read" => down[b] = <<>> /\ link[b] # "broken"
  /\ demux[b].pc = "send" => InboxFull(demux[b].f.s)
  /\ demux[b].pc = "end" => lock # None
  /\ demux[b].pc = "tear" => demux[b].todo # {} /\ \A s \in demux[b].todo : InboxFull(s)
  /\ link[b] = "broken" => closed[b]

\* No step of RelayStream(s) can be taken.
RelayStreamRests(s) ==
  /\ serve[s].pc \notin {"insert", "remove"}
  /\ serve[s].pc = "accept" => UpFull(serve[s].home)
  /\ serve[s].pc = "opened" => ~Room(inbox[s], RelayCap)
  /\ serve[s].pc = "read" => client[s] # "gone" /\ (client[s] = "up" => sent[<<s, "up">>] >= MaxUp[s])
  /\ serve[s].pc = "lookup" => lock # None
  /\ serve[s].pc = "send" => UpFull(serve[s].via)
  /\ serve[s].pc = "tell" => InboxFull(s)
=============================================================================
