-------------------------- MODULE AuthorityTunnel --------------------------
(***************************************************************************)
(* The tunnel from connectors to the Authority: relay, bridge and the      *)
(* connectors' ends (open_relay_tunnel of the client SDK) together, with   *)
(* connections that break and peers that leave at any time.                *)
(***************************************************************************)
EXTENDS WorkspaceRelay, FrontendBridge

VARIABLE faults  \* faults so far

vars == <<channelVars, relayVars, bridgeVars, faults>>

Init == InitChannels /\ InitRelay /\ InitBridge /\ faults = 0

Register(b) == Connect(b) /\ RegisterAuthorityBridge(b) /\ UNCHANGED faults

\* The connector: Opened first, then data; a terminal frame ends its stream.
ClientRead(s) ==
  /\ client[s] \in {"waiting", "up"} /\ ~Opening(s) /\ inbox[s] # <<>>
  /\ LET f == Head(inbox[s])
         bad == Terminal(f) \/ (client[s] = "waiting" /\ f.kind # "opened") IN
     /\ client' = [client EXCEPT ![s] = IF bad THEN "gone" ELSE "up"]
     /\ inbox' = [inbox EXCEPT ![s] = IF bad THEN <<>> ELSE Tail(@)]
     /\ got' = IF f.kind = "data" /\ ~bad
               THEN [got EXCEPT ![<<s, "down">>] = Append(@, f.n)] ELSE got
  /\ UNCHANGED <<up, down, link, sent>>

\* The response ends when the last sender of the queue is gone.
NoSender(s) ==
  /\ serve[s].pc = "done" /\ s \notin streams
  /\ \A b \in Sessions : s \notin demux[b].todo /\ (demux[b].pc = "send" => demux[b].f.s # s)

ClientEnd(s) ==
  /\ client[s] \in {"waiting", "up"} /\ inbox[s] = <<>> /\ NoSender(s)
  /\ client' = [client EXCEPT ![s] = "gone"]
  /\ UNCHANGED <<up, down, inbox, link, sent, got>>

\* The connector disconnects.  Before it is answered that matters only where the
\* handler waits (CancelOpen): a handler that does not wait runs to its end.
ClientLeave(s) ==
  /\ client[s] \in {"waiting", "up"} /\ ~Opening(s)
  /\ client' = [client EXCEPT ![s] = "gone"]
  /\ inbox' = [inbox EXCEPT ![s] = <<>>]
  /\ UNCHANGED <<up, down, link, sent, got>>

Fault ==
  /\ faults < MaxFaults /\ faults' = faults + 1
  /\ \/ \E b \in Sessions : Disconnect(b) /\ UNCHANGED relayVars
     \/ \E s \in Streams :
          \/ (ConnectFails(s) \/ WriteFails(s) \/ ReadFails(s)) /\ UNCHANGED relayVars
          \/ (ServeTerminal(s) \/ ServeInvalid(s)) /\ UNCHANGED bridgeVars
          \/ ClientLeave(s) /\ UNCHANGED <<relayVars, bridgeVars>>

\* What the tasks do by themselves: the runtime schedules ready tasks, sockets
\* are read and written, a connector drains its response and sends what it has
\* (a TLS client speaks first), a broken connection is noticed.
Progress ==
  \/ \E b \in Sessions :
       \/ RelaySession(b) /\ UNCHANGED <<bridgeVars, faults>>
       \/ BridgeSession(b) /\ UNCHANGED <<relayVars, faults>>
  \/ \E s \in Streams :
       \/ RelayStream(s) /\ UNCHANGED <<bridgeVars, faults>>
       \/ BridgeStream(s) /\ UNCHANGED <<relayVars, faults>>
       \/ (ClientRead(s) \/ ClientEnd(s)) /\ UNCHANGED <<relayVars, bridgeVars, faults>>

Next ==
  \/ Progress
  \/ \E b \in Sessions : Register(b)
  \/ \E s \in Streams :
       \/ (OpenTunnel(s) \/ CancelOpen(s)) /\ UNCHANGED <<bridgeVars, faults>>
       \/ ReadUpstream(s) /\ UNCHANGED <<relayVars, faults>>
  \/ Fault

Spec == Init /\ [][Next]_vars

-----------------------------------------------------------------------------
(* Properties.                                                              *)

\* The queues keep their capacity, a task is in one of its states, and the
\* mutex is held by a teardown only.
TypeOK ==
  /\ TypeOKChannels
  /\ bridge \in Sessions \cup {None} /\ streams \subseteq Streams
  /\ \A b \in Sessions :
       /\ demux[b].pc \in {"none", "read", "send", "end", "tear", "done"}
       /\ lock = b <=> demux[b].pc = "tear"
       /\ session[b].pc \in {"none", "read", "send", "refuse", "ended", "failed", "unknown"}
  /\ \A s \in Streams : Len(tcpq[s]) <= BridgeCap

\* Each direction of each stream is a pipe: whatever breaks, reconnects or is
\* torn down, the Authority and the connector get what the other sent in order,
\* without a gap and without a replay ("retrying without replay").
Pipe == INSTANCE BytePipes WITH Pipes <- Pipes, sent <- sent, got <- got
PipeSpec == Pipe!Spec

\* A stream whose task has returned, by any of its returns, holds no place in
\* connector_streams: places are limited and nothing else frees them while the
\* bridge stays connected.  A handler the server drops while it waits for the
\* bridge's queue (CancelOpen) does not return, and leaves its place behind.
NoStreamLeak == \A s \in Streams : serve[s].pc = "done" => s \notin streams

\* No step of ClientRead(s) or ClientEnd(s) can be taken.
ConnectorRests(s) ==
  client[s] \in {"waiting", "up"} =>
    /\ Opening(s) \/ inbox[s] = <<>>
    /\ inbox[s] = <<>> => ~NoSender(s)

\* Every task takes finitely many steps between two outside events, so what a
\* task eventually does has been done in a state where none can go on: no step
\* of Progress is possible.
AtRest ==
  /\ \A b \in Sessions : RelaySessionRests(b) /\ BridgeSessionRests(b)
  /\ \A s \in Streams : RelayStreamRests(s) /\ BridgeStreamRests(s) /\ ConnectorRests(s)

\* At rest nobody waits for anybody: the mutex is free, every broken session is
\* torn down, and a connector whose bridge session broke has been told, by the
\* teardown or, when it got into the map after the teardown, as it sent.
CutIsNoticed == AtRest =>
  /\ lock = None
  /\ \A b \in Sessions : link[b] = "broken" => demux[b].pc = "done"
  /\ \A s \in Streams : serve[s].home # None /\ link[serve[s].home] = "broken" => client[s] = "gone"

\* At rest a stream that has ended at the relay has ended at the bridge: its
\* entry, and with it the connection to the Authority, does not outlive it.
BridgeForgets == AtRest =>
  \A s \in Streams : serve[s].pc = "done" =>
    /\ \A b \in Sessions : s \notin known[b]
    /\ writer[s] \in {"none", "done"} /\ reader[s] \in {"none", "done"}

\* The relay refers a bridge only to streams the bridge knows: any other is an
\* error of the relay ("Relay referenced an unknown tunnel stream"), which ends
\* the session with all of its streams.
RelayKnowsStreams == \A b \in Sessions : session[b].pc # "unknown"
=============================================================================
