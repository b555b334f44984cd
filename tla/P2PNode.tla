-------------------------------- MODULE P2PNode --------------------------------
(***************************************************************************)
(* P2pNode of yma-p2p: the set of connected peers behind a tokio mutex,    *)
(* and a bounded channel of events whose receiver the node itself keeps,   *)
(* for whoever locks it.  Every operation ends by sending an event and     *)
(* waits while the channel is full.  Callers that wait together get in in  *)
(* any order (the channel serves them in the order they came, which other  *)
(* tasks decide), and a caller that is dropped while it waits sends none.  *)
(***************************************************************************)
EXTENDS Naturals, Sequences

CONSTANTS
  Peers,
  NodeCalls,              (* the tasks that call the node concurrently     *)
  EventBufferSize,        (* event_buffer_size                             *)
  MaxTaken                (* bound on the events taken off the channel     *)

ASSUME BufferAssumption == EventBufferSize \in Nat \ {0} /\ MaxTaken \in Nat

VARIABLES
  connected_peers,
  events,                 (* the channel                                   *)
  nodeCall,               (* the event each call waits to send, or NoEvent *)
  taken,                  (* how many events were taken off the channel    *)
  view,                   (* history: the peers, as the taken events tell  *)
  doubted                 (* history: peers whose last calls crossed, or   *)
                          (* were dropped                                  *)

nodeVars == <<connected_peers, events, nodeCall, taken, view, doubted>>

NoEvent == [kind |-> "none"]
PeerEvent == [kind : {"PeerConnected", "PeerDisconnected"}, peer : Peers]
MessageEvent == [kind : {"DirectMessage", "BroadcastMessage"}]

NodeInit ==
  /\ connected_peers = {}
  /\ events = <<>>
  /\ nodeCall = [c \in NodeCalls |-> NoEvent]
  /\ taken = 0
  /\ view = {}
  /\ doubted = {}

About(p) == {c \in NodeCalls : nodeCall[c] \in PeerEvent /\ nodeCall[c].peer = p}

\* The mutex is given back before the event is sent.  Two calls about a peer that
\* are under way at once and tell different things leave it in doubt; one that
\* begins when there is no other settles it.
Tell(c, event) ==
  /\ nodeCall[c] = NoEvent
  /\ nodeCall' = [nodeCall EXCEPT ![c] = event]
  /\ doubted' = IF event \notin PeerEvent THEN doubted
                ELSE IF About(event.peer) = {} THEN doubted \ {event.peer}
                ELSE doubted \cup
                       {p \in {event.peer} :
                          \E d \in About(p) : nodeCall[d].kind # event.kind}
  /\ UNCHANGED <<events, taken, view>>

AddPeer(c, p) ==
  /\ Tell(c, [kind |-> "PeerConnected", peer |-> p])
  /\ connected_peers' = connected_peers \cup {p}

RemovePeer(c, p) ==
  /\ Tell(c, [kind |-> "PeerDisconnected", peer |-> p])
  /\ connected_peers' = connected_peers \ {p}

\* send_message (to a connected peer or not) and broadcast.
SendOrBroadcast(c) ==
  /\ \E event \in MessageEvent : Tell(c, event)
  /\ UNCHANGED connected_peers

\* Mutant of EventSent: the sender does not wait for room in the channel.
EventSentOverfull(c) ==
  /\ nodeCall[c] # NoEvent
  /\ events' = Append(events, nodeCall[c])
  /\ nodeCall' = [nodeCall EXCEPT ![c] = NoEvent]
  /\ UNCHANGED <<connected_peers, taken, view, doubted>>

\* Mutant of EventSent: an event that finds the channel full is given up.
EventSentOrGivenUp(c) ==
  /\ nodeCall[c] # NoEvent
  /\ events' = IF Len(events) < EventBufferSize THEN Append(events, nodeCall[c])
               ELSE events
  /\ nodeCall' = [nodeCall EXCEPT ![c] = NoEvent]
  /\ UNCHANGED <<connected_peers, taken, view, doubted>>

EventSent(c) ==
  /\ nodeCall[c] # NoEvent
  /\ Len(events) < EventBufferSize
  /\ events' = Append(events, nodeCall[c])
  /\ nodeCall' = [nodeCall EXCEPT ![c] = NoEvent]
  /\ UNCHANGED <<connected_peers, taken, view, doubted>>

\* The caller is dropped (by a timeout, say) while it waits for room in the
\* channel: the set has changed, and the event is never sent.
CallDropped(c) ==
  /\ nodeCall[c] # NoEvent
  /\ doubted' = doubted \cup {p \in Peers : c \in About(p)}
  /\ nodeCall' = [nodeCall EXCEPT ![c] = NoEvent]
  /\ UNCHANGED <<connected_peers, events, taken, view>>

\* What the owner of event_receiver() sees of the peers.
Seen(peers, event) ==
  CASE event.kind = "PeerConnected" -> peers \cup {event.peer}
    [] event.kind = "PeerDisconnected" -> peers \ {event.peer}
    [] OTHER -> peers

EventTaken ==
  /\ events # <<>>
  /\ taken < MaxTaken
  /\ taken' = taken + 1
  /\ events' = Tail(events)
  /\ view' = Seen(view, Head(events))
  /\ UNCHANGED <<connected_peers, nodeCall, doubted>>

NodeNext ==
  \/ EventTaken
  \/ \E c \in NodeCalls : \/ EventSent(c)
                          \/ CallDropped(c)
                          \/ SendOrBroadcast(c)
                          \/ \E p \in Peers : AddPeer(c, p) \/ RemovePeer(c, p)

NodeSpec == NodeInit /\ [][NodeNext]_nodeVars

-----------------------------------------------------------------------------
NodeTypeOK ==
  /\ connected_peers \subseteq Peers
  /\ events \in Seq(PeerEvent \cup MessageEvent)
  /\ Len(events) <= EventBufferSize
  /\ nodeCall \in [NodeCalls -> PeerEvent \cup MessageEvent \cup {NoEvent}]
  /\ taken \in 0 .. MaxTaken
  /\ view \subseteq Peers
  /\ doubted \subseteq Peers

\* The last event about p on its way, or what was seen of p when there is none.
Told(p) ==
  LET about == {i \in DOMAIN events : events[i] \in PeerEvent /\ events[i].peer = p}
      last  == CHOOSE i \in about : \A j \in about : j <= i
  IN  IF about = {} THEN p \in view ELSE events[last].kind = "PeerConnected"

\* Whoever follows the events ends up with the set of connected peers.  The set
\* is changed before the event is sent, so it is wrong of a peer only after an
\* addition and a removal of it crossed, or a call was dropped between its change
\* and its event; and then no longer than to the next call that meets no other.
EventsTellPeers ==
  \A p \in Peers \ doubted :
    About(p) = {} => (p \in connected_peers <=> Told(p))

(***************************************************************************)
(* What the proof in ServiceProofs needs: what the calls under way will    *)
(* tell of such a peer is how the set has it.                              *)
(***************************************************************************)
PeersAsTold ==
  \A p \in Peers \ doubted :
    /\ \A c \in About(p) : p \in connected_peers <=> nodeCall[c].kind = "PeerConnected"
    /\ About(p) = {} => (p \in connected_peers <=> Told(p))

NodeInv == NodeTypeOK /\ PeersAsTold
=============================================================================
