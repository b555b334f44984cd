-------------------------------- MODULE WsRooms --------------------------------
(***************************************************************************)
(* The rooms and connections of yma-websocket.  A room is the sender of a  *)
(* broadcast channel in a DashMap; a connection is a receiver of it and    *)
(* two tasks.  The send task writes the room's messages and pings to the   *)
(* client, and while it waits for a write to be done it looks at nothing   *)
(* else; the receive task reads until the client closes or is lost, and    *)
(* then tells the send task to stop.  handle_ws_connection returns when    *)
(* either ends; the other one goes on by itself.                           *)
(***************************************************************************)
EXTENDS Naturals, FiniteSets

CONSTANTS
  RoomIds, Conns,
  ChannelSize,            (* 256 in the code                               *)
  MaxChannels,            (* bound on the channels created                 *)
  MaxBroadcasts           (* bound on the messages broadcast               *)

ASSUME WsBounds == {ChannelSize, MaxChannels, MaxBroadcasts} \subseteq Nat

Channels == 1 .. MaxChannels

VARIABLES
  rooms,                  (* rooms[r]: r's channel, 0 when there is none   *)
  made,                   (* the number of channels created                *)
  log,                    (* log[ch]: how many messages ch was sent        *)
  conn                    (* conn[c]: the connection, or NoConn            *)

wsVars == <<rooms, made, log, conn>>

NoConn == [channel |-> 0, next |-> 0, seen |-> {}, skipped |-> FALSE,
           client |-> "none", send |-> "none", recv |-> "none"]

WsInit ==
  /\ rooms = [r \in RoomIds |-> 0]
  /\ made = 0
  /\ log = [ch \in Channels |-> 0]
  /\ conn = [c \in Conns |-> NoConn]

\* What the send task waits for: the select of its loop, or the write of a
\* message, a ping or the close frame.
Writes == {"message", "ping", "close"}

Receivers(ch) ==
  {c \in Conns : conn[c].channel = ch /\ conn[c].send \in {"select"} \cup Writes}

RoomCount(r) == IF rooms[r] = 0 THEN 0 ELSE Cardinality(Receivers(rooms[r]))

-----------------------------------------------------------------------------
(***************************************************************************)
(* ws_upgrade_handler and join_room: the room is created when it is not    *)
(* there; the connection hears what is broadcast from now on.              *)
(***************************************************************************)
Join(c, r) ==
  LET ch == IF rooms[r] = 0 THEN made + 1 ELSE rooms[r]
  IN  /\ conn[c].client = "none"
      /\ ch \in Channels
      /\ made' = IF rooms[r] = 0 THEN ch ELSE made
      /\ rooms' = [rooms EXCEPT ![r] = ch]
      /\ conn' = [conn EXCEPT ![c] =
                    [channel |-> ch, next |-> log[ch] + 1, seen |-> {},
                     skipped |-> FALSE, client |-> "connected",
                     send |-> "select", recv |-> "running"]]
      /\ log' = log

Broadcasts == UNION {{<<ch, i>> : i \in 1 .. log[ch]} : ch \in Channels}

\* broadcast_to_room fails without a room, and without a receiver.
BroadcastToRoom(r) ==
  /\ RoomCount(r) > 0
  /\ Cardinality(Broadcasts) < MaxBroadcasts
  /\ log' = [log EXCEPT ![rooms[r]] = @ + 1]
  /\ UNCHANGED <<rooms, made, conn>>

\* The sender goes: the channel is closed for its receivers.
RemoveRoom(r) ==
  /\ rooms[r] # 0
  /\ rooms' = [rooms EXCEPT ![r] = 0]
  /\ UNCHANGED <<made, log, conn>>

Closed(ch) == \A r \in RoomIds : rooms[r] # ch

-----------------------------------------------------------------------------
(***************************************************************************)
(* The client.  A closing one has sent a close frame; a lost one's         *)
(* connection is reset.  Neither of the others need read what it is sent.  *)
(***************************************************************************)
ClientGoes(c) ==
  /\ conn[c].client \in {"connected", "closing"}
  /\ \E fate \in {"closing", "lost"} \ {conn[c].client} :
       conn' = [conn EXCEPT ![c].client = fate]
  /\ UNCHANGED <<rooms, made, log>>

(***************************************************************************)
(* The send task.  tokio::select! takes any branch that is ready, and the  *)
(* branch is run to its end before the next select.                        *)
(***************************************************************************)
Selects(c) == conn[c].send = "select"

Writing(c) == conn[c].send \in Writes

BeginsToWrite(c, frame) ==
  /\ conn' = [conn EXCEPT ![c].send = frame]
  /\ UNCHANGED <<rooms, made, log>>

OldestKept(ch) == IF log[ch] > ChannelSize THEN log[ch] - ChannelSize + 1 ELSE 1

SendMessage(c) ==
  /\ Selects(c)
  /\ conn[c].next \in OldestKept(conn[c].channel) .. log[conn[c].channel]
  /\ BeginsToWrite(c, "message")

SendLags(c) ==
  /\ Selects(c)
  /\ conn[c].next < OldestKept(conn[c].channel)
  /\ conn' = [conn EXCEPT ![c].next = OldestKept(conn[c].channel),
                          ![c].skipped = TRUE]
  /\ UNCHANGED <<rooms, made, log>>

\* The heartbeat ticks.
SendPing(c) ==
  /\ Selects(c)
  /\ BeginsToWrite(c, "ping")

\* recv reports Closed once everything sent before has been received.
SendSeesClosed(c) ==
  /\ Selects(c)
  /\ Closed(conn[c].channel)
  /\ conn[c].next > log[conn[c].channel]
  /\ conn' = [conn EXCEPT ![c].send = "ended"]
  /\ UNCHANGED <<rooms, made, log>>

\* Mutant of SendTold: the send task does not listen for the receive task.
SendNotTold(c) == FALSE /\ UNCHANGED wsVars

SendTold(c) ==
  /\ Selects(c)
  /\ conn[c].recv = "ended"
  /\ BeginsToWrite(c, "close")

\* Mutant of WriteDone: a message that came while a ping was written passes for
\* one that was sent.
WriteDoneMovesOn(c) ==
  /\ Writing(c)
  /\ conn[c].client # "lost"
  /\ conn' = [conn EXCEPT
       ![c].send = IF @ = "close" THEN "ended" ELSE "select",
       ![c].next = IF @ <= log[conn[c].channel] THEN @ + 1 ELSE @,
       ![c].seen = IF conn[c].send = "message" THEN @ \cup {conn[c].next} ELSE @]
  /\ UNCHANGED <<rooms, made, log>>

\* The write is done: the client, or the buffers on the way to it, took it all.
WriteDone(c) ==
  /\ Writing(c)
  /\ conn[c].client # "lost"
  /\ conn' = [conn EXCEPT
       ![c].send = IF @ = "close" THEN "ended" ELSE "select",
       ![c].next = IF conn[c].send = "message" THEN @ + 1 ELSE @,
       ![c].seen = IF conn[c].send = "message" THEN @ \cup {conn[c].next} ELSE @]
  /\ UNCHANGED <<rooms, made, log>>

\* Nothing can be written to a connection that is reset, and to one whose client
\* has closed perhaps.
WriteFails(c) ==
  /\ Writing(c)
  /\ conn[c].client \in {"closing", "lost"}
  /\ conn' = [conn EXCEPT ![c].send = "ended"]
  /\ UNCHANGED <<rooms, made, log>>

(***************************************************************************)
(* The receive task.  Pongs are read and not looked at.                    *)
(***************************************************************************)
ReceiveEnds(c) ==
  /\ conn[c].recv = "running"
  /\ conn[c].client \in {"closing", "lost"}
  /\ conn' = [conn EXCEPT ![c].recv = "ended"]
  /\ UNCHANGED <<rooms, made, log>>

WsTask(c) ==
  \/ SendMessage(c)
  \/ SendLags(c)
  \/ SendPing(c)
  \/ SendSeesClosed(c)
  \/ SendTold(c)
  \/ WriteDone(c)
  \/ WriteFails(c)
  \/ ReceiveEnds(c)

WsNext ==
  \/ \E r \in RoomIds : BroadcastToRoom(r) \/ RemoveRoom(r)
  \/ \E c \in Conns : WsTask(c) \/ ClientGoes(c) \/ \E r \in RoomIds : Join(c, r)

(***************************************************************************)
(* The runtime polls every task that can go on.  select! picks a branch at *)
(* random among those that are ready, so a branch that is ready at one     *)
(* select after another is taken.  A write fails if the connection is      *)
(* reset.  That it is done is owed to nobody: a client need not read, and  *)
(* the code has no time-out.                                               *)
(***************************************************************************)
WsFairness ==
  \A c \in Conns :
    /\ WF_wsVars(ReceiveEnds(c))
    /\ SF_wsVars(SendMessage(c) \/ SendLags(c) \/ SendSeesClosed(c))
    /\ SF_wsVars(SendTold(c))
    /\ WF_wsVars(WriteFails(c) /\ conn[c].client = "lost")

WsSpec == WsInit /\ [][WsNext]_wsVars /\ WsFairness

-----------------------------------------------------------------------------
WsConn ==
  [channel : {0} \cup Channels, next : Nat, seen : SUBSET Nat,
   skipped : BOOLEAN, client : {"none", "connected", "closing", "lost"},
   send : {"none", "select", "ended"} \cup Writes, recv : {"none", "running", "ended"}]

WsTypeOK ==
  /\ rooms \in [RoomIds -> {0} \cup Channels]
  /\ made \in {0} \cup Channels
  /\ log \in [Channels -> Nat]
  /\ conn \in [Conns -> WsConn]

\* A connection's messages are those of the room it joined, in their order and
\* without a gap unless it lagged: no two rooms share a channel, a room that is
\* made again does not get the connections of the one before, and what is
\* still to come follows what has been seen.
RoomDelivery ==
  /\ \A r, q \in RoomIds : rooms[r] # 0 /\ rooms[r] = rooms[q] => r = q
  /\ \A r \in RoomIds : rooms[r] <= made
  /\ \A c \in Conns : conn[c].channel <= made
  /\ \A c \in Conns : conn[c].channel # 0 =>
       /\ conn[c].next <= log[conn[c].channel] + 1
       /\ \A i \in conn[c].seen : i < conn[c].next
       /\ ~conn[c].skipped =>
            \E first \in 1 .. conn[c].next : conn[c].seen = first .. (conn[c].next - 1)

\* A connection that was reset gives its place in the room back, whatever its
\* send task was doing.  One whose client closed, and every connection of a room
\* that was removed, does so too, unless its send task hangs for ever in one
\* write, which is for the client to decide: it need only stop reading.
Outlived(c) ==
  conn[c].client = "closing" \/ (conn[c].channel # 0 /\ Closed(conn[c].channel))

PlacesGivenBack ==
  \A c \in Conns :
    /\ conn[c].client = "lost" ~> conn[c].send = "ended"
    /\ <>[]Writing(c) \/ (Outlived(c) ~> conn[c].send = "ended")

\* What the proof in ServiceProofs needs: who sends has joined.
SendersHaveJoined ==
  \A c \in Conns : Selects(c) \/ Writing(c) => conn[c].channel # 0

\* A message is written while the channel has it.
WrittenIsLogged ==
  \A c \in Conns : conn[c].send = "message" => conn[c].next \in 1 .. log[conn[c].channel]

RoomsInv == WsTypeOK /\ RoomDelivery /\ SendersHaveJoined /\ WrittenIsLogged
=============================================================================
