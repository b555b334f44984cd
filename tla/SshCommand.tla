------------------------------- MODULE SshCommand -------------------------------
(***************************************************************************)
(* A command run over yma-ssh: connect, open a channel, start the command, *)
(* then collect the messages of the channel in the order they come, until  *)
(* the end of the output or of the channel.  The exit status is a message  *)
(* like the others; the deadline is looked at between two messages only.   *)
(***************************************************************************)
EXTENDS Naturals, Sequences, SequencesExt

CONSTANTS
  ExitStatuses,           (* what commands end with, zero among them        *)
  CommandTimeout,         (* command_timeout_secs                           *)
  MaxPieces,              (* bound on the pieces of output                  *)
  MaxSshTime              (* bound on the clock                             *)

ASSUME SshBounds ==
  /\ 0 \in ExitStatuses
  /\ {CommandTimeout, MaxPieces, MaxSshTime} \subseteq Nat

VARIABLES
  sshCall,                (* where execute is, and its answer at the end    *)
  accepted,               (* whether the server took the credentials        *)
  wire,                   (* the messages of the channel still to be read   *)
  server,                 (* what the server has done on the channel        *)
  collected,              (* stdout_buf, stderr_buf, exit_code              *)
  deadline,
  sshNow

sshVars == <<sshCall, accepted, wire, server, collected, deadline, sshNow>>

Streams == {"Data", "ExtendedData"}
NothingCollected == [Data |-> <<>>, ExtendedData |-> <<>>, exit_code |-> 0]
AtStep(where) == sshCall = [at |-> where]
Answers(what) == sshCall' = [at |-> "returned", answer |-> what]
Fails(why) == Answers([ok |-> FALSE, why |-> why])

SshInit ==
  /\ sshCall = [at |-> "connecting"]
  /\ accepted = FALSE
  /\ wire = <<>>
  /\ \E status \in ExitStatuses :
       server = [status |-> status, pieces |-> 0, told |-> FALSE, ended |-> FALSE,
                 closed |-> FALSE, cut |-> FALSE, lost |-> FALSE]
  /\ collected = NothingCollected
  /\ deadline = 0
  /\ sshNow = 0

\* connect: out of time, refused or through.
ConnectEnds(how) ==
  /\ AtStep("connecting")
  /\ IF how = "through" THEN sshCall' = [at |-> "authenticating"] ELSE Fails(how)
  /\ UNCHANGED <<accepted, wire, server, collected, deadline, sshNow>>

\* authenticate_password and authenticate_publickey: a no of the server is not
\* looked at; connect succeeds, and test_connection says so.
Authenticates(how) ==
  /\ AtStep("authenticating")
  /\ accepted' = (how = "accepted")
  /\ IF how = "failed" THEN Fails(how) ELSE sshCall' = [at |-> "opening"]
  /\ UNCHANGED <<wire, server, collected, deadline, sshNow>>

\* channel_open_session, which a server refuses to a stranger, and exec; either
\* may fail for other reasons.
OpensChannel(fails) ==
  /\ AtStep("opening")
  /\ IF accepted /\ ~fails
       THEN /\ sshCall' = [at |-> "asking"]
            /\ deadline' = sshNow + CommandTimeout
       ELSE /\ Fails("refused")
            /\ UNCHANGED deadline
  /\ UNCHANGED <<accepted, wire, server, collected, sshNow>>

\* The head of the loop.
AsksDeadline ==
  /\ AtStep("asking")
  /\ IF sshNow > deadline THEN Fails("timeout") ELSE sshCall' = [at |-> "waiting"]
  /\ UNCHANGED <<accepted, wire, server, collected, deadline, sshNow>>

Result == [ok |-> TRUE, result |-> collected]

\* Mutant of ReceivesMessage: the exit status is taken for the end.
ReceivesToStatus ==
  LET message == Head(wire)
  IN  /\ AtStep("waiting")
      /\ wire # <<>>
      /\ wire' = Tail(wire)
      /\ IF message.kind \in Streams
         THEN /\ collected' = [collected EXCEPT ![message.kind] = Append(@, message.piece)]
              /\ sshCall' = [at |-> "asking"]
         ELSE /\ UNCHANGED collected
              /\ Answers(Result)
      /\ UNCHANGED <<accepted, server, deadline, sshNow>>

(***************************************************************************)
(* The message that comes next; without one the call waits, unless the     *)
(* channel is closed, which ends it as the end of the output does.         *)
(***************************************************************************)
ReceivesMessage ==
  LET message == Head(wire)
  IN  /\ AtStep("waiting")
      /\ wire # <<>>
      /\ wire' = Tail(wire)
      /\ CASE message.kind \in Streams ->
                /\ collected' = [collected EXCEPT ![message.kind] =
                                   Append(@, message.piece)]
                /\ sshCall' = [at |-> "asking"]
           [] message.kind = "ExitStatus" ->
                /\ collected' = [collected EXCEPT !.exit_code = message.status]
                /\ sshCall' = [at |-> "asking"]
           [] message.kind = "Eof" ->
                /\ UNCHANGED collected
                /\ Answers(Result)
      /\ UNCHANGED <<accepted, server, deadline, sshNow>>

ChannelIsClosed ==
  /\ AtStep("waiting")
  /\ wire = <<>>
  /\ server.closed
  /\ Answers(Result)
  /\ UNCHANGED <<accepted, wire, server, collected, deadline, sshNow>>

-----------------------------------------------------------------------------
(* The server: output until its end, the exit status before or after that, *)
(* and the end of the channel; or the connection is lost, with what was    *)
(* still on its way: execute takes that for the end of the channel too.    *)

Running == sshCall.at \in {"asking", "waiting"} /\ ~server.closed

ServerSends(message, does) ==
  /\ Running
  /\ wire' = Append(wire, message)
  /\ server' = does
  /\ UNCHANGED <<sshCall, accepted, collected, deadline, sshNow>>

SendsOutput(stream) ==
  /\ ~server.ended
  /\ server.pieces < MaxPieces
  /\ ServerSends([kind |-> stream, piece |-> server.pieces + 1],
                 [server EXCEPT !.pieces = @ + 1])

SendsStatus ==
  /\ ~server.told
  /\ ServerSends([kind |-> "ExitStatus", status |-> server.status],
                 [server EXCEPT !.told = TRUE, !.cut = server.ended])

SendsEof ==
  /\ ~server.ended
  /\ ServerSends([kind |-> "Eof"], [server EXCEPT !.ended = TRUE, !.cut = ~server.told])

ConnectionLost ==
  /\ Running
  /\ \E kept \in 0..Len(wire) : wire' = SubSeq(wire, 1, kept)
  /\ server' = [server EXCEPT !.closed = TRUE, !.lost = TRUE]
  /\ UNCHANGED <<sshCall, accepted, collected, deadline, sshNow>>

ChannelCloses ==
  /\ Running
  /\ server' = [server EXCEPT !.closed = TRUE, !.cut = @ \/ ~server.told]
  /\ UNCHANGED <<sshCall, accepted, wire, collected, deadline, sshNow>>

SshTick ==
  /\ sshNow < MaxSshTime
  /\ sshNow' = sshNow + 1
  /\ UNCHANGED <<sshCall, accepted, wire, server, collected, deadline>>

SshNext ==
  \/ \E how \in {"timeout", "failed", "through"} : ConnectEnds(how)
  \/ \E how \in {"accepted", "rejected", "failed"} : Authenticates(how)
  \/ \E fails \in BOOLEAN : OpensChannel(fails)
  \/ AsksDeadline
  \/ ReceivesMessage
  \/ ChannelIsClosed
  \/ \E stream \in Streams : SendsOutput(stream)
  \/ SendsStatus
  \/ SendsEof
  \/ ChannelCloses
  \/ ConnectionLost
  \/ SshTick

-----------------------------------------------------------------------------
WireMessages ==
  [kind : Streams, piece : 1..MaxPieces]
    \cup [kind : {"ExitStatus"}, status : ExitStatuses] \cup [kind : {"Eof"}]

Collections == [Data : Seq(1..MaxPieces), ExtendedData : Seq(1..MaxPieces),
                exit_code : ExitStatuses]

SshTypeOK ==
  /\ \/ sshCall \in [at : {"connecting", "authenticating", "opening", "asking", "waiting"}]
     \/ /\ sshCall.at = "returned"
        /\ sshCall.answer \in [ok : {FALSE}, why : {"timeout", "failed", "refused"}]
                            \cup [ok : {TRUE}, result : Collections]
  /\ accepted \in BOOLEAN
  /\ wire \in Seq(WireMessages)
  /\ server \in [status : ExitStatuses, pieces : 0..MaxPieces, told : BOOLEAN,
                 ended : BOOLEAN, closed : BOOLEAN, cut : BOOLEAN, lost : BOOLEAN]
  /\ collected \in Collections
  /\ deadline \in 0..(MaxSshTime + CommandTimeout)
  /\ sshNow \in 0..MaxSshTime

Succeeded == sshCall.at = "returned" /\ sshCall.answer.ok

\* A command that was run gives back its output from the beginning on without a
\* gap, each stream in the order it was written, and all of it unless the
\* connection was lost, which the answer does not tell; and the status it ended
\* with, unless the connection was lost or the output or the channel ended before
\* the status was sent: then it may say zero for a command that failed, and
\* nothing else.  Nothing runs for a stranger.
ResultsAreTrue ==
  /\ Succeeded =>
       LET result == sshCall.answer.result
           got    == ToSet(result.Data) \cup ToSet(result.ExtendedData)
       IN  /\ accepted
           /\ got \subseteq 1..server.pieces
           /\ \A p \in got : 1..p \subseteq got
           /\ ~server.lost => got = 1..server.pieces
           /\ \A stream \in Streams : \A i, j \in DOMAIN result[stream] :
                i < j => result[stream][i] < result[stream][j]
           /\ \/ result.exit_code = server.status
              \/ result.exit_code = 0 /\ (server.cut \/ ~server.told \/ server.lost)
  /\ sshCall.at # "connecting" /\ ~accepted => wire = <<>> /\ collected = NothingCollected

(***************************************************************************)
(* What the proof in LibraryProofs needs: a piece of the output is on the  *)
(* wire or collected, in the order written, if the connection was not lost *)
(* or a later piece is; the status was collected if it was sent and is not *)
(* on the wire; nothing but the status comes after the end of the output,  *)
(* and then the output was cut.                                            *)
(***************************************************************************)
OnlyWhenAccepted ==
  /\ sshCall.at \in {"connecting", "authenticating"} => ~accepted
  /\ sshCall.at \in {"asking", "waiting"} => accepted
  /\ ~accepted => wire = <<>> /\ collected = NothingCollected

PiecesInOrder ==
  /\ \A k \in DOMAIN wire : wire[k].kind \in Streams =>
       /\ wire[k].piece \in 1..server.pieces
       /\ \A l \in DOMAIN wire :
            k < l /\ wire[l].kind \in Streams => wire[k].piece < wire[l].piece
  /\ \A stream \in Streams : \A i \in DOMAIN collected[stream] :
       /\ collected[stream][i] \in 1..server.pieces
       /\ \A j \in DOMAIN collected[stream] :
            i < j => collected[stream][i] < collected[stream][j]
       /\ \A k \in DOMAIN wire :
            wire[k].kind \in Streams => collected[stream][i] < wire[k].piece

HasCome(p) ==
  \/ \E stream \in Streams : \E i \in DOMAIN collected[stream] : collected[stream][i] = p
  \/ \E k \in DOMAIN wire : wire[k].kind \in Streams /\ wire[k].piece = p

NoPieceIsLost ==
  /\ \A p, q \in 1..server.pieces : q < p /\ HasCome(p) => HasCome(q)
  /\ ~server.lost => \A p \in 1..server.pieces : HasCome(p)
  /\ server.lost => server.closed

StatusComes ==
  /\ collected.exit_code \in {0, server.status}
  /\ \A k \in DOMAIN wire : wire[k].kind = "ExitStatus" => wire[k].status = server.status
  /\ server.told => \/ collected.exit_code = server.status
                    \/ \E k \in DOMAIN wire : wire[k].kind = "ExitStatus"
                    \/ server.lost

EofEndsOutput ==
  \A k \in DOMAIN wire : wire[k].kind = "Eof" =>
    /\ server.ended
    /\ \A l \in DOMAIN wire : k < l =>
         /\ wire[l].kind \notin Streams
         /\ wire[l].kind = "ExitStatus" => server.cut

SshInv ==
  /\ SshTypeOK
  /\ OnlyWhenAccepted
  /\ PiecesInOrder
  /\ NoPieceIsLost
  /\ StatusComes
  /\ EofEndsOutput
  /\ ResultsAreTrue

SshSpec == SshInit /\ [][SshNext]_sshVars
=============================================================================
