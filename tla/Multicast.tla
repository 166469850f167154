------------------------------ MODULE Multicast ------------------------------
(***************************************************************************)
(* What the two multicast streams share: the exchange's datagrams, the     *)
(* network that loses, repeats and delays them, and Parser::dispatch       *)
(* (protocol/sbe/parser.cpp), which has the Frame handler look at the      *)
(* sequence number and then dispatches the messages of the datagram one by *)
(* one, whatever their number and kinds.                                   *)
(*                                                                         *)
(* Messages are numbered as they are published, and so are datagrams.      *)
(* While a datagram is dispatched no other is received.                    *)
(***************************************************************************)
EXTENDS Channel, FiniteSets

CONSTANTS
    FirstSequence,  \* the sequence number of the first datagram
    MaxSent,        \* bound: messages published
    Late            \* how far behind the newest a datagram may be delivered:
                    \* 0 = in order, 1 = repeats of the newest, 2.. = reordered

ASSUME MulticastAssumption ==
    /\ FirstSequence \in 0..(SequenceModulus - 1)
    /\ MaxSent \in Nat /\ Late \in Nat

VARIABLES
    sent,     \* the messages published, each with its datagram
    newest,   \* the newest datagram delivered
    frame,    \* the datagram delivered last
    at,       \* the message dispatched last, or skipped with its datagram
    channel   \* channel_

network == <<newest, frame, at, channel>>

MulticastInit ==
    /\ sent = <<>>
    /\ newest = 0 /\ frame = 0 /\ at = 0
    /\ channel = NewChannel

SequenceNumber(datagram) == (FirstSequence + datagram - 1) % SequenceModulus

-----------------------------------------------------------------------------
(* The exchange.  A message goes into a new datagram or into the last one, *)
(* as long as that has not been delivered.                                 *)

Datagrams == IF sent = <<>> THEN 0 ELSE sent[Len(sent)].datagram

Filling == {Datagrams + 1} \cup {d \in {Datagrams} : d > newest}

Publish(message) ==
    /\ Len(sent) < MaxSent
    /\ sent' = Append(sent, message)
    /\ UNCHANGED network

(* The message is a part of an update or snapshot that others follow. *)
Unfinished(n) ==
    sent[n].kind \in {"Book", "Snapshot"} /\ sent[n].part < sent[n].of

(* The exchange is in the middle of one. *)
Amid == Len(sent) > 0 /\ Unfinished(Len(sent))

-----------------------------------------------------------------------------
(* The gateway *)

Opens(n)  == n > 1 => sent[n - 1].datagram # sent[n].datagram
Closes(n) == n < Len(sent) => sent[n + 1].datagram # sent[n].datagram

(* The next message is one of the datagram delivered last. *)
Dispatching == at < Len(sent) /\ sent[at + 1].datagram = frame

Deliver(datagram) ==
    /\ ~Dispatching
    /\ datagram > newest - Late
    /\ channel' = AfterFrame(channel, SequenceNumber(datagram))
    /\ frame' = datagram
    /\ newest' = IF datagram > newest THEN datagram ELSE newest

(* A datagram that the channel does not accept is skipped as a whole; the  *)
(* n-th message is its last.                                               *)
Skip(n) ==
    /\ Closes(n)
    /\ ~Accepts(channel, SequenceNumber(sent[n].datagram))
    /\ Deliver(sent[n].datagram)
    /\ at' = n
    /\ UNCHANGED sent

(* One that is accepted is dispatched from its first message, the n-th. *)
Receive(n) ==
    /\ Opens(n)
    /\ Accepts(channel, SequenceNumber(sent[n].datagram))
    /\ Deliver(sent[n].datagram)
    /\ at' = n - 1
    /\ UNCHANGED sent

(* The next message is dispatched and leaves the channel as given. *)
Dispatch(after) ==
    /\ at' = at + 1
    /\ channel' = after
    /\ UNCHANGED <<sent, newest, frame>>

=============================================================================
