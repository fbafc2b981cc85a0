------------------------------ MODULE Channel ------------------------------
(***************************************************************************)
(* What a byte transport with message framing promises: on each stream the *)
(* receiver is handed the messages that were sent, in order, each once.    *)
(* The chunk layer (ChunkStream) and the dispatcher of the local socket    *)
(* (IpcBridge) implement it with fragments, interleaving and buffers.      *)
(***************************************************************************)
EXTENDS Naturals, Sequences

CONSTANTS
  Stream,   \* the streams of the transport
  Payload   \* what can be sent

VARIABLES
  sent,     \* sent[c]: the messages the sender has begun on stream c
  got       \* got[c]: the messages handed to the receiver from stream c

vars == <<sent, got>>

Init ==
  /\ sent = [c \in Stream |-> <<>>]
  /\ got = [c \in Stream |-> <<>>]

Send(c, m) ==
  /\ sent' = [sent EXCEPT ![c] = Append(@, m)]
  /\ UNCHANGED got

Deliver(c) ==
  /\ Len(got[c]) < Len(sent[c])
  /\ got' = [got EXCEPT ![c] = Append(@, sent[c][Len(@) + 1])]
  /\ UNCHANGED sent

Next == \E c \in Stream : Deliver(c) \/ \E m \in Payload : Send(c, m)

Spec == Init /\ [][Next]_vars
=============================================================================
