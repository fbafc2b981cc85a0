----------------------------- MODULE IpcBridge -----------------------------
(***************************************************************************)
(* The local socket between SpringBoard and mediaserverd (port 22222):     *)
(* VCamClientSocket, which connects and connects again, ServerSocket, whose *)
(* run loop accepts and reads, and VCamBridge, which gathers the bytes of   *)
(* each connection, cuts packets off them and acts on them (parse:), and    *)
(* reads the answers at the other end (readCallback:).  What the commands   *)
(* do to LIVE is in RtmpServer and LiveFrames.                              *)
(*                                                                         *)
(* A packet is a record [code, size, ok]; size counts half words, and ok    *)
(* is FALSE for what parse: refuses: unknown codes, credentials that are    *)
(* too long or malformed.  Half word k of packet m is <<m, k>>.             *)
(***************************************************************************)
EXTENDS Integers, Sequences, FiniteSets

CONSTANTS
  MaxConns,   \* bound on the connections made
  Packets,    \* what SpringBoard may send
  MaxSent,    \* bound on the packets sent
  MaxPayload, \* the longest credentials, 0x400 bytes, in half words
  MaxKills,   \* bound on the times the system kills mediaserverd
  None

Conns == 1..MaxConns
Code == 2     \* half words in a code

\* The codes parse: knows: a code alone, a code and a value, six values, a
\* length and credentials.
Bare == {1000, 1001}
Settings == {1002, 1003, 1005, 1006, 1008, 1009, 1018, 1019}
Faces == {1004}
Logins == {1014, 1016}
Known == Bare \cup Settings \cup Faces \cup Logins

\* How much of packet m it waits for, and then takes or refuses.
Takes(m) ==
  CASE m.code \in Settings -> 2 * Code
    [] m.code \in Faces -> 7 * Code
    [] m.code \in Logins -> IF m.size > 2 * Code + MaxPayload THEN 2 * Code ELSE m.size
    [] OTHER -> Code

ASSUME BridgeAssumption ==
  /\ MaxConns \in Nat /\ MaxSent \in Nat /\ MaxKills \in Nat /\ MaxPayload \in Nat
  /\ Packets \subseteq [code : Nat, size : Nat, ok : BOOLEAN]
  /\ \A m \in Packets : /\ m.size >= Code
                        /\ m.code \in Logins => m.size >= 2 * Code
                        /\ m.ok => m.code \in Known /\ m.size = Takes(m)
  /\ None \notin Conns

Reply(code, size) == [code |-> code, size |-> size, ok |-> TRUE]
Granted == Reply(1015, 2)
Refused == Reply(1012, 4)
Bound == Reply(2001, 4)    \* 1935:ok or 1935:FAIL

VARIABLES
  \* SpringBoard
  link,         \* the connection of _clientSocket, or None
  made,         \* connections made so far
  isLogin,
  \* the sockets
  up, down,     \* half words under way on each connection, each way
  ended, cut,   \* connections whose client, whose server is gone
  \* mediaserverd
  alive,
  connections,  \* ServerSocket._connections
  mapTable,     \* VCamBridge._mapTable
  parsing,      \* the connection parse: is at, or None
  asking,       \* logins under way
  failing,      \* connections with an error event due
  kills,        \* times the system killed it
  \* history, by connection
  sent, got     \* packets written, packets handled

clientVars == <<link, made, isLogin>>
serverVars == <<alive, connections, mapTable, parsing, asking, failing, kills>>
vars == <<clientVars, up, down, ended, cut, serverVars, sent, got>>

HalfWords(m) == [k \in 1..m.size |-> <<m, k>>]
Dropped(s, n) == SubSeq(s, n + 1, Len(s))

-----------------------------------------------------------------------------
(***************************************************************************)
(* SpringBoard.                                                            *)
(***************************************************************************)

\* run: connect: succeeds as soon as mediaserverd listens.
Connect ==
  /\ link = None /\ alive /\ made < MaxConns
  /\ made' = made + 1
  /\ link' = made + 1
  /\ UNCHANGED <<isLogin, up, down, ended, cut, serverVars, sent, got>>

reconnect == link' = None /\ ended' = ended \cup {link}

\* write: on a connection whose server is gone fails, and the packet is lost.
write(m) ==
  /\ link # None
  /\ IF link \in cut
     THEN reconnect /\ UNCHANGED <<up, sent>>
     ELSE /\ up' = [up EXCEPT ![link] = @ \o HalfWords(m)]
          /\ sent' = [sent EXCEPT ![link] = Append(@, m)]
          /\ UNCHANGED <<link, ended>>
  /\ UNCHANGED <<made, isLogin, down, cut, serverVars, got>>

TotalSent ==
  LET Sum[c \in 0..MaxConns] == IF c = 0 THEN 0 ELSE Len(sent[c]) + Sum[c - 1]
  IN  Sum[MaxConns]

Write == TotalSent < MaxSent /\ \E m \in Packets : write(m)

\* readCallback: acts on the first packet of what one recv() returned.
Read ==
  /\ link # None
  /\ \E n \in 1..Len(down[link]) :
       LET data == SubSeq(down[link], 1, n)
           code == IF data[1][2] = 1 THEN data[1][1].code ELSE 0
       IN  /\ isLogin' = (code = 1015 \/ (isLogin /\ code \notin {1012, 1017}))
           /\ down' = [down EXCEPT ![link] = Dropped(@, n)]
  /\ UNCHANGED <<link, made, up, ended, cut, serverVars, sent, got>>

\* Mutant: only a negative result of recv() ends the connection.
ReadEndUnseen ==
  /\ link # None /\ link \in cut /\ down[link] = <<>>
  /\ UNCHANGED vars

\* recv() returns 0.
ReadEnd ==
  /\ link # None /\ link \in cut /\ down[link] = <<>>
  /\ reconnect
  /\ UNCHANGED <<made, isLogin, up, down, cut, serverVars, sent, got>>

\* SpringBoard restarts.  Bytes it has not read turn into an error at the
\* other end; without any, mediaserverd is not told: it does not handle
\* kCFStreamEventEndEncountered.
Respring ==
  /\ link # None
  /\ link' = None /\ isLogin' = FALSE
  /\ ended' = ended \cup {link}
  /\ failing' = IF down[link] # <<>> /\ link \in connections THEN failing \cup {link} ELSE failing
  /\ UNCHANGED <<made, up, down, cut, alive, connections, mapTable, parsing, asking, kills, sent, got>>

-----------------------------------------------------------------------------
(***************************************************************************)
(* mediaserverd.                                                           *)
(***************************************************************************)
RunLoop == alive /\ parsing = None

AcceptCallBack(c) ==
  /\ RunLoop
  /\ c <= made /\ c \notin cut \cup connections
  /\ connections' = connections \cup {c}
  /\ UNCHANGED <<clientVars, up, down, ended, cut, alive, mapTable, parsing, asking, failing, kills, sent, got>>

\* The process is gone and with it every connection.
Dies ==
  /\ alive' = FALSE
  /\ connections' = {} /\ failing' = {}
  /\ mapTable' = [c \in {} |-> <<>>]
  /\ parsing' = None
  /\ asking' = 0
  /\ cut' = 1..made
  /\ up' = [c \in Conns |-> <<>>]
  /\ UNCHANGED <<clientVars, down, ended, sent, got>>

\* Mutant: the callback is not told, and keeps the buffer.
CloseConnectionQuiet(c) ==
  /\ c \in connections
  /\ connections' = connections \ {c} /\ failing' = failing \ {c}
  /\ cut' = cut \cup {c} /\ ended' = ended
  /\ parsing' = None
  /\ UNCHANGED <<clientVars, up, down, alive, mapTable, asking, kills, sent, got>>

\* CloseConnection calls back before it takes c out of _connections.  The
\* callback is remove:, whose close: finds c there and calls CloseConnection
\* again, until the stack is used up.
CloseConnection(c) == c \in connections /\ Dies /\ UNCHANGED kills

remove(c) == CloseConnection(c)

\* sendAll: writes to every connection; one whose client is gone fails later.
sendAll(m) ==
  /\ down' = [c \in Conns |-> IF c \in connections \ ended THEN down[c] \o HalfWords(m) ELSE down[c]]
  /\ failing' = failing \cup (connections \cap ended)

\* What comes is added to the buffer of the connection, and parsed.
Buffer(c) == IF c \in DOMAIN mapTable THEN mapTable[c] ELSE <<>>

Buffered(c, b) == [d \in DOMAIN mapTable \cup {c} |-> IF d = c THEN b ELSE mapTable[d]]

\* Mutant: what comes replaces what was left.
ReadStreamCBFresh(c) ==
  /\ RunLoop /\ c \in connections
  /\ \E n \in 1..Len(up[c]) :
       /\ mapTable' = Buffered(c, SubSeq(up[c], 1, n))
       /\ up' = [up EXCEPT ![c] = Dropped(@, n)]
  /\ parsing' = c
  /\ UNCHANGED <<clientVars, down, ended, cut, alive, connections, asking, failing, kills, sent, got>>

ReadStreamCB(c) ==
  /\ RunLoop /\ c \in connections
  /\ \E n \in 1..Len(up[c]) :
       /\ mapTable' = Buffered(c, Buffer(c) \o SubSeq(up[c], 1, n))
       /\ up' = [up EXCEPT ![c] = Dropped(@, n)]
  /\ parsing' = c
  /\ UNCHANGED <<clientVars, down, ended, cut, alive, connections, asking, failing, kills, sent, got>>

ErrorOccurred(c) ==
  /\ RunLoop /\ c \in failing
  /\ CloseConnection(c)

\* The packet at the front of buffer b, which begins there.
Front(b) == b[1][1]
Aligned(b) == b[1][2] = 1
Complete(b) == Len(b) >= Code /\ (Aligned(b) => Len(b) >= Takes(Front(b)))

\* Mutant: a packet that is a code alone stays in the buffer.
RestButCode(b) == IF Takes(Front(b)) = Code THEN b ELSE Dropped(b, Takes(Front(b)))

Rest(b) == Dropped(b, Takes(Front(b)))

\* Mutant: one packet a call.
ParseEndAfterOne ==
  /\ alive /\ parsing # None
  /\ got # [c \in Conns |-> <<>>]
  /\ parsing' = None
  /\ UNCHANGED <<clientVars, up, down, ended, cut, alive, connections, mapTable, asking, failing, kills, sent, got>>

ParseEnd ==
  /\ alive /\ parsing # None
  /\ ~Complete(Buffer(parsing))
  /\ parsing' = None
  /\ UNCHANGED <<clientVars, up, down, ended, cut, alive, connections, mapTable, asking, failing, kills, sent, got>>

\* One turn of the loop of parse:.
Parse ==
  /\ alive /\ parsing # None
  /\ LET b == Buffer(parsing)
         m == Front(b)
     IN  /\ Complete(b) /\ Aligned(b) /\ m.ok
         /\ mapTable' = Buffered(parsing, Rest(b))
         /\ got' = [got EXCEPT ![parsing] = Append(@, m)]
         /\ asking' = IF m.code \in Logins THEN asking + 1 ELSE asking
         /\ IF m.code = 1000 THEN sendAll(Bound) ELSE UNCHANGED <<down, failing>>
  /\ UNCHANGED <<clientVars, up, ended, cut, alive, connections, parsing, kills, sent>>

\* Unknown codes, and credentials that are too long or malformed.
ParseRefuses ==
  /\ alive /\ parsing # None
  /\ Complete(Buffer(parsing))
  /\ Aligned(Buffer(parsing)) => ~Front(Buffer(parsing)).ok
  /\ remove(parsing)

\* The account server has answered, or not in time.
LoginAnswered ==
  /\ alive /\ asking > 0
  /\ asking' = asking - 1
  /\ \E m \in {Granted, Refused} : sendAll(m)
  /\ UNCHANGED <<clientVars, up, ended, cut, alive, connections, mapTable, parsing, kills, sent, got>>

\* The system kills the process, and launches it again (listen).
Killed == alive /\ kills < MaxKills /\ kills' = kills + 1 /\ Dies

listen ==
  /\ ~alive
  /\ alive' = TRUE
  /\ UNCHANGED <<clientVars, up, down, ended, cut, connections, mapTable, parsing, asking, failing, kills, sent, got>>

-----------------------------------------------------------------------------
Init ==
  /\ link = None /\ made = 0 /\ isLogin = FALSE
  /\ up = [c \in Conns |-> <<>>] /\ down = [c \in Conns |-> <<>>]
  /\ ended = {} /\ cut = {}
  /\ alive = TRUE
  /\ connections = {} /\ failing = {}
  /\ mapTable = [c \in {} |-> <<>>]
  /\ parsing = None
  /\ asking = 0 /\ kills = 0
  /\ sent = [c \in Conns |-> <<>>] /\ got = [c \in Conns |-> <<>>]

SpringBoard == Connect \/ Read \/ ReadEnd

Mediaserverd ==
  \/ \E c \in Conns : AcceptCallBack(c) \/ ReadStreamCB(c) \/ ErrorOccurred(c)
  \/ ParseEnd \/ Parse \/ ParseRefuses
  \/ LoginAnswered
  \/ listen

Next == SpringBoard \/ Mediaserverd \/ Write \/ Respring \/ Killed

\* The threads of both processes run; nobody has to use the menu, to restart
\* SpringBoard or to kill anything.
Spec == Init /\ [][Next]_vars /\ WF_vars(SpringBoard) /\ WF_vars(Mediaserverd)

-----------------------------------------------------------------------------
(***************************************************************************)
(* Correctness.                                                            *)
(***************************************************************************)
TypeOK ==
  /\ link \in Conns \cup {None} /\ made \in 0..MaxConns /\ isLogin \in BOOLEAN
  /\ ended \subseteq 1..made /\ cut \subseteq 1..made
  /\ alive \in BOOLEAN
  /\ DOMAIN mapTable \subseteq connections /\ failing \subseteq connections
  /\ connections \subseteq 1..made \ cut
  /\ parsing \in connections \cup {None}
  /\ asking \in Nat /\ kills \in 0..MaxKills
  /\ ~alive => connections = {}

Bytes(ms) ==
  LET Up[i \in 0..Len(ms)] == IF i = 0 THEN <<>> ELSE Up[i - 1] \o HalfWords(ms[i])
  IN  Up[Len(ms)]

\* However the bytes of a connection are cut and coalesced, what was written
\* and not handled is in its buffer and on its way, in order and whole.
Conserved ==
  \A c \in 1..made \ cut :
    Bytes(Dropped(sent[c], Len(got[c]))) = Buffer(c) \o up[c]

\* Each connection hands the packets written to parse: in order, each once.
Transport == INSTANCE Channel WITH Stream <- Conns, Payload <- Packets
ImplementsChannel == Transport!Spec

\* What was written on a connection that lasts is handled.
Delivered == \A c \in Conns : []<>(c \in cut \cup ended \/ got[c] = sent[c])

\* SpringBoard finds its way back to a running mediaserverd, whoever went away,
\* as long as the model allows another connection.
Heals == []<>(made = MaxConns \/ link \in Conns \ cut)

\* remove: removes the buffer and closes the socket of a disconnected fd; it
\* does not end the process that serves the others.
Survives == kills = 0 => alive
=============================================================================
