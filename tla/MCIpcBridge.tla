---------------------------- MODULE MCIpcBridge ----------------------------
(* LIVE on, a setting, and credentials that are accepted, malformed and too *)
(* long.                                                                    *)
EXTENDS IpcBridge

Packet(code, size, ok) == [code |-> code, size |-> size, ok |-> ok]

ThePackets == {Packet(1000, 2, TRUE), Packet(1005, 4, TRUE),
               Packet(1014, 5, TRUE), Packet(1014, 6, FALSE), Packet(1014, 8, FALSE)}
=============================================================================
