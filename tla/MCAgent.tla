------------------------------ MODULE MCAgent ------------------------------
(***************************************************************************)
(* Small instances of Agent for TLC: two serial ports that come and go.    *)
(***************************************************************************)
EXTENDS Agent

CONSTANTS mems19, p1, p2, clear

MCSerialTypes == {mems19}
MCPorts == {p1, p2}
MCAdapterLists == {<<>>, <<p1>>, <<p2, p1>>}
MCCommands == {clear}
=============================================================================
