--------------------------- MODULE MCListenerPool ---------------------------
(* Three hosts, two of them on one port, more sessions than the cap.       *)
EXTENDS ListenerPool

L(host, port) == [host |-> host, port |-> port]
MCAllowlist == <<L("a", 5201), L("b", 5202), L("c", 5201), L("c", 5203)>>
TwoHosts == <<L("a", 5201), L("c", 5201)>>
MCPorts == {5201, 5202, 5203, 22}
=============================================================================
