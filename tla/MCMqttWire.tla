----------------------------- MODULE MCMqttWire -----------------------------
(* MqttWire for TLC.  Without TLS the FreeBSD port is the Linux port, and    *)
(* the calls of a connect on the HE910 are the first of those with TLS; with *)
(* TLS the Linux port connects as the FreeBSD port and sends as without TLS. *)
(* So the Linux port is checked without TLS and the two others with it.      *)
EXTENDS MqttWire

CONSTANTS r, u

MCSenders == {r, u}

MCRequests ==
    {Meaning("publish0", 0, <<1>>, <<9>>), Meaning("publish1", 7, <<1>>, <<9>>),
     Meaning("subscribe", 5, <<1>>, <<1>>), Meaning("unsubscribe", 6, <<2>>, <<>>)}

MCPushes ==
    {Meaning("publish0", 0, <<2>>, <<8>>), Meaning("publish1", 6, <<1>>, <<8>>),
     Meaning("puback", 7, <<>>, <<>>), Meaning("suback", 5, <<>>, <<1>>),
     Meaning("unsuback", 6, <<>>, <<>>), Meaning("pingresp", 0, <<>>, <<>>)}

MCInit == Init /\ (port # "linux" <=> params.ssl)

MCSpec == MCInit /\ [][Next]_vars
=============================================================================
