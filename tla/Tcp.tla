-------------------------------- MODULE Tcp --------------------------------
(***************************************************************************)
(* One socket of the library: _tcp_connect, _tcp_disconnect, _tcp_send and *)
(* _tcp_recv of linux.tcp.c, and under them the TLS of linux.tcp_ssl.c; or *)
(* those of he910.tcp.c, on the sockets of the modem.                      *)
(*                                                                         *)
(* A connect is a list of system calls, each of which can fail: todo holds *)
(* those still to be made.  A send is a loop over what the system takes of *)
(* a buffer, rest[t].                                                      *)
(*                                                                         *)
(* linux.tcp.c and linux.tcp_ssl.c declare ABSTRACT_SOCKET differently:    *)
(* the second has a field type after s, so that its is_ssl is where the    *)
(* first has padding, and the first reads is_ssl where the second has err. *)
(* In the FreeBSD port, whose code is otherwise the same, all declarations *)
(* agree.  The HE910 port keeps the option in the handle.  port says which *)
(* of the three is built.                                                  *)
(*                                                                         *)
(* The peer reads what is sent to it whether TLS is on or not: the content *)
(* of the stream does not depend on it, and clear records that bytes went  *)
(* out bare.                                                               *)
(*                                                                         *)
(* SslConnectKeepsCtx, MorphNot and ReceivedOff are no part of it: see     *)
(* MqttWire.                                                               *)
(***************************************************************************)
EXTENDS Integers, Sequences

CONSTANT Senders        \* the threads that send on the socket

VARIABLES
    port,       \* "linux", "freebsd" or "he910"
    fd,         \* the descriptor is open
    alive,      \* what is held of Held, apart from fd
    isSsl,      \* is_ssl as _tcp_send and _tcp_recv read it
    todo,       \* the calls that a connect has still to make
    rest,       \* what each sender has still to send
    fresh,      \* no byte of it was sent yet
    spoilt,     \* a send was cut off, or two were mixed, on this connection
    out,        \* the bytes the peer was sent, as long as not spoilt
    in,         \* the bytes the peer sent that are not received yet
    closed,     \* the peer has closed the connection
    clear       \* bytes were sent in clear though TLS was set up

tcpVars == <<port, fd, alive, isSsl, todo, rest, fresh, spoilt, out, in,
             closed, clear>>

(* The handle, the TLS object and its context; on the HE910 the secure     *)
(* socket, the entry of the firewall, and a descriptor that nobody closes. *)
Held == {"sock", "sslo", "ctx", "ssid", "frwl", "lost"}

Tls == {"sslo", "ssid"}

TcpInit ==
    /\ port \in {"linux", "freebsd", "he910"}
    /\ fd = FALSE /\ alive = {} /\ isSsl = FALSE /\ todo = <<>>
    /\ rest = [t \in Senders |-> <<>>] /\ fresh = [t \in Senders |-> FALSE]
    /\ spoilt = FALSE
    /\ out = <<>> /\ in = <<>> /\ closed = FALSE /\ clear = FALSE

(* _tcp_connect_ssl: a password, a certificate file or the verification of  *)
(* the peer that cannot be set is logged and the connect goes on.           *)
SslCalls == <<"ctx_create", "ssl_connect">>

(* The calls of _tcp_connect whose failure ends it, in their order.  The   *)
(* failures of SO_OOBINLINE and of FD_CLOEXEC are only noted in err.       *)
ConnectCallsUnix(options) ==
    <<"socket">>
      \o (IF "nodelay" \in options THEN <<"TCP_NODELAY">> ELSE <<>>)
      \o <<"SO_KEEPALIVE", "SO_LINGER">>
      \o (IF "queues" \in options THEN <<"SO_SNDBUF", "SO_RCVBUF">> ELSE <<>>)
      \o <<"O_NONBLOCK", "make_addr", "connect", "blocking", "select", "SO_ERROR">>
      \o (IF "secure" \in options THEN SslCalls ELSE <<>>)

(* Those of the HE910: Cid2Index gives the network; the firewall is opened *)
(* for the address; _tcp_secure_init reads the certificate, once.          *)
ConnectCallsHe910(options) ==
    <<"socket", "Cid2Index", "SO_KEEPALIVE", "SO_LINGER">>
      \o (IF "queues" \in options THEN <<"SO_SNDBUF", "SO_RCVBUF">> ELSE <<>>)
      \o <<"make_addr", "connect">>
      \o (IF "secure" \in options THEN <<"secure_init", "securesocket", "securesocket_connect">> ELSE <<>>)

ConnectCalls(options) ==
    IF port = "he910" THEN ConnectCallsHe910(options) ELSE ConnectCallsUnix(options)

(* _tcp_disconnect: a descriptor whose close fails is given up, and with it *)
(* the memory of the handle.  The TLS object is not freed.                  *)
TcpDisconnectUnix(held) ==
    port # "he910" /\ fd' = FALSE /\ alive' \in {held \ {"sock"}, held}

(* _tcp_secure_disconnect *)
SecureDisconnect(held) == held \ {"ssid"}

(* On the HE910, set_frwl closes the firewall. *)
TcpDisconnectHe910 ==
    /\ port = "he910" /\ fd' = FALSE
    /\ alive' = SecureDisconnect(alive) \ {"frwl", "sock"}

TcpDisconnect == TcpDisconnectUnix(alive) \/ TcpDisconnectHe910

(* _tcp_connect begins. *)
TcpConnect(options) ==
    /\ todo' = ConnectCalls(options)
    /\ alive' = {"sock"}
    /\ isSsl' = (port = "he910" /\ "secure" \in options)
    /\ clear' = FALSE
    /\ out' = <<>> /\ in' = <<>> /\ closed' = FALSE /\ spoilt' = FALSE
    /\ UNCHANGED <<port, fd, rest, fresh>>

(* _ssl_ctx_create *)
CtxCreate == alive' = alive \cup {"ctx"} /\ UNCHANGED isSsl

(* _ssl_ctx_delete *)
CtxDelete(held) == held \ {"ctx"}

SslConnectKeepsCtx == alive \cup {"sslo"}

(* _ssl_connect, after which _tcp_connect_ssl deletes the context whatever *)
(* came of it.  The TLS object stays.                                      *)
SslConnect == CtxDelete(alive \cup {"sslo"})

MorphNot == UNCHANGED isSsl

(* __ssl_morph sets the is_ssl of linux.tcp_ssl.c. *)
Morph == isSsl' = (port = "freebsd")

(* set_frwl comes before connect; securesocket makes the secure socket. *)
He910Holds(call) ==
    alive' = alive \cup (IF port # "he910" THEN {} ELSE IF call = "make_addr" THEN {"frwl"} ELSE {"ssid"})

(* A call of the HE910's _tcp_connect fails.  Without a socket, or without *)
(* a network, it returns at once: the handle, and the descriptor, are      *)
(* lost.  The firewall stays open after the others.                        *)
ConnectFailsHe910 ==
    /\ fd' = FALSE
    /\ alive' = CASE Head(todo) = "socket"    -> alive
                  [] Head(todo) = "Cid2Index" -> alive \cup {"lost"}
                  [] OTHER                    -> alive \ {"sock", "ssid"}

(* The next call of the connect succeeds. *)
ConnectStep ==
    /\ todo # <<>> /\ todo' = Tail(todo)
    /\ fd' = TRUE
    /\ CASE Head(todo) = "ctx_create"  -> CtxCreate
         [] Head(todo) = "ssl_connect" -> alive' = SslConnect /\ Morph
         [] Head(todo) \in {"make_addr", "securesocket"} -> He910Holds(Head(todo)) /\ UNCHANGED isSsl
         [] OTHER                      -> UNCHANGED <<alive, isSsl>>
    /\ UNCHANGED <<port, rest, fresh, spoilt, out, in, closed, clear>>

(* It fails: _tcp_disconnect.  Without a descriptor, close(-1) fails too,  *)
(* and the handle is not freed.                                            *)
ConnectFails ==
    /\ todo # <<>> /\ todo' = <<>>
    /\ IF port = "he910" THEN ConnectFailsHe910
       ELSE CASE Head(todo) = "ssl_connect" -> TcpDisconnectUnix(SslConnect)
              [] Head(todo) = "socket"      -> UNCHANGED <<fd, alive>>
              [] OTHER                      -> TcpDisconnect
    /\ UNCHANGED <<port, isSsl, rest, fresh, spoilt, out, in, closed, clear>>

(* A sender enters _tcp_send. *)
SendBegin(t, bytes) ==
    /\ rest[t] = <<>>
    /\ rest' = [rest EXCEPT ![t] = bytes]
    /\ fresh' = [fresh EXCEPT ![t] = TRUE]

Midway(t) == rest[t] # <<>> /\ ~fresh[t]

(* The system takes k bytes of the buffer: send, SSL_write, or             *)
(* securesocket_send.                                                      *)
SendSome(t, k) ==
    /\ out' = IF spoilt' THEN <<>> ELSE out \o SubSeq(rest[t], 1, k)
    /\ rest' = [rest EXCEPT ![t] = SubSeq(@, k + 1, Len(@))]

PlainSend(t, k) ==
    /\ ~isSsl /\ SendSome(t, k)
    /\ clear' = (clear \/ alive \cap Tls # {})

SslSend2(t, k) == isSsl /\ SendSome(t, k) /\ UNCHANGED clear

(* One round of the loop of _tcp_send. *)
TcpSend(t, k) ==
    /\ rest[t] # <<>> /\ k \in 1..Len(rest[t])
    /\ spoilt' = (spoilt \/ \E o \in Senders \ {t} : Midway(o))
    /\ PlainSend(t, k) \/ SslSend2(t, k)
    /\ fresh' = [fresh EXCEPT ![t] = FALSE]
    /\ UNCHANGED <<port, fd, alive, isSsl, todo, in, closed>>

(* A time-out or an error ends the send. *)
SendGivesUp(t) ==
    /\ rest[t] # <<>>
    /\ rest' = [rest EXCEPT ![t] = <<>>] /\ fresh' = [fresh EXCEPT ![t] = FALSE]
    /\ spoilt' = (spoilt \/ Midway(t))
    /\ out' = IF spoilt' THEN <<>> ELSE out
    /\ UNCHANGED <<port, fd, alive, isSsl, todo, in, closed, clear>>

ReceivedOff(k) == in' = SubSeq(in, k, Len(in))

(* k bytes of the stream are received; the rest stays. *)
Received(k) == in' = SubSeq(in, k + 1, Len(in))

(* recv gives k bytes of the n that are wanted. *)
PlainRecv(k, n) == ~isSsl /\ k <= n /\ Received(k)

(* SSL_read, out of a record that is complete; on the HE910                *)
(* securesocket_recv.                                                      *)
SslRecv2(k, n)   == isSsl /\ port # "he910" /\ k <= n /\ Received(k)
SecureRecv(k, n) == isSsl /\ port = "he910" /\ k <= n /\ Received(k)

TcpRecv(k, n) ==
    k \in 1..Len(in) /\ (PlainRecv(k, n) \/ SslRecv2(k, n) \/ SecureRecv(k, n))

(* _tcp_recv takes a waiting time of 0 for one without an end, and its     *)
(* caller then waits until there is something.  _tcp_secure_recv of the    *)
(* HE910 times out anyway, and calls errors that it does not know time-outs. *)
RecvCanTimeOut(zero) == ~zero \/ (port = "he910" /\ isSsl)
=============================================================================
