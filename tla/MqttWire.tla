------------------------------ MODULE MqttWire ------------------------------
(***************************************************************************)
(* An MQTT client on its socket, byte by byte: mqtt.c and mqtt.recv.c over *)
(* Tcp, with the messages of MqttMsg.  The receive thread R connects,      *)
(* receives packets, acknowledges them, pings, and reconnects after an     *)
(* error; a user U publishes, subscribes and unsubscribes.  MqttAsync has  *)
(* the same threads with packets that arrive whole; here the network takes *)
(* and gives any number of bytes at a time.                                *)
(*                                                                         *)
(* The peer speaks MQTT as its standard says (Wire, Frames, Reads), apart  *)
(* from the code that is checked against it.                               *)
(*                                                                         *)
(* FixedHeaderLenOff of MqttMsg, and SslConnectKeepsCtx, MorphNot and      *)
(* ReceivedOff of Tcp are no part of the specification: they are plausible *)
(* mistakes, each in place of a definition after it, that the properties   *)
(* rule out.                                                               *)
(***************************************************************************)
EXTENDS MqttMsg, Tcp, FiniteSets

CONSTANTS
    R, U, Nobody,   \* the receive thread, a user's thread, no thread
    Requests,       \* what the user may send, and PUBACKs and pings apart
    Pushes,         \* what the server may send once it has accepted
    MaxPushes,      \* bound: packets of the server per connection
    MaxAsked,       \* bound: the user and the ping send no more requests than
                    \* this on a connection
    HttpMax         \* 255: the longest reply of an HTTPS proxy

ASSUME WireAssumption ==
    /\ Senders = {R, U} /\ R # U /\ Nobody \notin Senders
    /\ HttpMax \in Nat /\ HttpMax >= 4

VARIABLES
    params,     \* the connect parameters
    mux,        \* the owner of client->mux of the connection
    pc,         \* the place of the receive thread
    connected,  \* MQTT_ASYNC_CLIENT_STATE_CONNECTED
    heap,       \* what mqtt_connect has allocated
    buf,        \* buffer of mqtt_recv
    want,       \* read_len
    zero,       \* wait_time is 0: _tcp_recv does not wait with select
    cur,        \* the request each sender is sending
    asked,      \* the requests of which a byte was sent on this connection
    pushed,     \* the packets the server sent on this connection
    got,        \* what the client read
    torn        \* mqtt_recv gave up a packet in the middle and went on

ownVars == <<params, mux, pc, connected, heap, buf, want, zero, cur, asked,
             pushed, got, torn>>
vars == <<tcpVars, ownVars>>

sendVars == <<cur, asked>>
noNet    == <<port, isSsl, todo, fresh, spoilt, out, in, closed, clear>>
recvVars == <<buf, want, zero, pushed, got, torn>>
-----------------------------------------------------------------------------
(* The peer, by the standard. *)

(* n in digits of base Radix, the lowest first, all but the last marked. *)
Wire(first, body) ==
    LET n == Len(body)
        Left == <<n, n \div Radix, (n \div Radix) \div Radix, ((n \div Radix) \div Radix) \div Radix>>
        k == CHOOSE i \in 1..4 : Left[i] < Radix /\ \A j \in 1..(i - 1) : Left[j] >= Radix
    IN  <<first>>
          \o [i \in 1..k |-> (Left[i] % Radix) + (IF i < k THEN Radix ELSE 0)]
          \o body

(* What a request or a push means: its kind, identifier, topic, payload. *)
Meaning(kind, id, topic, payload) ==
    [kind |-> kind, id |-> id, topic |-> topic, payload |-> payload]

(* The numbers of two bytes, and the two bytes, the high one first. *)
Words == 0..65535

Two(n) == <<n \div 256, n % 256>>

Text(s) == Two(Len(s)) \o s

(* What two bytes and four digits can say the lengths of. *)
Fits(p) ==
    /\ p = Meaning(p.kind, p.id, p.topic, p.payload)
    /\ p.id \in Words /\ p.topic \in Seq(0..255) /\ p.payload \in Seq(0..255)
    /\ Len(p.topic) \in Words /\ Len(p.topic) + Len(p.payload) + 4 < Weight[5]

(* What has a packet of its kind: from the server, and from the user. *)
HasPacket(p) ==
    /\ Fits(p)
    /\ p.kind \notin {"publish0", "publish1"} => p.topic = <<>>
    /\ \/ p.kind = "publish1"
       \/ p.kind = "publish0" /\ p.id = 0
       \/ p.kind = "suback" /\ Len(p.payload) = 1 /\ p.payload[1] < 128
       \/ p.kind \in {"puback", "unsuback"} /\ p.payload = <<>>
       \/ p.kind = "pingresp" /\ p.id = 0 /\ p.payload = <<>>

HasRequest(m) ==
    /\ Fits(m)
    /\ \/ m.kind = "publish1"
       \/ m.kind = "publish0" /\ m.id = 0
       \/ m.kind = "subscribe" /\ Len(m.payload) = 1 /\ m.payload[1] \in 0..3
       \/ m.kind = "unsubscribe" /\ m.payload = <<>>

ASSUME PushAssumption == \A p \in Pushes : HasPacket(p)

ASSUME RequestAssumption == \A m \in Requests : HasRequest(m)

PushBytes(p) ==
    CASE p.kind = "connack"  -> Wire(32, <<0, p.id>>)
      [] p.kind = "publish0" -> Wire(48, Text(p.topic) \o p.payload)
      [] p.kind = "publish1" -> Wire(50, Text(p.topic) \o Two(p.id) \o p.payload)
      [] p.kind = "suback"   -> Wire(144, Two(p.id) \o p.payload)
      [] p.kind = "puback"   -> Wire(64, Two(p.id))
      [] p.kind = "unsuback" -> Wire(176, Two(p.id))
      [] p.kind = "pingresp" -> Wire(208, <<>>)

(* The length of the header, and of all, of the request at byte i of s. *)
FrameSize(s, i) ==
    LET k == CHOOSE k \in 1..4 : s[i + k] < Radix /\ \A j \in 1..(k - 1) : s[i + j] >= Radix
        n[j \in 0..k] == IF j = 0 THEN 0 ELSE n[j - 1] + (s[i + j] % Radix) * Weight[j]
    IN  [header |-> 1 + k, all |-> 1 + k + n[k]]

HasFrame(s, i) ==
    /\ i + 1 <= Len(s)
    /\ \E k \in 1..4 : i + k <= Len(s) /\ s[i + k] < Radix
    /\ i - 1 + FrameSize(s, i).all <= Len(s)

(* The requests in the bytes s, one after the other, as far as complete. *)
Frames(s) ==
    LET From[i \in 1..(Len(s) + 1)] ==
            IF ~HasFrame(s, i) THEN <<>>
            ELSE <<[first |-> s[i], body |-> SubSeq(s, i + FrameSize(s, i).header, i - 1 + FrameSize(s, i).all)]>>
                   \o From[i + FrameSize(s, i).all]
    IN  From[1]

(* The number in two bytes of s from the i-th on, and the bytes of s from  *)
(* i to j, as far as there are any.                                        *)
Number(s, i)  == IF i < Len(s) THEN 256 * s[i] + s[i + 1] ELSE 0
Part(s, i, j) == SubSeq(s, i, IF j <= Len(s) THEN j ELSE Len(s))

Reads(f) ==
    LET b == f.body
        l == Number(b, 1)
    IN
    CASE f.first = 16  -> Meaning("connect", 0, Part(b, 15, 14 + Number(b, 13)), <<>>)
      [] f.first = 48  -> Meaning("publish0", 0, Part(b, 3, 2 + l), Part(b, 3 + l, Len(b)))
      [] f.first = 50  -> Meaning("publish1", Number(b, 3 + l), Part(b, 3, 2 + l), Part(b, 5 + l, Len(b)))
      [] f.first = 64  -> Meaning("puback", l, <<>>, <<>>)
      [] f.first = 130 -> Meaning("subscribe", l, Part(b, 5, 4 + Number(b, 3)), Part(b, 5 + Number(b, 3), Len(b)))
      [] f.first = 162 -> Meaning("unsubscribe", l, Part(b, 5, 4 + Number(b, 3)), <<>>)
      [] f.first = 192 -> Meaning("ping", 0, <<>>, <<>>)
      [] f.first = 224 -> Meaning("disconnect", 0, <<>>, <<>>)
      [] OTHER         -> Meaning("unknown", f.first, <<>>, <<>>)

(* "HTTP/1.1 200 OK" and "HTTP/1.1 403" are one byte each. *)
HttpOk == 200
HttpReplies == {<<HttpOk, 13, 10, 13, 10>>, <<HttpOk, 10, 10, 10, 10>>, <<101, 13, 10, 13, 10>>}
-----------------------------------------------------------------------------
(* Connect parameters. *)

Create       == [id |-> <<1>>, user |-> {}, pass |-> {}, ssl |-> FALSE, https |-> FALSE]
SetUsername(p)   == [p EXCEPT !.user = {<<1>>}, !.pass = {<<2>>}]
UseSsl(p)        == [p EXCEPT !.ssl = TRUE]
UseHttpsProxy(p) == [UseSsl(p) EXCEPT !.https = TRUE]

Init ==
    /\ TcpInit
    /\ params \in {SetUsername(Create), UseHttpsProxy(Create)}
    /\ mux = Nobody /\ pc = "down" /\ connected = FALSE /\ heap = {}
    /\ buf = <<>> /\ want = 0 /\ zero = FALSE
    /\ cur = [t \in Senders |-> Meaning("none", 0, <<>>, <<>>)]
    /\ asked = <<>> /\ pushed = <<>> /\ got = <<>> /\ torn = FALSE
-----------------------------------------------------------------------------
(* Sending. *)

(* Thread t enters mqtt_send with the bytes of the request m. *)
MqttSend(t, m, bytes) ==
    /\ SendBegin(t, bytes)
    /\ cur' = [cur EXCEPT ![t] = m]
    /\ UNCHANGED <<port, fd, alive, isSsl, todo, spoilt, out, in, closed, clear, asked>>

(* The network takes some of what t sends. *)
Take(t) ==
    /\ fd /\ ~closed
    /\ \E k \in 1..Len(rest[t]) : TcpSend(t, k)
    /\ asked' = IF spoilt' THEN <<>> ELSE IF fresh[t] THEN Append(asked, cur[t]) ELSE asked
    /\ UNCHANGED <<params, mux, pc, connected, heap, cur, recvVars>>

(* The send times out or fails.  mqtt_send returns 0 all the same. *)
GiveUp(t) ==
    /\ SendGivesUp(t)
    /\ asked' = IF spoilt' THEN <<>> ELSE asked
    /\ UNCHANGED <<params, mux, pc, connected, heap, cur, recvVars>>

(* mqtt_publish, mqtt_subscribe and mqtt_unsubscribe, with client->mux. *)
Built(m) ==
    CASE m.kind = "publish0"    -> BuildPublish(m.topic, 0, FALSE, m.id, m.payload)
      [] m.kind = "publish1"    -> BuildPublish(m.topic, 1, FALSE, m.id, m.payload)
      [] m.kind = "subscribe"   -> BuildSubscribe(m.topic, m.payload[1], m.id)
      [] m.kind = "unsubscribe" -> BuildUnsubscribe(m.topic, m.id)

Request(m) ==
    /\ connected /\ mux = Nobody /\ Len(asked) < MaxAsked
    /\ MqttSend(U, m, Built(m))
    /\ mux' = U
    /\ UNCHANGED <<params, pc, connected, heap, recvVars>>

RequestEnds ==
    /\ mux = U /\ rest[U] = <<>>
    /\ mux' = Nobody
    /\ UNCHANGED <<tcpVars, params, pc, connected, heap, sendVars, recvVars>>

(* mqtt_ping: without client->mux. *)
Ping ==
    /\ pc = "up" /\ Len(asked) < MaxAsked
    /\ MqttSend(R, Meaning("ping", 0, <<>>, <<>>), BuildPing)
    /\ pc' = "sending"
    /\ UNCHANGED <<params, mux, connected, heap, recvVars>>

(* The send of a ping or of a PUBACK is over. *)
SendEnds ==
    /\ pc = "sending" /\ rest[R] = <<>>
    /\ pc' = "up"
    /\ mux' = IF mux = R THEN Nobody ELSE mux
    /\ UNCHANGED <<tcpVars, params, connected, heap, sendVars, recvVars>>
-----------------------------------------------------------------------------
(* mqtt_connect. *)

Options(p) == IF p.ssl THEN {"secure"} ELSE {}

(* The client is allocated and _tcp_connect called. *)
ConnectBegins ==
    /\ pc = "down" /\ mux \in {Nobody, R}
    /\ TcpConnect(Options(params))
    /\ mux' = R /\ pc' = "tcp" /\ heap' = {"client"}
    /\ asked' = <<>> /\ pushed' = <<>> /\ got' = <<>> /\ torn' = FALSE
    /\ UNCHANGED <<params, connected, buf, want, zero, cur>>

ConnectGoesOn ==
    /\ pc = "tcp" /\ ConnectStep
    /\ pc' = IF Len(todo) > 1 THEN "tcp" ELSE IF params.https THEN "get" ELSE "hello"
    /\ UNCHANGED <<params, mux, connected, heap, sendVars, recvVars>>

(* What _tcp_connect has released is not released again: its handle is     *)
(* still NULL.                                                             *)
ConnectIsRefused ==
    /\ pc = "tcp" /\ ConnectFails
    /\ pc' = "down" /\ mux' = Nobody /\ heap' = {}
    /\ UNCHANGED <<params, connected, sendVars, recvVars>>

(* end_error *)
ConnectError ==
    /\ TcpDisconnect
    /\ heap' = {} /\ pc' = "down" /\ mux' = Nobody
    /\ rest' = [rest EXCEPT ![R] = <<>>]

(* _mqtt_https_connect: the request, sent without mqtt_send. *)
HttpsRequest ==
    /\ pc = "get"
    /\ \/ /\ pc' = "reply" /\ buf' = <<>>
          /\ UNCHANGED <<tcpVars, mux, heap>>
       \/ /\ ConnectError
          /\ UNCHANGED <<noNet, buf>>
    /\ UNCHANGED <<params, connected, want, zero, sendVars, pushed, got, torn>>

Ended(s) == Len(s) >= 4 /\ \A i \in (Len(s) - 3)..Len(s) : s[i] \in {10, 13}

(* Its reply, byte by byte, up to four terminators or HttpMax bytes. *)
HttpsReply ==
    /\ pc = "reply"
    /\ TcpRecv(1, 1)
    /\ LET s == Append(buf, in[1])
           ok == s[1] = HttpOk /\ SubSeq(s, Len(s) - 3, Len(s)) = <<13, 10, 13, 10>>
       IN  IF ~Ended(s) /\ Len(s) < HttpMax
           THEN buf' = s /\ UNCHANGED <<fd, alive, rest, mux, pc, heap>>
           ELSE /\ buf' = <<>>
                /\ IF ok THEN pc' = "hello" /\ UNCHANGED <<fd, alive, rest, mux, heap>>
                         ELSE ConnectError
    /\ UNCHANGED <<port, isSsl, todo, fresh, spoilt, out, closed, clear, params, connected, want, zero,
                   sendVars, pushed, got, torn>>

HttpsReplyFails ==
    /\ pc = "reply" /\ ConnectError /\ buf' = <<>>
    /\ UNCHANGED <<noNet, params, connected, want, zero,
                   sendVars, pushed, got, torn>>

(* _mqtt_msg_build_connect and mqtt_send. *)
Hello ==
    /\ pc = "hello"
    /\ MqttSend(R, Meaning("connect", 0, params.id, <<>>),
                BuildConnect(params.id, params.user, params.pass, 60))
    /\ pc' = "helloing" /\ heap' = heap \cup {"req"}
    /\ UNCHANGED <<params, mux, connected, recvVars>>

(* mqtt_recv begins: for the CONNACK, or in the loop of the thread. *)
RecvBegins ==
    /\ pc = "up" \/ (pc = "helloing" /\ rest[R] = <<>>)
    /\ pc' = "header" /\ buf' = <<>> /\ want' = 2 /\ zero' = FALSE
    /\ UNCHANGED <<tcpVars, params, mux, connected, heap, sendVars, pushed, got, torn>>
-----------------------------------------------------------------------------
(* mqtt_recv. *)

(* It returns an error: mqtt_connect ends; the receive thread breaks the   *)
(* connection.                                                             *)
RecvError ==
    /\ IF connected THEN pc' = "broken" /\ UNCHANGED <<fd, alive, rest, heap, mux>>
                    ELSE ConnectError
    /\ UNCHANGED noNet

(* The type and the length.  The first read asks for 2 bytes, and each one *)
(* after it for 1, until a byte without the bit.                           *)
RecvHeader ==
    /\ pc = "header"
    /\ \E k \in 1..want : TcpRecv(k, want) /\ buf' = buf \o SubSeq(in, 1, k)
    /\ LET h == DecodeHeaderLength(Tail(buf') \o <<0>>, Len(buf')) IN
       IF Len(buf') > 1 /\ ~More(buf'[Len(buf')])
       THEN /\ IF h.ok THEN want' = h.len /\ pc' = (IF h.len = 0 THEN "packet" ELSE "body")
                       ELSE want' = 0 /\ pc' = "bad"
            /\ zero' \in BOOLEAN
       ELSE want' = 1 /\ zero' \in BOOLEAN /\ UNCHANGED pc
    /\ UNCHANGED <<port, fd, alive, isSsl, todo, rest, fresh, spoilt, out, closed, clear, params, mux,
                   connected, heap, sendVars, pushed, got, torn>>

(* k bytes of the body have come. *)
TakeBody(k) == want' = want - k

RecvBody ==
    /\ pc = "body"
    /\ \E k \in 1..want : TcpRecv(k, want) /\ buf' = buf \o SubSeq(in, 1, k) /\ TakeBody(k)
    /\ pc' = IF want' = 0 THEN "packet" ELSE "body"
    /\ UNCHANGED <<port, fd, alive, isSsl, todo, rest, fresh, spoilt, out, closed, clear, params, mux,
                   connected, heap, sendVars, zero, pushed, got, torn>>

(* select gives up after wait_time: ERR_TR50_SOCK_TIMEOUT, which is not    *)
(* the ERR_TR50_TIMEOUT that a packet begun is tested for.  The receive    *)
(* thread takes it for a connection on which nothing came.  The secure     *)
(* socket of the HE910 says so of every error but two.                     *)
RecvTimesOut ==
    /\ pc \in {"header", "body"} /\ RecvCanTimeOut(zero)
    /\ \/ /\ connected
          /\ pc' = "up" /\ torn' = (torn \/ buf # <<>>)
          /\ UNCHANGED <<tcpVars, mux, heap>>
       \/ ~connected /\ RecvError /\ UNCHANGED torn
    /\ UNCHANGED <<params, connected, sendVars, buf, want, zero, pushed, got>>

(* wait_time is negative before another byte of the header is read, the    *)
(* peer has closed the connection, recv fails, or the length is none.      *)
RecvFails ==
    /\ pc \in {"header", "body", "bad"}
    /\ RecvError
    /\ UNCHANGED <<params, connected, sendVars, recvVars>>
-----------------------------------------------------------------------------
(* What is done with a packet. *)

Accepted ==
    /\ pc = "packet" /\ ~connected
    /\ ProcessConnack(buf) = "ok"
    /\ connected' = TRUE /\ pc' = "up" /\ heap' = {"client"} /\ mux' = Nobody
    /\ got' = Append(got, Meaning("connack", 0, <<>>, <<>>))
    /\ UNCHANGED <<tcpVars, params, sendVars, buf, want, zero, pushed, torn>>

Refused ==
    /\ pc = "packet" /\ ~connected
    /\ ProcessConnack(buf) # "ok"
    /\ ConnectError
    /\ UNCHANGED <<noNet, params, connected,
                   sendVars, recvVars>>

(* What _mqtt_async_handler_process makes of a packet. *)
Understood(d) ==
    CASE CmdGet(d) = 3 /\ ProcessPublish(d).ret = "ok" ->
           LET p == ProcessPublish(d)
           IN  Meaning(IF p.qos = 0 THEN "publish0" ELSE "publish1", p.id, p.topic, p.payload)
      [] CmdGet(d) = 4 /\ ProcessPuback(d).ret = "ok" ->
           Meaning("puback", ProcessPuback(d).id, <<>>, <<>>)
      [] CmdGet(d) = 9 /\ ProcessSuback(d).ret = "ok" ->
           Meaning("suback", ProcessSuback(d).id, <<>>, <<d[5]>>)
      [] CmdGet(d) = 11 /\ ProcessUnsuback(d).ret = "ok" ->
           Meaning("unsuback", ProcessUnsuback(d).id, <<>>, <<>>)
      [] CmdGet(d) = 13 -> Meaning("pingresp", 0, <<>>, <<>>)
      [] OTHER -> Meaning("unknown", 0, <<>>, <<>>)

Handle ==
    /\ pc = "packet" /\ connected
    /\ Understood(buf).kind # "publish1"
    /\ got' = Append(got, Understood(buf))
    /\ pc' = "up"
    /\ UNCHANGED <<tcpVars, params, mux, connected, heap, sendVars, buf, want, zero,
                   pushed, torn>>

(* mqtt_puback, with client->mux.  It hands its two arguments to           *)
(* _mqtt_msg_build_puback in the wrong order.                              *)
HandlePublish ==
    /\ pc = "packet" /\ connected /\ mux = Nobody
    /\ Understood(buf).kind = "publish1"
    /\ got' = Append(got, Understood(buf))
    /\ MqttSend(R, Meaning("puback", 1, <<>>, <<>>), BuildPuback(1, Understood(buf).id))
    /\ pc' = "sending" /\ mux' = R
    /\ UNCHANGED <<params, connected, heap, buf, want, zero, pushed, torn>>

(* The thread finds the connection broken, for this or another reason, and *)
(* reconnects: mqtt_disconnect comes first.                                *)
Break ==
    /\ pc \in {"broken", "up"} /\ mux = Nobody
    /\ MqttSend(R, Meaning("disconnect", 0, <<>>, <<>>), BuildDisconnect)
    /\ mux' = R /\ pc' = "bye" /\ connected' = FALSE
    /\ UNCHANGED <<params, heap, recvVars>>

Disconnect ==
    /\ pc = "bye" /\ rest[R] = <<>>
    /\ TcpDisconnect
    /\ heap' = {} /\ pc' = "down"
    /\ UNCHANGED <<noNet, rest, params, mux, connected,
                   sendVars, recvVars>>
-----------------------------------------------------------------------------
(* The peer. *)

PeerSends(p, bytes) ==
    /\ fd /\ todo = <<>> /\ ~closed
    /\ in' = in \o bytes
    /\ pushed' = Append(pushed, p)
    /\ UNCHANGED <<port, fd, alive, isSsl, todo, rest, fresh, spoilt, out, closed, clear, params, mux, pc,
                   connected, heap, sendVars, buf, want, zero, got, torn>>

(* An acknowledgement comes after what it acknowledges. *)
Acknowledges == [puback |-> "publish1", suback |-> "subscribe", unsuback |-> "unsubscribe",
                 pingresp |-> "ping"]

WasAsked(p) ==
    p.kind \in DOMAIN Acknowledges =>
      \E i \in 1..Len(Frames(out)) : LET m == Reads(Frames(out)[i])
                                    IN  m.kind = Acknowledges[p.kind] /\ m.id = p.id

Push ==
    \/ /\ pushed = <<>> /\ Frames(out) # <<>>
       /\ \E code \in {0, 5} : LET p == Meaning("connack", code, <<>>, <<>>)
                               IN  PeerSends(p, PushBytes(p))
    \/ /\ pushed # <<>> /\ pushed[1].id = 0 /\ Len(pushed) < MaxPushes
       /\ \E p \in Pushes : WasAsked(p) /\ PeerSends(p, PushBytes(p))

(* The reply of the HTTPS proxy comes before any packet. *)
Answer ==
    /\ pc = "reply" /\ in = <<>> /\ buf = <<>> /\ fd /\ ~closed
    /\ \E s \in HttpReplies : in' = s
    /\ UNCHANGED <<port, fd, alive, isSsl, todo, rest, fresh, spoilt, out, closed, clear, ownVars>>

Close ==
    /\ fd /\ todo = <<>> /\ ~closed
    /\ closed' = TRUE
    /\ UNCHANGED <<fd, alive, rest, port, isSsl, todo, fresh, spoilt, out, in, clear, ownVars>>
-----------------------------------------------------------------------------
Next ==
    \/ ConnectBegins \/ ConnectGoesOn \/ ConnectIsRefused
    \/ HttpsRequest \/ HttpsReply \/ HttpsReplyFails
    \/ Hello \/ RecvBegins \/ RecvHeader \/ RecvBody \/ RecvTimesOut \/ RecvFails
    \/ Accepted \/ Refused \/ Handle \/ HandlePublish
    \/ Ping \/ SendEnds \/ Break \/ Disconnect
    \/ \E m \in Requests : Request(m)
    \/ RequestEnds
    \/ \E t \in Senders : Take(t) \/ GiveUp(t)
    \/ Push \/ Answer \/ Close

Spec == Init /\ [][Next]_vars
-----------------------------------------------------------------------------
(* Properties. *)

Prefix(s, t) == Len(s) <= Len(t) /\ s = SubSeq(t, 1, Len(s))

(* However the network cuts the stream, the client reads exactly the       *)
(* packets the server sent, in their order, unless mqtt_recv has given up  *)
(* a packet half read and gone on (mqtt.recv.c:82).                        *)
ReadsWhatWasSent == ~torn => Prefix(got, pushed)

(* However the network takes the stream, the server sees the requests that *)
(* were made, each whole and with its data, unless a send gave up midway   *)
(* or a ping went between the pieces of another request.                   *)
SeenAsSent ==
    ~spoilt => LET seen == [i \in 1..Len(Frames(out)) |-> Reads(Frames(out)[i])]
               IN  Prefix(seen, asked) /\ Len(asked) <= Len(seen) + 1

(* Every way out of mqtt_connect that fails, and mqtt_disconnect, closes    *)
(* the descriptor and frees the client, its request, the TLS context and    *)
(* the secure socket, but for the one return of he910.tcp.c that does not.  *)
NothingHeld ==
    pc = "down" => /\ ~fd /\ heap = {} /\ alive \cap {"ctx", "ssid"} = {}
                   /\ "lost" \in alive => port = "he910" /\ "frwl" \notin alive

(* Once a TLS connection is set up, nothing is sent in clear on it, where  *)
(* the declarations of ABSTRACT_SOCKET agree.                              *)
NothingInClear == port # "linux" => ~clear
=============================================================================
