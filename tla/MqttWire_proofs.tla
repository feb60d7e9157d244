-------------------------- MODULE MqttWire_proofs --------------------------
(***************************************************************************)
(* Proofs about MqttWire, for any requests, packets and bounds, on each of *)
(* the three ports: that every way out of a connection releases what it    *)
(* holds, and that nothing goes out bare where TLS was set up.             *)
(*                                                                         *)
(* Both depend on how far a connect has come.  CallsInv says in which      *)
(* order the calls still to be made come, and what cannot be held before   *)
(* some of them were made; it survives the removal of the first call.      *)
(*                                                                         *)
(* A third theorem says that the client reads the packets of the server as *)
(* they were sent, in whatever pieces.  Each packet says its length, and   *)
(* the client reads its meaning of its bytes; ReadInv says that what was   *)
(* received of a packet, with what was not, are the bytes of the packets   *)
(* not read yet, and that no step takes more than is left of the packet.   *)
(*                                                                         *)
(* A fourth says that the server sees the requests that were made.  What   *)
(* the client begins to send says what it is to (Says), and AskedInv, that *)
(* the server was sent the requests one after the other, but for the rest  *)
(* of the last of them, which is still to be sent.                         *)
(***************************************************************************)
EXTENDS MqttWire, Basics, TLAPS

(* The calls that a connect makes. *)
Calls ==
    {"socket", "TCP_NODELAY", "SO_KEEPALIVE", "SO_LINGER", "SO_SNDBUF", "SO_RCVBUF", "O_NONBLOCK",
     "make_addr", "connect", "blocking", "select", "SO_ERROR", "ctx_create", "ssl_connect",
     "Cid2Index", "secure_init", "securesocket", "securesocket_connect"}

(* The order of the calls in s: a socket comes first, the TLS object is    *)
(* made right after its context and at the end, and the HE910 has socket   *)
(* and network before it opens the firewall or makes a secure socket.      *)
Ordered(s) ==
    /\ s \in Seq(Calls)
    /\ \A i \in 1..Len(s) : s[i] = "socket" => i = 1
    /\ \A i \in 1..Len(s) : s[i] = "ctx_create" => i + 1 = Len(s) /\ s[i + 1] = "ssl_connect"
    /\ \A i, j \in 1..Len(s) :
         i < j /\ s[i] \in {"make_addr", "securesocket"} => s[j] \notin {"socket", "Cid2Index"}

(* What the calls still to be made say of the handle. *)
CallsInv ==
    /\ Ordered(todo)
    /\ \A i \in 1..Len(todo) :
         /\ todo[i] = "socket" => ~fd
         /\ todo[i] \in {"socket", "Cid2Index"} => "frwl" \notin alive /\ "ssid" \notin alive
         /\ port = "he910" => /\ todo[i] \notin {"ctx_create", "ssl_connect"}
                              /\ todo[i] = "securesocket" => isSsl

(* What is held: without a connection, and with one or on the way to it. *)
HeldInv ==
    /\ port \in {"linux", "freebsd", "he910"} /\ fd \in BOOLEAN
    /\ pc # "tcp" => todo = <<>>
    /\ pc = "down" => ~fd /\ heap = {} /\ "ctx" \notin alive /\ "ssid" \notin alive
    /\ pc = "down" /\ "lost" \in alive => port = "he910" /\ "frwl" \notin alive
    /\ pc # "down" => "lost" \notin alive
    /\ port = "he910" => "ctx" \notin alive
    /\ port # "he910" => "ssid" \notin alive
    /\ port # "he910" /\ "ctx" \in alive => todo = <<"ssl_connect">>

(* A TLS object that belongs to a connection is used by it. *)
ClearInv ==
    /\ isSsl \in BOOLEAN /\ clear \in BOOLEAN
    /\ pc # "down" /\ port # "linux" /\ alive \cap Tls # {} => isSsl
    /\ port # "linux" => ~clear

WireInv == CallsInv /\ HeldInv /\ ClearInv

-----------------------------------------------------------------------------
(* The calls of a connect. *)

(* Calls that may follow others: the socket is there. *)
Rest(t) ==
    /\ t \in Seq(Calls)
    /\ \A i \in 1..Len(t) : t[i] \notin {"socket", "Cid2Index"}
    /\ \A i \in 1..Len(t) : t[i] = "ctx_create" => i + 1 = Len(t) /\ t[i + 1] = "ssl_connect"

Among(s, S) == \A i \in 1..Len(s) : s[i] \in S

(* Calls of the library that come after others keep their order. *)
LEMMA CallsFollow ==
    ASSUME NEW s, NEW t, Ordered(s), Rest(t), Among(s, Calls \ {"ctx_create"}), NEW S, NEW T,
           Among(s, S), Among(t, T)
    PROVE  Ordered(s \o t) /\ Among(s \o t, S \cup T)
<1> DEFINE c == s \o t
           m == Len(s)
           n == Len(t)
<1>1. s \in Seq(Calls) /\ t \in Seq(Calls) /\ m \in Nat /\ n \in Nat
  BY LenProperties DEF Ordered, Rest
<1>2. /\ c \in Seq(Calls) /\ Len(c) = m + n
      /\ \A i \in 1..(m + n) : c[i] = IF i <= m THEN s[i] ELSE t[i - m]
  BY <1>1, ConcatProperties
<1> HIDE DEF c
<1>3. \A i \in 1..(m + n) : IF i <= m THEN i \in 1..m /\ c[i] = s[i]
                            ELSE i - m \in 1..n /\ c[i] = t[i - m]
  BY <1>1, <1>2
<1>4. \A i \in 1..(m + n) : c[i] = "socket" => i = 1
  BY <1>1, <1>3 DEF Ordered, Rest
<1>5. \A i \in 1..(m + n) : c[i] = "ctx_create" => i + 1 = m + n /\ c[i + 1] = "ssl_connect"
  <2> SUFFICES ASSUME NEW i \in 1..(m + n), c[i] = "ctx_create"
               PROVE  i + 1 = m + n /\ c[i + 1] = "ssl_connect"
    OBVIOUS
  <2>1. ~(i <= m) /\ i - m \in 1..n /\ t[i - m] = "ctx_create"
    BY <1>3 DEF Among
  <2>2. (i - m) + 1 = n /\ t[(i - m) + 1] = "ssl_connect"
    BY <2>1 DEF Rest
  <2>3. i + 1 = m + n /\ i + 1 \in 1..(m + n) /\ ~(i + 1 <= m) /\ (i + 1) - m = (i - m) + 1
    BY <1>1, <2>1, <2>2
  <2>4. QED BY <1>2, <2>2, <2>3
<1>6. \A i, j \in 1..(m + n) :
         i < j /\ c[i] \in {"make_addr", "securesocket"} => c[j] \notin {"socket", "Cid2Index"}
  <2> SUFFICES ASSUME NEW i \in 1..(m + n), NEW j \in 1..(m + n), i < j,
                      c[i] \in {"make_addr", "securesocket"}
               PROVE  c[j] \notin {"socket", "Cid2Index"}
    OBVIOUS
  <2>1. CASE j <= m
    <3>1. i <= m
      BY <1>1, <2>1
    <3>2. QED BY <1>3, <2>1, <3>1 DEF Ordered
  <2>2. CASE ~(j <= m)
    BY <1>3, <2>2 DEF Rest
  <2>3. QED BY <2>1, <2>2
<1>7. Among(c, S \cup T)
  <2>1. \A i \in 1..(m + n) : c[i] \in S \cup T
    BY <1>3 DEF Among
  <2>2. QED BY <1>2, <2>1 DEF Among
<1>8. QED BY <1>2, <1>4, <1>5, <1>6, <1>7 DEF Ordered, c

(* All that a connect calls is in order, and the HE910 makes a secure      *)
(* socket only for an option.                                              *)
LEMMA CallsOrdered ==
    ASSUME NEW options
    PROVE  /\ Ordered(ConnectCalls(options))
           /\ port = "he910" =>
                /\ Among(ConnectCalls(options), Calls \ {"ctx_create", "ssl_connect"})
                /\ "secure" \in options \/ Among(ConnectCalls(options), Calls \ {"securesocket"})
<1> DEFINE NotCtx == Calls \ {"ctx_create"}
           Bare == NotCtx \ {"ssl_connect"}
           Open == Bare \ {"securesocket"}
<1>1. /\ Rest(<<>>) /\ Among(<<>>, Open) /\ Bare \cup Bare = Bare /\ Open \cup Open = Open
  BY DEF Rest, Among
<1>2. /\ Rest(<<"TCP_NODELAY">>) /\ Among(<<"TCP_NODELAY">>, Open)
      /\ Rest(<<"SO_KEEPALIVE", "SO_LINGER">>) /\ Among(<<"SO_KEEPALIVE", "SO_LINGER">>, Open)
      /\ Rest(<<"SO_SNDBUF", "SO_RCVBUF">>) /\ Among(<<"SO_SNDBUF", "SO_RCVBUF">>, Open)
      /\ Rest(<<"make_addr", "connect">>) /\ Among(<<"make_addr", "connect">>, Open)
  BY DEF Rest, Among, Calls
<1>3. /\ Rest(<<"O_NONBLOCK", "make_addr", "connect", "blocking", "select", "SO_ERROR">>)
      /\ Among(<<"O_NONBLOCK", "make_addr", "connect", "blocking", "select", "SO_ERROR">>, Open)
  BY DEF Rest, Among, Calls
<1>4. Rest(SslCalls) /\ Among(SslCalls, Calls)
  BY DEF Rest, Among, Calls, SslCalls
<1>5. /\ Rest(<<"secure_init", "securesocket", "securesocket_connect">>)
      /\ Among(<<"secure_init", "securesocket", "securesocket_connect">>, Bare)
  BY DEF Rest, Among, Calls
<1>6. Ordered(<<"socket">>) /\ Among(<<"socket">>, Open)
  BY DEF Ordered, Among, Calls
<1>7. /\ Ordered(<<"socket", "Cid2Index", "SO_KEEPALIVE", "SO_LINGER">>)
      /\ Among(<<"socket", "Cid2Index", "SO_KEEPALIVE", "SO_LINGER">>, Open)
  BY DEF Ordered, Among, Calls
<1>8. ASSUME NEW s, NEW t, Ordered(s), Rest(t), Among(s, Open), Among(t, Open)
      PROVE  Ordered(s \o t) /\ Among(s \o t, Open)
  <2>1. Among(s, NotCtx)
    BY <1>8 DEF Among
  <2> HIDE DEF Open, NotCtx
  <2>2. Ordered(s \o t) /\ Among(s \o t, Open \cup Open)
    BY <1>8, <2>1, CallsFollow DEF NotCtx
  <2>3. QED BY <2>2
<1>9. CASE port # "he910"
  <2> DEFINE a == IF "nodelay" \in options THEN <<"TCP_NODELAY">> ELSE <<>>
             b == <<"SO_KEEPALIVE", "SO_LINGER">>
             c == IF "queues" \in options THEN <<"SO_SNDBUF", "SO_RCVBUF">> ELSE <<>>
             d == <<"O_NONBLOCK", "make_addr", "connect", "blocking", "select", "SO_ERROR">>
             e == IF "secure" \in options THEN SslCalls ELSE <<>>
             s == <<"socket">>
  <2>1. ConnectCalls(options) = s \o a \o b \o c \o d \o e
    BY <1>9 DEF ConnectCalls, ConnectCallsUnix
  <2>2. /\ Ordered(s) /\ Among(s, Open)
        /\ Rest(a) /\ Among(a, Open) /\ Rest(b) /\ Among(b, Open)
        /\ Rest(c) /\ Among(c, Open) /\ Rest(d) /\ Among(d, Open)
        /\ Rest(e) /\ Among(e, Calls)
    BY <1>1, <1>2, <1>3, <1>4, <1>6 DEF Among
  <2> HIDE DEF a, b, c, d, e, s, Open
  <2>3. Ordered(s \o a) /\ Among(s \o a, Open)
    BY <1>8, <2>2
  <2>4. Ordered(s \o a \o b) /\ Among(s \o a \o b, Open)
    BY <1>8, <2>2, <2>3
  <2>5. Ordered(s \o a \o b \o c) /\ Among(s \o a \o b \o c, Open)
    BY <1>8, <2>2, <2>4
  <2>6. Ordered(s \o a \o b \o c \o d) /\ Among(s \o a \o b \o c \o d, Open)
    BY <1>8, <2>2, <2>5
  <2>7. Among(s \o a \o b \o c \o d, NotCtx)
    BY <2>6 DEF Among, Open
  <2>8. Ordered(s \o a \o b \o c \o d \o e)
    BY <2>2, <2>6, <2>7, CallsFollow
  <2>9. QED BY <1>9, <2>1, <2>8
<1>10. CASE port = "he910"
  <2> DEFINE s == <<"socket", "Cid2Index", "SO_KEEPALIVE", "SO_LINGER">>
             a == IF "queues" \in options THEN <<"SO_SNDBUF", "SO_RCVBUF">> ELSE <<>>
             b == <<"make_addr", "connect">>
             c == IF "secure" \in options THEN <<"secure_init", "securesocket", "securesocket_connect">>
                                          ELSE <<>>
  <2>1. ConnectCalls(options) = s \o a \o b \o c
    BY <1>10 DEF ConnectCalls, ConnectCallsHe910
  <2>2. /\ Ordered(s) /\ Among(s, Open)
        /\ Rest(a) /\ Among(a, Open) /\ Rest(b) /\ Among(b, Open)
        /\ Rest(c) /\ Among(c, Bare) /\ ("secure" \notin options => Among(c, Open))
    BY <1>1, <1>2, <1>5, <1>7 DEF Among
  <2> HIDE DEF a, b, c, s, Open
  <2>3. Ordered(s \o a) /\ Among(s \o a, Open)
    BY <1>8, <2>2
  <2>4. Ordered(s \o a \o b) /\ Among(s \o a \o b, Open)
    BY <1>8, <2>2, <2>3
  <2>5. Among(s \o a \o b, NotCtx) /\ Among(s \o a \o b, Bare)
    BY <2>4 DEF Among, Open
  <2>6. Ordered(s \o a \o b \o c) /\ Among(s \o a \o b \o c, Bare)
    <3> HIDE DEF Bare, NotCtx
    <3>1. Ordered(s \o a \o b \o c) /\ Among(s \o a \o b \o c, Bare \cup Bare)
      BY <2>2, <2>4, <2>5, CallsFollow DEF NotCtx
    <3>2. QED BY <3>1
  <2>7. "secure" \notin options => Among(s \o a \o b \o c, Open)
    BY <1>8, <2>2, <2>4
  <2>8. Among(s \o a \o b \o c, Calls \ {"ctx_create", "ssl_connect"})
    BY <2>6 DEF Among
  <2>9. "secure" \notin options => Among(s \o a \o b \o c, Calls \ {"securesocket"})
    BY <2>7 DEF Among, Open
  <2>10. QED BY <2>1, <2>6, <2>8, <2>9
<1>11. QED BY <1>9, <1>10

(* The calls without the first one are in order, and no socket is made. *)
LEMMA TailOrdered ==
    ASSUME NEW s, Ordered(s), s # <<>>
    PROVE  /\ Ordered(Tail(s))
           /\ Len(Tail(s)) = Len(s) - 1 /\ Len(s) \in Nat /\ Len(s) >= 1 /\ Head(s) = s[1]
           /\ \A i \in 1..Len(Tail(s)) : i + 1 \in 1..Len(s) /\ Tail(s)[i] = s[i + 1]
           /\ \A i \in 1..Len(Tail(s)) : Tail(s)[i] # "socket"
           /\ Head(s) = "ctx_create" => Tail(s) = <<"ssl_connect">>
           /\ Head(s) \in {"make_addr", "securesocket"} =>
                \A i \in 1..Len(Tail(s)) : Tail(s)[i] \notin {"socket", "Cid2Index"}
<1> DEFINE t == Tail(s)
           n == Len(s)
<1>1. s \in Seq(Calls)
  BY DEF Ordered
<1>2. /\ n \in Nat /\ n >= 1 /\ t \in Seq(Calls) /\ Len(t) = n - 1 /\ Head(s) = s[1]
      /\ \A i \in 1..(n - 1) : t[i] = s[i + 1]
  BY <1>1, LenProperties, EmptySeq, HeadTailProperties
<1> HIDE DEF t
<1>3. \A i \in 1..(n - 1) : i \in Nat /\ i + 1 \in 1..n /\ i + 1 # 1 /\ t[i] = s[i + 1]
  BY <1>2
<1>4. \A i \in 1..(n - 1) : t[i] # "socket"
  BY <1>3 DEF Ordered
<1>5. \A i \in 1..(n - 1) : t[i] = "ctx_create" => i + 1 = n - 1 /\ t[i + 1] = "ssl_connect"
  <2> SUFFICES ASSUME NEW i \in 1..(n - 1), t[i] = "ctx_create"
               PROVE  i + 1 = n - 1 /\ t[i + 1] = "ssl_connect"
    OBVIOUS
  <2>1. (i + 1) + 1 = n /\ s[(i + 1) + 1] = "ssl_connect"
    BY <1>3 DEF Ordered
  <2>2. i + 1 = n - 1 /\ i + 1 \in 1..(n - 1)
    BY <1>2, <2>1
  <2>3. QED BY <1>3, <2>1, <2>2
<1>6. \A i, j \in 1..(n - 1) :
         i < j /\ t[i] \in {"make_addr", "securesocket"} => t[j] \notin {"socket", "Cid2Index"}
  <2>1. \A i, j \in 1..(n - 1) : i < j => i + 1 < j + 1
    BY <1>2
  <2>2. QED BY <1>3, <2>1 DEF Ordered
<1>7. Ordered(t)
  BY <1>2, <1>4, <1>5, <1>6 DEF Ordered
<1>8. Head(s) = "ctx_create" => t = <<"ssl_connect">>
  <2> SUFFICES ASSUME Head(s) = "ctx_create" PROVE t = <<"ssl_connect">>
    OBVIOUS
  <2>1. 1 \in 1..n /\ s[1] = "ctx_create"
    BY <1>2
  <2>2. \A i \in 1..n : s[i] = "ctx_create" => i + 1 = n /\ s[i + 1] = "ssl_connect"
    BY DEF Ordered
  <2>3. n = 2
    BY <1>2, <2>1, <2>2
  <2>4. Len(t) = 1 /\ t[1] = s[2] /\ s[2] = "ssl_connect"
    BY <1>2, <2>1, <2>2, <2>3
  <2>5. <<"ssl_connect">> \in Seq(Calls) /\ Len(<<"ssl_connect">>) = 1
    BY DEF Calls
  <2>6. QED BY <1>2, <2>4, <2>5, SeqEqual
<1>9. Head(s) \in {"make_addr", "securesocket"} =>
        \A i \in 1..(n - 1) : t[i] \notin {"socket", "Cid2Index"}
  <2>1. 1 \in 1..n /\ \A i \in 1..(n - 1) : 1 < i + 1
    BY <1>2
  <2>2. QED BY <1>2, <1>3, <2>1 DEF Ordered
<1>10. QED BY <1>2, <1>3, <1>4, <1>7, <1>8, <1>9 DEF t
-----------------------------------------------------------------------------
(* Steps of the client. *)

(* A step on a connection, or one that says nothing of it. *)
LEMMA QuietKeeps ==
    ASSUME WireInv, UNCHANGED <<port, fd, alive, isSsl, todo, clear>>,
           \/ UNCHANGED <<pc, heap>>
           \/ pc \notin {"down", "tcp"} /\ pc' \notin {"down", "tcp"}
    PROVE  WireInv'
<1>1. CallsInv'
  BY DEF WireInv, CallsInv, Ordered
<1>2. HeldInv'
  BY DEF WireInv, HeldInv
<1>3. ClearInv'
  BY DEF WireInv, ClearInv
<1>4. QED BY <1>1, <1>2, <1>3 DEF WireInv

(* A connection ends: what is left of the handle is the memory that a      *)
(* failed close keeps, and the TLS object.                                 *)
LEMMA DisconnectKeeps ==
    ASSUME WireInv, pc \notin {"down", "tcp"}, TcpDisconnect,
           pc' = "down", heap' = {}, UNCHANGED <<port, isSsl, todo, clear>>
    PROVE  WireInv'
<1>1. todo = <<>> /\ todo' = <<>> /\ "lost" \notin alive /\ port' = port
  BY DEF WireInv, HeldInv
<1>2. fd' = FALSE /\ alive' \subseteq alive /\ (port = "he910" => "ssid" \notin alive')
  BY DEF TcpDisconnect, TcpDisconnectUnix, TcpDisconnectHe910, SecureDisconnect
<1>3. "ctx" \notin alive
  <2>1. <<>> # <<"ssl_connect">>
    OBVIOUS
  <2>2. QED BY <1>1, <2>1 DEF WireInv, HeldInv
<1>4. port # "he910" => "ssid" \notin alive
  BY DEF WireInv, HeldInv
<1>5. Ordered(todo') /\ Len(todo') = 0
  BY <1>1 DEF WireInv, CallsInv
<1>6. CallsInv'
  BY <1>5 DEF CallsInv
<1>7. HeldInv'
  BY <1>1, <1>2, <1>3, <1>4 DEF WireInv, HeldInv
<1>8. ClearInv'
  BY <1>1 DEF WireInv, ClearInv
<1>9. QED BY <1>6, <1>7, <1>8 DEF WireInv

(* A connect begins with a new handle. *)
LEMMA ConnectBeginsKeeps == WireInv /\ ConnectBegins => WireInv'
<1> SUFFICES ASSUME WireInv, ConnectBegins PROVE WireInv'
  OBVIOUS
<1> DEFINE o == Options(params)
<1>1. /\ pc = "down" /\ pc' = "tcp" /\ todo' = ConnectCalls(o) /\ alive' = {"sock"}
      /\ isSsl' = (port = "he910" /\ "secure" \in o) /\ clear' = FALSE
      /\ port' = port /\ fd' = fd
  BY DEF ConnectBegins, TcpConnect
<1>2. fd = FALSE /\ port \in {"linux", "freebsd", "he910"}
  BY <1>1 DEF WireInv, HeldInv
<1>3. /\ Ordered(todo')
      /\ port = "he910" => /\ Among(todo', Calls \ {"ctx_create", "ssl_connect"})
                           /\ "secure" \in o \/ Among(todo', Calls \ {"securesocket"})
  BY <1>1, CallsOrdered
<1> HIDE DEF o
<1>4. CallsInv'
  <2>1. \A i \in 1..Len(todo') :
           port = "he910" => /\ todo'[i] \notin {"ctx_create", "ssl_connect"}
                             /\ todo'[i] = "securesocket" => isSsl'
    BY <1>1, <1>3 DEF Among
  <2>2. Ordered(todo)'
    BY <1>3 DEF Ordered
  <2>3. QED BY <1>1, <1>2, <2>1, <2>2 DEF CallsInv
<1>5. HeldInv' /\ ClearInv'
  BY <1>1, <1>2 DEF HeldInv, ClearInv, Tls
<1>6. QED BY <1>4, <1>5 DEF WireInv

(* The next call succeeds. *)
LEMMA ConnectGoesOnKeeps == WireInv /\ ConnectGoesOn => WireInv'
<1> SUFFICES ASSUME WireInv, ConnectGoesOn PROVE WireInv'
  OBVIOUS
<1> DEFINE call == Head(todo)
<1>1. /\ pc = "tcp" /\ todo # <<>> /\ todo' = Tail(todo) /\ fd' = TRUE
      /\ UNCHANGED <<port, clear, heap>>
      /\ pc' = IF Len(todo) > 1 THEN "tcp" ELSE IF params.https THEN "get" ELSE "hello"
  BY DEF ConnectGoesOn, ConnectStep
<1>2. CallsInv /\ HeldInv /\ ClearInv /\ Ordered(todo)
  BY DEF WireInv, CallsInv
<1>3. /\ Ordered(Tail(todo))
      /\ Len(Tail(todo)) = Len(todo) - 1 /\ Len(todo) \in Nat /\ Len(todo) >= 1 /\ call = todo[1]
      /\ \A i \in 1..Len(Tail(todo)) : i + 1 \in 1..Len(todo) /\ Tail(todo)[i] = todo[i + 1]
      /\ \A i \in 1..Len(Tail(todo)) : Tail(todo)[i] # "socket"
      /\ call = "ctx_create" => Tail(todo) = <<"ssl_connect">>
      /\ call \in {"make_addr", "securesocket"} =>
           \A i \in 1..Len(Tail(todo)) : Tail(todo)[i] \notin {"socket", "Cid2Index"}
  BY <1>1, <1>2, TailOrdered
<1>4. /\ call = "ctx_create" => alive' = alive \cup {"ctx"} /\ isSsl' = isSsl
      /\ call = "ssl_connect" => alive' = (alive \cup {"sslo"}) \ {"ctx"} /\ isSsl' = (port = "freebsd")
      /\ call \in {"make_addr", "securesocket"} =>
           /\ isSsl' = isSsl
           /\ alive' = alive \cup (IF port # "he910" THEN {} ELSE IF call = "make_addr" THEN {"frwl"} ELSE {"ssid"})
      /\ call \notin {"ctx_create", "ssl_connect", "make_addr", "securesocket"} =>
           alive' = alive /\ isSsl' = isSsl
  BY DEF ConnectGoesOn, ConnectStep, CtxCreate, SslConnect, CtxDelete, Morph, He910Holds
<1>5. 1 \in 1..Len(todo) /\ todo[1] = call
  BY <1>3
<1>6. port = "he910" => call \notin {"ctx_create", "ssl_connect"} /\ (call = "securesocket" => isSsl)
  BY <1>2, <1>5 DEF CallsInv
<1>7. CallsInv'
  <2>1. ASSUME NEW i \in 1..Len(Tail(todo))
        PROVE  /\ Tail(todo)[i] # "socket"
               /\ Tail(todo)[i] = "Cid2Index" => "frwl" \notin alive' /\ "ssid" \notin alive'
               /\ port = "he910" => /\ Tail(todo)[i] \notin {"ctx_create", "ssl_connect"}
                                    /\ Tail(todo)[i] = "securesocket" => isSsl'
    <3>1. i + 1 \in 1..Len(todo) /\ Tail(todo)[i] = todo[i + 1]
      BY <1>3
    <3>2. Tail(todo)[i] = "Cid2Index" => "frwl" \notin alive' /\ "ssid" \notin alive'
      <4>1. Tail(todo)[i] = "Cid2Index" => call \notin {"make_addr", "securesocket"}
        BY <1>3
      <4>2. Tail(todo)[i] = "Cid2Index" => "frwl" \notin alive /\ "ssid" \notin alive
        BY <1>2, <3>1 DEF CallsInv
      <4>3. QED BY <1>4, <4>1, <4>2
    <3>3. port = "he910" => /\ Tail(todo)[i] \notin {"ctx_create", "ssl_connect"}
                            /\ Tail(todo)[i] = "securesocket" => isSsl'
      BY <1>2, <1>4, <1>6, <3>1 DEF CallsInv
    <3>4. QED BY <1>3, <3>2, <3>3
  <2>2. Ordered(todo)'
    BY <1>1, <1>3 DEF Ordered
  <2>3. QED BY <1>1, <2>1, <2>2 DEF CallsInv
<1>8. HeldInv'
  <2>1. pc' \in {"tcp", "get", "hello"} /\ (pc' # "tcp" => todo' = <<>>)
    <3>1. Len(todo) = 1 => Tail(todo) = <<>>
      <4>1. Tail(todo) \in Seq(Calls) /\ (Len(todo) = 1 => Len(Tail(todo)) = 0)
        <5>1. Tail(todo) \in Seq(Calls)
          BY <1>3 DEF Ordered
        <5>2. Len(todo) = 1 => Len(Tail(todo)) = 0
          BY <1>3
        <5>3. QED BY <5>1, <5>2
      <4>2. QED BY <4>1, EmptySeq
    <3>2. QED BY <1>1, <1>3, <3>1
  <2>2. "lost" \notin alive /\ port \in {"linux", "freebsd", "he910"}
    BY <1>1, <1>2 DEF HeldInv
  <2>3. "lost" \notin alive'
    BY <1>4, <2>2
  <2>4. port = "he910" => "ctx" \notin alive'
    BY <1>2, <1>4, <1>6 DEF HeldInv
  <2>5. port # "he910" => "ssid" \notin alive'
    BY <1>2, <1>4 DEF HeldInv
  <2>6. port # "he910" /\ "ctx" \in alive' => todo' = <<"ssl_connect">>
    <3>1. todo = <<"ssl_connect">> => call = "ssl_connect"
      OBVIOUS
    <3>2. CASE call = "ctx_create"
      BY <1>1, <1>3, <3>2
    <3>3. CASE call = "ssl_connect"
      BY <1>4, <3>3
    <3>4. CASE call \notin {"ctx_create", "ssl_connect"}
      BY <1>2, <1>4, <3>1, <3>4 DEF HeldInv
    <3>5. QED BY <3>2, <3>3, <3>4
  <2>7. QED BY <1>1, <2>1, <2>2, <2>3, <2>4, <2>5, <2>6 DEF HeldInv
<1>9. ClearInv'
  <2>1. isSsl \in BOOLEAN /\ clear \in BOOLEAN /\ (port # "linux" => ~clear)
    BY <1>2 DEF ClearInv
  <2>2. ASSUME port # "linux", alive' \cap Tls # {} PROVE isSsl'
    <3>1. port \in {"freebsd", "he910"} /\ (alive \cap Tls # {} => isSsl)
      BY <1>1, <1>2, <2>2 DEF HeldInv, ClearInv
    <3>2. CASE call = "ssl_connect"
      BY <1>4, <1>6, <3>1, <3>2
    <3>3. CASE call = "ctx_create"
      BY <1>4, <2>2, <3>1, <3>3 DEF Tls
    <3>4. CASE call = "make_addr"
      BY <1>4, <2>2, <3>1, <3>4 DEF Tls
    <3>5. CASE call = "securesocket"
      BY <1>4, <1>6, <2>2, <3>1, <3>5 DEF Tls
    <3>6. CASE call \notin {"ctx_create", "ssl_connect", "make_addr", "securesocket"}
      BY <1>4, <2>2, <3>1, <3>6
    <3>7. QED BY <3>2, <3>3, <3>4, <3>5, <3>6
  <2>3. isSsl' \in BOOLEAN
    BY <1>4, <2>1
  <2>4. QED BY <1>1, <2>1, <2>2, <2>3 DEF ClearInv
<1>10. QED BY <1>7, <1>8, <1>9 DEF WireInv

(* The next call fails: what was made up to it is released. *)
LEMMA ConnectIsRefusedKeeps == WireInv /\ ConnectIsRefused => WireInv'
<1> SUFFICES ASSUME WireInv, ConnectIsRefused PROVE WireInv'
  OBVIOUS
<1> DEFINE call == Head(todo)
<1>1. /\ pc = "tcp" /\ pc' = "down" /\ heap' = {} /\ todo # <<>> /\ todo' = <<>>
      /\ UNCHANGED <<port, isSsl, clear>>
  BY DEF ConnectIsRefused, ConnectFails
<1>2. CallsInv /\ HeldInv /\ ClearInv /\ Ordered(todo)
  BY DEF WireInv, CallsInv
<1>3. Len(todo) \in Nat /\ Len(todo) >= 1 /\ call = todo[1]
  BY <1>1, <1>2, TailOrdered
<1>4. 1 \in 1..Len(todo)
  BY <1>3
<1>5. /\ "lost" \notin alive /\ fd \in BOOLEAN /\ port \in {"linux", "freebsd", "he910"}
      /\ call = "socket" => ~fd
      /\ call \in {"socket", "Cid2Index"} => "frwl" \notin alive /\ "ssid" \notin alive
  BY <1>1, <1>2, <1>3, <1>4 DEF HeldInv, CallsInv
<1>6. /\ fd' = FALSE /\ "ctx" \notin alive' /\ "ssid" \notin alive'
      /\ "lost" \in alive' => port = "he910" /\ "frwl" \notin alive'
  <2>1. CASE port = "he910"
    <3>1. "ctx" \notin alive
      BY <1>2, <2>1 DEF HeldInv
    <3>2. /\ fd' = FALSE
          /\ \/ call = "socket" /\ alive' = alive
             \/ call = "Cid2Index" /\ alive' = alive \cup {"lost"}
             \/ alive' = alive \ {"sock", "ssid"}
      BY <2>1 DEF ConnectIsRefused, ConnectFails, ConnectFailsHe910
    <3>3. QED BY <1>5, <2>1, <3>1, <3>2
  <2>2. CASE port # "he910"
    <3>1. "ssid" \notin alive /\ ("ctx" \in alive => todo = <<"ssl_connect">>)
      BY <1>2, <2>2 DEF HeldInv
    <3>2. todo = <<"ssl_connect">> => call = "ssl_connect"
      OBVIOUS
    <3>3. CASE call = "ssl_connect"
      <4>1. fd' = FALSE /\ alive' \subseteq (alive \cup {"sslo"}) \ {"ctx"}
        BY <2>2, <3>3 DEF ConnectIsRefused, ConnectFails, TcpDisconnectUnix, SslConnect, CtxDelete
      <4>2. QED BY <1>5, <3>1, <4>1
    <3>4. CASE call = "socket"
      <4>1. fd' = fd /\ alive' = alive
        BY <2>2, <3>4 DEF ConnectIsRefused, ConnectFails
      <4>2. QED BY <1>5, <3>1, <3>2, <3>4, <4>1
    <3>5. CASE call \notin {"ssl_connect", "socket"}
      <4>1. fd' = FALSE /\ alive' \subseteq alive
        BY <2>2, <3>5 DEF ConnectIsRefused, ConnectFails, TcpDisconnect, TcpDisconnectUnix, TcpDisconnectHe910
      <4>2. QED BY <1>5, <3>1, <3>2, <3>5, <4>1
    <3>6. QED BY <3>3, <3>4, <3>5
  <2>3. QED BY <2>1, <2>2
<1>7. CallsInv'
  <2>1. <<>> \in Seq(Calls) /\ Len(<<>>) = 0
    OBVIOUS
  <2>2. Ordered(todo)'
    BY <1>1, <2>1 DEF Ordered
  <2>3. QED BY <1>1, <2>1, <2>2 DEF CallsInv
<1>8. HeldInv'
  BY <1>1, <1>5, <1>6 DEF HeldInv
<1>9. ClearInv'
  BY <1>1, <1>2 DEF ClearInv
<1>10. QED BY <1>7, <1>8, <1>9 DEF WireInv

(* Bytes go out on a connection, bare or not. *)
LEMMA TakeKeeps == \A t \in Senders : WireInv /\ Take(t) => WireInv'
<1> SUFFICES ASSUME NEW t \in Senders, WireInv, Take(t) PROVE WireInv'
  OBVIOUS
<1>1. /\ fd /\ UNCHANGED <<port, fd, alive, isSsl, todo, pc, heap>>
      /\ \/ ~isSsl /\ clear' = (clear \/ alive \cap Tls # {})
         \/ clear' = clear
  BY DEF Take, TcpSend, PlainSend, SslSend2
<1>2. CallsInv' /\ HeldInv'
  BY <1>1 DEF WireInv, CallsInv, Ordered, HeldInv
<1>3. ClearInv'
  <2>1. /\ isSsl \in BOOLEAN /\ clear \in BOOLEAN /\ pc # "down"
        /\ port # "linux" /\ alive \cap Tls # {} => isSsl
        /\ port # "linux" => ~clear
    BY <1>1 DEF WireInv, HeldInv, ClearInv
  <2>2. port # "linux" => ~clear'
    BY <1>1, <2>1
  <2>3. clear' \in BOOLEAN
    BY <1>1, <2>1
  <2>4. QED BY <1>1, <2>1, <2>2, <2>3 DEF ClearInv
<1>4. QED BY <1>2, <1>3 DEF WireInv

(* The parts of a step that the invariant is about. *)
Quiet ==
    /\ UNCHANGED <<port, fd, alive, isSsl, todo, clear>>
    /\ \/ UNCHANGED <<pc, heap>>
       \/ pc \notin {"down", "tcp"} /\ pc' \notin {"down", "tcp"}

Ends ==
    /\ pc \notin {"down", "tcp"} /\ TcpDisconnect
    /\ pc' = "down" /\ heap' = {} /\ UNCHANGED <<port, isSsl, todo, clear>>

(* Every step keeps the invariant of the wire. *)
LEMMA WireStep == WireInv /\ [Next]_vars => WireInv'
<1> SUFFICES ASSUME WireInv, [Next]_vars PROVE WireInv'
  OBVIOUS
<1>1. CASE Quiet
  BY <1>1, QuietKeeps DEF Quiet
<1>2. CASE Ends
  BY <1>2, DisconnectKeeps DEF Ends
<1>3. CASE ConnectBegins \/ ConnectGoesOn \/ ConnectIsRefused
  BY <1>3, ConnectBeginsKeeps, ConnectGoesOnKeeps, ConnectIsRefusedKeeps
<1>4. ASSUME NEW t \in Senders, Take(t) PROVE WireInv'
  BY <1>4, TakeKeeps
<1>5. ASSUME NEW t \in Senders, GiveUp(t) PROVE Quiet
  BY <1>5 DEF Quiet, GiveUp, SendGivesUp
<1>6. CASE HttpsRequest \/ HttpsReply \/ HttpsReplyFails
  <2>1. CASE HttpsRequest
    BY <1>1, <1>2, <2>1 DEF Quiet, Ends, HttpsRequest, ConnectError, noNet, tcpVars
  <2>2. CASE HttpsReply
    BY <1>1, <1>2, <2>2 DEF Quiet, Ends, HttpsReply, ConnectError
  <2>3. CASE HttpsReplyFails
    BY <1>1, <1>2, <2>3 DEF Quiet, Ends, HttpsReplyFails, ConnectError, noNet
  <2>4. QED BY <1>6, <2>1, <2>2, <2>3
<1>7. CASE Hello \/ RecvBegins \/ RecvHeader \/ RecvBody
  <2>1. CASE Hello
    BY <1>1, <2>1 DEF Quiet, Hello, MqttSend
  <2>2. CASE RecvBegins
    BY <1>1, <2>2 DEF Quiet, RecvBegins, tcpVars
  <2>3. CASE RecvHeader
    BY <1>1, <2>3 DEF Quiet, RecvHeader
  <2>4. CASE RecvBody
    BY <1>1, <2>4 DEF Quiet, RecvBody
  <2>5. QED BY <1>7, <2>1, <2>2, <2>3, <2>4
<1>8. CASE RecvTimesOut \/ RecvFails
  <2>1. RecvError /\ pc \in {"header", "body", "bad"} => Quiet \/ Ends
    BY DEF Quiet, Ends, RecvError, ConnectError, noNet
  <2>2. CASE RecvTimesOut
    <3>1. pc \in {"header", "body"} /\ (RecvError \/ (pc' = "up" /\ UNCHANGED <<tcpVars, mux, heap>>))
      BY <2>2 DEF RecvTimesOut
    <3>2. QED BY <1>1, <1>2, <2>1, <3>1 DEF Quiet, tcpVars
  <2>3. CASE RecvFails
    BY <1>1, <1>2, <2>1, <2>3 DEF RecvFails
  <2>4. QED BY <1>8, <2>2, <2>3
<1>9. CASE Accepted \/ Refused \/ Handle \/ HandlePublish
  <2>1. CASE Accepted
    BY <1>1, <2>1 DEF Quiet, Accepted, tcpVars
  <2>2. CASE Refused
    BY <1>2, <2>2 DEF Ends, Refused, ConnectError, noNet
  <2>3. CASE Handle
    BY <1>1, <2>3 DEF Quiet, Handle, tcpVars
  <2>4. CASE HandlePublish
    BY <1>1, <2>4 DEF Quiet, HandlePublish, MqttSend
  <2>5. QED BY <1>9, <2>1, <2>2, <2>3, <2>4
<1>10. CASE Ping \/ SendEnds \/ Break \/ RequestEnds \/ \E m \in Requests : Request(m)
  BY <1>1, <1>10 DEF Quiet, Ping, SendEnds, Break, RequestEnds, Request, MqttSend, tcpVars
<1>11. CASE Disconnect
  BY <1>2, <1>11 DEF Ends, Disconnect, noNet
<1>12. CASE Push \/ Answer \/ Close
  BY <1>1, <1>12 DEF Quiet, Push, PeerSends, Answer, Close, ownVars
<1>13. CASE UNCHANGED vars
  BY <1>1, <1>13 DEF Quiet, vars, tcpVars, ownVars
<1>14. QED
  BY <1>1, <1>3, <1>4, <1>5, <1>6, <1>7, <1>8, <1>9, <1>10, <1>11, <1>12, <1>13 DEF Next

(* A connection that is down has it. *)
LEMMA WireStarts == Init => WireInv
<1> SUFFICES ASSUME Init PROVE WireInv
  OBVIOUS
<1>1. /\ port \in {"linux", "freebsd", "he910"} /\ fd = FALSE /\ alive = {} /\ isSsl = FALSE
      /\ todo = <<>> /\ clear = FALSE /\ pc = "down" /\ heap = {}
  BY DEF Init, TcpInit
<1>2. Ordered(<<>>) /\ Len(<<>>) = 0
  BY DEF Ordered
<1>3. CallsInv
  BY <1>1, <1>2 DEF CallsInv
<1>4. HeldInv /\ ClearInv
  BY <1>1 DEF HeldInv, ClearInv, Tls
<1>5. QED BY <1>3, <1>4 DEF WireInv

(* Whatever call of a connect fails, and whenever a connection ends, the   *)
(* descriptor is closed and the client, its request, the TLS context and   *)
(* the secure socket are released, but for the one return of he910.tcp.c.  *)
THEOREM NothingHeldCorrect == Spec => []NothingHeld
<1>1. WireInv => NothingHeld
  BY DEF WireInv, HeldInv, NothingHeld
<1>2. QED BY <1>1, WireStarts, WireStep, PTL DEF Spec

(* Where the declarations of ABSTRACT_SOCKET agree, no byte goes out bare  *)
(* once a TLS object or a secure socket was made for the connection.       *)
THEOREM NothingInClearCorrect == Spec => []NothingInClear
<1>1. WireInv => NothingInClear
  BY DEF WireInv, ClearInv, NothingInClear
<1>2. QED BY <1>1, WireStarts, WireStep, PTL DEF Spec
-----------------------------------------------------------------------------
(* The length of a message, in digits. *)

(* What is left of n before each of its digits. *)
Lefts(n) == <<n, n \div Radix, (n \div Radix) \div Radix, ((n \div Radix) \div Radix) \div Radix>>

(* The sum of the first k digits of n. *)
Sum(n, k) ==
    LET l == Lefts(n)
        a == l[1] % Radix
        b == a + (l[2] % Radix) * Radix
        c == b + (l[3] % Radix) * (Radix * Radix)
    IN  <<a, b, c, c + (l[4] % Radix) * (Radix * Radix * Radix)>>[k]

(* The base is a number of which three is a digit. *)
LEMMA RadixIs == Radix \in Nat /\ Radix > 3
BY RadixAssumption

(* The weights of the digits. *)
LEMMA WeightIs ==
    /\ Weight[1] = 1 /\ Weight[2] = Radix /\ Weight[3] = Radix * Radix /\ Weight[4] = Radix * Radix * Radix
    /\ Weight[5] = Radix * Radix * Radix * Radix
BY DEF Weight

(* Each digit is what remains, and the next quotient what is left. *)
LEMMA LeftsAre ==
    ASSUME NEW n \in Nat
    PROVE  LET l == Lefts(n)
           IN  /\ l[1] = n /\ \A i \in 1..4 : l[i] \in Nat /\ l[i] % Radix \in 0..(Radix - 1)
               /\ \A i \in 1..4 : l[i] < Radix => l[i] % Radix = l[i]
               /\ l[1] = Radix * l[2] + (l[1] % Radix)
               /\ l[2] = Radix * l[3] + (l[2] % Radix)
               /\ l[3] = Radix * l[4] + (l[3] % Radix)
<1> DEFINE a == n \div Radix
           b == a \div Radix
           c == b \div Radix
           l == Lefts(n)
<1>1. Radix \in Nat /\ Radix > 1
  BY RadixIs
<1>2. a \in Nat /\ n = Radix * a + (n % Radix) /\ n % Radix \in 0..(Radix - 1)
  BY <1>1, DivMod
<1>3. b \in Nat /\ a = Radix * b + (a % Radix) /\ a % Radix \in 0..(Radix - 1)
  BY <1>1, <1>2, DivMod
<1>4. c \in Nat /\ b = Radix * c + (b % Radix) /\ b % Radix \in 0..(Radix - 1)
  BY <1>1, <1>3, DivMod
<1>5. c % Radix \in 0..(Radix - 1)
  BY <1>1, <1>4, DivMod
<1>6. l[1] = n /\ l[2] = a /\ l[3] = b /\ l[4] = c
  BY DEF Lefts
<1>7. \A m \in Nat : m < Radix => m % Radix = m
  BY <1>1
<1> HIDE DEF a, b, c, l
<1>8. \A i \in 1..4 : i = 1 \/ i = 2 \/ i = 3 \/ i = 4
  OBVIOUS
<1>9. \A i \in 1..4 : l[i] \in Nat /\ l[i] % Radix \in 0..(Radix - 1)
  BY <1>2, <1>3, <1>4, <1>5, <1>6, <1>8
<1>10. \A i \in 1..4 : l[i] < Radix => l[i] % Radix = l[i]
  BY <1>7, <1>9
<1>11. QED BY <1>2, <1>3, <1>4, <1>6, <1>9, <1>10 DEF l

(* All digits up to the one that is left make the number. *)
LEMMA SumIs ==
    ASSUME NEW n \in Nat, NEW k \in 1..4, Lefts(n)[k] < Radix
    PROVE  Sum(n, k) = n
<1> DEFINE l == Lefts(n)
           r(i) == l[i] % Radix
           R2 == Radix * Radix
           R3 == Radix * Radix * Radix
<1>1. /\ l[1] = n /\ Radix \in Nat /\ \A i \in 1..4 : l[i] \in Nat /\ r(i) \in Nat
      /\ l[k] < Radix /\ (l[k] < Radix => r(k) = l[k])
      /\ l[1] = Radix * l[2] + r(1)
      /\ l[2] = Radix * l[3] + r(2)
      /\ l[3] = Radix * l[4] + r(3)
  <2>1. /\ l[1] = n /\ \A i \in 1..4 : l[i] \in Nat /\ r(i) \in 0..(Radix - 1)
        /\ \A i \in 1..4 : l[i] < Radix => r(i) = l[i]
        /\ l[1] = Radix * l[2] + r(1)
        /\ l[2] = Radix * l[3] + r(2)
        /\ l[3] = Radix * l[4] + r(3)
    BY LeftsAre
  <2> HIDE DEF l, r
  <2>2. \A i \in 1..4 : r(i) \in Nat
    BY <2>1, RadixIs
  <2>3. l[k] < Radix
    BY DEF l
  <2>4. QED BY <2>1, <2>2, <2>3, RadixIs
<1>2. /\ Sum(n, 1) = r(1)
      /\ Sum(n, 2) = r(1) + r(2) * Radix
      /\ Sum(n, 3) = r(1) + r(2) * Radix + r(3) * R2
      /\ Sum(n, 4) = r(1) + r(2) * Radix + r(3) * R2 + r(4) * R3
  BY DEF Sum
<1>3. l[1] \in Nat /\ l[2] \in Nat /\ l[3] \in Nat /\ l[4] \in Nat /\ r(1) \in Nat /\ r(2) \in Nat /\ r(3) \in Nat
  <2> HIDE DEF l, r
  <2>1. QED BY <1>1
<1>4. r(k) = l[k]
  <2> HIDE DEF l, r
  <2>1. QED BY <1>1
<1> DEFINE x1 == l[1]
           x2 == l[2]
           x3 == l[3]
           x4 == l[4]
           r1 == r(1)
           r2 == r(2)
           r3 == r(3)
<1>5. /\ x1 \in Nat /\ x2 \in Nat /\ x3 \in Nat /\ x4 \in Nat /\ r1 \in Nat /\ r2 \in Nat /\ r3 \in Nat /\ Radix \in Nat
      /\ x1 = Radix * x2 + r1 /\ x2 = Radix * x3 + r2 /\ x3 = Radix * x4 + r3
  BY <1>1, <1>3
<1>6. /\ n = x1 /\ Sum(n, 1) = r1 /\ Sum(n, 2) = r1 + r2 * Radix
      /\ Sum(n, 3) = r1 + r2 * Radix + r3 * R2
      /\ Sum(n, 4) = r1 + r2 * Radix + r3 * R2 + r(4) * R3
  BY <1>1, <1>2
<1>7. /\ k = 1 => r1 = x1
      /\ k = 2 => r2 = x2
      /\ k = 3 => r3 = x3
      /\ k = 4 => r(4) = x4
  BY <1>4
<1>8. k = 1 \/ k = 2 \/ k = 3 \/ k = 4
  OBVIOUS
<1> HIDE DEF l, r, x1, x2, x3, x4, r1, r2, r3
<1>9. CASE k = 1
  BY <1>6, <1>7, <1>9
<1>10. CASE k = 2
  BY <1>5, <1>6, <1>7, <1>10
<1>11. x1 = r1 + r2 * Radix + x3 * R2
  <2>1. Radix * x2 = Radix * (Radix * x3) + Radix * r2
    BY <1>5
  <2>2. Radix * (Radix * x3) = x3 * R2 /\ Radix * r2 = r2 * Radix
    BY <1>5
  <2>3. QED BY <1>5, <2>1, <2>2
<1>12. CASE k = 3
  BY <1>6, <1>7, <1>11, <1>12
<1>13. x3 * R2 = r3 * R2 + x4 * R3
  <2>1. R2 \in Nat
    BY <1>5
  <2>2. x3 * R2 = (Radix * x4) * R2 + r3 * R2
    BY <1>5, <2>1
  <2>3. (Radix * x4) * R2 = x4 * R3
    BY <1>5
  <2>4. r3 * R2 \in Nat /\ x4 * R3 \in Nat
    BY <1>5
  <2>5. QED BY <2>2, <2>3, <2>4
<1>14. CASE k = 4
  <2>1. r3 * R2 \in Nat /\ x4 * R3 \in Nat /\ r2 * Radix \in Nat
    BY <1>5
  <2>2. QED BY <1>5, <1>6, <1>7, <1>11, <1>13, <1>14, <2>1
<1>15. QED BY <1>8, <1>9, <1>10, <1>12, <1>14

(* The digits of n. *)
Size(n) == CHOOSE i \in 1..4 : Lefts(n)[i] < Radix /\ \A j \in 1..(i - 1) : Lefts(n)[j] >= Radix

(* Product by product. *)
LEMMA Products ==
    ASSUME NEW x \in Nat, NEW y \in Nat, NEW r \in Nat, NEW z \in Nat, z >= x
    PROVE  y * z + r >= y * x /\ y * x \in Nat
<1>1. PICK d \in Nat : z = x + d
  <2>1. z - x \in Nat /\ z = x + (z - x)
    OBVIOUS
  <2>2. QED BY <2>1
<1>2. y * z = y * x + y * d
  BY <1>1
<1>3. y * d \in Nat /\ y * x \in Nat
  OBVIOUS
<1>4. QED BY <1>2, <1>3

(* A length that four digits reach has so many. *)
LEMMA SizeIs ==
    ASSUME NEW n \in Nat, n < Weight[5]
    PROVE  /\ Size(n) \in 1..4 /\ Lefts(n)[Size(n)] < Radix
           /\ \A j \in 1..(Size(n) - 1) : Lefts(n)[j] >= Radix
<1> DEFINE l == Lefts(n)
           P(i) == l[i] < Radix /\ \A j \in 1..(i - 1) : l[j] >= Radix
<1>1. /\ l[1] = n /\ Radix \in Nat /\ \A i \in 1..4 : l[i] \in Nat /\ l[i] % Radix \in 0..(Radix - 1)
      /\ l[1] = Radix * l[2] + (l[1] % Radix)
      /\ l[2] = Radix * l[3] + (l[2] % Radix)
      /\ l[3] = Radix * l[4] + (l[3] % Radix)
  BY LeftsAre, RadixIs
<1> DEFINE x1 == l[1]
           x2 == l[2]
           x3 == l[3]
           x4 == l[4]
           r1 == l[1] % Radix
           r2 == l[2] % Radix
           r3 == l[3] % Radix
<1>2. /\ x1 \in Nat /\ x2 \in Nat /\ x3 \in Nat /\ x4 \in Nat /\ r1 \in Nat /\ r2 \in Nat /\ r3 \in Nat /\ Radix \in Nat
      /\ x1 = n /\ x1 = Radix * x2 + r1 /\ x2 = Radix * x3 + r2 /\ x3 = Radix * x4 + r3
  <2> HIDE DEF l
  <2>1. l[1] \in Nat /\ l[2] \in Nat /\ l[3] \in Nat /\ l[4] \in Nat
    BY <1>1
  <2>2. r1 \in Nat /\ r2 \in Nat /\ r3 \in Nat
    BY <1>1
  <2>3. QED BY <1>1, <2>1, <2>2
<1>3. l[4] < Radix
  <2> SUFFICES ASSUME x4 >= Radix PROVE FALSE
    BY <1>2
  <2> HIDE DEF x1, x2, x3, x4, r1, r2, r3
  <2>1. x3 >= Radix * Radix /\ Radix * Radix \in Nat
    BY <1>2, Products
  <2>2. x2 >= Radix * (Radix * Radix) /\ Radix * (Radix * Radix) \in Nat
    BY <1>2, <2>1, Products
  <2>3. x1 >= Radix * (Radix * (Radix * Radix))
    BY <1>2, <2>2, Products
  <2>4. Radix * (Radix * (Radix * Radix)) = Weight[5]
    BY <1>2, WeightIs
  <2>5. QED BY <1>2, <2>3, <2>4
<1>4. \E i \in 1..4 : P(i)
  <2> HIDE DEF l
  <2>1. l[1] \in Nat /\ l[2] \in Nat /\ l[3] \in Nat /\ l[4] \in Nat /\ Radix \in Nat
    BY <1>1
  <2>2. CASE l[1] < Radix
    BY <2>2
  <2>3. CASE l[1] >= Radix /\ l[2] < Radix
    <3>1. \A j \in 1..(2 - 1) : j = 1
      OBVIOUS
    <3>2. P(2)
      BY <2>3, <3>1
    <3>3. QED BY <3>2
  <2>4. CASE l[1] >= Radix /\ l[2] >= Radix /\ l[3] < Radix
    <3>1. \A j \in 1..(3 - 1) : j = 1 \/ j = 2
      OBVIOUS
    <3>2. P(3)
      BY <2>4, <3>1
    <3>3. QED BY <3>2
  <2>5. CASE l[1] >= Radix /\ l[2] >= Radix /\ l[3] >= Radix
    <3>1. \A j \in 1..(4 - 1) : j = 1 \/ j = 2 \/ j = 3
      OBVIOUS
    <3>2. P(4)
      BY <1>3, <2>5, <3>1
    <3>3. QED BY <3>2
  <2>6. QED BY <2>1, <2>2, <2>3, <2>4, <2>5
<1>5. Size(n) = CHOOSE i \in 1..4 : P(i)
  BY DEF Size
<1> HIDE DEF P
<1>6. Size(n) \in 1..4 /\ P(Size(n))
  BY <1>4, <1>5
<1>7. QED BY <1>6 DEF P

(* The digits of n in the elements a + 1, ... of s. *)
Digits(s, a, n) ==
    LET k == Size(n)
    IN  \A i \in 1..k : s[a + i] = (Lefts(n)[i] % Radix) + (IF i < k THEN Radix ELSE 0)

(* Of the digits of a length, all but the last are marked. *)
LEMMA DigitIs ==
    ASSUME NEW n \in Nat, n < Weight[5], NEW s, NEW a \in Nat, Digits(s, a, n), NEW i \in 1..Size(n)
    PROVE  /\ s[a + i] \in Nat /\ Digit(s[a + i]) = Lefts(n)[i] % Radix
           /\ More(s[a + i]) <=> i < Size(n)
           /\ s[a + i] < Radix <=> ~(i < Size(n))
           /\ s[a + i] < 2 * Radix
<1> DEFINE r == Lefts(n)[i] % Radix
           d == s[a + i]
<1>1. Size(n) \in 1..4 /\ i \in 1..4
  BY SizeIs
<1>2. r \in 0..(Radix - 1)
  BY <1>1, LeftsAre
<1>3. d = IF i < Size(n) THEN r + Radix ELSE r
  <2> HIDE DEF r, d
  <2>1. d = r + (IF i < Size(n) THEN Radix ELSE 0)
    BY DEF Digits, d, r
  <2>2. QED BY <1>2, <2>1
<1> HIDE DEF r, d
<1>4. CASE i < Size(n)
  <2>1. d = r + Radix /\ Radix \in Nat /\ Radix > 1
    BY <1>3, <1>4, RadixIs
  <2>2. (r + Radix) % Radix = r /\ (r + Radix) \div Radix = 1
    BY <1>2, <2>1
  <2>3. QED BY <1>2, <1>4, <2>1, <2>2 DEF More, Digit, d, r
<1>5. CASE ~(i < Size(n))
  <2>1. d = r /\ Radix \in Nat /\ Radix > 1
    BY <1>3, <1>5, RadixIs
  <2>2. r % Radix = r /\ r \div Radix = 0
    BY <1>2, <2>1
  <2>3. QED BY <1>2, <1>5, <2>1, <2>2 DEF More, Digit, d, r
<1>6. QED BY <1>4, <1>5

(* The recursive function of a value over digits d, up to the fourth.      *)
ValueOf(d, w, f) == [i \in 0..4 |-> IF i = 0 THEN 0 ELSE f[i - 1] + d[i] * w[i]]

(* There is such a function, and it is unique. *)
LEMMA ValueExists ==
    ASSUME NEW d, NEW w
    PROVE  \E f : f = ValueOf(d, w, f)
<1> DEFINE Body(f) == [i \in 0..4 |-> IF i = 0 THEN 0 ELSE f[i - 1] + d[i] * w[i]]
           a == 0 + d[1] * w[1]
           b == a + d[2] * w[2]
           c == b + d[3] * w[3]
           e == c + d[4] * w[4]
           g == [i \in 0..4 |-> IF i = 0 THEN 0 ELSE IF i = 1 THEN a ELSE IF i = 2 THEN b ELSE IF i = 3 THEN c ELSE e]
<1>1. g[0] = 0 /\ g[1] = a /\ g[2] = b /\ g[3] = c /\ g[4] = e
  OBVIOUS
<1>2. \A i \in 0..4 : i = 0 \/ i = 1 \/ i = 2 \/ i = 3 \/ i = 4
  OBVIOUS
<1>3. \A i \in 0..4 : g[i] = IF i = 0 THEN 0 ELSE g[i - 1] + d[i] * w[i]
  <2>1. g[1] = g[1 - 1] + d[1] * w[1] /\ g[2] = g[2 - 1] + d[2] * w[2]
    BY <1>1
  <2>2. g[3] = g[3 - 1] + d[3] * w[3] /\ g[4] = g[4 - 1] + d[4] * w[4]
    BY <1>1
  <2> HIDE DEF g, a, b, c, e
  <2>3. QED BY <1>1, <1>2, <2>1, <2>2
<1>4. g = Body(g)
  <2>1. g = [i \in 0..4 |-> g[i]]
    OBVIOUS
  <2> HIDE DEF g
  <2>2. QED BY <1>3, <2>1
<1>5. g = ValueOf(d, w, g)
  BY <1>4 DEF ValueOf
<1> HIDE DEF g
<1>6. QED BY <1>5

(* The least of four that has a property. *)
LEMMA FirstIs ==
    ASSUME NEW P, NEW k \in 1..4, P[k], \A j \in 1..(k - 1) : ~P[j]
    PROVE  k = CHOOSE i \in 1..4 : P[i] /\ \A j \in 1..(i - 1) : ~P[j]
<1>1. ASSUME NEW i \in 1..4, P[i], \A j \in 1..(i - 1) : ~P[j] PROVE i = k
  <2>1. CASE i < k
    <3>1. i \in 1..(k - 1)
      BY <2>1
    <3>2. QED BY <1>1, <3>1
  <2>2. CASE k < i
    <3>1. k \in 1..(i - 1)
      BY <2>2
    <3>2. QED BY <1>1, <3>1
  <2>3. QED BY <2>1, <2>2
<1>2. QED BY <1>1

(* The sums, weight by weight. *)
LEMMA Sums ==
    ASSUME NEW n \in Nat, NEW f, NEW d, NEW k \in 1..4,
           f[0] = 0, \A i \in 1..k : f[i] = f[i - 1] + d[i] * Weight[i],
           \A i \in 1..k : d[i] = Lefts(n)[i] % Radix
    PROVE  f[k] = Sum(n, k)
<1> DEFINE r(i) == Lefts(n)[i] % Radix
           a == r(1)
           b == a + r(2) * Radix
           c == b + r(3) * (Radix * Radix)
           e == c + r(4) * (Radix * Radix * Radix)
<1>1. Sum(n, 1) = a /\ Sum(n, 2) = b /\ Sum(n, 3) = c /\ Sum(n, 4) = e
  BY DEF Sum
<1>2. r(1) \in Nat
  <2>1. 1 \in 1..4 /\ Radix \in Nat
    BY RadixIs
  <2>2. r(1) \in 0..(Radix - 1)
    BY <2>1, LeftsAre
  <2>3. QED BY <2>1, <2>2
<1> HIDE DEF r
<1>3. /\ f[1] = 0 + d[1] * 1
      /\ k >= 2 => f[2] = f[1] + d[2] * Radix
      /\ k >= 3 => f[3] = f[2] + d[3] * (Radix * Radix)
      /\ k >= 4 => f[4] = f[3] + d[4] * (Radix * Radix * Radix)
  <2>1. 1 \in 1..k /\ (k >= 2 => 2 \in 1..k) /\ (k >= 3 => 3 \in 1..k) /\ (k >= 4 => 4 \in 1..k)
    OBVIOUS
  <2>2. 1 - 1 = 0 /\ 2 - 1 = 1 /\ 3 - 1 = 2 /\ 4 - 1 = 3
    OBVIOUS
  <2>3. f[1] = 0 + d[1] * Weight[1]
    BY <2>1, <2>2
  <2>4. k >= 2 => f[2] = f[1] + d[2] * Weight[2]
    BY <2>1, <2>2
  <2>5. k >= 3 => f[3] = f[2] + d[3] * Weight[3]
    BY <2>1, <2>2
  <2>6. k >= 4 => f[4] = f[3] + d[4] * Weight[4]
    BY <2>1, <2>2
  <2>7. QED BY <2>3, <2>4, <2>5, <2>6, WeightIs
<1>4. \A i \in 1..k : d[i] = r(i)
  BY DEF r
<1>5. d[1] = r(1) /\ f[1] = a
  <2>1. d[1] = r(1)
    BY <1>4
  <2>2. QED BY <1>2, <1>3, <2>1
<1>6. k >= 2 => f[2] = b
  <2> SUFFICES ASSUME k >= 2 PROVE f[2] = b
    OBVIOUS
  <2>1. d[2] = r(2)
    BY <1>4
  <2>2. QED BY <1>3, <1>5, <2>1
<1>7. k >= 3 => f[3] = c
  <2> SUFFICES ASSUME k >= 3 PROVE f[3] = c
    OBVIOUS
  <2>1. d[3] = r(3) /\ f[2] = b
    BY <1>4, <1>6
  <2>2. QED BY <1>3, <2>1
<1>8. k >= 4 => f[4] = e
  <2> SUFFICES ASSUME k >= 4 PROVE f[4] = e
    OBVIOUS
  <2>1. d[4] = r(4) /\ f[3] = c
    BY <1>4, <1>7
  <2>2. QED BY <1>3, <2>1
<1> HIDE DEF a, b, c, e
<1>9. k = 1 \/ k = 2 \/ k = 3 \/ k = 4
  OBVIOUS
<1>10. QED BY <1>1, <1>5, <1>6, <1>7, <1>8, <1>9

(* A length is read from its digits, whatever comes after them.            *)
LEMMA LengthDecoded ==
    ASSUME NEW n \in Nat, n < Weight[5], NEW s, Digits(s, 0, n), NEW m \in Nat, m >= Size(n)
    PROVE  DecodeHeaderLength(s, m) = [ok |-> TRUE, size |-> Size(n), len |-> n]
<1> DEFINE Last(k) == ~More(s[k]) \/ k > m \/ k = 4
           P == [i \in 1..4 |-> Last(i)]
           d == [i \in 1..4 |-> Digit(s[i])]
           Body(f) == [i \in 0..4 |-> IF i = 0 THEN 0 ELSE f[i - 1] + Digit(s[i]) * Weight[i]]
           V == CHOOSE f : f = Body(f)
           k == Size(n)
           c == CHOOSE i \in 1..4 : Last(i) /\ \A j \in 1..(i - 1) : ~Last(j)
<1>1. k \in 1..4 /\ Lefts(n)[k] < Radix
  BY SizeIs
<1>2. \A i \in 1..k : Digit(s[i]) = Lefts(n)[i] % Radix /\ (More(s[i]) <=> i < k)
  <2>1. \A i \in 1..k : 0 + i = i
    BY <1>1
  <2>2. QED BY <2>1, DigitIs
<1> HIDE DEF k
<1>3. c = k
  <2>1. Last(k)
    BY <1>1, <1>2
  <2>2. \A j \in 1..(k - 1) : ~Last(j)
    <3>1. ASSUME NEW j \in 1..(k - 1) PROVE j \in 1..k /\ j < k /\ ~(j > m) /\ j # 4
      BY <1>1 DEF k
    <3>2. QED BY <1>2, <3>1
  <2> HIDE DEF Last
  <2>3. P[k] /\ \A j \in 1..(k - 1) : ~P[j]
    <3>1. \A j \in 1..(k - 1) : j \in 1..4
      BY <1>1
    <3>2. QED BY <1>1, <2>1, <2>2, <3>1
  <2>4. k = CHOOSE i \in 1..4 : P[i] /\ \A j \in 1..(i - 1) : ~P[j]
    <3> HIDE DEF P
    <3>1. QED BY <1>1, <2>3, FirstIs
  <2>5. \A i \in 1..4 : \A j \in 1..(i - 1) : j \in 1..4
    OBVIOUS
  <2>6. \A i \in 1..4 : (Last(i) /\ \A j \in 1..(i - 1) : ~Last(j)) <=> (P[i] /\ \A j \in 1..(i - 1) : ~P[j])
    BY <2>5
  <2> HIDE DEF P
  <2>7. QED BY <2>4, <2>6
<1>4. V = Body(V)
  <2>1. \A i \in 1..4 : d[i] = Digit(s[i])
    OBVIOUS
  <2> HIDE DEF d
  <2>2. \E f : f = ValueOf(d, Weight, f)
    BY ValueExists
  <2>3. \A f : ValueOf(d, Weight, f) = Body(f)
    BY <2>1 DEF ValueOf
  <2>4. \E f : f = Body(f)
    BY <2>2, <2>3
  <2> HIDE DEF Body
  <2>5. QED BY <2>4
<1>5. V[k] = n
  <2> HIDE DEF V
  <2>1. V[0] = 0 /\ \A i \in 1..4 : V[i] = V[i - 1] + d[i] * Weight[i]
    BY <1>4
  <2>2. \A i \in 1..k : d[i] = Lefts(n)[i] % Radix
    BY <1>1, <1>2
  <2> HIDE DEF d
  <2>3. V[k] = Sum(n, k)
    <3>1. \A i \in 1..k : V[i] = V[i - 1] + d[i] * Weight[i]
      BY <1>1, <2>1
    <3>2. QED BY <1>1, <2>1, <2>2, <3>1, Sums
  <2>4. QED BY <1>1, <2>3, SumIs
<1>6. ~More(s[k])
  BY <1>1, <1>2
<1>7. DecodeHeaderLength(s, m) = IF More(s[c]) THEN [ok |-> FALSE, size |-> 0, len |-> 0]
                                 ELSE [ok |-> TRUE, size |-> c, len |-> V[c]]
  BY ZenonT(30) DEF DecodeHeaderLength
<1> HIDE DEF V, c
<1>8. QED BY <1>3, <1>5, <1>6, <1>7 DEF k

-----------------------------------------------------------------------------
(* The bytes of a message. *)

(* A message by the standard: its first byte, its length, what it says. *)
IsMessage(w, first, body) ==
    LET n == Len(body)
        k == Size(n)
    IN  /\ w \in Seq(Int) /\ Len(w) = 1 + k + n /\ w[1] = first /\ Digits(w, 1, n)
        /\ \A i \in 1..n : w[1 + k + i] = body[i]

(* Wire makes such a message. *)
LEMMA WireIs ==
    ASSUME NEW first \in Int, NEW body \in Seq(Int), Len(body) < Weight[5]
    PROVE  IsMessage(Wire(first, body), first, body)
<1> DEFINE n == Len(body)
           k == Size(n)
           Elem(i) == (Lefts(n)[i] % Radix) + (IF i < k THEN Radix ELSE 0)
           d == [i \in 1..k |-> Elem(i)]
           f == <<first>>
           w == (f \o d) \o body
<1>1. n \in Nat /\ k \in 1..4
  BY SizeIs
<1>2. Wire(first, body) = w
  BY DEF Wire, Size, Lefts
<1>3. d \in Seq(Int) /\ Len(d) = k /\ \A i \in 1..k : d[i] = Elem(i)
  <2>1. \A i \in 1..k : Elem(i) \in Int
    <3> SUFFICES ASSUME NEW i \in 1..k PROVE Elem(i) \in Int
      OBVIOUS
    <3>1. i \in 1..4 /\ Radix \in Int
      BY <1>1, RadixIs
    <3>2. Lefts(n)[i] % Radix \in 0..(Radix - 1)
      BY <1>1, <3>1, LeftsAre
    <3>3. Lefts(n)[i] % Radix \in Int
      BY <3>1, <3>2
    <3> HIDE DEF n, k
    <3>4. QED BY <3>1, <3>3
  <2> HIDE DEF Elem, k
  <2>2. QED BY <1>1, <2>1
<1>4. f \in Seq(Int) /\ Len(f) = 1 /\ f[1] = first
  BY OneElement
<1> HIDE DEF d, f, Elem
<1>5. /\ f \o d \in Seq(Int) /\ Len(f \o d) = 1 + k
      /\ (f \o d)[1] = first /\ \A i \in 1..k : (f \o d)[1 + i] = d[i]
  <2>1. /\ f \o d \in Seq(Int) /\ Len(f \o d) = Len(f) + Len(d)
        /\ \A i \in 1..Len(f) : (f \o d)[i] = f[i]
        /\ \A i \in 1..Len(d) : (f \o d)[Len(f) + i] = d[i]
    BY <1>3, <1>4, Joined
  <2> HIDE DEF k
  <2>2. QED BY <1>3, <1>4, <2>1
<1>6. /\ w \in Seq(Int) /\ Len(w) = Len(f \o d) + n
      /\ \A i \in 1..Len(f \o d) : w[i] = (f \o d)[i]
      /\ \A i \in 1..n : w[Len(f \o d) + i] = body[i]
  BY <1>5, Joined
<1> HIDE DEF n, k, w
<1>7. Len(w) = 1 + k + n /\ w[1] = first /\ \A i \in 1..n : w[1 + k + i] = body[i]
  <2>1. Len(w) = 1 + k + n /\ 1 \in 1..(1 + k)
    BY <1>1, <1>5, <1>6
  <2>2. w[1] = first
    BY <1>5, <1>6, <2>1
  <2>3. \A i \in 1..n : w[1 + k + i] = body[i]
    BY <1>5, <1>6
  <2>4. QED BY <2>1, <2>2, <2>3
<1>8. \A i \in 1..k : w[1 + i] = Elem(i)
  <2> SUFFICES ASSUME NEW i \in 1..k PROVE w[1 + i] = Elem(i)
    OBVIOUS
  <2>1. 1 + i \in 1..(1 + k)
    BY <1>1
  <2>2. QED BY <1>3, <1>5, <1>6, <2>1
<1>9. Digits(w, 1, n)
  BY <1>8 DEF Digits, Elem, k
<1>10. QED BY <1>2, <1>6, <1>7, <1>9 DEF IsMessage, n, k

(* Four digits reach the lengths of the short messages. *)
LEMMA WeightBig == Weight[5] \in Nat /\ Weight[5] >= 4 /\ \A l \in 0..3 : l < Weight[5]
<1> DEFINE r2 == Radix * Radix
           r3 == r2 * Radix
           r4 == r3 * Radix
<1>1. Radix \in Nat /\ Radix >= 4
  BY RadixIs
<1>2. Weight[5] = r4
  BY WeightIs
<1>3. r2 \in Nat /\ r2 >= 4
  <2>1. Radix * Radix >= 4 * 1
    BY <1>1
  <2>2. QED BY <1>1, <2>1
<1> HIDE DEF r2
<1>4. r3 \in Nat /\ r3 >= 4
  <2>1. r2 * Radix + 0 >= r2 * 1
    BY <1>1, <1>3, Products
  <2>2. QED BY <1>1, <1>3, <2>1
<1> HIDE DEF r3
<1>5. r4 \in Nat /\ r4 >= 4
  <2>1. r3 * Radix + 0 >= r3 * 1
    BY <1>1, <1>4, Products
  <2>2. QED BY <1>1, <1>4, <2>1
<1> HIDE DEF r4
<1>6. QED BY <1>2, <1>5

(* The numbers of digits that matter: one for what a byte can say twice. *)
LEMMA ShortSize == \A n \in 0..3 : Size(n) = 1
<1> SUFFICES ASSUME NEW n \in 0..3 PROVE Size(n) = 1
  OBVIOUS
<1>1. n \in Nat /\ n < Radix
  BY RadixIs
<1>2. n < Weight[5]
  BY <1>1, WeightBig
<1>3. Size(n) \in 1..4 /\ \A j \in 1..(Size(n) - 1) : Lefts(n)[j] >= Radix
  BY <1>1, <1>2, SizeIs
<1>4. Lefts(n)[1] = n
  BY DEF Lefts
<1>5. CASE Size(n) # 1
  <2>1. 1 \in 1..(Size(n) - 1)
    BY <1>3, <1>5
  <2>2. QED BY <1>1, <1>3, <1>4, <2>1, RadixIs
<1>6. QED BY <1>5

-----------------------------------------------------------------------------
(* What the client reads of the short messages. *)

(* The messages of fixed length, byte by byte. *)
IsShort(w, first, body) ==
    /\ w \in Seq(Int) /\ Len(w) = 2 + Len(body) /\ w[1] = first
    /\ \A i \in 1..Len(body) : w[2 + i] = body[i]

(* A message of at most three bytes has one digit of length. *)
LEMMA ShortIs ==
    ASSUME NEW first \in Int, NEW body \in Seq(Int), Len(body) \in 0..3
    PROVE  IsShort(Wire(first, body), first, body)
<1> DEFINE w == Wire(first, body)
           n == Len(body)
<1>1. n \in 0..3
  OBVIOUS
<1> HIDE DEF n
<1>2. Size(n) = 1
  BY <1>1, ShortSize
<1>3. n < Weight[5]
  BY <1>1, WeightBig
<1>4. IsMessage(w, first, body)
  BY <1>3, WireIs DEF n
<1> HIDE DEF w
<1>5. w \in Seq(Int) /\ Len(w) = 1 + 1 + n /\ w[1] = first /\ \A i \in 1..n : w[1 + 1 + i] = body[i]
  BY <1>2, <1>4 DEF IsMessage, n
<1>6. Len(w) = 2 + n /\ \A i \in 1..n : w[2 + i] = body[i]
  BY <1>1, <1>5
<1>7. QED BY <1>5, <1>6 DEF w, n, IsShort

(* A number of two bytes, and the two bytes of a number. *)
LEMMA WordIs == ASSUME NEW n \in Words PROVE n \in Nat
BY SMTT(60) DEF Words

LEMMA TwoIs ==
    ASSUME NEW n \in Nat
    PROVE  Two(n) \in Seq(Int) /\ Len(Two(n)) = 2 /\ 256 * Two(n)[1] + Two(n)[2] = n
<1>1. n \div 256 \in Nat /\ n % 256 \in 0..255 /\ n = 256 * (n \div 256) + (n % 256)
  BY DivMod
<1>2. n \div 256 \in Int /\ n % 256 \in Int
  BY <1>1
<1>3. QED BY <1>1, <1>2 DEF Two

(* An acknowledgement is four bytes. *)
LEMMA AckIs ==
    ASSUME NEW first \in Int, NEW c \in Seq(Int), Len(c) = 2
    PROVE  LET w == Wire(first, c)
           IN  w \in Seq(Int) /\ Len(w) = 4 /\ w[1] = first /\ w[3] = c[1] /\ w[4] = c[2]
<1> DEFINE w == Wire(first, c)
<1>1. IsShort(w, first, c)
  BY ShortIs
<1> HIDE DEF w
<1>2. w \in Seq(Int) /\ Len(w) = 2 + 2 /\ w[1] = first /\ \A i \in 1..2 : w[2 + i] = c[i]
  BY <1>1 DEF IsShort
<1>3. w[2 + 1] = c[1] /\ w[2 + 2] = c[2]
  BY <1>2
<1>4. QED BY <1>2, <1>3 DEF w

(* A SUBACK of one topic is five bytes. *)
LEMMA SubackIs ==
    ASSUME NEW first \in Int, NEW c \in Seq(Int), Len(c) = 2, NEW q \in Seq(Int), Len(q) = 1
    PROVE  LET w == Wire(first, c \o q)
           IN  w \in Seq(Int) /\ Len(w) = 5 /\ w[1] = first /\ w[3] = c[1] /\ w[4] = c[2] /\ w[5] = q[1]
<1> DEFINE b == c \o q
           w == Wire(first, b)
<1>1. b \in Seq(Int) /\ Len(b) = 3 /\ b[1] = c[1] /\ b[2] = c[2] /\ b[3] = q[1]
  <2>1. /\ b \in Seq(Int) /\ Len(b) = Len(c) + Len(q) /\ \A i \in 1..Len(c) : b[i] = c[i]
        /\ \A i \in 1..Len(q) : b[Len(c) + i] = q[i]
    BY Joined
  <2> HIDE DEF b
  <2>2. b \in Seq(Int) /\ Len(b) = 2 + 1 /\ (\A i \in 1..2 : b[i] = c[i]) /\ \A i \in 1..1 : b[2 + i] = q[i]
    BY <2>1
  <2>3. b[2 + 1] = q[1] /\ b[1] = c[1] /\ b[2] = c[2]
    BY <2>2
  <2>4. QED BY <2>2, <2>3
<1> HIDE DEF b
<1>2. IsShort(w, first, b)
  BY <1>1, ShortIs
<1> HIDE DEF w
<1>3. w \in Seq(Int) /\ Len(w) = 2 + 3 /\ w[1] = first /\ \A i \in 1..3 : w[2 + i] = b[i]
  BY <1>1, <1>2 DEF IsShort
<1>4. w[2 + 1] = b[1] /\ w[2 + 2] = b[2] /\ w[2 + 3] = b[3]
  BY <1>3
<1>5. QED BY <1>1, <1>3, <1>4 DEF w, b

(* What the client reads of each. *)
LEMMA ConnackRead ==
    ASSUME NEW id \in Int
    PROVE  ProcessConnack(Wire(32, <<0, id>>)) = IF id = 0 THEN "ok" ELSE "refused"
<1> DEFINE c == <<0, id>>
           w == Wire(32, c)
<1>1. c \in Seq(Int) /\ Len(c) = 2 /\ c[2] = id /\ 32 \in Int
  OBVIOUS
<1> HIDE DEF c
<1>2. Len(w) = 4 /\ w[1] = 32 /\ w[4] = id
  BY <1>1, AckIs
<1>3. 32 \div 16 = 2
  OBVIOUS
<1> HIDE DEF w
<1>4. ProcessConnack(w) = IF id = 0 THEN "ok" ELSE "refused"
  BY <1>2, <1>3 DEF ProcessConnack
<1>5. QED BY <1>4 DEF w, c

(* The PUBACK and the UNSUBACK. *)
LEMMA AckRead ==
    ASSUME NEW id \in Nat
    PROVE  /\ Understood(Wire(64, Two(id))) = Meaning("puback", id, <<>>, <<>>)
           /\ Understood(Wire(176, Two(id))) = Meaning("unsuback", id, <<>>, <<>>)
<1>1. 64 \div 16 = 4 /\ 176 \div 16 = 11
  OBVIOUS
<1>2. ASSUME NEW w, NEW t \in {4, 11}, Len(w) = 4, w[1] \div 16 = t, 256 * w[3] + w[4] = id
      PROVE  CmdGet(w) = t /\ Ack(w, t, 4) = [ret |-> "ok", id |-> id]
  <2>1. ReadU16(w, 3) = id
    <3>1. w[3 + 1] = w[4]
      OBVIOUS
    <3>2. QED BY <1>2, <3>1 DEF ReadU16
  <2>2. CmdGet(w) = t
    BY <1>2 DEF CmdGet
  <2>3. QED BY <1>2, <2>1, <2>2 DEF Ack
<1>3. ASSUME NEW first \in Int
      PROVE  LET w == Wire(first, Two(id)) IN Len(w) = 4 /\ w[1] = first /\ 256 * w[3] + w[4] = id
  <2> DEFINE c == Two(id)
  <2>1. c \in Seq(Int) /\ Len(c) = 2 /\ 256 * c[1] + c[2] = id
    BY TwoIs
  <2> HIDE DEF c
  <2> DEFINE w == Wire(first, c)
  <2>2. Len(w) = 4 /\ w[1] = first /\ w[3] = c[1] /\ w[4] = c[2]
    BY <2>1, AckIs
  <2> HIDE DEF w
  <2>3. 256 * w[3] + w[4] = id
    BY <2>1, <2>2
  <2>4. QED BY <2>2, <2>3 DEF w, c
<1>4. Understood(Wire(64, Two(id))) = Meaning("puback", id, <<>>, <<>>)
  <2> DEFINE w == Wire(64, Two(id))
  <2>1. Len(w) = 4 /\ w[1] = 64 /\ 256 * w[3] + w[4] = id
    <3>1. 64 \in Int
      OBVIOUS
    <3>2. QED BY <1>3, <3>1
  <2> HIDE DEF w
  <2>2. CmdGet(w) = 4 /\ ProcessPuback(w) = [ret |-> "ok", id |-> id]
    BY <1>1, <1>2, <2>1 DEF ProcessPuback
  <2>3. Understood(w) = Meaning("puback", id, <<>>, <<>>)
    BY <2>2 DEF Understood
  <2>4. QED BY <2>3 DEF w
<1>5. Understood(Wire(176, Two(id))) = Meaning("unsuback", id, <<>>, <<>>)
  <2> DEFINE w == Wire(176, Two(id))
  <2>1. Len(w) = 4 /\ w[1] = 176 /\ 256 * w[3] + w[4] = id
    <3>1. 176 \in Int
      OBVIOUS
    <3>2. QED BY <1>3, <3>1
  <2> HIDE DEF w
  <2>2. CmdGet(w) = 11 /\ ProcessUnsuback(w) = [ret |-> "ok", id |-> id]
    BY <1>1, <1>2, <2>1 DEF ProcessUnsuback
  <2>3. Understood(w) = Meaning("unsuback", id, <<>>, <<>>)
    BY <2>2 DEF Understood
  <2>4. QED BY <2>3 DEF w
<1>6. QED BY <1>4, <1>5

(* The SUBACK, whose return code is below 128. *)
LEMMA SubackRead ==
    ASSUME NEW id \in Nat, NEW q \in Seq(Int), Len(q) = 1, q[1] \in Int, q[1] < 128
    PROVE  Understood(Wire(144, Two(id) \o q)) = Meaning("suback", id, <<>>, q)
<1> DEFINE c == Two(id)
           w == Wire(144, c \o q)
<1>1. c \in Seq(Int) /\ Len(c) = 2 /\ 256 * c[1] + c[2] = id
  BY TwoIs
<1> HIDE DEF c
<1>2. Len(w) = 5 /\ w[1] = 144 /\ w[3] = c[1] /\ w[4] = c[2] /\ w[5] = q[1]
  BY <1>1, SubackIs
<1> HIDE DEF w
<1>3. 144 \div 16 = 9 /\ q = <<q[1]>>
  OBVIOUS
<1>4. ReadU16(w, 3) = id
  <2>1. w[3 + 1] = c[2] /\ w[3] = c[1]
    BY <1>2
  <2>2. QED BY <1>1, <2>1 DEF ReadU16
<1>5. CmdGet(w) = 9
  BY <1>2, <1>3 DEF CmdGet
<1>6. ProcessSuback(w) = [ret |-> "ok", id |-> id]
  <2>1. ~(w[5] >= 128)
    BY <1>2, <1>3
  <2>2. QED BY <1>2, <1>3, <1>4, <2>1 DEF ProcessSuback, Ack
<1>7. Understood(w) = Meaning("suback", id, <<>>, <<w[5]>>)
  BY <1>5, <1>6 DEF Understood
<1>8. QED BY <1>2, <1>3, <1>7 DEF w, c

(* The ping response. *)
LEMMA PingrespRead == Understood(Wire(208, <<>>)) = Meaning("pingresp", 0, <<>>, <<>>)
<1> DEFINE w == Wire(208, <<>>)
<1>1. <<>> \in Seq(Int) /\ Len(<<>>) \in 0..3 /\ 208 \in Int
  OBVIOUS
<1>2. w[1] = 208
  <2>1. IsShort(w, 208, <<>>)
    BY <1>1, ShortIs
  <2> HIDE DEF w
  <2>2. QED BY <2>1 DEF IsShort
<1>3. 208 \div 16 = 13
  OBVIOUS
<1> HIDE DEF w
<1>4. CmdGet(w) = 13
  BY <1>2, <1>3 DEF CmdGet
<1>5. Understood(w) = Meaning("pingresp", 0, <<>>, <<>>)
  BY <1>4 DEF Understood
<1>6. QED BY <1>5 DEF w

-----------------------------------------------------------------------------
(* What the client reads of a PUBLISH. *)

(* Bytes are numbers. *)
LEMMA Bytes == \A s \in Seq(0..255) : s \in Seq(Int) /\ Len(s) \in Nat /\ \A i \in 1..Len(s) : s[i] \in Int
<1> SUFFICES ASSUME NEW s \in Seq(0..255)
             PROVE  s \in Seq(Int) /\ Len(s) \in Nat /\ \A i \in 1..Len(s) : s[i] \in Int
  OBVIOUS
<1>1. Len(s) \in Nat /\ \A i \in 1..Len(s) : s[i] \in 0..255
  BY LenProperties, ElementOfSeq
<1>2. \A i \in 1..Len(s) : s[i] \in Int
  <2>1. \A b \in 0..255 : b \in Int
    OBVIOUS
  <2>2. QED BY <1>1, <2>1
<1>3. s = [i \in 1..Len(s) |-> s[i]]
  OBVIOUS
<1>4. [i \in 1..Len(s) |-> s[i]] \in Seq(Int)
  BY <1>1, <1>2
<1>5. QED BY <1>1, <1>2, <1>3, <1>4

(* What mqtt_msg_process_publish makes of a message with a topic t. *)
Topical(w, k, n, t) ==
    /\ w \in Seq(Int) /\ k = Size(n) /\ n \in Nat /\ n < Weight[5] /\ Len(w) = 1 + k + n /\ Digits(w, 1, n)
    /\ t \in Seq(Int) /\ 2 + Len(t) <= n
    /\ 256 * w[2 + k] + w[3 + k] = Len(t) /\ \A i \in 1..Len(t) : w[3 + k + i] = t[i]

(* The topic is read where it is. *)
LEMMA TopicDecoded ==
    ASSUME NEW w, NEW k, NEW n, NEW t, Topical(w, k, n, t)
    PROVE  DecodeString(w, 2 + k) = [str |-> t, next |-> 4 + k + Len(t)]
<1> DEFINE l == Len(t)
<1>1. /\ k \in 1..4 /\ n \in Nat /\ l \in Nat /\ w \in Seq(Int) /\ t \in Seq(Int) /\ Len(w) = 1 + k + n
      /\ 2 + l <= n /\ 256 * w[2 + k] + w[3 + k] = l /\ \A i \in 1..l : w[3 + k + i] = t[i]
  BY SizeIs DEF Topical
<1> HIDE DEF l
<1>2. ReadU16(w, 2 + k) = l
  <2>1. (2 + k) + 1 = 3 + k
    BY <1>1
  <2>2. QED BY <1>1, <2>1 DEF ReadU16
<1>3. SubSeq(w, (2 + k) + 2, (2 + k) + 1 + l) = t
  <2>1. 4 + k \in Nat \ {0} /\ (4 + k) + l - 1 <= Len(w) /\ \A i \in 1..l : w[(4 + k) + i - 1] = t[i]
    <3>1. 4 + k \in Nat \ {0} /\ (4 + k) + l - 1 <= Len(w)
      BY <1>1
    <3>2. ASSUME NEW i \in 1..l PROVE w[(4 + k) + i - 1] = t[i]
      <4>1. (4 + k) + i - 1 = 3 + k + i
        BY <1>1
      <4>2. QED BY <1>1, <4>1
    <3>3. QED BY <3>1, <3>2
  <2>2. SubSeq(w, 4 + k, (4 + k) + l - 1) = t
    BY <1>1, <2>1, PartIs DEF l
  <2>3. (2 + k) + 2 = 4 + k /\ (2 + k) + 1 + l = (4 + k) + l - 1
    BY <1>1
  <2>4. QED BY <2>2, <2>3
<1>4. (2 + k) + 2 + l = 4 + k + l
  BY <1>1
<1>5. DecodeString(w, 2 + k) = [str |-> t, next |-> 4 + k + l]
  BY <1>2, <1>3, <1>4 DEF DecodeString
<1>6. QED BY <1>5 DEF l

(* The length is read behind the first byte. *)
LEMMA HeaderDecoded ==
    ASSUME NEW w \in Seq(Int), NEW n \in Nat, n < Weight[5], Len(w) = 1 + Size(n) + n, Digits(w, 1, n)
    PROVE  DecodeHeaderLength(Tail(w), Len(w) - 1) = [ok |-> TRUE, size |-> Size(n), len |-> n]
<1> DEFINE k == Size(n)
           m == Len(w) - 1
<1>1. k \in 1..4
  BY SizeIs
<1>2. m \in Nat /\ m >= k /\ w # <<>>
  BY <1>1
<1>3. \A i \in 1..m : Tail(w)[i] = w[i + 1]
  BY <1>2, HeadTailProperties
<1>4. Digits(Tail(w), 0, n)
  <2> SUFFICES ASSUME NEW i \in 1..k PROVE Tail(w)[0 + i] = w[1 + i]
    BY DEF Digits
  <2> HIDE DEF k, m
  <2>1. i \in 1..m /\ 0 + i = i /\ 1 + i = i + 1
    BY <1>1, <1>2
  <2>2. QED BY <1>3, <2>1
<1> HIDE DEF m
<1>5. DecodeHeaderLength(Tail(w), m) = [ok |-> TRUE, size |-> Size(n), len |-> n]
  BY <1>2, <1>4, LengthDecoded
<1>6. QED BY <1>5 DEF m

(* Then the identifier, when there is one, and the payload. *)
LEMMA PublishDecoded ==
    ASSUME NEW w, NEW k, NEW n, NEW t, Topical(w, k, n, t)
    PROVE  LET a == 4 + k + Len(t)
           IN  /\ w[1] = 48 => ProcessPublish(w) =
                      [ret |-> "ok", qos |-> 0, id |-> 0, topic |-> t, payload |-> SubSeq(w, a, 1 + k + n)]
               /\ w[1] = 50 => ProcessPublish(w) =
                      [ret |-> "ok", qos |-> 1, id |-> ReadU16(w, a), topic |-> t,
                       payload |-> SubSeq(w, a + 2, 1 + k + n)]
<1> DEFINE a == 4 + k + Len(t)
           h == DecodeHeaderLength(Tail(w), Len(w) - 1)
           s == DecodeString(w, 2 + k)
<1>1. k \in 1..4 /\ n \in Nat /\ Len(t) \in Nat /\ w \in Seq(Int) /\ Len(w) = 1 + k + n /\ 2 + Len(t) <= n
  BY SizeIs DEF Topical
<1>2. ~(Len(w) <= 2)
  BY <1>1
<1>3. h = [ok |-> TRUE, size |-> k, len |-> n]
  BY HeaderDecoded DEF Topical
<1>4. s = [str |-> t, next |-> a]
  BY TopicDecoded
<1>5. 48 \div 16 = 3 /\ 50 \div 16 = 3 /\ (50 \div 2) % 2 = 1 /\ (48 \div 2) % 2 = 0 /\ (48 \div 4) % 2 = 0
  OBVIOUS
<1> DEFINE d2 == (w[1] \div 2) % 2
           d4 == (w[1] \div 4) % 2
           d16 == w[1] \div 16
           qos == IF d2 = 1 THEN 1 ELSE IF d4 = 1 THEN 2 ELSE 0
           p == IF qos > 0 THEN s.next + 2 ELSE s.next
<1>6. ProcessPublish(w) =
         IF Len(w) <= 2 \/ d16 # 3 \/ ~h.ok THEN [ret |-> "bad"]
         ELSE [ret |-> "ok", qos |-> qos, id |-> IF qos > 0 THEN ReadU16(w, s.next) ELSE 0,
               topic |-> s.str, payload |-> SubSeq(w, p, 1 + k + n)]
  <2>1. h.size = k /\ h.len = n
    BY <1>3
  <2> HIDE DEF h
  <2>2. ProcessPublish(w) =
           IF Len(w) <= 2 \/ d16 # 3 \/ ~h.ok THEN [ret |-> "bad"]
           ELSE [ret |-> "ok", qos |-> qos, id |-> IF qos > 0 THEN ReadU16(w, DecodeString(w, 2 + h.size).next) ELSE 0,
                 topic |-> DecodeString(w, 2 + h.size).str,
                 payload |-> SubSeq(w, IF qos > 0 THEN DecodeString(w, 2 + h.size).next + 2
                                       ELSE DecodeString(w, 2 + h.size).next, 1 + h.size + h.len)]
    BY ZenonT(30) DEF ProcessPublish, h
  <2>3. QED BY <2>1, <2>2
<1>7. ASSUME w[1] = 48
      PROVE  ProcessPublish(w) =
                [ret |-> "ok", qos |-> 0, id |-> 0, topic |-> t, payload |-> SubSeq(w, a, 1 + k + n)]
  <2>1. d16 = 3 /\ d2 = 0 /\ d4 = 0
    BY <1>5, <1>7
  <2> HIDE DEF d2, d4, d16
  <2>2. qos = 0
    BY <2>1
  <2> HIDE DEF h, s, qos, a
  <2>3. QED BY <1>2, <1>3, <1>4, <1>6, <2>1, <2>2
<1>8. ASSUME w[1] = 50
      PROVE  ProcessPublish(w) =
                [ret |-> "ok", qos |-> 1, id |-> ReadU16(w, a), topic |-> t,
                 payload |-> SubSeq(w, a + 2, 1 + k + n)]
  <2>1. d16 = 3 /\ d2 = 1
    BY <1>5, <1>8
  <2> HIDE DEF d2, d4, d16
  <2>2. qos = 1
    BY <2>1
  <2> HIDE DEF h, s, qos, a
  <2>3. QED BY <1>2, <1>3, <1>4, <1>6, <2>1, <2>2
<1>9. QED BY <1>7, <1>8

(* A message that says its length. *)
IsPacket(w) ==
    /\ w \in Seq(Int)
    /\ \E n \in Nat : n < Weight[5] /\ Len(w) = 1 + Size(n) + n /\ Digits(w, 1, n)

(* A message by the standard says its length. *)
LEMMA MessageIsPacket ==
    ASSUME NEW first \in Int, NEW body \in Seq(Int), Len(body) < Weight[5]
    PROVE  IsPacket(Wire(first, body))
<1> DEFINE w == Wire(first, body)
           n == Len(body)
<1>1. IsMessage(w, first, body) /\ n \in Nat
  BY WireIs
<1>2. w \in Seq(Int) /\ Len(w) = 1 + Size(n) + n /\ Digits(w, 1, n) /\ n < Weight[5]
  BY <1>1 DEF IsMessage
<1> HIDE DEF w, n
<1>3. QED BY <1>1, <1>2 DEF IsPacket, w

(* A topic, and what comes after it. *)
LEMMA TextIs ==
    ASSUME NEW t \in Seq(Int), NEW x \in Seq(Int)
    PROVE  LET b == Text(t) \o x
           IN  /\ b \in Seq(Int) /\ Len(b) = 2 + Len(t) + Len(x) /\ 256 * b[1] + b[2] = Len(t)
               /\ \A i \in 1..Len(t) : b[2 + i] = t[i]
               /\ \A i \in 1..Len(x) : b[2 + Len(t) + i] = x[i]
<1> DEFINE c == Two(Len(t))
           u == c \o t
           b == u \o x
           l == Len(t)
           m == Len(x)
<1>1. c \in Seq(Int) /\ Len(c) = 2 /\ 256 * c[1] + c[2] = l /\ l \in Nat /\ m \in Nat
  <2>1. l \in Nat /\ m \in Nat
    OBVIOUS
  <2>2. c \in Seq(Int) /\ Len(c) = 2 /\ 256 * c[1] + c[2] = l
    BY <2>1, TwoIs
  <2>3. QED BY <2>1, <2>2
<1> HIDE DEF c
<1>2. /\ u \in Seq(Int) /\ Len(u) = Len(c) + Len(t)
      /\ \A i \in 1..Len(c) : u[i] = c[i]
      /\ \A i \in 1..Len(t) : u[Len(c) + i] = t[i]
  BY <1>1, Joined
<1> HIDE DEF u
<1>3. /\ u \in Seq(Int) /\ Len(u) = 2 + l /\ u[1] = c[1] /\ u[2] = c[2] /\ \A i \in 1..l : u[2 + i] = t[i]
  BY <1>1, <1>2
<1>4. /\ b \in Seq(Int) /\ Len(b) = Len(u) + Len(x)
      /\ \A i \in 1..Len(u) : b[i] = u[i]
      /\ \A i \in 1..Len(x) : b[Len(u) + i] = x[i]
  BY <1>3, Joined
<1> HIDE DEF b, l, m
<1>5. 256 * b[1] + b[2] = l
  <2>1. 1 \in 1..(2 + l) /\ 2 \in 1..(2 + l)
    BY <1>1
  <2>2. b[1] = c[1] /\ b[2] = c[2]
    BY <1>3, <1>4, <2>1
  <2>3. QED BY <1>1, <2>2
<1>6. ASSUME NEW i \in 1..l PROVE b[2 + i] = t[i]
  <2>1. 2 + i \in 1..(2 + l)
    BY <1>1
  <2>2. QED BY <1>3, <1>4, <2>1
<1>7. Text(t) \o x = b
  BY DEF Text, b, u, c
<1>8. b \in Seq(Int) /\ Len(b) = 2 + l + m /\ \A i \in 1..m : b[2 + l + i] = x[i]
  <2>1. \A i \in 1..m : b[2 + l + i] = x[i]
    BY <1>3, <1>4 DEF m
  <2>2. Len(b) = 2 + l + m
    BY <1>3, <1>4 DEF m
  <2>3. QED BY <1>4, <2>1, <2>2
<1>9. QED BY <1>5, <1>6, <1>7, <1>8 DEF l, m

(* A message with a topic. *)
LEMMA TopicalIs ==
    ASSUME NEW first \in Int, NEW t \in Seq(Int), NEW x \in Seq(Int), 2 + Len(t) + Len(x) < Weight[5]
    PROVE  LET w == Wire(first, Text(t) \o x)
               n == 2 + Len(t) + Len(x)
               k == Size(n)
           IN  /\ Topical(w, k, n, t) /\ w[1] = first
               /\ \A i \in 1..Len(x) : w[3 + k + Len(t) + i] = x[i]
<1> DEFINE b == Text(t) \o x
           w == Wire(first, b)
           l == Len(t)
           m == Len(x)
           n == 2 + l + m
           k == Size(n)
<1>1. /\ b \in Seq(Int) /\ Len(b) = n /\ 256 * b[1] + b[2] = l
      /\ \A i \in 1..l : b[2 + i] = t[i]
      /\ \A i \in 1..m : b[2 + l + i] = x[i]
  BY TextIs
<1> HIDE DEF b
<1>2. l \in Nat /\ m \in Nat
  OBVIOUS
<1>3. n \in Nat /\ n < Weight[5] /\ 2 + l <= n /\ n = 2 + l + m
  BY <1>2
<1>4. k \in 1..4
  BY <1>3, SizeIs
<1>5. IsMessage(w, first, b)
  BY <1>1, <1>3, WireIs
<1> HIDE DEF w
<1>6. w \in Seq(Int) /\ Len(w) = 1 + k + n /\ w[1] = first /\ Digits(w, 1, n) /\ \A i \in 1..n : w[1 + k + i] = b[i]
  BY <1>1, <1>5 DEF IsMessage
<1> HIDE DEF n, k, l, m
<1>7. 256 * w[2 + k] + w[3 + k] = l
  <2>1. 1 \in 1..n /\ 2 \in 1..n /\ 1 + k + 1 = 2 + k /\ 1 + k + 2 = 3 + k
    BY <1>2, <1>3, <1>4
  <2>2. w[1 + k + 1] = b[1] /\ w[1 + k + 2] = b[2]
    BY <1>6, <2>1
  <2>3. QED BY <1>1, <2>1, <2>2
<1>8. ASSUME NEW i \in 1..l PROVE w[3 + k + i] = t[i]
  <2>1. 2 + i \in 1..n /\ 1 + k + (2 + i) = 3 + k + i
    BY <1>2, <1>3, <1>4
  <2>2. w[1 + k + (2 + i)] = b[2 + i]
    BY <1>6, <2>1
  <2>3. QED BY <1>1, <2>1, <2>2
<1>9. ASSUME NEW i \in 1..m PROVE w[3 + k + l + i] = x[i]
  <2>1. 2 + l + i \in 1..n /\ 1 + k + (2 + l + i) = 3 + k + l + i
    BY <1>2, <1>3, <1>4
  <2>2. w[1 + k + (2 + l + i)] = b[2 + l + i]
    BY <1>6, <2>1
  <2>3. QED BY <1>1, <2>1, <2>2
<1>10. Topical(w, k, n, t)
  BY <1>3, <1>6, <1>7, <1>8 DEF Topical, k, l
<1>11. QED BY <1>6, <1>9, <1>10 DEF w, b, n, k, l, m

(* What the client reads of a PUBLISH. *)
LEMMA PublishRead ==
    ASSUME NEW t \in Seq(Int), NEW q \in Seq(Int), NEW id \in Nat, 4 + Len(t) + Len(q) < Weight[5]
    PROVE  /\ Understood(Wire(48, Text(t) \o q)) = Meaning("publish0", 0, t, q)
           /\ Understood(Wire(50, Text(t) \o (Two(id) \o q))) = Meaning("publish1", id, t, q)
<1> DEFINE l == Len(t)
           m == Len(q)
<1>1. l \in Nat /\ m \in Nat /\ Weight[5] \in Nat
  BY WeightBig
<1>2. Understood(Wire(48, Text(t) \o q)) = Meaning("publish0", 0, t, q)
  <2> DEFINE w == Wire(48, Text(t) \o q)
             n == 2 + l + m
             k == Size(n)
             a == 4 + k + l
  <2>1. 2 + l + m < Weight[5] /\ n \in Nat /\ n < Weight[5]
    BY <1>1
  <2>2. Topical(w, k, n, t) /\ w[1] = 48 /\ \A i \in 1..m : w[3 + k + l + i] = q[i]
    BY <2>1, TopicalIs
  <2>3. k \in 1..4
    BY <2>1, SizeIs
  <2>4. w \in Seq(Int) /\ Len(w) = 1 + k + n
    BY <2>2 DEF Topical
  <2> HIDE DEF w, k
  <2>5. ProcessPublish(w) =
          [ret |-> "ok", qos |-> 0, id |-> 0, topic |-> t, payload |-> SubSeq(w, a, 1 + k + n)]
    BY <2>2, PublishDecoded
  <2>6. SubSeq(w, a, 1 + k + n) = q
    <3> HIDE DEF l, m
    <3>1. a \in Nat \ {0} /\ a + m - 1 = 1 + k + n /\ a + m - 1 <= Len(w)
      BY <1>1, <2>3, <2>4
    <3>2. ASSUME NEW i \in 1..m PROVE w[a + i - 1] = q[i]
      <4>1. a + i - 1 = 3 + k + l + i
        BY <1>1, <2>3
      <4>2. QED BY <2>2, <4>1
    <3>3. SubSeq(w, a, a + m - 1) = q
      <4> HIDE DEF a, n
      <4>1. QED BY <2>4, <3>1, <3>2, PartIs DEF m
    <3>4. QED BY <3>1, <3>3
  <2>7. CmdGet(w) = 3
    <3>1. 48 \div 16 = 3
      OBVIOUS
    <3>2. QED BY <2>2, <3>1 DEF CmdGet
  <2> HIDE DEF n, a
  <2>8. Understood(w) = Meaning("publish0", 0, t, q)
    <3> DEFINE p == ProcessPublish(w)
    <3>1. p.ret = "ok" /\ p.qos = 0 /\ p.id = 0 /\ p.topic = t /\ p.payload = q
      BY <2>5, <2>6
    <3>2. Understood(w) = Meaning(IF p.qos = 0 THEN "publish0" ELSE "publish1", p.id, p.topic, p.payload)
      <4>1. CmdGet(w) = 3 /\ ProcessPublish(w).ret = "ok"
        BY <2>7, <3>1
      <4>2. QED BY <4>1 DEF Understood
    <3> HIDE DEF p
    <3>3. QED BY <3>1, <3>2
  <2>9. QED BY <2>8 DEF w
<1>3. Understood(Wire(50, Text(t) \o (Two(id) \o q))) = Meaning("publish1", id, t, q)
  <2> DEFINE c == Two(id)
             x == c \o q
             w == Wire(50, Text(t) \o x)
             n == 2 + l + Len(x)
             k == Size(n)
             a == 4 + k + l
  <2>1. c \in Seq(Int) /\ Len(c) = 2 /\ 256 * c[1] + c[2] = id
    BY TwoIs
  <2> HIDE DEF c
  <2>2. /\ x \in Seq(Int) /\ Len(x) = Len(c) + Len(q)
        /\ \A i \in 1..Len(c) : x[i] = c[i]
        /\ \A i \in 1..Len(q) : x[Len(c) + i] = q[i]
    BY <2>1, Joined
  <2> HIDE DEF x
  <2>3. x \in Seq(Int) /\ Len(x) = 2 + m /\ x[1] = c[1] /\ x[2] = c[2] /\ \A i \in 1..m : x[2 + i] = q[i]
    BY <2>1, <2>2
  <2>4. n = 4 + l + m /\ n \in Nat /\ n < Weight[5] /\ 2 + l + Len(x) < Weight[5]
    BY <1>1, <2>3
  <2>5. Topical(w, k, n, t) /\ w[1] = 50 /\ \A i \in 1..Len(x) : w[3 + k + l + i] = x[i]
    <3>1. x \in Seq(Int) /\ 2 + Len(t) + Len(x) < Weight[5] /\ 50 \in Int
      BY <2>3, <2>4
    <3>2. QED BY <3>1, TopicalIs
  <2>6. k \in 1..4
    BY <2>4, SizeIs
  <2>7. w \in Seq(Int) /\ Len(w) = 1 + k + n
    BY <2>5 DEF Topical
  <2> HIDE DEF w, k, n
  <2>8. ProcessPublish(w) =
          [ret |-> "ok", qos |-> 1, id |-> ReadU16(w, a), topic |-> t, payload |-> SubSeq(w, a + 2, 1 + k + n)]
    BY <2>5, PublishDecoded
  <2> HIDE DEF l, m
  <2>9. ASSUME NEW i \in 1..(2 + m) PROVE w[a + i - 1] = x[i]
    <3>1. a + i - 1 = 3 + k + l + i
      BY <1>1, <2>6
    <3>2. QED BY <2>3, <2>5, <3>1
  <2>10. ReadU16(w, a) = id
    <3>1. 1 \in 1..(2 + m) /\ 2 \in 1..(2 + m) /\ a + 1 - 1 = a /\ a + 2 - 1 = a + 1
      BY <1>1, <2>6
    <3> HIDE DEF a
    <3>2. w[a] = c[1] /\ w[a + 1] = c[2]
      BY <2>3, <2>9, <3>1
    <3>3. QED BY <2>1, <3>2 DEF ReadU16
  <2>11. SubSeq(w, a + 2, 1 + k + n) = q
    <3>1. a + 2 \in Nat \ {0} /\ (a + 2) + m - 1 = 1 + k + n /\ (a + 2) + m - 1 <= Len(w)
      BY <1>1, <2>4, <2>6, <2>7
    <3>2. ASSUME NEW i \in 1..m PROVE w[(a + 2) + i - 1] = q[i]
      <4>1. (a + 2) + i - 1 = a + (2 + i) - 1 /\ 2 + i \in 1..(2 + m)
        BY <1>1, <2>6
      <4> HIDE DEF a
      <4>2. w[a + (2 + i) - 1] = x[2 + i]
        BY <2>9, <4>1
      <4>3. QED BY <2>3, <4>1, <4>2
    <3>3. SubSeq(w, a + 2, (a + 2) + m - 1) = q
      <4> HIDE DEF a
      <4>1. QED BY <2>7, <3>1, <3>2, PartIs DEF m
    <3>4. QED BY <3>1, <3>3
  <2>12. CmdGet(w) = 3
    <3>1. 50 \div 16 = 3
      OBVIOUS
    <3>2. QED BY <2>5, <3>1 DEF CmdGet
  <2> HIDE DEF a
  <2>13. Understood(w) = Meaning("publish1", id, t, q)
    <3> DEFINE p == ProcessPublish(w)
    <3>1. p.ret = "ok" /\ p.qos = 1 /\ p.id = id /\ p.topic = t /\ p.payload = q
      BY <2>8, <2>10, <2>11
    <3>2. Understood(w) = Meaning(IF p.qos = 0 THEN "publish0" ELSE "publish1", p.id, p.topic, p.payload)
      <4>1. CmdGet(w) = 3 /\ ProcessPublish(w).ret = "ok"
        BY <2>12, <3>1
      <4>2. QED BY <4>1 DEF Understood
    <3> HIDE DEF p
    <3>3. QED BY <3>1, <3>2
  <2>14. QED BY <2>13 DEF w, x, c
<1>4. QED BY <1>2, <1>3

-----------------------------------------------------------------------------
(* What the client reads of what the server sends. *)

(* What the server sends. *)
Sent(p) == IsPacket(PushBytes(p))

(* The bytes of a push are a packet, and the client reads the push of them. *)
LEMMA PushRead ==
    ASSUME NEW p, HasPacket(p)
    PROVE  Sent(p) /\ Understood(PushBytes(p)) = p
<1> DEFINE t == p.topic
           q == p.payload
           id == p.id
<1>1. p = Meaning(p.kind, id, t, q)
  BY DEF HasPacket, Fits
<1>2. /\ id \in Nat /\ t \in Seq(Int) /\ q \in Seq(Int) /\ Len(t) \in Nat /\ Len(q) \in Nat
      /\ \A i \in 1..Len(q) : q[i] \in Int
  <2>1. t \in Seq(0..255) /\ q \in Seq(0..255) /\ id \in Words
    BY DEF HasPacket, Fits
  <2> HIDE DEF t, q, id
  <2>2. id \in Nat
    BY <2>1, WordIs
  <2>3. QED BY <2>1, <2>2, Bytes
<1>3. 4 + Len(t) + Len(q) < Weight[5]
  <2>1. Len(t) + Len(q) + 4 < Weight[5]
    BY DEF HasPacket, Fits
  <2> HIDE DEF t, q
  <2>2. QED BY <1>2, <2>1
<1>4. p.kind \notin {"publish0", "publish1"} => t = <<>>
  BY DEF HasPacket, Fits
<1>5. /\ \/ p.kind = "publish1"
         \/ p.kind = "publish0" /\ id = 0
         \/ p.kind = "suback" /\ Len(q) = 1 /\ q[1] < 128
         \/ p.kind \in {"puback", "unsuback"} /\ q = <<>>
         \/ p.kind = "pingresp" /\ id = 0 /\ q = <<>>
  BY DEF HasPacket, Fits
<1> HIDE DEF t, q, id
<1>6. ASSUME NEW b \in Seq(Int), Len(b) \in 0..3, NEW first \in Int PROVE IsPacket(Wire(first, b))
  <2>1. Len(b) < Weight[5]
    BY <1>6, WeightBig
  <2>2. QED BY <2>1, MessageIsPacket
<1>7. CASE p.kind = "publish0"
  <2>1. PushBytes(p) = Wire(48, Text(t) \o q)
    BY <1>7 DEF PushBytes, t, q
  <2>2. Understood(PushBytes(p)) = Meaning("publish0", 0, t, q)
    BY <1>2, <1>3, <2>1, PublishRead
  <2>3. Text(t) \o q \in Seq(Int) /\ Len(Text(t) \o q) = 2 + Len(t) + Len(q)
    BY <1>2, TextIs
  <2>4. 48 \in Int /\ Len(Text(t) \o q) < Weight[5]
    BY <1>2, <1>3, <2>3, WeightBig
  <2>5. IsPacket(PushBytes(p))
    BY <2>1, <2>3, <2>4, MessageIsPacket
  <2>6. QED BY <1>1, <1>5, <1>7, <2>2, <2>5 DEF Sent
<1>8. CASE p.kind = "publish1"
  <2> DEFINE c == Two(id)
  <2>1. PushBytes(p) = Wire(50, Text(t) \o c \o q)
    BY <1>8 DEF PushBytes, t, q, id
  <2>2. c \in Seq(Int) /\ Len(c) = 2
    BY <1>2, TwoIs
  <2>3. Text(t) \in Seq(Int)
    <3>1. Two(Len(t)) \in Seq(Int)
      BY <1>2, TwoIs
    <3>2. QED BY <1>2, <3>1, JoinedType DEF Text
  <2> HIDE DEF c
  <2>4. Text(t) \o c \o q = Text(t) \o (c \o q)
    BY <1>2, <2>2, <2>3, JoinedThree
  <2>5. Understood(PushBytes(p)) = Meaning("publish1", id, t, q)
    <3>1. Understood(Wire(50, Text(t) \o (c \o q))) = Meaning("publish1", id, t, q)
      <4>1. Understood(Wire(50, Text(t) \o (Two(id) \o q))) = Meaning("publish1", id, t, q)
        BY <1>2, <1>3, PublishRead
      <4>2. QED BY <4>1 DEF c
    <3>2. QED BY <2>1, <2>4, <3>1
  <2>6. c \o q \in Seq(Int) /\ Len(c \o q) = Len(c) + Len(q)
    BY <1>2, <2>2, Joined
  <2>7. /\ Text(t) \o (c \o q) \in Seq(Int)
        /\ Len(Text(t) \o (c \o q)) = 2 + Len(t) + Len(c \o q)
    <3> DEFINE x == c \o q
    <3>1. x \in Seq(Int)
      BY <2>6
    <3> HIDE DEF x
    <3>2. Text(t) \o x \in Seq(Int) /\ Len(Text(t) \o x) = 2 + Len(t) + Len(x)
      BY <1>2, <3>1, TextIs
    <3>3. QED BY <3>2 DEF x
  <2>8. 50 \in Int /\ Len(Text(t) \o (c \o q)) < Weight[5]
    BY <1>2, <1>3, <2>2, <2>6, <2>7, WeightBig
  <2>9. IsPacket(PushBytes(p))
    BY <2>1, <2>4, <2>7, <2>8, MessageIsPacket
  <2>10. QED BY <1>1, <1>8, <2>5, <2>9 DEF Sent
<1>9. CASE p.kind = "suback"
  <2> DEFINE c == Two(id)
  <2>1. PushBytes(p) = Wire(144, c \o q)
    BY <1>9 DEF PushBytes, q, id
  <2>2. Len(q) = 1 /\ q[1] \in Int /\ q[1] < 128
    <3>1. Len(q) = 1 /\ q[1] < 128 /\ 1 \in 1..1
      BY <1>5, <1>9
    <3>2. QED BY <1>2, <3>1
  <2>3. Understood(PushBytes(p)) = Meaning("suback", id, <<>>, q)
    BY <1>2, <2>1, <2>2, SubackRead
  <2>4. c \in Seq(Int) /\ Len(c) = 2
    BY <1>2, TwoIs
  <2> HIDE DEF c
  <2>5. c \o q \in Seq(Int) /\ Len(c \o q) = Len(c) + Len(q)
    BY <1>2, <2>4, Joined
  <2>6. Len(c \o q) \in 0..3 /\ 144 \in Int
    BY <2>2, <2>4, <2>5
  <2>7. IsPacket(PushBytes(p))
    BY <1>6, <2>1, <2>5, <2>6
  <2>8. QED BY <1>1, <1>4, <1>9, <2>3, <2>7 DEF Sent
<1>10. CASE p.kind \in {"puback", "unsuback"}
  <2> DEFINE c == Two(id)
  <2>1. c \in Seq(Int) /\ Len(c) \in 0..3
    <3>1. c \in Seq(Int) /\ Len(c) = 2
      BY <1>2, TwoIs
    <3> HIDE DEF c
    <3>2. QED BY <3>1
  <2>2. IsPacket(Wire(64, c)) /\ IsPacket(Wire(176, c))
    <3> HIDE DEF c
    <3>1. QED BY <1>6, <2>1
  <2>3. CASE p.kind = "puback"
    <3>1. PushBytes(p) = Wire(64, c)
      BY <2>3 DEF PushBytes, id
    <3>2. Understood(PushBytes(p)) = Meaning("puback", id, <<>>, <<>>)
      BY <1>2, <3>1, AckRead
    <3>3. QED BY <1>1, <1>4, <1>5, <2>2, <2>3, <3>1, <3>2 DEF Sent
  <2>4. CASE p.kind = "unsuback"
    <3>1. PushBytes(p) = Wire(176, c)
      BY <2>4 DEF PushBytes, id
    <3>2. Understood(PushBytes(p)) = Meaning("unsuback", id, <<>>, <<>>)
      BY <1>2, <3>1, AckRead
    <3>3. QED BY <1>1, <1>4, <1>5, <2>2, <2>4, <3>1, <3>2 DEF Sent
  <2>5. QED BY <1>10, <2>3, <2>4
<1>11. CASE p.kind = "pingresp"
  <2>1. PushBytes(p) = Wire(208, <<>>)
    BY <1>11 DEF PushBytes
  <2>2. <<>> \in Seq(Int) /\ Len(<<>>) \in 0..3 /\ 208 \in Int
    OBVIOUS
  <2>3. IsPacket(PushBytes(p))
    BY <1>6, <2>1, <2>2
  <2>4. QED BY <1>1, <1>4, <1>5, <1>11, <2>1, <2>3, PingrespRead DEF Sent
<1>12. QED BY <1>5, <1>7, <1>8, <1>9, <1>10, <1>11

(* The two answers to a CONNECT. *)
Connack(id) == Meaning("connack", id, <<>>, <<>>)

(* They are packets, and the client takes the first and refuses the        *)
(* other.                                                                  *)
LEMMA ConnackIs ==
    ASSUME NEW id \in {0, 5}
    PROVE  /\ Sent(Connack(id)) /\ Connack(id).id = id
           /\ ProcessConnack(PushBytes(Connack(id))) = "ok" <=> id = 0
<1> DEFINE p == Connack(id)
           c == <<0, id>>
<1>1. p.kind = "connack" /\ p.id = id
  BY DEF Connack, Meaning
<1>2. PushBytes(p) = Wire(32, c)
  BY <1>1 DEF PushBytes
<1>3. id \in Int /\ c \in Seq(Int) /\ Len(c) = 2
  OBVIOUS
<1>4. ProcessConnack(Wire(32, c)) = IF id = 0 THEN "ok" ELSE "refused"
  BY <1>3, ConnackRead
<1> HIDE DEF c, p
<1>5. Len(c) < Weight[5] /\ 32 \in Int
  BY <1>3, WeightBig
<1>6. IsPacket(Wire(32, c))
  BY <1>3, <1>5, MessageIsPacket
<1>7. QED BY <1>1, <1>2, <1>4, <1>6 DEF p, Sent

-----------------------------------------------------------------------------
(* Packets one after the other. *)

Packets == Pushes \cup {Connack(0), Connack(5)}

(* What a server sends are packets, and bytes. *)
LEMMA PacketsAre == \A p \in Packets : Sent(p) /\ PushBytes(p) \in Seq(Int)
<1>1. \A p \in Pushes : Sent(p)
  BY PushAssumption, PushRead
<1>2. Sent(Connack(0)) /\ Sent(Connack(5))
  BY ConnackIs
<1>3. QED BY <1>1, <1>2 DEF Packets, Sent, IsPacket

(* s is what remains of the packets ps when g of them are read: what       *)
(* remains after each is r.                                                *)
Stream(s, ps, g) ==
    \E r \in [g..Len(ps) -> Seq(Int)] :
      /\ r[g] = s /\ r[Len(ps)] = <<>>
      /\ \A i \in (g + 1)..Len(ps) : r[i - 1] = PushBytes(ps[i]) \o r[i]

(* Nothing remains of packets that are all read. *)
LEMMA StreamEnds ==
    ASSUME NEW ps \in Seq(Packets), NEW s
    PROVE  Stream(s, ps, Len(ps)) <=> s = <<>>
<1> DEFINE n == Len(ps)
<1>1. n \in Nat
  OBVIOUS
<1>2. Stream(s, ps, n) => s = <<>>
  BY DEF Stream
<1>3. Stream(<<>>, ps, n)
  <2> DEFINE r == [i \in n..n |-> <<>>]
  <2>1. r \in [n..n -> Seq(Int)] /\ r[n] = <<>> /\ \A i \in (n + 1)..n : FALSE
    BY <1>1
  <2> HIDE DEF r, n
  <2>2. QED BY <2>1 DEF Stream, n
<1>4. QED BY <1>2, <1>3

(* A packet more, at the end. *)
LEMMA StreamGrows ==
    ASSUME NEW ps \in Seq(Packets), NEW p \in Packets, NEW g \in 0..Len(ps), NEW s, Stream(s, ps, g)
    PROVE  Stream(s \o PushBytes(p), Append(ps, p), g)
<1> DEFINE n == Len(ps)
           b == PushBytes(p)
           qs == Append(ps, p)
<1>1. /\ n \in Nat /\ b \in Seq(Int) /\ Len(qs) = n + 1 /\ qs[n + 1] = p
      /\ \A i \in 1..n : qs[i] = ps[i] /\ ps[i] \in Packets
  BY PacketsAre
<1>2. PICK r \in [g..n -> Seq(Int)] :
         /\ r[g] = s /\ r[n] = <<>>
         /\ \A i \in (g + 1)..n : r[i - 1] = PushBytes(ps[i]) \o r[i]
  BY DEF Stream
<1> HIDE DEF n, b, qs
<1> DEFINE q == [i \in g..(n + 1) |-> IF i = n + 1 THEN <<>> ELSE r[i] \o b]
<1>3. g \in Nat /\ g <= n
  BY <1>1 DEF n
<1>4. \A i \in g..n : r[i] \in Seq(Int)
  BY <1>2
<1>5. q \in [g..(n + 1) -> Seq(Int)]
  <2>1. \A i \in g..n : r[i] \o b \in Seq(Int)
    BY <1>1, <1>4, JoinedType
  <2>2. \A i \in g..(n + 1) : i # n + 1 => i \in g..n
    BY <1>1, <1>3
  <2>3. <<>> \in Seq(Int)
    OBVIOUS
  <2>4. QED BY <2>1, <2>2, <2>3
<1>6. q[g] = s \o b /\ q[n + 1] = <<>> /\ \A i \in g..n : q[i] = r[i] \o b
  <2>1. n + 1 \in g..(n + 1) /\ g \in g..n
    BY <1>1, <1>3
  <2>2. \A i \in g..n : i \in g..(n + 1) /\ i # n + 1
    BY <1>1, <1>3
  <2>3. QED BY <1>2, <2>1, <2>2
<1>7. ASSUME NEW i \in (g + 1)..(n + 1) PROVE q[i - 1] = PushBytes(qs[i]) \o q[i]
  <2>1. i - 1 \in g..n /\ i \in Nat
    BY <1>1, <1>3
  <2>2. CASE i = n + 1
    <3>1. q[i - 1] = <<>> \o b /\ q[i] = <<>> /\ PushBytes(qs[i]) = b
      BY <1>1, <1>2, <1>6, <2>1, <2>2 DEF b
    <3>2. QED BY <1>1, <3>1, Whole
  <2>3. CASE i # n + 1
    <3>1. i \in (g + 1)..n /\ i \in 1..n /\ i \in g..n
      BY <1>1, <1>3, <2>1, <2>3
    <3> DEFINE a == PushBytes(ps[i])
    <3>2. a \in Seq(Int)
      BY <1>1, <3>1, PacketsAre
    <3>3. q[i - 1] = (a \o r[i]) \o b /\ q[i] = r[i] \o b /\ PushBytes(qs[i]) = a
      BY <1>1, <1>2, <1>6, <2>1, <3>1
    <3> HIDE DEF a, q
    <3>4. (a \o r[i]) \o b = a \o (r[i] \o b)
      BY <1>1, <1>4, <3>1, <3>2, JoinedThree
    <3>5. QED BY <3>3, <3>4
  <2>4. QED BY <2>2, <2>3
<1> HIDE DEF q
<1>8. Stream(s \o b, qs, g)
  BY <1>1, <1>5, <1>6, <1>7 DEF Stream
<1>9. QED BY <1>8 DEF b, qs

(* The next packet is at the front, and the rest remains after it. *)
LEMMA StreamFirst ==
    ASSUME NEW ps \in Seq(Packets), NEW g \in 0..(Len(ps) - 1), NEW s, Stream(s, ps, g)
    PROVE  /\ ps[g + 1] \in Packets
           /\ \E u \in Seq(Int) : s = PushBytes(ps[g + 1]) \o u /\ Stream(u, ps, g + 1)
<1> DEFINE n == Len(ps)
<1>1. n \in Nat /\ \A i \in 1..n : ps[i] \in Packets
  OBVIOUS
<1>2. PICK r \in [g..n -> Seq(Int)] :
         /\ r[g] = s /\ r[n] = <<>>
         /\ \A i \in (g + 1)..n : r[i - 1] = PushBytes(ps[i]) \o r[i]
  BY DEF Stream
<1>3. g \in Nat /\ g + 1 \in 1..n /\ g + 1 \in (g + 1)..n /\ g + 1 \in g..n /\ (g + 1) - 1 = g
  BY <1>1
<1> HIDE DEF n
<1> DEFINE q == [i \in (g + 1)..n |-> r[i]]
<1>4. q \in [(g + 1)..n -> Seq(Int)]
  <2>1. \A i \in (g + 1)..n : i \in g..n
    BY <1>1, <1>3
  <2>2. QED BY <1>2, <2>1
<1>5. s = PushBytes(ps[g + 1]) \o r[g + 1] /\ r[g + 1] \in Seq(Int)
  BY <1>2, <1>3
<1>6. Stream(r[g + 1], ps, g + 1)
  <2>1. q[g + 1] = r[g + 1] /\ q[n] = <<>>
    BY <1>1, <1>2, <1>3
  <2>2. ASSUME NEW i \in ((g + 1) + 1)..n PROVE q[i - 1] = PushBytes(ps[i]) \o q[i]
    <3>1. i \in (g + 1)..n /\ i - 1 \in (g + 1)..n
      BY <1>1, <1>3
    <3>2. QED BY <1>2, <3>1
  <2> HIDE DEF q
  <2>3. QED BY <1>4, <2>1, <2>2 DEF Stream, n
<1>7. QED BY <1>1, <1>3, <1>5, <1>6

(* There are bytes only of a packet that is not read. *)
LEMMA StreamNotRead ==
    ASSUME NEW ps \in Seq(Packets), NEW g \in 0..Len(ps), NEW s, Stream(s, ps, g)
    PROVE  s \in Seq(Int) /\ (s # <<>> => g \in 0..(Len(ps) - 1))
<1>1. s \in Seq(Int)
  <2>1. g \in g..Len(ps)
    OBVIOUS
  <2>2. QED BY <2>1 DEF Stream
<1>2. CASE g = Len(ps)
  BY <1>1, <1>2, StreamEnds
<1>3. CASE g # Len(ps)
  BY <1>1, <1>3
<1>4. QED BY <1>2, <1>3

(* Two streams with the same bytes. *)
LEMMA SameFront ==
    ASSUME NEW a \in Seq(Int), NEW b \in Seq(Int), NEW x \in Seq(Int), NEW y \in Seq(Int), a \o x = b \o y
    PROVE  /\ \A i \in 1..Len(a) : i \in 1..Len(b) => a[i] = b[i]
           /\ Len(a) = Len(b) => a = b /\ x = y
<1> DEFINE s == a \o x
<1>1. /\ Len(s) = Len(a) + Len(x) /\ Len(a) \in Nat /\ Len(x) \in Nat
      /\ \A i \in 1..Len(a) : s[i] = a[i]
      /\ \A i \in 1..Len(x) : s[Len(a) + i] = x[i]
  BY Joined
<1>2. /\ Len(s) = Len(b) + Len(y) /\ Len(b) \in Nat /\ Len(y) \in Nat
      /\ \A i \in 1..Len(b) : s[i] = b[i]
      /\ \A i \in 1..Len(y) : s[Len(b) + i] = y[i]
  BY Joined
<1> HIDE DEF s
<1>3. \A i \in 1..Len(a) : i \in 1..Len(b) => a[i] = b[i]
  BY <1>1, <1>2
<1>4. ASSUME Len(a) = Len(b) PROVE a = b /\ x = y
  <2>1. a = b
    BY <1>3, <1>4, SeqEqual
  <2>2. Len(x) = Len(y)
    BY <1>1, <1>2, <1>4
  <2>3. \A i \in 1..Len(x) : x[i] = y[i]
    BY <1>1, <1>2, <1>4, <2>2
  <2>4. x = y
    BY <2>2, <2>3, SeqEqual
  <2>5. QED BY <2>1, <2>4
<1>5. QED BY <1>3, <1>4

(* What is received goes from one part of the stream to the other. *)
LEMMA BytesMove ==
    ASSUME NEW b \in Seq(Int), NEW s \in Seq(Int), NEW k \in 1..Len(s)
    PROVE  LET c == b \o SubSeq(s, 1, k)
               t == SubSeq(s, k + 1, Len(s))
           IN  /\ c \in Seq(Int) /\ t \in Seq(Int) /\ c \o t = b \o s
               /\ Len(c) = Len(b) + k /\ \A i \in 1..Len(b) : c[i] = b[i]
<1> DEFINE x == SubSeq(s, 1, k)
           t == SubSeq(s, k + 1, Len(s))
           c == b \o x
<1>1. /\ x \in Seq(Int) /\ Len(x) = k /\ t \in Seq(Int) /\ Len(t) = Len(s) - k
      /\ \A i \in 1..k : x[i] = s[i]
      /\ \A i \in 1..(Len(s) - k) : t[i] = s[k + i]
  <2>1. k \in Nat /\ k <= Len(s) /\ Len(s) \in Nat /\ k + 1 \in Nat \ {0} /\ 1 \in Nat \ {0} /\ k \in Int /\ 1 <= k
    OBVIOUS
  <2>2. x \in Seq(Int) /\ Len(x) = (IF 1 <= k THEN k - 1 + 1 ELSE 0) /\ \A i \in 1..(k - 1 + 1) : x[i] = s[1 + i - 1]
    BY <2>1, PartElements
  <2>3. /\ t \in Seq(Int) /\ Len(t) = (IF k + 1 <= Len(s) THEN Len(s) - (k + 1) + 1 ELSE 0)
        /\ \A i \in 1..(Len(s) - (k + 1) + 1) : t[i] = s[(k + 1) + i - 1]
    BY <2>1, PartElements
  <2> DEFINE l == Len(s)
  <2> HIDE DEF x, t
  <2>4. Len(x) = k /\ \A i \in 1..k : x[i] = s[i]
    BY <2>1, <2>2
  <2>5. Len(t) = l - k /\ \A i \in 1..(l - k) : t[i] = s[k + i]
    <3>1. l \in Nat /\ k <= l
      BY <2>1
    <3> HIDE DEF l
    <3>2. /\ Len(t) = (IF k + 1 <= l THEN l - (k + 1) + 1 ELSE 0)
          /\ \A i \in 1..(l - (k + 1) + 1) : t[i] = s[(k + 1) + i - 1]
      BY <2>3 DEF l
    <3>3. Len(t) = l - k
      BY <2>1, <3>1, <3>2
    <3>4. ASSUME NEW i \in 1..(l - k) PROVE t[i] = s[k + i]
      <4>1. i \in 1..(l - (k + 1) + 1) /\ (k + 1) + i - 1 = k + i
        BY <2>1, <3>1
      <4>2. QED BY <3>2, <4>1
    <3>5. QED BY <3>3, <3>4
  <2>6. QED BY <2>2, <2>3, <2>4, <2>5
<1> HIDE DEF x, t
<1>2. c \in Seq(Int) /\ Len(c) = Len(b) + k /\ \A i \in 1..Len(b) : c[i] = b[i]
  BY <1>1, Joined
<1>3. x \o t = s
  <2>1. /\ x \o t \in Seq(Int) /\ Len(x \o t) = Len(x) + Len(t)
        /\ \A i \in 1..Len(x) : (x \o t)[i] = x[i]
        /\ \A i \in 1..Len(t) : (x \o t)[Len(x) + i] = t[i]
    BY <1>1, Joined
  <2> DEFINE y == x \o t
             l == Len(s)
  <2>2. l \in Nat /\ k \in Nat /\ k <= l /\ 1 <= k
    OBVIOUS
  <2> HIDE DEF y, l
  <2>3. Len(y) = l /\ (\A i \in 1..k : y[i] = s[i]) /\ \A i \in 1..(l - k) : y[k + i] = s[k + i]
    <3>1. Len(t) = l - k /\ \A i \in 1..(l - k) : t[i] = s[k + i]
      BY <1>1 DEF l
    <3>2. Len(y) = k + Len(t) /\ (\A i \in 1..k : y[i] = x[i]) /\ \A i \in 1..Len(t) : y[k + i] = t[i]
      BY <1>1, <2>1 DEF y
    <3>3. Len(y) = l
      BY <2>2, <3>1, <3>2
    <3>4. \A i \in 1..k : y[i] = s[i]
      BY <1>1, <3>2
    <3>5. \A i \in 1..(l - k) : y[k + i] = s[k + i]
      BY <3>1, <3>2
    <3>6. QED BY <3>3, <3>4, <3>5
  <2>4. ASSUME NEW i \in 1..l PROVE y[i] = s[i]
    <3>1. CASE i <= k
      <4>1. i \in 1..k
        BY <2>2, <3>1
      <4>2. QED BY <2>3, <4>1
    <3>2. CASE ~(i <= k)
      <4>1. i - k \in 1..(l - k) /\ k + (i - k) = i
        BY <2>2, <3>2
      <4>2. y[k + (i - k)] = s[k + (i - k)]
        BY <2>3, <4>1
      <4>3. QED BY <4>1, <4>2
    <3>3. QED BY <3>1, <3>2
  <2>5. y = s
    BY <2>1, <2>3, <2>4, SeqEqual DEF y, l
  <2>6. QED BY <2>5 DEF y
<1>4. c \o t = b \o s
  <2>1. (b \o x) \o t = b \o (x \o t)
    BY <1>1, JoinedThree
  <2>2. QED BY <1>3, <2>1
<1>5. QED BY <1>1, <1>2, <1>4 DEF x, t

(* The bytes of a header so far, b, of the packet w: they are no more than *)
(* the header, and when the last one is not marked, the length is known.   *)
LEMMA HeaderStep ==
    ASSUME NEW w \in Seq(Int), IsPacket(w), NEW u \in Seq(Int), NEW b \in Seq(Int), NEW x \in Seq(Int),
           b \o x = w \o u, Len(b) >= 1, \A i \in 2..(Len(b) - 1) : More(b[i]),
           Len(b) > 1, ~More(b[Len(b)])
    PROVE  LET h == DecodeHeaderLength(Tail(b) \o <<0>>, Len(b))
           IN  h.ok /\ h.len \in Nat /\ Len(b) + h.len = Len(w)
<1> DEFINE l == Len(b)
           s == Tail(b) \o <<0>>
           h == DecodeHeaderLength(s, l)
<1>1. PICK n \in Nat : n < Weight[5] /\ Len(w) = 1 + Size(n) + n /\ Digits(w, 1, n)
  BY DEF IsPacket
<1> DEFINE k == Size(n)
<1>2. k \in 1..4 /\ l \in Nat /\ Len(w) \in Nat
  BY <1>1, SizeIs
<1>3. \A i \in 1..l : i \in 1..Len(w) => b[i] = w[i]
  BY SameFront
<1>4. \A i \in 1..k : More(w[1 + i]) <=> i < k
  BY <1>1, DigitIs
<1> HIDE DEF k
<1>5. Len(w) = 1 + k + n /\ \A i \in 1..(1 + k) : i \in 1..Len(w)
  <2>1. Len(w) = 1 + k + n
    BY <1>1 DEF k
  <2>2. QED BY <1>2, <2>1
<1>6. l <= 1 + k
  <2> SUFFICES ASSUME ~(l <= 1 + k) PROVE FALSE
    OBVIOUS
  <2>1. 1 + k \in 2..(l - 1) /\ 1 + k \in 1..l /\ k \in 1..k /\ ~(k < k)
    BY <1>2
  <2>2. More(b[1 + k]) /\ b[1 + k] = w[1 + k]
    <3>1. More(b[1 + k])
      BY <2>1
    <3>2. 1 + k \in 1..Len(w)
      BY <1>2, <1>5
    <3>3. QED BY <1>3, <2>1, <3>1, <3>2
  <2>3. QED BY <1>4, <2>1, <2>2
<1>7. l = 1 + k
  <2>1. l - 1 \in 1..k /\ 1 + (l - 1) = l /\ l \in 1..l /\ l \in 1..(1 + k)
    BY <1>2, <1>6
  <2>2. b[l] = w[l] /\ ~More(w[l])
    BY <1>3, <1>5, <2>1
  <2>3. ~(l - 1 < k)
    BY <1>4, <2>1, <2>2
  <2> HIDE DEF l
  <2>4. QED BY <1>2, <1>6, <2>1, <2>3
<1>8. \A i \in 1..k : s[i] = w[1 + i]
  <2>1. b # <<>> /\ Tail(b) \in Seq(Int) /\ Len(Tail(b)) = l - 1 /\ \A i \in 1..(l - 1) : Tail(b)[i] = b[i + 1]
    <3>1. b # <<>>
      OBVIOUS
    <3>2. QED BY <3>1, HeadTailProperties
  <2>2. <<0>> \in Seq(Int)
    OBVIOUS
  <2>3. \A i \in 1..Len(Tail(b)) : s[i] = Tail(b)[i]
    BY <2>1, <2>2, Joined
  <2> HIDE DEF s, l
  <2>4. l - 1 = k
    BY <1>2, <1>7
  <2> SUFFICES ASSUME NEW i \in 1..k PROVE s[i] = w[1 + i]
    OBVIOUS
  <2>5. i + 1 = 1 + i /\ 1 + i \in 1..l /\ 1 + i \in 1..(1 + k)
    BY <1>2, <1>7
  <2>6. s[i] = b[1 + i]
    BY <2>1, <2>3, <2>4, <2>5
  <2>7. QED BY <1>3, <1>5, <2>5, <2>6
<1>9. Digits(s, 0, n)
  <2> SUFFICES ASSUME NEW i \in 1..k PROVE s[0 + i] = w[1 + i]
    BY <1>1 DEF Digits, k
  <2> HIDE DEF s
  <2>1. 0 + i = i
    OBVIOUS
  <2>2. QED BY <1>8, <2>1
<1> HIDE DEF s, l
<1>10. l >= Size(n)
  BY <1>2, <1>7 DEF k
<1>11. h = [ok |-> TRUE, size |-> Size(n), len |-> n]
  BY <1>1, <1>2, <1>9, <1>10, LengthDecoded
<1> HIDE DEF h
<1>12. h.ok /\ h.len = n
  BY <1>11
<1>13. l + n = Len(w)
  BY <1>5, <1>7
<1>14. QED BY <1>12, <1>13 DEF h, s, l

-----------------------------------------------------------------------------
(* What the client reads, as the bytes come: the inductive invariant. *)

(* The places of a connect before its CONNECT is sent, of mqtt_recv, and   *)
(* of the thread while the packets come.                                   *)
Early     == {"tcp", "get", "reply", "hello"}
Reading   == {"header", "body", "packet", "bad"}
Streaming == {"helloing", "header", "body", "packet", "up", "sending"}

(* Who sends, and when. *)
SendsInv ==
    /\ DOMAIN rest = Senders
    /\ rest[U] # <<>> => mux = U
    /\ rest[R] # <<>> => pc \in {"sending", "helloing", "bye"}

(* The place of the receive thread, the owner of client->mux and the state *)
(* of the client.                                                          *)
PlaceInv ==
    /\ pc \in Early \cup Reading \cup {"down", "helloing", "up", "sending", "broken", "bye"}
    /\ connected \in BOOLEAN
    /\ pc \in Early \cup {"helloing", "bye"} => mux = R /\ ~connected
    /\ pc \in Reading /\ ~connected => mux = R
    /\ pc \in {"up", "sending", "broken"} => connected
    /\ pc = "down" => mux \in {Nobody, R} /\ ~connected

(* Before its CONNECT there is nothing on the connection but the reply of  *)
(* a proxy, which is read to its end.                                      *)
EarlyInv ==
    /\ in \in Seq(Int) /\ buf \in Seq(Int)
    /\ pc \in Early => out = <<>> /\ pushed = <<>> /\ got = <<>>
    /\ pc \in Early /\ pc # "reply" => in = <<>>
    /\ pc = "reply" => \/ buf = <<>> /\ in = <<>>
                       \/ in # <<>> /\ buf \o in \in HttpReplies

ControlInv == SendsInv /\ PlaceInv /\ EarlyInv

(* The packets of the server, and those that the client has read. *)
PushedInv ==
    /\ pushed \in Seq(Packets)
    /\ pushed # <<>> => pushed[1] \in {Connack(0), Connack(5)}
    /\ \A i \in 2..Len(pushed) : pushed[i] \in Pushes

GotInv ==
    /\ got \in Seq(Packets) /\ Len(got) \in 0..Len(pushed)
    /\ \A i \in 1..Len(got) : got[i] = pushed[i]

(* What was received of a packet and what was not are the bytes of the     *)
(* packets that were not read.                                             *)
Flow == IF pc \in {"header", "body", "packet"} THEN buf \o in ELSE in

FlowInv == pc \in Streaming => Stream(Flow, pushed, Len(got)) /\ (connected <=> got # <<>>)

HeaderInv ==
    pc = "header" => \/ buf = <<>> /\ want = 2
                     \/ buf # <<>> /\ want = 1 /\ \A i \in 2..Len(buf) : More(buf[i])

BodyInv ==
    pc = "body" => /\ want \in Nat \ {0} /\ Len(got) < Len(pushed) /\ buf # <<>>
                   /\ Len(buf) + want = Len(PushBytes(pushed[Len(got) + 1]))

PacketInv ==
    pc = "packet" => Len(got) < Len(pushed) /\ buf = PushBytes(pushed[Len(got) + 1])

StreamInv ==
    /\ PushedInv
    /\ ~torn => GotInv /\ FlowInv /\ HeaderInv /\ BodyInv /\ PacketInv /\ pc # "bad"

ReadInv == ControlInv /\ StreamInv

-----------------------------------------------------------------------------
(* Every step keeps the order of the connection. *)

(* Without bytes there is no request. *)
LEMMA NoFrames == Frames(<<>>) = <<>>
<1> DEFINE e == <<>>
           g == [i \in 1..1 |-> <<>>]
           Body(f) == [i \in 1..(Len(e) + 1) |->
                         IF ~HasFrame(e, i) THEN <<>>
                         ELSE <<[first |-> e[i], body |-> SubSeq(e, i + FrameSize(e, i).header, i - 1 + FrameSize(e, i).all)]>>
                                \o f[i + FrameSize(e, i).all]]
           F == CHOOSE f : f = Body(f)
<1>1. Len(e) + 1 = 1 /\ \A i \in 1..1 : ~HasFrame(e, i)
  BY DEF HasFrame
<1>2. \A f : Body(f) = g
  BY <1>1
<1>3. F = Body(F)
  <2>1. g = Body(g)
    BY <1>2
  <2> HIDE DEF Body, g
  <2>2. QED BY <2>1
<1>4. F = g
  <2> HIDE DEF F, Body, g
  <2>1. QED BY <1>2, <1>3
<1>5. Frames(e) = F[1]
  BY ZenonT(30) DEF Frames
<1> HIDE DEF F
<1>6. g[1] = <<>>
  OBVIOUS
<1> HIDE DEF e, g
<1>7. Frames(e) = <<>>
  BY <1>4, <1>5, <1>6
<1>8. QED BY <1>7 DEF e

(* The receive thread and the user are all who send. *)
LEMMA TwoSenders ==
    /\ R \in Senders /\ U \in Senders /\ R # U /\ Nobody # R /\ Nobody # U
    /\ \A t \in Senders : t = R \/ t = U
BY WireAssumption

(* What a step does not touch. *)
LEMMA ControlQuiet ==
    ControlInv /\ UNCHANGED <<rest, mux, pc, connected, in, buf, out, pushed, got>> => ControlInv'
BY DEF ControlInv, SendsInv, PlaceInv, EarlyInv

(* The steps of a connect up to its CONNECT. *)
LEMMA ConnectControl ==
    ASSUME ControlInv, ConnectBegins \/ ConnectGoesOn \/ ConnectIsRefused
    PROVE  ControlInv'
<1> USE DEF ControlInv
<1>1. CASE ConnectBegins
  <2>1. /\ pc = "down" /\ pc' = "tcp" /\ mux' = R /\ UNCHANGED <<connected, rest, buf>>
        /\ out' = <<>> /\ in' = <<>> /\ pushed' = <<>> /\ got' = <<>>
    BY <1>1 DEF ConnectBegins, TcpConnect
  <2>2. rest[U] = <<>> /\ rest[R] = <<>> /\ ~connected
    BY <2>1, TwoSenders DEF SendsInv, PlaceInv
  <2>3. SendsInv'
    BY <2>1, <2>2, TwoSenders DEF SendsInv
  <2>4. PlaceInv'
    BY <2>1, <2>2 DEF PlaceInv, Early, Reading
  <2>5. EarlyInv'
    <3>1. <<>> \in Seq(Int)
      OBVIOUS
    <3>2. QED BY <2>1, <3>1 DEF EarlyInv, Early
  <2>6. QED BY <2>3, <2>4, <2>5
<1>2. CASE ConnectGoesOn
  <2>1. pc = "tcp" /\ pc' \in {"tcp", "get", "hello"} /\ UNCHANGED <<mux, connected, rest, buf, out, in, pushed, got>>
    BY <1>2 DEF ConnectGoesOn, ConnectStep, sendVars, recvVars
  <2>2. SendsInv'
    BY <2>1, TwoSenders DEF SendsInv
  <2>3. PlaceInv'
    BY <2>1 DEF PlaceInv, Early, Reading
  <2>4. EarlyInv'
    BY <2>1 DEF EarlyInv, Early
  <2>5. QED BY <2>2, <2>3, <2>4
<1>3. CASE ConnectIsRefused
  <2>1. pc = "tcp" /\ pc' = "down" /\ mux' = Nobody /\ UNCHANGED <<connected, rest, buf, out, in, pushed, got>>
    BY <1>3 DEF ConnectIsRefused, ConnectFails, sendVars, recvVars
  <2>2. SendsInv'
    BY <2>1, TwoSenders DEF SendsInv, PlaceInv, Early
  <2>3. PlaceInv'
    BY <2>1 DEF PlaceInv, Early, Reading
  <2>4. EarlyInv'
    BY <2>1 DEF EarlyInv, Early
  <2>5. QED BY <2>2, <2>3, <2>4
<1>4. QED BY <1>1, <1>2, <1>3

(* The replies of a proxy: five bytes, of which the last four end it. *)
LEMMA RepliesAre ==
    \A z \in HttpReplies : /\ z \in Seq(Int) /\ Len(z) = 5 /\ z[1] \notin {10, 13}
                           /\ \A i \in 2..5 : z[i] \in {10, 13}
<1> SUFFICES ASSUME NEW z \in HttpReplies
             PROVE  /\ z \in Seq(Int) /\ Len(z) = 5 /\ z[1] \notin {10, 13}
                    /\ \A i \in 2..5 : z[i] \in {10, 13}
  OBVIOUS
<1>1. z = <<200, 13, 10, 13, 10>> \/ z = <<200, 10, 10, 10, 10>> \/ z = <<101, 13, 10, 13, 10>>
  BY DEF HttpReplies, HttpOk
<1>2. \A i \in 2..5 : i = 2 \/ i = 3 \/ i = 4 \/ i = 5
  OBVIOUS
<1>3. /\ z \in Seq(Int) /\ Len(z) = 5 /\ z[1] \notin {10, 13}
      /\ z[2] \in {10, 13} /\ z[3] \in {10, 13} /\ z[4] \in {10, 13} /\ z[5] \in {10, 13}
  <2>1. CASE z = <<200, 13, 10, 13, 10>>
    BY <2>1
  <2>2. CASE z = <<200, 10, 10, 10, 10>>
    BY <2>2
  <2>3. CASE z = <<101, 13, 10, 13, 10>>
    BY <2>3
  <2>4. QED BY <1>1, <2>1, <2>2, <2>3
<1>4. QED BY <1>2, <1>3

(* One more byte of a reply: it is not the last one before the reply has   *)
(* ended, and no shorter one is taken for a good reply.                    *)
LEMMA ReplyStep ==
    ASSUME NEW b \in Seq(Int), NEW x \in Seq(Int), b \o x \in HttpReplies, 1 \in 1..Len(x)
    PROVE  LET s == Append(b, x[1])
               t == SubSeq(x, 2, Len(x))
           IN  /\ s \in Seq(Int) /\ t \in Seq(Int) /\ s \o t = b \o x
               /\ ~Ended(s) => t # <<>>
               /\ /\ SubSeq(s, Len(s) - 3, Len(s)) = <<13, 10, 13, 10>>
                  /\ Ended(s) \/ ~(Len(s) < HttpMax)
                  => t = <<>>
<1> DEFINE c == b \o SubSeq(x, 1, 1)
           s == Append(b, x[1])
           t == SubSeq(x, 2, Len(x))
           z == b \o x
<1>1. s = c
  <2>1. SubSeq(x, 1, 1) = <<x[1]>>
    <3> DEFINE q == <<x[1]>>
    <3>1. q \in Seq(Int) /\ Len(q) = 1 /\ q[1] = x[1] /\ 1 \in Nat \ {0} /\ Len(x) \in Nat /\ Len(x) >= 1
      OBVIOUS
    <3> HIDE DEF q
    <3>2. 1 + Len(q) - 1 = 1 /\ 1 + Len(q) - 1 <= Len(x) /\ \A i \in 1..Len(q) : x[1 + i - 1] = q[i]
      BY <3>1
    <3>3. SubSeq(x, 1, 1 + Len(q) - 1) = q
      BY <3>1, <3>2, PartIs
    <3>4. QED BY <3>2, <3>3 DEF q
  <2>2. b \o <<x[1]>> = Append(b, x[1])
    BY AppendIsConcat
  <2>3. QED BY <2>1, <2>2
<1>2. c \in Seq(Int) /\ t \in Seq(Int) /\ c \o t = z /\ Len(c) = Len(b) + 1
  <2>1. LET u == SubSeq(x, 1 + 1, Len(x))
        IN  c \in Seq(Int) /\ u \in Seq(Int) /\ c \o u = z /\ Len(c) = Len(b) + 1
    BY BytesMove
  <2>2. 1 + 1 = 2
    OBVIOUS
  <2>3. QED BY <2>1, <2>2
<1>3. z \in Seq(Int) /\ Len(z) = 5 /\ z[1] \notin {10, 13} /\ \A i \in 2..5 : z[i] \in {10, 13}
  BY RepliesAre
<1>4. Len(b) \in Nat
  OBVIOUS
<1> HIDE DEF s, t, z, c
<1>5. /\ Len(z) = Len(c) + Len(t) /\ Len(t) \in Nat
      /\ \A i \in 1..Len(c) : z[i] = c[i]
  BY <1>2, Joined
<1>6. ASSUME ~Ended(c) PROVE t # <<>>
  <2>1. SUFFICES ASSUME t = <<>> PROVE FALSE
    OBVIOUS
  <2>2. c = z
    BY <1>2, <2>1, Whole
  <2>3. Ended(z)
    BY <1>3 DEF Ended
  <2>4. QED BY <1>6, <2>2, <2>3
<1>7. ASSUME SubSeq(c, Len(c) - 3, Len(c)) = <<13, 10, 13, 10>>, Ended(c) \/ ~(Len(c) < HttpMax)
      PROVE  t = <<>>
  <2> DEFINE l == Len(c)
             m == Len(t)
  <2>1. l \in Nat /\ m \in Nat /\ l + m = 5 /\ l >= 1
    <3>1. l = Len(b) + 1 /\ m \in Nat /\ l + m = 5
      BY <1>2, <1>3, <1>5
    <3> HIDE DEF l, m
    <3>2. QED BY <1>4, <3>1
  <2>2. l >= 4
    <3>1. Ended(c) => l >= 4
      BY DEF Ended
    <3>2. HttpMax \in Nat /\ HttpMax >= 4
      BY WireAssumption
    <3>3. Ended(c) \/ ~(l < HttpMax)
      BY <1>7
    <3> HIDE DEF l
    <3>4. QED BY <2>1, <3>1, <3>2, <3>3
  <2>3. l # 4
    <3>1. SUFFICES ASSUME l = 4 PROVE FALSE
      OBVIOUS
    <3>2. SubSeq(c, 1, 4)[1] = 13
      <4>1. l - 3 = 1
        BY <3>1
      <4>2. SubSeq(c, 1, 4) = <<13, 10, 13, 10>>
        BY <1>7, <3>1, <4>1
      <4>3. <<13, 10, 13, 10>>[1] = 13
        OBVIOUS
      <4>4. QED BY <4>2, <4>3
    <3>3. SubSeq(c, 1, 4)[1] = c[1]
      BY <1>2, <3>1
    <3>4. c[1] = z[1]
      BY <1>5, <3>1
    <3>5. QED BY <1>3, <3>2, <3>3, <3>4
  <2>4. m = 0
    <3> HIDE DEF l, m
    <3>1. QED BY <2>1, <2>2, <2>3
  <2>5. QED BY <1>2, <2>4
<1>8. QED BY <1>1, <1>2, <1>6, <1>7 DEF s, t, z

(* A connect fails, for whatever reason. *)
LEMMA ErrorControl ==
    ASSUME ControlInv, pc \in Early \cup Reading, ~connected,
           rest' = [rest EXCEPT ![R] = <<>>], pc' = "down", mux' = Nobody, connected' = connected,
           in' \in Seq(Int), buf' \in Seq(Int)
    PROVE  ControlInv'
<1>1. rest[U] = <<>> /\ DOMAIN rest = Senders
  BY TwoSenders DEF ControlInv, SendsInv, PlaceInv
<1>2. rest'[U] = <<>> /\ rest'[R] = <<>> /\ DOMAIN rest' = Senders
  BY <1>1, TwoSenders
<1>3. SendsInv'
  BY <1>2 DEF SendsInv
<1>4. PlaceInv'
  BY DEF ControlInv, PlaceInv, Early, Reading
<1>5. EarlyInv'
  BY DEF EarlyInv, Early
<1>6. QED BY <1>3, <1>4, <1>5 DEF ControlInv

(* The reply of a proxy leaves nothing behind for the packets. *)
LEMMA ProxyControl ==
    ASSUME ControlInv, HttpsRequest \/ HttpsReply \/ HttpsReplyFails
    PROVE  ControlInv'
<1>1. /\ in \in Seq(Int) /\ buf \in Seq(Int) /\ <<>> \in Seq(Int)
      /\ pc \in {"get", "reply"} => pc \in Early /\ ~connected
  BY DEF ControlInv, EarlyInv, PlaceInv, Early
<1>2. CASE HttpsRequest
  <2>1. pc = "get" /\ UNCHANGED <<connected, in, out, pushed, got>>
    BY <1>2 DEF HttpsRequest, noNet, tcpVars
  <2>2. CASE pc' = "reply" /\ buf' = <<>> /\ UNCHANGED <<tcpVars, mux, heap>>
    <3>1. UNCHANGED <<rest, mux>>
      BY <2>2 DEF tcpVars
    <3>2. SendsInv'
      BY <2>1, <2>2, <3>1 DEF ControlInv, SendsInv
    <3>3. PlaceInv'
      BY <2>1, <2>2, <3>1 DEF ControlInv, PlaceInv, Early, Reading
    <3>4. EarlyInv'
      BY <1>1, <2>1, <2>2 DEF ControlInv, EarlyInv, Early
    <3>5. QED BY <3>2, <3>3, <3>4 DEF ControlInv
  <2>3. CASE ConnectError /\ UNCHANGED <<noNet, buf>>
    BY <1>1, <2>1, <2>3, ErrorControl DEF ConnectError
  <2>4. QED BY <1>2, <2>2, <2>3 DEF HttpsRequest
<1>3. CASE HttpsReply
  <2> DEFINE s == Append(buf, in[1])
             t == SubSeq(in, 2, Len(in))
  <2>1. /\ pc = "reply" /\ 1 \in 1..Len(in) /\ in' = SubSeq(in, 1 + 1, Len(in))
        /\ UNCHANGED <<connected, out, pushed, got>>
    BY <1>3 DEF HttpsReply, TcpRecv, PlainRecv, SslRecv2, SecureRecv, Received
  <2>2. in' = t /\ in # <<>>
    <3>1. 1 + 1 = 2 /\ Len(<<>>) = 0
      OBVIOUS
    <3>2. QED BY <2>1, <3>1
  <2>3. buf \o in \in HttpReplies
    BY <2>1, <2>2 DEF ControlInv, EarlyInv
  <2>4. /\ s \in Seq(Int) /\ t \in Seq(Int) /\ s \o t = buf \o in
        /\ ~Ended(s) => t # <<>>
        /\ /\ SubSeq(s, Len(s) - 3, Len(s)) = <<13, 10, 13, 10>>
           /\ Ended(s) \/ ~(Len(s) < HttpMax)
           => t = <<>>
    BY <1>1, <2>1, <2>3, ReplyStep
  <2>5. pc \in Early /\ ~connected /\ mux = R
    BY <1>1, <2>1 DEF ControlInv, PlaceInv
  <2> HIDE DEF t
  <2>6. CASE ~Ended(s) /\ Len(s) < HttpMax
    <3>1. buf' = s /\ UNCHANGED <<rest, mux, pc>>
      BY <1>3, <2>6 DEF HttpsReply
    <3> HIDE DEF s
    <3>2. SendsInv' /\ PlaceInv'
      BY <2>1, <3>1 DEF ControlInv, SendsInv, PlaceInv
    <3>3. EarlyInv'
      BY <2>1, <2>2, <2>3, <2>4, <2>6, <3>1 DEF ControlInv, EarlyInv, Early
    <3>4. QED BY <3>2, <3>3 DEF ControlInv
  <2>7. CASE ~(~Ended(s) /\ Len(s) < HttpMax)
    <3>1. /\ buf' = <<>>
          /\ \/ /\ pc' = "hello" /\ UNCHANGED <<rest, mux>>
                /\ SubSeq(s, Len(s) - 3, Len(s)) = <<13, 10, 13, 10>>
             \/ ConnectError
      BY <1>3, <2>7 DEF HttpsReply
    <3>2. CASE ConnectError
      BY <1>1, <2>1, <2>2, <2>4, <2>5, <3>1, <3>2, ErrorControl DEF ConnectError
    <3>3. CASE /\ pc' = "hello" /\ UNCHANGED <<rest, mux>>
               /\ SubSeq(s, Len(s) - 3, Len(s)) = <<13, 10, 13, 10>>
      <4>1. in' = <<>>
        BY <2>2, <2>4, <2>7, <3>3
      <4> HIDE DEF s
      <4>2. SendsInv' /\ PlaceInv'
        BY <2>1, <2>5, <3>3 DEF ControlInv, SendsInv, PlaceInv, Early, Reading
      <4>3. EarlyInv'
        BY <1>1, <2>1, <2>5, <3>1, <3>3, <4>1 DEF ControlInv, EarlyInv
      <4>4. QED BY <4>2, <4>3 DEF ControlInv
    <3>4. QED BY <3>1, <3>2, <3>3
  <2>8. QED BY <2>6, <2>7
<1>4. CASE HttpsReplyFails
  <2>1. pc = "reply" /\ ConnectError /\ buf' = <<>> /\ UNCHANGED <<in, connected>>
    BY <1>4 DEF HttpsReplyFails, noNet
  <2>2. QED BY <1>1, <2>1, ErrorControl DEF ConnectError
<1>5. QED BY <1>2, <1>3, <1>4

(* The CONNECT, and the start of mqtt_recv. *)
LEMMA HelloControl == ASSUME ControlInv, Hello \/ RecvBegins PROVE ControlInv'
<1>1. CASE Hello
  <2>1. /\ pc = "hello" /\ pc' = "helloing" /\ UNCHANGED <<mux, connected, in, buf, out, pushed, got>>
        /\ \E x : rest' = [rest EXCEPT ![R] = x]
    BY <1>1 DEF Hello, MqttSend, SendBegin, recvVars
  <2>2. SendsInv'
    BY <2>1, TwoSenders DEF ControlInv, SendsInv
  <2>3. PlaceInv'
    BY <2>1 DEF ControlInv, PlaceInv, Early, Reading
  <2>4. EarlyInv'
    BY <2>1 DEF ControlInv, EarlyInv, Early
  <2>5. QED BY <2>2, <2>3, <2>4 DEF ControlInv
<1>2. CASE RecvBegins
  <2>1. /\ pc = "up" \/ (pc = "helloing" /\ rest[R] = <<>>)
        /\ pc' = "header" /\ buf' = <<>> /\ UNCHANGED <<rest, mux, connected, in, out, pushed, got>>
    BY <1>2 DEF RecvBegins, tcpVars
  <2>2. SendsInv'
    BY <2>1 DEF ControlInv, SendsInv
  <2>3. PlaceInv'
    BY <2>1 DEF ControlInv, PlaceInv, Early, Reading
  <2>4. EarlyInv'
    <3>1. <<>> \in Seq(Int)
      OBVIOUS
    <3>2. QED BY <2>1, <3>1 DEF ControlInv, EarlyInv, Early
  <2>5. QED BY <2>2, <2>3, <2>4 DEF ControlInv
<1>3. QED BY <1>1, <1>2

(* Bytes of a packet are received. *)
Moves(k) ==
    /\ k \in 1..Len(in) /\ k <= want
    /\ buf' = buf \o SubSeq(in, 1, k) /\ in' = SubSeq(in, k + 1, Len(in))

(* Bytes that are received stay in the stream. *)
LEMMA MovesType ==
    ASSUME ControlInv, NEW k, Moves(k)
    PROVE  /\ buf' \in Seq(Int) /\ in' \in Seq(Int) /\ buf' \o in' = buf \o in /\ k \in Nat \ {0} /\ k <= want
           /\ Len(buf') = Len(buf) + k /\ \A i \in 1..Len(buf) : buf'[i] = buf[i]
<1>1. buf \in Seq(Int) /\ in \in Seq(Int) /\ k \in 1..Len(in)
  BY DEF ControlInv, EarlyInv, Moves
<1>2. LET c == buf \o SubSeq(in, 1, k)
          t == SubSeq(in, k + 1, Len(in))
      IN  /\ c \in Seq(Int) /\ t \in Seq(Int) /\ c \o t = buf \o in
          /\ Len(c) = Len(buf) + k /\ \A i \in 1..Len(buf) : c[i] = buf[i]
  BY <1>1, BytesMove
<1>3. k \in Nat \ {0}
  BY <1>1
<1>4. QED BY <1>2, <1>3 DEF Moves

(* RecvHeader receives so. *)
LEMMA HeaderMoves == RecvHeader => \E k : Moves(k)
BY DEF RecvHeader, TcpRecv, PlainRecv, SslRecv2, SecureRecv, Received, Moves

(* RecvBody receives so. *)
LEMMA BodyMoves == RecvBody => \E k : Moves(k) /\ want' = want - k
BY DEF RecvBody, TcpRecv, PlainRecv, SslRecv2, SecureRecv, Received, Moves, TakeBody

(* The steps of mqtt_recv. *)
LEMMA RecvControl ==
    ASSUME ControlInv, RecvHeader \/ RecvBody \/ RecvTimesOut \/ RecvFails
    PROVE  ControlInv'
<1>1. CASE RecvHeader \/ RecvBody
  <2>1. PICK k : Moves(k)
    BY <1>1, HeaderMoves, BodyMoves
  <2>2. /\ pc \in {"header", "body"} /\ pc' \in Reading
        /\ UNCHANGED <<rest, mux, connected, out, pushed, got>>
    <3>1. CASE RecvHeader
      BY <3>1 DEF RecvHeader, Reading
    <3>2. CASE RecvBody
      BY <3>2 DEF RecvBody, Reading
    <3>3. QED BY <1>1, <3>1, <3>2
  <2>3. SendsInv'
    BY <2>2 DEF ControlInv, SendsInv
  <2>4. PlaceInv'
    BY <2>2 DEF ControlInv, PlaceInv, Early, Reading
  <2>5. EarlyInv'
    BY <2>1, <2>2, MovesType DEF EarlyInv, Early, Reading
  <2>6. QED BY <2>3, <2>4, <2>5 DEF ControlInv
<1>2. ASSUME RecvError, pc \in {"header", "body", "bad"}, UNCHANGED <<buf, connected, pushed, got>>
      PROVE  ControlInv'
  <2>1. in \in Seq(Int) /\ buf \in Seq(Int) /\ UNCHANGED <<in, out>> /\ pc \in Reading
    BY <1>2 DEF ControlInv, EarlyInv, RecvError, noNet, Reading
  <2>2. CASE connected
    <3>1. pc' = "broken" /\ UNCHANGED <<rest, mux>>
      BY <1>2, <2>2 DEF RecvError
    <3>2. SendsInv' /\ PlaceInv' /\ EarlyInv'
      BY <1>2, <2>1, <2>2, <3>1 DEF ControlInv, SendsInv, PlaceInv, EarlyInv, Early, Reading
    <3>3. QED BY <3>2 DEF ControlInv
  <2>3. CASE ~connected
    BY <1>2, <2>1, <2>3, ErrorControl DEF RecvError, ConnectError
  <2>4. QED BY <2>2, <2>3
<1>3. CASE RecvTimesOut
  <2>1. CASE connected /\ pc' = "up" /\ UNCHANGED <<tcpVars, mux, heap>>
    <3>1. pc \in {"header", "body"} /\ UNCHANGED <<rest, mux, connected, in, buf, out, pushed, got>>
      BY <1>3, <2>1 DEF RecvTimesOut, tcpVars
    <3>2. SendsInv' /\ PlaceInv' /\ EarlyInv'
      BY <2>1, <3>1 DEF ControlInv, SendsInv, PlaceInv, EarlyInv, Early, Reading
    <3>3. QED BY <3>2 DEF ControlInv
  <2>2. CASE RecvError
    BY <1>2, <1>3, <2>2 DEF RecvTimesOut
  <2>3. QED BY <1>3, <2>1, <2>2 DEF RecvTimesOut
<1>4. CASE RecvFails
  BY <1>2, <1>4 DEF RecvFails, recvVars
<1>5. QED BY <1>1, <1>3, <1>4

(* What is done with a packet. *)
LEMMA PacketControl ==
    ASSUME ControlInv, Accepted \/ Refused \/ Handle \/ HandlePublish
    PROVE  ControlInv'
<1>1. CASE Accepted
  <2>1. /\ pc = "packet" /\ ~connected /\ connected' = TRUE /\ pc' = "up" /\ mux' = Nobody
        /\ UNCHANGED <<rest, in, buf, out>>
    BY <1>1 DEF Accepted, tcpVars
  <2>2. SendsInv'
    BY <2>1, TwoSenders DEF ControlInv, SendsInv, PlaceInv, Reading
  <2>3. PlaceInv' /\ EarlyInv'
    BY <2>1 DEF ControlInv, PlaceInv, EarlyInv, Early, Reading
  <2>4. QED BY <2>2, <2>3 DEF ControlInv
<1>2. CASE Refused
  <2>1. pc = "packet" /\ ~connected /\ ConnectError /\ UNCHANGED <<in, buf, connected>>
    BY <1>2 DEF Refused, noNet, recvVars
  <2>2. in \in Seq(Int) /\ buf \in Seq(Int) /\ pc \in Reading
    BY <2>1 DEF ControlInv, EarlyInv, Reading
  <2>3. QED BY <2>1, <2>2, ErrorControl DEF ConnectError
<1>3. CASE Handle
  <2>1. pc = "packet" /\ connected /\ pc' = "up" /\ UNCHANGED <<rest, mux, connected, in, buf, out>>
    BY <1>3 DEF Handle, tcpVars
  <2>2. SendsInv' /\ PlaceInv' /\ EarlyInv'
    BY <2>1 DEF ControlInv, SendsInv, PlaceInv, EarlyInv, Early, Reading
  <2>3. QED BY <2>2 DEF ControlInv
<1>4. CASE HandlePublish
  <2>1. /\ pc = "packet" /\ connected /\ mux = Nobody /\ pc' = "sending" /\ mux' = R
        /\ UNCHANGED <<connected, in, buf, out>>
        /\ \E x : rest' = [rest EXCEPT ![R] = x]
    BY <1>4 DEF HandlePublish, MqttSend, SendBegin
  <2>2. SendsInv'
    BY <2>1, TwoSenders DEF ControlInv, SendsInv
  <2>3. PlaceInv' /\ EarlyInv'
    BY <2>1 DEF ControlInv, PlaceInv, EarlyInv, Early, Reading
  <2>4. QED BY <2>2, <2>3 DEF ControlInv
<1>5. QED BY <1>1, <1>2, <1>3, <1>4

(* What begins or ends a send. *)
LEMMA SendControl ==
    ASSUME ControlInv, Ping \/ SendEnds \/ Break \/ Disconnect \/ RequestEnds \/ \E m \in Requests : Request(m)
    PROVE  ControlInv'
<1>1. CASE Ping
  <2>1. /\ pc = "up" /\ pc' = "sending" /\ UNCHANGED <<mux, connected, in, buf, out>>
        /\ \E x : rest' = [rest EXCEPT ![R] = x]
    BY <1>1 DEF Ping, MqttSend, SendBegin, recvVars
  <2>2. SendsInv'
    BY <2>1, TwoSenders DEF ControlInv, SendsInv
  <2>3. PlaceInv' /\ EarlyInv'
    BY <2>1 DEF ControlInv, PlaceInv, EarlyInv, Early, Reading
  <2>4. QED BY <2>2, <2>3 DEF ControlInv
<1>2. CASE SendEnds
  <2>1. /\ pc = "sending" /\ rest[R] = <<>> /\ pc' = "up" /\ mux' = (IF mux = R THEN Nobody ELSE mux)
        /\ UNCHANGED <<rest, connected, in, buf, out>>
    BY <1>2 DEF SendEnds, tcpVars, recvVars
  <2>2. SendsInv'
    BY <2>1, TwoSenders DEF ControlInv, SendsInv
  <2>3. PlaceInv' /\ EarlyInv'
    BY <2>1 DEF ControlInv, PlaceInv, EarlyInv, Early, Reading
  <2>4. QED BY <2>2, <2>3 DEF ControlInv
<1>3. CASE Break
  <2>1. /\ pc \in {"broken", "up"} /\ mux = Nobody /\ mux' = R /\ pc' = "bye" /\ connected' = FALSE
        /\ UNCHANGED <<in, buf, out>> /\ \E x : rest' = [rest EXCEPT ![R] = x]
    BY <1>3 DEF Break, MqttSend, SendBegin, recvVars
  <2>2. SendsInv'
    BY <2>1, TwoSenders DEF ControlInv, SendsInv
  <2>3. PlaceInv' /\ EarlyInv'
    BY <2>1 DEF ControlInv, PlaceInv, EarlyInv, Early, Reading
  <2>4. QED BY <2>2, <2>3 DEF ControlInv
<1>4. CASE Disconnect
  <2>1. /\ pc = "bye" /\ rest[R] = <<>> /\ pc' = "down" /\ UNCHANGED <<rest, mux, connected, in, buf, out>>
    BY <1>4 DEF Disconnect, noNet, recvVars
  <2>2. SendsInv'
    BY <2>1 DEF ControlInv, SendsInv
  <2>3. PlaceInv' /\ EarlyInv'
    BY <2>1 DEF ControlInv, PlaceInv, EarlyInv, Early, Reading
  <2>4. QED BY <2>2, <2>3 DEF ControlInv
<1>5. CASE RequestEnds
  <2>1. /\ mux = U /\ rest[U] = <<>> /\ mux' = Nobody /\ UNCHANGED <<rest, pc, connected, in, buf, out, pushed, got>>
    BY <1>5 DEF RequestEnds, tcpVars, recvVars
  <2>2. SendsInv' /\ PlaceInv' /\ EarlyInv'
    BY <2>1, TwoSenders DEF ControlInv, SendsInv, PlaceInv, EarlyInv
  <2>3. QED BY <2>2 DEF ControlInv
<1>6. ASSUME NEW m \in Requests, Request(m) PROVE ControlInv'
  <2>1. /\ connected /\ mux = Nobody /\ mux' = U /\ UNCHANGED <<pc, connected, in, buf, out, pushed, got>>
        /\ \E x : rest' = [rest EXCEPT ![U] = x]
    BY <1>6 DEF Request, MqttSend, SendBegin, recvVars
  <2>2. SendsInv'
    BY <2>1, TwoSenders DEF ControlInv, SendsInv
  <2>3. PlaceInv' /\ EarlyInv'
    BY <2>1, TwoSenders DEF ControlInv, PlaceInv, EarlyInv, Early, Reading
  <2>4. QED BY <2>2, <2>3 DEF ControlInv
<1>7. QED BY <1>1, <1>2, <1>3, <1>4, <1>5, <1>6

(* The network and the reply of a proxy. *)
LEMMA NetControl ==
    ASSUME ControlInv, (\E t \in Senders : Take(t) \/ GiveUp(t)) \/ Answer \/ Close
    PROVE  ControlInv'
<1>1. ASSUME NEW t \in Senders, Take(t) \/ GiveUp(t) PROVE ControlInv'
  <2>1. /\ rest[t] # <<>> /\ UNCHANGED <<mux, pc, connected, in, buf, pushed, got>>
        /\ \E x : rest' = [rest EXCEPT ![t] = x]
    <3>1. CASE Take(t)
      BY <3>1 DEF Take, TcpSend, PlainSend, SslSend2, SendSome, recvVars
    <3>2. CASE GiveUp(t)
      BY <3>2 DEF GiveUp, SendGivesUp, recvVars
    <3>3. QED BY <1>1, <3>1, <3>2
  <2>2. SendsInv' /\ PlaceInv'
    BY <2>1, TwoSenders DEF ControlInv, SendsInv, PlaceInv
  <2>3. pc \notin Early
    BY <2>1, TwoSenders DEF ControlInv, SendsInv, PlaceInv, Early
  <2>4. EarlyInv'
    BY <2>1, <2>3 DEF ControlInv, EarlyInv, Early
  <2>5. QED BY <2>2, <2>4 DEF ControlInv
<1>2. CASE Answer
  <2>1. /\ pc = "reply" /\ in' \in HttpReplies /\ buf = <<>>
        /\ UNCHANGED <<rest, mux, pc, connected, buf, out, pushed, got>>
    BY <1>2 DEF Answer, ownVars
  <2>2. SendsInv' /\ PlaceInv'
    BY <2>1 DEF ControlInv, SendsInv, PlaceInv
  <2>3. in' \in Seq(Int) /\ in' # <<>> /\ buf' \o in' = in'
    <3>1. ASSUME NEW z \in HttpReplies PROVE z \in Seq(Int) /\ z # <<>> /\ <<>> \o z = z
      <4>1. z \in Seq(Int) /\ Len(z) = 5 /\ Len(<<>>) = 0
        BY RepliesAre
      <4>2. QED BY <4>1, Whole
    <3>2. buf' = <<>> /\ in' \in HttpReplies
      BY <2>1
    <3>3. QED BY <3>1, <3>2
  <2>4. EarlyInv'
    BY <2>1, <2>3 DEF ControlInv, EarlyInv, Early
  <2>5. QED BY <2>2, <2>4 DEF ControlInv
<1>3. CASE Close
  BY <1>3, ControlQuiet DEF Close, ownVars
<1>4. QED BY <1>1, <1>2, <1>3

(* Only the client that has sent its CONNECT gets packets. *)
LEMMA PushAdds ==
    ASSUME ControlInv, PushedInv, Push
    PROVE  /\ pc \notin Early
           /\ \E p \in Packets : in' = in \o PushBytes(p) /\ pushed' = Append(pushed, p)
           /\ PushedInv'
           /\ UNCHANGED <<rest, mux, pc, connected, buf, out, want, got, torn>>
<1>1. PICK p : /\ PeerSends(p, PushBytes(p))
               /\ \/ pushed = <<>> /\ Frames(out) # <<>> /\ p \in {Connack(0), Connack(5)}
                  \/ pushed # <<>> /\ p \in Pushes
  BY DEF Push, Connack
<1>2. p \in Packets
  BY <1>1 DEF Packets
<1>3. pc \notin Early
  BY <1>1, NoFrames DEF ControlInv, EarlyInv
<1>4. /\ in' = in \o PushBytes(p) /\ pushed' = Append(pushed, p)
      /\ UNCHANGED <<rest, mux, pc, connected, buf, out, want, got, torn>>
  BY <1>1 DEF PeerSends
<1>5. PushedInv'
  <2>1. pushed \in Seq(Packets)
    BY DEF PushedInv
  <2>2. /\ pushed' \in Seq(Packets) /\ Len(pushed') = Len(pushed) + 1 /\ Len(pushed) \in Nat
        /\ pushed'[Len(pushed) + 1] = p /\ \A i \in 1..Len(pushed) : pushed'[i] = pushed[i]
    BY <1>2, <1>4, <2>1, AppendProperties
  <2>3. CASE pushed = <<>>
    <3>1. Len(pushed) = 0
      BY <2>3
    <3>2. pushed'[1] \in {Connack(0), Connack(5)} /\ \A i \in 2..Len(pushed') : FALSE
      BY <1>1, <2>2, <2>3, <3>1
    <3>3. QED BY <2>2, <3>2 DEF PushedInv
  <2>4. CASE pushed # <<>>
    <3>1. 1 \in 1..Len(pushed) /\ pushed'[1] = pushed[1]
      BY <2>1, <2>2, <2>4
    <3>2. ASSUME NEW i \in 2..Len(pushed') PROVE pushed'[i] \in Pushes
      <4>1. i = Len(pushed) + 1 \/ i \in 2..Len(pushed)
        BY <2>2
      <4>2. \A j \in 2..Len(pushed) : j \in 1..Len(pushed) /\ pushed[j] \in Pushes
        BY <2>2 DEF PushedInv
      <4>3. QED BY <1>1, <2>2, <2>4, <4>1, <4>2
    <3>3. QED BY <2>2, <2>4, <3>1, <3>2 DEF PushedInv
  <2>5. QED BY <2>3, <2>4
<1>6. QED BY <1>2, <1>3, <1>4, <1>5

(* The packets of the server. *)
LEMMA PushControl ==
    ASSUME ControlInv, PushedInv, Push
    PROVE  ControlInv'
<1>1. PICK p \in Packets : in' = in \o PushBytes(p) /\ pushed' = Append(pushed, p)
  BY PushAdds
<1>2. pc \notin Early /\ UNCHANGED <<rest, mux, pc, connected, buf, out, got>>
  BY PushAdds
<1>3. in' \in Seq(Int)
  BY <1>1, PacketsAre, JoinedType DEF ControlInv, EarlyInv
<1>4. SendsInv' /\ PlaceInv'
  BY <1>2 DEF ControlInv, SendsInv, PlaceInv
<1>5. EarlyInv'
  BY <1>2, <1>3 DEF ControlInv, EarlyInv, Early
<1>6. QED BY <1>4, <1>5 DEF ControlInv

(* Every step keeps the order of the connection. *)
LEMMA ControlStep == ControlInv /\ PushedInv /\ [Next]_vars => ControlInv'
<1> SUFFICES ASSUME ControlInv, PushedInv, [Next]_vars PROVE ControlInv'
  OBVIOUS
<1>1. CASE ConnectBegins \/ ConnectGoesOn \/ ConnectIsRefused
  BY <1>1, ConnectControl
<1>2. CASE HttpsRequest \/ HttpsReply \/ HttpsReplyFails
  BY <1>2, ProxyControl
<1>3. CASE Hello \/ RecvBegins
  BY <1>3, HelloControl
<1>4. CASE RecvHeader \/ RecvBody \/ RecvTimesOut \/ RecvFails
  BY <1>4, RecvControl
<1>5. CASE Accepted \/ Refused \/ Handle \/ HandlePublish
  BY <1>5, PacketControl
<1>6. CASE Ping \/ SendEnds \/ Break \/ Disconnect \/ RequestEnds \/ \E m \in Requests : Request(m)
  BY <1>6, SendControl
<1>7. CASE (\E t \in Senders : Take(t) \/ GiveUp(t)) \/ Answer \/ Close
  BY <1>7, NetControl
<1>8. CASE Push
  BY <1>8, PushControl
<1>9. CASE UNCHANGED vars
  BY <1>9, ControlQuiet DEF vars, tcpVars, ownVars
<1>10. QED BY <1>1, <1>2, <1>3, <1>4, <1>5, <1>6, <1>7, <1>8, <1>9 DEF Next

-----------------------------------------------------------------------------
(* Every step keeps the stream. *)

(* The stream is of interest only while packets come. *)
LEMMA StreamLeft ==
    ASSUME StreamInv, UNCHANGED <<pushed, got, torn>>, pc' \notin Streaming \cup {"bad"}
    PROVE  StreamInv'
<1>1. PushedInv' /\ (~torn => GotInv')
  BY DEF StreamInv, PushedInv, GotInv
<1>2. FlowInv' /\ HeaderInv' /\ BodyInv' /\ PacketInv' /\ pc' # "bad"
  BY DEF FlowInv, HeaderInv, BodyInv, PacketInv, Streaming
<1>3. QED BY <1>1, <1>2 DEF StreamInv

(* What a step does not touch. *)
LEMMA StreamQuiet ==
    ASSUME StreamInv, UNCHANGED <<pushed, got, torn, in, buf, want, pc, connected>>
    PROVE  StreamInv'
BY DEF StreamInv, PushedInv, GotInv, FlowInv, Flow, HeaderInv, BodyInv, PacketInv

(* Between packets it is what comes in. *)
LEMMA StreamBetween ==
    ASSUME StreamInv, UNCHANGED <<pushed, got, torn, in, connected>>,
           pc \in {"helloing", "up", "sending"}, pc' \in {"helloing", "up", "sending"}
    PROVE  StreamInv'
<1>1. PushedInv' /\ (~torn => GotInv')
  BY DEF StreamInv, PushedInv, GotInv
<1>2. ~torn => FlowInv'
  <2>1. Flow = in /\ Flow' = in' /\ pc \in Streaming
    BY DEF Flow, Streaming
  <2>2. QED BY <2>1 DEF StreamInv, FlowInv
<1>3. HeaderInv' /\ BodyInv' /\ PacketInv' /\ pc' # "bad"
  BY DEF HeaderInv, BodyInv, PacketInv
<1>4. QED BY <1>1, <1>2, <1>3 DEF StreamInv

(* A connect begins with no packets, and its CONNECT with no bytes. *)
LEMMA ConnectStream ==
    ASSUME ControlInv, StreamInv,
           \/ ConnectBegins \/ ConnectGoesOn \/ ConnectIsRefused
           \/ HttpsRequest \/ HttpsReply \/ HttpsReplyFails \/ Hello
    PROVE  StreamInv'
<1>1. CASE ConnectBegins
  <2>1. pushed' = <<>> /\ got' = <<>> /\ pc' = "tcp"
    BY <1>1 DEF ConnectBegins
  <2>2. <<>> \in Seq(Packets) /\ Len(<<>>) = 0
    OBVIOUS
  <2>3. PushedInv' /\ GotInv'
    BY <2>1, <2>2 DEF PushedInv, GotInv
  <2>4. FlowInv' /\ HeaderInv' /\ BodyInv' /\ PacketInv' /\ pc' # "bad"
    BY <2>1 DEF FlowInv, HeaderInv, BodyInv, PacketInv, Streaming
  <2>5. QED BY <2>3, <2>4 DEF StreamInv
<1>2. CASE ConnectGoesOn \/ ConnectIsRefused
  <2>1. pc' \in {"tcp", "get", "hello", "down"} /\ UNCHANGED <<pushed, got, torn>>
    BY <1>2 DEF ConnectGoesOn, ConnectIsRefused, recvVars
  <2>2. QED BY <2>1, StreamLeft DEF Streaming
<1>3. CASE HttpsRequest \/ HttpsReply \/ HttpsReplyFails
  <2>1. pc' \in {"reply", "hello", "down"} /\ UNCHANGED <<pushed, got, torn>>
    <3>1. CASE HttpsRequest
      BY <3>1 DEF HttpsRequest, ConnectError
    <3>2. CASE HttpsReply
      BY <3>2 DEF HttpsReply, ConnectError
    <3>3. CASE HttpsReplyFails
      BY <3>3 DEF HttpsReplyFails, ConnectError
    <3>4. QED BY <1>3, <3>1, <3>2, <3>3
  <2>2. QED BY <2>1, StreamLeft DEF Streaming
<1>4. CASE Hello
  <2>1. /\ pc = "hello" /\ pc' = "helloing" /\ UNCHANGED <<pushed, got, torn, in, connected>>
    BY <1>4 DEF Hello, MqttSend, recvVars
  <2>2. in = <<>> /\ pushed = <<>> /\ got = <<>> /\ ~connected
    BY <2>1 DEF ControlInv, EarlyInv, PlaceInv, Early
  <2>3. PushedInv' /\ (~torn => GotInv')
    BY <2>1 DEF StreamInv, PushedInv, GotInv
  <2>4. FlowInv'
    <3>1. Stream(<<>>, <<>>, 0)
      <4>1. <<>> \in Seq(Packets) /\ Len(<<>>) = 0
        OBVIOUS
      <4>2. QED BY <4>1, StreamEnds
    <3>2. Flow' = <<>> /\ pushed' = <<>> /\ Len(got') = 0 /\ got' = <<>> /\ ~connected'
      BY <2>1, <2>2 DEF Flow
    <3>3. QED BY <3>1, <3>2 DEF FlowInv
  <2>5. HeaderInv' /\ BodyInv' /\ PacketInv' /\ pc' # "bad"
    BY <2>1 DEF HeaderInv, BodyInv, PacketInv
  <2>6. QED BY <2>1, <2>3, <2>4, <2>5 DEF StreamInv
<1>5. QED BY <1>1, <1>2, <1>3, <1>4

(* What remains of the stream, and the first packet of it, while there are *)
(* bytes.                                                                  *)
LEMMA NextPacket ==
    ASSUME ControlInv, StreamInv, ~torn, pc \in Streaming, Flow # <<>>
    PROVE  /\ Len(got) < Len(pushed) /\ Len(got) \in Nat /\ pushed[Len(got) + 1] \in Packets
           /\ IsPacket(PushBytes(pushed[Len(got) + 1])) /\ PushBytes(pushed[Len(got) + 1]) \in Seq(Int)
           /\ \E u \in Seq(Int) : /\ Flow = PushBytes(pushed[Len(got) + 1]) \o u
                                  /\ Stream(u, pushed, Len(got) + 1)
<1> DEFINE g == Len(got)
<1>1. pushed \in Seq(Packets) /\ g \in 0..Len(pushed) /\ Stream(Flow, pushed, g)
  BY DEF StreamInv, PushedInv, GotInv, FlowInv
<1>2. g \in 0..(Len(pushed) - 1)
  BY <1>1, StreamNotRead
<1>3. g < Len(pushed) /\ g \in Nat
  BY <1>1, <1>2
<1> HIDE DEF g
<1>4. /\ pushed[g + 1] \in Packets
      /\ \E u \in Seq(Int) : Flow = PushBytes(pushed[g + 1]) \o u /\ Stream(u, pushed, g + 1)
  BY <1>1, <1>2, StreamFirst
<1>5. IsPacket(PushBytes(pushed[g + 1])) /\ PushBytes(pushed[g + 1]) \in Seq(Int)
  BY <1>4, PacketsAre DEF Sent
<1>6. QED BY <1>3, <1>4, <1>5 DEF g

(* A step that leaves the packets alone, and is after a packet cut off. *)
LEMMA TornStream ==
    ASSUME StreamInv, UNCHANGED pushed, torn'
    PROVE  StreamInv'
BY DEF StreamInv, PushedInv

(* mqtt_recv begins between two packets. *)
LEMMA BeginsStream ==
    ASSUME ControlInv, StreamInv, RecvBegins
    PROVE  StreamInv'
<1>1. /\ pc \in {"up", "helloing"} /\ pc' = "header" /\ buf' = <<>> /\ want' = 2
      /\ UNCHANGED <<pushed, got, torn, in, connected>>
  BY DEF RecvBegins, tcpVars
<1>2. Flow = in /\ Flow' = in
  <2>1. in \in Seq(Int)
    BY DEF ControlInv, EarlyInv
  <2>2. <<>> \o in = in
    BY <2>1, Whole
  <2>3. Flow' = buf' \o in'
    BY <1>1 DEF Flow
  <2>4. QED BY <1>1, <2>2, <2>3 DEF Flow
<1>3. PushedInv' /\ (~torn => GotInv')
  BY <1>1 DEF StreamInv, PushedInv, GotInv
<1>4. ~torn => FlowInv'
  BY <1>1, <1>2 DEF StreamInv, FlowInv, Streaming
<1>5. HeaderInv' /\ BodyInv' /\ PacketInv' /\ pc' # "bad"
  BY <1>1 DEF HeaderInv, BodyInv, PacketInv
<1>6. QED BY <1>1, <1>3, <1>4, <1>5 DEF StreamInv

(* Bytes of the header come: not more than it has, and the length is       *)
(* right.                                                                  *)
LEMMA HeaderStream ==
    ASSUME ControlInv, StreamInv, RecvHeader
    PROVE  StreamInv'
<1>1. PICK k : Moves(k)
  BY HeaderMoves
<1>2. /\ pc = "header" /\ UNCHANGED <<pushed, got, torn, connected>>
  BY DEF RecvHeader
<1>3. CASE torn
  BY <1>2, <1>3, TornStream
<1>4. CASE ~torn
  <2> DEFINE l == Len(buf)
             m == Len(buf')
             g == Len(got)
             w == PushBytes(pushed[g + 1])
             h == DecodeHeaderLength(Tail(buf') \o <<0>>, m)
  <2>1. /\ buf \in Seq(Int) /\ in \in Seq(Int) /\ buf' \in Seq(Int) /\ in' \in Seq(Int)
        /\ buf' \o in' = buf \o in /\ k \in Nat \ {0} /\ k <= want /\ m = l + k
        /\ \A i \in 1..l : buf'[i] = buf[i]
    BY <1>1, MovesType DEF ControlInv, EarlyInv
  <2>2. l \in Nat /\ (l = 0 <=> buf = <<>>) /\ m \in Nat
    BY <2>1, EmptySeq, LenProperties
  <2>3. \/ buf = <<>> /\ want = 2
        \/ buf # <<>> /\ want = 1 /\ \A i \in 2..l : More(buf[i])
    BY <1>2, <1>4 DEF StreamInv, HeaderInv
  <2>4. Flow = buf' \o in'
    BY <1>2, <2>1 DEF Flow
  <2>5. Flow # <<>>
    <3>1. Len(buf' \o in') = Len(buf') + Len(in') /\ Len(in') \in Nat
      BY <2>1, Joined
    <3>2. Len(<<>>) = 0
      OBVIOUS
    <3> HIDE DEF l
    <3>3. Len(buf' \o in') # 0
      BY <2>1, <2>2, <3>1
    <3>4. QED BY <2>4, <3>2, <3>3
  <2>6. pc \in Streaming
    BY <1>2 DEF Streaming
  <2>7. g < Len(pushed) /\ w \in Seq(Int) /\ IsPacket(w) /\ \E u \in Seq(Int) : Flow = w \o u
    BY <1>4, <2>5, <2>6, NextPacket
  <2>8. PICK u \in Seq(Int) : buf' \o in' = w \o u
    BY <2>4, <2>7
  <2>9. m >= 1 /\ (buf' # <<>>)
    <3>1. m >= 1
      <4> HIDE DEF l, m
      <4>1. QED BY <2>1, <2>2
    <3>2. Len(<<>>) = 0
      OBVIOUS
    <3>3. QED BY <2>2, <3>1, <3>2
  <2>10. \A i \in 2..(m - 1) : More(buf'[i])
    <3> SUFFICES ASSUME NEW i \in 2..(m - 1) PROVE More(buf'[i])
      OBVIOUS
    <3> HIDE DEF l, m
    <3>1. CASE buf = <<>> /\ want = 2
      BY <2>1, <2>2, <3>1
    <3>2. CASE buf # <<>> /\ want = 1 /\ \A j \in 2..l : More(buf[j])
      <4>1. i \in 2..l /\ i \in 1..l
        BY <2>1, <2>2, <3>2
      <4>2. QED BY <2>1, <3>2, <4>1
    <3>3. QED BY <2>3, <3>1, <3>2
  <2>11. Flow' = Flow
    <3>1. pc' \in {"header", "body", "packet"} \/ pc' = "bad"
      BY DEF RecvHeader
    <3>2. pc' # "bad" => Flow' = buf' \o in'
      BY <3>1 DEF Flow
    <3>3. pc' # "bad"
      <4>1. CASE m > 1 /\ ~More(buf'[m])
        <5>1. h.ok
          BY <2>1, <2>7, <2>8, <2>9, <2>10, <4>1, HeaderStep
        <5> HIDE DEF h
        <5>2. QED BY <4>1, <5>1 DEF RecvHeader, h
      <4>2. CASE ~(m > 1 /\ ~More(buf'[m]))
        <5>1. pc' = pc
          BY <4>2 DEF RecvHeader
        <5>2. QED BY <1>2, <5>1
      <4>3. QED BY <4>1, <4>2
    <3>4. QED BY <2>4, <3>2, <3>3
  <2>12. PushedInv' /\ GotInv'
    BY <1>2, <1>4 DEF StreamInv, PushedInv, GotInv
  <2>13. FlowInv'
    BY <1>2, <1>4, <2>6, <2>11 DEF StreamInv, FlowInv
  <2>14. HeaderInv' /\ BodyInv' /\ PacketInv' /\ pc' # "bad"
    <3>1. CASE m > 1 /\ ~More(buf'[m])
      <4>1. h.ok /\ h.len \in Nat /\ m + h.len = Len(w)
        BY <2>1, <2>7, <2>8, <2>9, <2>10, <3>1, HeaderStep
      <4> HIDE DEF h
      <4>2. want' = h.len /\ pc' = (IF h.len = 0 THEN "packet" ELSE "body")
        BY <3>1, <4>1 DEF RecvHeader, h
      <4>3. CASE h.len = 0
        <5>1. buf' = w
          <6>1. Len(buf') = Len(w)
            BY <2>2, <4>1, <4>3
          <6> HIDE DEF w
          <6>2. QED BY <2>1, <2>7, <2>8, <6>1, SameFront
        <5>2. PacketInv'
          BY <1>2, <2>7, <5>1 DEF PacketInv
        <5>3. pc' = "packet"
          BY <4>2, <4>3
        <5>4. QED BY <5>2, <5>3 DEF HeaderInv, BodyInv
      <4>4. CASE h.len # 0
        <5>1. pc' = "body" /\ want' \in Nat \ {0} /\ m + want' = Len(w)
          BY <4>1, <4>2, <4>4
        <5>2. BodyInv'
          BY <1>2, <2>7, <2>9, <5>1 DEF BodyInv
        <5>3. QED BY <5>1, <5>2 DEF HeaderInv, PacketInv
      <4>5. QED BY <4>3, <4>4
    <3>2. CASE ~(m > 1 /\ ~More(buf'[m]))
      <4>1. want' = 1 /\ pc' = "header"
        BY <1>2, <3>2 DEF RecvHeader
      <4>2. ASSUME NEW i \in 2..m PROVE More(buf'[i])
        <5> HIDE DEF m
        <5>1. CASE i = m
          BY <2>2, <3>2, <5>1
        <5>2. CASE i # m
          <6>1. i \in 2..(m - 1)
            BY <2>2, <5>2
          <6>2. QED BY <2>10, <6>1
        <5>3. QED BY <5>1, <5>2
      <4>3. HeaderInv'
        BY <2>9, <4>1, <4>2 DEF HeaderInv
      <4>4. QED BY <4>1, <4>3 DEF BodyInv, PacketInv
    <3>3. QED BY <3>1, <3>2
  <2>15. QED BY <2>12, <2>13, <2>14 DEF StreamInv
<1>5. QED BY <1>3, <1>4

(* Bytes of the body come: not more than it has. *)
LEMMA BodyStream ==
    ASSUME ControlInv, StreamInv, RecvBody
    PROVE  StreamInv'
<1>1. PICK k : Moves(k) /\ want' = want - k
  BY BodyMoves
<1>2. /\ pc = "body" /\ UNCHANGED <<pushed, got, torn, connected>>
      /\ pc' = (IF want' = 0 THEN "packet" ELSE "body")
  BY DEF RecvBody
<1>3. CASE torn
  BY <1>2, <1>3, TornStream
<1>4. CASE ~torn
  <2> DEFINE l == Len(buf)
             m == Len(buf')
             g == Len(got)
             w == PushBytes(pushed[g + 1])
  <2>1. /\ buf \in Seq(Int) /\ in \in Seq(Int) /\ buf' \in Seq(Int) /\ in' \in Seq(Int)
        /\ buf' \o in' = buf \o in /\ k \in Nat \ {0} /\ k <= want /\ m = l + k
    BY <1>1, MovesType DEF ControlInv, EarlyInv
  <2>2. l \in Nat /\ m \in Nat
    BY <2>1, LenProperties
  <2>3. want \in Nat \ {0} /\ g < Len(pushed) /\ l + want = Len(w) /\ buf # <<>>
    BY <1>2, <1>4 DEF StreamInv, BodyInv
  <2>4. Flow = buf' \o in' /\ Flow' = buf' \o in'
    BY <1>2, <2>1 DEF Flow
  <2>5. pc \in Streaming
    BY <1>2 DEF Streaming
  <2>6. Flow # <<>>
    <3>1. Len(buf' \o in') = Len(buf') + Len(in') /\ Len(in') \in Nat
      BY <2>1, Joined
    <3>2. Len(<<>>) = 0
      OBVIOUS
    <3> HIDE DEF l
    <3>3. Len(buf' \o in') # 0
      BY <2>1, <2>2, <3>1
    <3>4. QED BY <2>4, <3>2, <3>3
  <2>7. w \in Seq(Int) /\ \E u \in Seq(Int) : Flow = w \o u
    BY <1>4, <2>5, <2>6, NextPacket
  <2>8. PICK u \in Seq(Int) : buf' \o in' = w \o u
    BY <2>4, <2>7
  <2>9. m + want' = Len(w) /\ want' \in Nat /\ m # 0
    <3>1. want' = want - k
      BY <1>1
    <3> DEFINE h == Len(w)
    <3> HIDE DEF l, m, w
    <3>2. h = l + want
      BY <2>3
    <3> HIDE DEF h
    <3>3. m + want' = h /\ want' \in Nat /\ m # 0
      BY <2>1, <2>2, <2>3, <3>1, <3>2
    <3>4. QED BY <3>3 DEF h
  <2>10. PushedInv' /\ GotInv'
    BY <1>2, <1>4 DEF StreamInv, PushedInv, GotInv
  <2>11. FlowInv'
    BY <1>2, <1>4, <2>4, <2>5 DEF StreamInv, FlowInv
  <2>12. CASE want' = 0
    <3>1. Len(buf') = Len(w)
      BY <2>2, <2>9, <2>12
    <3>2. buf' = w
      <4> HIDE DEF w
      <4>1. QED BY <2>1, <2>7, <2>8, <3>1, SameFront
    <3>3. PacketInv'
      BY <1>2, <2>3, <3>2 DEF PacketInv
    <3>4. pc' = "packet"
      BY <1>2, <2>12
    <3>5. QED BY <2>10, <2>11, <3>3, <3>4 DEF StreamInv, HeaderInv, BodyInv
  <2>13. CASE want' # 0
    <3>1. buf' # <<>>
      <4>1. Len(<<>>) = 0
        OBVIOUS
      <4>2. QED BY <2>9, <4>1
    <3>2. BodyInv'
      BY <1>2, <2>3, <2>9, <2>13, <3>1 DEF BodyInv
    <3>3. pc' = "body"
      BY <1>2, <2>13
    <3>4. QED BY <2>10, <2>11, <3>2, <3>3 DEF StreamInv, HeaderInv, PacketInv
  <2>14. QED BY <2>12, <2>13
<1>5. QED BY <1>3, <1>4

(* mqtt_recv fails, gives up before a packet, or cuts one off. *)
LEMMA FailsStream ==
    ASSUME ControlInv, StreamInv, RecvTimesOut \/ RecvFails \/ Refused
    PROVE  StreamInv'
<1>1. RecvError => pc' \in {"broken", "down"}
  BY DEF RecvError, ConnectError
<1>2. CASE RecvTimesOut
  <2>1. UNCHANGED <<pushed, got, connected, buf>> /\ pc \in {"header", "body"}
    BY <1>2 DEF RecvTimesOut
  <2>2. CASE RecvError /\ UNCHANGED torn
    BY <1>1, <2>1, <2>2, StreamLeft DEF Streaming
  <2>3. CASE pc' = "up" /\ torn' = (torn \/ buf # <<>>) /\ UNCHANGED <<tcpVars, mux, heap>>
    <3>1. CASE torn'
      BY <2>1, <3>1, TornStream
    <3>2. CASE ~torn'
      <4>1. ~torn /\ buf = <<>> /\ in' = in
        BY <2>3, <3>2 DEF tcpVars
      <4>2. pc = "header"
        BY <2>1, <4>1 DEF StreamInv, BodyInv
      <4>3. Flow' = Flow
        <5>1. in \in Seq(Int)
          BY DEF ControlInv, EarlyInv
        <5>2. <<>> \o in = in
          BY <5>1, Whole
        <5>3. Flow = buf \o in /\ Flow' = in'
          BY <2>3, <4>2 DEF Flow
        <5>4. QED BY <4>1, <5>2, <5>3
      <4>4. PushedInv' /\ GotInv'
        BY <2>1, <4>1 DEF StreamInv, PushedInv, GotInv
      <4>5. FlowInv'
        BY <2>1, <4>1, <4>2, <4>3 DEF StreamInv, FlowInv, Streaming
      <4>6. HeaderInv' /\ BodyInv' /\ PacketInv' /\ pc' # "bad"
        BY <2>3 DEF HeaderInv, BodyInv, PacketInv
      <4>7. QED BY <4>4, <4>5, <4>6 DEF StreamInv
    <3>3. QED BY <3>1, <3>2
  <2>4. QED BY <1>2, <2>2, <2>3 DEF RecvTimesOut
<1>3. CASE RecvFails
  <2>1. RecvError /\ UNCHANGED <<pushed, got, torn>>
    BY <1>3 DEF RecvFails, recvVars
  <2>2. QED BY <1>1, <2>1, StreamLeft DEF Streaming
<1>4. CASE Refused
  <2>1. pc' = "down" /\ UNCHANGED <<pushed, got, torn>>
    BY <1>4 DEF Refused, ConnectError, recvVars
  <2>2. QED BY <2>1, StreamLeft DEF Streaming
<1>5. QED BY <1>2, <1>3, <1>4

(* A packet that is complete is done with: if the client notes for it what *)
(* the server sent, the next one is at the front of the stream.            *)
LEMMA PacketStream ==
    ASSUME ControlInv, StreamInv, ~torn, pc = "packet", pc' \in {"up", "sending"}, connected',
           UNCHANGED <<pushed, torn, in>>, got' = Append(got, pushed[Len(got) + 1])
    PROVE  StreamInv'
<1> DEFINE g == Len(got)
           w == PushBytes(pushed[g + 1])
<1>1. /\ buf \in Seq(Int) /\ in \in Seq(Int) /\ Flow = buf \o in /\ pc \in Streaming
      /\ buf = w /\ g < Len(pushed)
  BY DEF ControlInv, EarlyInv, Flow, Streaming, StreamInv, PacketInv
<1>2. Len(w) # 0
  <2>1. pushed \in Seq(Packets) /\ g \in Nat /\ Len(pushed) \in Nat
    BY DEF StreamInv, PushedInv, GotInv
  <2>2. g + 1 \in 1..Len(pushed)
    BY <1>1, <2>1
  <2>3. pushed[g + 1] \in Packets
    BY <2>1, <2>2, ElementOfSeq
  <2>4. IsPacket(w)
    BY <2>3, PacketsAre DEF Sent
  <2> HIDE DEF w
  <2>5. PICK n \in Nat : n < Weight[5] /\ Len(w) = 1 + Size(n) + n
    BY <2>4 DEF IsPacket
  <2>6. Size(n) \in 1..4
    BY <2>5, SizeIs
  <2>7. QED BY <2>5, <2>6
<1>3. Flow # <<>>
  <2>1. Len(buf \o in) = Len(buf) + Len(in) /\ Len(in) \in Nat /\ Len(buf) \in Nat
    BY <1>1, Joined
  <2>2. Len(<<>>) = 0
    OBVIOUS
  <2>3. Len(buf \o in) # 0
    BY <1>1, <1>2, <2>1
  <2>4. QED BY <1>1, <2>2, <2>3
<1>4. PICK u \in Seq(Int) : Flow = w \o u /\ Stream(u, pushed, g + 1)
  BY <1>1, <1>3, NextPacket
<1>5. pushed[g + 1] \in Packets /\ w \in Seq(Int) /\ g \in Nat
  BY <1>1, <1>3, NextPacket
<1>6. in = u
  <2>1. buf \o in = w \o u /\ Len(buf) = Len(w)
    BY <1>1, <1>4
  <2> HIDE DEF w
  <2>2. QED BY <1>1, <1>5, <2>1, SameFront
<1>7. /\ got \in Seq(Packets) /\ \A i \in 1..g : got[i] = pushed[i]
      /\ Len(pushed) \in Nat /\ PushedInv
  BY DEF StreamInv, GotInv, PushedInv
<1>8. /\ got' \in Seq(Packets) /\ Len(got') = g + 1 /\ got' # <<>>
      /\ got'[g + 1] = pushed[g + 1] /\ \A i \in 1..g : got'[i] = got[i]
  BY <1>5, <1>7, AppendProperties
<1> HIDE DEF g, w
<1>9. GotInv'
  <2>1. Len(got') \in 0..Len(pushed)
    BY <1>1, <1>5, <1>7, <1>8
  <2>2. \A i \in 1..(g + 1) : i \in 1..g \/ i = g + 1
    BY <1>5
  <2>3. \A i \in 1..(g + 1) : got'[i] = pushed[i]
    BY <1>7, <1>8, <2>2
  <2>4. QED BY <1>8, <2>1, <2>3 DEF GotInv
<1>10. FlowInv'
  <2>1. Flow' = in'
    BY DEF Flow
  <2>2. Stream(in, pushed, g + 1)
    BY <1>4, <1>6
  <2>3. QED BY <1>8, <2>1, <2>2 DEF FlowInv
<1>11. HeaderInv' /\ BodyInv' /\ PacketInv' /\ pc' # "bad"
  BY DEF HeaderInv, BodyInv, PacketInv
<1>12. PushedInv'
  BY <1>7 DEF PushedInv
<1>13. QED BY <1>9, <1>10, <1>11, <1>12 DEF StreamInv

(* What the client notes of a packet is what the server sent. *)
LEMMA HandleStream ==
    ASSUME ControlInv, StreamInv, Accepted \/ Handle \/ HandlePublish
    PROVE  StreamInv'
<1>1. /\ pc = "packet" /\ pc' \in {"up", "sending"} /\ connected' /\ UNCHANGED <<pushed, torn, in>>
  <2>1. CASE Accepted
    BY <2>1 DEF Accepted, tcpVars
  <2>2. CASE Handle
    BY <2>2 DEF Handle, tcpVars
  <2>3. CASE HandlePublish
    BY <2>3 DEF HandlePublish, MqttSend
  <2>4. QED BY <2>1, <2>2, <2>3
<1>2. CASE torn
  BY <1>1, <1>2, TornStream
<1>3. CASE ~torn
  <2> DEFINE g == Len(got)
  <2>1. /\ g \in Nat /\ g < Len(pushed) /\ buf = PushBytes(pushed[g + 1]) /\ (connected <=> got # <<>>)
        /\ pushed \in Seq(Packets) /\ Len(pushed) \in Nat /\ got \in Seq(Packets)
    BY <1>1, <1>3 DEF StreamInv, PacketInv, FlowInv, Streaming, GotInv, PushedInv
  <2>2. got' = Append(got, pushed[g + 1])
    <3>1. CASE Accepted
      <4>1. /\ ~connected /\ ProcessConnack(buf) = "ok"
            /\ got' = Append(got, Connack(0))
        BY <3>1 DEF Accepted, Connack
      <4>2. got = <<>> /\ g = 0 /\ g + 1 = 1
        BY <2>1, <4>1
      <4>3. pushed # <<>> /\ pushed[1] \in {Connack(0), Connack(5)}
        BY <2>1, <4>2 DEF StreamInv, PushedInv
      <4>4. PICK id \in {0, 5} : pushed[1] = Connack(id)
        BY <4>3
      <4>5. id = 0
        BY <2>1, <4>1, <4>2, <4>4, ConnackIs
      <4>6. QED BY <4>1, <4>2, <4>4, <4>5
    <3>2. CASE Handle \/ HandlePublish
      <4>1. connected /\ got' = Append(got, Understood(buf))
        BY <3>2 DEF Handle, HandlePublish
      <4>2. g # 0
        BY <2>1, <4>1, EmptySeq
      <4>3. g + 1 \in 2..Len(pushed)
        BY <2>1, <4>2
      <4>4. HasPacket(pushed[g + 1])
        BY <4>3, PushAssumption DEF StreamInv, PushedInv
      <4>5. Understood(buf) = pushed[g + 1]
        BY <2>1, <4>4, PushRead
      <4>6. QED BY <4>1, <4>5
    <3>3. QED BY <3>1, <3>2
  <2>3. QED BY <1>1, <1>3, <2>2, PacketStream
<1>4. QED BY <1>2, <1>3

(* A packet of the server goes to the end of what is not read. *)
LEMMA PushStream ==
    ASSUME ControlInv, StreamInv, Push
    PROVE  StreamInv'
<1>1. PICK p \in Packets : in' = in \o PushBytes(p) /\ pushed' = Append(pushed, p)
  BY PushAdds DEF StreamInv
<1>2. PushedInv' /\ UNCHANGED <<pc, connected, buf, want, got, torn>>
  BY PushAdds DEF StreamInv
<1>3. CASE torn
  BY <1>2, <1>3 DEF StreamInv
<1>4. CASE ~torn
  <2> DEFINE g == Len(got)
             n == Len(pushed)
             w == PushBytes(p)
  <2>1. /\ pushed \in Seq(Packets) /\ got \in Seq(Packets) /\ n \in Nat /\ g \in 0..n
        /\ \A i \in 1..g : got[i] = pushed[i]
    BY <1>4 DEF StreamInv, PushedInv, GotInv
  <2>2. /\ pushed' \in Seq(Packets) /\ Len(pushed') = n + 1
        /\ \A i \in 1..n : pushed'[i] = pushed[i]
    BY <1>1, <2>1, AppendProperties
  <2>3. w \in Seq(Int) /\ in \in Seq(Int) /\ buf \in Seq(Int)
    BY PacketsAre DEF ControlInv, EarlyInv
  <2>4. GotInv'
    <3> HIDE DEF g, n
    <3>1. g \in 0..(n + 1) /\ \A i \in 1..g : i \in 1..n
      BY <2>1
    <3>2. \A i \in 1..g : got[i] = pushed'[i]
      BY <2>1, <2>2, <3>1
    <3>3. got' = got /\ Len(got') \in 0..Len(pushed')
      BY <1>2, <2>2, <3>1 DEF g
    <3>4. QED BY <2>1, <3>2, <3>3 DEF GotInv, g
  <2>5. Flow' = Flow \o w
    <3>1. (buf \o in) \o w = buf \o (in \o w)
      BY <2>3, JoinedThree
    <3> HIDE DEF w
    <3>2. CASE pc \in {"header", "body", "packet"}
      <4>1. Flow = buf \o in /\ Flow' = buf \o in'
        BY <1>2, <3>2 DEF Flow
      <4>2. in' = in \o w
        BY <1>1 DEF w
      <4>3. QED BY <3>1, <4>1, <4>2
    <3>3. CASE pc \notin {"header", "body", "packet"}
      <4>1. Flow = in /\ Flow' = in'
        BY <1>2, <3>3 DEF Flow
      <4>2. in' = in \o w
        BY <1>1 DEF w
      <4>3. QED BY <4>1, <4>2
    <3>4. QED BY <3>2, <3>3
  <2>6. FlowInv'
    <3>1. ASSUME pc \in Streaming
          PROVE  Stream(Flow', pushed', Len(got'))
      <4>1. Stream(Flow, pushed, g)
        BY <1>4, <3>1 DEF StreamInv, FlowInv
      <4>2. Stream(Flow \o w, Append(pushed, p), g)
        BY <2>1, <4>1, StreamGrows
      <4>3. QED BY <1>1, <1>2, <2>5, <4>2
    <3>2. pc \in Streaming => (connected <=> got # <<>>)
      BY <1>4 DEF StreamInv, FlowInv
    <3>3. QED BY <1>2, <3>1, <3>2 DEF FlowInv
  <2>7. g < n => pushed'[g + 1] = pushed[g + 1] /\ Len(got') < Len(pushed')
    <3>1. Len(got') = g
      BY <1>2
    <3> HIDE DEF g, n
    <3>2. g < n => g + 1 \in 1..n /\ g < n + 1
      BY <2>1
    <3>3. QED BY <2>2, <3>1, <3>2
  <2>8. HeaderInv'
    BY <1>2, <1>4 DEF StreamInv, HeaderInv
  <2>9. BodyInv'
    BY <1>2, <1>4, <2>7 DEF StreamInv, BodyInv
  <2>10. PacketInv' /\ pc' # "bad"
    BY <1>2, <1>4, <2>7 DEF StreamInv, PacketInv
  <2>11. QED BY <1>2, <2>4, <2>6, <2>8, <2>9, <2>10 DEF StreamInv
<1>5. QED BY <1>3, <1>4

(* What sends leaves the stream of the server alone. *)
LEMMA SendStream ==
    ASSUME ControlInv, StreamInv,
           \/ Ping \/ SendEnds \/ Break \/ Disconnect \/ RequestEnds
           \/ \E m \in Requests : Request(m)
           \/ \E t \in Senders : Take(t) \/ GiveUp(t)
    PROVE  StreamInv'
<1>1. CASE Ping \/ SendEnds
  <2>1. /\ pc \in {"up", "sending"} /\ pc' \in {"up", "sending"}
        /\ UNCHANGED <<pushed, got, torn, in, connected>>
    BY <1>1 DEF Ping, SendEnds, MqttSend, tcpVars, recvVars
  <2>2. QED BY <2>1, StreamBetween
<1>2. CASE Break \/ Disconnect
  <2>1. pc' \in {"bye", "down"} /\ UNCHANGED <<pushed, got, torn>>
    BY <1>2 DEF Break, Disconnect, recvVars
  <2>2. QED BY <2>1, StreamLeft DEF Streaming
<1>3. CASE RequestEnds
  <2>1. UNCHANGED <<pushed, got, torn, in, buf, want, pc, connected>>
    BY <1>3 DEF RequestEnds, tcpVars, recvVars
  <2>2. QED BY <2>1, StreamQuiet
<1>4. ASSUME NEW m \in Requests, Request(m) PROVE StreamInv'
  <2>1. UNCHANGED <<pushed, got, torn, in, buf, want, pc, connected>>
    BY <1>4 DEF Request, MqttSend, recvVars
  <2>2. QED BY <2>1, StreamQuiet
<1>5. ASSUME NEW t \in Senders, Take(t) \/ GiveUp(t) PROVE StreamInv'
  <2>1. UNCHANGED <<pushed, got, torn, in, buf, want, pc, connected>>
    <3>1. CASE Take(t)
      BY <3>1 DEF Take, TcpSend, PlainSend, SslSend2, SendSome, recvVars
    <3>2. CASE GiveUp(t)
      BY <3>2 DEF GiveUp, SendGivesUp, recvVars
    <3>3. QED BY <1>5, <3>1, <3>2
  <2>2. QED BY <2>1, StreamQuiet
<1>6. QED BY <1>1, <1>2, <1>3, <1>4, <1>5

(* Every step keeps the stream. *)
LEMMA StreamStep == ControlInv /\ StreamInv /\ [Next]_vars => StreamInv'
<1> SUFFICES ASSUME ControlInv, StreamInv, [Next]_vars PROVE StreamInv'
  OBVIOUS
<1>1. CASE \/ ConnectBegins \/ ConnectGoesOn \/ ConnectIsRefused
           \/ HttpsRequest \/ HttpsReply \/ HttpsReplyFails \/ Hello
  BY <1>1, ConnectStream
<1>2. CASE RecvBegins
  BY <1>2, BeginsStream
<1>3. CASE RecvHeader
  BY <1>3, HeaderStream
<1>4. CASE RecvBody
  BY <1>4, BodyStream
<1>5. CASE RecvTimesOut \/ RecvFails \/ Refused
  BY <1>5, FailsStream
<1>6. CASE Accepted \/ Handle \/ HandlePublish
  BY <1>6, HandleStream
<1>7. CASE \/ Ping \/ SendEnds \/ Break \/ Disconnect \/ RequestEnds
           \/ \E m \in Requests : Request(m)
           \/ \E t \in Senders : Take(t) \/ GiveUp(t)
  BY <1>7, SendStream
<1>8. CASE Push
  BY <1>8, PushStream
<1>9. CASE Answer
  <2>1. pc = "reply" /\ pc' = "reply" /\ UNCHANGED <<pushed, got, torn>>
    BY <1>9 DEF Answer, ownVars
  <2>2. QED BY <2>1, StreamLeft DEF Streaming
<1>10. CASE Close \/ UNCHANGED vars
  <2>1. UNCHANGED <<pushed, got, torn, in, buf, want, pc, connected>>
    BY <1>10 DEF Close, vars, tcpVars, ownVars
  <2>2. QED BY <2>1, StreamQuiet
<1>11. QED BY <1>1, <1>2, <1>3, <1>4, <1>5, <1>6, <1>7, <1>8, <1>9, <1>10 DEF Next

(* At the start there is no connection. *)
LEMMA ReadStarts == Init => ReadInv
<1> SUFFICES ASSUME Init PROVE ReadInv
  OBVIOUS
<1>1. /\ mux = Nobody /\ pc = "down" /\ connected = FALSE /\ buf = <<>> /\ in = <<>> /\ out = <<>>
      /\ pushed = <<>> /\ got = <<>> /\ rest = [t \in Senders |-> <<>>]
  BY DEF Init, TcpInit
<1>2. <<>> \in Seq(Int) /\ <<>> \in Seq(Packets) /\ Len(<<>>) = 0
  OBVIOUS
<1>3. SendsInv
  BY <1>1, TwoSenders DEF SendsInv
<1>4. PlaceInv /\ EarlyInv
  BY <1>1, <1>2 DEF PlaceInv, EarlyInv, Early, Reading
<1>5. PushedInv /\ GotInv
  BY <1>1, <1>2 DEF PushedInv, GotInv
<1>6. FlowInv /\ HeaderInv /\ BodyInv /\ PacketInv /\ pc # "bad"
  BY <1>1 DEF FlowInv, HeaderInv, BodyInv, PacketInv, Streaming
<1>7. QED BY <1>3, <1>4, <1>5, <1>6 DEF ReadInv, ControlInv, StreamInv

(* Every step keeps both. *)
LEMMA ReadStep == ReadInv /\ [Next]_vars => ReadInv'
<1> SUFFICES ASSUME ReadInv, [Next]_vars PROVE ReadInv'
  OBVIOUS
<1>1. ControlInv /\ StreamInv /\ PushedInv
  BY DEF ReadInv, StreamInv
<1>2. QED BY <1>1, ControlStep, StreamStep DEF ReadInv

(* What the client has read is the beginning of what was sent. *)
LEMMA ReadEnough == ReadInv => ReadsWhatWasSent
<1> SUFFICES ASSUME ReadInv, ~torn PROVE Prefix(got, pushed)
  BY DEF ReadsWhatWasSent
<1> DEFINE g == Len(got)
           q == SubSeq(pushed, 1, g)
<1>1. /\ got \in Seq(Packets) /\ pushed \in Seq(Packets) /\ g \in 0..Len(pushed) /\ Len(pushed) \in Nat
      /\ \A i \in 1..g : got[i] = pushed[i]
  BY DEF ReadInv, StreamInv, GotInv, PushedInv
<1>2. g \in Nat /\ g <= Len(pushed)
  <2> HIDE DEF g
  <2>1. QED BY <1>1
<1>3. q \in Seq(Packets) /\ Len(q) = g /\ \A i \in 1..g : q[i] = pushed[i]
  <2> HIDE DEF g
  <2>1. \A i \in 1..g : pushed[i] \in Packets
    BY <1>1, <1>2, ElementOfSeq
  <2>2. /\ q \in Seq(Packets) /\ Len(q) = (IF 1 <= g THEN g - 1 + 1 ELSE 0)
        /\ \A i \in 1..(g - 1 + 1) : q[i] = pushed[1 + i - 1]
    BY <1>1, <1>2, <2>1, SubSeqProperties
  <2> HIDE DEF q
  <2>3. Len(q) = g
    BY <1>2, <2>2
  <2>4. ASSUME NEW i \in 1..g PROVE q[i] = pushed[i]
    <3>1. i \in 1..(g - 1 + 1) /\ 1 + i - 1 = i
      BY <1>2
    <3>2. QED BY <2>2, <3>1
  <2>5. QED BY <2>2, <2>3, <2>4
<1>4. got = q
  <2> HIDE DEF q
  <2>1. \A i \in 1..Len(got) : got[i] = q[i]
    BY <1>1, <1>3
  <2>2. QED BY <1>1, <1>3, <2>1, SeqEqual
<1>5. QED BY <1>2, <1>4 DEF Prefix

(* However the network cuts the stream, the client reads exactly the       *)
(* packets the server sent, in their order, unless mqtt_recv has given up  *)
(* a packet half read and gone on.                                         *)
THEOREM ReadsWhatWasSentCorrect == Spec => []ReadsWhatWasSent
<1>1. Init => ReadInv
  BY ReadStarts
<1>2. ReadInv /\ [Next]_vars => ReadInv'
  BY ReadStep
<1>3. ReadInv => ReadsWhatWasSent
  BY ReadEnough
<1>4. QED BY <1>1, <1>2, <1>3, PTL DEF Spec

-----------------------------------------------------------------------------
(* The length of a message, as the code writes it. *)

(* The function in EncodeFixedHeaderLen is what it is defined to be. *)
LEMMA EncodeIs ==
    \A n \in Nat : EncodeFixedHeaderLen(n) = IF n < Radix THEN <<n>>
                                             ELSE <<(n % Radix) + Radix>> \o EncodeFixedHeaderLen(n \div Radix)
<1> DEFINE Small == {n \in Nat : n < Radix}
           m == [n \in Nat |-> n]
           c == [n \in Nat |-> <<n>>]
           p == [n \in Nat |-> n \div Radix]
           h == [n \in Nat |-> [s \in Seq(Int) |-> <<(n % Radix) + Radix>> \o s]]
           Body(D) == [n \in Nat |-> IF n < Radix THEN <<n>> ELSE <<(n % Radix) + Radix>> \o D[n \div Radix]]
           E == CHOOSE D : D = Body(D)
<1>1. Radix \in Nat /\ Radix > 1
  BY RadixIs
<1>2. Recursion(Nat, Seq(Int), m, Small, c, p, h)
  <2>1. \A n \in Nat : n \div Radix \in Nat /\ (n % Radix) + Radix \in Int
    BY <1>1, DivMod
  <2>2. c \in [Nat -> Seq(Int)] /\ p \in [Nat -> Nat] /\ m \in [Nat -> Nat]
    BY <2>1
  <2>3. h \in [Nat -> [Seq(Int) -> Seq(Int)]]
    <3>1. \A n \in Nat : \A s \in Seq(Int) : <<(n % Radix) + Radix>> \o s \in Seq(Int)
      BY <2>1, OneElement, JoinedType
    <3>2. \A n \in Nat : [s \in Seq(Int) |-> <<(n % Radix) + Radix>> \o s] \in [Seq(Int) -> Seq(Int)]
      BY <3>1
    <3>3. QED BY <3>2
  <2>4. \A n \in Nat \ Small : p[n] < m[n]
    BY <1>1, DivMod
  <2>5. \A n \in Nat \ Small : m[p[n]] < m[n]
    BY <2>1, <2>4
  <2>6. QED BY <2>2, <2>3, <2>5 DEF Recursion
<1>3. PICK f \in [Nat -> Seq(Int)] : \A n \in Nat : f[n] = IF n \in Small THEN c[n] ELSE h[n][f[p[n]]]
  <2> HIDE DEF m, Small, c, p, h, Body, E
  <2>1. \E f \in [Nat -> Seq(Int)] : Solves(f, Nat, Small, c, p, h)
    BY <1>2, RecursionExists
  <2>2. QED BY <2>1 DEF Solves
<1>4. f = Body(f)
  <2>1. \A n \in Nat : n \div Radix \in Nat
    BY <1>1, DivMod
  <2>2. \A n \in Nat : f[n] = IF n < Radix THEN <<n>> ELSE <<(n % Radix) + Radix>> \o f[n \div Radix]
    BY <1>3, <2>1
  <2>3. QED BY <2>2
<1>5. E = Body(E)
  BY <1>4
<1>6. \A n : EncodeFixedHeaderLen(n) = E[n]
  BY DEF EncodeFixedHeaderLen
<1> HIDE DEF E
<1>7. \A n \in Nat : n \div Radix \in Nat
  BY <1>1, DivMod
<1>8. QED BY <1>5, <1>6, <1>7

(* The digits of n from the j-th on, as the code writes them. *)
WritesFrom(n, j) ==
    LET e == EncodeFixedHeaderLen(Lefts(n)[j])
    IN  /\ e \in Seq(Int) /\ Len(e) = Size(n) - j + 1
        /\ \A i \in 1..(Size(n) - j + 1) :
             e[i] = (Lefts(n)[j + i - 1] % Radix) + (IF j + i - 1 < Size(n) THEN Radix ELSE 0)

(* A digit more. *)
LEMMA WritesMore ==
    ASSUME NEW n \in Nat, n < Weight[5], NEW j \in 1..(Size(n) - 1), WritesFrom(n, j + 1)
    PROVE  WritesFrom(n, j)
<1> DEFINE l == Lefts(n)
           k == Size(n)
           e == EncodeFixedHeaderLen(l[j + 1])
           d == (l[j] % Radix) + Radix
           Elem(i) == (l[i] % Radix) + (IF i < k THEN Radix ELSE 0)
<1>1. k \in 1..4 /\ l[j] >= Radix /\ j \in 1..3 /\ j < k /\ l[j] \in Nat /\ d \in Int
  <2>1. k \in 1..4 /\ l[j] >= Radix
    BY SizeIs
  <2>2. j \in 1..3 /\ j < k /\ j \in 1..4
    BY <2>1
  <2>3. l[j] \in Nat /\ l[j] % Radix \in 0..(Radix - 1)
    BY <2>2, LeftsAre
  <2>4. Radix \in Nat
    BY RadixIs
  <2>5. QED BY <2>1, <2>2, <2>3, <2>4
<1>2. l[j + 1] = l[j] \div Radix
  <2>1. j = 1 \/ j = 2 \/ j = 3
    BY <1>1
  <2>2. QED BY <2>1 DEF Lefts
<1>3. EncodeFixedHeaderLen(l[j]) = <<d>> \o e
  <2>1. ~(l[j] < Radix)
    BY <1>1, RadixIs
  <2>2. QED BY <1>1, <1>2, <2>1, EncodeIs
<1>4. /\ e \in Seq(Int) /\ Len(e) = k - (j + 1) + 1
      /\ \A i \in 1..(k - (j + 1) + 1) : e[i] = Elem((j + 1) + i - 1)
  BY DEF WritesFrom
<1>5. <<d>> \in Seq(Int) /\ Len(<<d>>) = 1 /\ <<d>>[1] = d
  BY <1>1, OneElement
<1>6. d = Elem(j)
  BY <1>1
<1> DEFINE f == <<d>>
           w == f \o e
<1>7. w \in Seq(Int) /\ Len(w) = 1 + Len(e) /\ w[1] = d /\ \A i \in 1..Len(e) : w[1 + i] = e[i]
  <2> HIDE DEF e, d
  <2>1. f \in Seq(Int) /\ Len(f) = 1 /\ f[1] = d
    BY <1>5
  <2> HIDE DEF f
  <2>2. /\ w \in Seq(Int) /\ Len(w) = Len(f) + Len(e)
        /\ \A i \in 1..Len(f) : w[i] = f[i]
        /\ \A i \in 1..Len(e) : w[Len(f) + i] = e[i]
    BY <1>4, <2>1, Joined
  <2> HIDE DEF w
  <2>3. QED BY <2>1, <2>2
<1> HIDE DEF w, f, e, d, Elem, k
<1>8. ASSUME NEW i \in 1..(k - j + 1) PROVE w[i] = Elem(j + i - 1)
  <2>1. CASE i = 1
    <3>1. j + i - 1 = j
      BY <1>1, <2>1
    <3>2. QED BY <1>6, <1>7, <2>1, <3>1
  <2>2. CASE i # 1
    <3>1. i - 1 \in 1..(k - (j + 1) + 1) /\ (j + 1) + (i - 1) - 1 = j + i - 1 /\ 1 + (i - 1) = i
      BY <1>1, <2>2
    <3>2. QED BY <1>4, <1>7, <3>1
  <2>3. QED BY <2>1, <2>2
<1>9. Len(w) = k - j + 1
  BY <1>1, <1>4, <1>7
<1>10. EncodeFixedHeaderLen(l[j]) = w
  BY <1>3 DEF w, f
<1>11. QED BY <1>7, <1>8, <1>9, <1>10 DEF WritesFrom, Elem, k

(* The last digit. *)
LEMMA WritesLast ==
    ASSUME NEW n \in Nat, n < Weight[5]
    PROVE  WritesFrom(n, Size(n))
<1> DEFINE k == Size(n)
           x == Lefts(n)[k]
<1>1. k \in 1..4 /\ x < Radix
  BY SizeIs
<1>2. x \in Nat /\ x % Radix = x
  BY <1>1, LeftsAre
<1>3. EncodeFixedHeaderLen(x) = <<x>>
  BY <1>1, <1>2, EncodeIs
<1>4. <<x>> \in Seq(Int) /\ Len(<<x>>) = 1 /\ <<x>>[1] = x
  BY <1>2, OneElement
<1> HIDE DEF k
<1>5. k - k + 1 = 1 /\ ~(k < k)
  BY <1>1
<1>6. ASSUME NEW i \in 1..1 PROVE <<x>>[i] = (Lefts(n)[k + i - 1] % Radix) + (IF k + i - 1 < k THEN Radix ELSE 0)
  <2>1. i = 1 /\ k + i - 1 = k
    BY <1>1
  <2>2. QED BY <1>2, <1>4, <1>5, <2>1
<1>7. QED
  <2>1. /\ EncodeFixedHeaderLen(x) \in Seq(Int) /\ Len(EncodeFixedHeaderLen(x)) = k - k + 1
        /\ \A i \in 1..(k - k + 1) :
             EncodeFixedHeaderLen(x)[i] = (Lefts(n)[k + i - 1] % Radix) + (IF k + i - 1 < k THEN Radix ELSE 0)
    BY <1>3, <1>4, <1>5, <1>6
  <2>2. QED BY <2>1 DEF WritesFrom, k

(* The code writes the digits of the standard. *)
LEMMA Written ==
    ASSUME NEW n \in Nat, n < Weight[5]
    PROVE  LET e == EncodeFixedHeaderLen(n)
           IN  e \in Seq(Int) /\ Len(e) = Size(n) /\ Digits(e, 0, n)
<1> DEFINE k == Size(n)
           e == EncodeFixedHeaderLen(n)
<1>1. k \in 1..4
  BY SizeIs
<1>2. WritesFrom(n, k) /\ \A j \in 1..(k - 1) : WritesFrom(n, j + 1) => WritesFrom(n, j)
  BY WritesLast, WritesMore
<1> HIDE DEF k
<1>3. WritesFrom(n, 1)
  <2>1. k >= 2 => WritesFrom(n, k - 1)
    <3>1. k >= 2 => k - 1 \in 1..(k - 1) /\ (k - 1) + 1 = k
      BY <1>1
    <3>2. QED BY <1>2, <3>1
  <2>2. k >= 3 => WritesFrom(n, k - 2)
    <3>1. k >= 3 => k >= 2 /\ k - 2 \in 1..(k - 1) /\ (k - 2) + 1 = k - 1
      BY <1>1
    <3>2. QED BY <1>2, <2>1, <3>1
  <2>3. k >= 4 => WritesFrom(n, k - 3)
    <3>1. k >= 4 => k >= 3 /\ k - 3 \in 1..(k - 1) /\ (k - 3) + 1 = k - 2
      BY <1>1
    <3>2. QED BY <1>2, <2>2, <3>1
  <2>4. k = 1 \/ (k >= 2 /\ k - 1 = 1) \/ (k >= 3 /\ k - 2 = 1) \/ (k >= 4 /\ k - 3 = 1)
    BY <1>1
  <2>5. QED BY <1>2, <2>1, <2>2, <2>3, <2>4
<1>4. Lefts(n)[1] = n
  BY LeftsAre
<1>5. /\ e \in Seq(Int) /\ Len(e) = k - 1 + 1
      /\ \A i \in 1..(k - 1 + 1) :
           e[i] = (Lefts(n)[1 + i - 1] % Radix) + (IF 1 + i - 1 < k THEN Radix ELSE 0)
  BY <1>3, <1>4 DEF WritesFrom, k
<1>6. k - 1 + 1 = k /\ \A i \in 1..k : 1 + i - 1 = i /\ 0 + i = i
  BY <1>1
<1> HIDE DEF e
<1>7. \A i \in 1..k : e[0 + i] = (Lefts(n)[i] % Radix) + (IF i < k THEN Radix ELSE 0)
  BY <1>5, <1>6
<1>8. QED BY <1>5, <1>6, <1>7 DEF Digits, k, e

(* A quotient is below w if the number is below as many times the base.    *)
LEMMA Quotient ==
    ASSUME NEW y \in Nat, NEW r \in Nat, r < Radix, NEW w \in Nat
    PROVE  y < w <=> Radix * y + r < Radix * w
<1>1. Radix \in Nat
  BY RadixIs
<1>2. ASSUME y < w PROVE Radix * y + r < Radix * w
  <2>1. Radix * w + 0 >= Radix * (y + 1)
    BY <1>1, <1>2, Products
  <2>2. Radix * (y + 1) = Radix * y + Radix /\ Radix * y \in Nat /\ Radix * w \in Nat
    BY <1>1
  <2>3. QED BY <1>1, <2>1, <2>2
<1>3. ASSUME y >= w PROVE Radix * y + r >= Radix * w
  BY <1>1, <1>3, Products
<1>4. Radix * y \in Nat /\ Radix * w \in Nat
  BY <1>1
<1>5. QED BY <1>2, <1>3, <1>4

(* How many digits a number needs can be read from the weights. *)
LEMMA LeftBelow ==
    ASSUME NEW n \in Nat
    PROVE  \A k \in 1..4 : Lefts(n)[k] < Radix <=> n < Weight[k + 1]
<1> DEFINE l == Lefts(n)
           R2 == Radix * Radix
           R3 == Radix * R2
           R4 == Radix * R3
<1>1. Radix \in Nat /\ R2 \in Nat /\ R3 \in Nat /\ R4 \in Nat
  BY RadixIs
<1>2. Weight[2] = Radix /\ Weight[3] = R2 /\ Weight[4] = R3 /\ Weight[5] = R4
  BY <1>1, WeightIs
<1> DEFINE r(i) == l[i] % Radix
<1>3. /\ l[1] = n /\ \A i \in 1..4 : l[i] \in Nat /\ r(i) \in Nat /\ r(i) < Radix
      /\ l[1] = Radix * l[2] + r(1)
      /\ l[2] = Radix * l[3] + r(2)
      /\ l[3] = Radix * l[4] + r(3)
  <2>1. /\ l[1] = n /\ \A i \in 1..4 : l[i] \in Nat /\ r(i) \in 0..(Radix - 1)
        /\ l[1] = Radix * l[2] + r(1)
        /\ l[2] = Radix * l[3] + r(2)
        /\ l[3] = Radix * l[4] + r(3)
    BY LeftsAre
  <2> HIDE DEF l, r
  <2>2. QED BY <1>1, <2>1
<1> HIDE DEF l, R2, R3, R4, r
<1>4. \A i \in 1..3 : \A w \in Nat : l[i + 1] < w <=> l[i] < Radix * w
  <2> SUFFICES ASSUME NEW i \in 1..3, NEW w \in Nat PROVE l[i + 1] < w <=> l[i] < Radix * w
    OBVIOUS
  <2>1. i \in 1..4 /\ i + 1 \in 1..4 /\ (i = 1 \/ i = 2 \/ i = 3)
    OBVIOUS
  <2>2. l[i] = Radix * l[i + 1] + r(i)
    BY <1>3, <2>1
  <2>3. l[i + 1] \in Nat /\ r(i) \in Nat /\ r(i) < Radix
    BY <1>3, <2>1
  <2>4. l[i + 1] < w <=> Radix * l[i + 1] + r(i) < Radix * w
    BY <2>3, Quotient
  <2>5. QED BY <2>2, <2>4
<1>5. \A w \in Nat : /\ l[2] < w <=> l[1] < Radix * w
                     /\ l[3] < w <=> l[2] < Radix * w
                     /\ l[4] < w <=> l[3] < Radix * w
  <2>1. 1 + 1 = 2 /\ 2 + 1 = 3 /\ 3 + 1 = 4 /\ 1 \in 1..3 /\ 2 \in 1..3 /\ 3 \in 1..3
    OBVIOUS
  <2> SUFFICES ASSUME NEW w \in Nat
               PROVE  /\ l[2] < w <=> l[1] < Radix * w
                      /\ l[3] < w <=> l[2] < Radix * w
                      /\ l[4] < w <=> l[3] < Radix * w
    OBVIOUS
  <2>2. /\ (l[1 + 1] < w <=> l[1] < Radix * w) /\ (l[2 + 1] < w <=> l[2] < Radix * w)
        /\ (l[3 + 1] < w <=> l[3] < Radix * w)
    BY <1>4, <2>1
  <2>3. QED BY <2>1, <2>2
<1>6. l[2] < Radix <=> n < R2
  BY <1>1, <1>3, <1>5 DEF R2
<1>7. l[3] < Radix <=> n < R3
  <2>1. l[3] < Radix <=> l[2] < R2
    BY <1>1, <1>5 DEF R2
  <2>2. l[2] < R2 <=> l[1] < R3
    BY <1>1, <1>5 DEF R3
  <2>3. QED BY <1>3, <2>1, <2>2
<1>8. l[4] < Radix <=> n < R4
  <2>1. l[4] < Radix <=> l[3] < R2
    BY <1>1, <1>5 DEF R2
  <2>2. l[3] < R2 <=> l[2] < R3
    BY <1>1, <1>5 DEF R3
  <2>3. l[2] < R3 <=> l[1] < R4
    BY <1>1, <1>5 DEF R4
  <2>4. QED BY <1>3, <2>1, <2>2, <2>3
<1>9. l[1] < Radix <=> n < Radix
  BY <1>3
<1>10. ASSUME NEW k \in 1..4 PROVE l[k] < Radix <=> n < Weight[k + 1]
  <2>1. k = 1 \/ k = 2 \/ k = 3 \/ k = 4
    OBVIOUS
  <2>2. 1 + 1 = 2 /\ 2 + 1 = 3 /\ 3 + 1 = 4 /\ 4 + 1 = 5
    OBVIOUS
  <2>3. QED BY <1>2, <1>6, <1>7, <1>8, <1>9, <2>1, <2>2
<1>11. QED BY <1>10 DEF l

(* What is left of a digit is less. *)
LEMMA LeftsFall ==
    ASSUME NEW n \in Nat
    PROVE  \A i \in 1..3 : Lefts(n)[i] < Radix => Lefts(n)[i + 1] < Radix
<1> DEFINE l == Lefts(n)
<1> SUFFICES ASSUME NEW i \in 1..3, l[i] < Radix PROVE l[i + 1] < Radix
  OBVIOUS
<1>1. Radix \in Nat /\ Radix > 1
  BY RadixIs
<1>2. l[i + 1] = l[i] \div Radix /\ i \in 1..4
  <2>1. i = 1 \/ i = 2 \/ i = 3
    OBVIOUS
  <2>2. QED BY <2>1 DEF Lefts
<1>3. l[i] \in Nat
  BY <1>2, LeftsAre
<1> HIDE DEF l
<1> DEFINE x == l[i]
           y == x \div Radix
<1>4. x \in Nat /\ x < Radix /\ y \in Nat /\ x % Radix \in 0..(Radix - 1) /\ x = Radix * y + (x % Radix)
  BY <1>1, <1>3, DivMod
<1>5. y < 1
  <2> DEFINE r == x % Radix
  <2>1. r \in Nat /\ r < Radix /\ Radix * y + r < Radix * 1
    BY <1>1, <1>4
  <2> HIDE DEF r, y
  <2>2. QED BY <1>4, <2>1, Quotient
<1>6. QED BY <1>1, <1>2, <1>4, <1>5

(* The header that the code allocates is as long as the one it writes.     *)
LEMMA HeaderAllocated ==
    ASSUME NEW n \in Nat, n < Weight[5]
    PROVE  FixedHeaderLen(n) = 1 + Size(n)
<1> DEFINE l == Lefts(n)
           k == Size(n)
           P(j) == n < Weight[j] /\ n >= Weight[j - 1]
<1>1. k \in 1..4 /\ l[k] < Radix /\ \A j \in 1..(k - 1) : l[j] >= Radix
  BY SizeIs
<1>2. l[1] = n /\ Radix \in Nat /\ \A i \in 1..4 : l[i] \in Nat
  BY LeftsAre, RadixIs
<1>3. \A i \in 1..4 : l[i] < Radix <=> n < Weight[i + 1]
  BY LeftBelow
<1>4. \A i \in 1..3 : l[i] < Radix => l[i + 1] < Radix
  BY LeftsFall
<1>5. Weight[2] \in Nat /\ Weight[3] \in Nat /\ Weight[4] \in Nat
  BY <1>2, WeightIs
<1> HIDE DEF l, k
<1>6. CASE k = 1
  <2>1. n < Radix
    BY <1>1, <1>2, <1>6
  <2>2. QED BY <1>6, <2>1 DEF FixedHeaderLen, k
<1>7. CASE k # 1
  <2>1. k \in 2..4 /\ ~(n < Radix)
    <3>1. 1 \in 1..(k - 1)
      BY <1>1, <1>7
    <3>2. QED BY <1>1, <1>2, <1>7, <3>1
  <2>2. \A j \in 3..5 : P(j) <=> l[j - 1] < Radix /\ ~(l[j - 2] < Radix)
    <3> SUFFICES ASSUME NEW j \in 3..5 PROVE P(j) <=> l[j - 1] < Radix /\ ~(l[j - 2] < Radix)
      OBVIOUS
    <3>1. j - 1 \in 1..4 /\ j - 2 \in 1..4 /\ (j - 1) + 1 = j /\ (j - 2) + 1 = j - 1
      OBVIOUS
    <3>2. Weight[j - 1] \in Nat
      <4>1. j - 1 = 2 \/ j - 1 = 3 \/ j - 1 = 4
        OBVIOUS
      <4>2. QED BY <1>5, <4>1
    <3>3. (l[j - 1] < Radix <=> n < Weight[j]) /\ (l[j - 2] < Radix <=> n < Weight[j - 1])
      BY <1>3, <3>1
    <3>4. QED BY <3>2, <3>3
  <2>3. P(k + 1) /\ k + 1 \in 3..5
    <3>1. k + 1 \in 3..5 /\ (k + 1) - 1 = k /\ (k + 1) - 2 = k - 1 /\ k - 1 \in 1..(k - 1) /\ k - 1 \in 1..4
      BY <2>1
    <3>2. l[k] < Radix /\ ~(l[k - 1] < Radix)
      BY <1>1, <1>2, <3>1
    <3> HIDE DEF P
    <3>3. QED BY <2>2, <3>1, <3>2
  <2>4. ASSUME NEW j \in 3..5, P(j) PROVE j = k + 1
    <3>1. l[j - 1] < Radix /\ ~(l[j - 2] < Radix) /\ j - 1 \in 1..4 /\ j - 2 \in 1..4
      BY <2>2, <2>4
    <3>2. ~(j - 1 < k)
      <4>1. ASSUME j - 1 < k PROVE FALSE
        <5>1. j - 1 \in 1..(k - 1)
          BY <2>1, <4>1
        <5>2. QED BY <1>1, <1>2, <3>1, <5>1
      <4>2. QED BY <4>1
    <3>3. ~(k < j - 1)
      <4>1. ASSUME k < j - 1 PROVE FALSE
        <5>1. k = j - 2 \/ (k = 2 /\ j = 5)
          BY <2>1, <4>1
        <5>2. k # j - 2
          BY <1>1, <3>1
        <5>3. k = 2 /\ j - 2 = 3
          BY <5>1, <5>2
        <5>4. l[2] < Radix /\ 2 \in 1..3 /\ 2 + 1 = 3
          BY <1>1, <5>3
        <5>5. l[3] < Radix
          BY <1>4, <5>4
        <5>6. QED BY <3>1, <5>3, <5>5
      <4>2. QED BY <4>1
    <3>4. QED BY <2>1, <3>2, <3>3
  <2>5. FixedHeaderLen(n) = CHOOSE j \in 3..5 : P(j)
    BY <2>1 DEF FixedHeaderLen
  <2> HIDE DEF P
  <2>6. QED BY <2>1, <2>3, <2>4, <2>5 DEF k
<1>8. QED BY <1>6, <1>7

(* A message of the code is one by the standard. *)
LEMMA FramedIs ==
    ASSUME NEW first \in Int, NEW body \in Seq(Int), Len(body) < Weight[5]
    PROVE  IsMessage(Framed(first, body), first, body)
<1> DEFINE n == Len(body)
           k == Size(n)
           e == EncodeFixedHeaderLen(n)
           f == <<first>>
           h == f \o e
           z == <<0>>
           s == SubSeq(h \o z, 1, 1 + k)
           w == s \o body
<1>1. n \in Nat /\ n < Weight[5] /\ k \in 1..4
  BY SizeIs
<1> HIDE DEF n
<1>2. e \in Seq(Int) /\ Len(e) = k /\ Digits(e, 0, n)
  BY <1>1, Written
<1>3. Framed(first, body) = w
  <2>1. FixedHeaderLen(Len(body)) = 1 + Size(Len(body))
    BY <1>1, HeaderAllocated DEF n
  <2>2. QED BY <2>1 DEF Framed, n
<1>4. f \in Seq(Int) /\ Len(f) = 1 /\ f[1] = first /\ z \in Seq(Int) /\ Len(z) = 1
  BY OneElement
<1> HIDE DEF e, f, z, k
<1>5. h \in Seq(Int) /\ Len(h) = 1 + k /\ h[1] = first /\ \A i \in 1..k : h[1 + i] = e[i]
  <2>1. /\ h \in Seq(Int) /\ Len(h) = Len(f) + Len(e)
        /\ \A i \in 1..Len(f) : h[i] = f[i]
        /\ \A i \in 1..Len(e) : h[Len(f) + i] = e[i]
    BY <1>2, <1>4, Joined
  <2> HIDE DEF h
  <2>2. QED BY <1>2, <1>4, <2>1
<1> HIDE DEF h
<1>6. s = h
  <2> DEFINE x == h \o z
  <2>1. x \in Seq(Int) /\ Len(x) = Len(h) + Len(z) /\ \A i \in 1..Len(h) : x[i] = h[i]
    BY <1>4, <1>5, Joined
  <2> HIDE DEF x
  <2>2. /\ 1 \in Nat \ {0} /\ 1 + Len(h) - 1 <= Len(x) /\ 1 + Len(h) - 1 = 1 + k
        /\ \A i \in 1..Len(h) : x[1 + i - 1] = h[i]
    <3>1. Len(h) \in Nat /\ Len(h) = 1 + k /\ Len(x) = Len(h) + 1
      BY <1>1, <1>4, <1>5, <2>1
    <3>2. \A i \in 1..Len(h) : 1 + i - 1 = i
      BY <3>1
    <3>3. QED BY <1>1, <2>1, <3>1, <3>2
  <2>3. SubSeq(x, 1, 1 + Len(h) - 1) = h
    BY <1>5, <2>1, <2>2, PartIs
  <2>4. QED BY <2>2, <2>3 DEF x
<1> HIDE DEF s
<1>7. /\ w \in Seq(Int) /\ Len(w) = Len(s) + n
      /\ \A i \in 1..Len(s) : w[i] = s[i]
      /\ \A i \in 1..n : w[Len(s) + i] = body[i]
  <2>1. s \in Seq(Int)
    BY <1>5, <1>6
  <2>2. /\ w \in Seq(Int) /\ Len(w) = Len(s) + Len(body)
        /\ \A i \in 1..Len(s) : w[i] = s[i]
        /\ \A i \in 1..Len(body) : w[Len(s) + i] = body[i]
    BY <2>1, Joined
  <2>3. QED BY <2>2 DEF n
<1> HIDE DEF w
<1>8. Len(w) = 1 + k + n /\ w[1] = first /\ \A i \in 1..n : w[1 + k + i] = body[i]
  <2>1. Len(s) = 1 + k /\ 1 \in 1..(1 + k)
    BY <1>1, <1>5, <1>6
  <2>2. QED BY <1>5, <1>6, <1>7, <2>1
<1>9. \A i \in 1..k : w[1 + i] = e[i]
  <2>1. \A i \in 1..k : 1 + i \in 1..(1 + k)
    BY <1>1
  <2>2. QED BY <1>5, <1>6, <1>7, <2>1
<1>10. Digits(w, 1, n)
  <2>1. \A i \in 1..k : e[0 + i] = (Lefts(n)[i] % Radix) + (IF i < k THEN Radix ELSE 0)
    BY <1>2 DEF Digits, k
  <2>2. \A i \in 1..k : 0 + i = i
    BY <1>1
  <2>3. \A i \in 1..k : w[1 + i] = (Lefts(n)[i] % Radix) + (IF i < k THEN Radix ELSE 0)
    BY <1>9, <2>1, <2>2
  <2>4. QED BY <2>3 DEF Digits, k
<1>11. QED BY <1>3, <1>7, <1>8, <1>10 DEF IsMessage, n, k

-----------------------------------------------------------------------------
(* The bytes of a request say what it is. *)

(* The bytes w are those of the request m: a message by the standard that  *)
(* the server reads as m.                                                  *)
Says(w, m) ==
    \E first \in Int, body \in Seq(Int) :
      /\ Len(body) < Weight[5] /\ IsMessage(w, first, body)
      /\ Reads([first |-> first, body |-> body]) = m

(* What the code frames says what it reads as. *)
LEMMA FramedSays ==
    ASSUME NEW first \in Int, NEW body \in Seq(Int), Len(body) < Weight[5],
           NEW m, Reads([first |-> first, body |-> body]) = m
    PROVE  Says(Framed(first, body), m)
BY FramedIs DEF Says

(* The same for the messages without a length that varies. *)
LEMMA ShortSays ==
    ASSUME NEW w \in Seq(Int), NEW body \in Seq(Int), Len(body) \in 0..3, Len(w) = 2 + Len(body), w[2] = Len(body),
           \A i \in 1..Len(body) : w[2 + i] = body[i],
           NEW m, Reads([first |-> w[1], body |-> body]) = m
    PROVE  Says(w, m)
<1> DEFINE n == Len(body)
<1>1. n \in 0..3 /\ n \in Nat /\ n < Weight[5] /\ Size(n) = 1 /\ n < Radix
  <2>1. n \in 0..3
    OBVIOUS
  <2> HIDE DEF n
  <2>2. QED BY <2>1, ShortSize, WeightBig, RadixIs
<1> HIDE DEF n
<1>2. Lefts(n)[1] = n /\ n % Radix = n
  <2>1. Lefts(n)[1] = n
    BY <1>1, LeftsAre
  <2>2. 1 \in 1..4 /\ Lefts(n)[1] < Radix
    BY <1>1, <2>1
  <2>3. Lefts(n)[1] % Radix = Lefts(n)[1]
    BY <1>1, <2>2, LeftsAre
  <2>4. QED BY <2>1, <2>3
<1>3. w[1 + 1] = (Lefts(n)[1] % Radix) + 0
  BY <1>1, <1>2 DEF n
<1>4. Digits(w, 1, n)
  <2>1. ASSUME NEW i \in 1..1 PROVE w[1 + i] = (Lefts(n)[i] % Radix) + (IF i < 1 THEN Radix ELSE 0)
    <3>1. i = 1 /\ ~(i < 1)
      OBVIOUS
    <3>2. QED BY <1>3, <3>1
  <2>2. QED BY <1>1, <2>1 DEF Digits
<1>5. Len(w) = 1 + 1 + n /\ \A i \in 1..n : 1 + 1 + i = 2 + i
  BY <1>1 DEF n
<1>6. IsMessage(w, w[1], body)
  <2>1. \A i \in 1..n : w[1 + 1 + i] = body[i]
    BY <1>5 DEF n
  <2>2. QED BY <1>1, <1>4, <1>5, <2>1 DEF IsMessage, n
<1>7. w[1] \in Int
  <2>1. 1 \in 1..Len(w)
    BY <1>1, <1>5
  <2>2. QED BY <2>1
<1>8. QED BY <1>1, <1>6, <1>7 DEF Says, n

(* The ping that the code sends. *)
LEMMA PingSays == Says(BuildPing, Meaning("ping", 0, <<>>, <<>>))
<1> DEFINE w == <<192, 0>>
           e == <<>>
<1>1. w \in Seq(Int) /\ Len(w) = 2 /\ w[1] = 192 /\ w[2] = 0
  OBVIOUS
<1>2. /\ e \in Seq(Int) /\ Len(e) = 0 /\ Len(w) = 2 + Len(e) /\ w[2] = Len(e) /\ Len(e) \in 0..3
      /\ \A i \in 1..Len(e) : w[2 + i] = e[i]
  OBVIOUS
<1>3. BuildPing = w
  BY DEF BuildPing
<1>4. Reads([first |-> w[1], body |-> e]) = Meaning("ping", 0, <<>>, <<>>)
  BY DEF Reads
<1> HIDE DEF w, e
<1>5. Says(w, Meaning("ping", 0, <<>>, <<>>))
  BY <1>1, <1>2, <1>4, ShortSays
<1>6. QED BY <1>3, <1>5

(* The DISCONNECT. *)
LEMMA DisconnectSays == Says(BuildDisconnect, Meaning("disconnect", 0, <<>>, <<>>))
<1> DEFINE w == <<224, 0>>
           e == <<>>
<1>1. w \in Seq(Int) /\ Len(w) = 2 /\ w[1] = 224 /\ w[2] = 0
  OBVIOUS
<1>2. /\ e \in Seq(Int) /\ Len(e) = 0 /\ Len(w) = 2 + Len(e) /\ w[2] = Len(e) /\ Len(e) \in 0..3
      /\ \A i \in 1..Len(e) : w[2 + i] = e[i]
  OBVIOUS
<1>3. BuildDisconnect = w
  BY DEF BuildDisconnect
<1>4. Reads([first |-> w[1], body |-> e]) = Meaning("disconnect", 0, <<>>, <<>>)
  BY DEF Reads
<1> HIDE DEF w, e
<1>5. Says(w, Meaning("disconnect", 0, <<>>, <<>>))
  BY <1>1, <1>2, <1>4, ShortSays
<1>6. QED BY <1>3, <1>5

(* The PUBACK, with its identifier and a 1 in each other's place. *)
LEMMA PubackSays == ASSUME NEW id PROVE Says(BuildPuback(1, id), Meaning("puback", 1, <<>>, <<>>))
<1> DEFINE b == <<0, 1>>
           a == <<64, 2>>
           w == a \o b
<1>1. a \in Seq(Int) /\ Len(a) = 2 /\ a[1] = 64 /\ a[2] = 2
  OBVIOUS
<1>2. b \in Seq(Int) /\ Len(b) = 2 /\ b[1] = 0 /\ b[2] = 1
  OBVIOUS
<1>3. BuildPuback(1, id) = w
  <2>1. U16(1) = <<0, 1>>
    <3>1. (1 \div 256) % 256 = 0 /\ 1 % 256 = 1
      OBVIOUS
    <3>2. QED BY <3>1 DEF U16
  <2>2. QED BY <2>1 DEF BuildPuback
<1>4. Number(b, 1) = 1
  BY DEF Number
<1> HIDE DEF a, b
<1>5. w \in Seq(Int) /\ Len(w) = 4 /\ w[1] = 64 /\ w[2] = 2 /\ w[3] = 0 /\ w[4] = 1
  <2>1. /\ w \in Seq(Int) /\ Len(w) = Len(a) + Len(b)
        /\ \A i \in 1..Len(a) : w[i] = a[i]
        /\ \A i \in 1..Len(b) : w[Len(a) + i] = b[i]
    BY <1>1, <1>2, Joined
  <2> HIDE DEF w
  <2>2. w[1] = 64 /\ w[2] = 2 /\ w[2 + 1] = 0 /\ w[2 + 2] = 1
    BY <1>1, <1>2, <2>1
  <2>3. QED BY <1>1, <1>2, <2>1, <2>2
<1> HIDE DEF w
<1>6. Reads([first |-> 64, body |-> b]) = Meaning("puback", 1, <<>>, <<>>)
  BY <1>4 DEF Reads
<1>7. Len(w) = 2 + Len(b) /\ w[2] = Len(b) /\ \A i \in 1..Len(b) : w[2 + i] = b[i]
  <2>1. \A i \in 1..2 : i = 1 \/ i = 2
    OBVIOUS
  <2>2. QED BY <1>5, <1>2, <2>1
<1>8. Len(b) \in 0..3
  BY <1>2
<1>9. Says(w, Meaning("puback", 1, <<>>, <<>>))
  BY <1>5, <1>2, <1>6, <1>7, <1>8, ShortSays
<1>10. QED BY <1>3, <1>9 DEF w, a, b

(* What the code writes in two bytes, and before a string. *)
LEMMA U16Is == \A n \in Words : U16(n) = Two(n) /\ n \in Nat
<1> SUFFICES ASSUME NEW n \in Words PROVE U16(n) = Two(n) /\ n \in Nat
  OBVIOUS
<1>1. n \in Nat /\ n <= 65535
  BY SMTT(60) DEF Words
<1>2. n \div 256 \in 0..255
  BY <1>1
<1>3. (n \div 256) % 256 = n \div 256
  BY <1>2
<1>4. QED BY <1>1, <1>3 DEF U16, Two

(* A string behind its length. *)
LEMMA EncodedText == \A t : Len(t) \in Words => EncodeString(t) = Text(t)
BY U16Is DEF EncodeString, Text

(* b is the text t behind h, and x after it. *)
IsText(b, h, t, x) ==
    /\ b \in Seq(Int) /\ Len(b) = Len(h) + 2 + Len(t) + Len(x)
    /\ \A i \in 1..Len(h) : b[i] = h[i]
    /\ Number(b, Len(h) + 1) = Len(t)
    /\ Part(b, Len(h) + 3, Len(h) + 2 + Len(t)) = t
    /\ Part(b, Len(h) + 3 + Len(t), Len(b)) = x

(* It is read where it was written. *)
LEMMA TextRead ==
    ASSUME NEW h \in Seq(Int), NEW t \in Seq(Int), NEW x \in Seq(Int)
    PROVE  IsText(h \o (Text(t) \o x), h, t, x)
<1> DEFINE u == Text(t) \o x
           b == h \o u
           c == Len(h)
           l == Len(t)
           m == Len(x)
<1>1. /\ u \in Seq(Int) /\ Len(u) = 2 + l + m /\ 256 * u[1] + u[2] = l
      /\ \A i \in 1..l : u[2 + i] = t[i]
      /\ \A i \in 1..m : u[2 + l + i] = x[i]
  BY TextIs
<1>2. l \in Nat /\ m \in Nat /\ c \in Nat
  OBVIOUS
<1> HIDE DEF u
<1>3. /\ b \in Seq(Int) /\ Len(b) = c + Len(u)
      /\ \A i \in 1..c : b[i] = h[i]
      /\ \A i \in 1..Len(u) : b[c + i] = u[i]
  BY <1>1, Joined
<1> HIDE DEF b, c, l, m
<1>4. Len(b) = c + 2 + l + m
  BY <1>1, <1>2, <1>3
<1>5. Number(b, c + 1) = l
  <2>1. b[c + 1] = u[1] /\ b[c + 2] = u[2]
    BY <1>1, <1>2, <1>3
  <2>2. c + 1 < Len(b) /\ (c + 1) + 1 = c + 2
    BY <1>2, <1>4
  <2>3. Number(b, c + 1) = 256 * b[c + 1] + b[(c + 1) + 1]
    BY <2>2 DEF Number
  <2>4. QED BY <1>1, <2>1, <2>2, <2>3
<1>6. Part(b, c + 3, c + 2 + l) = t
  <2>1. c + 2 + l <= Len(b) /\ (c + 3) + l - 1 = c + 2 + l /\ c + 3 \in Nat \ {0}
    BY <1>2, <1>4
  <2>2. \A i \in 1..l : b[(c + 3) + i - 1] = t[i]
    <3> SUFFICES ASSUME NEW i \in 1..l PROVE b[(c + 3) + i - 1] = t[i]
      OBVIOUS
    <3>1. (c + 3) + i - 1 = c + (2 + i) /\ 2 + i \in 1..Len(u)
      BY <1>1, <1>2
    <3>2. b[c + (2 + i)] = u[2 + i]
      BY <1>3, <3>1
    <3>3. u[2 + i] = t[i]
      BY <1>1
    <3>4. QED BY <3>1, <3>2, <3>3
  <2>3. SubSeq(b, c + 3, (c + 3) + Len(t) - 1) = t
    BY <1>3, <2>1, <2>2, PartIs DEF l
  <2>4. QED BY <2>1, <2>3 DEF Part, l
<1>7. Part(b, c + 3 + l, Len(b)) = x
  <2>1. (c + 3 + l) + m - 1 = Len(b) /\ c + 3 + l \in Nat \ {0}
    BY <1>2, <1>4
  <2>2. \A i \in 1..m : b[(c + 3 + l) + i - 1] = x[i]
    <3> SUFFICES ASSUME NEW i \in 1..m PROVE b[(c + 3 + l) + i - 1] = x[i]
      OBVIOUS
    <3>1. (c + 3 + l) + i - 1 = c + (2 + l + i) /\ 2 + l + i \in 1..Len(u)
      BY <1>1, <1>2
    <3>2. b[c + (2 + l + i)] = u[2 + l + i]
      BY <1>3, <3>1
    <3>3. u[2 + l + i] = x[i]
      BY <1>1
    <3>4. QED BY <3>1, <3>2, <3>3
  <2>3. SubSeq(b, c + 3 + l, (c + 3 + l) + Len(x) - 1) = x
    <3>1. Len(b) \in Nat /\ (c + 3 + l) + Len(x) - 1 <= Len(b)
      BY <1>2, <2>1, <1>4 DEF m
    <3>2. QED BY <1>3, <2>1, <2>2, <3>1, PartIs DEF m
  <2>4. (c + 3 + l) + Len(x) - 1 = Len(b)
    BY <2>1 DEF m
  <2>5. SubSeq(b, c + 3 + l, Len(b)) = x /\ Len(b) <= Len(b)
    BY <1>2, <1>4, <2>3, <2>4
  <2>6. QED BY <2>5 DEF Part
<1>8. IsText(b, h, t, x)
  BY <1>3, <1>4, <1>5, <1>6, <1>7 DEF IsText, c, l, m
<1>9. QED BY <1>8 DEF b, u

(* What the client connects with. *)
Params == {SetUsername(Create), UseHttpsProxy(Create)}

(* The two strings that may be NULL. *)
LEMMA OptionalIs ==
    ASSUME NEW S, S = {} \/ \E x \in Int : S = {<<x>>}
    PROVE  Optional(S) \in Seq(Int) /\ Len(Optional(S)) \in 0..3
<1>1. CASE S = {}
  BY <1>1 DEF Optional
<1>2. CASE \E x \in Int : S = {<<x>>}
  <2>1. PICK x \in Int : S = {<<x>>}
    BY <1>2
  <2> DEFINE t == <<x>>
             c == Two(1)
  <2>2. t \in Seq(Int) /\ Len(t) = 1
    BY OneElement
  <2>3. 1 \in Words /\ 1 \in Nat
    BY SMTT(60) DEF Words
  <2>4. c \in Seq(Int) /\ Len(c) = 2
    BY <2>3, TwoIs
  <2>5. Optional(S) = EncodeString(t)
    <3>1. S # {} /\ (CHOOSE s \in S : TRUE) = t
      BY <2>1
    <3>2. QED BY <3>1 DEF Optional
  <2>6. EncodeString(t) = c \o t
    BY <2>2, <2>3, EncodedText DEF Text
  <2> HIDE DEF t, c
  <2>7. c \o t \in Seq(Int) /\ Len(c \o t) = Len(c) + Len(t)
    BY <2>2, <2>4, Joined
  <2>8. Len(c \o t) \in 0..3
    BY <2>2, <2>4, <2>7
  <2>9. QED BY <2>5, <2>6, <2>7, <2>8
<1>3. QED BY <1>1, <1>2

(* The head of a CONNECT. *)
LEMMA HeadIs ==
    ASSUME NEW f \in Int
    PROVE  LET h == EncodeString(ProtocolName) \o <<3, f>> \o U16(60)
           IN  h \in Seq(Int) /\ Len(h) = 12
<1> DEFINE n == ProtocolName
           e == EncodeString(n)
           a == <<3, f>>
           c == U16(60)
<1>1. n \in Seq(Int) /\ Len(n) = 6
  BY DEF ProtocolName
<1>2. 60 \in Words /\ 6 \in Words /\ 60 \in Nat /\ 6 \in Nat
  BY SMTT(60) DEF Words
<1> HIDE DEF n
<1>3. e = Two(6) \o n
  BY <1>1, <1>2, EncodedText DEF Text
<1>4. Two(6) \in Seq(Int) /\ Len(Two(6)) = 2
  BY <1>2, TwoIs
<1>5. e \in Seq(Int) /\ Len(e) = 8
  <2> DEFINE d == Two(6)
  <2>1. d \in Seq(Int) /\ Len(d) = 2 /\ e = d \o n
    BY <1>3, <1>4
  <2> HIDE DEF d, e
  <2>2. d \o n \in Seq(Int) /\ Len(d \o n) = Len(d) + Len(n)
    BY <1>1, <2>1, Joined
  <2>3. QED BY <1>1, <2>1, <2>2
<1>6. a \in Seq(Int) /\ Len(a) = 2
  OBVIOUS
<1>7. c \in Seq(Int) /\ Len(c) = 2
  <2>1. c = Two(60)
    BY <1>2, U16Is
  <2>2. Two(60) \in Seq(Int) /\ Len(Two(60)) = 2
    BY <1>2, TwoIs
  <2>3. QED BY <2>1, <2>2
<1> HIDE DEF e, a, c
<1>8. e \o a \in Seq(Int) /\ Len(e \o a) = 10
  <2>1. e \o a \in Seq(Int) /\ Len(e \o a) = Len(e) + Len(a)
    BY <1>5, <1>6, Joined
  <2>2. QED BY <1>5, <1>6, <2>1
<1>9. e \o a \o c \in Seq(Int) /\ Len(e \o a \o c) = 12
  <2> DEFINE x == e \o a
  <2>1. x \in Seq(Int) /\ Len(x) = 10
    BY <1>8
  <2> HIDE DEF x
  <2>2. x \o c \in Seq(Int) /\ Len(x \o c) = Len(x) + Len(c)
    BY <1>7, <2>1, Joined
  <2>3. x \o c \in Seq(Int) /\ Len(x \o c) = 12
    BY <1>7, <2>1, <2>2
  <2>4. QED BY <2>3 DEF x
<1>10. QED BY <1>9 DEF e, a, c, n

(* Enough for the longest CONNECT. *)
LEMMA WeightEnough == Weight[5] \in Nat /\ Weight[5] >= 256
<1>1. Radix \in Nat /\ Radix >= 4
  BY RadixIs
<1> DEFINE r2 == Radix * Radix
           r3 == r2 * Radix
           r4 == r3 * Radix
<1>2. Weight[5] = r4
  BY WeightIs
<1>3. r2 \in Nat /\ r2 >= 16
  <2>1. Radix * Radix + 0 >= Radix * 4
    BY <1>1, Products
  <2>2. QED BY <1>1, <2>1
<1> HIDE DEF r2
<1>4. r3 \in Nat /\ r3 >= 64
  <2>1. r2 * Radix + 0 >= r2 * 4
    BY <1>1, <1>3, Products
  <2>2. QED BY <1>1, <1>3, <2>1
<1> HIDE DEF r3
<1>5. r4 \in Nat /\ r4 >= 256
  <2>1. r3 * Radix + 0 >= r3 * 4
    BY <1>1, <1>4, Products
  <2>2. QED BY <1>1, <1>4, <2>1
<1> HIDE DEF r4
<1>6. QED BY <1>2, <1>5

(* The CONNECT says who the client is. *)
LEMMA ConnectSays ==
    ASSUME NEW p \in Params
    PROVE  Says(BuildConnect(p.id, p.user, p.pass, 60), Meaning("connect", 0, p.id, <<>>))
<1> DEFINE t == <<1>>
           f == (IF p.user # {} THEN 128 ELSE 0) + (IF p.pass # {} THEN 64 ELSE 0)
           h == EncodeString(ProtocolName) \o <<3, f>> \o U16(60)
           e == EncodeString(t)
           o1 == Optional(p.user)
           o2 == Optional(p.pass)
           x == o1 \o o2
           b == h \o (Text(t) \o x)
<1>1. p.id = t /\ (p.user = {} \/ p.user = {<<1>>}) /\ (p.pass = {} \/ p.pass = {<<2>>})
  BY DEF Params, SetUsername, UseHttpsProxy, UseSsl, Create
<1>2. o1 \in Seq(Int) /\ Len(o1) \in 0..3 /\ o2 \in Seq(Int) /\ Len(o2) \in 0..3
  <2>1. 1 \in Int /\ 2 \in Int
    OBVIOUS
  <2>2. QED BY <1>1, <2>1, OptionalIs
<1>3. f \in Int
  OBVIOUS
<1>4. h \in Seq(Int) /\ Len(h) = 12
  <2> HIDE DEF f
  <2>1. QED BY <1>3, HeadIs
<1>5. t \in Seq(Int) /\ Len(t) = 1
  BY OneElement
<1>6. e = Text(t) /\ Text(t) \in Seq(Int)
  <2>1. 1 \in Words /\ 1 \in Nat
    BY SMTT(60) DEF Words
  <2>2. e = Text(t)
    BY <1>5, <2>1, EncodedText
  <2>3. Two(1) \in Seq(Int)
    BY <2>1, TwoIs
  <2>4. Text(t) = Two(1) \o t
    BY <1>5 DEF Text
  <2> HIDE DEF t
  <2>5. Two(1) \o t \in Seq(Int)
    BY <1>5, <2>3, JoinedType
  <2>6. QED BY <2>2, <2>4, <2>5
<1>7. BuildConnect(p.id, p.user, p.pass, 60) = Framed(16, h \o e \o o1 \o o2)
  BY <1>1 DEF BuildConnect
<1> HIDE DEF t, f, h, e, o1, o2
<1>8. h \o e \o o1 \o o2 = b
  <2> DEFINE z == Text(t)
  <2>1. z \in Seq(Int) /\ e = z /\ x \in Seq(Int) /\ h \o z \in Seq(Int)
    BY <1>2, <1>4, <1>6, JoinedType
  <2> HIDE DEF z
  <2>2. ((h \o z) \o o1) \o o2 = (h \o z) \o (o1 \o o2)
    BY <1>2, <2>1, JoinedThree
  <2>3. (h \o z) \o x = h \o (z \o x)
    <3> HIDE DEF x
    <3>1. QED BY <1>4, <2>1, JoinedThree
  <2>4. QED BY <2>1, <2>2, <2>3 DEF z
<1>9. x \in Seq(Int) /\ Len(x) \in 0..6
  <2>1. x \in Seq(Int) /\ Len(x) = Len(o1) + Len(o2)
    BY <1>2, Joined
  <2>2. \A i, j \in 0..3 : i + j \in 0..6
    OBVIOUS
  <2> HIDE DEF x
  <2>3. QED BY <1>2, <2>1, <2>2
<1> HIDE DEF x
<1>10. /\ b \in Seq(Int) /\ Len(b) = Len(h) + 2 + Len(t) + Len(x)
       /\ Number(b, Len(h) + 1) = Len(t)
       /\ Part(b, Len(h) + 3, Len(h) + 2 + Len(t)) = t
  <2>1. IsText(b, h, t, x)
    BY <1>4, <1>5, <1>9, TextRead
  <2> HIDE DEF b
  <2>2. QED BY <2>1 DEF IsText
<1> HIDE DEF b
<1>11. Len(b) < Weight[5] /\ Number(b, 13) = 1 /\ Part(b, 15, 15) = t
  <2>1. Len(h) + 1 = 13 /\ Len(h) + 3 = 15 /\ Len(h) + 2 + Len(t) = 15
    BY <1>4, <1>5
  <2>2. Len(b) \in 15..21
    <3>1. \A n, i \in Nat : n = 12 + 2 + 1 + i /\ i <= 6 => n \in 15..21
      OBVIOUS
    <3>2. Len(b) \in Nat /\ Len(x) \in Nat /\ Len(x) <= 6
      <4>1. \A i \in 0..6 : i \in Nat /\ i <= 6
        OBVIOUS
      <4>2. \A s \in Seq(Int) : Len(s) \in Nat
        OBVIOUS
      <4>3. QED BY <1>9, <1>10, <4>1, <4>2
    <3>3. Len(b) = 12 + 2 + 1 + Len(x)
      BY <1>4, <1>5, <1>10
    <3>4. QED BY <3>1, <3>2, <3>3
  <2>3. Len(b) < Weight[5]
    <3>1. \A n \in 15..21 : \A w \in Nat : w >= 256 => n < w
      OBVIOUS
    <3>2. QED BY <2>2, <3>1, WeightEnough
  <2>4. QED BY <1>5, <1>10, <2>1, <2>3
<1>12. Reads([first |-> 16, body |-> b]) = Meaning("connect", 0, t, <<>>)
  <2>1. 14 + Number(b, 13) = 15
    BY <1>11
  <2>2. QED BY <1>11, <2>1 DEF Reads
<1>13. 16 \in Int
  OBVIOUS
<1>14. Says(Framed(16, b), Meaning("connect", 0, t, <<>>))
  BY <1>10, <1>11, <1>12, <1>13, FramedSays
<1>15. QED BY <1>1, <1>7, <1>8, <1>14

(* What fits. *)
LEMMA FitsIs ==
    ASSUME NEW m, Fits(m)
    PROVE  /\ m = Meaning(m.kind, m.id, m.topic, m.payload)
           /\ m.id \in Words /\ m.id \in Nat
           /\ m.topic \in Seq(Int) /\ m.payload \in Seq(Int) /\ Len(m.topic) \in Nat /\ Len(m.payload) \in Nat
           /\ \A i \in 1..Len(m.payload) : m.payload[i] \in Int
           /\ Len(m.topic) \in Words /\ Len(m.topic) + Len(m.payload) + 4 < Weight[5]
           /\ EncodeString(m.topic) = Text(m.topic) /\ Text(m.topic) \in Seq(Int)
           /\ U16(m.id) = Two(m.id) /\ Two(m.id) \in Seq(Int) /\ Len(Two(m.id)) = 2
<1> DEFINE t == m.topic
           q == m.payload
           id == m.id
<1>1. /\ m = Meaning(m.kind, id, t, q) /\ t \in Seq(0..255) /\ q \in Seq(0..255) /\ id \in Words
      /\ Len(t) \in Words /\ Len(t) + Len(q) + 4 < Weight[5]
  BY DEF Fits
<1> HIDE DEF t, q, id
<1>2. /\ t \in Seq(Int) /\ q \in Seq(Int) /\ Len(t) \in Nat /\ Len(q) \in Nat
      /\ \A i \in 1..Len(q) : q[i] \in Int
  BY <1>1, Bytes
<1>3. id \in Nat /\ U16(id) = Two(id)
  BY <1>1, U16Is
<1>4. Two(id) \in Seq(Int) /\ Len(Two(id)) = 2
  BY <1>3, TwoIs
<1>5. EncodeString(t) = Text(t)
  BY <1>1, EncodedText
<1>6. Text(t) \in Seq(Int)
  <2>1. Two(Len(t)) \in Seq(Int)
    BY <1>2, TwoIs
  <2>2. QED BY <1>2, <2>1, JoinedType DEF Text
<1>7. QED BY <1>1, <1>2, <1>3, <1>4, <1>5, <1>6 DEF t, q, id

(* A PUBLISH without an acknowledgement. *)
LEMMA Publish0Says ==
    ASSUME NEW m, Fits(m), m.kind = "publish0", m.id = 0
    PROVE  Says(Built(m), m)
<1> DEFINE t == m.topic
           q == m.payload
           x == Text(t)
           b == x \o q
<1>1. m = Meaning("publish0", 0, t, q)
  BY FitsIs
<1>2. /\ t \in Seq(Int) /\ q \in Seq(Int) /\ Len(t) \in Nat /\ Len(q) \in Nat
      /\ Len(t) + Len(q) + 4 < Weight[5] /\ EncodeString(t) = x /\ x \in Seq(Int)
  BY FitsIs
<1>3. Built(m) = Framed(48, EncodeString(t) \o <<>> \o q)
  <2>1. ~(0 > 0) /\ 48 + 0 + 0 = 48
    OBVIOUS
  <2>2. Built(m) = BuildPublish(t, 0, FALSE, 0, q)
    BY DEF Built
  <2>3. QED BY <2>1, <2>2 DEF BuildPublish
<1> HIDE DEF t, q
<1>4. x \o <<>> = x
  <2> HIDE DEF x
  <2>1. QED BY <1>2, Whole
<1>5. /\ b \in Seq(Int) /\ Len(b) = 2 + Len(t) + Len(q)
      /\ Number(b, 1) = Len(t)
      /\ Part(b, 3, 2 + Len(t)) = t
      /\ Part(b, 3 + Len(t), Len(b)) = q
  <2> DEFINE e == <<>>
             bb == e \o b
             c == Len(e)
  <2>1. e \in Seq(Int) /\ c = 0
    OBVIOUS
  <2> HIDE DEF e
  <2>2. /\ bb \in Seq(Int) /\ Len(bb) = c + 2 + Len(t) + Len(q)
        /\ Number(bb, c + 1) = Len(t)
        /\ Part(bb, c + 3, c + 2 + Len(t)) = t
        /\ Part(bb, c + 3 + Len(t), Len(bb)) = q
    <3>1. IsText(bb, e, t, q)
      BY <1>2, <2>1, TextRead
    <3> HIDE DEF bb
    <3>2. QED BY <3>1 DEF IsText
  <2>3. b \in Seq(Int)
    BY <1>2, JoinedType
  <2> HIDE DEF b
  <2>4. bb = b
    BY <2>3, Whole DEF e
  <2> HIDE DEF bb, c
  <2>5. c + 2 + Len(t) = 2 + Len(t) /\ c + 1 = 1 /\ c + 3 = 3 /\ c + 3 + Len(t) = 3 + Len(t)
    BY <1>2, <2>1
  <2>6. QED BY <2>2, <2>4, <2>5
<1> HIDE DEF b, x
<1>6. Reads([first |-> 48, body |-> b]) = Meaning("publish0", 0, t, q)
  BY <1>5 DEF Reads
<1>7. Len(b) < Weight[5] /\ 48 \in Int
  BY <1>2, <1>5, WeightBig, SMTT(30)
<1>8. Says(Framed(48, b), Meaning("publish0", 0, t, q))
  BY <1>5, <1>6, <1>7, FramedSays
<1>9. QED BY <1>1, <1>2, <1>3, <1>4, <1>8 DEF b

(* A PUBLISH that is acknowledged. *)
LEMMA Publish1Says ==
    ASSUME NEW m, Fits(m), m.kind = "publish1"
    PROVE  Says(Built(m), m)
<1> DEFINE t == m.topic
           q == m.payload
           id == m.id
           c == Two(id)
           x == Text(t)
           y == c \o q
           u == x \o c
           b == x \o y
<1>1. m = Meaning("publish1", id, t, q)
  BY FitsIs
<1>2. /\ t \in Seq(Int) /\ q \in Seq(Int) /\ Len(t) \in Nat /\ Len(q) \in Nat
      /\ Len(t) + Len(q) + 4 < Weight[5] /\ EncodeString(t) = x /\ x \in Seq(Int)
      /\ U16(id) = c /\ c \in Seq(Int) /\ Len(c) = 2 /\ id \in Nat
  BY FitsIs
<1>3. Built(m) = Framed(50, EncodeString(t) \o U16(id) \o q)
  <2>1. 1 > 0 /\ 48 + 2 + 0 = 50
    OBVIOUS
  <2>2. Built(m) = BuildPublish(t, 1, FALSE, id, q)
    BY DEF Built
  <2>3. QED BY <2>1, <2>2 DEF BuildPublish
<1>4. 256 * c[1] + c[2] = id
  <2> HIDE DEF id
  <2>1. QED BY <1>2, TwoIs
<1> HIDE DEF t, q, id, c
<1>5. y \in Seq(Int) /\ Len(y) = 2 + Len(q) /\ y[1] = c[1] /\ y[2] = c[2]
  <2>1. /\ y \in Seq(Int) /\ Len(y) = Len(c) + Len(q)
        /\ \A i \in 1..Len(c) : y[i] = c[i]
    BY <1>2, Joined
  <2> HIDE DEF y
  <2>2. QED BY <1>2, <2>1
<1>6. u \o q = b
  <2> HIDE DEF x
  <2>1. QED BY <1>2, JoinedThree
<1>7. /\ b \in Seq(Int) /\ Len(b) = 2 + Len(t) + Len(y)
      /\ Number(b, 1) = Len(t)
      /\ Part(b, 3, 2 + Len(t)) = t
  <2> DEFINE e == <<>>
             bb == e \o b
             k == Len(e)
  <2>1. e \in Seq(Int) /\ k = 0
    OBVIOUS
  <2> HIDE DEF e, y
  <2>2. /\ bb \in Seq(Int) /\ Len(bb) = k + 2 + Len(t) + Len(y)
        /\ Number(bb, k + 1) = Len(t)
        /\ Part(bb, k + 3, k + 2 + Len(t)) = t
    <3>1. IsText(bb, e, t, y)
      BY <1>2, <1>5, <2>1, TextRead
    <3> HIDE DEF bb
    <3>2. QED BY <3>1 DEF IsText
  <2>3. b \in Seq(Int)
    BY <1>2, <1>5, JoinedType
  <2> HIDE DEF b
  <2>4. bb = b
    BY <2>3, Whole DEF e
  <2> HIDE DEF bb, k
  <2>5. k + 2 + Len(t) = 2 + Len(t) /\ k + 1 = 1 /\ k + 3 = 3
    BY <1>2, <2>1
  <2>6. QED BY <2>2, <2>4, <2>5
<1>8. \A i \in 1..Len(y) : b[2 + Len(t) + i] = y[i]
  <2> HIDE DEF y
  <2>1. QED BY <1>2, <1>5, TextIs, ZenonT(30)
<1> HIDE DEF b, y
<1>9. Number(b, 3 + Len(t)) = id
  <2>1. b[2 + Len(t) + 1] = c[1] /\ b[2 + Len(t) + 2] = c[2]
    <3>1. 1 \in 1..Len(y) /\ 2 \in 1..Len(y)
      BY <1>2, <1>5
    <3>2. QED BY <1>5, <1>8, <3>1
  <2>2. 3 + Len(t) < Len(b) /\ 2 + Len(t) + 1 = 3 + Len(t) /\ 2 + Len(t) + 2 = (3 + Len(t)) + 1
    BY <1>2, <1>5, <1>7
  <2>3. QED BY <1>4, <2>1, <2>2 DEF Number
<1>10. Part(b, 5 + Len(t), Len(b)) = q
  <2>1. u \in Seq(Int) /\ Len(u) = 4 + Len(t)
    <3>1. Len(x) = 2 + Len(t)
      <4> DEFINE d == Two(Len(t))
      <4>1. x = d \o t /\ d \in Seq(Int) /\ Len(d) = 2
        BY <1>2, TwoIs DEF Text
      <4> HIDE DEF d, x
      <4>2. Len(d \o t) = Len(d) + Len(t)
        BY <1>2, <4>1, Joined
      <4>3. QED BY <4>1, <4>2
    <3> HIDE DEF x
    <3>2. u \in Seq(Int) /\ Len(u) = Len(x) + Len(c)
      BY <1>2, Joined
    <3> HIDE DEF u
    <3>3. QED BY <1>2, <3>1, <3>2
  <2> HIDE DEF u
  <2> DEFINE n == Len(q)
  <2>2. SubSeq(u \o q, Len(u) + 1, Len(u) + n) = SubSeq(q, 1, n)
    <3>1. 1 \in Nat \ {0} /\ n \in Int /\ n <= Len(q)
      BY <1>2
    <3> HIDE DEF n
    <3>2. QED BY <1>2, <2>1, <3>1, PartBehind
  <2>3. SubSeq(q, 1, n) = q
    BY <1>2, Whole
  <2>4. Len(u) + 1 = 5 + Len(t) /\ Len(u) + n = Len(b) /\ Len(b) <= Len(b)
    BY <1>2, <1>5, <1>7, <2>1
  <2>5. SubSeq(b, 5 + Len(t), Len(b)) = q
    BY <1>6, <2>2, <2>3, <2>4
  <2>6. QED BY <2>4, <2>5 DEF Part
<1> HIDE DEF x, u
<1>11. Reads([first |-> 50, body |-> b]) = Meaning("publish1", id, t, q)
  <2> DEFINE l == Number(b, 1)
  <2>1. Reads([first |-> 50, body |-> b])
          = Meaning("publish1", Number(b, 3 + l), Part(b, 3, 2 + l), Part(b, 5 + l, Len(b)))
    BY DEF Reads
  <2>2. l = Len(t)
    BY <1>7
  <2> HIDE DEF l
  <2>3. QED BY <1>7, <1>9, <1>10, <2>1, <2>2
<1>12. Len(b) < Weight[5] /\ 50 \in Int
  BY <1>2, <1>5, <1>7, WeightBig
<1>13. Says(Framed(50, b), Meaning("publish1", id, t, q))
  BY <1>7, <1>11, <1>12, FramedSays
<1>14. QED BY <1>1, <1>2, <1>3, <1>6, <1>13 DEF u

(* A SUBSCRIBE and an UNSUBSCRIBE: the identifier comes first. *)
LEMMA TopicSays ==
    ASSUME NEW m, Fits(m), NEW x \in Seq(Int),
           \/ m.kind = "subscribe" /\ x = m.payload /\ Len(x) = 1
           \/ m.kind = "unsubscribe" /\ x = <<>> /\ m.payload = <<>>
    PROVE  Says(Framed(IF m.kind = "subscribe" THEN 130 ELSE 162, Two(m.id) \o (Text(m.topic) \o x)), m)
<1> DEFINE t == m.topic
           id == m.id
           c == Two(id)
           b == c \o (Text(t) \o x)
<1>1. m = Meaning(m.kind, id, t, m.payload)
  BY FitsIs
<1>2. /\ t \in Seq(Int) /\ Len(t) \in Nat
      /\ Len(t) + Len(m.payload) + 4 < Weight[5] /\ id \in Nat /\ c \in Seq(Int) /\ Len(c) = 2
  BY FitsIs
<1>3. x = m.payload /\ Len(x) \in Nat
  OBVIOUS
<1>4. 256 * c[1] + c[2] = id
  <2> HIDE DEF id
  <2>1. QED BY <1>2, TwoIs
<1> HIDE DEF t, id, c
<1>5. /\ b \in Seq(Int) /\ Len(b) = Len(c) + 2 + Len(t) + Len(x)
      /\ \A i \in 1..Len(c) : b[i] = c[i]
      /\ Number(b, Len(c) + 1) = Len(t)
      /\ Part(b, Len(c) + 3, Len(c) + 2 + Len(t)) = t
      /\ Part(b, Len(c) + 3 + Len(t), Len(b)) = x
  <2>1. IsText(b, c, t, x)
    BY <1>2, TextRead
  <2> HIDE DEF b
  <2>2. QED BY <2>1 DEF IsText
<1> HIDE DEF b
<1>6. /\ Len(b) = 4 + Len(t) + Len(x) /\ Number(b, 3) = Len(t)
      /\ Part(b, 5, 4 + Len(t)) = t /\ Part(b, 5 + Len(t), Len(b)) = x
  <2>1. Len(c) + 2 + Len(t) = 4 + Len(t) /\ Len(c) + 1 = 3 /\ Len(c) + 3 = 5 /\ Len(c) + 3 + Len(t) = 5 + Len(t)
    BY <1>2
  <2>2. QED BY <1>2, <1>3, <1>5, <2>1
<1>7. Len(b) < Weight[5] /\ 1 < Len(b) /\ 130 \in Int /\ 162 \in Int
  <2>1. \A k, i, n, w \in Nat : n = 4 + k + i /\ k + i + 4 < w => n < w /\ 1 < n
    OBVIOUS
  <2>2. Weight[5] \in Nat /\ Len(b) \in Nat /\ Len(t) \in Nat /\ Len(x) \in Nat /\ Len(t) + Len(x) + 4 < Weight[5]
    <3>1. \A s \in Seq(Int) : Len(s) \in Nat
      OBVIOUS
    <3>2. QED BY <1>2, <1>3, <1>5, <3>1, WeightBig
  <2>3. Len(b) = 4 + Len(t) + Len(x)
    BY <1>6
  <2>4. 130 \in Int /\ 162 \in Int
    OBVIOUS
  <2>5. QED BY <2>1, <2>2, <2>3, <2>4
<1>8. Number(b, 1) = id
  <2>1. b[1] = c[1] /\ b[1 + 1] = c[2]
    BY <1>2, <1>5
  <2>2. 1 < Len(b)
    BY <1>7
  <2>3. QED BY <1>4, <2>1, <2>2 DEF Number
<1>9. CASE m.kind = "subscribe"
  <2>1. Reads([first |-> 130, body |-> b]) = Meaning("subscribe", id, t, x)
    BY <1>6, <1>8 DEF Reads
  <2>2. Says(Framed(130, b), Meaning("subscribe", id, t, x))
    BY <1>5, <1>7, <2>1, FramedSays, ZenonT(30)
  <2>3. QED BY <1>1, <1>3, <1>9, <2>2 DEF b, c, t, id
<1>10. CASE m.kind = "unsubscribe"
  <2>1. Reads([first |-> 162, body |-> b]) = Meaning("unsubscribe", id, t, <<>>)
    BY <1>6, <1>8 DEF Reads
  <2>2. Says(Framed(162, b), Meaning("unsubscribe", id, t, <<>>))
    BY <1>5, <1>7, <2>1, FramedSays, ZenonT(30)
  <2>3. m = Meaning("unsubscribe", id, t, <<>>)
    BY <1>1, <1>10
  <2>4. QED BY <1>10, <2>2, <2>3 DEF b, c, t, id
<1>11. QED BY <1>9, <1>10

(* The bytes of a request say it. *)
LEMMA RequestSays ==
    ASSUME NEW m, HasRequest(m)
    PROVE  Says(Built(m), m)
<1>1. Fits(m)
  BY DEF HasRequest
<1>2. \/ m.kind = "publish1"
      \/ m.kind = "publish0" /\ m.id = 0
      \/ m.kind = "subscribe" /\ Len(m.payload) = 1 /\ m.payload[1] \in 0..3
      \/ m.kind = "unsubscribe" /\ m.payload = <<>>
  BY DEF HasRequest
<1>3. /\ m.payload \in Seq(Int) /\ EncodeString(m.topic) = Text(m.topic) /\ Text(m.topic) \in Seq(Int)
      /\ U16(m.id) = Two(m.id) /\ Two(m.id) \in Seq(Int)
  BY <1>1, FitsIs
<1> DEFINE c == Two(m.id)
           t == Text(m.topic)
           q == m.payload
<1>4. CASE m.kind = "subscribe"
  <2>1. Built(m) = Framed(130, (U16(m.id) \o EncodeString(m.topic)) \o <<q[1] % 4>>)
    BY <1>4 DEF Built, BuildSubscribe
  <2>2. <<q[1] % 4>> = q
    <3>1. q \in Seq(Int) /\ Len(q) = 1 /\ q[1] \in 0..3
      BY <1>2, <1>3, <1>4
    <3> HIDE DEF q
    <3>2. q[1] % 4 = q[1]
      BY <3>1
    <3>3. <<q[1]>> = q
      BY <3>1
    <3>4. QED BY <3>2, <3>3
  <2>3. (c \o t) \o q = c \o (t \o q)
    <3>1. c \in Seq(Int) /\ t \in Seq(Int) /\ q \in Seq(Int)
      BY <1>3
    <3> HIDE DEF c, t, q
    <3>2. QED BY <3>1, JoinedThree
  <2>4. Built(m) = Framed(130, c \o (t \o q))
    BY <1>3, <2>1, <2>2, <2>3
  <2>5. Says(Framed(IF m.kind = "subscribe" THEN 130 ELSE 162, c \o (t \o q)), m)
    BY <1>1, <1>2, <1>3, <1>4, TopicSays
  <2>6. QED BY <1>4, <2>4, <2>5
<1>5. CASE m.kind = "unsubscribe"
  <2>1. Built(m) = Framed(162, U16(m.id) \o EncodeString(m.topic))
    BY <1>5 DEF Built, BuildUnsubscribe
  <2>2. <<>> \in Seq(Int) /\ t \o <<>> = t
    <3>1. t \in Seq(Int)
      BY <1>3
    <3> HIDE DEF t
    <3>2. QED BY <3>1, Whole
  <2>3. Built(m) = Framed(162, c \o (t \o <<>>))
    BY <1>3, <2>1, <2>2
  <2>4. Says(Framed(IF m.kind = "subscribe" THEN 130 ELSE 162, c \o (t \o <<>>)), m)
    BY <1>1, <1>2, <1>5, <2>2, TopicSays
  <2>5. QED BY <1>5, <2>3, <2>4
<1>6. QED BY <1>1, <1>2, <1>4, <1>5, Publish0Says, Publish1Says

-----------------------------------------------------------------------------
(* The server finds the requests in the stream. *)

(* The values of the first k digits of the request at byte i of s. *)
Counted(f, s, i, k) ==
    f[0] = 0 /\ \A j \in 1..k : f[j] = f[j - 1] + (s[i + j] % Radix) * Weight[j]

(* Where the digits end, and what they make. *)
LEMMA FrameSizeIs ==
    ASSUME NEW s, NEW i, NEW k \in 1..4, s[i + k] < Radix, \A j \in 1..(k - 1) : s[i + j] >= Radix,
           \A j \in 1..k : s[i + j] \in Int
    PROVE  \E f : Counted(f, s, i, k) /\ FrameSize(s, i) = [header |-> 1 + k, all |-> 1 + k + f[k]]
<1> DEFINE P(h) == s[i + h] < Radix /\ \A j \in 1..(h - 1) : s[i + j] >= Radix
           c == CHOOSE h \in 1..4 : P(h)
           Body(f) == [j \in 0..k |-> IF j = 0 THEN 0 ELSE f[j - 1] + (s[i + j] % Radix) * Weight[j]]
           F == CHOOSE f : f = Body(f)
           d == [j \in 1..4 |-> s[i + j] % Radix]
<1>1. c = k
  <2>1. P(k)
    OBVIOUS
  <2>2. ASSUME NEW h \in 1..4, P(h) PROVE h = k
    <3>1. ~(h < k)
      <4>1. ASSUME h < k PROVE FALSE
        <5>1. h \in 1..(k - 1) /\ h \in 1..k
          BY <4>1
        <5>2. s[i + h] \in Int /\ s[i + h] >= Radix /\ s[i + h] < Radix
          BY <2>2, <5>1
        <5>3. QED BY <5>2, RadixIs
      <4>2. QED BY <4>1
    <3>2. ~(k < h)
      <4>1. ASSUME k < h PROVE FALSE
        <5>1. k \in 1..(h - 1) /\ k \in 1..k
          BY <4>1
        <5>2. s[i + k] \in Int /\ s[i + k] >= Radix /\ s[i + k] < Radix
          BY <2>2, <5>1
        <5>3. QED BY <5>2, RadixIs
      <4>2. QED BY <4>1
    <3>3. QED BY <3>1, <3>2
  <2> HIDE DEF P
  <2>3. QED BY <2>1, <2>2
<1>2. PICK V : V = ValueOf(d, Weight, V)
  BY ValueExists
<1>3. V[0] = 0 /\ \A j \in 1..4 : V[j] = V[j - 1] + d[j] * Weight[j]
  <2>1. \A j \in 0..4 : V[j] = IF j = 0 THEN 0 ELSE V[j - 1] + d[j] * Weight[j]
    BY <1>2 DEF ValueOf
  <2> HIDE DEF d
  <2>2. QED BY <2>1
<1> DEFINE g == [j \in 0..k |-> V[j]]
<1>4. g = Body(g)
  <2>1. ASSUME NEW j \in 0..k PROVE g[j] = IF j = 0 THEN 0 ELSE g[j - 1] + (s[i + j] % Radix) * Weight[j]
    <3>1. CASE j = 0
      BY <1>3, <3>1
    <3>2. CASE j # 0
      <4>1. j \in 1..4 /\ j - 1 \in 0..k
        BY <3>2
      <4>2. g[j] = V[j] /\ g[j - 1] = V[j - 1] /\ d[j] = s[i + j] % Radix
        BY <4>1
      <4>3. V[j] = V[j - 1] + d[j] * Weight[j]
        BY <1>3, <4>1
      <4> HIDE DEF g, d
      <4>4. QED BY <3>2, <4>2, <4>3
    <3>3. QED BY <3>1, <3>2
  <2>2. g = [j \in 0..k |-> g[j]]
    OBVIOUS
  <2> HIDE DEF g
  <2>3. QED BY <2>1, <2>2
<1>5. F = Body(F)
  <2> HIDE DEF g, Body
  <2>1. \E f : f = Body(f)
    BY <1>4
  <2>2. QED BY <2>1
<1>6. Counted(F, s, i, k)
  <2> HIDE DEF F
  <2>1. \A j \in 0..k : F[j] = IF j = 0 THEN 0 ELSE F[j - 1] + (s[i + j] % Radix) * Weight[j]
    BY <1>5
  <2>2. 0 \in 0..k /\ \A j \in 1..k : j \in 0..k /\ j # 0
    OBVIOUS
  <2>3. QED BY <2>1, <2>2 DEF Counted
<1> DEFINE N(h) == CHOOSE f : f = [j \in 0..h |-> IF j = 0 THEN 0 ELSE f[j - 1] + (s[i + j] % Radix) * Weight[j]]
<1>7. FrameSize(s, i) = [header |-> 1 + c, all |-> 1 + c + N(c)[c]]
  BY ZenonT(30) DEF FrameSize
<1>8. N(k) = F
  OBVIOUS
<1> HIDE DEF N, F, c
<1>9. QED BY <1>1, <1>6, <1>7, <1>8

(* A request that is whole. *)
LEMMA FrameWhole ==
    ASSUME NEW n \in Nat, n < Weight[5], NEW s, NEW i \in Nat, Digits(s, i, n)
    PROVE  FrameSize(s, i) = [header |-> 1 + Size(n), all |-> 1 + Size(n) + n]
<1> DEFINE k == Size(n)
<1>1. k \in 1..4 /\ Lefts(n)[k] < Radix
  BY SizeIs
<1>2. \A j \in 1..k : s[i + j] \in Nat /\ (s[i + j] < Radix <=> ~(j < k)) /\ s[i + j] % Radix = Lefts(n)[j] % Radix
  BY DigitIs DEF Digit
<1> HIDE DEF k
<1>3. s[i + k] < Radix /\ \A j \in 1..(k - 1) : s[i + j] >= Radix
  <2>1. k \in 1..k /\ ~(k < k) /\ \A j \in 1..(k - 1) : j \in 1..k /\ j < k
    BY <1>1
  <2>2. s[i + k] < Radix
    BY <1>2, <2>1
  <2>3. ASSUME NEW j \in 1..(k - 1) PROVE s[i + j] >= Radix
    <3>1. s[i + j] \in Nat /\ ~(s[i + j] < Radix)
      BY <1>2, <2>1
    <3>2. QED BY <3>1, RadixIs
  <2>4. QED BY <2>2, <2>3
<1>4. \A j \in 1..k : s[i + j] \in Int
  <2>1. \A x \in Nat : x \in Int
    OBVIOUS
  <2>2. QED BY <1>2, <2>1
<1>5. PICK f : Counted(f, s, i, k) /\ FrameSize(s, i) = [header |-> 1 + k, all |-> 1 + k + f[k]]
  BY <1>1, <1>3, <1>4, FrameSizeIs
<1>6. f[k] = n
  <2> DEFINE d == [j \in 1..4 |-> s[i + j] % Radix]
  <2>1. \A j \in 1..k : j \in 1..4 /\ d[j] = s[i + j] % Radix
    BY <1>1
  <2> HIDE DEF d
  <2>2. f[0] = 0 /\ \A j \in 1..k : f[j] = f[j - 1] + d[j] * Weight[j]
    BY <1>5, <2>1 DEF Counted
  <2>3. \A j \in 1..k : d[j] = Lefts(n)[j] % Radix
    BY <1>2, <2>1
  <2>4. f[k] = Sum(n, k)
    BY <1>1, <2>2, <2>3, Sums
  <2>5. QED BY <1>1, <2>4, SumIs
<1>7. QED BY <1>5, <1>6 DEF k

(* A request that may be there is not empty, and is in the stream. *)
LEMMA FrameAdvances ==
    ASSUME NEW s \in Seq(Int), NEW i \in 1..(Len(s) + 1), HasFrame(s, i)
    PROVE  /\ FrameSize(s, i).header \in Nat /\ FrameSize(s, i).all \in Nat \ {0}
           /\ i - 1 + FrameSize(s, i).all <= Len(s)
<1>1. PICK h \in 1..4 : i + h <= Len(s) /\ s[i + h] < Radix
  BY DEF HasFrame
<1>2. i - 1 + FrameSize(s, i).all <= Len(s)
  BY DEF HasFrame
<1>3. \A j \in 1..h : i + j \in 1..Len(s) /\ s[i + j] \in Int
  <2>1. Len(s) \in Nat /\ \A l \in 1..Len(s) : s[l] \in Int
    OBVIOUS
  <2>2. \A j \in 1..h : i + j \in 1..Len(s)
    BY <1>1, <2>1
  <2>3. QED BY <2>1, <2>2
<1>4. PICK k \in 1..h : s[i + k] < Radix /\ \A j \in 1..(k - 1) : ~(s[i + j] < Radix)
  <2> DEFINE S == {j \in 1..h : s[i + j] < Radix}
  <2>1. S # {} /\ S \in SUBSET Nat /\ IsFiniteSet(S)
    <3>1. h \in 1..h
      OBVIOUS
    <3>2. S # {}
      BY <1>1, <3>1
    <3>3. S \in SUBSET Nat
      OBVIOUS
    <3>4. IsFiniteSet(1..h)
      BY FS_Interval
    <3>5. S \subseteq 1..h
      OBVIOUS
    <3> HIDE DEF S
    <3>6. QED BY <3>2, <3>4, <3>5, <3>3, FS_Subset
  <2>2. PICK k \in S : \A j \in S : k <= j
    <3> HIDE DEF S
    <3>1. QED BY <2>1, LeastElement
  <2>3. \A j \in 1..(k - 1) : ~(s[i + j] < Radix)
    <3>1. ASSUME NEW j \in 1..(k - 1), s[i + j] < Radix PROVE FALSE
      <4>1. j \in S /\ ~(k <= j)
        BY <3>1
      <4>2. QED BY <2>2, <4>1
    <3>2. QED BY <3>1
  <2>4. QED BY <2>2, <2>3
<1>5. k \in 1..4 /\ (\A j \in 1..k : j \in 1..h) /\ (\A j \in 1..(k - 1) : j \in 1..h)
  OBVIOUS
<1>6. (\A j \in 1..k : s[i + j] \in Int) /\ \A j \in 1..(k - 1) : s[i + j] >= Radix
  <2>1. \A j \in 1..k : s[i + j] \in Int
    BY <1>3, <1>5
  <2>2. ASSUME NEW j \in 1..(k - 1) PROVE s[i + j] >= Radix
    <3>1. s[i + j] \in Int /\ ~(s[i + j] < Radix)
      BY <1>3, <1>4, <1>5
    <3>2. QED BY <3>1, RadixIs
  <2>3. QED BY <2>1, <2>2
<1>7. PICK f : Counted(f, s, i, k) /\ FrameSize(s, i) = [header |-> 1 + k, all |-> 1 + k + f[k]]
  BY <1>4, <1>5, <1>6, FrameSizeIs
<1>8. \A j \in 1..k : (s[i + j] % Radix) * Weight[j] \in Nat
  <2>1. \A j \in 1..k : s[i + j] % Radix \in Nat
    <3>1. \A x \in Int : x % Radix \in Nat
      BY RadixIs
    <3>2. QED BY <1>6, <3>1
  <2>2. \A j \in 1..4 : Weight[j] \in Nat
    <3>1. Weight[1] \in Nat /\ Weight[2] \in Nat /\ Weight[3] \in Nat /\ Weight[4] \in Nat
      BY RadixIs, WeightIs
    <3>2. \A j \in 1..4 : j = 1 \/ j = 2 \/ j = 3 \/ j = 4
      OBVIOUS
    <3>3. QED BY <3>1, <3>2
  <2>3. \A x, y \in Nat : x * y \in Nat
    OBVIOUS
  <2>4. \A j \in 1..k : j \in 1..4
    BY <1>5
  <2>5. QED BY <2>1, <2>2, <2>3, <2>4
<1>9. f[k] \in Nat
  <2> DEFINE t(j) == (s[i + j] % Radix) * Weight[j]
  <2>1. f[0] = 0 /\ \A j \in 1..k : t(j) \in Nat /\ f[j] = f[j - 1] + t(j)
    BY <1>7, <1>8 DEF Counted
  <2> HIDE DEF t
  <2>2. f[1] \in Nat
    <3>1. 1 \in 1..k /\ 1 - 1 = 0
      BY <1>5
    <3>2. QED BY <2>1, <3>1
  <2>3. k >= 2 => f[2] \in Nat
    <3>1. k >= 2 => 2 \in 1..k /\ 2 - 1 = 1
      BY <1>5
    <3>2. QED BY <2>1, <2>2, <3>1
  <2>4. k >= 3 => f[3] \in Nat
    <3>1. k >= 3 => 3 \in 1..k /\ 3 - 1 = 2 /\ k >= 2
      BY <1>5
    <3>2. QED BY <2>1, <2>3, <3>1
  <2>5. k >= 4 => f[4] \in Nat
    <3>1. k >= 4 => 4 \in 1..k /\ 4 - 1 = 3 /\ k >= 3
      BY <1>5
    <3>2. QED BY <2>1, <2>4, <3>1
  <2>6. k = 1 \/ k = 2 \/ k = 3 \/ k = 4
    BY <1>5
  <2>7. QED BY <2>2, <2>3, <2>4, <2>5, <2>6
<1>10. 1 + k \in Nat /\ 1 + k + f[k] \in Nat \ {0}
  BY <1>5, <1>9
<1>11. QED BY <1>2, <1>7, <1>10

(* The request at byte i of s, and the sets of what is read. *)
Frame(s, i) ==
    [first |-> s[i], body |-> SubSeq(s, i + FrameSize(s, i).header, i - 1 + FrameSize(s, i).all)]

AnyFrame == [first : Int, body : Seq(Int)]

(* The function in Frames is what it is defined to be. *)
LEMMA FramesFrom ==
    ASSUME NEW s \in Seq(Int)
    PROVE  \E F : /\ Frames(s) = F[1]
                  /\ \A i \in 1..(Len(s) + 1) :
                       F[i] = IF ~HasFrame(s, i) THEN <<>>
                              ELSE <<Frame(s, i)>> \o F[i + FrameSize(s, i).all]
<1> DEFINE T == 1..(Len(s) + 1)
           S == Seq(AnyFrame)
           B == {i \in T : ~HasFrame(s, i)}
           m == [i \in T |-> Len(s) + 1 - i]
           c == [i \in T |-> <<>>]
           p == [i \in T |-> IF HasFrame(s, i) THEN i + FrameSize(s, i).all ELSE i]
           h == [i \in T |-> IF HasFrame(s, i) THEN [v \in S |-> <<Frame(s, i)>> \o v] ELSE [v \in S |-> v]]
           Body(f) == [i \in 1..(Len(s) + 1) |->
                         IF ~HasFrame(s, i) THEN <<>>
                         ELSE <<[first |-> s[i], body |-> SubSeq(s, i + FrameSize(s, i).header, i - 1 + FrameSize(s, i).all)]>>
                                \o f[i + FrameSize(s, i).all]]
           F == CHOOSE f : f = Body(f)
<1>1. Len(s) \in Nat
  OBVIOUS
<1>2. \A i \in T : HasFrame(s, i) =>
        /\ FrameSize(s, i).header \in Nat /\ FrameSize(s, i).all \in Nat \ {0}
        /\ i - 1 + FrameSize(s, i).all <= Len(s)
  BY FrameAdvances
<1>3. \A i \in T : HasFrame(s, i) => Frame(s, i) \in AnyFrame
  <2> SUFFICES ASSUME NEW i \in T, HasFrame(s, i) PROVE Frame(s, i) \in AnyFrame
    OBVIOUS
  <2> DEFINE a == FrameSize(s, i).header
             b == FrameSize(s, i).all
  <2>1. a \in Nat /\ b \in Nat \ {0} /\ i - 1 + b <= Len(s)
    BY <1>2
  <2> HIDE DEF a, b
  <2>2. i + a \in Nat \ {0} /\ i - 1 + b \in Int /\ i \in 1..Len(s)
    BY <1>1, <2>1
  <2>3. SubSeq(s, i + a, i - 1 + b) \in Seq(Int)
    BY <2>1, <2>2, PartElements
  <2>4. s[i] \in Int
    BY <2>2
  <2>5. QED BY <2>3, <2>4 DEF Frame, AnyFrame, a, b
<1>4. Recursion(T, S, m, B, c, p, h)
  <2>1. m \in [T -> Nat] /\ B \in SUBSET T /\ c \in [T -> S]
    BY <1>1
  <2>2. \A i \in T : p[i] \in T
    <3> SUFFICES ASSUME NEW i \in T PROVE p[i] \in T
      OBVIOUS
    <3>1. CASE HasFrame(s, i)
      <4> DEFINE b == FrameSize(s, i).all
      <4>1. b \in Nat \ {0} /\ i - 1 + b <= Len(s)
        BY <1>2, <3>1
      <4> HIDE DEF b
      <4>2. i + b \in T
        BY <1>1, <4>1
      <4>3. QED BY <3>1, <4>2 DEF b
    <3>2. CASE ~HasFrame(s, i)
      BY <3>2
    <3>3. QED BY <3>1, <3>2
  <2>3. p \in [T -> T]
    <3>1. p = [i \in T |-> p[i]]
      OBVIOUS
    <3> HIDE DEF p, T
    <3>2. QED BY <2>2, <3>1
  <2>4. h \in [T -> [S -> S]]
    <3>1. ASSUME NEW i \in T, HasFrame(s, i), NEW v \in S PROVE <<Frame(s, i)>> \o v \in S
      <4> DEFINE x == Frame(s, i)
      <4>1. x \in AnyFrame
        BY <1>3, <3>1
      <4> HIDE DEF x
      <4>2. <<x>> \in Seq(AnyFrame) /\ v \in Seq(AnyFrame)
        BY <4>1
      <4>3. <<x>> \o v \in Seq(AnyFrame)
        BY <4>2, ConcatProperties
      <4>4. QED BY <4>3 DEF x
    <3> HIDE DEF T, S
    <3>2. \A i \in T : (IF HasFrame(s, i) THEN [v \in S |-> <<Frame(s, i)>> \o v] ELSE [v \in S |-> v]) \in [S -> S]
      BY <3>1
    <3>3. QED BY <3>2
  <2>5. \A i \in T \ B : m[p[i]] < m[i]
    <3> SUFFICES ASSUME NEW i \in T \ B PROVE m[p[i]] < m[i]
      OBVIOUS
    <3> DEFINE b == FrameSize(s, i).all
    <3>1. HasFrame(s, i) /\ i \in T
      OBVIOUS
    <3>2. b \in Nat \ {0} /\ i - 1 + b <= Len(s)
      BY <1>2, <3>1
    <3>3. p[i] = i + b
      BY <3>1
    <3> HIDE DEF b
    <3>4. i + b \in T
      BY <1>1, <3>1, <3>2
    <3>5. m[i + b] = Len(s) + 1 - (i + b) /\ m[i] = Len(s) + 1 - i
      BY <3>1, <3>4
    <3> HIDE DEF m, p
    <3>6. QED BY <1>1, <3>1, <3>2, <3>3, <3>5
  <2> HIDE DEF T, S, B, m, c, p, h
  <2>6. QED BY <2>1, <2>3, <2>4, <2>5 DEF Recursion
<1>5. PICK f \in [T -> S] : \A i \in T : f[i] = IF i \in B THEN c[i] ELSE h[i][f[p[i]]]
  <2> HIDE DEF T, S, B, m, c, p, h, Body, F
  <2>1. \E f \in [T -> S] : Solves(f, T, B, c, p, h)
    BY <1>4, RecursionExists
  <2>2. QED BY <2>1 DEF Solves
<1>6. f = Body(f)
  <2>1. ASSUME NEW i \in T PROVE f[i] = IF ~HasFrame(s, i) THEN <<>> ELSE <<Frame(s, i)>> \o f[i + FrameSize(s, i).all]
    <3>1. CASE ~HasFrame(s, i)
      BY <1>5, <3>1
    <3>2. CASE HasFrame(s, i)
      <4>1. f[i] = h[i][f[p[i]]]
        BY <1>5, <3>2
      <4>2. p[i] = i + FrameSize(s, i).all /\ p[i] \in T
        BY <1>4, <3>2 DEF Recursion
      <4>3. f[p[i]] \in S
        BY <1>5, <4>2
      <4>4. h[i] = [v \in S |-> <<Frame(s, i)>> \o v]
        BY <3>2
      <4> HIDE DEF h, p, S
      <4>5. f[i] = <<Frame(s, i)>> \o f[p[i]]
        BY <4>1, <4>3, <4>4
      <4>6. QED BY <3>2, <4>2, <4>5
    <3>3. QED BY <3>1, <3>2
  <2>2. f = [i \in T |-> f[i]]
    BY <1>5
  <2>3. f = [i \in T |-> IF ~HasFrame(s, i) THEN <<>> ELSE <<Frame(s, i)>> \o f[i + FrameSize(s, i).all]]
    <3> HIDE DEF T, S, B, c, p, h
    <3>1. QED BY <2>1, <2>2
  <2>4. QED BY <2>3 DEF Frame
<1>7. F = Body(F)
  <2> HIDE DEF Body
  <2>1. QED BY <1>6
<1>8. Frames(s) = F[1]
  BY ZenonT(30) DEF Frames
<1>9. \A i \in 1..(Len(s) + 1) : F[i] = IF ~HasFrame(s, i) THEN <<>> ELSE <<Frame(s, i)>> \o F[i + FrameSize(s, i).all]
  <2> HIDE DEF F
  <2>1. QED BY <1>7, Zenon DEF Frame
<1> HIDE DEF F
<1>10. QED BY <1>8, <1>9

(* A request that is whole is found, and read as what it says. *)
LEMMA FrameFound ==
    ASSUME NEW s \in Seq(Int), NEW a \in Nat, NEW w \in Seq(Int), NEW m, Says(w, m),
           a + Len(w) <= Len(s), \A j \in 1..Len(w) : s[a + j] = w[j]
    PROVE  /\ HasFrame(s, a + 1) /\ FrameSize(s, a + 1).all = Len(w) /\ Len(w) \in Nat \ {0}
           /\ Frame(s, a + 1) \in AnyFrame /\ Reads(Frame(s, a + 1)) = m
<1>1. PICK first \in Int, body \in Seq(Int) :
        /\ Len(body) < Weight[5] /\ IsMessage(w, first, body)
        /\ Reads([first |-> first, body |-> body]) = m
  BY DEF Says
<1> DEFINE n == Len(body)
           k == Size(n)
           i == a + 1
<1>2. n \in Nat /\ n < Weight[5] /\ k \in 1..4
  <2>1. n \in Nat /\ n < Weight[5]
    BY <1>1
  <2> HIDE DEF n
  <2>2. QED BY <2>1, SizeIs
<1>3. /\ Len(w) = 1 + k + n /\ w[1] = first /\ Digits(w, 1, n)
      /\ \A j \in 1..n : w[1 + k + j] = body[j]
  BY <1>1 DEF IsMessage
<1> HIDE DEF n, k
<1>4. \A j \in 1..(1 + k + n) : s[a + j] = w[j]
  BY <1>3
<1>5. \A j \in 1..k : s[i + j] = w[1 + j]
  <2> SUFFICES ASSUME NEW j \in 1..k PROVE s[i + j] = w[1 + j]
    OBVIOUS
  <2>1. i + j = a + (1 + j) /\ 1 + j \in 1..(1 + k + n)
    BY <1>2
  <2> HIDE DEF i
  <2>2. QED BY <1>4, <2>1
<1>6. Digits(s, i, n)
  BY <1>3, <1>5 DEF Digits, k
<1>7. i \in Nat
  OBVIOUS
<1>8. FrameSize(s, i) = [header |-> 1 + k, all |-> 1 + k + n]
  <2> HIDE DEF i
  <2>1. QED BY <1>2, <1>6, <1>7, FrameWhole DEF k
<1>9. Len(s) \in Nat /\ a + (1 + k + n) <= Len(s)
  BY <1>3
<1>10. HasFrame(s, i)
  <2>1. i + 1 <= Len(s) /\ i - 1 + (1 + k + n) <= Len(s) /\ i + k <= Len(s)
    BY <1>2, <1>9
  <2>2. s[i + k] < Radix
    <3>1. k \in 1..k /\ ~(k < k)
      BY <1>2
    <3> HIDE DEF i
    <3>2. s[i + k] < Radix <=> ~(k < Size(n))
      BY <1>2, <1>6, <1>7, <3>1, DigitIs DEF k
    <3>3. QED BY <3>1, <3>2 DEF k
  <2> HIDE DEF i
  <2>3. QED BY <1>2, <1>8, <2>1, <2>2 DEF HasFrame
<1>11. Frame(s, i) = [first |-> first, body |-> body]
  <2>1. s[i] = first
    <3>1. i = a + 1 /\ 1 \in 1..(1 + k + n)
      BY <1>2
    <3>2. QED BY <1>3, <1>4, <3>1
  <2>2. i + (1 + k) \in Nat \ {0} /\ (i + (1 + k)) + n - 1 = i - 1 + (1 + k + n) /\ (i + (1 + k)) + n - 1 <= Len(s)
    BY <1>2, <1>9
  <2>3. \A j \in 1..n : s[(i + (1 + k)) + j - 1] = body[j]
    <3> SUFFICES ASSUME NEW j \in 1..n PROVE s[(i + (1 + k)) + j - 1] = body[j]
      OBVIOUS
    <3>1. (i + (1 + k)) + j - 1 = a + (1 + k + j) /\ 1 + k + j \in 1..(1 + k + n)
      BY <1>2
    <3> HIDE DEF i
    <3>2. QED BY <1>3, <1>4, <3>1
  <2> HIDE DEF i
  <2>4. SubSeq(s, i + (1 + k), (i + (1 + k)) + Len(body) - 1) = body
    BY <2>2, <2>3, PartIs DEF n
  <2>5. SubSeq(s, i + (1 + k), i - 1 + (1 + k + n)) = body
    BY <2>2, <2>4 DEF n
  <2>6. FrameSize(s, i).header = 1 + k /\ FrameSize(s, i).all = 1 + k + n
    BY <1>8
  <2>7. Frame(s, i) = [first |-> s[i], body |-> SubSeq(s, i + (1 + k), i - 1 + (1 + k + n))]
    BY <2>6 DEF Frame
  <2> HIDE DEF k, n
  <2>8. QED BY <2>1, <2>5, <2>7
<1>12. [first |-> first, body |-> body] \in AnyFrame
  BY DEF AnyFrame
<1>13. FrameSize(s, i).all = Len(w) /\ Len(w) \in Nat \ {0}
  BY <1>2, <1>3, <1>8
<1>14. QED BY <1>1, <1>10, <1>11, <1>12, <1>13

(* There is no request in a part of one, or in nothing. *)
LEMMA FrameNot ==
    ASSUME NEW s \in Seq(Int), NEW a \in 0..Len(s), NEW w \in Seq(Int), NEW m, Says(w, m),
           Len(s) < a + Len(w), \A j \in 1..(Len(s) - a) : s[a + j] = w[j]
    PROVE  ~HasFrame(s, a + 1)
<1>1. PICK first \in Int, body \in Seq(Int) : Len(body) < Weight[5] /\ IsMessage(w, first, body)
  BY DEF Says
<1> DEFINE n == Len(body)
           k == Size(n)
           i == a + 1
           p == Len(s) - a
<1>2. n \in Nat /\ n < Weight[5] /\ k \in 1..4
  <2>1. n \in Nat /\ n < Weight[5]
    BY <1>1
  <2> HIDE DEF n
  <2>2. QED BY <2>1, SizeIs
<1>3. Len(w) = 1 + k + n /\ Digits(w, 1, n)
  BY <1>1 DEF IsMessage
<1> HIDE DEF n, k
<1>4. p \in Nat /\ p < 1 + k + n /\ Len(s) = a + p /\ a \in Nat /\ i \in Nat /\ Len(s) \in Nat
  BY <1>2, <1>3
<1>5. \A j \in 1..p : s[a + j] = w[j]
  OBVIOUS
<1> HIDE DEF p
<1>6. SUFFICES ASSUME HasFrame(s, i) PROVE FALSE
  OBVIOUS
<1>7. PICK h \in 1..4 : i + h <= Len(s) /\ s[i + h] < Radix
  BY <1>6 DEF HasFrame
<1>8. 1 + h <= p /\ h \in Nat
  BY <1>4, <1>7
<1>9. \A j \in 1..h : s[i + j] = w[1 + j]
  <2> SUFFICES ASSUME NEW j \in 1..h PROVE s[i + j] = w[1 + j]
    OBVIOUS
  <2>1. i + j = a + (1 + j) /\ 1 + j \in 1..p
    BY <1>4, <1>8
  <2> HIDE DEF i
  <2>2. QED BY <1>5, <2>1
<1>10. k <= h
  <2>1. SUFFICES ASSUME h < k PROVE FALSE
    BY <1>2
  <2>2. h \in 1..k /\ h \in 1..h
    BY <1>2, <2>1
  <2>3. w[1 + h] < Radix <=> ~(h < Size(n))
    BY <1>2, <1>3, <2>2, DigitIs DEF k
  <2>4. s[i + h] = w[1 + h]
    BY <1>9, <2>2
  <2>5. QED BY <1>7, <2>1, <2>3, <2>4 DEF k
<1>11. Digits(s, i, n)
  <2>1. \A j \in 1..k : j \in 1..h
    BY <1>2, <1>10
  <2>2. \A j \in 1..k : s[i + j] = w[1 + j]
    BY <1>9, <2>1
  <2>3. QED BY <1>3, <2>2 DEF Digits, k
<1>12. FrameSize(s, i) = [header |-> 1 + k, all |-> 1 + k + n]
  <2> HIDE DEF i
  <2>1. QED BY <1>2, <1>4, <1>11, FrameWhole DEF k
<1>13. i - 1 + (1 + k + n) <= Len(s)
  BY <1>6, <1>12 DEF HasFrame
<1>14. QED BY <1>2, <1>4, <1>13

(* The bytes of s behind the a-th are those of w. *)
Piece(s, a, w) == \A j \in 1..Len(w) : s[a + j] = w[j]

(* There is a request after the a-th byte of s, of the length of w, and it *)
(* is read as m.                                                           *)
Found(s, a, w, m) ==
    /\ HasFrame(s, a + 1) /\ FrameSize(s, a + 1).all = Len(w) /\ Len(w) \in Nat \ {0}
    /\ Frame(s, a + 1) \in AnyFrame /\ Reads(Frame(s, a + 1)) = m

(* A request that is a piece of s is found. *)
LEMMA PieceFound ==
    ASSUME NEW s \in Seq(Int), NEW a \in Nat, NEW w \in Seq(Int), NEW m, Says(w, m),
           a + Len(w) <= Len(s), Piece(s, a, w)
    PROVE  Found(s, a, w, m)
<1>1. \A j \in 1..Len(w) : s[a + j] = w[j]
  BY DEF Piece
<1>2. /\ HasFrame(s, a + 1) /\ FrameSize(s, a + 1).all = Len(w) /\ Len(w) \in Nat \ {0}
      /\ Frame(s, a + 1) \in AnyFrame /\ Reads(Frame(s, a + 1)) = m
  BY <1>1, FrameFound
<1>3. QED BY <1>2 DEF Found

(* b says where the requests ms, with the bytes W, begin and end in s.     *)
Bounds(s, ms, b, W) ==
    /\ b \in [0..Len(ms) -> 0..Len(s)] /\ b[0] = 0 /\ b[Len(ms)] = Len(s)
    /\ \A i \in 1..Len(ms) : /\ W[i] \in Seq(Int) /\ Says(W[i], ms[i])
                             /\ b[i] = b[i - 1] + Len(W[i]) /\ Piece(s, b[i - 1], W[i])

(* s is the requests ms, one after the other. *)
Told(s, ms) == \E b, W : Bounds(s, ms, b, W)

(* No bytes are no requests. *)
LEMMA ToldNothing == Told(<<>>, <<>>)
<1> DEFINE e == <<>>
           b == [i \in 0..0 |-> 0]
           W == <<>>
<1>1. Len(e) = 0 /\ b \in [0..0 -> 0..0] /\ b[0] = 0 /\ \A i \in 1..0 : FALSE
  OBVIOUS
<1> HIDE DEF b, W, e
<1>2. Bounds(e, e, b, W)
  BY <1>1 DEF Bounds
<1>3. Told(e, e)
  BY <1>2 DEF Told
<1>4. QED BY <1>3 DEF e

(* A request more, at the end. *)
LEMMA ToldMore ==
    ASSUME NEW S, NEW ms \in Seq(S), NEW m \in S, NEW s \in Seq(Int), NEW w \in Seq(Int),
           Told(s, ms), Says(w, m)
    PROVE  Told(s \o w, Append(ms, m))
<1> DEFINE n == Len(ms)
           t == s \o w
           qs == Append(ms, m)
           l == Len(s)
           k == Len(w)
<1>1. n \in Nat /\ Len(qs) = n + 1 /\ qs[n + 1] = m /\ \A i \in 1..n : qs[i] = ms[i]
  BY AppendProperties
<1>2. /\ t \in Seq(Int) /\ Len(t) = l + k /\ l \in Nat /\ k \in Nat
      /\ \A i \in 1..l : t[i] = s[i]
      /\ \A i \in 1..k : t[l + i] = w[i]
  BY Joined
<1>3. PICK b, W : Bounds(s, ms, b, W)
  BY DEF Told
<1>4. /\ b \in [0..n -> 0..l] /\ b[0] = 0 /\ b[n] = l
      /\ \A i \in 1..n : /\ W[i] \in Seq(Int) /\ Says(W[i], ms[i])
                         /\ b[i] = b[i - 1] + Len(W[i]) /\ Piece(s, b[i - 1], W[i])
  BY <1>3 DEF Bounds
<1> HIDE DEF n, t, qs, l, k
<1> DEFINE c == [i \in 0..(n + 1) |-> IF i = n + 1 THEN l + k ELSE b[i]]
           X == [i \in 1..(n + 1) |-> IF i = n + 1 THEN w ELSE W[i]]
<1>5. /\ c[0] = 0 /\ c[n + 1] = l + k /\ X[n + 1] = w
      /\ \A i \in 0..n : c[i] = b[i] /\ b[i] \in 0..l
      /\ \A i \in 1..n : X[i] = W[i]
  <2>1. 0 \in 0..(n + 1) /\ n + 1 \in 0..(n + 1) /\ n + 1 \in 1..(n + 1) /\ 0 # n + 1 /\ 0 \in 0..n
    BY <1>1
  <2>2. \A i \in 0..n : i \in 0..(n + 1) /\ i # n + 1
    BY <1>1
  <2>3. \A i \in 1..n : i \in 1..(n + 1) /\ i # n + 1
    BY <1>1
  <2>4. QED BY <1>4, <2>1, <2>2, <2>3
<1>6. c \in [0..(n + 1) -> 0..(l + k)]
  <2>1. \A i \in 0..(n + 1) : i = n + 1 \/ i \in 0..n
    BY <1>1
  <2>2. \A x \in 0..l : x \in 0..(l + k)
    BY <1>2
  <2>3. l + k \in 0..(l + k)
    BY <1>2
  <2>4. \A i \in 0..(n + 1) : c[i] \in 0..(l + k)
    <3> HIDE DEF c, X
    <3>1. QED BY <1>5, <2>1, <2>2, <2>3
  <2>5. QED BY <2>4
<1> HIDE DEF c, X
<1>7. ASSUME NEW i \in 1..(n + 1)
      PROVE  /\ X[i] \in Seq(Int) /\ Says(X[i], qs[i])
             /\ c[i] = c[i - 1] + Len(X[i]) /\ Piece(t, c[i - 1], X[i])
  <2>1. CASE i = n + 1
    <3>1. n \in 0..n /\ i - 1 = n
      BY <1>1, <2>1
    <3>2. c[i - 1] = l /\ c[i] = l + k /\ X[i] = w /\ qs[i] = m
      BY <1>1, <1>4, <1>5, <2>1, <3>1
    <3>3. Piece(t, l, w)
      BY <1>2 DEF Piece, k
    <3>4. QED BY <3>2, <3>3 DEF k
  <2>2. CASE i # n + 1
    <3>1. i \in 1..n /\ i \in 0..n /\ i - 1 \in 0..n
      BY <1>1, <2>2
    <3>2. c[i - 1] = b[i - 1] /\ c[i] = b[i] /\ X[i] = W[i] /\ qs[i] = ms[i] /\ b[i] \in 0..l /\ b[i - 1] \in 0..l
      BY <1>1, <1>5, <3>1
    <3>3. W[i] \in Seq(Int) /\ Says(W[i], ms[i]) /\ b[i] = b[i - 1] + Len(W[i]) /\ Piece(s, b[i - 1], W[i])
      BY <1>4, <3>1
    <3>4. Piece(t, b[i - 1], W[i])
      <4> DEFINE a == b[i - 1]
                 v == W[i]
      <4>1. a \in Nat /\ Len(v) \in Nat /\ a + Len(v) <= l /\ l \in Nat
        BY <1>2, <3>2, <3>3
      <4>2. \A j \in 1..Len(v) : s[a + j] = v[j]
        BY <3>3 DEF Piece
      <4> HIDE DEF a, v
      <4>3. \A j \in 1..Len(v) : a + j \in 1..l
        BY <4>1
      <4>4. \A j \in 1..Len(v) : t[a + j] = v[j]
        BY <1>2, <4>2, <4>3
      <4>5. QED BY <4>4 DEF Piece, a, v
    <3>5. QED BY <3>2, <3>3, <3>4
  <2>3. QED BY <2>1, <2>2
<1>8. Bounds(t, qs, c, X)
  BY <1>1, <1>2, <1>5, <1>6, <1>7 DEF Bounds
<1>9. Told(t, qs)
  BY <1>8 DEF Told
<1>10. QED BY <1>9 DEF t, qs

(* One more at the front. *)
LEMMA InFront ==
    ASSUME NEW S, NEW x \in S, NEW g \in Seq(S)
    PROVE  /\ <<x>> \o g \in Seq(S) /\ Len(<<x>> \o g) = Len(g) + 1 /\ Len(g) \in Nat /\ (<<x>> \o g)[1] = x
           /\ \A j \in 2..(Len(g) + 1) : (<<x>> \o g)[j] = g[j - 1]
<1> DEFINE s == <<x>> \o g
<1>1. <<x>> \in Seq(S) /\ Len(<<x>>) = 1 /\ <<x>>[1] = x /\ Len(g) \in Nat
  OBVIOUS
<1>2. /\ s \in Seq(S) /\ Len(s) = Len(<<x>>) + Len(g)
      /\ \A i \in 1..(Len(<<x>>) + Len(g)) : s[i] = IF i <= Len(<<x>>) THEN <<x>>[i] ELSE g[i - Len(<<x>>)]
  BY <1>1, ConcatProperties
<1> HIDE DEF s
<1>3. s[1] = x
  BY <1>1, <1>2
<1>4. \A j \in 2..(Len(g) + 1) : s[j] = g[j - 1]
  BY <1>1, <1>2
<1>5. QED BY <1>1, <1>2, <1>3, <1>4 DEF s

(* The server reads the requests ms in s, and no others, when they are the *)
(* front of s and what follows them is no request.                         *)
LEMMA FramesTold ==
    ASSUME NEW S, NEW ms \in Seq(S), NEW s \in Seq(Int), NEW a \in Seq(Int), NEW p \in Seq(Int),
           s = a \o p, Told(a, ms), ~HasFrame(s, Len(a) + 1)
    PROVE  Len(Frames(s)) = Len(ms) /\ \A i \in 1..Len(ms) : Reads(Frames(s)[i]) = ms[i]
<1> DEFINE n == Len(ms)
           l == Len(a)
<1>1. n \in Nat /\ l \in Nat /\ Len(s) \in Nat /\ l <= Len(s) /\ \A i \in 1..l : s[i] = a[i]
  BY Joined
<1>2. PICK b, W : Bounds(a, ms, b, W)
  BY DEF Told
<1>3. /\ b \in [0..n -> 0..l] /\ b[0] = 0 /\ b[n] = l
      /\ \A i \in 1..n : /\ W[i] \in Seq(Int) /\ Says(W[i], ms[i])
                         /\ b[i] = b[i - 1] + Len(W[i]) /\ Piece(a, b[i - 1], W[i])
  BY <1>2 DEF Bounds
<1>4. PICK F : /\ Frames(s) = F[1]
               /\ \A i \in 1..(Len(s) + 1) : F[i] = IF ~HasFrame(s, i) THEN <<>>
                                                    ELSE <<Frame(s, i)>> \o F[i + FrameSize(s, i).all]
  BY FramesFrom
<1>5. ~HasFrame(s, l + 1)
  OBVIOUS
<1> HIDE DEF n, l
<1>6. ASSUME NEW i \in 1..n
      PROVE  /\ Frame(s, b[i - 1] + 1) \in AnyFrame /\ Reads(Frame(s, b[i - 1] + 1)) = ms[i]
             /\ F[b[i - 1] + 1] = <<Frame(s, b[i - 1] + 1)>> \o F[b[i] + 1]
  <2> DEFINE c == b[i - 1]
             w == W[i]
             k == Len(w)
  <2>1. /\ w \in Seq(Int) /\ Says(w, ms[i]) /\ b[i] = c + k /\ k \in Nat
        /\ \A j \in 1..k : a[c + j] = w[j]
    BY <1>3 DEF Piece
  <2>2. c \in 0..l /\ b[i] \in 0..l
    <3>1. i \in 0..n /\ i - 1 \in 0..n
      BY <1>1
    <3>2. QED BY <1>3, <3>1
  <2> HIDE DEF c, w
  <2>3. c \in Nat /\ c + k <= Len(s) /\ c + k <= l
    BY <1>1, <2>1, <2>2
  <2>4. \A j \in 1..k : s[c + j] = w[j]
    <3> HIDE DEF k
    <3>1. \A j \in 1..k : c + j \in 1..l
      BY <1>1, <2>1, <2>3
    <3>2. QED BY <1>1, <2>1, <3>1
  <2>5. /\ HasFrame(s, c + 1) /\ FrameSize(s, c + 1).all = k /\ k \in Nat \ {0}
        /\ Frame(s, c + 1) \in AnyFrame /\ Reads(Frame(s, c + 1)) = ms[i]
    <3> DEFINE m == ms[i]
    <3>1. w \in Seq(Int) /\ Says(w, m) /\ c \in Nat /\ c + Len(w) <= Len(s)
      BY <2>1, <2>3
    <3>2. Piece(s, c, w)
      BY <2>4 DEF Piece
    <3> HIDE DEF m, k
    <3>3. Found(s, c, w, m)
      BY <3>1, <3>2, PieceFound
    <3>4. QED BY <3>3 DEF Found, m, k
  <2> HIDE DEF k
  <2>6. c + 1 \in 1..(Len(s) + 1) /\ (c + 1) + k = b[i] + 1
    <3>1. b[i] = c + k /\ k \in Nat
      BY <2>1
    <3>2. QED BY <1>1, <2>3, <3>1
  <2>7. F[c + 1] = <<Frame(s, c + 1)>> \o F[b[i] + 1]
    BY <1>4, <2>5, <2>6
  <2>8. QED BY <2>5, <2>7 DEF c
<1> DEFINE G(d) == F[b[n - d] + 1]
           Good(d) == G(d) \in Seq(AnyFrame) /\ Len(G(d)) = d /\ \A j \in 1..d : Reads(G(d)[j]) = ms[n - d + j]
           P == {d \in Nat : d <= n => Good(d)}
<1>7. 0 \in P
  <2>1. n - 0 = n /\ l + 1 \in 1..(Len(s) + 1)
    BY <1>1
  <2>2. G(0) = <<>>
    BY <1>3, <1>4, <1>5, <2>1
  <2> HIDE DEF G
  <2>3. <<>> \in Seq(AnyFrame) /\ Len(<<>>) = 0 /\ \A j \in 1..0 : FALSE
    OBVIOUS
  <2>4. Good(0)
    BY <2>2, <2>3
  <2> HIDE DEF Good
  <2>5. QED BY <2>4
<1>8. ASSUME NEW d \in P PROVE d + 1 \in P
  <2> SUFFICES ASSUME d + 1 <= n PROVE Good(d + 1)
    OBVIOUS
  <2> DEFINE i == n - d
             x == Frame(s, b[i - 1] + 1)
             g == G(d)
             h == G(d + 1)
  <2>1. d \in Nat /\ d <= n /\ i \in 1..n /\ n - (d + 1) = i - 1
    BY <1>1
  <2>2. Good(d)
    BY <2>1
  <2>3. g \in Seq(AnyFrame) /\ Len(g) = d /\ \A j \in 1..d : Reads(g[j]) = ms[i + j]
    BY <2>2
  <2>4. x \in AnyFrame /\ Reads(x) = ms[i] /\ h = <<x>> \o g
    BY <1>6, <2>1
  <2> HIDE DEF g, h, x, G
  <2>5. h \in Seq(AnyFrame) /\ Len(h) = d + 1 /\ h[1] = x /\ \A j \in 2..(d + 1) : h[j] = g[j - 1]
    BY <2>3, <2>4, InFront
  <2>6. ASSUME NEW j \in 1..(d + 1) PROVE Reads(h[j]) = ms[(i - 1) + j]
    <3>1. CASE j = 1
      <4>1. (i - 1) + j = i
        BY <2>1, <3>1
      <4>2. QED BY <2>4, <2>5, <3>1, <4>1
    <3>2. CASE j # 1
      <4>1. j - 1 \in 1..d /\ j \in 2..(d + 1) /\ i + (j - 1) = (i - 1) + j
        BY <2>1, <3>2
      <4>2. QED BY <2>3, <2>5, <4>1
    <3>3. QED BY <3>1, <3>2
  <2>7. \A j \in 1..(d + 1) : Reads(h[j]) = ms[n - (d + 1) + j]
    BY <2>1, <2>6
  <2>8. QED BY <2>5, <2>7 DEF h
<1>9. P = Nat
  <2>1. P \in SUBSET Nat
    OBVIOUS
  <2> HIDE DEF P
  <2>2. QED BY <1>7, <1>8, <2>1, NumberInduction
<1>10. Good(n)
  <2>1. n \in P /\ n <= n
    <3> HIDE DEF P
    <3>1. QED BY <1>1, <1>9
  <2> HIDE DEF Good
  <2>2. QED BY <2>1
<1>11. n - n = 0 /\ b[0] + 1 = 1
  BY <1>1, <1>3
<1>12. G(n) = Frames(s)
  BY <1>4, <1>11
<1>13. Len(Frames(s)) = n /\ \A j \in 1..n : Reads(Frames(s)[j]) = ms[n - n + j]
  <2> HIDE DEF G
  <2>1. QED BY <1>10, <1>12
<1>14. \A j \in 1..n : n - n + j = j
  BY <1>1
<1>15. QED BY <1>13, <1>14 DEF n

-----------------------------------------------------------------------------
(* What the server was sent, and what was asked: the inductive invariant. *)

(* What is sent. *)
Messages ==
    Requests \cup {Meaning("ping", 0, <<>>, <<>>), Meaning("puback", 1, <<>>, <<>>),
                   Meaning("disconnect", 0, <<>>, <<>>), Meaning("none", 0, <<>>, <<>>)}
             \cup {Meaning("connect", 0, p.id, <<>>) : p \in Params}

(* s is the requests qs, but for r, the rest of the last of them, m. *)
Cut(s, qs, r, m) ==
    \E ms \in Seq(Messages), a \in Seq(Int), p \in Seq(Int) :
      Told(a, ms) /\ qs = Append(ms, m) /\ p # <<>> /\ s = a \o p /\ Says(p \o r, m)

AskedType ==
    /\ params \in Params
    /\ rest \in [Senders -> Seq(Int)] /\ fresh \in [Senders -> BOOLEAN] /\ cur \in [Senders -> Messages]
    /\ out \in Seq(Int) /\ asked \in Seq(Messages)

FreshInv == \A t \in Senders : rest[t] # <<>> /\ fresh[t] => Says(rest[t], cur[t])

(* The peer was sent the requests that were made, the last of them perhaps *)
(* in part.                                                                *)
OutInv ==
    ~spoilt =>
      /\ \A t, o \in Senders : Midway(t) /\ Midway(o) => t = o
      /\ (\A t \in Senders : ~Midway(t)) => Told(out, asked)
      /\ \A t \in Senders : Midway(t) => Cut(out, asked, rest[t], cur[t])

AskedInv == AskedType /\ FreshInv /\ OutInv

(* What a step does not touch. *)
LEMMA AskedQuiet ==
    AskedInv /\ UNCHANGED <<params, rest, fresh, spoilt, out, cur, asked>> => AskedInv'
BY DEF AskedInv, AskedType, FreshInv, OutInv, Midway

(* A send begins, of bytes that say what they are to. *)
LEMMA AskedBegins ==
    ASSUME AskedInv, NEW t \in Senders, NEW m \in Messages, NEW w, Says(w, m), MqttSend(t, m, w), params' = params
    PROVE  AskedInv'
<1>1. w \in Seq(Int)
  BY DEF Says, IsMessage
<1>2. /\ rest[t] = <<>> /\ rest' = [rest EXCEPT ![t] = w] /\ fresh' = [fresh EXCEPT ![t] = TRUE]
      /\ cur' = [cur EXCEPT ![t] = m] /\ UNCHANGED <<spoilt, out, asked>>
  BY DEF MqttSend, SendBegin
<1>3. AskedType'
  BY <1>1, <1>2 DEF AskedInv, AskedType
<1>4. /\ rest'[t] = w /\ fresh'[t] = TRUE /\ cur'[t] = m
      /\ \A o \in Senders : o # t => rest'[o] = rest[o] /\ fresh'[o] = fresh[o] /\ cur'[o] = cur[o]
  BY <1>2 DEF AskedInv, AskedType
<1>5. FreshInv'
  BY <1>4 DEF AskedInv, FreshInv
<1>6. ~Midway(t) /\ ~Midway(t)' /\ \A o \in Senders : o # t => Midway(o)' = Midway(o)
  BY <1>2, <1>4 DEF Midway
<1>7. OutInv'
  <2> SUFFICES ASSUME ~spoilt PROVE OutInv'
    BY <1>2 DEF OutInv
  <2>1. /\ \A u, o \in Senders : Midway(u) /\ Midway(o) => u = o
        /\ (\A u \in Senders : ~Midway(u)) => Told(out, asked)
        /\ \A u \in Senders : Midway(u) => Cut(out, asked, rest[u], cur[u])
    BY DEF AskedInv, OutInv
  <2>2. \A u, o \in Senders : Midway(u)' /\ Midway(o)' => u = o
    BY <1>6, <2>1
  <2>3. (\A u \in Senders : ~Midway(u)') => Told(out', asked')
    BY <1>2, <1>6, <2>1
  <2>4. ASSUME NEW u \in Senders, Midway(u)' PROVE Cut(out', asked', rest'[u], cur'[u])
    BY <1>2, <1>4, <1>6, <2>1, <2>4
  <2>5. QED BY <2>2, <2>3, <2>4 DEF OutInv
<1>8. QED BY <1>3, <1>5, <1>7 DEF AskedInv

(* A buffer in two parts. *)
LEMMA TwoParts ==
    ASSUME NEW w \in Seq(Int), NEW k \in 1..Len(w)
    PROVE  LET x == SubSeq(w, 1, k)
               y == SubSeq(w, k + 1, Len(w))
           IN  x \in Seq(Int) /\ y \in Seq(Int) /\ x # <<>> /\ x \o y = w
<1> DEFINE e == <<>>
           c == e \o SubSeq(w, 1, k)
           x == SubSeq(w, 1, k)
           y == SubSeq(w, k + 1, Len(w))
<1>1. e \in Seq(Int) /\ Len(e) = 0
  OBVIOUS
<1>2. c \in Seq(Int) /\ y \in Seq(Int) /\ c \o y = e \o w /\ Len(c) = Len(e) + k
  BY <1>1, BytesMove
<1>3. x \in Seq(Int)
  <2>1. k \in Int /\ k <= Len(w) /\ 1 \in Nat \ {0}
    OBVIOUS
  <2>2. QED BY <2>1, PartElements
<1>4. c = x /\ e \o w = w
  BY <1>3, Whole
<1>5. x # <<>>
  <2>1. Len(x) = 0 + k /\ k \in Nat /\ k >= 1
    BY <1>1, <1>2, <1>4
  <2> HIDE DEF x
  <2>2. Len(<<>>) = 0
    OBVIOUS
  <2>3. QED BY <2>1, <2>2
<1>6. QED BY <1>2, <1>3, <1>4, <1>5

(* The network takes some of a request. *)
LEMMA TakeAsked == ASSUME AskedInv, NEW t \in Senders, Take(t) PROVE AskedInv'
<1> DEFINE w == rest[t]
           m == cur[t]
<1>1. PICK k \in 1..Len(w) :
        /\ spoilt' = (spoilt \/ \E o \in Senders \ {t} : Midway(o))
        /\ out' = (IF spoilt' THEN <<>> ELSE out \o SubSeq(w, 1, k))
        /\ rest' = [rest EXCEPT ![t] = SubSeq(w, k + 1, Len(w))]
        /\ fresh' = [fresh EXCEPT ![t] = FALSE] /\ w # <<>>
        /\ asked' = (IF spoilt' THEN <<>> ELSE IF fresh[t] THEN Append(asked, m) ELSE asked)
        /\ UNCHANGED <<params, cur>>
  BY DEF Take, TcpSend, PlainSend, SslSend2, SendSome
<1> DEFINE x == SubSeq(w, 1, k)
           y == SubSeq(w, k + 1, Len(w))
<1>2. /\ w \in Seq(Int) /\ m \in Messages /\ out \in Seq(Int) /\ asked \in Seq(Messages)
      /\ rest \in [Senders -> Seq(Int)] /\ fresh \in [Senders -> BOOLEAN] /\ cur \in [Senders -> Messages]
  BY DEF AskedInv, AskedType
<1>3. x \in Seq(Int) /\ y \in Seq(Int) /\ x # <<>> /\ x \o y = w
  BY <1>2, TwoParts
<1>4. /\ out' = (IF spoilt' THEN <<>> ELSE out \o x) /\ rest'[t] = y /\ fresh'[t] = FALSE
      /\ \A o \in Senders : o # t => rest'[o] = rest[o] /\ fresh'[o] = fresh[o]
  BY <1>1, <1>2
<1> HIDE DEF x, y
<1>5. AskedType'
  <2>1. rest' \in [Senders -> Seq(Int)] /\ fresh' \in [Senders -> BOOLEAN]
    BY <1>1, <1>2, <1>3 DEF y
  <2>2. out' \in Seq(Int)
    <3>1. <<>> \in Seq(Int) /\ out \o x \in Seq(Int)
      BY <1>2, <1>3, JoinedType
    <3>2. QED BY <1>4, <3>1
  <2>3. asked' \in Seq(Messages)
    <3>1. <<>> \in Seq(Messages) /\ Append(asked, m) \in Seq(Messages)
      BY <1>2, AppendProperties
    <3>2. QED BY <1>1, <1>2, <3>1
  <2>4. QED BY <1>1, <1>2, <2>1, <2>2, <2>3 DEF AskedInv, AskedType
<1>6. FreshInv'
  BY <1>1, <1>4 DEF AskedInv, FreshInv
<1>7. \A o \in Senders : o # t => Midway(o)' = Midway(o)
  BY <1>4 DEF Midway
<1>8. Midway(t)' <=> y # <<>>
  BY <1>4 DEF Midway
<1>9. OutInv'
  <2> SUFFICES ASSUME ~spoilt' PROVE OutInv'
    BY DEF OutInv
  <2>1. ~spoilt /\ \A o \in Senders : o # t => ~Midway(o)
    BY <1>1
  <2>2. \A o \in Senders : o # t => ~Midway(o)'
    BY <1>7, <2>1
  <2>3. out' = out \o x /\ asked' = (IF fresh[t] THEN Append(asked, m) ELSE asked)
    BY <1>1, <1>4
  <2>4. y = <<>> => Told(out', asked')
    <3> SUFFICES ASSUME y = <<>> PROVE Told(out', asked')
      OBVIOUS
    <3>1. x = w
      BY <1>3, Whole
    <3>2. CASE fresh[t]
      <4>1. ~Midway(t)
        BY <3>2 DEF Midway
      <4>2. Told(out, asked)
        BY <2>1, <4>1 DEF AskedInv, OutInv
      <4>3. Says(x, m)
        BY <1>1, <3>1, <3>2 DEF AskedInv, FreshInv
      <4> HIDE DEF m
      <4>4. Told(out \o x, Append(asked, m))
        BY <1>2, <1>3, <4>2, <4>3, ToldMore
      <4>5. QED BY <2>3, <3>2, <4>4
    <3>3. CASE ~fresh[t]
      <4>1. Midway(t)
        BY <1>1, <3>3 DEF Midway
      <4>2. Cut(out, asked, w, m)
        BY <2>1, <4>1 DEF AskedInv, OutInv
      <4> HIDE DEF w, m
      <4>3. PICK ms \in Seq(Messages), a \in Seq(Int), p \in Seq(Int) :
               Told(a, ms) /\ asked = Append(ms, m) /\ p # <<>> /\ out = a \o p /\ Says(p \o w, m)
        BY <4>2 DEF Cut
      <4>4. Says(p \o x, m) /\ p \o x \in Seq(Int)
        BY <1>3, <3>1, <4>3, JoinedType
      <4>5. Told(a \o (p \o x), Append(ms, m))
        BY <1>2, <4>3, <4>4, ToldMore
      <4>6. out \o x = a \o (p \o x)
        BY <1>3, <4>3, JoinedThree
      <4>7. QED BY <2>3, <3>3, <4>3, <4>5, <4>6
    <3>4. QED BY <3>2, <3>3
  <2>5. y # <<>> => Cut(out', asked', y, m)
    <3> SUFFICES ASSUME y # <<>> PROVE Cut(out', asked', y, m)
      OBVIOUS
    <3>1. CASE fresh[t]
      <4>1. ~Midway(t)
        BY <3>1 DEF Midway
      <4>2. Told(out, asked)
        BY <2>1, <4>1 DEF AskedInv, OutInv
      <4>3. Says(x \o y, m)
        BY <1>1, <1>3, <3>1 DEF AskedInv, FreshInv
      <4> HIDE DEF w, m
      <4>4. Cut(out \o x, Append(asked, m), y, m)
        BY <1>2, <1>3, <4>2, <4>3 DEF Cut
      <4>5. QED BY <2>3, <3>1, <4>4
    <3>2. CASE ~fresh[t]
      <4>1. Midway(t)
        BY <1>1, <3>2 DEF Midway
      <4>2. Cut(out, asked, w, m)
        BY <2>1, <4>1 DEF AskedInv, OutInv
      <4> HIDE DEF w, m
      <4>3. PICK ms \in Seq(Messages), a \in Seq(Int), p \in Seq(Int) :
               Told(a, ms) /\ asked = Append(ms, m) /\ p # <<>> /\ out = a \o p /\ Says(p \o w, m)
        BY <4>2 DEF Cut
      <4> DEFINE q == p \o x
      <4>4. q \in Seq(Int) /\ q # <<>>
        <5>1. /\ q \in Seq(Int) /\ Len(q) = Len(p) + Len(x) /\ Len(p) \in Nat /\ Len(x) \in Nat
          BY <1>3, Joined
        <5>2. Len(p) # 0 /\ Len(<<>>) = 0
          BY <4>3
        <5> HIDE DEF q
        <5>3. QED BY <5>1, <5>2
      <4>5. q \o y = p \o w
        BY <1>3, JoinedThree
      <4>6. out \o x = a \o q
        BY <1>3, <4>3, JoinedThree
      <4> HIDE DEF q
      <4>7. Cut(out \o x, asked, y, m)
        BY <4>3, <4>4, <4>5, <4>6 DEF Cut
      <4>8. QED BY <2>3, <3>2, <4>7
    <3>3. QED BY <3>1, <3>2
  <2>6. \A u, o \in Senders : Midway(u)' /\ Midway(o)' => u = o
    BY <2>2
  <2>7. (\A u \in Senders : ~Midway(u)') => Told(out', asked')
    BY <1>8, <2>4
  <2>8. ASSUME NEW u \in Senders, Midway(u)' PROVE Cut(out', asked', rest'[u], cur'[u])
    <3>1. u = t
      BY <2>2, <2>8
    <3>2. y # <<>>
      BY <1>8, <2>8, <3>1
    <3>3. rest'[u] = y /\ cur'[u] = m
      BY <1>1, <1>4, <3>1
    <3>4. QED BY <2>5, <3>2, <3>3
  <2>9. QED BY <2>6, <2>7, <2>8 DEF OutInv
<1>10. QED BY <1>5, <1>6, <1>9 DEF AskedInv

(* A send is given up. *)
LEMMA GiveUpAsked == ASSUME AskedInv, NEW t \in Senders, GiveUp(t) PROVE AskedInv'
<1>1. /\ rest[t] # <<>> /\ rest' = [rest EXCEPT ![t] = <<>>] /\ fresh' = [fresh EXCEPT ![t] = FALSE]
      /\ spoilt' = (spoilt \/ Midway(t)) /\ out' = (IF spoilt' THEN <<>> ELSE out)
      /\ asked' = (IF spoilt' THEN <<>> ELSE asked) /\ UNCHANGED <<params, cur>>
  BY DEF GiveUp, SendGivesUp
<1>2. AskedType /\ <<>> \in Seq(Int) /\ <<>> \in Seq(Messages)
  BY DEF AskedInv
<1>3. AskedType'
  BY <1>1, <1>2 DEF AskedType
<1>4. /\ rest'[t] = <<>>
      /\ \A o \in Senders : o # t => rest'[o] = rest[o] /\ fresh'[o] = fresh[o]
  BY <1>1, <1>2 DEF AskedType
<1>5. FreshInv'
  BY <1>1, <1>4 DEF AskedInv, FreshInv
<1>6. ~Midway(t)' /\ \A o \in Senders : o # t => Midway(o)' = Midway(o)
  BY <1>4 DEF Midway
<1>7. OutInv'
  <2> SUFFICES ASSUME ~spoilt' PROVE OutInv'
    BY DEF OutInv
  <2>1. ~spoilt /\ ~Midway(t) /\ out' = out /\ asked' = asked
    BY <1>1
  <2>2. /\ \A u, o \in Senders : Midway(u) /\ Midway(o) => u = o
        /\ (\A u \in Senders : ~Midway(u)) => Told(out, asked)
        /\ \A u \in Senders : Midway(u) => Cut(out, asked, rest[u], cur[u])
    BY <2>1 DEF AskedInv, OutInv
  <2>3. \A u, o \in Senders : Midway(u)' /\ Midway(o)' => u = o
    BY <1>6, <2>2
  <2>4. (\A u \in Senders : ~Midway(u)') => Told(out', asked')
    BY <1>6, <2>1, <2>2
  <2>5. ASSUME NEW u \in Senders, Midway(u)' PROVE Cut(out', asked', rest'[u], cur'[u])
    BY <1>1, <1>4, <1>6, <2>1, <2>2, <2>5
  <2>6. QED BY <2>3, <2>4, <2>5 DEF OutInv
<1>8. QED BY <1>3, <1>5, <1>7 DEF AskedInv

(* The requests of the user, and what the library sends by itself.  Only   *)
(* what says what it is to is sent.                                        *)
LEMMA BeginsAsked ==
    ASSUME AskedInv, Hello \/ Ping \/ HandlePublish \/ Break \/ \E m \in Requests : Request(m)
    PROVE  AskedInv'
<1>1. CASE Hello
  <2> DEFINE m == Meaning("connect", 0, params.id, <<>>)
             w == BuildConnect(params.id, params.user, params.pass, 60)
  <2>1. params \in Params
    BY DEF AskedInv, AskedType
  <2>2. Says(w, m)
    BY <2>1, ConnectSays
  <2>3. m \in Messages
    BY <2>1 DEF Messages
  <2>4. MqttSend(R, m, w) /\ params' = params
    BY <1>1 DEF Hello
  <2> HIDE DEF m, w
  <2>5. QED BY <2>2, <2>3, <2>4, TwoSenders, AskedBegins
<1>2. CASE Ping
  <2> DEFINE m == Meaning("ping", 0, <<>>, <<>>)
  <2>1. Says(BuildPing, m) /\ m \in Messages
    BY PingSays DEF Messages
  <2>2. MqttSend(R, m, BuildPing) /\ params' = params
    BY <1>2 DEF Ping
  <2> HIDE DEF m
  <2>3. QED BY <2>1, <2>2, TwoSenders, AskedBegins
<1>3. CASE HandlePublish
  <2> DEFINE m == Meaning("puback", 1, <<>>, <<>>)
             w == BuildPuback(1, Understood(buf).id)
  <2>1. Says(w, m) /\ m \in Messages
    BY PubackSays DEF Messages
  <2>2. MqttSend(R, m, w) /\ params' = params
    BY <1>3 DEF HandlePublish
  <2> HIDE DEF m, w
  <2>3. QED BY <2>1, <2>2, TwoSenders, AskedBegins
<1>4. CASE Break
  <2> DEFINE m == Meaning("disconnect", 0, <<>>, <<>>)
  <2>1. Says(BuildDisconnect, m) /\ m \in Messages
    BY DisconnectSays DEF Messages
  <2>2. MqttSend(R, m, BuildDisconnect) /\ params' = params
    BY <1>4 DEF Break
  <2> HIDE DEF m
  <2>3. QED BY <2>1, <2>2, TwoSenders, AskedBegins
<1>5. ASSUME NEW m \in Requests, Request(m) PROVE AskedInv'
  <2>1. Says(Built(m), m) /\ m \in Messages
    BY RequestSays, RequestAssumption DEF Messages
  <2>2. MqttSend(U, m, Built(m)) /\ params' = params
    BY <1>5 DEF Request
  <2>3. QED BY <2>1, <2>2, TwoSenders, AskedBegins
<1>6. QED BY <1>1, <1>2, <1>3, <1>4, <1>5

(* With a new connection nothing is sent, and no one sends. *)
LEMMA ConnectAsked == ASSUME ControlInv, AskedInv, ConnectBegins PROVE AskedInv'
<1>1. /\ pc = "down" /\ out' = <<>> /\ spoilt' = FALSE /\ asked' = <<>>
      /\ UNCHANGED <<params, rest, fresh, cur>>
  BY DEF ConnectBegins, TcpConnect
<1>2. rest[U] = <<>> /\ rest[R] = <<>>
  BY <1>1, TwoSenders DEF ControlInv, SendsInv, PlaceInv
<1>3. \A t \in Senders : ~Midway(t)'
  BY <1>1, <1>2, TwoSenders DEF Midway
<1>4. Told(out', asked')
  BY <1>1, ToldNothing
<1>5. OutInv'
  BY <1>3, <1>4 DEF OutInv
<1>6. <<>> \in Seq(Int) /\ <<>> \in Seq(Messages)
  OBVIOUS
<1>7. AskedType' /\ FreshInv'
  BY <1>1, <1>6 DEF AskedInv, AskedType, FreshInv
<1>8. QED BY <1>5, <1>7 DEF AskedInv

(* A connect that fails cuts no request off. *)
LEMMA ErrorAsked ==
    ASSUME ControlInv, AskedInv, pc \in Early \cup Reading, rest' = [rest EXCEPT ![R] = <<>>],
           UNCHANGED <<params, fresh, spoilt, out, cur, asked>>
    PROVE  AskedInv'
<1>1. rest[R] = <<>>
  BY DEF ControlInv, SendsInv, Early, Reading
<1>2. rest' = rest
  BY <1>1 DEF AskedInv, AskedType
<1>3. QED BY <1>2, AskedQuiet

(* The steps that may end a connect. *)
LEMMA EndsAsked ==
    ASSUME ControlInv, AskedInv,
           HttpsRequest \/ HttpsReply \/ HttpsReplyFails \/ RecvTimesOut \/ RecvFails \/ Refused
    PROVE  AskedInv'
<1>1. /\ pc \in Early \cup Reading
      /\ UNCHANGED <<params, fresh, spoilt, out, cur, asked>>
      /\ UNCHANGED rest \/ rest' = [rest EXCEPT ![R] = <<>>]
  <2>1. CASE HttpsRequest
    BY <2>1 DEF HttpsRequest, ConnectError, noNet, tcpVars, sendVars, Early
  <2>2. CASE HttpsReply
    BY <2>2 DEF HttpsReply, ConnectError, sendVars, Early
  <2>3. CASE HttpsReplyFails
    BY <2>3 DEF HttpsReplyFails, ConnectError, noNet, sendVars, Early
  <2>4. CASE RecvTimesOut
    BY <2>4 DEF RecvTimesOut, RecvError, ConnectError, noNet, tcpVars, sendVars, Reading
  <2>5. CASE RecvFails
    BY <2>5 DEF RecvFails, RecvError, ConnectError, noNet, sendVars, recvVars, Reading
  <2>6. CASE Refused
    BY <2>6 DEF Refused, ConnectError, noNet, sendVars, Reading
  <2>7. QED BY <2>1, <2>2, <2>3, <2>4, <2>5, <2>6
<1>2. CASE UNCHANGED rest
  BY <1>1, <1>2, AskedQuiet
<1>3. CASE rest' = [rest EXCEPT ![R] = <<>>]
  BY <1>1, <1>3, ErrorAsked
<1>4. QED BY <1>1, <1>2, <1>3

(* Every step keeps what was sent and what was asked together. *)
LEMMA AskedStep == ControlInv /\ AskedInv /\ [Next]_vars => AskedInv'
<1> SUFFICES ASSUME ControlInv, AskedInv, [Next]_vars PROVE AskedInv'
  OBVIOUS
<1>1. CASE ConnectBegins
  BY <1>1, ConnectAsked
<1>2. CASE HttpsRequest \/ HttpsReply \/ HttpsReplyFails \/ RecvTimesOut \/ RecvFails \/ Refused
  BY <1>2, EndsAsked
<1>3. CASE Hello \/ Ping \/ HandlePublish \/ Break \/ \E m \in Requests : Request(m)
  BY <1>3, BeginsAsked
<1>4. ASSUME NEW t \in Senders, Take(t) PROVE AskedInv'
  BY <1>4, TakeAsked
<1>5. ASSUME NEW t \in Senders, GiveUp(t) PROVE AskedInv'
  BY <1>5, GiveUpAsked
<1>6. CASE \/ ConnectGoesOn \/ ConnectIsRefused \/ RecvBegins \/ RecvHeader \/ RecvBody \/ Accepted \/ Handle
           \/ SendEnds \/ Disconnect \/ RequestEnds \/ Push \/ Answer \/ Close \/ UNCHANGED vars
  <2>1. UNCHANGED <<params, rest, fresh, spoilt, out, cur, asked>>
    <3>1. CASE ConnectGoesOn \/ ConnectIsRefused
      BY <3>1 DEF ConnectGoesOn, ConnectStep, ConnectIsRefused, ConnectFails, sendVars
    <3>2. CASE RecvBegins \/ RecvHeader \/ RecvBody
      BY <3>2 DEF RecvBegins, RecvHeader, RecvBody, tcpVars, sendVars
    <3>3. CASE Accepted \/ Handle \/ SendEnds \/ Disconnect \/ RequestEnds
      BY <3>3 DEF Accepted, Handle, SendEnds, Disconnect, RequestEnds, tcpVars, sendVars, noNet
    <3>4. CASE Push
      BY <3>4 DEF Push, PeerSends, sendVars
    <3>5. CASE Answer \/ Close \/ UNCHANGED vars
      BY <3>5 DEF Answer, Close, vars, tcpVars, ownVars
    <3>6. QED BY <1>6, <3>1, <3>2, <3>3, <3>4, <3>5
  <2>2. QED BY <2>1, AskedQuiet
<1>7. QED BY <1>1, <1>2, <1>3, <1>4, <1>5, <1>6 DEF Next

(* At the start nothing is sent. *)
LEMMA AskedStarts == Init => AskedInv
<1> SUFFICES ASSUME Init PROVE AskedInv
  OBVIOUS
<1> DEFINE none == Meaning("none", 0, <<>>, <<>>)
<1>1. /\ params \in Params /\ rest = [t \in Senders |-> <<>>] /\ fresh = [t \in Senders |-> FALSE]
      /\ cur = [t \in Senders |-> none] /\ out = <<>> /\ asked = <<>>
  BY DEF Init, TcpInit, Params
<1>2. <<>> \in Seq(Int) /\ <<>> \in Seq(Messages)
  OBVIOUS
<1>3. none \in Messages
  BY DEF Messages
<1> HIDE DEF none
<1>4. AskedType
  BY <1>1, <1>2, <1>3 DEF AskedType
<1>5. \A t \in Senders : rest[t] = <<>>
  BY <1>1
<1>6. FreshInv /\ OutInv
  BY <1>1, <1>5, ToldNothing DEF FreshInv, OutInv, Midway
<1>7. QED BY <1>4, <1>6 DEF AskedInv

(* The front of a sequence that is one longer. *)
LEMMA FrontIs ==
    ASSUME NEW S, NEW ms \in Seq(S), NEW m \in S
    PROVE  /\ Prefix(ms, ms) /\ Prefix(ms, Append(ms, m))
           /\ Len(Append(ms, m)) = Len(ms) + 1 /\ Len(ms) \in Nat
<1> DEFINE n == Len(ms)
<1>1. n \in Nat /\ Len(ms) = n /\ \A i \in 1..n : ms[i] \in S
  OBVIOUS
<1>2. ASSUME NEW q \in Seq(S), n <= Len(q), \A i \in 1..n : q[i] = ms[i] PROVE Prefix(ms, q)
  <2> DEFINE x == SubSeq(q, 1, n)
  <2> HIDE DEF n
  <2>1. \A i \in 1..n : q[i] \in S
    BY <1>1, <1>2
  <2>2. /\ x \in Seq(S) /\ Len(x) = (IF 1 <= n THEN n - 1 + 1 ELSE 0)
        /\ \A i \in 1..(n - 1 + 1) : x[i] = q[1 + i - 1]
    BY <1>1, <1>2, <2>1, SubSeqProperties
  <2> HIDE DEF x
  <2>3. Len(x) = n
    BY <1>1, <2>2
  <2>4. ASSUME NEW i \in 1..n PROVE x[i] = ms[i]
    <3>1. i \in 1..(n - 1 + 1) /\ 1 + i - 1 = i
      BY <1>1
    <3>2. QED BY <1>2, <2>2, <3>1
  <2>5. ms = x
    BY <1>1, <2>2, <2>3, <2>4, SeqEqual
  <2>6. QED BY <1>1, <1>2, <2>5 DEF Prefix, x
<1>3. /\ Append(ms, m) \in Seq(S) /\ Len(Append(ms, m)) = n + 1
      /\ \A i \in 1..n : Append(ms, m)[i] = ms[i]
  BY AppendProperties
<1>4. n <= Len(ms) /\ n <= Len(Append(ms, m))
  BY <1>1, <1>3
<1>5. QED BY <1>1, <1>2, <1>3, <1>4

(* What the server reads is what was asked. *)
LEMMA AskedEnough == AskedInv => SeenAsSent
<1> DEFINE n == Len(Frames(out))
           seen == [i \in 1..n |-> Reads(Frames(out)[i])]
<1> SUFFICES ASSUME AskedInv, ~spoilt PROVE Prefix(seen, asked) /\ Len(asked) <= Len(seen) + 1
  BY DEF SeenAsSent
<1>1. out \in Seq(Int) /\ asked \in Seq(Messages) /\ cur \in [Senders -> Messages] /\ rest \in [Senders -> Seq(Int)]
  BY DEF AskedInv, AskedType
<1>2. ASSUME NEW ms \in Seq(Messages), n = Len(ms), \A i \in 1..Len(ms) : Reads(Frames(out)[i]) = ms[i]
      PROVE  seen = ms
  <2>1. ms = [i \in 1..Len(ms) |-> ms[i]]
    OBVIOUS
  <2> HIDE DEF n
  <2>2. seen = [i \in 1..Len(ms) |-> ms[i]]
    BY <1>2
  <2>3. QED BY <2>1, <2>2
<1> HIDE DEF seen
<1>3. CASE \A t \in Senders : ~Midway(t)
  <2> DEFINE e == <<>>
  <2>1. Told(out, asked)
    BY <1>3 DEF AskedInv, OutInv
  <2>2. e \in Seq(Int) /\ out = out \o e
    BY <1>1, Whole
  <2>3. ~HasFrame(out, Len(out) + 1)
    <3>1. Len(out) \in Nat /\ ~((Len(out) + 1) + 1 <= Len(out))
      BY <1>1
    <3>2. QED BY <3>1 DEF HasFrame
  <2> HIDE DEF e
  <2>4. n = Len(asked) /\ \A i \in 1..Len(asked) : Reads(Frames(out)[i]) = asked[i]
    BY <1>1, <2>1, <2>2, <2>3, FramesTold
  <2> HIDE DEF n
  <2>5. seen = asked
    BY <1>1, <1>2, <2>4
  <2>6. Prefix(asked, asked) /\ Len(asked) \in Nat
    <3>1. \A m \in Messages : Prefix(asked, asked)
      BY <1>1, FrontIs
    <3>2. \E m : m \in Messages
      BY DEF Messages
    <3>3. QED BY <1>1, <3>1, <3>2
  <2>7. Len(asked) <= Len(asked) + 1
    BY <2>6
  <2>8. QED BY <2>5, <2>6, <2>7
<1>4. ASSUME NEW t \in Senders, Midway(t) PROVE Prefix(seen, asked) /\ Len(asked) <= Len(seen) + 1
  <2> DEFINE r == rest[t]
             m == cur[t]
  <2>1. Cut(out, asked, r, m) /\ r # <<>> /\ r \in Seq(Int) /\ m \in Messages
    BY <1>1, <1>4 DEF AskedInv, OutInv, Midway
  <2> HIDE DEF r, m
  <2>2. PICK ms \in Seq(Messages), a \in Seq(Int), p \in Seq(Int) :
           Told(a, ms) /\ asked = Append(ms, m) /\ p # <<>> /\ out = a \o p /\ Says(p \o r, m)
    BY <2>1 DEF Cut
  <2> DEFINE w == p \o r
             l == Len(a)
  <2>3. ~HasFrame(out, l + 1)
    <3>1. /\ w \in Seq(Int) /\ Len(w) = Len(p) + Len(r) /\ Len(p) \in Nat /\ Len(r) \in Nat
          /\ \A i \in 1..Len(p) : w[i] = p[i]
      BY <2>1, Joined
    <3>2. /\ Len(out) = l + Len(p) /\ l \in Nat
          /\ \A i \in 1..Len(p) : out[l + i] = p[i]
      BY <2>2, Joined
    <3>3. Len(r) # 0
      BY <2>1
    <3>4. Says(w, m)
      BY <2>2
    <3> HIDE DEF w, l
    <3>5. l \in 0..Len(out) /\ Len(out) < l + Len(w) /\ Len(out) - l = Len(p)
      BY <3>1, <3>2, <3>3
    <3>6. \A j \in 1..(Len(out) - l) : out[l + j] = w[j]
      BY <3>1, <3>2, <3>5
    <3>7. QED BY <1>1, <3>1, <3>4, <3>5, <3>6, FrameNot
  <2>4. n = Len(ms) /\ \A i \in 1..Len(ms) : Reads(Frames(out)[i]) = ms[i]
    BY <1>1, <2>2, <2>3, FramesTold
  <2> HIDE DEF n
  <2>5. seen = ms
    BY <1>2, <2>4
  <2>6. Prefix(ms, asked) /\ Len(asked) = Len(ms) + 1 /\ Len(ms) \in Nat
    BY <2>1, <2>2, FrontIs
  <2>7. Len(asked) <= Len(ms) + 1
    BY <2>6
  <2>8. QED BY <2>5, <2>6, <2>7
<1>5. QED BY <1>3, <1>4

(* However the network takes the stream, the server sees the requests that *)
(* were made, each whole and with its data, unless a send gave up midway   *)
(* or a ping went between the pieces of another request.                   *)
THEOREM SeenAsSentCorrect == Spec => []SeenAsSent
<1> DEFINE Inv == ReadInv /\ AskedInv
<1>1. Init => Inv
  BY ReadStarts, AskedStarts
<1>2. Inv /\ [Next]_vars => Inv'
  <2> SUFFICES ASSUME Inv, [Next]_vars PROVE Inv'
    OBVIOUS
  <2>1. ReadInv' /\ ControlInv
    BY ReadStep DEF ReadInv
  <2>2. AskedInv'
    BY <2>1, AskedStep
  <2>3. QED BY <2>1, <2>2
<1>3. Inv => SeenAsSent
  BY AskedEnough
<1>4. QED BY <1>1, <1>2, <1>3, PTL DEF Spec
=============================================================================
