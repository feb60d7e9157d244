------------------------------ MODULE MqttMsg ------------------------------
(***************************************************************************)
(* The messages of MQTT as mqtt.msg.c builds and reads them: operators on  *)
(* sequences of bytes.  A string is a sequence of bytes, a string that may *)
(* be NULL a set of at most one string.  An allocation that fails is left  *)
(* to the callers.                                                         *)
(*                                                                         *)
(* Radix is 128 in the code: the remaining length of a packet is written   *)
(* in digits of that base, and Radix is also the bit of a digit that says  *)
(* that another one follows.  A smaller one makes short packets cross the  *)
(* boundaries at which the header grows; with 4 the messages of a fixed    *)
(* length still have one digit.                                            *)
(*                                                                         *)
(* FixedHeaderLenOff is no part of it: see MqttWire.                       *)
(***************************************************************************)
EXTENDS Integers, Sequences

CONSTANT Radix

ASSUME RadixAssumption == Radix \in 4..128

(* What a digit counts for, and what four digits do not reach. *)
Weight == <<1, Radix, Radix * Radix, Radix * Radix * Radix, Radix * Radix * Radix * Radix>>

More(b)  == (b \div Radix) % 2 = 1
Digit(b) == b % Radix

(* _mqtt_decode_header_length: at most four digits are read from s.  The   *)
(* caller says that there are n.                                           *)
DecodeHeaderLength(s, n) ==
    LET Last(k) == ~More(s[k]) \/ k > n \/ k = 4
        k == CHOOSE i \in 1..4 : Last(i) /\ \A j \in 1..(i - 1) : ~Last(j)
        Value[i \in 0..4] ==
            IF i = 0 THEN 0 ELSE Value[i - 1] + Digit(s[i]) * Weight[i]
    IN  IF More(s[k]) THEN [ok |-> FALSE, size |-> 0, len |-> 0]
                      ELSE [ok |-> TRUE, size |-> k, len |-> Value[k]]

(* _mqtt_encode_fixed_header_len *)
EncodeFixedHeaderLen(l) ==
    LET Digits[n \in Nat] ==
            IF n < Radix THEN <<n>>
            ELSE <<(n % Radix) + Radix>> \o Digits[n \div Radix]
    IN  Digits[l]

FixedHeaderLenOff(n) ==
    IF n <= Radix THEN 2
    ELSE CHOOSE k \in 3..5 : n < Weight[k] /\ n >= Weight[k - 1]

(* MQTT_CALC_FHEADER_LENGTH: the type and the digits. *)
FixedHeaderLen(n) ==
    IF n < Radix THEN 2
    ELSE CHOOSE k \in 3..5 : n < Weight[k] /\ n >= Weight[k - 1]

(* swap16: two bytes, the high one first. *)
U16(n)        == <<(n \div 256) % 256, n % 256>>
ReadU16(s, i) == 256 * s[i] + s[i + 1]

EncodeString(s) == U16(Len(s)) \o s

(* _mqtt_decode_string at position i of s, and the position after it. *)
DecodeString(s, i) ==
    LET n == ReadU16(s, i) IN [str |-> SubSeq(s, i + 2, i + 1 + n), next |-> i + 2 + n]

Optional(S) == IF S = {} THEN <<>> ELSE EncodeString(CHOOSE s \in S : TRUE)

(* A packet is allocated with FixedHeaderLen bytes in front of its body, *)
(* and the header is written over them.                                  *)
Framed(first, body) ==
    LET k == FixedHeaderLen(Len(body))
        h == <<first>> \o EncodeFixedHeaderLen(Len(body))
    IN  SubSeq(h \o <<0>>, 1, k) \o body

ProtocolName == <<77, 81, 73, 115, 100, 112>>

BuildConnect(id, user, pass, keepalive) ==
    Framed(16, EncodeString(ProtocolName)
                 \o <<3, (IF user # {} THEN 128 ELSE 0) + (IF pass # {} THEN 64 ELSE 0)>>
                 \o U16(keepalive)
                 \o EncodeString(id) \o Optional(user) \o Optional(pass))

ProcessConnack(d) ==
    IF Len(d) # 4 THEN "length"
    ELSE IF d[1] \div 16 # 2 THEN "type"
    ELSE IF d[4] = 0 THEN "ok"
    ELSE "refused"

BuildDisconnect == <<224, 0>>
BuildPing       == <<192, 0>>

BuildPublish(topic, qos, retain, msgId, payload) ==
    Framed(48 + (IF qos > 0 THEN 2 ELSE 0) + (IF retain THEN 1 ELSE 0),
           EncodeString(topic) \o (IF qos > 0 THEN U16(msgId) ELSE <<>>) \o payload)

BuildPuback(msgId, qos) == <<64, 2>> \o U16(msgId)

(* The three acknowledgements, told apart by type and length. *)
Ack(d, type, len) ==
    IF Len(d) # len \/ d[1] \div 16 # type THEN [ret |-> "bad"]
    ELSE [ret |-> "ok", id |-> ReadU16(d, 3)]

ProcessPuback(d)   == Ack(d, 4, 4)
ProcessUnsuback(d) == Ack(d, 11, 4)
ProcessSuback(d) ==
    IF Len(d) = 5 /\ d[1] \div 16 = 9 /\ d[5] >= 128 THEN [ret |-> "failure"]
    ELSE Ack(d, 9, 5)

(* mqtt_msg_process_publish.  The bit of quality of service 1 is tested    *)
(* before that of 2.                                                       *)
ProcessPublish(d) ==
    LET h == DecodeHeaderLength(Tail(d), Len(d) - 1)
        qos == IF (d[1] \div 2) % 2 = 1 THEN 1 ELSE IF (d[1] \div 4) % 2 = 1 THEN 2 ELSE 0
        t == DecodeString(d, 2 + h.size)
        p == IF qos > 0 THEN t.next + 2 ELSE t.next
    IN  IF Len(d) <= 2 \/ d[1] \div 16 # 3 \/ ~h.ok THEN [ret |-> "bad"]
        ELSE [ret |-> "ok", qos |-> qos, id |-> IF qos > 0 THEN ReadU16(d, t.next) ELSE 0,
              topic |-> t.str, payload |-> SubSeq(d, p, 1 + h.size + h.len)]

BuildSubscribe(topic, qos, msgId) ==
    Framed(130, U16(msgId) \o EncodeString(topic) \o <<qos % 4>>)

BuildUnsubscribe(topic, msgId) == Framed(162, U16(msgId) \o EncodeString(topic))

(* mqtt_msg_cmd_get knows no PUBREL; 0 is unknown. *)
CmdGet(d) == IF d[1] \div 16 \in {2, 3, 4, 5, 7, 9, 11, 13} THEN d[1] \div 16 ELSE 0
=============================================================================
