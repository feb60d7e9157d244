------------------------------ MODULE Tr50Json ------------------------------
(***************************************************************************)
(* tr50.json.c: the text that print_value makes of a JSON object, and the  *)
(* object that parse_value makes of a text, also of one that a peer wrote  *)
(* in its own way and of one that is cut off.                              *)
(*                                                                         *)
(* A text is a sequence of bytes, with one number each for null, true and  *)
(* false.  A value is a type and a sequence: the codes of the characters   *)
(* of a string, the items of an array, the pairs <<name, value>> of an     *)
(* object; <<m, e>> is the number m * 10^e.  A parsed string has bytes.    *)
(* After the last byte comes the 0 that ends a C string; beyond it the     *)
(* parser has no business.                                                 *)
(*                                                                         *)
(* EscapeNot and ClosedAnyway are mistakes to compare with.                *)
(***************************************************************************)
EXTENDS Integers, Sequences, SequencesExt

CONSTANTS
    Utf8,           \* the characters strings are made of: codes, and the bytes of each
    Numbers,        \* the numbers, as <<m, e>>
    FracDigits      \* the digits that "%f" prints after the point, 6

VARIABLES
    value,      \* an object
    text,       \* the text made of it, or <<>>
    parsed      \* what a text was parsed to, or <<>>

jsonVars == <<value, text, parsed>>

Quote     == 34
Backslash == 92
Point     == 46
Comma     == 44
Colon     == 58
Space     == 32
LowerU    == 117
Keyword   == [null |-> 1000, false |-> 1001, true |-> 1002]

(* The characters that are escaped, and the letters for them. *)
Escapes == {<<Backslash, Backslash>>, <<Quote, Quote>>,
            <<8, 98>>, <<12, 102>>, <<10, 110>>, <<13, 114>>, <<9, 116>>}

Value(type, x)  == [type |-> type, x |-> x]
Join(parts, by) == FlattenSeq([i \in 1..Len(parts) |-> IF i = 1 THEN parts[i] ELSE by \o parts[i]])

RECURSIVE Decimal(_)
Decimal(n) == IF n < 10 THEN <<48 + n>> ELSE Decimal(n \div 10) \o <<48 + (n % 10)>>

Magnitude(n) == IF n < 0 THEN -n ELSE n
-----------------------------------------------------------------------------
(* Printing. *)

EscapeNot(c) == Utf8[c]

(* A control character that has no letter is left out. *)
Escape(c) ==
    IF c > 31 /\ c \notin {Quote, Backslash} THEN Utf8[c]
    ELSE IF \E e \in Escapes : e[1] = c THEN <<Backslash, (CHOOSE e \in Escapes : e[1] = c)[2]>>
    ELSE <<>>

PrintString(s) == <<Quote>> \o FlattenSeq([i \in 1..Len(s) |-> Escape(s[i])]) \o <<Quote>>

(* |m * 10^e| in units of the last digit of "%f", rounded to the nearest. *)
Scaled(m, e) ==
    IF FracDigits + e >= 0 THEN Magnitude(m) * 10 ^ (FracDigits + e)
    ELSE LET unit == 10 ^ (-(FracDigits + e)) IN (Magnitude(m) + unit \div 2) \div unit

(* "%lld", or "%f" for a fraction.  The "%.0f" and "%e" of numbers too     *)
(* large for the first and too small or large for the second are left out. *)
PrintNumber(m, e) ==
    LET scaled == Scaled(m, e)
        places == [i \in 1..FracDigits |-> 48 + ((scaled \div 10 ^ (FracDigits - i)) % 10)]
    IN  (IF m < 0 THEN <<45>> ELSE <<>>)
          \o (IF e >= 0 THEN Decimal(Magnitude(m) * 10 ^ e)
                        ELSE Decimal(scaled \div 10 ^ FracDigits) \o <<Point>> \o places)

RECURSIVE PrintValue(_)

PrintArray(x) == <<91>> \o Join([i \in 1..Len(x) |-> PrintValue(x[i])], <<Comma>>) \o <<93>>

PrintObject(x) ==
    <<123>> \o Join([i \in 1..Len(x) |-> PrintString(x[i][1]) \o <<Colon>> \o PrintValue(x[i][2])], <<Comma>>)
            \o <<125>>

PrintValue(v) ==
    CASE v.type = "number" -> PrintNumber(v.x[1], v.x[2])
      [] v.type = "string" -> PrintString(v.x)
      [] v.type = "array"  -> PrintArray(v.x)
      [] v.type = "object" -> PrintObject(v.x)
      [] OTHER             -> <<Keyword[v.type]>>

(* The units of a character in UTF-16: one, or the two of a pair. *)
Utf16(c) == IF c < 65536 THEN <<c>> ELSE <<55296 + (c - 65536) \div 1024, 56320 + ((c - 65536) % 1024)>>

(* A peer that follows the standard and puts a space wherever it may, each *)
(* unit of a string as "\u" and four digits, and numbers with an exponent. *)
PeerString(s) ==
    LET HexCode(d) == IF d < 10 THEN 48 + d ELSE 87 + d
        units      == FlattenSeq([i \in 1..Len(s) |-> Utf16(s[i])])
    IN  <<Space, Quote>>
          \o FlattenSeq([i \in 1..Len(units) |->
                           <<Backslash, LowerU>> \o [j \in 1..4 |-> HexCode((units[i] \div 16 ^ (4 - j)) % 16)]])
          \o <<Quote, Space>>

PeerNumber(m, e) ==
    (IF m < 0 THEN <<45>> ELSE <<>>) \o Decimal(Magnitude(m))
      \o <<101>> \o (IF e < 0 THEN <<45>> ELSE <<43>>) \o Decimal(Magnitude(e))

RECURSIVE PeerValue(_)
PeerValue(v) ==
    CASE v.type = "number" -> <<Space>> \o PeerNumber(v.x[1], v.x[2]) \o <<Space>>
      [] v.type = "string" -> PeerString(v.x)
      [] v.type = "array"  ->
           <<Space, 91, Space>> \o Join([i \in 1..Len(v.x) |-> PeerValue(v.x[i])], <<Comma>>) \o <<93, Space>>
      [] v.type = "object" ->
           <<Space, 123, Space>>
             \o Join([i \in 1..Len(v.x) |-> PeerString(v.x[i][1]) \o <<Colon>> \o PeerValue(v.x[i][2])], <<Comma>>)
             \o <<125, Space>>
      [] OTHER             -> <<Space, Keyword[v.type], Space>>
-----------------------------------------------------------------------------
(* Parsing the text s from i: how it ended, where, and with what value.    *)
(* "over" is a read beyond the 0.                                          *)

Result(how, at, v) == [how |-> how, at |-> at, v |-> v]
No   == Result("refused", 0, Value("null", <<>>))
Over == Result("over", 0, Value("null", <<>>))

At(s, i)     == IF i <= Len(s) THEN s[i] ELSE 0
IsDigit(c)   == c \in 48..57
HexDigit(c)  == IF IsDigit(c) THEN c - 48 ELSE c - 87

RECURSIVE Skip(_, _)
Skip(s, i) == IF At(s, i) \in 1..32 THEN Skip(s, i + 1) ELSE i

(* The digits from i, after those that make n: the number and the end. *)
RECURSIVE DigitsFrom(_, _, _)
DigitsFrom(s, i, n) ==
    IF IsDigit(At(s, i)) THEN DigitsFrom(s, i + 1, 10 * n + At(s, i) - 48) ELSE [n |-> n, at |-> i]

RECURSIVE Normal(_, _)
Normal(m, e) == IF m = 0 THEN <<0, 0>> ELSE IF m % 10 = 0 THEN Normal(m \div 10, e + 1) ELSE <<m, e>>

(* parse_number: what comes after a point is taken for a digit, whatever   *)
(* it is, and "-" is a number.                                             *)
ParseNumber(s, i) ==
    LET sign  == IF At(s, i) = 45 THEN -1 ELSE 1
        first == IF sign = -1 THEN i + 1 ELSE i
        start == IF At(s, first) = 48 THEN first + 1 ELSE first
        whole == IF At(s, start) \in 49..57 THEN DigitsFrom(s, start, 0) ELSE [n |-> 0, at |-> start]
        point == At(s, whole.at) = Point
        frac  == IF point THEN DigitsFrom(s, whole.at + 2, 10 * whole.n + At(s, whole.at + 1) - 48) ELSE whole
        scale == IF point THEN frac.at - whole.at - 1 ELSE 0
        expo  == At(s, frac.at) \in {101, 69}
        minus == expo /\ At(s, frac.at + 1) = 45
        from  == IF expo THEN (IF At(s, frac.at + 1) \in {43, 45} THEN frac.at + 2 ELSE frac.at + 1) ELSE frac.at
        power == IF expo THEN DigitsFrom(s, from, 0) ELSE [n |-> 0, at |-> from]
    IN  IF point /\ whole.at + 1 > Len(s) THEN Over
        ELSE Result("ok", power.at,
                  Value("number", Normal(sign * frac.n, (IF minus THEN -power.n ELSE power.n) - scale)))

(* Where parse_string goes on after a string that ends at i: one that is   *)
(* not closed ends with the text, or at a control character.               *)
StringEnd(s, i) == IF At(s, i) = Quote THEN i + 1 ELSE i

(* The bytes of the unit that four hexadecimal digits name, each half of a *)
(* pair for itself.                                                        *)
FromUtf16(uc) ==
    CASE uc < 128  -> <<uc>>
      [] uc < 2048 -> <<192 + uc \div 64, 128 + (uc % 64)>>
      [] OTHER     -> <<224 + uc \div 4096, 128 + ((uc \div 64) % 64), 128 + (uc % 64)>>

RECURSIVE ParseChars(_, _, _)
ParseChars(s, i, out) ==
    LET c == At(s, i + 1) IN
    CASE At(s, i) = Quote \/ At(s, i) < 32 -> Result("ok", StringEnd(s, i), Value("string", out))
      [] At(s, i) # Backslash              -> ParseChars(s, i + 1, Append(out, At(s, i)))
      [] i + 1 > Len(s)                    -> Over
      [] c = LowerU                        ->
           IF i + 5 > Len(s) THEN Over
           ELSE ParseChars(s, i + 6, out \o FromUtf16(4096 * HexDigit(s[i + 2]) + 256 * HexDigit(s[i + 3])
                                                         + 16 * HexDigit(s[i + 4]) + HexDigit(s[i + 5])))
      [] OTHER -> ParseChars(s, i + 2, Append(out, IF \E e \in Escapes : e[2] = c
                                                   THEN (CHOOSE e \in Escapes : e[2] = c)[1] ELSE c))

ParseString(s, i) == IF At(s, i) # Quote THEN No ELSE ParseChars(s, i + 1, <<>>)

ClosedAnyway(s, i, mark, v) == Result("ok", i + 1, v)

(* The end of an array or an object, behind its last item. *)
Closed(s, i, mark, v) == IF At(s, i) = mark THEN Result("ok", i + 1, v) ELSE No

RECURSIVE ParseValue(_, _)

(* parse_array, after the items in x. *)
RECURSIVE ParseItems(_, _, _)
ParseItems(s, i, x) ==
    LET p == ParseValue(s, Skip(s, i))
        j == Skip(s, p.at)
        y == Append(x, p.v)
    IN  CASE p.how # "ok"      -> p
          [] At(s, j) = Comma  -> ParseItems(s, j + 1, y)
          [] OTHER             -> Closed(s, j, 93, Value("array", y))

ParseArray(s, i) ==
    LET j == Skip(s, i + 1)
    IN  IF At(s, j) = 93 THEN Result("ok", j + 1, Value("array", <<>>)) ELSE ParseItems(s, j, <<>>)

(* parse_object, after the members in x. *)
RECURSIVE ParseMembers(_, _, _)
ParseMembers(s, i, x) ==
    LET n == ParseString(s, Skip(s, i))
        k == Skip(s, n.at)
        p == ParseValue(s, Skip(s, k + 1))
        j == Skip(s, p.at)
        y == Append(x, <<n.v.x, p.v>>)
    IN  CASE n.how # "ok"       -> n
          [] At(s, k) # Colon   -> No
          [] p.how # "ok"       -> p
          [] At(s, j) = Comma   -> ParseMembers(s, j + 1, y)
          [] OTHER              -> Closed(s, j, 125, Value("object", y))

ParseObject(s, i) ==
    LET j == Skip(s, i + 1)
    IN  IF At(s, j) = 125 THEN Result("ok", j + 1, Value("object", <<>>)) ELSE ParseMembers(s, j, <<>>)

ParseValue(s, i) ==
    LET c == At(s, i) IN
    CASE \E k \in DOMAIN Keyword : Keyword[k] = c ->
           Result("ok", i + 1, Value(CHOOSE k \in DOMAIN Keyword : Keyword[k] = c, <<>>))
      [] c = Quote                -> ParseString(s, i)
      [] c = 45 \/ IsDigit(c)     -> ParseNumber(s, i)
      [] c = 91                   -> ParseArray(s, i)
      [] c = 123                  -> ParseObject(s, i)
      [] OTHER                    -> No

(* tr50_json_parse: what follows the value is not looked at. *)
Parse(s) == ParseValue(s, Skip(s, 1))
-----------------------------------------------------------------------------
(* Reading a parsed value. *)

ToLower(c) == IF c \in 65..90 THEN c + 32 ELSE c
NoItem     == Value("NULL", <<>>)

(* tr50_json_str_case_cmp gives 0. *)
SameName(a, b) == Len(a) = Len(b) /\ \A i \in 1..Len(a) : ToLower(a[i]) = ToLower(b[i])

(* The first member whose name is n but for the case of letters. *)
GetObjectItem(o, n) ==
    LET same == {i \in 1..Len(o.x) : SameName(o.x[i][1], n)}
    IN  IF same = {} THEN NoItem ELSE o.x[CHOOSE i \in same : \A j \in same : i <= j][2]

GetArrayItem(a, i) == IF i < Len(a.x) THEN a.x[i + 1] ELSE NoItem

(* The functions for one type, or for a boolean, give NULL for the others. *)
(* Those for numbers differ in the C type they convert to, left out here.  *)
GetObjectItemAs(o, n, types) ==
    LET c == GetObjectItem(o, n) IN IF c.type \in types THEN c ELSE NoItem

GetArrayItemAs(a, i, types) ==
    LET c == GetArrayItem(a, i) IN IF c.type \in types THEN c ELSE NoItem
-----------------------------------------------------------------------------
(* The objects: of two members at most, with arrays and objects of scalars. *)

Chars   == DOMAIN Utf8
Strings == {<<>>} \cup {<<c>> : c \in Chars} \cup {<<c, d>> : c, d \in Chars}
Scalars == {Value(k, <<>>) : k \in DOMAIN Keyword} \cup {Value("number", n) : n \in Numbers}
             \cup {Value("string", <<c>>) : c \in Chars}
Nested  == {Value("array", <<>>), Value("object", <<>>)}
             \cup {Value("array", <<a, b>>) : a, b \in Scalars}
             \cup {Value("object", <<<<<<c>>, a>>>>) : c \in Chars, a \in Scalars}
Documents ==
    {Value("object", <<>>)}
      \cup {Value("object", <<<<s, a>>>>) : s \in Strings, a \in Scalars}
      \cup {Value("object", <<<<s, Value("string", t)>>>>) : s, t \in Strings}
      \cup {Value("object", <<<<<<97>>, v>>, <<<<>>, a>>>>) : v \in Nested, a \in Scalars}

JsonInit == value \in Documents /\ text = <<>> /\ parsed = <<>>

Prints == text = <<>> /\ text' = PrintValue(value) /\ UNCHANGED <<value, parsed>>

PeerPrints == text = <<>> /\ text' = PeerValue(value) /\ UNCHANGED <<value, parsed>>

(* The text arrives whole, or without its end. *)
ParseText ==
    /\ text # <<>> /\ parsed = <<>>
    /\ \E n \in 0..Len(text) : parsed' = <<n, Parse(SubSeq(text, 1, n))>>
    /\ UNCHANGED <<value, text>>

JsonNext == Prints \/ PeerPrints \/ ParseText
-----------------------------------------------------------------------------
(* The bytes that come of a character: without the control characters that *)
(* have no letter from the library's own text; from a peer's "\u", with    *)
(* three bytes, which are no UTF-8, for each half of a pair.               *)
OwnBytes ==
    [c \in Chars |-> IF c < 32 /\ c \notin {e[1] : e \in Escapes} THEN <<>> ELSE Utf8[c]]
PeerBytes ==
    [c \in Chars |-> IF c < 65536 THEN Utf8[c]
                     ELSE LET u == Utf16(c)
                              Byte(k, low) == 128 + ((u[k] \div 2 ^ low) % 64)
                          IN  <<237, Byte(1, 6), Byte(1, 0), 237, Byte(2, 6), Byte(2, 0)>>]

(* The number that "%f" leaves of a fraction. *)
Rounded(m, e) ==
    IF e >= 0 THEN <<m, e>> ELSE Normal((IF m < 0 THEN -1 ELSE 1) * Scaled(m, e), -FracDigits)

(* What is to be read of a value: its strings in bytes, and its fractions  *)
(* rounded when the library wrote them.                                    *)
RECURSIVE Meant(_, _)
Meant(v, own) ==
    LET Bytes(s) == FlattenSeq([i \in 1..Len(s) |-> IF own THEN OwnBytes[s[i]] ELSE PeerBytes[s[i]]])
    IN  CASE v.type = "number" /\ own -> Value("number", Rounded(v.x[1], v.x[2]))
          [] v.type = "string" -> Value("string", Bytes(v.x))
          [] v.type = "array"  -> Value("array", [i \in 1..Len(v.x) |-> Meant(v.x[i], own)])
          [] v.type = "object" ->
               Value("object", [i \in 1..Len(v.x) |-> <<Bytes(v.x[i][1]), Meant(v.x[i][2], own)>>])
          [] OTHER             -> v

(* The types of which a value has one. *)
Types == {{"number"}, {"string"}, {"true", "false"}}

Upper(s) == [i \in 1..Len(s) |-> IF s[i] \in 97..122 THEN s[i] - 32 ELSE s[i]]

(* Every member is found under its name, in capitals too, and every item   *)
(* in its place, as the type it has and as no other.                       *)
Readable(v) ==
    \A i \in 1..Len(v.x), T \in Types :
      LET c == v.x[i][2] IN
      /\ GetObjectItemAs(v, Upper(v.x[i][1]), T) = (IF c.type \in T THEN c ELSE NoItem)
      /\ c.type = "array" =>
           \A j \in 1..Len(c.x) : GetArrayItemAs(c, j - 1, T) = (IF c.x[j].type \in T THEN c.x[j] ELSE NoItem)

(* What the printer writes is read back as it was, but for control         *)
(* characters that have no letter and for the digits of a fraction that    *)
(* "%f" rounds away; what a peer writes by the standard is read as it was  *)
(* meant, but for characters above U+FFFF in "\u", whose two halves the    *)
(* parser takes for two characters (tr50.json.c:151).  All of it can be    *)
(* got by name and type: escapes, spaces, signs, fractions, exponents and  *)
(* nesting included.                                                       *)
RoundTrip ==
    parsed # <<>> /\ parsed[1] = Len(text) =>
      /\ parsed[2].how = "ok"
      /\ parsed[2].v = Meant(value, text = PrintValue(value))
      /\ Readable(parsed[2].v)

(* A text without the space that a peer puts at its end. *)
Skipped(s) == IF s # <<>> /\ Last(s) = Space THEN Front(s) ELSE s

(* A text that lost its end is never taken for an object, wherever it was  *)
(* cut; the parser leaves the text only if it was cut in an escape or      *)
(* behind a point.                                                         *)
TruncatedRefused ==
    parsed # <<>> /\ parsed[1] < Len(Skipped(text)) =>
      \/ parsed[2].how = "refused"
      \/ /\ parsed[2].how = "over"
         /\ \/ text[parsed[1]] = Point
            \/ \E i \in 1..parsed[1] : i > parsed[1] - 5 /\ text[i] = Backslash
=============================================================================
