------------------------------ MODULE Tr50File ------------------------------
(***************************************************************************)
(* The transfer of files, tr50_helper_file_upload and tr50_file_download   *)
(* of tr50.worker.extended.c: a call of the api through Tr50Worker, then   *)
(* HTTP over a socket.  Partial sends are in Tcp; here a send or a receive *)
(* succeeds or fails.                                                      *)
(*                                                                         *)
(* The stream is made of numbers: the bytes of a file, digits, CR, LF, and *)
(* a number each for "HTTP/1.1 200", another status, "Content-Length: "    *)
(* and "Transfer-Encoding: chunked".  Dec and Hex are 10 and 16; smaller   *)
(* ones bring the lengths at which they differ into reach.                 *)
(*                                                                         *)
(* UploadChunkWhole, ReaderTakesBlock, AllReadEarly, EndsKeeping and       *)
(* DeleteParamsToo of Tr50Worker are no part of the specification: they    *)
(* are plausible mistakes, each in place of a definition after it, that    *)
(* the properties rule out.                                                *)
(***************************************************************************)
EXTENDS Tr50Worker, Integers

CONSTANTS
    Bodies,     \* the contents of files
    Block,      \* READ_SIZE
    Dec, Hex

(* No digit, up to the sixteenth, is one of the other numbers of a stream. *)
ASSUME FileAssumption ==
    /\ Bodies \subseteq Seq(Int)
    /\ Block \in Nat \ {0}
    /\ Dec \in Nat /\ Hex \in Nat /\ 1 < Dec /\ Dec < Hex /\ Hex <= 16

VARIABLES
    job,        \* "up", "down" or "none"
    at,         \* the place in it
    body,       \* the content of the local file, or of the one at the server
    fp,         \* the FILE: "closed", "open", or "misused"
    socket,     \* the socket is open
    pos,        \* the bytes of the file that were read
    sent,       \* the stream to the server, after the request
    offer,      \* how the server answers the request
    stream,     \* its stream, as far as not received
    line,       \* what the header decoder or the chunked reader has collected
    left,       \* data_buffer_len
    file,       \* what was written
    result,     \* ret: "ok", "-1" or "error"
    cut         \* a failure was taken for the end of a file or of a line

fileVars == <<job, at, body, fp, socket, pos, sent, offer, stream, line, left, file, result, cut>>
vars     == <<workerVars, fileVars>>

httpVars == <<job, body, sent, offer>>
-----------------------------------------------------------------------------
(* Streams. *)

CR == 13
LF == 10
Ok == 200
NotOk == 404
ContentLength == 300
Chunked == 301
End == <<CR, LF>>

Digit(d) == 48 + d

Digits(n, base) ==
    LET D[k \in Nat] == IF k < base THEN <<Digit(k)>> ELSE Append(D[k \div base], Digit(k % base))
    IN  D[n]

(* strtol: the digits at the beginning of s. *)
Number(s, base) ==
    LET n == CHOOSE k \in 0..Len(s) :
               /\ \A i \in 1..k : s[i] \in Digit(0)..Digit(base - 1)
               /\ k = Len(s) \/ s[k + 1] \notin Digit(0)..Digit(base - 1)
        V[i \in 0..n] == IF i = 0 THEN 0 ELSE V[i - 1] * base + (s[i] - 48)
    IN  V[n]

From(s, i) == SubSeq(s, i, Len(s))
First(s, k) == SubSeq(s, 1, IF k < Len(s) THEN k ELSE Len(s))
Prefix(s, t) == Len(s) <= Len(t) /\ s = SubSeq(t, 1, Len(s))

Chunk(s) == Digits(Len(s), Hex) \o End \o s \o End
LastChunk == <<Digit(0)>> \o End \o End

(* The server. *)
Header(fields) == <<Ok>> \o End \o fields \o End

Offers == {"refused", "length", "no length", "chunked", "two chunks"}

Response(o, b) ==
    CASE o = "refused"    -> <<NotOk>> \o End \o End
      [] o = "length"     -> Header(<<ContentLength>> \o Digits(Len(b), Dec) \o End) \o b
      [] o = "no length"  -> Header(<<>>) \o b
      [] o = "chunked"    -> Header(<<Chunked>> \o End) \o (IF b = <<>> THEN <<>> ELSE Chunk(b)) \o LastChunk
      [] o = "two chunks" -> Header(<<Chunked>> \o End) \o Chunk(First(b, 2))
                               \o (IF Len(b) > 2 THEN Chunk(From(b, 3)) ELSE <<>>) \o LastChunk

(* What a server reads from chunks that are complete, with the last one;   *)
(* anything else is no file.                                               *)
Dechunked(s) ==
    LET Eol(i) == CHOOSE k \in i..Len(s) : s[k] = CR /\ \A j \in i..(k - 1) : s[j] # CR
        Read[i \in 1..(Len(s) + 1)] ==
            IF i > Len(s) \/ ~\E k \in i..Len(s) : s[k] = CR THEN <<-1>>
            ELSE LET n == Number(SubSeq(s, i, Eol(i) - 1), Hex)
                     d == Eol(i) + 2
                 IN  IF d + n + 1 > Len(s) \/ SubSeq(s, d + n, d + n + 1) # End THEN <<-1>>
                     ELSE IF n = 0 THEN <<>> ELSE SubSeq(s, d, d + n - 1) \o Read[d + n + 2]
    IN  Read[1]
-----------------------------------------------------------------------------
Init ==
    /\ WorkerInit
    /\ job = "none" /\ at = "idle" /\ body = <<>> /\ fp = "closed" /\ socket = FALSE
    /\ pos = 0 /\ sent = <<>> /\ offer = "refused" /\ stream = <<>> /\ line = <<>>
    /\ left = 0 /\ file = <<>> /\ result = "ok" /\ cut = FALSE

(* An application calls a wrapper directly. *)
CallWrapper ==
    /\ at = "idle" /\ \E w \in Wrappers : \E a \in AllArgs : Call(w, a)
    /\ UNCHANGED fileVars

WrapperDone == at = "idle" /\ Done /\ UNCHANGED fileVars

WrapperStep == WorkerStep /\ UNCHANGED fileVars

Begin(j, w, f) ==
    /\ at = "idle"
    /\ \E e \in BOOLEAN : Call(w, [optional |-> TRUE, reply |-> TRUE, error |-> e])
    /\ job' = j /\ at' = "call" /\ fp' = f
    /\ body' \in Bodies /\ offer' \in Offers
    /\ pos' = 0 /\ sent' = <<>> /\ stream' = <<>> /\ line' = <<>> /\ left' = 0
    /\ file' = <<>> /\ result' = "ok" /\ cut' = FALSE
    /\ UNCHANGED socket

(* tr50_helper_file_upload opens the file first; without one it returns.   *)
Upload == Begin("up", FilePut, "open")

(* tr50_file_download asks the server first. *)
Download == Begin("down", FileGet, "closed")

EndsKeeping(r) == result' = r /\ at' = "done" /\ UNCHANGED <<fp, socket>>

(* fclose, _tcp_disconnect, and the memory of the reply. *)
Ends(r) ==
    /\ result' = r /\ at' = "done"
    /\ fp' = (IF fp = "open" THEN "closed" ELSE fp)
    /\ socket' = FALSE

(* The results that each of the two makes of ret at its end.  fp is not    *)
(* NULL after the reader has closed it.                                    *)
UploadEnds(r)   == Ends(IF r = "ok" THEN "ok" ELSE "error")
DownloadEnds(r) == Ends(IF r \in {"ok", "-1"} THEN "ok" ELSE "error")
Finish(r) == IF job = "up" THEN UploadEnds(r) ELSE DownloadEnds(r)

Keep == UNCHANGED <<workerVars, httpVars>>

(* The wrapper has returned: with an error, without a fileId, or with one. *)
(* When the error code of the server is -1, a download takes it for the    *)
(* end of a file.                                                          *)
Called ==
    /\ at = "call" /\ place = "return"
    /\ \/ ret # "ok" /\ Finish("error") /\ UNCHANGED cut
       \/ ret = "error" /\ Finish("-1") /\ cut' = TRUE
       \/ ret = "ok" /\ Ends("error") /\ UNCHANGED cut
       \/ ret = "ok" /\ "reply" \in given /\ at' = "connect" /\ UNCHANGED <<result, socket, cut>>
          /\ fp' = "open"
    /\ Keep /\ UNCHANGED <<pos, stream, line, left, file>>

(* The file to write cannot be opened: the download returns at once. *)
NoLocalFile ==
    /\ at = "call" /\ place = "return" /\ job = "down"
    /\ ret = "ok" /\ "reply" \in given
    /\ result' = "error" /\ at' = "done"
    /\ Keep /\ UNCHANGED <<fp, socket, pos, stream, line, left, file, cut>>

(* _tcp_connect and the request. *)
Connect ==
    /\ at = "connect"
    /\ \/ Finish("error") /\ UNCHANGED stream
       \/ /\ socket' = TRUE
          /\ at' = IF job = "up" THEN "chunk" ELSE "header"
          /\ stream' = IF job = "up" THEN <<>> ELSE Response(offer, body)
          /\ UNCHANGED <<fp, result>>
    /\ Keep /\ UNCHANGED <<pos, line, left, file, cut>>

UploadChunkWhole(k) ==
    /\ sent' = sent \o Digits(Block, Hex) \o End \o SubSeq(body, pos + 1, pos + k) \o End
    /\ pos' = pos + k

(* The size in hexadecimal, k bytes, and the end of the chunk. *)
UploadChunk(k) ==
    /\ sent' = sent \o Digits(k, Hex) \o End \o SubSeq(body, pos + 1, pos + k) \o End
    /\ pos' = pos + k

(* fread gives a block, or what is left of the file.  An error is not told *)
(* from the end of the file.                                               *)
UploadBlock ==
    /\ at = "chunk"
    /\ \E k \in 1..Block :
         /\ pos + k <= Len(body)
         /\ k = Block \/ pos + k = Len(body)
         /\ UploadChunk(k)
    /\ UNCHANGED <<workerVars, job, at, body, fp, socket, offer, stream, line, left, file, result, cut>>

UploadLast ==
    /\ at = "chunk"
    /\ cut' = (pos < Len(body))
    /\ sent' = sent \o LastChunk
    /\ at' = "header" /\ stream' = Response(offer, <<>>)
    /\ UNCHANGED <<workerVars, job, body, fp, socket, pos, offer, line, left, file, result>>

(* One of the sends fails. *)
UploadFails ==
    /\ at = "chunk" /\ UploadEnds("error")
    /\ Keep /\ UNCHANGED <<pos, stream, line, left, file, cut>>
-----------------------------------------------------------------------------
(* Receiving. *)

Terminated(s, n) == Len(s) >= n /\ \A i \in (Len(s) - n + 1)..Len(s) : s[i] \in {CR, LF}

Field(f) == {i \in 1..Len(line) : line[i] = f}

(* What tr50_helper_http_header_msg_decoder makes of the header, f telling *)
(* whether a receive failed: after the 200 it makes no difference.         *)
Decoded(f) ==
    [ret     |-> IF line # <<>> /\ line[1] = Ok THEN "ok" ELSE IF f THEN "error" ELSE "ok",
     chunked |-> line # <<>> /\ line[1] = Ok
                   /\ \E i \in Field(Chunked) : First(From(line, i + 1), 2) = End,
     size    |-> IF line = <<>> \/ line[1] # Ok THEN 0
                 ELSE IF Field(ContentLength) = {} THEN -1
                 ELSE Number(From(line, 1 + CHOOSE i \in Field(ContentLength) : TRUE), Hex)]

(* The upload is done with the header.  The download goes on whatever the  *)
(* decoder returned; a file of size 0 is read already, with -1.            *)
HeaderRead(f) ==
    LET d == Decoded(f) IN
    /\ IF job = "up" THEN UploadEnds(d.ret) /\ UNCHANGED left
       ELSE IF d.chunked THEN at' = "size" /\ UNCHANGED <<fp, socket, left, result>>
       ELSE IF d.size <= 0 THEN DownloadEnds(IF d.size = 0 THEN "-1" ELSE "ok") /\ UNCHANGED left
       ELSE at' = "data" /\ left' = d.size /\ UNCHANGED <<fp, socket, result>>
    /\ line' = <<>>

ReceiveByte(p, n) ==
    /\ at = p /\ ~Terminated(line, n) /\ stream # <<>>
    /\ line' = Append(line, Head(stream)) /\ stream' = Tail(stream)
    /\ Keep /\ UNCHANGED <<at, fp, socket, pos, left, file, result, cut>>

HttpHeader ==
    \/ ReceiveByte("header", 4)
    \/ /\ at = "header"
       /\ \/ Terminated(line, 4) /\ HeaderRead(FALSE) /\ UNCHANGED cut
          \/ ~Terminated(line, 4) /\ HeaderRead(TRUE) /\ cut' = TRUE
       /\ Keep /\ UNCHANGED <<pos, stream, file>>

(* tr50_helper_chunked_reader: a line with the size. *)
ChunkSize ==
    \/ ReceiveByte("size", 2)
    \/ /\ at = "size"
       /\ cut' = (cut \/ ~Terminated(line, 2))
       /\ LET n == Number(line, Hex)
          IN  IF n = 0 THEN DownloadEnds("-1") /\ UNCHANGED left
                       ELSE at' = "chunk data" /\ left' = n /\ UNCHANGED <<fp, socket, result>>
       /\ line' = <<>>
       /\ Keep /\ UNCHANGED <<pos, stream, file>>

ReaderTakesBlock(k) == file' = file \o First(stream, Block) /\ left' = left - k

AllReadEarly == left < Block

(* The loops of the readers end. *)
AllRead == left = 0

(* k bytes are received and written. *)
ReaderTakes(k) == file' = file \o SubSeq(stream, 1, k) /\ left' = left - k

(* tr50_helper_reader and the second half of the chunked reader: at most   *)
(* READ_SIZE and at most what is left.  The next chunk begins where the    *)
(* data of this one ends, before its CR and LF.                            *)
Reader ==
    /\ at \in {"data", "chunk data"} /\ ~AllRead
    /\ \E k \in 1..Block :
         /\ k <= left /\ k <= Len(stream)
         /\ ReaderTakes(k)
         /\ stream' = From(stream, k + 1)
    /\ UNCHANGED <<workerVars, httpVars, at, fp, socket, pos, line, result, cut>>

ReaderEnds ==
    /\ at \in {"data", "chunk data"} /\ AllRead
    /\ IF at = "data" THEN DownloadEnds("ok")
                      ELSE at' = "size" /\ UNCHANGED <<fp, socket, result>>
    /\ Keep /\ UNCHANGED <<pos, stream, line, left, file, cut>>

(* A receive fails. *)
ReaderFails ==
    /\ at \in {"data", "chunk data"} /\ left > 0
    /\ DownloadEnds("error")
    /\ Keep /\ UNCHANGED <<pos, stream, line, left, file, cut>>

(* A write fails.  tr50_helper_reader closes the file, and so does the end *)
(* of the download.                                                        *)
WriteFails ==
    /\ at \in {"data", "chunk data"} /\ left > 0
    /\ result' = "error" /\ at' = "done" /\ socket' = FALSE
    /\ fp' = IF at = "data" THEN "misused" ELSE "closed"
    /\ Keep /\ UNCHANGED <<pos, stream, line, left, file, cut>>

(* The transfer returns.  Of the reply only the root is freed. *)
Return ==
    /\ at = "done"
    /\ at' = "idle" /\ job' = "none" /\ fp' = "closed"
    /\ body' = <<>> /\ sent' = <<>> /\ file' = <<>> /\ stream' = <<>> /\ line' = <<>>
    /\ left' = 0 /\ pos' = 0 /\ offer' = "refused" /\ cut' = FALSE /\ result' = "ok"
    /\ place' = "idle" /\ work' = Nil /\ given' = {} /\ root' = [o \in Objects |-> Nil]
    /\ args' = Simple /\ ret' = "ok"
    /\ UNCHANGED <<misused, server, socket>>

Next ==
    \/ CallWrapper \/ WrapperDone \/ WrapperStep
    \/ Upload \/ Download \/ Called \/ NoLocalFile \/ Connect
    \/ UploadBlock \/ UploadLast \/ UploadFails
    \/ HttpHeader \/ ChunkSize \/ Reader \/ ReaderEnds \/ ReaderFails \/ WriteFails
    \/ Return

Spec == Init /\ [][Next]_vars
-----------------------------------------------------------------------------
(* Properties. *)

(* An upload that returns 0 has sent the whole file, in chunks that the    *)
(* server can read, unless a read of the file failed.                      *)
UploadWhole ==
    at = "done" /\ job = "up" /\ result = "ok" /\ ~cut => Dechunked(sent) = body

(* What a download writes is the beginning of the file, whatever the       *)
(* server's encoding and wherever a receive fails, unless it fails in the  *)
(* header or in a size, which is then taken to end there.                  *)
DownloadPrefix == job = "down" /\ ~cut => Prefix(file, body)

(* A download that returns 0 has the whole file when the server gave a     *)
(* length of one digit or one chunk, no line was cut, and no error code    *)
(* was -1.                                                                 *)
DownloadWhole ==
    at = "done" /\ job = "down" /\ result = "ok" /\ ~cut
      /\ (offer = "chunked" \/ (offer = "length" /\ Len(body) < Dec))
      => file = body

(* When a transfer returns, the socket is closed and the file is closed,   *)
(* or, after a failed write outside a chunk, closed twice.                 *)
HandlesReleased == at = "done" => ~socket /\ fp # "open"
=============================================================================
