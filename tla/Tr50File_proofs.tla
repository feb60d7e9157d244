-------------------------- MODULE Tr50File_proofs --------------------------
(***************************************************************************)
(* Proofs about Tr50Worker and Tr50File, for any files and block size:     *)
(* that every path of every wrapper frees what it has to, once; that every *)
(* end of a transfer releases the socket and the file; and that uploads    *)
(* and downloads keep the bytes of a file, in their order.                 *)
(*                                                                         *)
(* HeapInv says which trees there are at each place of a wrapper, and that *)
(* the one to be deleted next is the root of all.  HandleInv says where in *)
(* a transfer there is a socket, and that a download has no file before it *)
(* has an answer.                                                          *)
(*                                                                         *)
(* UploadInv says that what was sent of an upload is read, whatever comes  *)
(* after it, as the bytes that were read from the file (Carries).  Arrives *)
(* says, for each place of a download, which part of the response is in    *)
(* the line or the file and which is still in the stream.  Both rest on    *)
(* two facts about the functions of Tr50File: the digits of a number are   *)
(* read as that number (NumberOfDigits), and a chunk as its data followed  *)
(* by what comes after it (ChunkThenRest).  By RecursionExists of          *)
(* Basics the recursive functions are what their definitions say.     *)
(***************************************************************************)
EXTENDS Tr50File, Basics, TLAPS

(* All that there is, is in a tree whose root is in S. *)
Only(S) == \A o \in Objects : root[o] # Nil => root[o] \in S

(* The trees of JSON at each place of a wrapper. *)
HeapInv ==
    /\ root \in [Objects -> Objects \cup {Nil}] /\ misused = FALSE
    /\ place = "idle" => Only({})
    /\ place = "called" =>
         /\ \A o \in Objects : root[o] # Nil => root[o] = o /\ o \in {"optional", "req"}
         /\ root["optional"] = (IF args.optional THEN "optional" ELSE Nil)
         /\ root["req"] # Nil => work.req
    /\ place = "send" => Only({Params}) /\ root[Params] = Params
    /\ place = "answered" =>
         /\ Only({"answer"}) /\ root["answer"] = "answer"
         /\ root["item"] # Nil => root["reply"] # Nil
    /\ place = "replied" =>
         /\ Only({"reply"})
         /\ \A o \in Objects : root[o] # Nil => root["reply"] = "reply"
    /\ place = "failed" => Only(given)
    /\ place = "return" =>
         \A o \in Objects : root[o] # Nil =>
           \/ root[o] = "message" /\ work.send # "sync"
           \/ root[o] \in given
           \/ root[o] = "reply" /\ work.done = "dropped"

(* What the caller has been given: nothing before the wrapper has an       *)
(* answer, and then what stays allocated, but for one text.                *)
GivenInv ==
    /\ place \notin {"failed", "return"} => given = {}
    /\ \A o \in given :
         /\ o \in Objects
         /\ \/ root[o] \in {"error", "reply"}
            \/ place = "return" /\ work.done = "pointer" /\ ~args.reply

(* The socket and the FILE at each place of a transfer. *)
HandleInv ==
    /\ socket \in BOOLEAN
    /\ at \in {"idle", "call", "connect", "done"} => ~socket
    /\ at = "call" /\ job = "down" => fp # "open"
    /\ at = "done" => fp # "open"

-----------------------------------------------------------------------------
(* Trees. *)

(* The object of parameters is one of the two. *)
LEMMA ParamsIsObject == Params \in {"optional", "params"}
BY DEF Params

(* What was made by MessageAddCommand is one tree: the message. *)
LEMMA OneMessage ==
    ASSUME root \in [Objects -> Objects \cup {Nil}], Only({Params}), root[Params] = Params
    PROVE  LET r == MessageAddCommand(root)
           IN  /\ r \in [Objects -> {"message", Nil}]
               /\ r["message"] = "message"
<1>1. Params \in Objects /\ Params # "message"
  BY ParamsIsObject DEF Objects
<1>2. "message" \in Objects
  BY DEF Objects
<1> DEFINE c == [o \in Objects |-> IF o \in {"message"} THEN o ELSE root[o]]
           r == [p \in Objects |-> IF c[p] = Params THEN c["message"] ELSE c[p]]
<1>3. MessageAddCommand(root) = r
  BY DEF MessageAddCommand, MessageCreate, Create, AddItem
<1>4. c["message"] = "message" /\ \A o \in Objects : c[o] \in {"message", Params, Nil}
  BY <1>2 DEF Only
<1>5. \A o \in Objects : r[o] \in {"message", Nil}
  BY <1>4
<1>6. r["message"] = "message"
  BY <1>1, <1>2, <1>4
<1>7. QED BY <1>3, <1>5, <1>6

(* The deletion of a root leaves the other trees, and misuses nothing.     *)
LEMMA DeletingOne ==
    ASSUME misused = FALSE, NEW r \in [Objects -> Objects \cup {Nil}],
           NEW k \in Objects, r[k] = k, Deleting(r, {k})
    PROVE  /\ root' \in [Objects -> Objects \cup {Nil}] /\ misused' = FALSE
           /\ \A o \in Objects : root'[o] = IF r[o] = k THEN Nil ELSE r[o]
<1>1. root' = [o \in Objects |-> IF r[o] \in {k} THEN Nil ELSE r[o]]
  BY DEF Deleting, Delete
<1>2. misused' = FALSE
  BY DEF Deleting
<1>3. QED BY <1>1, <1>2
-----------------------------------------------------------------------------
(* The wrappers. *)

(* A NULL argument: the roots are deleted. *)
LEMMA RefuseKeeps == HeapInv /\ Refuse => HeapInv'
<1> SUFFICES ASSUME HeapInv, Refuse PROVE HeapInv'
  OBVIOUS
<1>1. root \in [Objects -> Objects \cup {Nil}] /\ misused = FALSE
  BY DEF HeapInv
<1>2. place = "called" /\ Deleting(root, Live) /\ place' = "return"
  BY DEF Refuse
<1>3. \A o \in Objects : root[o] # Nil => root[o] = o
  BY <1>2 DEF HeapInv
<1>4. misused' = FALSE
  BY <1>1, <1>2, <1>3 DEF Deleting, Live
<1>5. root' = [o \in Objects |-> IF root[o] \in Live THEN Nil ELSE root[o]]
  BY <1>2 DEF Deleting, Delete
<1>6. \A o \in Objects : root'[o] = Nil
  BY <1>3, <1>5 DEF Live
<1>7. QED BY <1>2, <1>4, <1>5, <1>6 DEF HeapInv

(* The parameters become one tree. *)
LEMMA PrepareKeeps == HeapInv /\ Prepare => HeapInv'
<1> SUFFICES ASSUME HeapInv, Prepare PROVE HeapInv'
  OBVIOUS
<1> DEFINE p == Params
           r == IF args.optional THEN root ELSE [o \in Objects |-> IF o \in {"params"} THEN o ELSE root[o]]
<1>1. /\ place = "called" /\ place' = "send" /\ misused' = misused /\ args' = args
      /\ root' = IF work.req THEN [o \in Objects |-> IF r[o] = "req" THEN r[p] ELSE r[o]] ELSE r
  BY DEF Prepare, Create, AddItem
<1>2. p = (IF args.optional THEN "optional" ELSE "params") /\ Params' = p
  BY <1>1 DEF Params
<1>3. /\ \A o \in Objects : root[o] # Nil => root[o] = o /\ o \in {"optional", "req"}
      /\ root["optional"] = (IF args.optional THEN "optional" ELSE Nil)
      /\ root["req"] # Nil => work.req
      /\ root \in [Objects -> Objects \cup {Nil}] /\ misused = FALSE
  BY <1>1 DEF HeapInv
<1>4. /\ "optional" \in Objects /\ "params" \in Objects /\ "req" \in Objects
      /\ Nil # "req" /\ Nil # "optional"
  BY WorkerAssumption DEF Objects
<1>5. r \in [Objects -> Objects \cup {Nil}] /\ r[p] = p
  BY <1>2, <1>3, <1>4
<1>6. \A o \in Objects : r[o] \in {Nil, p, "req"} /\ (r[o] = "req" => work.req)
  BY <1>2, <1>3, <1>4
<1>7. p # "req" /\ p \in Objects
  BY <1>2, <1>4
<1> HIDE DEF p, r
<1>8. /\ root' \in [Objects -> Objects \cup {Nil}]
      /\ \A o \in Objects : root'[o] \in {Nil, p} /\ root'[p] = p
  BY <1>1, <1>5, <1>6, <1>7
<1>9. QED BY <1>1, <1>2, <1>3, <1>7, <1>8 DEF HeapInv, Only

(* No message, or a message that the api refused: the parameters are gone  *)
(* with it.                                                                *)
LEMMA SendFails == HeapInv /\ (MessageCreateFails \/ ApiRefuses) => HeapInv'
<1> SUFFICES ASSUME HeapInv, MessageCreateFails \/ ApiRefuses PROVE HeapInv'
  OBVIOUS
<1>1. place = "send" /\ place' = "failed"
  BY DEF MessageCreateFails, ApiRefuses
<1>2. /\ root \in [Objects -> Objects \cup {Nil}] /\ misused = FALSE
      /\ Only({Params}) /\ root[Params] = Params
  BY <1>1 DEF HeapInv
<1>3. Params \in Objects /\ "message" \in Objects
  BY ParamsIsObject DEF Objects
<1>4. CASE MessageCreateFails
  <2>1. Deleting(root, {Params})
    BY <1>4 DEF MessageCreateFails
  <2>2. /\ root' \in [Objects -> Objects \cup {Nil}] /\ misused' = FALSE
        /\ \A o \in Objects : root'[o] = IF root[o] = Params THEN Nil ELSE root[o]
    BY <1>2, <1>3, <2>1, DeletingOne
  <2>3. \A o \in Objects : root'[o] = Nil
    BY <1>2, <2>2 DEF Only
  <2>4. QED BY <1>1, <2>2, <2>3 DEF HeapInv, Only
<1>5. CASE ApiRefuses
  <2> DEFINE r == MessageAddCommand(root)
  <2>1. Deleting(r, {"message"})
    BY <1>5 DEF ApiRefuses, DeleteMessage
  <2>2. r \in [Objects -> {"message", Nil}] /\ r["message"] = "message"
    BY <1>2, OneMessage
  <2> HIDE DEF r
  <2>3. r \in [Objects -> Objects \cup {Nil}]
    BY <1>3, <2>2
  <2>4. /\ root' \in [Objects -> Objects \cup {Nil}] /\ misused' = FALSE
        /\ \A o \in Objects : root'[o] = IF r[o] = "message" THEN Nil ELSE r[o]
    BY <1>2, <1>3, <2>1, <2>2, <2>3, DeletingOne
  <2>5. \A o \in Objects : root'[o] = Nil
    BY <2>2, <2>4
  <2>6. QED BY <1>1, <2>4, <2>5 DEF HeapInv, Only
<1>6. QED BY <1>4, <1>5

(* The library has the message, and deletes it when it likes. *)
LEMMA SendJsonKeeps == HeapInv /\ (SendJson \/ LibraryDeletes) => HeapInv'
<1> SUFFICES ASSUME HeapInv, SendJson \/ LibraryDeletes PROVE HeapInv'
  OBVIOUS
<1>1. root \in [Objects -> Objects \cup {Nil}] /\ misused = FALSE
  BY DEF HeapInv
<1>2. "message" \in Objects
  BY DEF Objects
<1>3. CASE SendJson
  <2>1. /\ place = "send" /\ work.send # "sync" /\ root' = MessageAddCommand(root)
        /\ place' = "return" /\ misused' = misused /\ work' = work
    BY <1>3 DEF SendJson
  <2>2. root' \in [Objects -> {"message", Nil}]
    BY <1>1, <2>1, OneMessage DEF HeapInv
  <2>3. root' \in [Objects -> Objects \cup {Nil}]
    BY <1>2, <2>2
  <2>4. \A o \in Objects : root'[o] # Nil => root'[o] = "message" /\ work'.send # "sync"
    BY <2>1, <2>2
  <2>5. QED BY <1>1, <2>1, <2>3, <2>4 DEF HeapInv
<1>4. CASE LibraryDeletes
  <2>1. /\ place = "return" /\ root["message"] = "message" /\ Deleting(root, {"message"})
        /\ UNCHANGED <<work, place, given>>
    BY <1>4 DEF LibraryDeletes
  <2>2. /\ root' \in [Objects -> Objects \cup {Nil}] /\ misused' = FALSE
        /\ \A o \in Objects : root'[o] = IF root[o] = "message" THEN Nil ELSE root[o]
    BY <1>1, <1>2, <2>1, DeletingOne
  <2>3. \A o \in Objects : root[o] # Nil =>
           \/ root[o] = "message" /\ work.send # "sync"
           \/ root[o] \in given
           \/ root[o] = "reply" /\ work.done = "dropped"
    BY <2>1 DEF HeapInv
  <2>4. \A o \in Objects : root'[o] # Nil =>
           \/ root'[o] = "message" /\ work'.send # "sync"
           \/ root'[o] \in given'
           \/ root'[o] = "reply" /\ work'.done = "dropped"
    BY <2>1, <2>2, <2>3
  <2>5. QED BY <2>1, <2>2, <2>4 DEF HeapInv
<1>5. QED BY <1>3, <1>4

(* An answer is one tree, and the request is gone. *)
LEMMA SendJsonSyncKeeps == HeapInv /\ SendJsonSync => HeapInv'
<1> SUFFICES ASSUME HeapInv, SendJsonSync PROVE HeapInv'
  OBVIOUS
<1>1. place = "send" /\ place' = "answered" /\ misused' = misused
  BY DEF SendJsonSync
<1>2. /\ root \in [Objects -> Objects \cup {Nil}] /\ misused = FALSE
      /\ Only({Params}) /\ root[Params] = Params
  BY <1>1 DEF HeapInv
<1> DEFINE r == MessageAddCommand(root)
           h == ReplyHasParams(server')
           c == [o \in Objects |-> IF o \in {"answer", "reply", "item"} THEN o ELSE r[o]]
           d == [o \in Objects |-> IF c[o] = "item" THEN c["reply"] ELSE c[o]]
           e == [o \in Objects |-> IF d[o] = "reply" THEN d["answer"] ELSE d[o]]
           a == [o \in Objects |-> IF o \in {"answer"} THEN o ELSE r[o]]
<1>3. r \in [Objects -> {"message", Nil}]
  BY <1>2, OneMessage
<1>4. root' = [o \in Objects |-> IF (IF h THEN e ELSE a)[o] \in {"message"} THEN Nil
                                 ELSE (IF h THEN e ELSE a)[o]]
  BY DEF SendJsonSync, Create, AddItem, Delete
<1>5. /\ "answer" \in Objects /\ "reply" \in Objects /\ "item" \in Objects
      /\ Nil \notin {"answer", "reply", "item"}
  BY WorkerAssumption DEF Objects
<1> HIDE DEF r, h
<1>6. CASE h
  <2>1. /\ c["answer"] = "answer" /\ c["reply"] = "reply" /\ c["item"] = "item"
        /\ \A o \in Objects : c[o] \in {"answer", "reply", "item", "message", Nil}
    BY <1>3, <1>5
  <2> HIDE DEF c
  <2>2. /\ d["answer"] = "answer" /\ d["reply"] = "reply" /\ d["item"] = "reply"
        /\ \A o \in Objects : d[o] \in {"answer", "reply", "message", Nil}
    BY <1>5, <2>1
  <2> HIDE DEF d
  <2>3. /\ e["answer"] = "answer" /\ e["reply"] = "answer" /\ e["item"] = "answer"
        /\ \A o \in Objects : e[o] \in {"answer", "message", Nil}
    BY <1>5, <2>2
  <2> HIDE DEF e
  <2>4. /\ \A o \in Objects : root'[o] \in {"answer", Nil}
        /\ root'["answer"] = "answer" /\ root'["reply"] = "answer"
        /\ root' \in [Objects -> Objects \cup {Nil}]
    BY <1>4, <1>5, <1>6, <2>3
  <2>5. QED BY <1>1, <1>2, <1>5, <2>4 DEF HeapInv, Only
<1>7. CASE ~h
  <2>1. /\ a["answer"] = "answer" /\ a["item"] \in {"message", Nil}
        /\ \A o \in Objects : a[o] \in {"answer", "message", Nil}
    BY <1>3, <1>5
  <2> HIDE DEF a
  <2>2. /\ \A o \in Objects : root'[o] \in {"answer", Nil}
        /\ root'["answer"] = "answer" /\ root'["item"] = Nil
        /\ root' \in [Objects -> Objects \cup {Nil}]
    BY <1>4, <1>5, <1>7, <2>1
  <2>3. QED BY <1>1, <1>2, <2>2 DEF HeapInv, Only
<1>8. QED BY <1>6, <1>7
(* The answer is deleted; a copy of its error message, or its parameters,  *)
(* are no longer part of it.                                               *)
LEMMA AnswerIsErrorKeeps == HeapInv /\ AnswerIsError => HeapInv'
<1> SUFFICES ASSUME HeapInv, AnswerIsError PROVE HeapInv'
  OBVIOUS
<1> DEFINE copies == args.error /\ ReplyHasErrorMessage(server)
           c == [o \in Objects |-> IF o \in {"error"} THEN o ELSE root[o]]
           r == IF copies THEN c ELSE root
<1>1. /\ place = "answered" /\ place' = "failed" /\ Deleting(r, {"answer"})
      /\ given' = given \cup (IF copies THEN {"error"} ELSE {})
  BY DEF AnswerIsError, Create
<1>2. /\ root \in [Objects -> Objects \cup {Nil}] /\ misused = FALSE
      /\ Only({"answer"}) /\ root["answer"] = "answer"
  BY <1>1 DEF HeapInv
<1>3. "answer" \in Objects /\ "error" \in Objects
  BY DEF Objects
<1> HIDE DEF copies
<1>4. /\ r \in [Objects -> Objects \cup {Nil}] /\ r["answer"] = "answer"
      /\ \A o \in Objects : r[o] \in {"answer", Nil} \/ (copies /\ r[o] = "error")
  BY <1>2, <1>3 DEF Only
<1> HIDE DEF r
<1>5. /\ root' \in [Objects -> Objects \cup {Nil}] /\ misused' = FALSE
      /\ \A o \in Objects : root'[o] = IF r[o] = "answer" THEN Nil ELSE r[o]
  BY <1>1, <1>2, <1>3, <1>4, DeletingOne
<1>6. \A o \in Objects : root'[o] # Nil => root'[o] \in given'
  BY <1>1, <1>4, <1>5
<1>7. QED BY <1>1, <1>5, <1>6 DEF HeapInv, Only

(* An answer that is a reply is detached from it. *)
LEMMA AnswerIsReplyKeeps == HeapInv /\ AnswerIsReply => HeapInv'
<1> SUFFICES ASSUME HeapInv, AnswerIsReply PROVE HeapInv'
  OBVIOUS
<1> DEFINE r == [o \in Objects |-> IF o \in {"reply", "item"} /\ root[o] # Nil THEN "reply" ELSE root[o]]
<1>1. place = "answered" /\ place' = "replied" /\ Deleting(r, {"answer"})
  BY DEF AnswerIsReply, Detach
<1>2. /\ root \in [Objects -> Objects \cup {Nil}] /\ misused = FALSE
      /\ Only({"answer"}) /\ root["answer"] = "answer"
      /\ root["item"] # Nil => root["reply"] # Nil
  BY <1>1 DEF HeapInv
<1>3. "answer" \in Objects /\ "reply" \in Objects /\ "item" \in Objects
  BY DEF Objects
<1>4. /\ r \in [Objects -> Objects \cup {Nil}] /\ r["answer"] = "answer"
      /\ \A o \in Objects : r[o] \in {"answer", Nil} \/ (r[o] = "reply" /\ r["reply"] = "reply")
  BY <1>2, <1>3 DEF Only
<1> HIDE DEF r
<1>5. /\ root' \in [Objects -> Objects \cup {Nil}] /\ misused' = FALSE
      /\ \A o \in Objects : root'[o] = IF r[o] = "answer" THEN Nil ELSE r[o]
  BY <1>1, <1>2, <1>3, <1>4, DeletingOne
<1>6. \A o \in Objects : root'[o] # Nil => root'[o] = "reply" /\ root'["reply"] = "reply"
  BY <1>3, <1>4, <1>5
<1>7. QED BY <1>1, <1>5, <1>6 DEF HeapInv, Only

(* The parameters of the reply are forgotten, deleted or handed over. *)
LEMMA ReplyLeaves == HeapInv /\ (Fail \/ Drop \/ Hand) => HeapInv'
<1> SUFFICES ASSUME HeapInv, Fail \/ Drop \/ Hand PROVE HeapInv'
  OBVIOUS
<1>1. root \in [Objects -> Objects \cup {Nil}] /\ misused = FALSE /\ "reply" \in Objects
  BY DEF HeapInv, Objects
<1>2. CASE Fail
  <2>1. place = "failed" /\ place' = "return" /\ UNCHANGED <<root, misused, work, given>>
    BY <1>2 DEF Fail
  <2>2. QED BY <1>1, <2>1 DEF HeapInv, Only
<1>3. CASE Drop
  <2>1. /\ place = "replied" /\ place' = "return" /\ work.done = "dropped"
        /\ UNCHANGED <<root, misused, work, given>>
    BY <1>3 DEF Drop
  <2>2. \A o \in Objects : root'[o] # Nil => root'[o] = "reply" /\ work'.done = "dropped"
    BY <2>1 DEF HeapInv, Only
  <2>3. QED BY <1>1, <2>1, <2>2 DEF HeapInv
<1>4. CASE Hand
  <2>1. place = "replied" /\ place' = "return"
    BY <1>4 DEF Hand
  <2>2. \A o \in Objects : root[o] # Nil => root[o] = "reply" /\ root["reply"] = "reply"
    BY <2>1 DEF HeapInv, Only
  <2>3. CASE args.reply \/ root["reply"] = Nil
    <3>1. UNCHANGED <<root, misused>>
      BY <1>4, <2>3 DEF Hand
    <3>2. ASSUME NEW o \in Objects, root[o] # Nil PROVE root[o] \in given'
      <4>1. root[o] = "reply" /\ root["reply"] = "reply" /\ root["reply"] # Nil
        BY <2>2, <3>2
      <4>2. "reply" \in Live
        BY <1>1, <4>1 DEF Live
      <4>3. QED BY <1>4, <2>3, <4>1, <4>2 DEF Hand
    <3>3. QED BY <1>1, <2>1, <3>1, <3>2 DEF HeapInv
  <2>4. CASE ~(args.reply \/ root["reply"] = Nil)
    <3>1. Deleting(root, {"reply"}) /\ root["reply"] = "reply"
      BY <1>1, <1>4, <2>2, <2>4 DEF Hand
    <3>2. /\ root' \in [Objects -> Objects \cup {Nil}] /\ misused' = FALSE
          /\ \A o \in Objects : root'[o] = IF root[o] = "reply" THEN Nil ELSE root[o]
      BY <1>1, <3>1, DeletingOne
    <3>3. \A o \in Objects : root'[o] = Nil
      BY <2>2, <3>2
    <3>4. QED BY <2>1, <3>2, <3>3 DEF HeapInv
  <2>5. QED BY <2>3, <2>4
<1>5. QED BY <1>2, <1>3, <1>4

(* A call begins with what the caller gives. *)
LEMMA CallKeeps ==
    ASSUME HeapInv, NEW w, NEW a \in AllArgs, Call(w, a)
    PROVE  HeapInv'
<1> DEFINE S == (IF a.optional THEN {"optional"} ELSE {}) \cup (IF w.req THEN {"req"} ELSE {})
<1>1. /\ place = "idle" /\ place' = "called" /\ work' = w /\ args' = a /\ misused' = misused
      /\ root' = [o \in Objects |-> IF o \in S THEN o ELSE root[o]]
  BY DEF Call, Create
<1>2. root \in [Objects -> Objects \cup {Nil}] /\ misused = FALSE /\ \A o \in Objects : root[o] = Nil
  BY <1>1 DEF HeapInv, Only
<1>3. "optional" \in Objects /\ "req" \in Objects
  BY DEF Objects
<1>4. \A o \in S : o \in {"optional", "req"}
  OBVIOUS
<1>5. ("optional" \in S <=> a.optional) /\ ("req" \in S => w.req)
  OBVIOUS
<1> HIDE DEF S
<1>6. /\ root' \in [Objects -> Objects \cup {Nil}]
      /\ \A o \in Objects : root'[o] # Nil => root'[o] = o /\ o \in {"optional", "req"}
      /\ root'["optional"] = (IF a.optional THEN "optional" ELSE Nil)
      /\ root'["req"] # Nil => w.req
  BY <1>1, <1>2, <1>3, <1>4, <1>5
<1>7. QED BY <1>1, <1>2, <1>6 DEF HeapInv

(* Every step of a wrapper and of a transfer keeps the trees as they are   *)
(* told.                                                                   *)
LEMMA HeapStep == HeapInv /\ [Next]_vars => HeapInv'
<1> SUFFICES ASSUME HeapInv, [Next]_vars PROVE HeapInv'
  OBVIOUS
<1>1. CASE UNCHANGED workerVars
  BY <1>1 DEF workerVars, HeapInv, Only, Params
<1>2. CASE WorkerStep
  BY <1>2, RefuseKeeps, PrepareKeeps, SendFails, SendJsonKeeps, SendJsonSyncKeeps,
     AnswerIsErrorKeeps, AnswerIsReplyKeeps, ReplyLeaves DEF WorkerStep
<1>3. ASSUME NEW w, NEW a \in AllArgs, Call(w, a) PROVE HeapInv'
  BY <1>3, CallKeeps
<1>4. CASE Upload \/ Download
  <2>1. \A e \in BOOLEAN : [optional |-> TRUE, reply |-> TRUE, error |-> e] \in AllArgs
    BY DEF AllArgs
  <2>2. \E w : \E e \in BOOLEAN : Call(w, [optional |-> TRUE, reply |-> TRUE, error |-> e])
    BY <1>4 DEF Upload, Download, Begin
  <2>3. QED BY <1>3, <2>1, <2>2
<1>5. CASE Done \/ Return
  <2>1. /\ place' = "idle" /\ misused' = misused
        /\ root' = [o \in Objects |-> Nil]
    BY <1>5 DEF Done, Return
  <2>2. QED BY <2>1 DEF HeapInv, Only
<1>6. CASE \/ Called \/ NoLocalFile \/ Connect \/ UploadBlock \/ UploadLast \/ UploadFails
           \/ HttpHeader \/ ChunkSize \/ Reader \/ ReaderEnds \/ ReaderFails \/ WriteFails
  <2>1. UNCHANGED workerVars
    BY <1>6 DEF Called, NoLocalFile, Connect, UploadBlock, UploadLast, UploadFails,
                HttpHeader, ReceiveByte, ChunkSize, Reader, ReaderEnds, ReaderFails, WriteFails, Keep
  <2>2. QED BY <1>1, <2>1
<1>7. CASE UNCHANGED vars
  BY <1>1, <1>7 DEF vars
<1>8. QED
  BY <1>2, <1>3, <1>4, <1>5, <1>6, <1>7 DEF Next, CallWrapper, WrapperDone, WrapperStep

(* An answer that is an error gives a copy of its message; the parameters  *)
(* of a reply are given when the caller takes them.                        *)
LEMMA AnswerGives == HeapInv /\ GivenInv /\ (AnswerIsError \/ Hand) => GivenInv'
<1> SUFFICES ASSUME HeapInv, GivenInv, AnswerIsError \/ Hand PROVE GivenInv'
  OBVIOUS
<1>1. root \in [Objects -> Objects \cup {Nil}] /\ "error" \in Objects
  BY DEF HeapInv, Objects
<1>2. CASE AnswerIsError
  <2> DEFINE copies == args.error /\ ReplyHasErrorMessage(server)
             c == [o \in Objects |-> IF o \in {"error"} THEN o ELSE root[o]]
  <2>1. /\ place = "answered" /\ place' = "failed"
        /\ Deleting(IF copies THEN c ELSE root, {"answer"})
        /\ given' = given \cup (IF copies THEN {"error"} ELSE {})
    BY <1>2 DEF AnswerIsError, Create
  <2>2. given = {}
    BY <2>1 DEF GivenInv
  <2> HIDE DEF copies
  <2>3. CASE copies
    <3>1. root' = [o \in Objects |-> IF c[o] \in {"answer"} THEN Nil ELSE c[o]]
      BY <2>1, <2>3 DEF Deleting, Delete
    <3>2. c["error"] = "error"
      BY <1>1
    <3>3. root'["error"] = "error"
      BY <1>1, <3>1, <3>2
    <3>4. QED BY <1>1, <2>1, <2>2, <2>3, <3>3 DEF GivenInv
  <2>4. CASE ~copies
    BY <2>1, <2>2, <2>4 DEF GivenInv
  <2>5. QED BY <2>3, <2>4
<1>3. CASE Hand
  <2>1. /\ place = "replied" /\ place' = "return" /\ work' = work /\ args' = args
        /\ given' = given \cup {o \in Live : \/ o = "reply" /\ args.reply
                                             \/ o = "item" /\ work.done = "pointer"}
        /\ args.reply => root' = root
    BY <1>3 DEF Hand
  <2>2. given = {}
    BY <2>1 DEF GivenInv
  <2>3. \A o \in Objects : root[o] # Nil => root[o] = "reply"
    BY <2>1 DEF HeapInv, Only
  <2>4. ASSUME NEW o \in given'
        PROVE  /\ o \in Objects
               /\ \/ root'[o] \in {"error", "reply"}
                  \/ place' = "return" /\ work'.done = "pointer" /\ ~args'.reply
    <3>1. o \in Objects /\ root[o] # Nil /\ (args.reply \/ work.done = "pointer")
      BY <2>1, <2>2, <2>4 DEF Live
    <3>2. CASE args.reply
      BY <2>1, <2>3, <3>1, <3>2
    <3>3. CASE ~args.reply
      BY <2>1, <3>1, <3>3
    <3>4. QED BY <3>2, <3>3
  <2>5. QED BY <2>1, <2>4 DEF GivenInv
<1>4. QED BY <1>2, <1>3

(* What the library deletes was given to nobody. *)
LEMMA LibraryTakes == HeapInv /\ GivenInv /\ LibraryDeletes => GivenInv'
<1> SUFFICES ASSUME HeapInv, GivenInv, LibraryDeletes PROVE GivenInv'
  OBVIOUS
<1>1. /\ place = "return" /\ UNCHANGED <<work, args, place, given>>
      /\ root' = [o \in Objects |-> IF root[o] \in {"message"} THEN Nil ELSE root[o]]
  BY DEF LibraryDeletes, Deleting, Delete
<1>2. ASSUME NEW o \in given, root[o] \in {"error", "reply"} PROVE root'[o] \in {"error", "reply"}
  BY <1>1, <1>2 DEF GivenInv
<1>3. QED BY <1>1, <1>2 DEF GivenInv

(* Every step keeps what was given. *)
LEMMA GivenStep == HeapInv /\ GivenInv /\ [Next]_vars => GivenInv'
<1> SUFFICES ASSUME HeapInv, GivenInv, [Next]_vars PROVE GivenInv'
  OBVIOUS
<1>1. CASE UNCHANGED workerVars
  BY <1>1 DEF workerVars, GivenInv
<1>2. CASE Refuse \/ Prepare \/ MessageCreateFails \/ ApiRefuses \/ SendJson \/ SendJsonSync \/ AnswerIsReply
  BY <1>2 DEF Refuse, Prepare, MessageCreateFails, ApiRefuses, SendJson, SendJsonSync, AnswerIsReply, GivenInv
<1>3. CASE Fail \/ Drop
  BY <1>3 DEF Fail, Drop, GivenInv
<1>4. CASE WorkerStep
  BY <1>2, <1>3, <1>4, AnswerGives, LibraryTakes DEF WorkerStep
<1>5. CASE Done \/ Return \/ Upload \/ Download \/ \E w \in Wrappers : \E a \in AllArgs : Call(w, a)
  BY <1>5 DEF Done, Return, Upload, Download, Begin, Call, GivenInv
<1>6. CASE \/ Called \/ NoLocalFile \/ Connect \/ UploadBlock \/ UploadLast \/ UploadFails
           \/ HttpHeader \/ ChunkSize \/ Reader \/ ReaderEnds \/ ReaderFails \/ WriteFails
  <2>1. UNCHANGED workerVars
    BY <1>6 DEF Called, NoLocalFile, Connect, UploadBlock, UploadLast, UploadFails,
                HttpHeader, ReceiveByte, ChunkSize, Reader, ReaderEnds, ReaderFails, WriteFails, Keep
  <2>2. QED BY <1>1, <2>1
<1>7. CASE UNCHANGED vars
  BY <1>1, <1>7 DEF vars
<1>8. QED
  BY <1>4, <1>5, <1>6, <1>7 DEF Next, CallWrapper, WrapperDone, WrapperStep

(* Whatever path a wrapper takes, nothing is freed twice or without having *)
(* been allocated, and when it returns its JSON, its message and the       *)
(* answer are gone, or the library's, or given to the caller; or they are  *)
(* the reply that most wrappers forget.  What the caller has been given is *)
(* allocated, but for the text of tr50_thing_attr_get.                     *)
THEOREM SettledCorrect == Spec => []Settled
<1>1. Init => HeapInv
  <2> SUFFICES ASSUME Init PROVE HeapInv
    OBVIOUS
  <2>1. root = [o \in Objects |-> Nil] /\ misused = FALSE /\ place = "idle"
    BY DEF Init, WorkerInit
  <2>2. QED BY <2>1 DEF HeapInv, Only
<1>2. Init => GivenInv
  BY DEF Init, WorkerInit, GivenInv
<1>3. HeapInv /\ GivenInv => Settled
  <2> SUFFICES ASSUME HeapInv, GivenInv PROVE Settled
    OBVIOUS
  <2>1. \A o \in given : o \in Live \/ (work.done = "pointer" /\ ~args.reply)
    <3> SUFFICES ASSUME NEW o \in given, ~(work.done = "pointer" /\ ~args.reply) PROVE o \in Live
      OBVIOUS
    <3>1. o \in Objects /\ root[o] \in {"error", "reply"}
      BY DEF GivenInv
    <3>2. root[o] # Nil
      BY <3>1, WorkerAssumption DEF Objects
    <3>3. QED BY <3>1, <3>2 DEF Live
  <2>2. QED BY <2>1 DEF HeapInv, Settled, Live
<1>4. QED BY <1>1, <1>2, <1>3, HeapStep, GivenStep, PTL DEF Spec

-----------------------------------------------------------------------------
(* The transfers. *)

(* Every end of a transfer that is not a return in the middle. *)
LEMMA EndsReleases == \A r : Ends(r) => at' = "done" /\ ~socket' /\ socket' \in BOOLEAN /\ fp' # "open"
BY DEF Ends

(* So does the end of either transfer. *)
LEMMA FinishReleases ==
    /\ \A r : Finish(r) => at' = "done" /\ ~socket' /\ socket' \in BOOLEAN /\ fp' # "open"
    /\ \A r : UploadEnds(r) => at' = "done" /\ ~socket' /\ socket' \in BOOLEAN /\ fp' # "open"
    /\ \A r : DownloadEnds(r) => at' = "done" /\ ~socket' /\ socket' \in BOOLEAN /\ fp' # "open"
BY EndsReleases DEF Finish, UploadEnds, DownloadEnds

(* Every step keeps the socket and the file as they are told. *)
LEMMA HandleStep == HandleInv /\ [Next]_vars => HandleInv'
<1> SUFFICES ASSUME HandleInv, [Next]_vars PROVE HandleInv'
  OBVIOUS
<1> DEFINE Released == at' = "done" /\ ~socket' /\ socket' \in BOOLEAN /\ fp' # "open"
<1>1. Released => HandleInv'
  BY DEF HandleInv
<1>2. CASE UNCHANGED fileVars
  BY <1>2 DEF fileVars, HandleInv
<1>3. CASE Upload \/ Download
  BY <1>3 DEF Upload, Download, Begin, HandleInv
<1>4. CASE Called
  <2>1. CASE \/ ret # "ok" /\ Finish("error")
             \/ ret = "error" /\ Finish("-1")
             \/ ret = "ok" /\ Ends("error")
    BY <1>1, <2>1, EndsReleases, FinishReleases
  <2>2. CASE at' = "connect" /\ UNCHANGED <<result, socket>>
    BY <1>4, <2>2 DEF Called, HandleInv
  <2>3. QED BY <1>4, <2>1, <2>2 DEF Called
<1>5. CASE NoLocalFile
  BY <1>5 DEF NoLocalFile, HandleInv
<1>6. CASE Connect
  <2>1. CASE Finish("error")
    BY <1>1, <2>1, FinishReleases
  <2>2. CASE socket' = TRUE /\ at' = IF job = "up" THEN "chunk" ELSE "header"
    BY <2>2 DEF HandleInv
  <2>3. QED BY <1>6, <2>1, <2>2 DEF Connect
<1>7. CASE UploadBlock \/ UploadLast \/ Reader
  BY <1>7 DEF UploadBlock, UploadLast, Reader, HandleInv
<1>8. CASE UploadFails \/ ReaderFails
  BY <1>1, <1>8, FinishReleases DEF UploadFails, ReaderFails
<1>9. CASE HttpHeader
  <2>1. CASE ReceiveByte("header", 4)
    BY <2>1 DEF ReceiveByte, HandleInv, Keep, httpVars
  <2>2. CASE at = "header" /\ \E f \in BOOLEAN : HeaderRead(f)
    <3>1. PICK f \in BOOLEAN : HeaderRead(f)
      BY <2>2
    <3>2. \/ \E r : UploadEnds(r) \/ DownloadEnds(r)
          \/ at' \in {"size", "data"} /\ UNCHANGED socket
      BY <3>1 DEF HeaderRead
    <3>3. CASE \E r : UploadEnds(r) \/ DownloadEnds(r)
      BY <1>1, <3>3, FinishReleases
    <3>4. CASE at' \in {"size", "data"} /\ UNCHANGED socket
      BY <3>4 DEF HandleInv
    <3>5. QED BY <3>2, <3>3, <3>4
  <2>3. QED BY <1>9, <2>1, <2>2 DEF HttpHeader
<1>10. CASE ChunkSize
  <2>1. CASE ReceiveByte("size", 2)
    BY <2>1 DEF ReceiveByte, HandleInv, Keep, httpVars
  <2>2. CASE DownloadEnds("-1")
    BY <1>1, <2>2, FinishReleases
  <2>3. CASE at' = "chunk data" /\ UNCHANGED socket
    BY <2>3 DEF HandleInv
  <2>4. QED BY <1>10, <2>1, <2>2, <2>3 DEF ChunkSize
<1>11. CASE ReaderEnds
  <2>1. CASE DownloadEnds("ok")
    BY <1>1, <2>1, FinishReleases
  <2>2. CASE at' = "size" /\ UNCHANGED socket
    BY <2>2 DEF HandleInv
  <2>3. QED BY <1>11, <2>1, <2>2 DEF ReaderEnds
<1>12. CASE WriteFails
  BY <1>1, <1>12 DEF WriteFails
<1>13. CASE Return
  BY <1>13 DEF Return, HandleInv
<1>14. CASE CallWrapper \/ WrapperDone \/ WrapperStep \/ UNCHANGED vars
  BY <1>2, <1>14 DEF CallWrapper, WrapperDone, WrapperStep, vars
<1>15. QED
  BY <1>3, <1>4, <1>5, <1>6, <1>7, <1>8, <1>9, <1>10, <1>11, <1>12, <1>13, <1>14 DEF Next

(* Every end of an upload and of a download, also the return without a     *)
(* local file, leaves no socket and no open FILE.                          *)
THEOREM HandlesReleasedCorrect == Spec => []HandlesReleased
<1>1. Init => HandleInv
  BY DEF Init, HandleInv
<1>2. HandleInv => HandlesReleased
  BY DEF HandleInv, HandlesReleased
<1>3. QED BY <1>1, <1>2, HandleStep, PTL DEF Spec

-----------------------------------------------------------------------------
(* Numbers and their digits. *)

(* The function in Digits is what it is defined to be. *)
LEMMA DigitsIs ==
    ASSUME NEW base \in Nat, base > 1
    PROVE  \A n \in Nat :
             Digits(n, base) = IF n < base THEN <<Digit(n)>>
                               ELSE Append(Digits(n \div base, base), Digit(n % base))
<1> DEFINE Small == {n \in Nat : n < base}
           m == [n \in Nat |-> n]
           c == [n \in Nat |-> <<Digit(n)>>]
           p == [n \in Nat |-> n \div base]
           h == [n \in Nat |-> [s \in Seq(Int) |-> Append(s, Digit(n % base))]]
           Body(D) == [k \in Nat |-> IF k < base THEN <<Digit(k)>> ELSE Append(D[k \div base], Digit(k % base))]
           E == CHOOSE D : D = Body(D)
<1>1. Recursion(Nat, Seq(Int), m, Small, c, p, h)
  <2>1. \A n \in Nat : n \div base \in Nat /\ Digit(n) \in Int /\ Digit(n % base) \in Int
    BY DivMod DEF Digit
  <2>2. c \in [Nat -> Seq(Int)] /\ p \in [Nat -> Nat] /\ m \in [Nat -> Nat]
    BY <2>1
  <2>3. h \in [Nat -> [Seq(Int) -> Seq(Int)]]
    BY <2>1
  <2>4. \A n \in Nat \ Small : p[n] < m[n]
    BY DivMod
  <2>5. \A n \in Nat \ Small : m[p[n]] < m[n]
    BY <2>1, <2>4
  <2>6. QED BY <2>2, <2>3, <2>5 DEF Recursion
<1>2. PICK f \in [Nat -> Seq(Int)] : \A n \in Nat : f[n] = IF n \in Small THEN c[n] ELSE h[n][f[p[n]]]
  <2> HIDE DEF m, Small, c, p, h, Body, E
  <2>1. \E f \in [Nat -> Seq(Int)] : Solves(f, Nat, Small, c, p, h)
    BY <1>1, RecursionExists
  <2>2. QED BY <2>1 DEF Solves
<1>3. f = Body(f)
  <2>1. \A n \in Nat : n \div base \in Nat
    BY DivMod
  <2>2. \A n \in Nat : f[n] = IF n < base THEN <<Digit(n)>> ELSE Append(f[n \div base], Digit(n % base))
    BY <1>2, <2>1
  <2>3. QED BY <2>2
<1>4. E = Body(E)
  BY <1>3
<1>5. \A n : Digits(n, base) = E[n]
  BY DEF Digits
<1> HIDE DEF E
<1>6. \A n \in Nat : n \div base \in Nat
  BY DivMod
<1>7. QED BY <1>4, <1>5, <1>6

(* The digits that a number has in a base. *)
DigitSet(base) == Digit(0)..Digit(base - 1)

(* A number is written as one digit or more. *)
LEMMA DigitsType ==
    ASSUME NEW base \in Nat, base > 1, NEW n \in Nat
    PROVE  Digits(n, base) \in Seq(DigitSet(base)) /\ Len(Digits(n, base)) > 0
<1> DEFINE Typed(k) == Digits(k, base) \in Seq(DigitSet(base)) /\ Len(Digits(k, base)) > 0
           P == {k \in Nat : Typed(k)}
<1>1. ASSUME NEW k \in Nat, \A j \in 0..(k - 1) : j \in P PROVE k \in P
  <2>1. CASE k < base
    <3>1. Digits(k, base) = <<Digit(k)>> /\ Digit(k) \in DigitSet(base)
      BY <2>1, DigitsIs DEF DigitSet, Digit
    <3>2. <<Digit(k)>> \in Seq(DigitSet(base)) /\ Len(<<Digit(k)>>) = 1
      BY <3>1, OneElement
    <3>3. Typed(k)
      BY <3>1, <3>2
    <3>4. QED BY <3>3
  <2>2. CASE k >= base
    <3>0. k \div base \in Nat /\ k % base \in 0..(base - 1) /\ k \div base < k
      BY <2>2, DivMod
    <3>1. k \div base \in 0..(k - 1) /\ k % base \in 0..(base - 1) /\ ~(k < base)
      BY <2>2, <3>0
    <3>2. Typed(k \div base)
      BY <1>1, <3>1
    <3>3. Digits(k, base) = Append(Digits(k \div base, base), Digit(k % base))
      BY <3>1, DigitsIs
    <3>4. Digit(k % base) \in DigitSet(base)
      BY <3>1 DEF DigitSet, Digit
    <3>5. QED
      <4> DEFINE d == Digits(k \div base, base)
      <4>1. Append(d, Digit(k % base)) \in Seq(DigitSet(base)) /\ Len(Append(d, Digit(k % base))) = Len(d) + 1
        BY <3>2, <3>4, AppendProperties
      <4>2. Len(d) \in Nat
        BY <3>2
      <4>3. QED BY <3>2, <3>3, <4>1, <4>2
  <2>3. QED BY <2>1, <2>2
<1>2. P = Nat
  <2>1. P \in SUBSET Nat
    OBVIOUS
  <2> HIDE DEF P
  <2>2. QED BY <1>1, <2>1, StrongInduction
<1>3. QED BY <1>2

(* The value that the first k digits of s have one after the other. *)
Values(v, s, base, k) ==
    /\ v[0] = 0
    /\ \A i \in 1..k : v[i] = v[i - 1] * base + (s[i] - 48)

(* The function in Number is what it is defined to be, and it stops at the *)
(* first character that is no digit.                                       *)
LEMMA NumberIs ==
    ASSUME NEW base \in Nat, base > 1, NEW s \in Seq(Int), NEW k \in 0..Len(s),
           \A i \in 1..k : s[i] \in DigitSet(base), k = Len(s) \/ s[k + 1] \notin DigitSet(base)
    PROVE  \E v : Values(v, s, base, k) /\ Number(s, base) = v[k]
<1> DEFINE m == [i \in 0..k |-> i]
           c == [i \in 0..k |-> 0]
           p == [i \in 0..k |-> IF i = 0 THEN 0 ELSE i - 1]
           h == [i \in 0..k |-> [v \in Int |-> IF i = 0 THEN 0 ELSE v * base + (s[i] - 48)]]
           T == 0..k
           Zero == {0}
           Body(v) == [i \in 0..k |-> IF i = 0 THEN 0 ELSE v[i - 1] * base + (s[i] - 48)]
           V == CHOOSE v : v = Body(v)
           Stops(j) == /\ \A i \in 1..j : s[i] \in DigitSet(base)
                       /\ j = Len(s) \/ s[j + 1] \notin DigitSet(base)
           n == CHOOSE j \in 0..Len(s) : Stops(j)
<1>1. n = k
  <2>0. k \in 0..Len(s) /\ Stops(k)
    OBVIOUS
  <2>1. Len(s) \in Nat /\ n \in 0..Len(s) /\ Stops(n)
    <3>1. Len(s) \in Nat
      OBVIOUS
    <3>2. n \in 0..Len(s) /\ Stops(n)
      <4> HIDE DEF Stops
      <4>1. \E j \in 0..Len(s) : Stops(j)
        BY <2>0
      <4>2. QED BY <4>1, Zenon
    <3>3. QED BY <3>1, <3>2
  <2> HIDE DEF n
  <2>2. ~(n < k)
    BY <2>1
  <2>3. ~(k < n)
    BY <2>1
  <2>4. QED BY <2>1, <2>2, <2>3
<1>2. Recursion(T, Int, m, Zero, c, p, h)
  <2>1. Len(s) \in Nat /\ k \in Nat
    OBVIOUS
  <2>2. m \in [T -> Nat] /\ Zero \in SUBSET T /\ c \in [T -> Int] /\ p \in [T -> T]
    BY <2>1
  <2>3. \A x \in T \ Zero : m[p[x]] < m[x]
    BY <2>1
  <2>4. h \in [T -> [Int -> Int]]
    <3>1. \A i \in T : i = 0 \/ s[i] \in Int
      BY <2>1
    <3>2. \A i \in T : \A v \in Int : (IF i = 0 THEN 0 ELSE v * base + (s[i] - 48)) \in Int
      BY <3>1
    <3>3. \A i \in T : [v \in Int |-> IF i = 0 THEN 0 ELSE v * base + (s[i] - 48)] \in [Int -> Int]
      BY <3>2
    <3>4. QED BY <3>3
  <2>5. QED BY <2>2, <2>3, <2>4 DEF Recursion
<1>3. PICK f \in [T -> Int] : \A i \in T : f[i] = IF i \in Zero THEN c[i] ELSE h[i][f[p[i]]]
  <2> HIDE DEF T, m, Zero, c, p, h, Body, V, n
  <2>1. \E f \in [T -> Int] : Solves(f, T, Zero, c, p, h)
    BY <1>2, RecursionExists
  <2>2. QED BY <2>1 DEF Solves
<1>4. f = Body(f)
  <2>0. ASSUME NEW i \in T PROVE f[i] = IF i = 0 THEN 0 ELSE f[i - 1] * base + (s[i] - 48)
    <3>1. CASE i = 0
      BY <1>3, <3>1
    <3>2. CASE i # 0
      <4>1. p[i] = i - 1 /\ i - 1 \in T /\ i \notin Zero
        BY <3>2
      <4>2. f[i - 1] \in Int
        BY <4>1
      <4>3. f[i] = h[i][f[i - 1]]
        BY <1>3, <4>1
      <4>4. QED BY <3>2, <4>2, <4>3
    <3>3. QED BY <3>1, <3>2
  <2>1. \A i \in T : f[i] = IF i = 0 THEN 0 ELSE f[i - 1] * base + (s[i] - 48)
    BY <2>0
  <2>2. QED BY <2>1
<1>5. V = Body(V)
  BY <1>4
<1>6. Number(s, base) = V[k]
  BY <1>1 DEF Number, DigitSet
<1> HIDE DEF V
<1>7. V[0] = 0 /\ \A i \in 1..k : V[i] = V[i - 1] * base + (s[i] - 48)
  <2>1. \A i \in 0..k : V[i] = IF i = 0 THEN 0 ELSE V[i - 1] * base + (s[i] - 48)
    BY <1>5
  <2>2. k \in Nat
    OBVIOUS
  <2>3. QED BY <2>1, <2>2
<1>8. QED BY <1>6, <1>7 DEF Values

(* Read one after the other, the digits of a number give it back. *)
LEMMA DigitsValue ==
    ASSUME NEW base \in Nat, base > 1, NEW s, NEW v, NEW N \in Nat, Values(v, s, base, N)
    PROVE  \A n \in Nat :
             LET d == Digits(n, base)
             IN  Len(d) <= N /\ (\A i \in 1..Len(d) : s[i] = d[i]) => v[Len(d)] = n
<1> DEFINE Begins(n) == Len(Digits(n, base)) <= N /\ \A i \in 1..Len(Digits(n, base)) : s[i] = Digits(n, base)[i]
           P == {n \in Nat : Begins(n) => v[Len(Digits(n, base))] = n}
<1>1. ASSUME NEW n \in Nat, \A j \in 0..(n - 1) : j \in P PROVE n \in P
  <2> SUFFICES ASSUME Begins(n) PROVE v[Len(Digits(n, base))] = n
    OBVIOUS
  <2>1. CASE n < base
    <3>1. Digits(n, base) = <<Digit(n)>>
      BY <2>1, DigitsIs
    <3>2. Len(Digits(n, base)) = 1 /\ s[1] = 48 + n
      BY <3>1 DEF Digit
    <3>3. v[1] = v[0] * base + (s[1] - 48) /\ v[0] = 0
      BY <3>2 DEF Values
    <3>4. v[1] = n
      BY <3>2, <3>3
    <3>5. QED BY <3>2, <3>4
  <2>2. CASE n >= base
    <3> DEFINE q == n \div base
               r == n % base
               d == Digits(q, base)
               l == Len(d)
    <3>0. q \in Nat /\ r \in 0..(base - 1) /\ n = base * q + r /\ q < n
      BY <2>2, DivMod
    <3>1. q \in 0..(n - 1) /\ ~(n < base)
      BY <2>2, <3>0
    <3>2. Digits(n, base) = Append(d, Digit(r))
      BY <3>1, DigitsIs
    <3>3. d \in Seq(DigitSet(base)) /\ l \in Nat
      BY <3>0, DigitsType
    <3>4. /\ Len(Digits(n, base)) = l + 1
          /\ Digits(n, base)[l + 1] = 48 + r
          /\ \A i \in 1..l : Digits(n, base)[i] = d[i]
      BY <3>2, <3>3 DEF Digit
    <3> HIDE DEF q, r, d, l
    <3>5. Len(Digits(q, base)) = l /\ d = Digits(q, base)
      BY DEF l, d
    <3>6. Begins(q)
      BY <3>3, <3>4, <3>5
    <3>7. v[l] = q
      BY <1>1, <3>1, <3>5, <3>6
    <3>8. s[l + 1] = 48 + r /\ l + 1 <= N
      BY <3>3, <3>4
    <3>9. v[l + 1] = v[l] * base + (s[l + 1] - 48)
      <4>1. l + 1 \in 1..N /\ (l + 1) - 1 = l
        BY <3>3, <3>8
      <4>2. v[l + 1] = v[(l + 1) - 1] * base + (s[l + 1] - 48)
        BY <4>1 DEF Values
      <4>3. QED BY <4>1, <4>2
    <3>10. v[l + 1] = q * base + r
      BY <3>0, <3>7, <3>8, <3>9
    <3>11. QED BY <3>0, <3>4, <3>10
  <2>3. QED BY <2>1, <2>2
<1>2. P = Nat
  <2>1. P \in SUBSET Nat
    OBVIOUS
  <2> HIDE DEF P
  <2>2. QED BY <1>1, <2>1, StrongInduction
<1>3. QED BY <1>2

(* A number is read back from its digits, whatever comes after them. *)
LEMMA NumberOfDigits ==
    ASSUME NEW base \in Nat, base > 1, NEW n \in Nat, NEW t \in Seq(Int),
           t = <<>> \/ t[1] \notin DigitSet(base)
    PROVE  Number(Digits(n, base) \o t, base) = n
<1> DEFINE d == Digits(n, base)
           s == d \o t
           k == Len(d)
<1>1. d \in Seq(DigitSet(base)) /\ k \in Nat
  <2>1. d \in Seq(DigitSet(base))
    BY DigitsType
  <2> HIDE DEF d
  <2>2. QED BY <2>1
<1>2. DigitSet(base) \subseteq Int
  BY DEF DigitSet, Digit
<1>3. s \in Seq(Int) /\ Len(s) = k + Len(t) /\ k \in 0..Len(s) /\ Len(t) \in Nat
  BY <1>1, <1>2
<1>4. \A i \in 1..k : s[i] = d[i] /\ s[i] \in DigitSet(base)
  BY <1>1
<1>5. k = Len(s) \/ s[k + 1] \notin DigitSet(base)
  <2>1. CASE t = <<>>
    BY <1>3, <2>1
  <2>2. CASE t # <<>>
    <3>1. Len(t) > 0 /\ t[1] \notin DigitSet(base)
      BY <2>2, <1>3
    <3>2. s[k + 1] = t[1]
      BY <1>1, <1>3, <3>1
    <3>3. QED BY <3>1, <3>2
  <2>3. QED BY <2>1, <2>2
<1>6. k <= k /\ Len(Digits(n, base)) = k
  BY <1>1
<1> HIDE DEF s, k
<1>7. PICK v : Values(v, s, base, k) /\ Number(s, base) = v[k]
  BY <1>3, <1>4, <1>5, NumberIs
<1>8. v[k] = n
  <2>1. /\ k \in Nat /\ Values(v, s, base, k) /\ Len(Digits(n, base)) <= k
        /\ \A i \in 1..Len(Digits(n, base)) : s[i] = Digits(n, base)[i]
    BY <1>1, <1>4, <1>6, <1>7
  <2> HIDE DEF d
  <2>2. v[Len(Digits(n, base))] = n
    BY <2>1, DigitsValue
  <2>3. QED BY <1>6, <2>2
<1>9. QED BY <1>7, <1>8 DEF s

(* strtol reads 0 where there is no digit. *)
LEMMA NumberOfNone ==
    ASSUME NEW base \in Nat, base > 1, NEW t \in Seq(Int), t = <<>> \/ t[1] \notin DigitSet(base)
    PROVE  Number(t, base) = 0
<1>1. 0 \in 0..Len(t) /\ (0 = Len(t) \/ t[0 + 1] \notin DigitSet(base)) /\ \A i \in 1..0 : t[i] \in DigitSet(base)
  OBVIOUS
<1>2. PICK v : Values(v, t, base, 0) /\ Number(t, base) = v[0]
  BY <1>1, NumberIs
<1>3. QED BY <1>2 DEF Values

-----------------------------------------------------------------------------
(* Streams, lines and chunks. *)

-----------------------------------------------------------------------------
(* The lines of a stream: where the one from i on ends, if it does. *)

HasEol(s, i) == \E k \in i..Len(s) : s[k] = CR
EolIn(s, i) == CHOOSE k \in i..Len(s) : s[k] = CR /\ \A j \in i..(k - 1) : s[j] # CR

(* The end of the line is the first CR from i on. *)
LEMMA EolIs ==
    ASSUME NEW s \in Seq(Int), NEW i \in Nat \ {0}, NEW k \in i..Len(s), s[k] = CR, \A j \in i..(k - 1) : s[j] # CR
    PROVE  HasEol(s, i) /\ EolIn(s, i) = k
<1> DEFINE First1(l) == s[l] = CR /\ \A j \in i..(l - 1) : s[j] # CR
           n == CHOOSE l \in i..Len(s) : First1(l)
<1>1. n \in i..Len(s) /\ First1(n)
  <2>1. k \in i..Len(s) /\ First1(k)
    OBVIOUS
  <2> HIDE DEF First1
  <2>2. QED BY <2>1, Zenon
<1>2. EolIn(s, i) = n
  BY DEF EolIn
<1> HIDE DEF n
<1>3. ~(n < k) /\ ~(k < n)
  BY <1>1
<1>4. n = k
  BY <1>1, <1>3
<1>5. QED BY <1>2, <1>4 DEF HasEol

(* Of the CRs from i on there is a first. *)
LEMMA EolExists ==
    ASSUME NEW s \in Seq(Int), NEW i \in Nat \ {0}, HasEol(s, i)
    PROVE  LET k == EolIn(s, i) IN k \in i..Len(s) /\ s[k] = CR /\ \A j \in i..(k - 1) : s[j] # CR
<1> DEFINE S == {k \in i..Len(s) : s[k] = CR}
<1>1. S \in SUBSET Nat /\ S # {}
  BY DEF HasEol
<1>2. IsFiniteSet(S)
  <2>1. IsFiniteSet(i..Len(s))
    BY FS_Interval
  <2>2. QED BY <2>1, FS_Subset
<1>3. PICK k \in S : \A y \in S : k <= y
  <2> HIDE DEF S
  <2>1. QED BY <1>1, <1>2, LeastElement
<1>4. k \in i..Len(s) /\ s[k] = CR /\ \A j \in i..(k - 1) : s[j] # CR
  BY <1>3
<1>5. EolIn(s, i) = k
  BY <1>4, EolIs
<1>6. QED BY <1>4, <1>5

(* What a number of digits stands for is a natural number. *)
LEMMA NumberType ==
    ASSUME NEW base \in Nat, base > 1, NEW s \in Seq(Int)
    PROVE  Number(s, base) \in Nat
<1> DEFINE S == {k \in 0..Len(s) : k = Len(s) \/ s[k + 1] \notin DigitSet(base)}
<1>1. S \in SUBSET Nat /\ S # {}
  <2>1. Len(s) \in S
    OBVIOUS
  <2>2. QED BY <2>1
<1>2. IsFiniteSet(S)
  <2>1. IsFiniteSet(0..Len(s))
    BY FS_Interval
  <2>2. QED BY <2>1, FS_Subset
<1>3. PICK k \in S : \A y \in S : k <= y
  <2> HIDE DEF S
  <2>1. QED BY <1>1, <1>2, LeastElement
<1>4. k \in 0..Len(s) /\ (k = Len(s) \/ s[k + 1] \notin DigitSet(base))
  BY <1>3
<1>5. \A i \in 1..k : s[i] \in DigitSet(base)
  <2> SUFFICES ASSUME NEW i \in 1..k, s[i] \notin DigitSet(base) PROVE FALSE
    OBVIOUS
  <2>1. i - 1 \in 0..Len(s) /\ (i - 1) + 1 = i /\ i - 1 < k
    BY <1>4
  <2>2. i - 1 \in S
    BY <2>1
  <2>3. k <= i - 1
    BY <1>3, <2>2
  <2>4. QED BY <2>1, <2>3
<1>6. PICK v : Values(v, s, base, k) /\ Number(s, base) = v[k]
  BY <1>4, <1>5, NumberIs
<1> DEFINE P == {i \in Nat : i <= k => v[i] \in Nat}
<1>7. P = Nat
  <2>1. 0 \in P
    BY <1>6 DEF Values
  <2>2. ASSUME NEW i \in P PROVE i + 1 \in P
    <3> SUFFICES ASSUME i + 1 <= k PROVE v[i + 1] \in Nat
      OBVIOUS
    <3>1. v[i] \in Nat /\ i + 1 \in 1..k /\ (i + 1) - 1 = i
      BY <1>4
    <3>2. s[i + 1] - 48 \in Nat
      BY <1>5, <3>1 DEF DigitSet, Digit
    <3>3. v[i + 1] = v[(i + 1) - 1] * base + (s[i + 1] - 48)
      BY <1>6, <3>1 DEF Values
    <3>4. v[i] * base \in Nat
      BY <3>1
    <3>5. QED BY <3>1, <3>2, <3>3, <3>4
  <2>3. P \in SUBSET Nat
    OBVIOUS
  <2> HIDE DEF P
  <2>4. QED BY <2>1, <2>2, <2>3, NumberInduction
<1>8. k \in P /\ k <= k
  BY <1>4, <1>7
<1>9. QED BY <1>6, <1>8

(* A chunk at i of a stream: its size, its data, and what comes after it. *)
SizeAt(s, i) == Number(SubSeq(s, i, EolIn(s, i) - 1), Hex)
DataAt(s, i) == EolIn(s, i) + 2
BytesAt(s, i) == SubSeq(s, DataAt(s, i), DataAt(s, i) + SizeAt(s, i) - 1)
AfterAt(s, i) == DataAt(s, i) + SizeAt(s, i) + 2

(* What a server does not read: no line, no end after the data. *)
Broken(s, i) ==
    \/ i > Len(s) \/ ~HasEol(s, i)
    \/ DataAt(s, i) + SizeAt(s, i) + 1 > Len(s)
    \/ SubSeq(s, DataAt(s, i) + SizeAt(s, i), DataAt(s, i) + SizeAt(s, i) + 1) # End

(* f reads s, from each place on. *)
Reads(f, s) ==
    \A i \in 1..(Len(s) + 1) :
      f[i] = IF Broken(s, i) THEN <<-1>> ELSE IF SizeAt(s, i) = 0 THEN <<>> ELSE BytesAt(s, i) \o f[AfterAt(s, i)]

(* The size of a chunk is a natural number. *)
LEMMA SizeType == \A q \in Seq(Int) : Number(q, Hex) \in Nat
<1>1. Hex \in Nat /\ Hex > 1
  BY FileAssumption
<1>2. QED BY <1>1, NumberType

(* What there is in a stream at i, there is after it is put after another. *)
LEMMA ShiftAt ==
    ASSUME NEW u \in Seq(Int), NEW t \in Seq(Int), NEW i \in 1..(Len(t) + 1)
    PROVE  LET s == u \o t
               j == Len(u) + i
           IN  /\ Broken(s, j) <=> Broken(t, i)
               /\ ~Broken(t, i) => /\ SizeAt(s, j) = SizeAt(t, i) /\ BytesAt(s, j) = BytesAt(t, i)
                                   /\ AfterAt(s, j) = Len(u) + AfterAt(t, i)
<1> DEFINE s == u \o t
           l == Len(u)
<1>1. /\ s \in Seq(Int) /\ Len(s) = l + Len(t) /\ l \in Nat /\ Len(t) \in Nat
      /\ \A k \in 1..Len(t) : s[l + k] = t[k]
  BY ConcatProperties
<1> HIDE DEF s, l
<1>2. ASSUME NEW a \in Nat \ {0}, NEW b \in Int, b <= Len(t)
      PROVE  SubSeq(s, l + a, l + b) = SubSeq(t, a, b)
  BY <1>2, PartBehind DEF s, l
<1>3. HasEol(s, l + i) <=> HasEol(t, i)
  <2>1. ASSUME NEW k \in (l + i)..Len(s), s[k] = CR PROVE \E e \in i..Len(t) : t[e] = CR
    <3>1. k - l \in i..Len(t) /\ k - l \in 1..Len(t) /\ l + (k - l) = k
      <4>1. k \in Int /\ l \in Nat /\ i \in Nat \ {0} /\ l + i <= k /\ k <= l + Len(t)
        BY <1>1, <2>1
      <4>2. QED BY <4>1
    <3>2. QED BY <1>1, <2>1, <3>1
  <2>2. ASSUME NEW k \in i..Len(t), t[k] = CR PROVE \E e \in (l + i)..Len(s) : s[e] = CR
    <3>1. l + k \in (l + i)..Len(s) /\ k \in 1..Len(t)
      <4>1. k \in Int /\ l \in Nat /\ i \in Nat \ {0} /\ i <= k /\ k <= Len(t) /\ Len(s) = l + Len(t)
        BY <1>1, <2>2
      <4>2. QED BY <4>1
    <3>2. QED BY <1>1, <2>2, <3>1
  <2>3. QED BY <2>1, <2>2 DEF HasEol
<1>4. ASSUME i <= Len(t), HasEol(t, i)
      PROVE  /\ EolIn(t, i) \in i..Len(t) /\ EolIn(s, l + i) = l + EolIn(t, i)
             /\ SizeAt(s, l + i) = SizeAt(t, i) /\ SizeAt(t, i) \in Nat
             /\ DataAt(s, l + i) = l + DataAt(t, i) /\ DataAt(t, i) \in Nat \ {0}
  <2>0. i \in Nat \ {0}
    OBVIOUS
  <2> DEFINE k == EolIn(t, i)
  <2>1. k \in i..Len(t) /\ t[k] = CR /\ \A e \in i..(k - 1) : t[e] # CR
    BY <1>4, <2>0, EolExists
  <2> HIDE DEF k
  <2>2. l + k \in (l + i)..Len(s) /\ s[l + k] = CR /\ l + i \in Nat \ {0}
    BY <1>1, <2>1, SMTT(30)
  <2>3. ASSUME NEW e \in (l + i)..((l + k) - 1) PROVE s[e] # CR
    <3>1. e - l \in i..(k - 1) /\ e - l \in 1..Len(t) /\ l + (e - l) = e
      BY <1>1, <2>1
    <3>2. QED BY <1>1, <2>1, <3>1
  <2>4. EolIn(s, l + i) = l + k
    BY <1>1, <2>2, <2>3, EolIs
  <2>5. SubSeq(s, l + i, EolIn(s, l + i) - 1) = SubSeq(t, i, k - 1)
    <3>1. k - 1 \in Int /\ k - 1 <= Len(t) /\ (l + k) - 1 = l + (k - 1)
      BY <1>1, <2>1, SMTT(30)
    <3>2. SubSeq(s, l + i, l + (k - 1)) = SubSeq(t, i, k - 1)
      BY <1>2, <2>0, <3>1
    <3>3. QED BY <2>4, <3>1, <3>2
  <2>6. SizeAt(s, l + i) = SizeAt(t, i)
    BY <2>5 DEF SizeAt, k
  <2>7. SizeAt(t, i) \in Nat
    <3>1. k - 1 \in Int /\ k - 1 <= Len(t)
      BY <1>1, <2>1
    <3>2. SubSeq(t, i, k - 1) \in Seq(Int)
      BY <2>0, <3>1, PartElements
    <3>3. QED BY <3>2, SizeType DEF SizeAt, k
  <2>8. DataAt(s, l + i) = l + DataAt(t, i) /\ DataAt(t, i) \in Nat \ {0}
    <3>1. DataAt(s, l + i) = (l + k) + 2
      BY <2>4 DEF DataAt
    <3>2. DataAt(t, i) = k + 2
      BY DEF DataAt, k
    <3>3. k \in Nat
      BY <2>0, <2>1
    <3>4. QED BY <1>1, <3>1, <3>2, <3>3
  <2>9. QED BY <2>1, <2>4, <2>6, <2>7, <2>8 DEF k
<1>5. CASE i > Len(t) \/ ~HasEol(t, i)
  <2>1. Broken(t, i)
    BY <1>5 DEF Broken
  <2>2. l + i > Len(s) \/ ~HasEol(s, l + i)
    BY <1>1, <1>3, <1>5
  <2>3. Broken(s, l + i)
    BY <2>2 DEF Broken
  <2>4. QED BY <2>1, <2>3 DEF s, l
<1>6. CASE i <= Len(t) /\ HasEol(t, i)
  <2> DEFINE n == SizeAt(t, i)
             d == DataAt(t, i)
  <2>1. /\ n \in Nat /\ d \in Nat \ {0}
        /\ SizeAt(s, l + i) = n /\ DataAt(s, l + i) = l + d
    BY <1>4, <1>6
  <2>2. Broken(t, i) <=> (d + n + 1 > Len(t) \/ SubSeq(t, d + n, d + n + 1) # End)
    BY <1>1, <1>6 DEF Broken
  <2>3. Broken(s, l + i) <=> ((l + d) + n + 1 > Len(s) \/ SubSeq(s, (l + d) + n, (l + d) + n + 1) # End)
    <3>1. HasEol(s, l + i) /\ ~(l + i > Len(s))
      BY <1>1, <1>3, <1>6
    <3>2. QED BY <2>1, <3>1 DEF Broken
  <2>4. AfterAt(t, i) = d + n + 2 /\ AfterAt(s, l + i) = (l + d) + n + 2
    BY <2>1 DEF AfterAt
  <2>5. BytesAt(t, i) = SubSeq(t, d, d + n - 1) /\ BytesAt(s, l + i) = SubSeq(s, l + d, (l + d) + n - 1)
    BY <2>1 DEF BytesAt
  <2> HIDE DEF n, d
  <2>6. (l + d) + n + 1 > Len(s) <=> d + n + 1 > Len(t)
    BY <1>1, <2>1
  <2>7. ASSUME ~(d + n + 1 > Len(t))
        PROVE  /\ SubSeq(s, (l + d) + n, (l + d) + n + 1) = SubSeq(t, d + n, d + n + 1)
               /\ SubSeq(s, l + d, (l + d) + n - 1) = SubSeq(t, d, d + n - 1)
    <3>1. /\ d + n \in Nat \ {0} /\ d + n + 1 \in Int /\ d + n + 1 <= Len(t) /\ d + n - 1 \in Int
          /\ d + n - 1 <= Len(t)
      BY <1>1, <2>1, <2>7, SMTT(30)
    <3>2. SubSeq(s, l + (d + n), l + (d + n + 1)) = SubSeq(t, d + n, d + n + 1)
      BY <1>2, <3>1
    <3>3. SubSeq(s, l + d, l + (d + n - 1)) = SubSeq(t, d, d + n - 1)
      BY <1>2, <2>1, <3>1
    <3>4. l + (d + n) = (l + d) + n /\ l + (d + n + 1) = (l + d) + n + 1 /\ l + (d + n - 1) = (l + d) + n - 1
      BY <1>1, <2>1
    <3>5. QED BY <3>2, <3>3, <3>4
  <2>8. Broken(s, l + i) <=> Broken(t, i)
    BY <2>2, <2>3, <2>6, <2>7
  <2>9. ASSUME ~Broken(t, i)
        PROVE  SizeAt(s, l + i) = SizeAt(t, i) /\ BytesAt(s, l + i) = BytesAt(t, i) /\ AfterAt(s, l + i) = l + AfterAt(t, i)
    <3>1. ~(d + n + 1 > Len(t))
      BY <2>2, <2>9
    <3>2. (l + d) + n + 2 = l + (d + n + 2)
      BY <1>1, <2>1
    <3>3. QED BY <2>1, <2>4, <2>5, <2>7, <3>1, <3>2 DEF n
  <2>10. QED BY <2>8, <2>9 DEF s, l
<1>7. QED BY <1>1, <1>5, <1>6

(* A chunk at i is the same one when its stream comes after another. *)
LEMMA ChunkAt ==
    ASSUME NEW s \in Seq(Int), NEW i \in 1..(Len(s) + 1), ~Broken(s, i)
    PROVE  /\ i <= Len(s) /\ EolIn(s, i) \in i..Len(s)
           /\ SizeAt(s, i) \in Nat /\ DataAt(s, i) \in Nat /\ DataAt(s, i) > i
           /\ AfterAt(s, i) \in 1..(Len(s) + 1) /\ AfterAt(s, i) > i
           /\ BytesAt(s, i) \in Seq(Int)
<1>1. i \in Nat \ {0} /\ i <= Len(s) /\ HasEol(s, i) /\ DataAt(s, i) + SizeAt(s, i) + 1 <= Len(s)
  <2>1. Len(s) \in Nat
    OBVIOUS
  <2>2. i \in Nat \ {0} /\ i <= Len(s) /\ HasEol(s, i) /\ ~(DataAt(s, i) + SizeAt(s, i) + 1 > Len(s))
    BY <2>1 DEF Broken
  <2>3. EolIn(s, i) \in i..Len(s)
    BY <2>2, EolExists
  <2>4. SubSeq(s, i, EolIn(s, i) - 1) \in Seq(Int)
    BY <2>2, <2>3, PartElements
  <2>5. SizeAt(s, i) \in Nat
    BY <2>4, SizeType DEF SizeAt
  <2>6. QED BY <2>2, <2>3, <2>5 DEF DataAt
<1>2. EolIn(s, i) \in i..Len(s)
  BY <1>1, EolExists
<1>3. SubSeq(s, i, EolIn(s, i) - 1) \in Seq(Int)
  BY <1>1, <1>2, PartElements
<1>4. SizeAt(s, i) \in Nat
  BY <1>3, SizeType DEF SizeAt
<1>5. DataAt(s, i) \in Nat \ {0} /\ DataAt(s, i) > i
  BY <1>1, <1>2 DEF DataAt
<1>6. AfterAt(s, i) \in 1..(Len(s) + 1) /\ AfterAt(s, i) > i
  BY <1>1, <1>4, <1>5 DEF AfterAt
<1>7. BytesAt(s, i) \in Seq(Int)
  <2>1. DataAt(s, i) + SizeAt(s, i) - 1 \in Int /\ DataAt(s, i) + SizeAt(s, i) - 1 <= Len(s)
    BY <1>1, <1>4, <1>5
  <2>2. QED BY <1>5, <2>1, PartElements DEF BytesAt
<1>8. QED BY <1>1, <1>2, <1>4, <1>5, <1>6, <1>7

(* So it is read alike. *)
ReadsBehind(f, u, t, g) == u \in Seq(Int) /\ t \in Seq(Int) /\ Reads(f, u \o t) /\ Reads(g, t)

(* From a place behind u, u and t together are read as t alone. *)
LEMMA ReadsAlike ==
    ASSUME NEW u, NEW t, NEW f, NEW g, ReadsBehind(f, u, t, g)
    PROVE  \A i \in 1..(Len(t) + 1) : f[Len(u) + i] = g[i]
<1> USE DEF ReadsBehind
<1> DEFINE s == u \o t
           l == Len(u)
           Alike(i) == f[l + i] = g[i]
           P == {n \in Nat : \A i \in 1..(Len(t) + 1) : Len(t) + 1 - i = n => Alike(i)}
<1>1. Len(s) = l + Len(t) /\ l \in Nat /\ Len(t) \in Nat
  BY ConcatProperties
<1> HIDE DEF s, l
<1>2. ASSUME NEW n \in Nat, \A k \in 0..(n - 1) : k \in P PROVE n \in P
  <2> SUFFICES ASSUME NEW i \in 1..(Len(t) + 1), Len(t) + 1 - i = n PROVE f[l + i] = g[i]
    OBVIOUS
  <2>1. l + i \in 1..(Len(s) + 1)
    BY <1>1
  <2>2. /\ f[l + i] = IF Broken(s, l + i) THEN <<-1>>
                      ELSE IF SizeAt(s, l + i) = 0 THEN <<>> ELSE BytesAt(s, l + i) \o f[AfterAt(s, l + i)]
        /\ g[i] = IF Broken(t, i) THEN <<-1>>
                  ELSE IF SizeAt(t, i) = 0 THEN <<>> ELSE BytesAt(t, i) \o g[AfterAt(t, i)]
    BY <2>1 DEF Reads, s
  <2>3. /\ Broken(s, l + i) <=> Broken(t, i)
        /\ ~Broken(t, i) => SizeAt(s, l + i) = SizeAt(t, i) /\ BytesAt(s, l + i) = BytesAt(t, i)
                             /\ AfterAt(s, l + i) = l + AfterAt(t, i)
    BY ShiftAt DEF s, l
  <2>4. CASE Broken(t, i)
    BY <2>2, <2>3, <2>4
  <2>5. CASE ~Broken(t, i)
    <3> DEFINE a == AfterAt(t, i)
    <3>1. a \in 1..(Len(t) + 1) /\ a > i
      BY <2>5, ChunkAt
    <3> HIDE DEF a
    <3>2. Len(t) + 1 - a \in 0..(n - 1)
      BY <1>1, <3>1
    <3>3. Len(t) + 1 - a \in P
      BY <1>2, <3>2
    <3>4. f[l + a] = g[a]
      BY <3>1, <3>3
    <3>5. QED BY <2>2, <2>3, <2>5, <3>4 DEF a
  <2>6. QED BY <2>4, <2>5
<1>3. P = Nat
  <2>1. P \in SUBSET Nat
    OBVIOUS
  <2> HIDE DEF P
  <2>2. QED BY <1>2, <2>1, StrongInduction
<1>4. ASSUME NEW i \in 1..(Len(t) + 1) PROVE Alike(i)
  <2>1. Len(t) + 1 - i \in Nat
    BY <1>1
  <2>2. Len(t) + 1 - i \in P
    <3> HIDE DEF P
    <3>1. QED BY <1>3, <2>1
  <2>3. QED BY <2>2
<1>5. QED BY <1>4 DEF l

(* There is one way to read a stream. *)
LEMMA ReadsOnce ==
    ASSUME NEW s \in Seq(Int), NEW f, NEW g, Reads(f, s), Reads(g, s)
    PROVE  f[1] = g[1]
<1> DEFINE u == <<>>
<1>1. u \in Seq(Int) /\ Len(u) = 0 /\ u \o s = s /\ 1 \in 1..(Len(s) + 1) /\ 0 + 1 = 1
  BY ConcatEmptySeq
<1> HIDE DEF u
<1>2. ReadsBehind(f, u, s, g)
  BY <1>1 DEF ReadsBehind
<1>3. \A i \in 1..(Len(s) + 1) : f[Len(u) + i] = g[i]
  BY <1>2, ReadsAlike
<1>4. f[Len(u) + 1] = g[1]
  BY <1>1, <1>3
<1>5. QED BY <1>1, <1>4

(* The function in Dechunked is what it is defined to be. *)
LEMMA DechunkedIs ==
    ASSUME NEW s \in Seq(Int)
    PROVE  \E f \in [1..(Len(s) + 1) -> Seq(Int)] : Reads(f, s) /\ Dechunked(s) = f[1]
<1> DEFINE T == 1..(Len(s) + 1)
           m == [i \in T |-> Len(s) + 1 - i]
           B == {i \in T : Broken(s, i) \/ SizeAt(s, i) = 0}
           c == [i \in T |-> IF Broken(s, i) THEN <<-1>> ELSE <<>>]
           p == [i \in T |-> IF i \in B THEN i ELSE AfterAt(s, i)]
           h == [i \in T |-> [q \in Seq(Int) |-> IF i \in B THEN q ELSE BytesAt(s, i) \o q]]
           Body(r) == [i \in T |->
                         IF i > Len(s) \/ ~HasEol(s, i) THEN <<-1>>
                         ELSE IF \/ DataAt(s, i) + SizeAt(s, i) + 1 > Len(s)
                                 \/ SubSeq(s, DataAt(s, i) + SizeAt(s, i), DataAt(s, i) + SizeAt(s, i) + 1) # End
                              THEN <<-1>>
                              ELSE IF SizeAt(s, i) = 0 THEN <<>> ELSE BytesAt(s, i) \o r[AfterAt(s, i)]]
           R == CHOOSE r : r = Body(r)
<1>1. Recursion(T, Seq(Int), m, B, c, p, h)
  <2>1. Len(s) \in Nat
    OBVIOUS
  <2>2. m \in [T -> Nat] /\ B \in SUBSET T
    BY <2>1
  <2>3. c \in [T -> Seq(Int)]
    <3>1. <<-1>> \in Seq(Int) /\ <<>> \in Seq(Int)
      OBVIOUS
    <3>2. QED BY <3>1
  <2>4. \A i \in T \ B : AfterAt(s, i) \in T /\ AfterAt(s, i) > i /\ BytesAt(s, i) \in Seq(Int)
    BY ChunkAt
  <2>5. p \in [T -> T]
    BY <2>4
  <2>6. h \in [T -> [Seq(Int) -> Seq(Int)]]
    <3>1. \A i \in T : \A q \in Seq(Int) : (IF i \in B THEN q ELSE BytesAt(s, i) \o q) \in Seq(Int)
      BY <2>4, ConcatProperties
    <3> HIDE DEF T, B
    <3>2. QED BY <3>1
  <2>7. \A i \in T \ B : m[p[i]] < m[i]
    <3>1. \A i \in T \ B : p[i] = AfterAt(s, i)
      OBVIOUS
    <3>2. QED BY <2>1, <2>4, <3>1
  <2> HIDE DEF T, m, B, c, p, h
  <2>8. QED BY <2>2, <2>3, <2>5, <2>6, <2>7 DEF Recursion
<1>2. PICK f \in [T -> Seq(Int)] : \A i \in T : f[i] = IF i \in B THEN c[i] ELSE h[i][f[p[i]]]
  <2> HIDE DEF T, m, B, c, p, h, Body, R
  <2>1. \E f \in [T -> Seq(Int)] : Solves(f, T, B, c, p, h)
    BY <1>1, RecursionExists
  <2>2. QED BY <2>1 DEF Solves
<1>3. f = Body(f)
  <2>1. ASSUME NEW i \in T
        PROVE  f[i] = IF Broken(s, i) THEN <<-1>>
                      ELSE IF SizeAt(s, i) = 0 THEN <<>> ELSE BytesAt(s, i) \o f[AfterAt(s, i)]
    <3>1. CASE i \in B
      BY <1>2, <3>1
    <3>2. CASE i \notin B
      <4>1. p[i] = AfterAt(s, i) /\ AfterAt(s, i) \in T
        BY <3>2, ChunkAt
      <4>2. f[AfterAt(s, i)] \in Seq(Int)
        BY <4>1
      <4>3. h[i][f[AfterAt(s, i)]] = BytesAt(s, i) \o f[AfterAt(s, i)]
        BY <3>2, <4>2
      <4>4. f[i] = BytesAt(s, i) \o f[AfterAt(s, i)]
        BY <1>2, <3>2, <4>1, <4>3
      <4>5. QED BY <3>2, <4>4
    <3>3. QED BY <3>1, <3>2
  <2>2. \A i \in T : f[i] = Body(f)[i]
    <3>1. SUFFICES ASSUME NEW i \in T PROVE f[i] = Body(f)[i]
      OBVIOUS
    <3> DEFINE x == i > Len(s) \/ ~HasEol(s, i)
               y == \/ DataAt(s, i) + SizeAt(s, i) + 1 > Len(s)
                    \/ SubSeq(s, DataAt(s, i) + SizeAt(s, i), DataAt(s, i) + SizeAt(s, i) + 1) # End
               z == IF SizeAt(s, i) = 0 THEN <<>> ELSE BytesAt(s, i) \o f[AfterAt(s, i)]
    <3>2. Broken(s, i) <=> x \/ y
      BY Zenon DEF Broken
    <3>3. f[i] = IF Broken(s, i) THEN <<-1>> ELSE z
      BY <2>1, Zenon
    <3>4. Body(f)[i] = IF x THEN <<-1>> ELSE IF y THEN <<-1>> ELSE z
      BY Zenon
    <3> HIDE DEF x, y, z, Body
    <3>5. QED BY <3>2, <3>3, <3>4
  <2>3. f \in [T -> Seq(Int)] /\ Body(f) = [i \in T |-> Body(f)[i]]
    BY <1>2, Zenon
  <2> HIDE DEF T, Body
  <2>4. QED BY <2>2, <2>3
<1>4. R = Body(R)
  BY <1>3
<1>5. Dechunked(s) = R[1]
  BY ZenonT(30) DEF Dechunked, SizeAt, DataAt, BytesAt, AfterAt, EolIn, HasEol
<1>6. ASSUME NEW r, r = Body(r) PROVE Reads(r, s)
  <2>1. ASSUME NEW i \in T
        PROVE  r[i] = IF Broken(s, i) THEN <<-1>>
                      ELSE IF SizeAt(s, i) = 0 THEN <<>> ELSE BytesAt(s, i) \o r[AfterAt(s, i)]
    <3>1. r[i] = Body(r)[i]
      BY <1>6
    <3>2. QED BY <3>1, Zenon DEF Broken
  <2>2. QED BY <2>1 DEF Reads
<1> HIDE DEF Body
<1>7. Reads(R, s) /\ Reads(f, s)
  <2> HIDE DEF R
  <2>1. QED BY <1>3, <1>4, <1>6
<1> HIDE DEF R
<1>8. f[1] = R[1]
  BY <1>7, ReadsOnce
<1>9. QED BY <1>5, <1>7, <1>8

(* What a server reads is a stream. *)
LEMMA DechunkedType == \A s \in Seq(Int) : Dechunked(s) \in Seq(Int)
<1> SUFFICES ASSUME NEW s \in Seq(Int) PROVE Dechunked(s) \in Seq(Int)
  OBVIOUS
<1>1. PICK f \in [1..(Len(s) + 1) -> Seq(Int)] : Reads(f, s) /\ Dechunked(s) = f[1]
  BY DechunkedIs
<1>2. 1 \in 1..(Len(s) + 1)
  OBVIOUS
<1>3. QED BY <1>1, <1>2

(* A chunk is read as its data, and what comes after it as if it were      *)
(* alone.                                                                  *)
LEMMA ChunkFirst ==
    ASSUME NEW b \in Seq(Int), NEW t \in Seq(Int)
    PROVE  LET w == Chunk(b) \o t
           IN  /\ w \in Seq(Int) /\ Chunk(b) \in Seq(Int)
               /\ ~Broken(w, 1) /\ SizeAt(w, 1) = Len(b) /\ BytesAt(w, 1) = b
               /\ AfterAt(w, 1) = Len(Chunk(b)) + 1
<1> DEFINE D == Digits(Len(b), Hex)
           n == Len(b)
           l == Len(D)
           x1 == D \o End
           x2 == x1 \o b
           x3 == x2 \o End
           w == x3 \o t
<1>0. Hex \in Nat /\ Hex > 1 /\ n \in Nat
  BY FileAssumption
<1>1. D \in Seq(DigitSet(Hex)) /\ D \in Seq(Int) /\ l \in Nat \ {0}
  <2>1. D \in Seq(DigitSet(Hex)) /\ Len(D) > 0
    BY <1>0, DigitsType
  <2> HIDE DEF D
  <2>2. DigitSet(Hex) \subseteq Int
    BY DEF DigitSet, Digit
  <2>3. QED BY <2>1, <2>2
<1>2. \A i \in 1..l : D[i] # CR
  <2> HIDE DEF D, l
  <2>1. \A i \in 1..Len(D) : D[i] \in DigitSet(Hex)
    BY <1>1
  <2>2. QED BY <2>1 DEF DigitSet, Digit, CR, l
<1>3. End \in Seq(Int) /\ Len(End) = 2 /\ End[1] = CR /\ End[2] = LF
  BY DEF End, CR, LF
<1> HIDE DEF D
<1>4. /\ x1 \in Seq(Int) /\ Len(x1) = l + 2
      /\ \A i \in 1..l : x1[i] = D[i]
      /\ x1[l + 1] = CR
  <2>0. /\ x1 \in Seq(Int) /\ Len(x1) = Len(D) + Len(End)
        /\ \A i \in 1..Len(D) : x1[i] = D[i]
        /\ \A i \in 1..Len(End) : x1[Len(D) + i] = End[i]
    BY <1>1, <1>3, Joined
  <2> HIDE DEF x1
  <2>1. /\ x1 \in Seq(Int) /\ Len(x1) = l + 2
        /\ \A i \in 1..l : x1[i] = D[i]
        /\ \A i \in 1..2 : x1[l + i] = End[i]
    BY <1>3, <2>0
  <2> HIDE DEF l
  <2>2. x1[l + 1] = End[1]
    BY <2>1
  <2>3. QED BY <1>3, <2>1, <2>2
<1> HIDE DEF x1
<1>5. /\ x2 \in Seq(Int) /\ Len(x2) = l + 2 + n
      /\ \A i \in 1..(l + 2) : x2[i] = x1[i]
      /\ \A i \in 1..n : x2[l + 2 + i] = b[i]
  <2>1. /\ x2 \in Seq(Int) /\ Len(x2) = Len(x1) + Len(b)
        /\ \A i \in 1..Len(x1) : x2[i] = x1[i]
        /\ \A i \in 1..Len(b) : x2[Len(x1) + i] = b[i]
    BY <1>4, Joined
  <2> HIDE DEF x2, l
  <2>2. QED BY <1>4, <2>1
<1> HIDE DEF x2
<1>6. /\ x3 \in Seq(Int) /\ Len(x3) = l + 2 + n + 2
      /\ \A i \in 1..(l + 2 + n) : x3[i] = x2[i]
      /\ \A i \in 1..2 : x3[l + 2 + n + i] = End[i]
  <2>1. /\ x3 \in Seq(Int) /\ Len(x3) = Len(x2) + Len(End)
        /\ \A i \in 1..Len(x2) : x3[i] = x2[i]
        /\ \A i \in 1..Len(End) : x3[Len(x2) + i] = End[i]
    BY <1>3, <1>5, Joined
  <2> HIDE DEF x3, l, n
  <2>2. QED BY <1>3, <1>5, <2>1
<1> HIDE DEF x3
<1>7. /\ w \in Seq(Int) /\ Len(w) = l + n + 4 + Len(t) /\ Len(t) \in Nat
      /\ \A i \in 1..(l + n + 4) : w[i] = x3[i]
  <2>1. /\ w \in Seq(Int) /\ Len(w) = Len(x3) + Len(t) /\ Len(t) \in Nat
        /\ \A i \in 1..Len(x3) : w[i] = x3[i]
    BY <1>6, Joined
  <2> HIDE DEF w
  <2>2. Len(x3) = l + n + 4
    BY <1>0, <1>1, <1>6
  <2>3. QED BY <2>1, <2>2
<1>8. Chunk(b) = x3
  BY DEF Chunk, x3, x2, x1, D
<1> HIDE DEF w, l, n
<1>9. /\ \A i \in 1..l : w[i] = D[i]
      /\ w[l + 1] = CR
      /\ \A i \in 1..n : w[l + 2 + i] = b[i]
      /\ \A i \in 1..2 : w[l + 2 + n + i] = End[i]
  <2>1. \A i \in 1..(l + 2) : i \in 1..(l + n + 4) /\ i \in 1..(l + 2 + n)
    BY <1>0, <1>1
  <2>2. \A i \in 1..(l + 2) : w[i] = x1[i]
    BY <1>5, <1>6, <1>7, <2>1
  <2>3. \A i \in 1..n : l + 2 + i \in 1..(l + n + 4) /\ l + 2 + i \in 1..(l + 2 + n)
    BY <1>0, <1>1
  <2>4. \A i \in 1..2 : l + 2 + n + i \in 1..(l + n + 4)
    BY <1>0, <1>1
  <2>5. \A i \in 1..n : w[l + 2 + i] = b[i]
    BY <1>5, <1>6, <1>7, <2>3
  <2>6. \A i \in 1..2 : w[l + 2 + n + i] = End[i]
    BY <1>6, <1>7, <2>4
  <2>7. l + 1 \in 1..(l + 2) /\ \A i \in 1..l : i \in 1..(l + 2)
    BY <1>1
  <2>8. QED BY <1>4, <2>2, <2>5, <2>6, <2>7
<1>10. HasEol(w, 1) /\ EolIn(w, 1) = l + 1
  <2>1. l + 1 \in 1..Len(w) /\ (l + 1) - 1 = l
    BY <1>0, <1>1, <1>7
  <2>2. \A j \in 1..((l + 1) - 1) : w[j] # CR
    BY <1>2, <1>9, <2>1
  <2> DEFINE e == l + 1
  <2>3. e \in 1..Len(w) /\ w[e] = CR /\ (\A j \in 1..(e - 1) : w[j] # CR) /\ 1 \in Nat \ {0}
    BY <1>9, <2>1, <2>2
  <2> HIDE DEF e
  <2>4. HasEol(w, 1) /\ EolIn(w, 1) = e
    BY <1>7, <2>3, EolIs
  <2>5. QED BY <2>4 DEF e
<1>11. SizeAt(w, 1) = n
  <2>1. 1 + Len(D) - 1 = l /\ l <= Len(w) /\ (l + 1) - 1 = l
    BY <1>0, <1>1, <1>7 DEF l
  <2>2. \A i \in 1..Len(D) : w[1 + i - 1] = D[i]
    BY <1>1, <1>9 DEF l
  <2>3. SubSeq(w, 1, 1 + Len(D) - 1) = D
    BY <1>1, <1>7, <2>1, <2>2, PartIs
  <2>4. SizeAt(w, 1) = Number(D, Hex)
    BY <1>10, <2>1, <2>3 DEF SizeAt
  <2>5. D \o <<>> = D
    BY <1>1, ConcatEmptySeq
  <2>6. Number(Digits(n, Hex) \o <<>>, Hex) = n
    <3>1. <<>> \in Seq(Int)
      OBVIOUS
    <3>2. QED BY <1>0, <3>1, NumberOfDigits
  <2>7. QED BY <2>4, <2>5, <2>6 DEF D, n
<1>12. DataAt(w, 1) = l + 3
  BY <1>1, <1>10 DEF DataAt
<1>13. BytesAt(w, 1) = b
  <2>1. (l + 3) + Len(b) - 1 <= Len(w) /\ l + 3 \in Nat \ {0}
    BY <1>0, <1>1, <1>7 DEF n
  <2>2. \A i \in 1..Len(b) : w[(l + 3) + i - 1] = b[i]
    <3>1. \A i \in 1..n : (l + 3) + i - 1 = l + 2 + i
      BY <1>0, <1>1
    <3>2. QED BY <1>9, <3>1 DEF n
  <2>3. SubSeq(w, l + 3, (l + 3) + Len(b) - 1) = b
    BY <1>7, <2>1, <2>2, PartIs
  <2>4. QED BY <1>11, <1>12, <2>3 DEF BytesAt, n
<1>14. ~Broken(w, 1)
  <2> DEFINE a == (l + 3) + n
  <2>1. a \in Nat \ {0} /\ a + Len(End) - 1 = a + 1 /\ a + 1 <= Len(w) /\ ~(1 > Len(w))
    BY <1>0, <1>1, <1>3, <1>7
  <2>2. \A i \in 1..Len(End) : w[a + i - 1] = End[i]
    <3>1. \A i \in 1..2 : a + i - 1 = l + 2 + n + i
      BY <1>0, <1>1
    <3>2. QED BY <1>3, <1>9, <3>1
  <2> HIDE DEF a
  <2>3. SubSeq(w, a, a + Len(End) - 1) = End
    BY <1>3, <1>7, <2>1, <2>2, PartIs
  <2>4. DataAt(w, 1) + SizeAt(w, 1) = a /\ ~(a + 1 > Len(w))
    BY <1>11, <1>12, <2>1, <1>7 DEF a
  <2>5. QED BY <1>10, <2>1, <2>3, <2>4 DEF Broken
<1>15. AfterAt(w, 1) = Len(x3) + 1
  BY <1>0, <1>1, <1>6, <1>11, <1>12 DEF AfterAt
<1>16. QED BY <1>6, <1>7, <1>8, <1>11, <1>13, <1>14, <1>15 DEF w, n

(* The chunk is read as its data, and then what comes after it. *)
LEMMA ChunkThenRest ==
    ASSUME NEW b \in Seq(Int), b # <<>>, NEW t \in Seq(Int)
    PROVE  Dechunked(Chunk(b) \o t) = b \o Dechunked(t)
<1> DEFINE u == Chunk(b)
           w == u \o t
<1>1. /\ w \in Seq(Int) /\ u \in Seq(Int)
      /\ ~Broken(w, 1) /\ SizeAt(w, 1) = Len(b) /\ BytesAt(w, 1) = b /\ AfterAt(w, 1) = Len(u) + 1
  BY ChunkFirst
<1>2. Len(b) # 0
  OBVIOUS
<1> HIDE DEF u
<1>3. PICK f \in [1..(Len(w) + 1) -> Seq(Int)] : Reads(f, w) /\ Dechunked(w) = f[1]
  <2> HIDE DEF w
  <2>1. QED BY <1>1, DechunkedIs
<1>4. PICK g \in [1..(Len(t) + 1) -> Seq(Int)] : Reads(g, t) /\ Dechunked(t) = g[1]
  BY DechunkedIs
<1>5. f[1] = b \o f[Len(u) + 1]
  <2>1. 1 \in 1..(Len(w) + 1)
    BY <1>1
  <2>2. f[1] = IF Broken(w, 1) THEN <<-1>> ELSE IF SizeAt(w, 1) = 0 THEN <<>> ELSE BytesAt(w, 1) \o f[AfterAt(w, 1)]
    BY <1>3, <2>1 DEF Reads
  <2>3. QED BY <1>1, <1>2, <2>2
<1>6. f[Len(u) + 1] = g[1]
  <2>1. ReadsBehind(f, u, t, g)
    BY <1>1, <1>3, <1>4 DEF ReadsBehind
  <2>2. \A i \in 1..(Len(t) + 1) : f[Len(u) + i] = g[i]
    BY <2>1, ReadsAlike
  <2>3. 1 \in 1..(Len(t) + 1)
    OBVIOUS
  <2>4. QED BY <2>2, <2>3
<1>7. QED BY <1>3, <1>4, <1>5, <1>6 DEF u

(* The last chunk is read as the end of the file. *)
LEMMA LastChunkRead == Dechunked(LastChunk) = <<>>
<1> DEFINE b == <<>>
           w == Chunk(b) \o b
<1>1. b \in Seq(Int) /\ Len(b) = 0
  OBVIOUS
<1>2. w = LastChunk
  <2>1. Digits(0, Hex) = <<Digit(0)>>
    BY DigitsIs, FileAssumption
  <2> DEFINE x == <<Digit(0)>> \o End
  <2>2. w = x \o <<>> \o End \o <<>>
    BY <2>1 DEF Chunk
  <2>3. x \in Seq(Int) /\ End \in Seq(Int)
    BY DEF End, CR, LF, Digit
  <2>4. LastChunk = x \o End
    BY DEF LastChunk
  <2> HIDE DEF x
  <2>5. x \o <<>> = x /\ x \o End \in Seq(Int)
    BY <2>3, ConcatEmptySeq
  <2>6. (x \o End) \o <<>> = x \o End
    BY <2>5, ConcatEmptySeq
  <2>7. QED BY <2>2, <2>4, <2>5, <2>6
<1> HIDE DEF b
<1>3. w \in Seq(Int) /\ ~Broken(w, 1) /\ SizeAt(w, 1) = Len(b)
  BY <1>1, ChunkFirst
<1> HIDE DEF w
<1>4. PICK f \in [1..(Len(w) + 1) -> Seq(Int)] : Reads(f, w) /\ Dechunked(w) = f[1]
  BY <1>3, DechunkedIs
<1>5. 1 \in 1..(Len(w) + 1)
  BY <1>3
<1>6. f[1] = <<>>
  BY <1>1, <1>3, <1>4, <1>5 DEF Reads
<1>7. QED BY <1>2, <1>4, <1>6

-----------------------------------------------------------------------------
(* Uploads. *)

(* Whatever comes after it, what was sent is read as the part of the file  *)
(* that was read.                                                          *)
Carries == \A t \in Seq(Int) : Dechunked(sent \o t) = SubSeq(body, 1, pos) \o Dechunked(t)

(* The bytes of an upload are in chunks up to pos, and after the last chunk*)
(* they are all that the server reads.                                     *)
UploadInv ==
    /\ body \in Seq(Int) /\ sent \in Seq(Int) /\ pos \in 0..Len(body)
    /\ at \in {"call", "connect"} => pos = 0 /\ sent = <<>>
    /\ at # "idle" => job \in {"up", "down"}
    /\ at = "chunk" => job = "up" /\ Carries
    /\ at \in {"size", "data", "chunk data"} => job = "down"
    /\ at = "header" /\ job = "up" /\ ~cut => Dechunked(sent) = body
    /\ UploadWhole

(* The next chunk is read after those before it. *)
LEMMA ChunkCarried ==
    ASSUME body \in Seq(Int), sent \in Seq(Int), pos \in 0..Len(body), Carries,
           NEW k \in 1..Block, pos + k <= Len(body), UploadChunk(k), UNCHANGED body
    PROVE  sent' \in Seq(Int) /\ pos' \in 0..Len(body) /\ Carries'
<1>0. k \in Nat \ {0}
  BY FileAssumption
<1> DEFINE b == SubSeq(body, pos + 1, pos + k)
           D == Digits(Len(b), Hex)
           u == Chunk(b)
<1>1. b \in Seq(Int) /\ Len(b) = k
  <2>1. pos + 1 \in Nat \ {0} /\ pos + k \in Int /\ pos + 1 <= pos + k /\ (pos + k) - (pos + 1) + 1 = k
    BY <1>0
  <2>2. b \in Seq(Int) /\ Len(b) = IF pos + 1 <= pos + k THEN (pos + k) - (pos + 1) + 1 ELSE 0
    BY <2>1, PartElements
  <2>3. QED BY <2>1, <2>2
<1>2. D \in Seq(Int) /\ End \in Seq(Int) /\ u \in Seq(Int)
  <2>1. Hex \in Nat /\ Hex > 1 /\ Len(b) \in Nat
    BY <1>1, FileAssumption
  <2>2. D \in Seq(DigitSet(Hex)) /\ DigitSet(Hex) \subseteq Int
    <3>1. D \in Seq(DigitSet(Hex))
      BY <2>1, DigitsType
    <3>2. DigitSet(Hex) \subseteq Int
      BY <2>1 DEF DigitSet, Digit
    <3>3. QED BY <3>1, <3>2
  <2>3. D \in Seq(Int)
    BY <2>2
  <2>4. <<>> \in Seq(Int)
    OBVIOUS
  <2>5. u \in Seq(Int)
    BY <1>1, <2>4, ChunkFirst
  <2>6. QED BY <2>3, <2>5 DEF End, CR, LF
<1>3. sent' = sent \o u /\ pos' = pos + k
  <2>1. sent' = ((((sent \o D) \o End) \o b) \o End) /\ u = (((D \o End) \o b) \o End)
    BY <1>1 DEF UploadChunk, Chunk
  <2> HIDE DEF b, D, u
  <2> DEFINE x == D \o End
             y == x \o b
  <2>2. x \in Seq(Int) /\ (sent \o D) \o End = sent \o x
    BY <1>2, JoinedThree, JoinedType, ZenonT(30)
  <2> HIDE DEF x
  <2>3. y \in Seq(Int) /\ (sent \o x) \o b = sent \o y
    BY <1>1, <2>2, JoinedThree, JoinedType, ZenonT(30)
  <2> HIDE DEF y
  <2>4. (sent \o y) \o End = sent \o (y \o End)
    BY <1>2, <2>3, JoinedThree, ZenonT(30)
  <2>5. QED BY <2>1, <2>2, <2>3, <2>4 DEF UploadChunk, x, y
<1> HIDE DEF u
<1>4. sent' \in Seq(Int)
  BY <1>2, <1>3, Joined
<1>5. pos' \in 0..Len(body)
  BY <1>0, <1>3
<1>6. SubSeq(body, 1, pos) \in Seq(Int) /\ SubSeq(body, 1, pos) \o b = SubSeq(body, 1, pos + k)
  <2>1. 1 \in 1..(Len(body) + 1) /\ pos \in (1 - 1)..Len(body) /\ pos + k \in pos..Len(body) /\ 1 \in Nat \ {0}
        /\ pos \in Int /\ pos <= Len(body)
    BY <1>0
  <2>2. SubSeq(body, 1, pos) \in Seq(Int)
    BY <2>1, PartElements
  <2>3. QED BY <2>1, <2>2, ConcatAdjacentSubSeq
<1> HIDE DEF b
<1>7. ASSUME NEW t \in Seq(Int) PROVE Dechunked(sent' \o t) = SubSeq(body, 1, pos') \o Dechunked(t)
  <2>1. (sent \o u) \o t = sent \o (u \o t) /\ u \o t \in Seq(Int)
    <3>1. u \o t \in Seq(Int)
      BY <1>2, Joined
    <3>2. (sent \o u) \o t = sent \o (u \o t)
      BY <1>2, JoinedThree, ZenonT(30)
    <3>3. QED BY <3>1, <3>2
  <2>2. Dechunked(sent \o (u \o t)) = SubSeq(body, 1, pos) \o Dechunked(u \o t)
    BY <2>1 DEF Carries
  <2>3. Dechunked(u \o t) = b \o Dechunked(t)
    <3>1. b # <<>>
      BY <1>1
    <3>2. QED BY <1>1, <3>1, ChunkThenRest DEF u
  <2>4. Dechunked(t) \in Seq(Int)
    BY DechunkedType
  <2>5. (SubSeq(body, 1, pos) \o b) \o Dechunked(t) = SubSeq(body, 1, pos) \o (b \o Dechunked(t))
    BY <1>1, <1>6, <2>4, JoinedThree, ZenonT(30)
  <2>6. QED BY <1>3, <1>6, <2>1, <2>2, <2>3, <2>5
<1>8. QED BY <1>4, <1>5, <1>7 DEF Carries

(* With the last chunk the server has the whole file, unless a read of it  *)
(* failed.                                                                 *)
LEMMA LastCarried ==
    ASSUME body \in Seq(Int), sent \in Seq(Int), pos \in 0..Len(body), Carries, UploadLast
    PROVE  sent' \in Seq(Int) /\ (~cut' => Dechunked(sent') = body)
<1>1. LastChunk \in Seq(Int)
  <2>1. Digit(0) \in Int
    BY DEF Digit
  <2>2. <<Digit(0)>> \in Seq(Int) /\ End \in Seq(Int)
    BY <2>1, OneElement DEF End, CR, LF
  <2>3. <<Digit(0)>> \o End \in Seq(Int)
    BY <2>2, Joined
  <2>4. QED BY <2>2, <2>3, Joined DEF LastChunk
<1>2. sent' = sent \o LastChunk /\ (~cut' <=> ~(pos < Len(body)))
  BY DEF UploadLast
<1>3. sent' \in Seq(Int)
  BY <1>1, <1>2, Joined
<1>4. ASSUME ~cut' PROVE Dechunked(sent') = body
  <2>1. pos = Len(body)
    BY <1>2, <1>4
  <2>2. SubSeq(body, 1, Len(body)) = body
    BY Whole
  <2>3. Dechunked(sent') = body \o Dechunked(LastChunk)
    BY <1>1, <1>2, <2>1, <2>2 DEF Carries
  <2>4. QED BY <2>3, LastChunkRead, Whole
<1>5. QED BY <1>3, <1>4

(* Every step keeps what was sent readable. *)
LEMMA UploadStep == UploadInv /\ [Next]_vars => UploadInv'
<1> SUFFICES ASSUME UploadInv, [Next]_vars PROVE UploadInv'
  OBVIOUS
<1> USE DEF UploadInv, UploadWhole
<1>1. CASE CallWrapper \/ WrapperDone \/ WrapperStep \/ UNCHANGED vars
  BY <1>1 DEF CallWrapper, WrapperDone, WrapperStep, fileVars, vars, Carries
<1>2. ASSUME NEW j \in {"up", "down"}, NEW w, NEW f, Begin(j, w, f) PROVE UploadInv'
  BY <1>2, FileAssumption DEF Begin
<1>3. CASE Called
  BY <1>3 DEF Called, Finish, UploadEnds, DownloadEnds, Ends, Keep, httpVars
<1>4. CASE NoLocalFile
  BY <1>4 DEF NoLocalFile, Keep, httpVars
<1>5. CASE Connect
  <2>1. CASE Finish("error")
    BY <1>5, <2>1 DEF Connect, Finish, UploadEnds, DownloadEnds, Ends, Keep, httpVars
  <2>2. CASE at' = IF job = "up" THEN "chunk" ELSE "header"
    <3>1. Carries
      <4>1. pos = 0 /\ sent = <<>>
        BY <1>5 DEF Connect
      <4>2. SubSeq(body, 1, 0) = <<>>
        BY Whole
      <4>3. \A t \in Seq(Int) : Dechunked(t) \in Seq(Int)
        BY DechunkedType
      <4>4. QED BY <4>1, <4>2, <4>3, Whole DEF Carries
    <3>2. UNCHANGED <<body, sent, pos, job, cut>>
      BY <1>5 DEF Connect, Keep, httpVars
    <3>3. Carries'
      BY <3>1, <3>2 DEF Carries
    <3>4. QED BY <1>5, <2>2, <3>2, <3>3 DEF Connect
  <2>3. QED BY <1>5, <2>1, <2>2 DEF Connect
<1>6. CASE UploadBlock
  <2>1. PICK k \in 1..Block : pos + k <= Len(body) /\ UploadChunk(k)
    BY <1>6 DEF UploadBlock
  <2>2. sent' \in Seq(Int) /\ pos' \in 0..Len(body) /\ Carries'
    BY <1>6, <2>1, ChunkCarried DEF UploadBlock
  <2>3. QED BY <1>6, <2>2 DEF UploadBlock
<1>7. CASE UploadLast
  <2>1. sent' \in Seq(Int) /\ (~cut' => Dechunked(sent') = body)
    BY <1>7, LastCarried DEF UploadLast
  <2>2. QED BY <1>7, <2>1 DEF UploadLast
<1>8. CASE UploadFails
  BY <1>8 DEF UploadFails, UploadEnds, Ends, Keep, httpVars
<1>9. ASSUME NEW p \in {"header", "size"}, NEW n, ReceiveByte(p, n) PROVE UploadInv'
  BY <1>9 DEF ReceiveByte, Keep, httpVars
<1>10. CASE at = "header" /\ (\E f \in BOOLEAN : HeaderRead(f)) /\ (UNCHANGED cut \/ cut' = TRUE) /\ Keep /\ UNCHANGED <<pos, stream, file>>
  <2>1. UNCHANGED <<body, sent, pos, job>>
    BY <1>10 DEF Keep, httpVars
  <2>2. PICK f \in BOOLEAN : HeaderRead(f)
    BY <1>10
  <2> DEFINE d == Decoded(f)
  <2> HIDE DEF d
  <2>3. \/ job = "up" /\ at' = "done"
        \/ job # "up" /\ at' \in {"done", "size", "data"}
    BY <2>2 DEF HeaderRead, UploadEnds, DownloadEnds, Ends, d
  <2>4. CASE job = "up"
    BY <1>10, <2>1, <2>3, <2>4
  <2>5. CASE job # "up"
    BY <1>10, <2>1, <2>3, <2>5
  <2>6. QED BY <2>4, <2>5
<1>11. CASE ChunkSize
  BY <1>9, <1>11 DEF ChunkSize, DownloadEnds, Ends, Keep, httpVars
<1>12. CASE Reader
  BY <1>12 DEF Reader, httpVars
<1>13. CASE ReaderEnds \/ ReaderFails \/ WriteFails
  BY <1>13 DEF ReaderEnds, ReaderFails, WriteFails, DownloadEnds, Ends, Keep, httpVars
<1>14. CASE Return
  BY <1>14 DEF Return
<1>15. HttpHeader => UploadInv'
  BY <1>9, <1>10 DEF HttpHeader
<1>16. QED
  BY <1>1, <1>2, <1>3, <1>4, <1>5, <1>6, <1>7, <1>8, <1>11, <1>12, <1>13, <1>14, <1>15 DEF Next, Upload, Download

(* The chunks of tr50_helper_file_upload give the server the file back,    *)
(* however fread divides it: no upload that returns 0 has lost, repeated   *)
(* or added a byte, unless a read of the file failed.                      *)
THEOREM UploadWholeCorrect == Spec => []UploadWhole
<1>1. Init => UploadInv
  BY DEF Init, UploadInv, UploadWhole
<1>2. UploadInv => UploadWhole
  BY DEF UploadInv
<1>3. QED BY <1>1, <1>2, UploadStep, PTL DEF Spec

-----------------------------------------------------------------------------
(* Responses. *)

(* Two streams that are one after the other, and the same two otherwise    *)
(* divided.                                                                *)
LEMMA Divided ==
    ASSUME NEW a \in Seq(Int), NEW b \in Seq(Int), NEW c \in Seq(Int), NEW d \in Seq(Int), a \o b = c \o d
    PROVE  /\ Len(a) \in Nat /\ Len(b) \in Nat /\ Len(c) \in Nat /\ Len(d) \in Nat
           /\ Len(a) + Len(b) = Len(c) + Len(d)
           /\ \A i \in 1..Len(a) : i <= Len(c) => a[i] = c[i]
           /\ Len(a) = Len(c) => a = c /\ b = d
<1> DEFINE w == a \o b
           v == c \o d
<1>1. /\ Len(w) = Len(a) + Len(b) /\ Len(a) \in Nat /\ Len(b) \in Nat
      /\ \A i \in 1..Len(a) : w[i] = a[i]
      /\ \A i \in 1..Len(b) : w[Len(a) + i] = b[i]
  BY Joined
<1>2. /\ Len(v) = Len(c) + Len(d) /\ Len(c) \in Nat /\ Len(d) \in Nat
      /\ \A i \in 1..Len(c) : v[i] = c[i]
      /\ \A i \in 1..Len(d) : v[Len(c) + i] = d[i]
  BY Joined
<1>3. w = v
  OBVIOUS
<1> HIDE DEF w, v
<1>4. Len(a) + Len(b) = Len(c) + Len(d)
  BY <1>1, <1>2, <1>3
<1>5. ASSUME NEW i \in 1..Len(a), i <= Len(c) PROVE a[i] = c[i]
  <2>1. i \in 1..Len(c)
    BY <1>2, <1>5
  <2>2. QED BY <1>1, <1>2, <1>3, <2>1
<1>6. ASSUME Len(a) = Len(c) PROVE a = c /\ b = d
  <2>1. \A i \in 1..Len(a) : i <= Len(c)
    BY <1>1, <1>6
  <2>2. \A i \in 1..Len(a) : a[i] = c[i]
    BY <1>5, <2>1
  <2>3. a = c
    BY <1>6, <2>2, SeqEqual
  <2>4. Len(b) = Len(d)
    BY <1>1, <1>2, <1>4, <1>6
  <2>5. \A i \in 1..Len(b) : b[i] = d[i]
    BY <1>1, <1>2, <1>3, <1>6, <2>4
  <2>6. b = d
    BY <2>4, <2>5, SeqEqual
  <2>7. QED BY <2>3, <2>6
<1>7. QED BY <1>1, <1>2, <1>4, <1>5, <1>6

(* The first k of the second go to the end of the first. *)
LEMMA Moved ==
    ASSUME NEW a \in Seq(Int), NEW b \in Seq(Int), NEW k \in 1..Len(b)
    PROVE  /\ a \o SubSeq(b, 1, k) \in Seq(Int) /\ From(b, k + 1) \in Seq(Int)
           /\ Len(a \o SubSeq(b, 1, k)) = Len(a) + k
           /\ (a \o SubSeq(b, 1, k)) \o From(b, k + 1) = a \o b
<1> DEFINE x == SubSeq(b, 1, k)
           y == SubSeq(b, k + 1, Len(b))
<1>1. /\ 1 \in Nat \ {0} /\ k \in Int /\ k <= Len(b) /\ 1 <= k /\ k - 1 + 1 = k
      /\ k + 1 \in Nat \ {0} /\ Len(b) \in Int /\ Len(b) <= Len(b)
  OBVIOUS
<1>2. x \in Seq(Int) /\ Len(x) = IF 1 <= k THEN k - 1 + 1 ELSE 0
  BY <1>1, PartElements
<1>3. y \in Seq(Int)
  BY <1>1, PartElements
<1>4. x \o y = b
  <2>1. 1 \in 1..(Len(b) + 1) /\ k \in (1 - 1)..Len(b) /\ Len(b) \in k..Len(b)
    BY <1>1
  <2>2. x \o y = SubSeq(b, 1, Len(b))
    BY <2>1, ConcatAdjacentSubSeq
  <2>3. QED BY <2>2, Whole
<1> HIDE DEF x, y
<1>5. a \o x \in Seq(Int) /\ Len(a \o x) = Len(a) + Len(x)
  BY <1>2, Joined
<1>6. (a \o x) \o y = a \o (x \o y)
  BY <1>2, <1>3, JoinedThree, ZenonT(30)
<1>7. Len(x) = k
  BY <1>1, <1>2
<1>8. QED BY <1>3, <1>4, <1>5, <1>6, <1>7 DEF x, y, From

(* The next element of the second goes to the end of the first. *)
LEMMA OneMoved ==
    ASSUME NEW a \in Seq(Int), NEW b \in Seq(Int), b # <<>>
    PROVE  /\ Append(a, Head(b)) \in Seq(Int) /\ Tail(b) \in Seq(Int)
           /\ Len(Append(a, Head(b))) = Len(a) + 1
           /\ Append(a, Head(b)) \o Tail(b) = a \o b
<1>1. Head(b) \in Int /\ Tail(b) \in Seq(Int) /\ Len(b) \in Nat \ {0}
  OBVIOUS
<1>2. Append(a, Head(b)) \in Seq(Int) /\ Len(Append(a, Head(b))) = Len(a) + 1
  BY <1>1
<1>3. Append(a, Head(b)) \o Tail(b) = a \o b
  <2> DEFINE x == Append(a, Head(b))
             y == Tail(b)
  <2>1. /\ x \in Seq(Int) /\ Len(x) = Len(a) + 1 /\ y \in Seq(Int) /\ Len(y) = Len(b) - 1
        /\ \A i \in 1..Len(a) : x[i] = a[i]
        /\ x[Len(a) + 1] = b[1]
        /\ \A i \in 1..Len(y) : y[i] = b[i + 1]
    BY <1>1, <1>2
  <2> HIDE DEF x, y
  <2>2. /\ x \o y \in Seq(Int) /\ Len(x \o y) = Len(x) + Len(y)
        /\ \A i \in 1..Len(x) : (x \o y)[i] = x[i]
        /\ \A i \in 1..Len(y) : (x \o y)[Len(x) + i] = y[i]
    BY <2>1, Joined
  <2>3. /\ a \o b \in Seq(Int) /\ Len(a \o b) = Len(a) + Len(b) /\ Len(a) \in Nat
        /\ \A i \in 1..Len(a) : (a \o b)[i] = a[i]
        /\ \A i \in 1..Len(b) : (a \o b)[Len(a) + i] = b[i]
    BY Joined
  <2>4. Len(x \o y) = Len(a \o b)
    BY <1>1, <2>1, <2>2, <2>3
  <2>5. ASSUME NEW i \in 1..Len(x \o y) PROVE (x \o y)[i] = (a \o b)[i]
    <3>1. CASE i <= Len(a)
      <4>1. i \in 1..Len(a) /\ i \in 1..Len(x)
        BY <2>1, <2>3, <3>1
      <4>2. QED BY <2>1, <2>2, <2>3, <4>1
    <3>2. CASE i = Len(a) + 1
      <4>1. i \in 1..Len(x) /\ 1 \in 1..Len(b)
        BY <1>1, <2>1, <2>3, <3>2
      <4>2. (x \o y)[i] = x[i] /\ (a \o b)[Len(a) + 1] = b[1]
        BY <2>2, <2>3, <4>1
      <4>3. QED BY <2>1, <3>2, <4>2
    <3>3. CASE i > Len(a) + 1
      <4> DEFINE e == i - (Len(a) + 1)
      <4>1. e \in 1..Len(y) /\ Len(x) + e = i /\ e + 1 \in 1..Len(b) /\ Len(a) + (e + 1) = i
        BY <1>1, <2>1, <2>2, <2>3, <3>3
      <4> HIDE DEF e
      <4>2. (x \o y)[Len(x) + e] = y[e]
        BY <2>2, <4>1
      <4>3. (a \o b)[Len(a) + (e + 1)] = b[e + 1]
        BY <2>3, <4>1
      <4>4. y[e] = b[e + 1]
        BY <2>1, <4>1
      <4>5. QED BY <4>1, <4>2, <4>3, <4>4
    <3>4. i <= Len(a) \/ i = Len(a) + 1 \/ i > Len(a) + 1
      BY <2>2, <2>3
    <3>5. QED BY <3>1, <3>2, <3>3, <3>4
  <2>6. x \o y = a \o b
    BY <2>2, <2>3, <2>4, <2>5, SeqEqual
  <2>7. QED BY <2>6 DEF x, y
<1>4. QED BY <1>1, <1>2, <1>3

(* How far a line or a header reaches: it is all characters of ends of     *)
(* lines only at its end.                                                  *)
EndsLine(h) ==
    /\ h \in Seq(Int) /\ Len(h) >= 2
    /\ \A i \in 1..(Len(h) - 2) : h[i] \notin {CR, LF}
    /\ h[Len(h) - 1] \in {CR, LF} /\ h[Len(h)] \in {CR, LF}

(* The same of a header, which ends with an empty line. *)
EndsHeader(h) ==
    /\ h \in Seq(Int) /\ Len(h) >= 5 /\ Len(h) \notin {6, 7}
    /\ \A i \in 1..(Len(h) - 4) : i \notin {2, 3} => h[i] \notin {CR, LF}
    /\ \A i \in 1..4 : h[Len(h) - 4 + i] \in {CR, LF}

(* The line that recv_line takes byte by byte is complete when h is, and   *)
(* not before.                                                             *)
LEMMA LineEnds ==
    ASSUME NEW a \in Seq(Int), NEW b \in Seq(Int), NEW h \in Seq(Int), NEW r \in Seq(Int),
           a \o b = h \o r, Len(a) <= Len(h), EndsLine(h)
    PROVE  Terminated(a, 2) <=> Len(a) = Len(h)
<1>1. Len(a) \in Nat /\ Len(h) \in Nat /\ \A i \in 1..Len(a) : i <= Len(h) => a[i] = h[i]
  BY Divided
<1>2. ASSUME Len(a) = Len(h) PROVE Terminated(a, 2)
  <2>1. \A i \in (Len(a) - 2 + 1)..Len(a) : i \in 1..Len(a) /\ i <= Len(h) /\ (i = Len(h) - 1 \/ i = Len(h))
    BY <1>1, <1>2 DEF EndsLine
  <2>2. \A i \in (Len(a) - 2 + 1)..Len(a) : a[i] \in {CR, LF}
    BY <1>1, <2>1 DEF EndsLine
  <2>3. Len(a) >= 2
    BY <1>2 DEF EndsLine
  <2>4. QED BY <2>2, <2>3 DEF Terminated
<1>3. ASSUME Len(a) # Len(h), Terminated(a, 2) PROVE FALSE
  <2> DEFINE j == Len(a) - 1
  <2>1. j \in (Len(a) - 2 + 1)..Len(a) /\ j \in 1..(Len(h) - 2) /\ j \in 1..Len(a) /\ j <= Len(h)
    BY <1>1, <1>3 DEF Terminated
  <2> HIDE DEF j
  <2>2. a[j] \in {CR, LF}
    BY <1>3, <2>1 DEF Terminated
  <2>3. a[j] = h[j] /\ h[j] \notin {CR, LF}
    BY <1>1, <2>1 DEF EndsLine
  <2>4. QED BY <2>2, <2>3
<1>4. QED BY <1>2, <1>3

(* The same of a header. *)
LEMMA HeaderEnds ==
    ASSUME NEW a \in Seq(Int), NEW b \in Seq(Int), NEW h \in Seq(Int), NEW r \in Seq(Int),
           a \o b = h \o r, Len(a) <= Len(h), EndsHeader(h)
    PROVE  Terminated(a, 4) <=> Len(a) = Len(h)
<1>1. Len(a) \in Nat /\ Len(h) \in Nat /\ \A i \in 1..Len(a) : i <= Len(h) => a[i] = h[i]
  BY Divided
<1>0. Len(a) \in Nat /\ Len(h) \in Nat
  BY <1>1
<1>2. ASSUME Len(a) = Len(h) PROVE Terminated(a, 4)
  <2>1. Len(h) >= 5
    BY DEF EndsHeader
  <2>2. ASSUME NEW i \in (Len(a) - 4 + 1)..Len(a) PROVE a[i] \in {CR, LF}
    <3> DEFINE e == i - (Len(h) - 4)
    <3>0. \A n \in Nat : n >= 5 => \A k \in (n - 4 + 1)..n :
            k - (n - 4) \in 1..4 /\ n - 4 + (k - (n - 4)) = k /\ k \in 1..n /\ k <= n
      OBVIOUS
    <3>1. e \in 1..4 /\ Len(h) - 4 + e = i /\ i \in 1..Len(a) /\ i <= Len(h)
      BY <1>0, <1>2, <2>1, <3>0
    <3> HIDE DEF e
    <3>2. h[Len(h) - 4 + e] \in {CR, LF}
      BY <3>1 DEF EndsHeader
    <3>3. QED BY <1>1, <3>1, <3>2
  <2>3. QED BY <1>2, <2>1, <2>2 DEF Terminated
<1>3. ASSUME Len(a) # Len(h), Terminated(a, 4) PROVE FALSE
  <2>1. Len(a) >= 4 /\ Len(a) < Len(h) /\ \A i \in (Len(a) - 4 + 1)..Len(a) : a[i] \in {CR, LF}
    BY <1>1, <1>3 DEF Terminated
  <2>2. Len(h) >= 5 /\ Len(h) # 6 /\ Len(h) # 7
    BY DEF EndsHeader
  <2>3. PICK i \in (Len(a) - 4 + 1)..Len(a) : i \in 1..(Len(h) - 4) /\ i \notin {2, 3}
    <3>1. CASE Len(a) <= Len(h) - 4
      <4>0. \A n, m \in Nat : n >= 4 /\ n <= m - 4 => n \in (n - 4 + 1)..n /\ n \in 1..(m - 4) /\ n \notin {2, 3}
        OBVIOUS
      <4>1. Len(a) \in (Len(a) - 4 + 1)..Len(a) /\ Len(a) \in 1..(Len(h) - 4) /\ Len(a) \notin {2, 3}
        BY <1>0, <2>1, <3>1, <4>0
      <4>2. QED BY <4>1
    <3>2. CASE Len(a) > Len(h) - 4
      <4>1. Len(h) - 4 \in (Len(a) - 4 + 1)..Len(a) /\ Len(h) - 4 \in 1..(Len(h) - 4) /\ Len(h) - 4 \notin {2, 3}
        BY <1>0, <2>1, <2>2, <3>2, SMTT(30)
      <4>2. QED BY <4>1
    <3>3. QED BY <1>0, <3>1, <3>2
  <2>4. a[i] \in {CR, LF}
    BY <2>1, <2>3
  <2>5. i \in 1..Len(a) /\ i <= Len(h)
    BY <1>1, <2>1, <2>3
  <2>6. a[i] = h[i] /\ h[i] \notin {CR, LF}
    BY <1>1, <2>3, <2>5 DEF EndsHeader
  <2>7. QED BY <2>4, <2>6
<1>4. QED BY <1>2, <1>3

(* A response is a header and what comes with it. *)
Empty == End \o End
(* The header up to the length, the length, and the data that come first. *)
Start(o) ==
    IF o = "refused" THEN <<NotOk>>
    ELSE IF o = "no length" THEN <<Ok>>
    ELSE <<Ok, CR, LF, IF o = "length" THEN ContentLength ELSE Chunked>>
Size(o, b) == IF o = "length" THEN Digits(Len(b), Dec) ELSE <<>>
HeaderOf(o, b) == Start(o) \o (Size(o, b) \o Empty)
FirstData(o, b) == IF o = "chunked" THEN b ELSE First(b, 2)

(* The numbers of a header are numbers, and so are its parts. *)
LEMMA StreamParts ==
    /\ End \in Seq(Int) /\ Len(End) = 2 /\ End[1] = CR /\ End[2] = LF
    /\ Empty \in Seq(Int) /\ Len(Empty) = 4 /\ \A i \in 1..4 : Empty[i] \in {CR, LF}
    /\ Empty[1] = CR
    /\ \A o \in Offers : /\ Start(o) \in Seq(Int) /\ Len(Start(o)) \in {1, 4}
                         /\ \A i \in 1..Len(Start(o)) : i \notin {2, 3} => Start(o)[i] \notin {CR, LF}
    /\ LastChunk \in Seq(Int)
<1>1. End \in Seq(Int) /\ Len(End) = 2 /\ End[1] = CR /\ End[2] = LF
  BY DEF End, CR, LF
<1>2. Empty \in Seq(Int) /\ Len(Empty) = 4 /\ (\A i \in 1..4 : Empty[i] \in {CR, LF}) /\ Empty[1] = CR
  BY DEF Empty, End, CR, LF
<1>3. ASSUME NEW o \in Offers
      PROVE  /\ Start(o) \in Seq(Int) /\ Len(Start(o)) \in {1, 4}
             /\ \A i \in 1..Len(Start(o)) : i \notin {2, 3} => Start(o)[i] \notin {CR, LF}
  <2>1. CASE o = "refused"
    BY <2>1 DEF Start, CR, LF, NotOk
  <2>2. CASE o = "length"
    BY <2>2 DEF Start, CR, LF, Ok, ContentLength
  <2>3. CASE o = "no length"
    <3>0. Start(o) = <<Ok>>
      BY <2>3 DEF Start
    <3>1. Start(o) = <<Ok>> /\ Ok \in Int /\ Ok \notin {CR, LF}
      BY <3>0 DEF CR, LF, Ok
    <3>2. Start(o) \in Seq(Int) /\ Len(Start(o)) = 1 /\ Start(o)[1] = Ok
      BY <3>1, OneElement
    <3>3. QED BY <3>1, <3>2
  <2>4. CASE o \in {"chunked", "two chunks"}
    <3>1. Start(o) = <<Ok, CR, LF, Chunked>>
      BY <2>4 DEF Start
    <3>2. QED BY <3>1 DEF CR, LF, Ok, Chunked
  <2>5. QED BY <2>1, <2>2, <2>3, <2>4 DEF Offers
<1>4. LastChunk \in Seq(Int)
  BY DEF LastChunk, End, Digit, CR, LF
<1>5. QED BY <1>1, <1>2, <1>3, <1>4

(* A field is found where its number is. *)
LEMMA OneField ==
    ASSUME NEW x \in Int
    PROVE  (<<Ok>> \o End) \o <<x>> = <<Ok, CR, LF, x>>
<1> DEFINE a == <<Ok>> \o End
           c == <<x>>
           y == <<Ok, CR, LF, x>>
<1>1. a \in Seq(Int) /\ Len(a) = 3 /\ a[1] = Ok /\ a[2] = CR /\ a[3] = LF
  BY DEF Ok, End, CR, LF
<1>2. c \in Seq(Int) /\ Len(c) = 1 /\ c[1] = x
  BY OneElement
<1>3. y \in Seq(Int) /\ Len(y) = 4 /\ y[1] = Ok /\ y[2] = CR /\ y[3] = LF /\ y[4] = x
  BY DEF Ok, CR, LF
<1> HIDE DEF a, c, y
<1>4. /\ a \o c \in Seq(Int) /\ Len(a \o c) = 4
      /\ \A i \in 1..3 : (a \o c)[i] = a[i]
      /\ (a \o c)[4] = x
  <2>1. /\ a \o c \in Seq(Int) /\ Len(a \o c) = Len(a) + Len(c)
        /\ \A i \in 1..Len(a) : (a \o c)[i] = a[i]
        /\ \A i \in 1..Len(c) : (a \o c)[Len(a) + i] = c[i]
    BY <1>1, <1>2, Joined
  <2>2. (a \o c)[3 + 1] = c[1]
    BY <1>1, <1>2, <2>1
  <2>3. QED BY <1>1, <1>2, <2>1, <2>2, SMTT(30)
<1>5. \A i \in 1..4 : (a \o c)[i] = y[i]
  <2>1. \A i \in 1..4 : i = 1 \/ i = 2 \/ i = 3 \/ i = 4
    OBVIOUS
  <2>2. QED BY <1>1, <1>3, <1>4, <2>1, SMTT(30)
<1>6. a \o c = y
  BY <1>3, <1>4, <1>5, SeqEqual
<1>7. QED BY <1>6 DEF a, c, y

(* The end of the last line and the empty one are one end of the header. *)
LEMMA TwoEnds == \A s \in Seq(Int) : (s \o End) \o End = s \o Empty
<1> SUFFICES ASSUME NEW s \in Seq(Int) PROVE (s \o End) \o End = s \o (End \o End)
  BY DEF Empty
<1>1. End \in Seq(Int)
  BY StreamParts
<1>2. QED BY <1>1, JoinedThree, ZenonT(30)

(* The header with a field x, a value d and the end of its line. *)
LEMMA HeaderWith ==
    ASSUME NEW x \in Int, NEW d \in Seq(Int)
    PROVE  /\ Header((<<x>> \o d) \o End) = <<Ok, CR, LF, x>> \o (d \o Empty)
           /\ Header(<<x>> \o End) = <<Ok, CR, LF, x>> \o Empty
<1> DEFINE a == <<Ok>> \o End
           c == <<x>>
<1>0. a \in Seq(Int) /\ c \in Seq(Int) /\ End \in Seq(Int) /\ Empty \in Seq(Int)
  <2>1. a \in Seq(Int)
    BY DEF Ok, End, CR, LF
  <2>2. QED BY <2>1, StreamParts, OneElement
<1>1. a \o c = <<Ok, CR, LF, x>>
  BY OneField
<1>2. /\ Header((c \o d) \o End) = (a \o ((c \o d) \o End)) \o End
      /\ Header(c \o End) = (a \o (c \o End)) \o End
      /\ Empty = End \o End
  BY DEF Header, Empty
<1> HIDE DEF a, c
<1>3. (a \o ((c \o d) \o End)) \o End = (a \o c) \o (d \o Empty)
  <2> DEFINE y == c \o d
             z == y \o End
             e == d \o Empty
  <2>1. y \in Seq(Int) /\ e \in Seq(Int)
    BY <1>0, Joined
  <2>2. y \o Empty = c \o e
    BY <1>0, JoinedThree, ZenonT(30)
  <2> HIDE DEF y, e
  <2>3. z \in Seq(Int)
    BY <1>0, <2>1, Joined
  <2>4. z \o End = y \o (End \o End)
    BY <1>2, <2>1, TwoEnds
  <2> HIDE DEF z
  <2>5. (a \o z) \o End = a \o (z \o End)
    BY <1>0, <2>3, JoinedThree, ZenonT(30)
  <2> DEFINE s == a \o c
             v == s \o e
             w == a \o (c \o e)
  <2>6. w = v
    <3>1. a \in Seq(Int) /\ c \in Seq(Int) /\ e \in Seq(Int)
      BY <1>0, <2>1
    <3>2. QED BY <3>1, JoinedThree, ZenonT(30)
  <2>7. (a \o z) \o End = (a \o c) \o e
    BY <1>2, <2>2, <2>4, <2>5, <2>6
  <2>8. QED BY <2>7 DEF y, z, e
<1>4. (a \o (c \o End)) \o End = (a \o c) \o Empty
  <2> DEFINE y == a \o c
  <2>1. a \o (c \o End) = y \o End
    BY <1>0, JoinedThree, ZenonT(30)
  <2>2. y \in Seq(Int)
    BY <1>0, Joined
  <2> HIDE DEF y
  <2>3. (y \o End) \o End = y \o (End \o End)
    BY <1>0, <2>2, JoinedThree, ZenonT(30)
  <2>4. (a \o (c \o End)) \o End = y \o Empty
    BY <1>2, <2>1, <2>3
  <2>5. QED BY <2>4 DEF y
<1>5. QED BY <1>1, <1>2, <1>3, <1>4 DEF c

(* What comes with a response. *)
Payload(o, b) ==
    IF o = "refused" THEN <<>>
    ELSE IF o \in {"length", "no length"} THEN b
    ELSE IF o = "chunked" THEN (IF b = <<>> THEN <<>> ELSE Chunk(b)) \o LastChunk
    ELSE (Chunk(First(b, 2)) \o (IF Len(b) > 2 THEN Chunk(From(b, 3)) ELSE <<>>)) \o LastChunk

(* The digits of a length are no ends of lines and no fields. *)
LEMMA SizeDigits ==
    ASSUME NEW o, NEW b \in Seq(Int)
    PROVE  Size(o, b) \in Seq(Int) /\ \A i \in 1..Len(Size(o, b)) : Size(o, b)[i] \in 48..63
<1>1. CASE o = "length"
  <2> DEFINE d == Digits(Len(b), Dec)
  <2>1. Dec \in Nat /\ Dec > 1 /\ Dec <= 16 /\ Len(b) \in Nat
    BY FileAssumption
  <2>2. d \in Seq(DigitSet(Dec))
    BY <2>1, DigitsType
  <2>3. Size(o, b) = d
    BY <1>1 DEF Size
  <2> HIDE DEF d
  <2>4. DigitSet(Dec) \subseteq 48..63
    BY <2>1 DEF DigitSet, Digit
  <2>5. \A i \in 1..Len(d) : d[i] \in 48..63
    BY <2>2, <2>4
  <2>6. d \in Seq(Int)
    <3>1. DigitSet(Dec) \subseteq Int
      BY <2>4
    <3>2. QED BY <2>2, <3>1
  <2>7. QED BY <2>3, <2>5, <2>6
<1>2. CASE o # "length"
  <2>1. Size(o, b) = <<>>
    BY <1>2 DEF Size
  <2>2. QED BY <2>1
<1>3. QED BY <1>1, <1>2

(* What there is in a header, and where it ends. *)
LEMMA HeaderElements ==
    ASSUME NEW o \in Offers, NEW b \in Seq(Int)
    PROVE  LET h == HeaderOf(o, b)
               x == Len(Start(o))
           IN  /\ h \in Seq(Int) /\ Len(h) = x + Len(Size(o, b)) + 4 /\ x <= Len(h)
               /\ \A i \in 1..x : h[i] = Start(o)[i]
               /\ \A i \in (x + 1)..(Len(h) - 4) : h[i] \in 48..63
               /\ \A i \in 1..4 : h[Len(h) - 4 + i] \in {CR, LF}
               /\ From(h, x + 1) = Size(o, b) \o Empty
<1> DEFINE s == Start(o)
           d == Size(o, b)
           q == d \o Empty
           h == s \o q
           x == Len(s)
           y == Len(d)
<1>1. /\ s \in Seq(Int) /\ d \in Seq(Int) /\ x \in Nat /\ y \in Nat /\ (\A i \in 1..y : d[i] \in 48..63)
      /\ Empty \in Seq(Int) /\ Len(Empty) = 4 /\ (\A i \in 1..4 : Empty[i] \in {CR, LF})
  <2>1. s \in Seq(Int) /\ d \in Seq(Int) /\ (\A i \in 1..y : d[i] \in 48..63)
    BY StreamParts, SizeDigits
  <2>2. x \in Nat /\ y \in Nat
    <3> HIDE DEF s, d
    <3>1. QED BY <2>1
  <2>3. QED BY <2>1, <2>2, StreamParts
<1> HIDE DEF s, d
<1>2. /\ q \in Seq(Int) /\ Len(q) = y + 4
      /\ \A i \in 1..y : q[i] = d[i]
      /\ \A i \in 1..4 : q[y + i] = Empty[i]
  <2>1. /\ q \in Seq(Int) /\ Len(q) = Len(d) + Len(Empty)
        /\ \A i \in 1..Len(d) : q[i] = d[i]
        /\ \A i \in 1..Len(Empty) : q[Len(d) + i] = Empty[i]
    BY <1>1, Joined
  <2> HIDE DEF q
  <2>2. QED BY <1>1, <2>1
<1> HIDE DEF q
<1>3. /\ h \in Seq(Int) /\ Len(h) = x + (y + 4)
      /\ \A i \in 1..x : h[i] = s[i]
      /\ \A i \in 1..(y + 4) : h[x + i] = q[i]
  <2>1. /\ h \in Seq(Int) /\ Len(h) = Len(s) + Len(q)
        /\ \A i \in 1..Len(s) : h[i] = s[i]
        /\ \A i \in 1..Len(q) : h[Len(s) + i] = q[i]
    BY <1>1, <1>2, Joined
  <2> HIDE DEF h
  <2>2. QED BY <1>2, <2>1
<1>4. From(h, x + 1) = q
  <2>1. /\ 1 \in Nat \ {0} /\ Len(q) \in Int /\ Len(q) <= Len(q)
    BY <1>1, <1>2
  <2>2. SubSeq(s \o q, Len(s) + 1, Len(s) + Len(q)) = SubSeq(q, 1, Len(q))
    BY <1>1, <1>2, <2>1, PartBehind
  <2>3. SubSeq(q, 1, Len(q)) = q
    BY <1>2, Whole
  <2>4. Len(h) = Len(s) + Len(q)
    BY <1>2, <1>3
  <2>5. QED BY <2>2, <2>3, <2>4 DEF From
<1> HIDE DEF h, x, y
<1>5. ASSUME NEW i \in (x + 1)..(Len(h) - 4) PROVE h[i] \in 48..63
  <2>0. x \in Nat /\ y \in Nat /\ Len(h) = x + (y + 4)
    BY <1>1, <1>3
  <2>1. i - x \in 1..y /\ i - x \in 1..(y + 4) /\ x + (i - x) = i
    BY <2>0
  <2>2. h[x + (i - x)] = q[i - x] /\ q[i - x] = d[i - x] /\ d[i - x] \in 48..63
    BY <1>1, <1>2, <1>3, <2>1
  <2>3. QED BY <2>1, <2>2
<1>6. ASSUME NEW i \in 1..4 PROVE h[Len(h) - 4 + i] \in {CR, LF}
  <2>0. x \in Nat /\ y \in Nat /\ Len(h) = x + (y + 4)
    BY <1>1, <1>3
  <2>1. y + i \in 1..(y + 4) /\ Len(h) - 4 + i = x + (y + i)
    BY <2>0
  <2>2. h[x + (y + i)] = q[y + i]
    BY <1>2, <1>3, <2>1
  <2>3. q[y + i] = Empty[i] /\ Empty[i] \in {CR, LF}
    BY <1>1, <1>2
  <2>4. QED BY <2>1, <2>2, <2>3
<1>7. Len(h) = x + y + 4 /\ x <= Len(h)
  BY <1>1, <1>3
<1>8. h = HeaderOf(o, b)
  BY DEF h, q, s, d, HeaderOf
<1>9. x = Len(Start(o)) /\ y = Len(Size(o, b)) /\ q = Size(o, b) \o Empty /\ s = Start(o)
  BY DEF x, y, q, s, d
<1>10. QED BY <1>3, <1>4, <1>5, <1>6, <1>7, <1>8, <1>9

(* A header ends where it ends. *)
LEMMA HeaderOfEnds == \A o \in Offers : \A b \in Seq(Int) : EndsHeader(HeaderOf(o, b))
<1> SUFFICES ASSUME NEW o \in Offers, NEW b \in Seq(Int) PROVE EndsHeader(HeaderOf(o, b))
  OBVIOUS
<1> DEFINE h == HeaderOf(o, b)
           x == Len(Start(o))
           y == Len(Size(o, b))
<1>1. /\ h \in Seq(Int) /\ Len(h) = x + y + 4
      /\ \A i \in 1..x : h[i] = Start(o)[i]
      /\ \A i \in (x + 1)..(Len(h) - 4) : h[i] \in 48..63
      /\ \A i \in 1..4 : h[Len(h) - 4 + i] \in {CR, LF}
  BY HeaderElements
<1>2. x \in {1, 4} /\ \A i \in 1..x : i \notin {2, 3} => Start(o)[i] \notin {CR, LF}
  BY StreamParts
<1>3. y \in Nat /\ (x = 1 => y = 0)
  <2>1. Size(o, b) \in Seq(Int)
    BY SizeDigits
  <2>2. y \in Nat
    BY <2>1
  <2>3. CASE o = "length"
    <3>1. Start(o) = <<Ok, CR, LF, ContentLength>>
      BY <2>3 DEF Start
    <3>2. x = 4
      BY <3>1
    <3>3. QED BY <2>2, <3>2
  <2>4. CASE o # "length"
    <3>1. Size(o, b) = <<>>
      BY <2>4 DEF Size
    <3>2. QED BY <3>1
  <2>5. QED BY <2>3, <2>4
<1> HIDE DEF h, x, y
<1>4. ASSUME NEW i \in 1..(Len(h) - 4), i \notin {2, 3} PROVE h[i] \notin {CR, LF}
  <2>1. CASE i <= x
    <3>1. i \in 1..x
      BY <1>2, <2>1
    <3>2. QED BY <1>1, <1>2, <1>4, <3>1
  <2>2. CASE i > x
    <3>1. i \in (x + 1)..(Len(h) - 4)
      BY <1>2, <2>2
    <3>2. h[i] \in 48..63
      BY <1>1, <3>1
    <3>3. QED BY <3>2, SMTT(30) DEF CR, LF
  <2>3. i <= x \/ i > x
    BY <1>2
  <2>4. QED BY <2>1, <2>2, <2>3
<1>5. Len(h) >= 5 /\ Len(h) # 6 /\ Len(h) # 7
  BY <1>1, <1>2, <1>3
<1>6. QED BY <1>1, <1>4, <1>5 DEF EndsHeader, h

(* Nothing is a stream. *)
LEMMA NoStream == <<>> \in Seq(Int)
OBVIOUS

(* A file begins with itself. *)
LEMMA PrefixOfItself == \A b \in Seq(Int) : Prefix(b, b)
<1> SUFFICES ASSUME NEW b \in Seq(Int) PROVE Prefix(b, b)
  OBVIOUS
<1>1. Len(b) <= Len(b)
  OBVIOUS
<1>2. QED BY <1>1, Whole DEF Prefix

(* The first part of a file is a beginning of it. *)
LEMMA Beginning ==
    ASSUME NEW b \in Seq(Int)
    PROVE  /\ First(b, 2) \in Seq(Int) /\ Prefix(First(b, 2), b)
           /\ From(b, 3) \in Seq(Int)
<1> DEFINE m == IF 2 < Len(b) THEN 2 ELSE Len(b)
           x == SubSeq(b, 1, m)
<1>1. m \in Nat /\ m <= Len(b) /\ Len(b) \in Nat /\ 1 \in Nat \ {0} /\ m \in Int
  OBVIOUS
<1>2. First(b, 2) = x
  BY DEF First
<1> HIDE DEF m
<1>3. x \in Seq(Int) /\ Len(x) = IF 1 <= m THEN m - 1 + 1 ELSE 0
  BY <1>1, PartElements
<1> HIDE DEF x
<1>4. Len(x) = m
  BY <1>1, <1>3
<1>5. Prefix(x, b)
  BY <1>1, <1>4 DEF Prefix, x
<1>6. From(b, 3) \in Seq(Int)
  <2>1. 3 \in Nat \ {0} /\ Len(b) \in Int /\ Len(b) <= Len(b)
    BY <1>1
  <2>2. QED BY <2>1, PartElements DEF From
<1>7. QED BY <1>2, <1>3, <1>5, <1>6

(* What is left of a response in chunks ends with the last one. *)
LEMMA LastBehind ==
    ASSUME NEW a \in Seq(Int), NEW b \in Seq(Int)
    PROVE  (a \o b) \o LastChunk = a \o (b \o LastChunk) /\ b \o LastChunk \in Seq(Int)
<1>1. LastChunk \in Seq(Int)
  BY StreamParts
<1>2. (a \o b) \o LastChunk = a \o (b \o LastChunk)
  BY <1>1, JoinedThree, ZenonT(30)
<1>3. b \o LastChunk \in Seq(Int)
  BY <1>1, Joined
<1>4. QED BY <1>2, <1>3

(* A chunk is a stream. *)
LEMMA ChunkType == \A b \in Seq(Int) : Chunk(b) \in Seq(Int)
<1> SUFFICES ASSUME NEW b \in Seq(Int) PROVE Chunk(b) \in Seq(Int)
  OBVIOUS
<1>1. <<>> \in Seq(Int)
  OBVIOUS
<1>2. QED BY <1>1, ChunkFirst

(* A chunk of nothing is the last one. *)
LEMMA EmptyChunk == Chunk(<<>>) = LastChunk
<1>1. Digits(0, Hex) = <<Digit(0)>>
  BY DigitsIs, FileAssumption
<1> DEFINE x == <<Digit(0)>> \o End
<1>2. Chunk(<<>>) = (x \o <<>>) \o End
  <2>1. Len(<<>>) = 0
    OBVIOUS
  <2>2. Chunk(<<>>) = ((Digits(0, Hex) \o End) \o <<>>) \o End
    BY <2>1 DEF Chunk
  <2>3. QED BY <1>1, <2>2
<1>3. x \in Seq(Int)
  <2>1. Digit(0) \in Int
    BY DEF Digit
  <2>2. <<Digit(0)>> \in Seq(Int)
    BY <2>1, OneElement
  <2>3. QED BY <2>2, StreamParts, Joined
<1>4. LastChunk = x \o End
  BY DEF LastChunk
<1> HIDE DEF x
<1>5. x \o <<>> = x
  BY <1>3, Whole
<1>6. QED BY <1>2, <1>4, <1>5

(* What comes with a response in chunks begins with one. *)
LEMMA ChunkedPayload ==
    ASSUME NEW o \in {"chunked", "two chunks"}, NEW b \in Seq(Int)
    PROVE  /\ FirstData(o, b) \in Seq(Int) /\ Prefix(FirstData(o, b), b)
           /\ \E r \in Seq(Int) : Payload(o, b) = Chunk(FirstData(o, b)) \o r
<1>1. CASE o = "chunked"
  <2>1. FirstData(o, b) = b
    BY <1>1 DEF FirstData
  <2>2. Prefix(b, b)
    BY PrefixOfItself
  <2>3. Payload(o, b) = (IF b = <<>> THEN <<>> ELSE Chunk(b)) \o LastChunk
    BY <1>1 DEF Payload
  <2>4. CASE b = <<>>
    <3>1. <<>> \o LastChunk = LastChunk /\ LastChunk \o <<>> = LastChunk
      BY StreamParts, Whole
    <3>2. Payload(o, b) = Chunk(b) \o <<>>
      BY <2>3, <2>4, <3>1, EmptyChunk
    <3>3. QED BY <2>1, <2>2, <3>2, NoStream
  <2>5. CASE b # <<>>
    <3>1. Payload(o, b) = Chunk(b) \o LastChunk
      BY <2>3, <2>5
    <3>2. QED BY <2>1, <2>2, <3>1, StreamParts
  <2>6. QED BY <2>4, <2>5
<1>2. CASE o = "two chunks"
  <2> DEFINE f == First(b, 2)
             g == IF Len(b) > 2 THEN Chunk(From(b, 3)) ELSE <<>>
             c == Chunk(f)
  <2>1. FirstData(o, b) = f
    BY <1>2 DEF FirstData
  <2>2. f \in Seq(Int) /\ Prefix(f, b) /\ From(b, 3) \in Seq(Int)
    BY Beginning
  <2>3. Payload(o, b) = (c \o g) \o LastChunk
    BY <1>2 DEF Payload
  <2> HIDE DEF f
  <2>4. c \in Seq(Int) /\ g \in Seq(Int)
    <3>1. c \in Seq(Int) /\ Chunk(From(b, 3)) \in Seq(Int)
      BY <2>2, ChunkType
    <3>2. QED BY <3>1, NoStream
  <2> HIDE DEF g, c
  <2>5. g \o LastChunk \in Seq(Int) /\ (c \o g) \o LastChunk = c \o (g \o LastChunk)
    BY <2>4, LastBehind
  <2>6. QED BY <2>1, <2>2, <2>3, <2>5 DEF c
<1>3. QED BY <1>1, <1>2

(* A response is its header and what comes with it. *)
LEMMA ResponseIs ==
    ASSUME NEW o \in Offers, NEW b \in Seq(Int)
    PROVE  Response(o, b) = HeaderOf(o, b) \o Payload(o, b) /\ Payload(o, b) \in Seq(Int)
<1> DEFINE h == HeaderOf(o, b)
<1>0. h \in Seq(Int)
  BY HeaderElements
<1>1. ContentLength \in Int /\ Chunked \in Int /\ Ok \in Int /\ NotOk \in Int
  BY DEF ContentLength, Chunked, Ok, NotOk
<1>2. <<>> \o Empty = Empty
  BY StreamParts, Whole
<1>3. CASE o = "refused"
  <2>1. h = <<NotOk>> \o Empty /\ Payload(o, b) = <<>>
    BY <1>2, <1>3 DEF HeaderOf, Start, Size, Payload
  <2>2. Response(o, b) = (<<NotOk>> \o End) \o End
    BY <1>3 DEF Response
  <2>3. <<NotOk>> \in Seq(Int)
    BY <1>1, OneElement
  <2>4. (<<NotOk>> \o End) \o End = <<NotOk>> \o Empty
    BY <2>3, TwoEnds
  <2>5. <<>> \in Seq(Int)
    BY NoStream
  <2> HIDE DEF h
  <2>6. h \o <<>> = h
    BY <1>0, Whole
  <2>7. QED BY <2>1, <2>2, <2>4, <2>5, <2>6 DEF h
<1>4. CASE o = "length"
  <2> DEFINE d == Digits(Len(b), Dec)
  <2>1. h = <<Ok, CR, LF, ContentLength>> \o (d \o Empty) /\ Payload(o, b) = b /\ d \in Seq(Int)
    <3>1. Size(o, b) = d
      BY <1>4 DEF Size
    <3>2. Start(o) = <<Ok, CR, LF, ContentLength>> /\ Payload(o, b) = b
      BY <1>4 DEF Start, Payload
    <3>3. Size(o, b) \in Seq(Int)
      BY SizeDigits
    <3> HIDE DEF d
    <3>4. QED BY <3>1, <3>2, <3>3 DEF HeaderOf
  <2>2. Response(o, b) = Header((<<ContentLength>> \o d) \o End) \o b
    BY <1>4 DEF Response
  <2> HIDE DEF d
  <2>3. Header((<<ContentLength>> \o d) \o End) = <<Ok, CR, LF, ContentLength>> \o (d \o Empty)
    BY <1>1, <2>1, HeaderWith
  <2>4. QED BY <2>1, <2>2, <2>3
<1>5. CASE o = "no length"
  <2>1. h = <<Ok>> \o Empty /\ Payload(o, b) = b
    BY <1>2, <1>5 DEF HeaderOf, Start, Size, Payload
  <2>2. Response(o, b) = Header(<<>>) \o b
    BY <1>5 DEF Response
  <2> DEFINE x == <<Ok>>
             y == x \o End
  <2>3. x \in Seq(Int) /\ y \in Seq(Int)
    BY <1>1, OneElement, StreamParts, Joined
  <2>4. Header(<<>>) = (y \o <<>>) \o End
    BY DEF Header
  <2> HIDE DEF y, x
  <2>5. y \o <<>> = y
    BY <2>3, Whole
  <2>6. (x \o End) \o End = x \o Empty
    BY <2>3, TwoEnds
  <2>7. QED BY <2>1, <2>2, <2>4, <2>5, <2>6 DEF y, x
<1>6. CASE o \in {"chunked", "two chunks"}
  <2>1. h = <<Ok, CR, LF, Chunked>> \o Empty
    <3>1. Size(o, b) = <<>>
      BY <1>6 DEF Size
    <3>2. Start(o) = <<Ok, CR, LF, Chunked>>
      BY <1>6 DEF Start
    <3>3. QED BY <1>2, <3>1, <3>2 DEF HeaderOf
  <2> DEFINE c == IF b = <<>> THEN <<>> ELSE Chunk(b)
             f == Chunk(First(b, 2))
             g == IF Len(b) > 2 THEN Chunk(From(b, 3)) ELSE <<>>
             e == Header(<<Chunked>> \o End)
  <2>2. c \in Seq(Int) /\ f \in Seq(Int) /\ g \in Seq(Int)
    <3>1. First(b, 2) \in Seq(Int) /\ From(b, 3) \in Seq(Int)
      BY Beginning
    <3>2. Chunk(b) \in Seq(Int) /\ Chunk(First(b, 2)) \in Seq(Int) /\ Chunk(From(b, 3)) \in Seq(Int)
      BY <3>1, ChunkType
    <3>3. QED BY <3>2, NoStream
  <2>3. e = h
    BY <1>1, <2>1, HeaderWith, StreamParts
  <2>4. CASE o = "chunked"
    <3>1. Response(o, b) = (e \o c) \o LastChunk /\ Payload(o, b) = c \o LastChunk
      BY <2>4 DEF Response, Payload
    <3> HIDE DEF c, e, h
    <3>2. (e \o c) \o LastChunk = e \o (c \o LastChunk) /\ c \o LastChunk \in Seq(Int)
      BY <1>0, <2>2, <2>3, LastBehind
    <3>3. QED BY <2>3, <3>1, <3>2 DEF h
  <2>5. CASE o = "two chunks"
    <3>1. Response(o, b) = ((e \o f) \o g) \o LastChunk /\ Payload(o, b) = (f \o g) \o LastChunk
      BY <2>5 DEF Response, Payload
    <3> HIDE DEF f, g, e, h
    <3> DEFINE k == f \o g
    <3>2. k \in Seq(Int) /\ (e \o f) \o g = e \o k
      BY <1>0, <2>2, <2>3, Joined, JoinedThree, ZenonT(30)
    <3> HIDE DEF k
    <3>3. (e \o k) \o LastChunk = e \o (k \o LastChunk) /\ k \o LastChunk \in Seq(Int)
      BY <1>0, <2>3, <3>2, LastBehind
    <3>4. QED BY <2>3, <3>1, <3>2, <3>3 DEF h, k
  <2>6. QED BY <1>6, <2>4, <2>5
<1>7. QED BY <1>3, <1>4, <1>5, <1>6 DEF Offers

(* CR is no digit. *)
LEMMA NoDigits ==
    /\ \A base \in Nat : base > 1 => CR \notin DigitSet(base)
    /\ Hex \in Nat /\ Hex > 1 /\ Dec \in Nat /\ Dec > 1
<1>1. \A base \in Nat : base > 1 => CR \notin DigitSet(base)
  BY DEF CR, DigitSet, Digit
<1>2. QED BY <1>1, FileAssumption

(* The beginning of a whole is one of its first part, as far as it goes. *)
LEMMA BeginningIs ==
    ASSUME NEW a \in Seq(Int), NEW b \in Seq(Int), NEW c \in Seq(Int), NEW d \in Seq(Int),
           a \o b = c \o d, Len(a) <= Len(c)
    PROVE  Prefix(a, c)
<1>1. Len(a) \in Nat /\ Len(c) \in Nat /\ \A i \in 1..Len(a) : i <= Len(c) => a[i] = c[i]
  BY Divided
<1>2. 1 \in Nat \ {0} /\ 1 + Len(a) - 1 = Len(a) /\ 1 + Len(a) - 1 <= Len(c)
  BY <1>1
<1>3. \A i \in 1..Len(a) : c[1 + i - 1] = a[i]
  <2>1. \A i \in 1..Len(a) : 1 + i - 1 = i /\ i <= Len(c)
    BY <1>1
  <2>2. QED BY <1>1, <2>1
<1>4. SubSeq(c, 1, 1 + Len(a) - 1) = a
  BY <1>2, <1>3, PartIs
<1>5. QED BY <1>2, <1>4 DEF Prefix

(* A beginning of a beginning is a beginning. *)
LEMMA PrefixOfPrefix ==
    ASSUME NEW a \in Seq(Int), NEW b \in Seq(Int), NEW c \in Seq(Int), Prefix(a, b), Prefix(b, c)
    PROVE  Prefix(a, c)
<1>1. /\ Len(a) \in Nat /\ Len(b) \in Nat /\ Len(c) \in Nat /\ Len(a) <= Len(b) /\ Len(b) <= Len(c)
      /\ a = SubSeq(b, 1, Len(a)) /\ b = SubSeq(c, 1, Len(b))
  BY DEF Prefix
<1>2. \A i \in 1..Len(a) : a[i] = b[i]
  BY <1>1
<1>3. \A i \in 1..Len(b) : b[i] = c[i]
  BY <1>1
<1>4. 1 \in Nat \ {0} /\ 1 + Len(a) - 1 = Len(a) /\ 1 + Len(a) - 1 <= Len(c)
  BY <1>1
<1>5. \A i \in 1..Len(a) : c[1 + i - 1] = a[i]
  <2>1. \A i \in 1..Len(a) : 1 + i - 1 = i /\ i \in 1..Len(b)
    BY <1>1
  <2>2. QED BY <1>2, <1>3, <2>1
<1>6. SubSeq(c, 1, 1 + Len(a) - 1) = a
  BY <1>4, <1>5, PartIs
<1>7. QED BY <1>1, <1>4, <1>6 DEF Prefix

(* Nothing is a beginning. *)
LEMMA NothingIsPrefix == \A b \in Seq(Int) : Prefix(<<>>, b)
<1> SUFFICES ASSUME NEW b \in Seq(Int) PROVE Prefix(<<>>, b)
  OBVIOUS
<1>1. Len(<<>>) = 0 /\ 0 <= Len(b)
  OBVIOUS
<1>2. QED BY <1>1, Whole DEF Prefix

(* The empty line begins with an end of a line. *)
LEMMA EmptyBegins == First(Empty, 2) = End
<1> DEFINE x == Empty
           e == End
<1>1. x[1] = CR /\ x[2] = LF /\ e[1] = CR /\ e[2] = LF
  BY DEF Empty, End, CR, LF
<1>2. x \in Seq(Int) /\ Len(x) = 4 /\ e \in Seq(Int) /\ Len(e) = 2
  BY StreamParts
<1>3. First(x, 2) = SubSeq(x, 1, 2)
  <2> HIDE DEF x
  <2>1. QED BY <1>2 DEF First
<1> HIDE DEF x, e
<1>4. 1 \in Nat \ {0} /\ 1 + Len(e) - 1 = 2 /\ 1 + Len(e) - 1 <= Len(x)
  BY <1>2
<1>5. \A i \in 1..Len(e) : x[1 + i - 1] = e[i]
  <2>1. \A i \in 1..Len(e) : i = 1 \/ i = 2
    BY <1>2
  <2>2. QED BY <1>1, <2>1
<1>6. SubSeq(x, 1, 1 + Len(e) - 1) = e
  BY <1>2, <1>4, <1>5, PartIs
<1>7. QED BY <1>3, <1>4, <1>6 DEF x, e

(* What the decoder makes of a header that was received whole. *)
LEMMA DecodedHeader ==
    ASSUME offer \in Offers, body \in Seq(Int), line = HeaderOf(offer, body), NEW f
    PROVE  LET d == Decoded(f) IN
           /\ offer = "refused" => ~d.chunked /\ d.size = 0
           /\ offer = "length" => ~d.chunked /\ d.size \in Nat /\ (Len(body) < Dec => d.size = Len(body))
           /\ offer = "no length" => ~d.chunked /\ d.size = -1
           /\ offer \in {"chunked", "two chunks"} => d.chunked
<1> DEFINE s == Start(offer)
           x == Len(s)
           v == Size(offer, body)
<1>1. /\ line \in Seq(Int) /\ Len(line) = x + Len(v) + 4 /\ x <= Len(line)
      /\ \A i \in 1..x : line[i] = s[i]
      /\ \A i \in (x + 1)..(Len(line) - 4) : line[i] \in 48..63
      /\ \A i \in 1..4 : line[Len(line) - 4 + i] \in {CR, LF}
      /\ From(line, x + 1) = v \o Empty
  BY HeaderElements
<1>2. s \in Seq(Int) /\ x \in {1, 4} /\ v \in Seq(Int)
  BY StreamParts, SizeDigits
<1>3. line # <<>> /\ Len(line) \in Nat
  <2> HIDE DEF x, v
  <2>1. Len(line) \in Nat /\ Len(line) # 0
    BY <1>1, <1>2
  <2>2. QED BY <2>1
<1>4. \A n \in Int : n > 63 => Field(n) = {i \in 1..x : s[i] = n}
  <2> HIDE DEF x, v, s
  <2>1. ASSUME NEW n \in Int, n > 63, NEW i \in 1..Len(line), line[i] = n PROVE i \in 1..x
    <3> SUFFICES ASSUME ~(i <= x) PROVE FALSE
      OBVIOUS
    <3>1. CASE i <= Len(line) - 4
      <4>1. i \in (x + 1)..(Len(line) - 4)
        BY <1>2, <3>1
      <4>2. n \in 48..63
        BY <1>1, <2>1, <4>1
      <4>3. QED BY <2>1, <4>2
    <3>2. CASE i > Len(line) - 4
      <4> DEFINE e == i - (Len(line) - 4)
      <4>1. e \in 1..4 /\ Len(line) - 4 + e = i
        BY <1>3, <3>2, SMTT(30)
      <4> HIDE DEF e
      <4>2. n \in {CR, LF}
        BY <1>1, <2>1, <4>1
      <4>3. QED BY <2>1, <4>2 DEF CR, LF
    <3>3. QED BY <1>3, <3>1, <3>2
  <2>2. \A i \in 1..x : i \in 1..Len(line)
    BY <1>1, <1>2, <1>3
  <2>3. QED BY <1>1, <2>1, <2>2 DEF Field
<1>5. Chunked \in Int /\ Chunked > 63 /\ ContentLength \in Int /\ ContentLength > 63
      /\ Chunked # ContentLength /\ Ok # NotOk /\ Chunked \notin {Ok, NotOk, CR, LF} /\ ContentLength \notin {Ok, NotOk, CR, LF}
  BY DEF Chunked, ContentLength, Ok, NotOk, CR, LF
<1>6. Field(Chunked) = {i \in 1..x : s[i] = Chunked} /\ Field(ContentLength) = {i \in 1..x : s[i] = ContentLength}
  BY <1>4, <1>5
<1>7. 1 \in 1..x /\ line[1] = s[1]
  <2> HIDE DEF x, s
  <2>1. QED BY <1>1, <1>2
<1>8. CASE offer = "refused"
  <2>1. s = <<NotOk>>
    BY <1>8 DEF Start
  <2>2. s[1] = NotOk
    BY <2>1, <1>5
  <2>3. line[1] # Ok
    BY <1>5, <1>7, <2>2
  <2>4. QED BY <1>8, <2>3 DEF Decoded
<1>9. CASE offer = "no length"
  <2>1. s = <<Ok>>
    BY <1>9 DEF Start
  <2>2. x = 1 /\ s[1] = Ok
    BY <2>1
  <2>3. line[1] = Ok
    BY <1>7, <2>2
  <2> HIDE DEF x, s
  <2>4. Field(Chunked) = {} /\ Field(ContentLength) = {}
    BY <1>5, <1>6, <2>2
  <2>5. QED BY <1>3, <1>9, <2>3, <2>4 DEF Decoded
<1>10. CASE offer = "length"
  <2>1. s = <<Ok, CR, LF, ContentLength>>
    BY <1>10 DEF Start
  <2>2. x = 4 /\ s[1] = Ok /\ s[2] = CR /\ s[3] = LF /\ s[4] = ContentLength
    BY <2>1
  <2>3. line[1] = Ok
    BY <1>7, <2>2
  <2> HIDE DEF x, s
  <2>4. Field(Chunked) = {}
    BY <1>5, <1>6, <2>2
  <2>5. Field(ContentLength) = {4}
    BY <1>5, <1>6, <2>2
  <2>6. (CHOOSE i \in Field(ContentLength) : TRUE) = 4 /\ Field(ContentLength) # {}
    BY <2>5
  <2>7. Decoded(f).size = Number(From(line, 1 + 4), Hex)
    BY <1>3, <2>3, <2>6 DEF Decoded
  <2>8. From(line, 1 + 4) = v \o Empty
    BY <1>1, <2>2, SMTT(30)
  <2>9. Number(v \o Empty, Hex) \in Nat
    <3>1. v \o Empty \in Seq(Int)
      BY <1>2, StreamParts, Joined
    <3>2. QED BY <3>1, SizeType
  <2>10. ASSUME Len(body) < Dec PROVE Number(v \o Empty, Hex) = Len(body)
    <3>1. Len(body) \in Nat /\ Len(body) < Hex
      BY <2>10, FileAssumption
    <3>2. Digits(Len(body), Dec) = <<Digit(Len(body))>> /\ Digits(Len(body), Hex) = <<Digit(Len(body))>>
      BY <2>10, <3>1, NoDigits, DigitsIs
    <3>3. v = Digits(Len(body), Hex)
      BY <1>10, <3>2 DEF Size
    <3>4. Empty[1] \notin DigitSet(Hex) /\ Empty \in Seq(Int)
      BY NoDigits, StreamParts
    <3>5. QED BY <3>1, <3>3, <3>4, NoDigits, NumberOfDigits
  <2>11. ~Decoded(f).chunked
    BY <2>4 DEF Decoded
  <2>12. QED BY <1>10, <2>7, <2>8, <2>9, <2>10, <2>11
<1>11. CASE offer \in {"chunked", "two chunks"}
  <2>1. s = <<Ok, CR, LF, Chunked>>
    BY <1>11 DEF Start
  <2>2. x = 4 /\ s[1] = Ok /\ s[4] = Chunked
    BY <2>1
  <2>3. line[1] = Ok
    BY <1>7, <2>2
  <2>4. v = <<>>
    BY <1>11 DEF Size
  <2> HIDE DEF x, s, v
  <2>5. 4 \in Field(Chunked)
    BY <1>6, <2>2
  <2>6. From(line, 4 + 1) = Empty
    <3>1. <<>> \o Empty = Empty
      BY StreamParts, Whole
    <3>2. QED BY <1>1, <2>2, <2>4, <3>1
  <2>7. First(Empty, 2) = End
    BY EmptyBegins
  <2>8. Decoded(f).chunked
    BY <1>3, <2>3, <2>5, <2>6, <2>7 DEF Decoded
  <2>9. QED BY <1>11, <2>8
<1>12. QED BY <1>8, <1>9, <1>10, <1>11 DEF Offers

-----------------------------------------------------------------------------
(* Downloads. *)

(* The responses in chunks, and the line before their first data. *)
Chunky == {"chunked", "two chunks"}
SizeLine == Digits(Len(FirstData(offer, body)), Hex) \o End

(* What of the response is where, at each place of a download. *)
HeaderComes ==
    /\ file = <<>> /\ Len(line) <= Len(HeaderOf(offer, body))
    /\ line \o stream = HeaderOf(offer, body) \o Payload(offer, body)

(* A line with a size is received, before the first data or after them. *)
SizeComes ==
    /\ offer \in Chunky
    /\ \/ /\ file = <<>> /\ Len(line) <= Len(SizeLine)
          /\ \E r \in Seq(Int) : line \o stream = SizeLine \o (FirstData(offer, body) \o (End \o r))
       \/ /\ file = FirstData(offer, body) /\ Len(line) <= Len(End)
          /\ \E r \in Seq(Int) : line \o stream = End \o r

(* The data of the first chunk are received. *)
ChunkComes ==
    /\ offer \in Chunky /\ line = <<>>
    /\ left \in Nat /\ left + Len(file) = Len(FirstData(offer, body))
    /\ \E r \in Seq(Int) : file \o stream = FirstData(offer, body) \o (End \o r)

(* A body with a length is received. *)
DataComes ==
    /\ offer = "length" /\ left \in Nat
    /\ file \o stream = body
    /\ Len(body) < Dec => left + Len(file) = Len(body)

(* The download has returned. *)
Complete ==
    result = "ok" /\ (offer = "chunked" \/ (offer = "length" /\ Len(body) < Dec)) => file = body

(* The data of the first chunk is a beginning of the file. *)
LEMMA FirstDataIs ==
    ASSUME NEW o \in Chunky, NEW b \in Seq(Int)
    PROVE  FirstData(o, b) \in Seq(Int) /\ Prefix(FirstData(o, b), b)
BY ChunkedPayload DEF Chunky

(* The line with the size of a chunk. *)
LEMMA SizeLineIs ==
    ASSUME NEW d \in Seq(Int)
    PROVE  LET h == Digits(Len(d), Hex) \o End
           IN  /\ EndsLine(h) /\ h \in Seq(Int) /\ Number(h, Hex) = Len(d)
               /\ EndsLine(End) /\ Number(End, Hex) = 0
<1> DEFINE n == Len(d)
           D == Digits(n, Hex)
           h == D \o End
<1>1. n \in Nat /\ Hex \in Nat /\ Hex > 1 /\ CR \notin DigitSet(Hex)
  BY NoDigits
<1>2. D \in Seq(DigitSet(Hex)) /\ Len(D) > 0
  BY <1>1, DigitsType
<1>3. End \in Seq(Int) /\ Len(End) = 2 /\ End[1] = CR /\ End[2] = LF
  BY StreamParts
<1>4. Number(h, Hex) = n
  BY <1>1, <1>3, NumberOfDigits
<1>5. Number(End, Hex) = 0
  BY <1>1, <1>3, NumberOfNone
<1>6. EndsLine(End)
  <2>1. Len(End) - 1 = 1 /\ 1..(Len(End) - 2) = {} /\ Len(End) >= 2
    BY <1>3
  <2>2. QED BY <1>3, <2>1 DEF EndsLine
<1>7. D \in Seq(Int) /\ Len(D) \in Nat /\ \A i \in 1..Len(D) : D[i] \notin {CR, LF}
  <2> HIDE DEF D
  <2>1. DigitSet(Hex) \subseteq Int
    BY <1>1 DEF DigitSet, Digit
  <2>2. CR \notin DigitSet(Hex) /\ LF \notin DigitSet(Hex)
    BY <1>1 DEF DigitSet, Digit, CR, LF
  <2>3. D \in Seq(Int) /\ Len(D) \in Nat
    BY <1>2, <2>1
  <2>4. \A i \in 1..Len(D) : D[i] \in DigitSet(Hex)
    BY <1>2
  <2>5. QED BY <2>2, <2>3, <2>4
<1> HIDE DEF D
<1>8. /\ h \in Seq(Int) /\ Len(h) = Len(D) + 2
      /\ \A i \in 1..Len(D) : h[i] = D[i]
      /\ h[Len(D) + 1] = CR /\ h[Len(D) + 2] = LF
  <2>1. /\ h \in Seq(Int) /\ Len(h) = Len(D) + Len(End)
        /\ \A i \in 1..Len(D) : h[i] = D[i]
        /\ \A i \in 1..Len(End) : h[Len(D) + i] = End[i]
    BY <1>3, <1>7, Joined
  <2> HIDE DEF h
  <2>2. QED BY <1>3, <2>1
<1> HIDE DEF h
<1>9. EndsLine(h)
  <2>1. Len(h) - 2 = Len(D) /\ Len(h) - 1 = Len(D) + 1 /\ Len(h) >= 2
    BY <1>7, <1>8
  <2>2. QED BY <1>7, <1>8, <2>1 DEF EndsLine
<1>10. QED BY <1>4, <1>5, <1>6, <1>8, <1>9 DEF h, D, n

(* The header was received, and the decoder has read it. *)
LEMMA HeaderWasRead ==
    ASSUME offer \in Offers, body \in Seq(Int), line \in Seq(Int), stream \in Seq(Int),
           HeaderComes, Terminated(line, 4)
    PROVE  line = HeaderOf(offer, body) /\ stream = Payload(offer, body)
<1> DEFINE h == HeaderOf(offer, body)
           p == Payload(offer, body)
<1>1. h \in Seq(Int) /\ p \in Seq(Int) /\ EndsHeader(h)
  BY ResponseIs, HeaderOfEnds DEF EndsHeader
<1>2. line \o stream = h \o p /\ Len(line) <= Len(h)
  BY DEF HeaderComes
<1> HIDE DEF h, p
<1>3. Len(line) = Len(h)
  BY <1>1, <1>2, HeaderEnds
<1>4. line = h /\ stream = p
  BY <1>1, <1>2, <1>3, Divided
<1>5. QED BY <1>4 DEF h, p

(* One more byte of a line or a header goes from the stream to the line.   *)
LEMMA ByteReceived ==
    ASSUME NEW h \in Seq(Int), NEW r \in Seq(Int), line \in Seq(Int), stream \in Seq(Int), stream # <<>>,
           line \o stream = h \o r, Len(line) <= Len(h), Len(line) # Len(h),
           line' = Append(line, Head(stream)), stream' = Tail(stream)
    PROVE  line' \o stream' = h \o r /\ Len(line') <= Len(h)
<1>1. Len(line') = Len(line) + 1 /\ line' \o stream' = line \o stream
  BY OneMoved
<1>2. Len(line) \in Nat /\ Len(h) \in Nat
  OBVIOUS
<1>3. Len(line') <= Len(h)
  BY <1>1, <1>2
<1>4. QED BY <1>1, <1>3

(* A block goes from the stream to the file. *)
LEMMA BlockTaken ==
    ASSUME file \in Seq(Int), stream \in Seq(Int), left \in Nat,
           NEW k \in 1..Block, k <= left, k <= Len(stream), ReaderTakes(k), stream' = From(stream, k + 1)
    PROVE  /\ file' \in Seq(Int) /\ stream' \in Seq(Int) /\ file' \o stream' = file \o stream
           /\ left' \in Nat /\ left' + Len(file') = left + Len(file)
<1>1. k \in 1..Len(stream) /\ k \in Nat
  BY FileAssumption
<1>2. file' = file \o SubSeq(stream, 1, k) /\ left' = left - k
  BY DEF ReaderTakes
<1>3. /\ file' \in Seq(Int) /\ stream' \in Seq(Int) /\ file' \o stream' = file \o stream
      /\ Len(file') = Len(file) + k
  BY <1>1, <1>2, Moved
<1>4. left' \in Nat /\ left' + Len(file') = left + Len(file)
  <2>1. Len(file) \in Nat
    OBVIOUS
  <2>2. QED BY <1>1, <1>2, <1>3, <2>1
<1>5. QED BY <1>3, <1>4

(* A line with a size was received: that of the first chunk, or the empty  *)
(* one that ends its data.                                                 *)
LEMMA SizeWasRead ==
    ASSUME body \in Seq(Int), line \in Seq(Int), stream \in Seq(Int), SizeComes, Terminated(line, 2)
    PROVE  \/ Number(line, Hex) = 0 /\ (offer = "chunked" => file = body)
           \/ /\ Number(line, Hex) # 0 /\ file = <<>>
              /\ Number(line, Hex) = Len(FirstData(offer, body))
              /\ \E r \in Seq(Int) : stream = FirstData(offer, body) \o (End \o r)
<1> DEFINE d == FirstData(offer, body)
           h == Digits(Len(d), Hex) \o End
<1>1. d \in Seq(Int) /\ (offer = "chunked" => d = body)
  BY FirstDataIs DEF SizeComes, FirstData
<1> HIDE DEF d
<1>2. EndsLine(h) /\ h \in Seq(Int) /\ Number(h, Hex) = Len(d) /\ EndsLine(End) /\ Number(End, Hex) = 0
  BY <1>1, SizeLineIs
<1>3. SizeLine = h
  BY DEF SizeLine, d, h
<1> HIDE DEF h
<1>4. ASSUME file = <<>>, Len(line) <= Len(h), NEW r \in Seq(Int), line \o stream = h \o (d \o (End \o r))
      PROVE  Number(line, Hex) = Len(d) /\ stream = d \o (End \o r)
  <2> DEFINE q == d \o (End \o r)
  <2>1. q \in Seq(Int)
    <3>1. End \o r \in Seq(Int)
      BY StreamParts, Joined
    <3>2. QED BY <1>1, <3>1, Joined
  <2> HIDE DEF q
  <2>2. line \o stream = h \o q
    BY <1>4 DEF q
  <2>3. Len(line) = Len(h)
    BY <1>2, <1>4, <2>1, <2>2, LineEnds
  <2>4. line = h /\ stream = q
    BY <1>2, <2>1, <2>2, <2>3, Divided
  <2>5. QED BY <1>2, <2>4 DEF q
<1>5. ASSUME file = d, Len(line) <= Len(End), NEW r \in Seq(Int), line \o stream = End \o r
      PROVE  Number(line, Hex) = 0
  <2>1. End \in Seq(Int)
    BY StreamParts
  <2>2. Len(line) = Len(End)
    BY <1>2, <1>5, <2>1, LineEnds
  <2>3. line = End
    BY <1>5, <2>1, <2>2, Divided
  <2>4. QED BY <1>2, <2>3
<1>6. CASE file = <<>> /\ Len(line) <= Len(h) /\ \E r \in Seq(Int) : line \o stream = h \o (d \o (End \o r))
  <2>1. Number(line, Hex) = Len(d) /\ \E r \in Seq(Int) : stream = d \o (End \o r)
    BY <1>4, <1>6
  <2>2. CASE Len(d) = 0
    <3>1. d = <<>>
      BY <1>1, <2>2
    <3>2. QED BY <1>1, <1>6, <2>1, <2>2, <3>1
  <2>3. CASE Len(d) # 0
    BY <1>6, <2>1, <2>3 DEF d
  <2>4. QED BY <2>2, <2>3
<1>7. CASE file = d /\ Len(line) <= Len(End) /\ \E r \in Seq(Int) : line \o stream = End \o r
  BY <1>1, <1>5, <1>7
<1>8. QED BY <1>3, <1>6, <1>7 DEF SizeComes, d

(* One more byte of the header, or of a line with a size. *)
LEMMA HeaderByte ==
    ASSUME offer \in Offers, body \in Seq(Int), line \in Seq(Int), stream \in Seq(Int), stream # <<>>,
           HeaderComes, ~Terminated(line, 4), line' = Append(line, Head(stream)), stream' = Tail(stream),
           UNCHANGED <<file, offer, body>>
    PROVE  HeaderComes'
<1> DEFINE h == HeaderOf(offer, body)
           p == Payload(offer, body)
<1>1. h \in Seq(Int) /\ p \in Seq(Int) /\ EndsHeader(h)
  BY ResponseIs, HeaderOfEnds DEF EndsHeader
<1>2. line \o stream = h \o p /\ Len(line) <= Len(h) /\ file = <<>>
  BY DEF HeaderComes
<1> HIDE DEF h, p
<1>3. Len(line) # Len(h)
  BY <1>1, <1>2, HeaderEnds
<1>4. line' \o stream' = h \o p /\ Len(line') <= Len(h)
  BY <1>1, <1>2, <1>3, ByteReceived
<1>5. h' = h /\ p' = p
  BY DEF h, p
<1>6. QED BY <1>2, <1>4, <1>5 DEF HeaderComes, h, p

(* The same at the size of a chunk. *)
LEMMA SizeByte ==
    ASSUME body \in Seq(Int), line \in Seq(Int), stream \in Seq(Int), stream # <<>>,
           SizeComes, ~Terminated(line, 2), line' = Append(line, Head(stream)), stream' = Tail(stream),
           UNCHANGED <<file, offer, body>>
    PROVE  SizeComes'
<1> DEFINE d == FirstData(offer, body)
           h == SizeLine
<1>1. d \in Seq(Int)
  BY FirstDataIs DEF SizeComes
<1>2. EndsLine(h) /\ h \in Seq(Int) /\ EndsLine(End) /\ End \in Seq(Int)
  BY <1>1, SizeLineIs, StreamParts DEF SizeLine
<1>3. SizeLine' = SizeLine /\ FirstData(offer, body)' = FirstData(offer, body)
  BY DEF SizeLine
<1> HIDE DEF h, d
<1>4. ASSUME Len(line) <= Len(h), NEW r \in Seq(Int), line \o stream = h \o (d \o (End \o r))
      PROVE  line' \o stream' = h \o (d \o (End \o r)) /\ Len(line') <= Len(h)
  <2> DEFINE q == d \o (End \o r)
  <2>1. q \in Seq(Int)
    <3>1. End \o r \in Seq(Int)
      BY StreamParts, Joined
    <3>2. QED BY <1>1, <3>1, Joined
  <2> HIDE DEF q
  <2>2. line \o stream = h \o q
    BY <1>4 DEF q
  <2>3. Len(line) # Len(h)
    BY <1>2, <1>4, <2>1, <2>2, LineEnds
  <2>4. line' \o stream' = h \o q /\ Len(line') <= Len(h)
    BY <1>2, <1>4, <2>1, <2>2, <2>3, ByteReceived
  <2>5. QED BY <2>4 DEF q
<1>5. ASSUME Len(line) <= Len(End), NEW r \in Seq(Int), line \o stream = End \o r
      PROVE  line' \o stream' = End \o r /\ Len(line') <= Len(End)
  <2>1. Len(line) # Len(End)
    BY <1>2, <1>5, LineEnds
  <2>2. QED BY <1>2, <1>5, <2>1, ByteReceived
<1>6. CASE file = <<>> /\ Len(line) <= Len(h) /\ \E r \in Seq(Int) : line \o stream = h \o (d \o (End \o r))
  <2>1. Len(line') <= Len(h) /\ \E r \in Seq(Int) : line' \o stream' = h \o (d \o (End \o r))
    BY <1>4, <1>6
  <2>2. QED BY <1>3, <1>6, <2>1 DEF SizeComes, h, d
<1>7. CASE file = d /\ Len(line) <= Len(End) /\ \E r \in Seq(Int) : line \o stream = End \o r
  <2>1. Len(line') <= Len(End) /\ \E r \in Seq(Int) : line' \o stream' = End \o r
    BY <1>5, <1>7
  <2>2. QED BY <1>3, <1>7, <2>1 DEF SizeComes, d
<1>8. QED BY <1>6, <1>7 DEF SizeComes, d, h

(* A block of the data, of a chunk or of the whole. *)
LEMMA ChunkBlock ==
    ASSUME body \in Seq(Int), file \in Seq(Int), stream \in Seq(Int), ChunkComes,
           file' \in Seq(Int), stream' \in Seq(Int), file' \o stream' = file \o stream,
           left' \in Nat, left' + Len(file') = left + Len(file), UNCHANGED <<offer, body, line>>
    PROVE  ChunkComes' /\ Prefix(file', body)
<1> DEFINE d == FirstData(offer, body)
<1>1. d \in Seq(Int) /\ Prefix(d, body)
  BY FirstDataIs DEF ChunkComes
<1>2. d' = d
  OBVIOUS
<1>3. PICK r \in Seq(Int) : file \o stream = d \o (End \o r)
  BY DEF ChunkComes
<1>4. left' + Len(file') = Len(d)
  BY DEF ChunkComes
<1>5. ChunkComes'
  BY <1>2, <1>3, <1>4 DEF ChunkComes
<1> HIDE DEF d
<1>6. Len(file') <= Len(d)
  <2>1. Len(file') \in Nat /\ Len(d) \in Nat
    BY <1>1
  <2>2. QED BY <1>4, <2>1
<1>7. End \o r \in Seq(Int)
  BY StreamParts, Joined
<1> DEFINE q == End \o r
<1> HIDE DEF q
<1>8. file' \o stream' = d \o q /\ q \in Seq(Int)
  BY <1>3, <1>7 DEF q
<1>9. Prefix(file', d)
  BY <1>1, <1>6, <1>8, BeginningIs
<1>10. Prefix(file', body)
  BY <1>1, <1>9, PrefixOfPrefix
<1>11. QED BY <1>5, <1>10

(* The same of a body with a length. *)
LEMMA DataBlock ==
    ASSUME body \in Seq(Int), file \in Seq(Int), stream \in Seq(Int), DataComes,
           file' \in Seq(Int), stream' \in Seq(Int), file' \o stream' = file \o stream,
           left' \in Nat, left' + Len(file') = left + Len(file), UNCHANGED <<offer, body>>
    PROVE  DataComes' /\ Prefix(file', body)
<1>1. DataComes'
  BY DEF DataComes
<1>2. body \o <<>> = body /\ <<>> \in Seq(Int)
  BY Whole, NoStream
<1>3. file' \o stream' = body
  BY DEF DataComes
<1>4. Len(file') <= Len(body)
  <2>1. Len(file' \o stream') = Len(file') + Len(stream') /\ Len(file') \in Nat /\ Len(stream') \in Nat
    BY Joined
  <2>2. QED BY <1>3, <2>1
<1> DEFINE n == <<>>
<1> HIDE DEF n
<1>5. file' \o stream' = body \o n /\ n \in Seq(Int)
  BY <1>2, <1>3 DEF n
<1>6. Prefix(file', body)
  BY <1>4, <1>5, BeginningIs
<1>7. QED BY <1>1, <1>6

(* The data has come. *)
LEMMA AllDataCame ==
    ASSUME body \in Seq(Int), file \in Seq(Int), stream \in Seq(Int), left = 0
    PROVE  /\ DataComes => (Len(body) < Dec => file = body)
           /\ ChunkComes => /\ file = FirstData(offer, body)
                            /\ \E r \in Seq(Int) : stream = End \o r
<1>1. ASSUME DataComes, Len(body) < Dec PROVE file = body
  <2>1. Len(file) \in Nat /\ Len(file) = Len(body) /\ file \o stream = body
    BY <1>1 DEF DataComes
  <2> DEFINE n == <<>>
  <2>2. n \in Seq(Int) /\ body \o n = body
    BY Whole, NoStream
  <2> HIDE DEF n
  <2>3. file \o stream = body \o n
    BY <2>1, <2>2
  <2>4. QED BY <2>1, <2>2, <2>3, Divided
<1>2. ASSUME ChunkComes
      PROVE  file = FirstData(offer, body) /\ \E r \in Seq(Int) : stream = End \o r
  <2> DEFINE d == FirstData(offer, body)
  <2>1. d \in Seq(Int)
    BY <1>2, FirstDataIs DEF ChunkComes
  <2>2. PICK r \in Seq(Int) : file \o stream = d \o (End \o r)
    BY <1>2 DEF ChunkComes
  <2>3. Len(file) = Len(d)
    <3>1. Len(file) \in Nat /\ 0 + Len(file) = Len(d)
      BY <1>2 DEF ChunkComes
    <3>2. QED BY <3>1
  <2> HIDE DEF d
  <2> DEFINE q == End \o r
  <2>4. q \in Seq(Int)
    BY StreamParts, Joined
  <2> HIDE DEF q
  <2>5. file \o stream = d \o q
    BY <2>2 DEF q
  <2>6. file = d /\ stream = q
    BY <2>1, <2>3, <2>4, <2>5, Divided
  <2>7. QED BY <2>6 DEF d, q
<1>3. QED BY <1>1, <1>2

(* Nothing is added. *)
LEMMA NoMore == \A n \in Nat : n + 0 = n
OBVIOUS

(* An end of a line between two streams. *)
LEMMA EndBehind == \A s, r \in Seq(Int) : (s \o End) \o r = s \o (End \o r)
<1> SUFFICES ASSUME NEW s \in Seq(Int), NEW r \in Seq(Int) PROVE (s \o End) \o r = s \o (End \o r)
  OBVIOUS
<1>1. End \in Seq(Int)
  BY StreamParts
<1>2. QED BY <1>1, JoinedThree, ZenonT(30)

(* The header is done with. *)
LEMMA HeaderReadKeeps ==
    ASSUME offer \in Offers, body \in Seq(Int), line \in Seq(Int), stream \in Seq(Int), file \in Seq(Int),
           job = "down", NEW f, HeaderRead(f), HeaderComes, Terminated(line, 4), UNCHANGED <<offer, body, file, stream>>
    PROVE  /\ Prefix(file, body) /\ at' \in {"size", "data", "done"}
           /\ at' = "size" => SizeComes'
           /\ at' = "data" => DataComes'
           /\ at' = "done" => Complete'
<1> DEFINE d == Decoded(f)
<1>1. line = HeaderOf(offer, body) /\ stream = Payload(offer, body) /\ file = <<>>
  BY HeaderWasRead DEF HeaderComes
<1>2. /\ offer = "refused" => ~d.chunked /\ d.size = 0
      /\ offer = "length" => ~d.chunked /\ d.size \in Nat /\ (Len(body) < Dec => d.size = Len(body))
      /\ offer = "no length" => ~d.chunked /\ d.size = -1
      /\ offer \in {"chunked", "two chunks"} => d.chunked
  BY <1>1, DecodedHeader
<1>3. /\ IF d.chunked THEN at' = "size"
         ELSE IF d.size <= 0 THEN at' = "done"
         ELSE at' = "data" /\ left' = d.size
      /\ line' = <<>>
  BY DEF HeaderRead, DownloadEnds, Ends
<1> HIDE DEF d
<1>4. Prefix(file, body)
  BY <1>1, NothingIsPrefix
<1>5. CASE d.chunked
  <2>1. offer \in {"chunked", "two chunks"}
    BY <1>2, <1>5 DEF Offers
  <2>2. FirstData(offer, body) \in Seq(Int) /\ \E r \in Seq(Int) : stream = Chunk(FirstData(offer, body)) \o r
    BY <1>1, <2>1, ChunkedPayload
  <2> DEFINE b == FirstData(offer, body)
             h == Digits(Len(b), Hex) \o End
  <2>3. b \in Seq(Int) /\ \E r \in Seq(Int) : stream = Chunk(b) \o r
    BY <2>2
  <2> HIDE DEF b
  <2>4. h \in Seq(Int)
    BY <2>3, SizeLineIs
  <2>5. Chunk(b) = (h \o b) \o End
    BY DEF Chunk
  <2>6. SizeLine = h
    BY DEF SizeLine, b
  <2> HIDE DEF h
  <2>7. \E r \in Seq(Int) : stream = h \o (b \o (End \o r))
    <3>1. PICK r \in Seq(Int) : stream = ((h \o b) \o End) \o r
      BY <2>3, <2>5
    <3> DEFINE y == h \o b
               q == End \o r
    <3>2. y \in Seq(Int) /\ q \in Seq(Int) /\ End \in Seq(Int)
      BY <2>3, <2>4, StreamParts, Joined
    <3>3. h \o (b \o q) = y \o q
      BY <2>3, <2>4, <3>2, JoinedThree, ZenonT(30)
    <3> HIDE DEF y
    <3>4. (y \o End) \o r = y \o q
      BY <3>2, EndBehind
    <3>5. stream = h \o (b \o q)
      BY <3>1, <3>3, <3>4 DEF y
    <3>6. QED BY <3>5
  <2>8. line' \o stream' = stream /\ Len(line') = 0
    <3>1. <<>> \o stream = stream /\ Len(<<>>) = 0
      BY Whole
    <3>2. QED BY <1>3, <3>1
  <2>9. SizeLine' = h /\ FirstData(offer, body)' = b
    BY <2>6 DEF SizeLine, b
  <2>10. 0 <= Len(h)
    BY <2>4
  <2>11. SizeComes'
    BY <1>1, <2>1, <2>7, <2>8, <2>9, <2>10 DEF SizeComes, Chunky
  <2>12. QED BY <1>3, <1>4, <1>5, <2>11
<1>6. CASE ~d.chunked /\ d.size <= 0
  <2>1. offer \in {"refused", "length", "no length"}
    BY <1>2, <1>6 DEF Offers
  <2>2. ASSUME offer = "length", Len(body) < Dec PROVE file = body
    <3>1. d.size = Len(body) /\ d.size \in Nat
      BY <1>2, <2>2
    <3>2. Len(body) = 0
      BY <1>6, <3>1
    <3>3. QED BY <1>1, <3>2
  <2>3. Complete'
    BY <2>1, <2>2 DEF Complete
  <2>4. at' = "done"
    BY <1>3, <1>6
  <2>5. QED BY <1>4, <2>3, <2>4
<1>7. CASE ~d.chunked /\ ~(d.size <= 0)
  <2>1. d.size # 0 /\ d.size # -1
    <3>1. 0 <= 0 /\ -1 <= 0
      OBVIOUS
    <3>2. QED BY <1>7, <3>1
  <2>2. offer = "length" /\ d.size \in Nat /\ (Len(body) < Dec => d.size = Len(body))
    BY <1>2, <1>7, <2>1 DEF Offers
  <2>3. stream = body
    BY <1>1, <2>2 DEF Payload
  <2>4. left' = d.size /\ at' = "data"
    BY <1>3, <1>7
  <2>5. <<>> \o body = body /\ Len(<<>>) = 0
    BY Whole
  <2>6. left' \in Nat /\ left' + 0 = left'
    BY <2>2, <2>4
  <2>7. DataComes'
    BY <1>1, <2>2, <2>3, <2>4, <2>5, <2>6 DEF DataComes
  <2>8. QED BY <1>4, <2>4, <2>7
<1>8. QED BY <1>5, <1>6, <1>7

(* The size of a chunk is done with: the data comes, or the end. *)
LEMMA SizeReadKeeps ==
    ASSUME body \in Seq(Int), line \in Seq(Int), stream \in Seq(Int), file \in Seq(Int),
           SizeComes, Terminated(line, 2), line' = <<>>, UNCHANGED <<offer, body, file, stream>>
    PROVE  /\ Number(line, Hex) = 0 => Complete'
           /\ Number(line, Hex) # 0 /\ left' = Number(line, Hex) => ChunkComes'
<1>1. \/ Number(line, Hex) = 0 /\ (offer = "chunked" => file = body)
      \/ /\ Number(line, Hex) # 0 /\ file = <<>>
         /\ Number(line, Hex) = Len(FirstData(offer, body))
         /\ \E r \in Seq(Int) : stream = FirstData(offer, body) \o (End \o r)
  BY SizeWasRead
<1>2. offer \in Chunky
  BY DEF SizeComes
<1>3. ASSUME Number(line, Hex) = 0 PROVE Complete'
  BY <1>1, <1>2, <1>3 DEF Complete, Chunky
<1>4. ASSUME Number(line, Hex) # 0, left' = Number(line, Hex) PROVE ChunkComes'
  <2>1. left' = Len(FirstData(offer, body)) /\ file' = <<>> /\ FirstData(offer, body)' = FirstData(offer, body)
    BY <1>1, <1>4
  <2>2. left' \in Nat /\ left' + 0 = left'
    <3>1. FirstData(offer, body) \in Seq(Int)
      BY <1>2, FirstDataIs
    <3>2. left' \in Nat
      BY <2>1, <3>1
    <3>3. QED BY <3>2, NoMore
  <2>3. Len(<<>>) = 0 /\ <<>> \o stream = stream
    BY Whole
  <2>4. QED BY <1>1, <1>2, <1>4, <2>1, <2>2, <2>3 DEF ChunkComes
<1>5. QED BY <1>3, <1>4

(* The streams of a transfer are sequences of numbers. *)
StreamType == offer \in Offers /\ stream \in Seq(Int) /\ line \in Seq(Int) /\ file \in Seq(Int)

(* So is every response. *)
LEMMA ResponseType == \A o \in Offers : \A b \in Seq(Int) : Response(o, b) \in Seq(Int)
<1> SUFFICES ASSUME NEW o \in Offers, NEW b \in Seq(Int) PROVE Response(o, b) \in Seq(Int)
  OBVIOUS
<1>1. HeaderOf(o, b) \in Seq(Int)
  BY HeaderElements
<1>2. Response(o, b) = HeaderOf(o, b) \o Payload(o, b) /\ Payload(o, b) \in Seq(Int)
  BY ResponseIs
<1>3. QED BY <1>1, <1>2, Joined

(* Receiving a byte keeps them. *)
LEMMA ByteType ==
    ASSUME StreamType, NEW p, NEW n, ReceiveByte(p, n)
    PROVE  StreamType'
<1>1. line' = Append(line, Head(stream)) /\ stream' = Tail(stream) /\ stream # <<>> /\ UNCHANGED <<offer, file>>
  BY DEF ReceiveByte, Keep, httpVars
<1>2. line' \in Seq(Int) /\ stream' \in Seq(Int)
  BY <1>1, OneMoved DEF StreamType
<1>3. QED BY <1>1, <1>2 DEF StreamType

(* Receiving a block keeps them. *)
LEMMA BlockType ==
    ASSUME StreamType, Reader
    PROVE  StreamType'
<1>1. PICK k \in 1..Block : k <= Len(stream) /\ ReaderTakes(k) /\ stream' = From(stream, k + 1)
  BY DEF Reader
<1>2. k \in 1..Len(stream)
  BY <1>1
<1>3. file' \in Seq(Int) /\ stream' \in Seq(Int)
  BY <1>1, <1>2, Moved DEF ReaderTakes, StreamType
<1>4. QED BY <1>3 DEF Reader, httpVars, StreamType

(* Every step keeps them. *)
LEMMA TypeStep == UploadInv /\ StreamType /\ [Next]_vars => StreamType'
<1> SUFFICES ASSUME UploadInv, StreamType, [Next]_vars PROVE StreamType'
  OBVIOUS
<1>0. body \in Seq(Int) /\ <<>> \in Seq(Int) /\ "refused" \in Offers
  BY NoStream DEF UploadInv, Offers
<1>1. CASE CallWrapper \/ WrapperDone \/ WrapperStep \/ UNCHANGED vars
  BY <1>1 DEF CallWrapper, WrapperDone, WrapperStep, fileVars, vars, StreamType
<1>2. ASSUME NEW j, NEW w, NEW f, Begin(j, w, f) PROVE StreamType'
  BY <1>0, <1>2 DEF Begin, StreamType
<1>3. CASE Called
  BY <1>3 DEF Called, Keep, httpVars, StreamType
<1>4. CASE NoLocalFile
  BY <1>4 DEF NoLocalFile, Keep, httpVars, StreamType
<1>5. CASE Connect
  <2>1. Response(offer, body) \in Seq(Int)
    BY <1>0, ResponseType DEF StreamType
  <2>2. QED BY <1>0, <1>5, <2>1 DEF Connect, Keep, httpVars, StreamType
<1>6. CASE UploadBlock
  BY <1>6 DEF UploadBlock, StreamType
<1>7. CASE UploadLast
  <2>1. Response(offer, <<>>) \in Seq(Int)
    BY <1>0, ResponseType DEF StreamType
  <2>2. QED BY <1>7, <2>1 DEF UploadLast, StreamType
<1>8. CASE UploadFails
  BY <1>8 DEF UploadFails, Keep, httpVars, StreamType
<1>9. CASE HttpHeader
  BY <1>0, <1>9, ByteType DEF HttpHeader, HeaderRead, Keep, httpVars, StreamType
<1>10. CASE ChunkSize
  BY <1>0, <1>10, ByteType DEF ChunkSize, Keep, httpVars, StreamType
<1>11. CASE Reader
  BY <1>11, BlockType
<1>12. CASE ReaderEnds \/ ReaderFails \/ WriteFails
  BY <1>12 DEF ReaderEnds, ReaderFails, WriteFails, Keep, httpVars, StreamType
<1>13. CASE Return
  BY <1>0, <1>13 DEF Return, StreamType
<1>14. QED
  BY <1>1, <1>2, <1>3, <1>4, <1>5, <1>6, <1>7, <1>8, <1>9, <1>10, <1>11, <1>12, <1>13 DEF Next, Upload, Download

(* Nothing was received. *)
LEMMA NothingYet == \A s \in Seq(Int) : <<>> \o s = s /\ Len(<<>>) <= Len(s)
<1> SUFFICES ASSUME NEW s \in Seq(Int) PROVE <<>> \o s = s /\ Len(<<>>) <= Len(s)
  OBVIOUS
<1>1. Len(<<>>) <= Len(s)
  OBVIOUS
<1>2. QED BY <1>1, Whole

(* Where the bytes are while a download goes well. *)
Arrives ==
    job = "down" /\ ~cut =>
      /\ Prefix(file, body)
      /\ at \in {"call", "connect"} => line = <<>> /\ file = <<>>
      /\ at = "header" => HeaderComes
      /\ at = "size" => SizeComes
      /\ at = "chunk data" => ChunkComes
      /\ at = "data" => DataComes
      /\ at = "done" => Complete

(* A step that fails keeps what has arrived. *)
LEMMA FailsArrived ==
    ASSUME Arrives, UNCHANGED <<job, cut, file, body, offer>>, at' = "done", result' = "error"
    PROVE  Arrives'
<1>1. Complete'
  BY DEF Complete
<1>2. QED BY <1>1 DEF Arrives

(* A step outside the receiving keeps what has arrived. *)
LEMMA OthersArrive ==
    ASSUME UploadInv, StreamType, Arrives,
           \/ CallWrapper \/ WrapperDone \/ WrapperStep \/ UNCHANGED vars \/ Upload \/ Download
           \/ Called \/ NoLocalFile \/ Connect \/ UploadBlock \/ UploadLast \/ UploadFails \/ Return
    PROVE  Arrives'
<1>1. CASE CallWrapper \/ WrapperDone \/ WrapperStep \/ UNCHANGED vars
  BY <1>1 DEF CallWrapper, WrapperDone, WrapperStep, fileVars, vars, Arrives, HeaderComes, SizeComes, SizeLine,
       ChunkComes, DataComes, Complete
<1>2. ASSUME NEW j, NEW w, NEW f, Begin(j, w, f) PROVE Arrives'
  <2>1. at' = "call" /\ file' = <<>> /\ line' = <<>> /\ body' \in Bodies
    BY <1>2 DEF Begin
  <2>2. Prefix(<<>>, body')
    BY <2>1, FileAssumption, NothingIsPrefix
  <2>3. QED BY <2>1, <2>2 DEF Arrives
<1>3. CASE Called
  <2>1. \/ ret # "ok" /\ Finish("error") /\ cut' = cut
        \/ cut' = TRUE
        \/ Ends("error") /\ cut' = cut
        \/ at' = "connect" /\ cut' = cut
    BY <1>3 DEF Called
  <2>2. CASE cut' = TRUE
    BY <2>2 DEF Arrives
  <2>3. CASE cut' = cut
    <3>1. UNCHANGED <<job, cut, file, body, offer, line>>
      BY <1>3, <2>3 DEF Called, Keep, httpVars
    <3>2. CASE at' = "done" /\ result' = "error"
      BY <3>1, <3>2, FailsArrived
    <3>3. CASE at' = "connect"
      BY <1>3, <3>1, <3>3 DEF Called, Arrives
    <3>4. CASE Finish("error") \/ Ends("error")
      BY <3>2, <3>4 DEF Finish, UploadEnds, DownloadEnds, Ends
    <3>5. CASE cut' = TRUE
      BY <2>2, <3>5
    <3>6. QED BY <2>1, <3>3, <3>4, <3>5
  <2>4. QED BY <2>1, <2>2, <2>3
<1>4. CASE NoLocalFile
  BY <1>4, FailsArrived DEF NoLocalFile, Keep, httpVars
<1>5. CASE Connect
  <2>1. UNCHANGED <<job, cut, file, body, offer, line>> /\ at = "connect"
    BY <1>5 DEF Connect, Keep, httpVars
  <2>2. CASE at' = "done" /\ result' = "error"
    BY <2>1, <2>2, FailsArrived
  <2>3. CASE at' = (IF job = "up" THEN "chunk" ELSE "header") /\ stream' = IF job = "up" THEN <<>> ELSE Response(offer, body)
    <3> SUFFICES ASSUME job = "down", ~cut PROVE Prefix(file', body') /\ at' = "header" /\ HeaderComes'
      BY <2>1 DEF Arrives
    <3>1. at' = "header" /\ stream' = Response(offer, body) /\ line' = <<>> /\ file' = <<>> /\ Prefix(file', body')
      BY <2>1, <2>3 DEF Arrives
    <3>2. /\ stream' = HeaderOf(offer, body) \o Payload(offer, body)
          /\ HeaderOf(offer, body) \in Seq(Int) /\ stream' \in Seq(Int)
      <4>1. offer \in Offers /\ body \in Seq(Int)
        BY DEF StreamType, UploadInv
      <4>2. HeaderOf(offer, body) \in Seq(Int)
        BY <4>1, HeaderElements
      <4>3. QED BY <3>1, <4>1, <4>2, ResponseIs, ResponseType
    <3>3. line' \o stream' = stream' /\ Len(line') <= Len(HeaderOf(offer, body))
      BY <3>1, <3>2, NothingYet
    <3>4. QED BY <2>1, <3>1, <3>2, <3>3 DEF HeaderComes
  <2>4. QED BY <1>5, <2>2, <2>3 DEF Connect, Finish, UploadEnds, DownloadEnds, Ends
<1>6. CASE UploadBlock \/ UploadLast \/ UploadFails
  <2>1. at = "chunk" /\ UNCHANGED job
    BY <1>6 DEF UploadBlock, UploadLast, UploadFails, Keep, httpVars
  <2>2. job = "up"
    BY <2>1 DEF UploadInv
  <2>3. QED BY <2>1, <2>2 DEF Arrives
<1>7. CASE Return
  BY <1>7 DEF Return, Arrives
<1>8. QED BY <1>1, <1>2, <1>3, <1>4, <1>5, <1>6, <1>7 DEF Upload, Download

(* A step of the header keeps it. *)
LEMMA HeaderArrives ==
    ASSUME UploadInv, StreamType, Arrives, HttpHeader
    PROVE  Arrives'
<1>1. /\ at = "header" /\ UNCHANGED <<job, body, offer, file>>
      /\ offer \in Offers /\ body \in Seq(Int) /\ line \in Seq(Int) /\ stream \in Seq(Int) /\ file \in Seq(Int)
  BY DEF HttpHeader, ReceiveByte, Keep, httpVars, StreamType, UploadInv
<1>2. CASE ReceiveByte("header", 4)
  <2>1. /\ ~Terminated(line, 4) /\ stream # <<>> /\ line' = Append(line, Head(stream)) /\ stream' = Tail(stream)
        /\ UNCHANGED <<at, cut>>
    BY <1>2 DEF ReceiveByte
  <2> SUFFICES ASSUME job = "down", ~cut PROVE Prefix(file', body') /\ HeaderComes'
    BY <1>1, <2>1 DEF Arrives
  <2>2. Prefix(file, body) /\ HeaderComes
    BY <1>1 DEF Arrives
  <2>3. HeaderComes'
    BY <1>1, <2>1, <2>2, HeaderByte
  <2>4. QED BY <1>1, <2>2, <2>3
<1>3. CASE cut' = TRUE
  BY <1>3 DEF Arrives
<1>4. CASE Terminated(line, 4) /\ HeaderRead(FALSE) /\ UNCHANGED cut /\ UNCHANGED <<pos, stream, file>>
  <2> SUFFICES ASSUME job = "down", ~cut PROVE Arrives'
    BY <1>1, <1>4 DEF Arrives
  <2>1. HeaderComes
    BY <1>1 DEF Arrives
  <2>2. /\ Prefix(file, body) /\ at' \in {"size", "data", "done"}
        /\ at' = "size" => SizeComes'
        /\ at' = "data" => DataComes'
        /\ at' = "done" => Complete'
    BY <1>1, <1>4, <2>1, HeaderReadKeeps
  <2>3. QED BY <1>1, <2>2 DEF Arrives
<1>5. QED BY <1>2, <1>3, <1>4 DEF HttpHeader

(* A step at the size of a chunk keeps it. *)
LEMMA SizeArrives ==
    ASSUME UploadInv, StreamType, Arrives, ChunkSize
    PROVE  Arrives'
<1>1. /\ at = "size" /\ UNCHANGED <<job, body, offer, file>>
      /\ offer \in Offers /\ body \in Seq(Int) /\ line \in Seq(Int) /\ stream \in Seq(Int) /\ file \in Seq(Int)
  BY DEF ChunkSize, ReceiveByte, Keep, httpVars, StreamType, UploadInv
<1>2. CASE ReceiveByte("size", 2)
  <2>1. /\ ~Terminated(line, 2) /\ stream # <<>> /\ line' = Append(line, Head(stream)) /\ stream' = Tail(stream)
        /\ UNCHANGED <<at, cut>>
    BY <1>2 DEF ReceiveByte
  <2> SUFFICES ASSUME job = "down", ~cut PROVE Prefix(file', body') /\ SizeComes'
    BY <1>1, <2>1 DEF Arrives
  <2>2. Prefix(file, body) /\ SizeComes
    BY <1>1 DEF Arrives
  <2>3. SizeComes'
    BY <1>1, <2>1, <2>2, SizeByte
  <2>4. QED BY <1>1, <2>2, <2>3
<1>3. CASE /\ cut' = (cut \/ ~Terminated(line, 2))
           /\ LET n == Number(line, Hex)
              IN  IF n = 0 THEN DownloadEnds("-1") /\ UNCHANGED left
                           ELSE at' = "chunk data" /\ left' = n /\ UNCHANGED <<fp, socket, result>>
           /\ line' = <<>>
           /\ Keep /\ UNCHANGED <<pos, stream, file>>
  <2> SUFFICES ASSUME job = "down", ~cut' PROVE Arrives'
    BY <1>1 DEF Arrives
  <2>1. ~cut /\ Terminated(line, 2)
    BY <1>3
  <2>2. Prefix(file, body) /\ SizeComes
    BY <1>1, <2>1 DEF Arrives
  <2>3. /\ Number(line, Hex) = 0 => Complete'
        /\ Number(line, Hex) # 0 /\ left' = Number(line, Hex) => ChunkComes'
    BY <1>1, <1>3, <2>1, <2>2, SizeReadKeeps
  <2>4. \/ at' = "done" /\ Complete'
        \/ at' = "chunk data" /\ ChunkComes'
    BY <1>3, <2>3 DEF DownloadEnds, Ends
  <2>5. QED BY <1>1, <2>2, <2>4 DEF Arrives
<1>4. QED BY <1>2, <1>3 DEF ChunkSize

(* A block that is received and written keeps it. *)
LEMMA BlockArrives ==
    ASSUME UploadInv, StreamType, Arrives, Reader
    PROVE  Arrives'
<1>1. /\ at \in {"data", "chunk data"} /\ UNCHANGED <<job, body, offer, at, line, cut>>
      /\ body \in Seq(Int) /\ stream \in Seq(Int) /\ file \in Seq(Int)
  BY DEF Reader, httpVars, StreamType, UploadInv
<1> SUFFICES ASSUME job = "down", ~cut
             PROVE  /\ Prefix(file', body')
                    /\ at = "chunk data" => ChunkComes'
                    /\ at = "data" => DataComes'
  BY <1>1 DEF Arrives
<1>2. /\ at = "chunk data" => ChunkComes
      /\ at = "data" => DataComes
  BY DEF Arrives
<1>3. left \in Nat
  BY <1>1, <1>2 DEF ChunkComes, DataComes
<1>4. PICK k \in 1..Block : k <= left /\ k <= Len(stream) /\ ReaderTakes(k) /\ stream' = From(stream, k + 1)
  BY DEF Reader
<1>5. /\ file' \in Seq(Int) /\ stream' \in Seq(Int) /\ file' \o stream' = file \o stream
      /\ left' \in Nat /\ left' + Len(file') = left + Len(file)
  BY <1>1, <1>3, <1>4, BlockTaken
<1>6. CASE at = "chunk data"
  <2>1. ChunkComes' /\ Prefix(file', body)
    BY <1>1, <1>2, <1>5, <1>6, ChunkBlock
  <2>2. QED BY <1>1, <1>6, <2>1
<1>7. CASE at = "data"
  <2>1. DataComes' /\ Prefix(file', body)
    BY <1>1, <1>2, <1>5, <1>7, DataBlock
  <2>2. QED BY <1>1, <1>7, <2>1
<1>8. QED BY <1>1, <1>6, <1>7

(* The end of a chunk, or of the data, keeps it. *)
LEMMA EndArrives ==
    ASSUME UploadInv, StreamType, Arrives, ReaderEnds
    PROVE  Arrives'
<1>1. /\ at \in {"data", "chunk data"} /\ UNCHANGED <<job, body, offer, line, cut, file, stream>> /\ left = 0
      /\ body \in Seq(Int) /\ stream \in Seq(Int) /\ file \in Seq(Int)
  BY DEF ReaderEnds, AllRead, Keep, httpVars, StreamType, UploadInv
<1> SUFFICES ASSUME job = "down", ~cut PROVE Arrives'
  BY <1>1 DEF Arrives
<1>2. /\ Prefix(file, body)
      /\ at = "chunk data" => ChunkComes
      /\ at = "data" => DataComes
  BY DEF Arrives
<1>3. CASE at = "data"
  <2>1. offer = "length" /\ (Len(body) < Dec => file = body)
    BY <1>1, <1>2, <1>3, AllDataCame DEF DataComes
  <2>2. Complete'
    BY <1>1, <2>1 DEF Complete
  <2>3. at' = "done"
    BY <1>3 DEF ReaderEnds, DownloadEnds, Ends
  <2>4. QED BY <1>1, <1>2, <2>2, <2>3 DEF Arrives
<1>4. CASE at = "chunk data"
  <2>1. file = FirstData(offer, body) /\ (\E r \in Seq(Int) : stream = End \o r) /\ offer \in Chunky /\ line = <<>>
    BY <1>1, <1>2, <1>4, AllDataCame DEF ChunkComes
  <2>2. \E r \in Seq(Int) : line' \o stream' = End \o r
    <3>1. <<>> \o stream = stream
      BY <1>1, Whole
    <3>2. QED BY <1>1, <2>1, <3>1
  <2>3. Len(line') <= Len(End)
    BY <1>1, <2>1, StreamParts, NothingYet
  <2>4. SizeComes'
    BY <1>1, <2>1, <2>2, <2>3 DEF SizeComes
  <2>5. at' = "size"
    BY <1>4 DEF ReaderEnds
  <2>6. QED BY <1>1, <1>2, <2>4, <2>5 DEF Arrives
<1>5. QED BY <1>1, <1>3, <1>4

(* Every step keeps it. *)
LEMMA ArrivesStep == UploadInv /\ StreamType /\ Arrives /\ [Next]_vars => Arrives'
<1> SUFFICES ASSUME UploadInv, StreamType, Arrives, [Next]_vars PROVE Arrives'
  OBVIOUS
<1>1. CASE ReaderFails \/ WriteFails
  BY <1>1, FailsArrived DEF ReaderFails, WriteFails, DownloadEnds, Ends, Keep, httpVars
<1>2. QED
  BY <1>1, OthersArrive, HeaderArrives, SizeArrives, BlockArrives, EndArrives DEF Next

(* While a download goes on and after it, however the receives divide the  *)
(* response, what arrives does so where Arrives says.                      *)
LEMMA AlwaysArrives == Spec => [](UploadInv /\ StreamType /\ Arrives)
<1> DEFINE Inv == UploadInv /\ StreamType /\ Arrives
<1>1. Init => Inv
  <2>1. <<>> \in Seq(Int) /\ "refused" \in Offers
    BY NoStream DEF Offers
  <2>2. Init => UploadInv
    BY DEF Init, UploadInv, UploadWhole
  <2>3. QED BY <2>1, <2>2 DEF Init, StreamType, Arrives
<1>2. Inv /\ [Next]_vars => Inv'
  BY UploadStep, TypeStep, ArrivesStep
<1>3. QED BY <1>1, <1>2, PTL DEF Spec

(* tr50_file_download writes a beginning of the file and nothing else, in  *)
(* a length that is read with base 16, in two chunks of which the second   *)
(* is not found, and when a receive fails, unless it fails in a line.      *)
THEOREM DownloadPrefixCorrect == Spec => []DownloadPrefix
<1>1. Arrives => DownloadPrefix
  BY DEF Arrives, DownloadPrefix
<1>2. QED BY <1>1, AlwaysArrives, PTL

(* A download that returns 0 has the whole file, of any length, when it    *)
(* came in one chunk, and when its length has one digit.                   *)
THEOREM DownloadWholeCorrect == Spec => []DownloadWhole
<1>1. Arrives => DownloadWhole
  BY DEF Arrives, Complete, DownloadWhole
<1>2. QED BY <1>1, AlwaysArrives, PTL
=============================================================================
