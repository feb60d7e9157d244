----------------------------- MODULE Tr50Worker -----------------------------
(***************************************************************************)
(* The wrappers of tr50.worker.c and tr50.worker.extended.c: each takes    *)
(* JSON of the caller, puts it into a message, makes one call of the api,  *)
(* and reads the answer.  What can go wrong is memory: what the caller     *)
(* gave is the wrapper's from the first line on, on every path.            *)
(*                                                                         *)
(* root[o] is the root of the JSON tree or message that object o is in,    *)
(* Nil when o is not allocated.  tr50_json_create_object never returns     *)
(* NULL (it writes to what malloc returned), so that the tests for it are  *)
(* left out; tr50_json_add_item_to_object writes to the item, so that      *)
(* req_params is never NULL where a wrapper has it.                        *)
(*                                                                         *)
(* DeleteParamsToo is no part of the specification: see Tr50File.          *)
(***************************************************************************)
EXTENDS Naturals, Sequences

CONSTANT Nil

Objects == {"optional", "req", "params", "message", "answer", "reply", "item", "error"}

ASSUME WorkerAssumption == Nil \notin Objects

VARIABLES
    root,       \* see above
    misused,    \* something was freed that was not allocated
    work,       \* the wrapper that was called, or Nil
    args,       \* its arguments: optional, reply, error \in BOOLEAN
    place,      \* the place of the caller in it
    server,     \* the answer to it, while it is there
    ret,        \* what it returned: 0, or why not
    given       \* what it gave to the caller

workerVars == <<root, misused, work, args, place, server, ret, given>>
-----------------------------------------------------------------------------
(* JSON trees. *)

Live == {o \in Objects : root[o] # Nil}

(* tr50_json_create_object, and what is allocated in one piece. *)
Create(r, S)   == [o \in Objects |-> IF o \in S THEN o ELSE r[o]]

(* tr50_json_add_item_to_object: the tree of item becomes part of that of o. *)
AddItem(r, o, item) == [p \in Objects |-> IF r[p] = item THEN r[o] ELSE r[p]]

(* tr50_json_detach_item_from_object, for the one item that is detached:   *)
(* the parameters of a reply, with the items in them.                      *)
Detach(r) == [o \in Objects |-> IF o \in {"reply", "item"} /\ r[o] # Nil THEN "reply" ELSE r[o]]

(* tr50_json_delete and tr50_message_delete, for each of the roots in S.   *)
Delete(r, S) == [o \in Objects |-> IF r[o] \in S THEN Nil ELSE r[o]]

Deleting(r, S) == root' = Delete(r, S) /\ misused' = (misused \/ \E o \in S : r[o] # o)
-----------------------------------------------------------------------------
(* The wrappers: whether a NULL argument is refused, whether req_params is  *)
(* taken, how the call is made, and what becomes of the reply's parameters. *)
(* tr50_method_exec_ex_sync does not wait, in spite of its name.            *)

Wrapper(cmd, refuses, req, send, done) ==
    [cmd |-> cmd, refuses |-> refuses, req |-> req, send |-> send, done |-> done]

MethodExecAsync  == Wrapper("method.exec", TRUE, TRUE, "async", "none")
MethodExecSync   == Wrapper("method.exec", TRUE, TRUE, "json", "none")
AlarmPublish     == Wrapper("alarm.publish", TRUE, FALSE, "sync", "dropped")
LocationPublish  == Wrapper("location.publish", FALSE, FALSE, "sync", "dropped")
LogPublish       == Wrapper("log.publish", TRUE, FALSE, "sync", "dropped")
MailboxSend      == Wrapper("mailbox.send", TRUE, TRUE, "sync", "dropped")
PropertyPublish  == Wrapper("property.publish", TRUE, FALSE, "sync", "dropped")
PropertyCurrent  == Wrapper("property.current", TRUE, FALSE, "sync", "handed")
ThingAttrSet     == Wrapper("thing.attr.set", TRUE, FALSE, "sync", "dropped")
ThingAttrGet     == Wrapper("thing.attr.get", TRUE, FALSE, "sync", "pointer")
ThingAttrUnset   == Wrapper("thing.attr.unset", TRUE, FALSE, "sync", "dropped")
ThingBind        == Wrapper("thing.bind", TRUE, FALSE, "sync", "dropped")
ThingUnbind      == Wrapper("thing.unbind", TRUE, FALSE, "sync", "dropped")
ThingTagAdd      == Wrapper("thing.tag.add", TRUE, FALSE, "sync", "dropped")
ThingTagDelete   == Wrapper("thing.tag.delete", TRUE, FALSE, "sync", "dropped")
FileGet          == Wrapper("file.get", TRUE, FALSE, "sync", "handed")
FilePut          == Wrapper("file.put", TRUE, FALSE, "sync", "handed")

Wrappers ==
    {MethodExecAsync, MethodExecSync, AlarmPublish, LocationPublish, LogPublish, MailboxSend,
     PropertyPublish, PropertyCurrent, ThingAttrSet, ThingAttrGet, ThingAttrUnset,
     ThingBind, ThingUnbind, ThingTagAdd, ThingTagDelete, FileGet, FilePut}

(* The functions of tr50.worker.c pass NULL for all that is optional. *)
Simple == [optional |-> FALSE, reply |-> FALSE, error |-> FALSE]

AllArgs == [optional : BOOLEAN, reply : BOOLEAN, error : BOOLEAN]
-----------------------------------------------------------------------------
(* The answer to a call: whether it has "success" at its root and in the   *)
(* part of the command ("yes", "no", "none"; "absent" when there is no     *)
(* part), error codes, error messages, and parameters.                     *)

Answers ==
    [top : {"yes", "no", "none"}, cmd : {"yes", "no", "none", "absent"},
     codes : BOOLEAN, messages : BOOLEAN, params : BOOLEAN]

(* tr50_api_call_sync makes this one for a call that has expired. *)
Expired == [top |-> "no", cmd |-> "absent", codes |-> TRUE, messages |-> TRUE, params |-> FALSE]

Refusal(a) == a.top = "no" \/ (a.top = "none" /\ a.cmd = "no")

(* tr50_reply_get_error_code *)
ReplyGetErrorCode(a) ==
    CASE a.top = "yes"                      -> "invalid"
      [] a.top = "none" /\ a.cmd = "absent" -> "not found"
      [] Refusal(a)                         -> IF a.codes THEN "error" ELSE "code missing"
      [] OTHER                              -> "ok"

(* tr50_reply_get_error_message *)
ReplyHasErrorMessage(a) == Refusal(a) /\ a.messages

(* tr50_reply_get_params *)
ReplyHasParams(a) == a.cmd # "absent" /\ a.params
-----------------------------------------------------------------------------
WorkerInit ==
    /\ root = [o \in Objects |-> Nil] /\ misused = FALSE
    /\ work = Nil /\ args = Simple /\ place = "idle"
    /\ server = Expired /\ ret = "ok" /\ given = {}

(* The caller makes a call with JSON of its own. *)
Call(w, a) ==
    /\ place = "idle"
    /\ work' = w /\ args' = a /\ place' = "called"
    /\ root' = Create(root, (IF a.optional THEN {"optional"} ELSE {})
                              \cup (IF w.req THEN {"req"} ELSE {}))
    /\ ret' = "ok" /\ given' = {}
    /\ UNCHANGED <<misused, server>>

Params == IF args.optional THEN "optional" ELSE "params"

(* A NULL argument: what was given is deleted. *)
Refuse ==
    /\ place = "called" /\ work.refuses
    /\ Deleting(root, Live)
    /\ ret' = "parms" /\ place' = "return"
    /\ UNCHANGED <<work, args, server, given>>

(* params is optional_params or new, and req_params becomes part of it. *)
Prepare ==
    /\ place = "called"
    /\ root' = LET r == IF args.optional THEN root ELSE Create(root, {"params"})
               IN  IF work.req THEN AddItem(r, Params, "req") ELSE r
    /\ place' = "send"
    /\ UNCHANGED <<misused, work, args, server, ret, given>>

(* send_json, send_json_sync, send_json_async: no message is to be had. *)
MessageCreateFails ==
    /\ place = "send"
    /\ Deleting(root, {Params})
    /\ ret' = "malloc" /\ place' = "failed"
    /\ UNCHANGED <<work, args, server, given>>

(* tr50_message_create *)
MessageCreate(r) == Create(r, {"message"})

(* tr50_message_add_command *)
MessageAddCommand(r) == AddItem(MessageCreate(r), "message", Params)

DeleteParamsToo(r) == Deleting(r, {Params, "message"})

(* The api has refused the message. *)
DeleteMessage(r) == Deleting(r, {"message"})

ApiRefuses ==
    /\ place = "send"
    /\ DeleteMessage(MessageAddCommand(root))
    /\ ret' = "refused" /\ place' = "failed"
    /\ UNCHANGED <<work, args, server, given>>

(* send_json and send_json_async are done when the api has the message,    *)
(* which the library deletes later.                                        *)
SendJson ==
    /\ place = "send" /\ work.send # "sync"
    /\ root' = MessageAddCommand(root)
    /\ place' = "return"
    /\ UNCHANGED <<misused, work, args, server, ret, given>>

LibraryDeletes ==
    /\ place = "return" /\ root["message"] = "message"
    /\ Deleting(root, {"message"})
    /\ UNCHANGED <<work, args, place, server, ret, given>>

(* send_json_sync waits for an answer, whatever it is, or for the end of   *)
(* its time; the library deletes the request.                              *)
SendJsonSync ==
    /\ place = "send" /\ work.send = "sync"
    /\ server' \in Answers
    /\ LET r == MessageAddCommand(root)
           s == IF ReplyHasParams(server')
                THEN AddItem(Create(r, {"answer", "reply", "item"}), "reply", "item")
                ELSE Create(r, {"answer"})
       IN  root' = Delete(IF ReplyHasParams(server') THEN AddItem(s, "answer", "reply") ELSE s,
                          {"message"})
    /\ place' = "answered"
    /\ UNCHANGED <<misused, work, args, ret, given>>

(* The error of an answer, with a copy of its message for the caller. *)
AnswerIsError ==
    /\ place = "answered" /\ ReplyGetErrorCode(server) # "ok"
    /\ LET copies == args.error /\ ReplyHasErrorMessage(server)
       IN  /\ Deleting(IF copies THEN Create(root, {"error"}) ELSE root, {"answer"})
           /\ given' = given \cup (IF copies THEN {"error"} ELSE {})
    /\ ret' = ReplyGetErrorCode(server) /\ place' = "failed"
    /\ server' = Expired
    /\ UNCHANGED <<work, args>>

(* Its parameters are taken out of an answer that is none, and the rest    *)
(* deleted.                                                                *)
AnswerIsReply ==
    /\ place = "answered" /\ ReplyGetErrorCode(server) = "ok"
    /\ Deleting(Detach(root), {"answer"})
    /\ place' = "replied" /\ server' = Expired
    /\ UNCHANGED <<work, args, ret, given>>

(* On an error, reply is still NULL: there is nothing to hand over. *)
Fail ==
    /\ place = "failed"
    /\ place' = "return"
    /\ UNCHANGED <<root, misused, work, args, server, ret, given>>

(* Most wrappers forget the parameters of the reply. *)
Drop ==
    /\ place = "replied" /\ work.done = "dropped"
    /\ place' = "return"
    /\ UNCHANGED <<root, misused, work, args, server, ret, given>>

(* The others read them and hand them over, or delete them.  The text that *)
(* tr50_thing_attr_get_ex returns is part of them, deleted or not.         *)
Hand ==
    /\ place = "replied" /\ work.done # "dropped"
    /\ given' = given \cup {o \in Live : \/ o = "reply" /\ args.reply
                                         \/ o = "item" /\ work.done = "pointer"}
    /\ IF args.reply \/ root["reply"] = Nil
       THEN UNCHANGED <<root, misused>>
       ELSE Deleting(root, {"reply"})
    /\ place' = "return"
    /\ UNCHANGED <<work, args, server, ret>>

(* The caller goes on, and deletes what it was given.  tr50_method_exec    *)
(* returns 0 whatever came of it.                                          *)
Done ==
    /\ place = "return" /\ root["message"] = Nil
    /\ place' = "idle" /\ work' = Nil
    /\ root' = [o \in Objects |-> Nil] /\ given' = {}
    /\ ret' = IF work.cmd = "method.exec" /\ args = Simple THEN "ok" ELSE ret
    /\ args' = Simple
    /\ UNCHANGED <<misused, server>>

WorkerStep ==
    \/ Refuse \/ Prepare \/ MessageCreateFails \/ ApiRefuses \/ SendJson
    \/ LibraryDeletes \/ SendJsonSync \/ AnswerIsError \/ AnswerIsReply
    \/ Fail \/ Drop \/ Hand
-----------------------------------------------------------------------------
(* When a wrapper returns, on whatever path, the JSON it was given, the    *)
(* message and the answer have been deleted, each once, or are in the      *)
(* message the library has; what is left is the caller's or is the reply   *)
(* that most wrappers forget.  What the caller is given is allocated, but  *)
(* for the text of tr50_thing_attr_get, which takes no reply.              *)
Settled ==
    /\ ~misused
    /\ place = "return" =>
         /\ \A o \in Live : \/ root[o] = "message" /\ work.send # "sync"
                            \/ root[o] \in given
                            \/ root[o] = "reply" /\ work.done = "dropped"
         /\ given \subseteq Live \/ (work.done = "pointer" /\ ~args.reply)
=============================================================================
