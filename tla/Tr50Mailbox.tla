---------------------------- MODULE Tr50Mailbox ----------------------------
(***************************************************************************)
(* The mailbox of a client, tr50.mailbox.c, and the commands and methods   *)
(* its messages are handed to, tr50.command.c and tr50.method.c.           *)
(*                                                                         *)
(* Any thread may check the mailbox: the application's (Users), the        *)
(* receive thread (Recv) when a notification arrives, and the receive or   *)
(* the expiration thread (Pend) from the callback of the check before.     *)
(* One check is under way at a time; the others leave a note for its       *)
(* callback (another).  What client->mailbox_check_mux protects is one     *)
(* step.                                                                   *)
(*                                                                         *)
(* A check is a request as Tr50Requests has it: it is refused, or its      *)
(* callback runs once with a reply or when it expires, possibly before     *)
(* the call has returned, or it is dropped.  It is named by the thread     *)
(* that made it.  The mutexes of the request engine are not modelled but   *)
(* for the cycle they can be in (Tr50Api, NoLockCycle), which ends every   *)
(* call: LockCycle.                                                        *)
(*                                                                         *)
(* TakeBackAnyway, ProcessCommandTwice, FinishAlone and ExpireSilently are *)
(* not part of Next: they are plausible mistakes, each                     *)
(* in place of the definition after it, that the properties rule out.      *)
(***************************************************************************)
EXTENDS Naturals

CONSTANTS
    Users, Recv, Pend,  \* threads
    Mail,               \* messages of the mailbox
    NoMail,             \* no message
    ExecCommand         \* a command "method.exec" is registered

Threads == Users \cup {Recv, Pend}

ASSUME MailboxAssumption ==
    /\ Recv \notin Users /\ Pend \notin Users /\ Recv # Pend
    /\ NoMail \notin Mail /\ ExecCommand \in BOOLEAN

(* What a message asks for: a command or a method that the application has *)
(* or has not registered, a method without a name; or a part is missing.   *)
Kinds == {"command", "unknown", "method", "unknownMethod", "unnamedMethod", "incomplete"}
MethodKinds == {"method", "unknownMethod", "unnamedMethod"}

VARIABLES
    suspended,  \* client->mailbox_suspend
    inProgress, \* client->mailbox_send_in_progress
    another,    \* client->mailbox_another_request
    inUse,      \* method_registration_inuse
    pc,         \* where each thread is
    items,      \* the messages its callback has still to hand over
    more,       \* count > 0 in its callback
    cur,        \* the message it hands over
    kind,       \* what that message asks for
    open,       \* the threads whose check is among the pending requests
    answered,   \* those of them that the server has answered
    reply,      \* with these messages
    box,        \* the messages at the server
    sent,       \* the messages ever sent to it
    runs,       \* how many callbacks of the application got it
    acks,       \* how many times the library acknowledged it with an error
    promised,   \* messages that were in the box when a check was accepted,
                \* since the last one that failed (history)
    dropped     \* a reply was no reply message (history)

flagVars   == <<suspended, inProgress, another, inUse>>
threadVars == <<pc, items, more, cur, kind>>
reqVars    == <<open, answered, reply>>
mailVars   == <<box, sent>>
doneVars   == <<runs, acks>>
histVars   == <<promised, dropped>>
vars == <<flagVars, threadVars, reqVars, mailVars, doneVars, histVars>>

Init ==
    /\ suspended = FALSE /\ inProgress = FALSE /\ another = FALSE /\ inUse = FALSE
    /\ pc = [t \in Threads |-> "idle"]
    /\ items = [t \in Threads |-> {}]
    /\ more = [t \in Threads |-> FALSE]
    /\ cur = [t \in Threads |-> NoMail]
    /\ kind = [t \in Threads |-> "incomplete"]
    /\ open = {} /\ answered = {} /\ reply = [t \in Threads |-> {}]
    /\ box = {} /\ sent = {}
    /\ runs = [x \in Mail |-> 0] /\ acks = [x \in Mail |-> 0]
    /\ promised = {} /\ dropped = FALSE

Goto(t, p) == pc' = [pc EXCEPT ![t] = p] /\ UNCHANGED <<items, more, cur, kind>>

(* A thread waits for ever for a mutex of the request engine. *)
Stuck == \E t \in Threads : pc[t] = "stuck"

-----------------------------------------------------------------------------
(* tr50_mailbox_check. *)

(* The application checks, or a notification arrives. *)
Begin(t) ==
    /\ t # Pend /\ pc[t] = "idle"
    /\ Goto(t, "check")
    /\ UNCHANGED <<flagVars, reqVars, mailVars, doneVars, histVars>>

(* The mailbox is suspended; a check that a callback owes is not made. *)
Suspended(t) ==
    /\ pc[t] \in {"check", "again"} /\ suspended
    /\ promised' = IF pc[t] = "again" THEN {} ELSE promised
    /\ Goto(t, "idle")
    /\ UNCHANGED <<flagVars, reqVars, mailVars, doneVars, dropped>>

NotSuspended(t) ==
    /\ pc[t] \in {"check", "again"} /\ ~suspended
    /\ Goto(t, "claim")
    /\ UNCHANGED <<flagVars, reqVars, mailVars, doneVars, histVars>>

(* No check is under way: this one is. *)
Claim(t) ==
    /\ pc[t] = "claim" /\ ~inProgress
    /\ inProgress' = TRUE
    /\ promised' = promised \cup box
    /\ Goto(t, "call")
    /\ UNCHANGED <<suspended, another, inUse, reqVars, mailVars, doneVars, dropped>>

(* One is: its callback will make another. *)
LeaveNote(t) ==
    /\ pc[t] = "claim" /\ inProgress
    /\ another' = TRUE
    /\ promised' = promised \cup box
    /\ Goto(t, "idle")
    /\ UNCHANGED <<suspended, inProgress, inUse, reqVars, mailVars, doneVars, dropped>>

(* tr50_api_call_async lists the request ... *)
List(t) ==
    /\ pc[t] = "call" /\ ~Stuck
    /\ open' = open \cup {t}
    /\ Goto(t, "send")
    /\ UNCHANGED <<flagVars, answered, reply, mailVars, doneVars, histVars>>

(* ... or refuses it; *)
Refuse(t) ==
    /\ pc[t] = "call" /\ ~Stuck
    /\ Goto(t, "fail")
    /\ UNCHANGED <<flagVars, reqVars, mailVars, doneVars, histVars>>

(* it publishes it, *)
Sent(t) ==
    /\ pc[t] = "send"
    /\ Goto(t, "idle")
    /\ UNCHANGED <<flagVars, reqVars, mailVars, doneVars, histVars>>

TakeBackAnyway(t) ==
    /\ pc[t] = "send" /\ t \notin answered /\ ~Stuck
    /\ open' = open \ {t}
    /\ Goto(t, "fail")
    /\ UNCHANGED <<flagVars, answered, reply, mailVars, doneVars, histVars>>

(* or fails to, and takes it back if it has not expired meanwhile. *)
TakeBack(t) ==
    /\ pc[t] = "send" /\ t \in open /\ t \notin answered /\ ~Stuck
    /\ open' = open \ {t}
    /\ Goto(t, "fail")
    /\ UNCHANGED <<flagVars, answered, reply, mailVars, doneVars, histVars>>

(* The callback of an expiration runs with pending->mux held.  When it     *)
(* calls the api - that of a check calls tr50_mailbox_check - it waits for *)
(* client->mux, whose owner may be in a call that waits for pending->mux.  *)
(* t is in the cycle, or in a call behind it.                              *)
LockCycle(t) ==
    /\ pc[t] \in {"call", "send"}
    /\ Goto(t, "stuck")
    /\ UNCHANGED <<flagVars, reqVars, mailVars, doneVars, histVars>>

(* The call returned an error: end_error. *)
Fail(t) ==
    /\ pc[t] = "fail"
    /\ inProgress' = FALSE /\ another' = FALSE
    /\ promised' = {}
    /\ Goto(t, "idle")
    /\ UNCHANGED <<suspended, inUse, reqVars, mailVars, doneVars, dropped>>

-----------------------------------------------------------------------------
(* The server, which gives each message out once, and the end of a check.  *)

Arrive(x) ==
    /\ x \notin sent
    /\ box' = box \cup {x}
    /\ sent' = sent \cup {x}
    /\ UNCHANGED <<flagVars, threadVars, reqVars, doneVars, histVars>>

Answer(t) ==
    /\ t \in open \ answered
    /\ answered' = answered \cup {t}
    /\ reply' = [reply EXCEPT ![t] = box]
    /\ box' = {}
    /\ UNCHANGED <<flagVars, threadVars, open, sent, doneVars, histVars>>

(* The server answers with an error, and the reply has no messages. *)
AnswerError(t) ==
    /\ t \in open \ answered
    /\ answered' = answered \cup {t}
    /\ promised' = IF another THEN promised ELSE {}
    /\ UNCHANGED <<flagVars, threadVars, open, reply, mailVars, doneVars, dropped>>

(* _tr50_mailbox_check_callback begins on thread w with the messages S. *)
Callback(w, S) ==
    /\ pc[w] = "idle"
    /\ pc' = [pc EXCEPT ![w] = "callback"]
    /\ items' = [items EXCEPT ![w] = S]
    /\ more' = [more EXCEPT ![w] = S # {}]
    /\ UNCHANGED <<cur, kind>>

(* The request of t is no longer pending, which takes pending->mux. *)
Close(t) ==
    /\ ~Stuck
    /\ open' = open \ {t} /\ answered' = answered \ {t}
    /\ reply' = [reply EXCEPT ![t] = {}]

Reply(t) ==
    /\ t \in open \cap answered
    /\ Callback(Recv, reply[t])
    /\ Close(t)
    /\ UNCHANGED <<flagVars, mailVars, doneVars, histVars>>

ExpireSilently(t) ==
    /\ t \in open /\ pc[Pend] = "idle"
    /\ Close(t)
    /\ UNCHANGED <<threadVars, flagVars, mailVars, doneVars, histVars>>

(* The check expires; a later reply to it is ignored. *)
Expire(t) ==
    /\ t \in open
    /\ Callback(Pend, {})
    /\ Close(t)
    /\ promised' = IF another THEN promised ELSE {}
    /\ UNCHANGED <<flagVars, mailVars, doneVars, dropped>>

(* The reply is no reply message: the callback does not run. *)
Drop(t) ==
    /\ t \in open \cap answered /\ pc[Recv] = "idle"
    /\ Close(t)
    /\ dropped' = TRUE
    /\ UNCHANGED <<flagVars, threadVars, mailVars, doneVars, promised>>

-----------------------------------------------------------------------------
(* _tr50_mailbox_check_callback on thread w. *)

(* The next message, which asks for k; one with a part missing is passed. *)
Take(w) ==
    /\ pc[w] = "callback"
    /\ \E x \in items[w], k \in Kinds :
         /\ items' = [items EXCEPT ![w] = @ \ {x}]
         /\ IF k = "incomplete"
            THEN UNCHANGED <<pc, cur, kind>>
            ELSE /\ cur' = [cur EXCEPT ![w] = x]
                 /\ kind' = [kind EXCEPT ![w] = k]
                 /\ pc' = [pc EXCEPT ![w] = IF k \in MethodKinds
                                            THEN "method" ELSE "command"]
    /\ UNCHANGED <<more, flagVars, reqVars, mailVars, doneVars, histVars>>

RunIt(x) == runs' = [runs EXCEPT ![x] = @ + 1] /\ UNCHANGED acks

(* tr50_command_ack and tr50_method_ack, of which only the callers differ. *)
CommandAck(x) == acks' = [acks EXCEPT ![x] = @ + 1] /\ UNCHANGED runs
MethodAck(x)  == CommandAck(x)

(* tr50_method_process. *)
ProcessMethod(w) ==
    LET x == cur[w] IN
    /\ pc[w] = "method"
    /\ \/ (~inUse \/ kind[w] = "unnamedMethod") /\ UNCHANGED doneVars
       \/ inUse /\ kind[w] = "method" /\ RunIt(x)
       \/ inUse /\ kind[w] = "unknownMethod" /\ MethodAck(x)
    /\ Goto(w, "command")
    /\ UNCHANGED <<flagVars, reqVars, mailVars, histVars>>

(* The command of a message that asks for k is registered. *)
HasCommand(k) == IF k \in MethodKinds THEN ExecCommand ELSE k = "command"

ProcessCommandTwice(w) ==
    LET x == cur[w] IN
    /\ pc[w] = "command"
    /\ IF HasCommand(kind[w]) THEN RunIt(x) ELSE CommandAck(x)
    /\ pc' = [pc EXCEPT ![w] = "callback"]
    /\ cur' = [cur EXCEPT ![w] = NoMail]
    /\ kind' = [kind EXCEPT ![w] = "incomplete"]
    /\ UNCHANGED <<items, more, flagVars, reqVars, mailVars, histVars>>

(* tr50_command_process leaves methods alone once one is registered. *)
ProcessCommand(w) ==
    LET x == cur[w] IN
    /\ pc[w] = "command"
    /\ \/ kind[w] \in MethodKinds /\ inUse /\ UNCHANGED doneVars
       \/ /\ kind[w] \notin MethodKinds \/ ~inUse
          /\ IF HasCommand(kind[w]) THEN RunIt(x) ELSE CommandAck(x)
    /\ pc' = [pc EXCEPT ![w] = "callback"]
    /\ cur' = [cur EXCEPT ![w] = NoMail]
    /\ kind' = [kind EXCEPT ![w] = "incomplete"]
    /\ UNCHANGED <<items, more, flagVars, reqVars, mailVars, histVars>>

FinishAlone(w) ==
    /\ pc[w] = "callback" /\ items[w] = {}
    /\ inProgress' = FALSE
    /\ another' = FALSE
    /\ Goto(w, IF more[w] THEN "again" ELSE "idle")
    /\ UNCHANGED <<suspended, inUse, reqVars, mailVars, doneVars, histVars>>

(* check_for_another_mail_item. *)
Finish(w) ==
    /\ pc[w] = "callback" /\ items[w] = {}
    /\ inProgress' = FALSE
    /\ another' = FALSE
    /\ Goto(w, IF more[w] \/ another THEN "again" ELSE "idle")
    /\ UNCHANGED <<suspended, inUse, reqVars, mailVars, doneVars, histVars>>

-----------------------------------------------------------------------------
(* The application's other calls. *)

(* tr50_mailbox_suspend. *)
Suspend(u) ==
    /\ pc[u] = "idle" /\ suspended' = TRUE
    /\ UNCHANGED <<inProgress, another, inUse, threadVars, reqVars, mailVars,
                   doneVars, histVars>>

(* tr50_mailbox_resume. *)
Resume(u) ==
    /\ pc[u] = "idle" /\ suspended' = FALSE
    /\ \E check_immediately \in BOOLEAN :
         Goto(u, IF check_immediately THEN "check" ELSE "idle")
    /\ UNCHANGED <<inProgress, another, inUse, reqVars, mailVars, doneVars, histVars>>

(* tr50_method_register, the first time. *)
RegisterMethod(u) ==
    /\ pc[u] = "idle" /\ inUse' = TRUE
    /\ UNCHANGED <<suspended, inProgress, another, threadVars, reqVars, mailVars,
                   doneVars, histVars>>

-----------------------------------------------------------------------------
CheckStep(t) ==
    \/ Suspended(t) \/ NotSuspended(t) \/ Claim(t) \/ LeaveNote(t)
    \/ List(t) \/ Refuse(t) \/ Sent(t) \/ TakeBack(t) \/ Fail(t)

CallbackStep(w) == Take(w) \/ ProcessMethod(w) \/ ProcessCommand(w) \/ Finish(w)

Next ==
    \/ \E t \in Threads :
         \/ Begin(t) \/ CheckStep(t) \/ LockCycle(t) \/ CallbackStep(t)
         \/ Answer(t) \/ AnswerError(t) \/ Reply(t) \/ Expire(t) \/ Drop(t)
    \/ \E x \in Mail : Arrive(x)
    \/ \E u \in Users : Suspend(u) \/ Resume(u) \/ RegisterMethod(u)
    \/ Stuck /\ UNCHANGED vars

Spec == Init /\ [][Next]_vars

(***************************************************************************)
(* Fairness.  Threads run, and a request expires if it is not answered in  *)
(* its time.  Nothing is assumed of the server, nor that the mutexes of    *)
(* the request engine are free of cycles.                                  *)
(***************************************************************************)
Fairness ==
    /\ \A t \in Threads : WF_vars(CheckStep(t)) /\ WF_vars(CallbackStep(t))
    /\ WF_vars(\E t \in Threads : Expire(t))

FairSpec == Spec /\ Fairness
-----------------------------------------------------------------------------
(* Properties. *)

(* The threads that are making a check, or are in its callback. *)
Checking == {t \in Threads : pc[t] \in {"call", "fail", "callback", "method", "command"}}

(* The request, its failure and its callback hand mailbox_send_in_progress *)
(* on between threads: one check is under way at a time, and a callback of *)
(* an old one never lets a second one in.                                  *)
OneCheck ==
    /\ \A t, u \in Checking : t = u
    /\ \A t, u \in open : t = u
    /\ (Checking = {} \/ open = {})
    /\ (Checking # {} \/ open # {} => inProgress)

(* A message goes to tr50_method_process and to tr50_command_process: it   *)
(* reaches one callback, or is acknowledged with one error, not both.      *)
OneAnswer == \A x \in Mail : runs[x] + acks[x] <= 1

(* A check that was accepted - sent, or left as a note for the one under   *)
(* way - covers the mail that was there: as long as no check fails and no  *)
(* thread is stuck, none stays at the server with no check to come.        *)
NoMailForgotten ==
    \/ promised \cap box = {}
    \/ dropped \/ Stuck
    \/ open \ answered # {}
    \/ (inProgress /\ another)
    \/ \E t \in Threads :
         \/ pc[t] \in {"again", "claim", "call", "fail"}
         \/ pc[t] \in {"callback", "method", "command"} /\ more[t]

(* A check ends, whatever the server does, unless its reply is dropped or  *)
(* the mutexes of the request engine are in a cycle: otherwise every later *)
(* one would only leave a note.                                            *)
CheckEnds == inProgress ~> ~inProgress \/ dropped \/ Stuck
=============================================================================
