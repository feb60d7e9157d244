------------------------- MODULE Tr50Mailbox_proofs -------------------------
(***************************************************************************)
(* Proofs about Tr50Mailbox, for any number of threads and messages.       *)
(*                                                                         *)
(* OneCheck and NoMailForgotten are inductive with the types of the        *)
(* variables.  OneAnswer is not: MailInv says in addition that a message   *)
(* is in one place at a time - at the server, in a reply, in the hands of  *)
(* a callback - and not answered before it is handed over.                 *)
(***************************************************************************)
EXTENDS Tr50Mailbox, TLAPS

Handing == {"callback", "method", "command"}    \* places in the callback
Pcs     == {"idle", "check", "again", "claim", "call", "send", "fail", "stuck"}
            \cup Handing

(* Types, and which sets are part of which. *)
TypeInv ==
    /\ suspended \in BOOLEAN /\ inProgress \in BOOLEAN /\ another \in BOOLEAN
    /\ inUse \in BOOLEAN /\ dropped \in BOOLEAN
    /\ pc \in [Threads -> Pcs] /\ items \in [Threads -> SUBSET Mail]
    /\ more \in [Threads -> BOOLEAN] /\ cur \in [Threads -> Mail \cup {NoMail}]
    /\ kind \in [Threads -> Kinds]
    /\ open \subseteq Threads /\ answered \subseteq open
    /\ reply \in [Threads -> SUBSET Mail]
    /\ sent \subseteq Mail /\ box \subseteq sent /\ promised \subseteq sent
    /\ runs \in [Mail -> Nat] /\ acks \in [Mail -> Nat]

(* Message x was neither handed to a callback nor acknowledged. *)
Fresh(x) == runs[x] = 0 /\ acks[x] = 0

MailInv ==
    /\ \A x \in Mail : runs[x] + acks[x] <= 1
    /\ \A x \in Mail : x \notin sent \/ x \in box => Fresh(x)
    /\ \A t \in Threads : reply[t] # {} => t \in answered
    /\ \A t \in Threads : \A x \in reply[t] : x \in sent /\ x \notin box /\ Fresh(x)
    /\ \A t \in Threads : items[t] # {} => pc[t] \in Handing
    /\ \A t \in Threads : \A x \in items[t] : x \in sent /\ x \notin box /\ Fresh(x)
    /\ \A t \in Threads : pc[t] \in {"method", "command"} =>
         /\ cur[t] \in sent /\ cur[t] \notin box /\ cur[t] \notin items[t]
         /\ \/ Fresh(cur[t])
            \/ pc[t] = "command" /\ kind[t] \in MethodKinds /\ inUse
    /\ \A t \in Threads : pc[t] = "method" => kind[t] \in MethodKinds

USE DEF flagVars, threadVars, reqVars, mailVars, doneVars, histVars, Goto

-----------------------------------------------------------------------------
(* Types. *)

(* tr50_create leaves every variable in its type. *)
LEMMA TypeInit == Init => TypeInv
<1> SUFFICES ASSUME Init PROVE TypeInv
  OBVIOUS
<1>1. /\ suspended \in BOOLEAN /\ inProgress \in BOOLEAN /\ another \in BOOLEAN
      /\ inUse \in BOOLEAN /\ dropped \in BOOLEAN /\ more \in [Threads -> BOOLEAN]
  BY DEF Init
<1>2. QED BY <1>1 DEF Init, TypeInv, Pcs, Handing, Kinds

(* Every step keeps every variable in its type; only a check that is open  *)
(* is answered, and only mail that was sent is in the box or promised.     *)
LEMMA TypeStep == TypeInv /\ [Next]_vars => TypeInv'
<1> SUFFICES ASSUME TypeInv, [Next]_vars PROVE TypeInv'
  OBVIOUS
<1>p. Recv \in Threads /\ Pend \in Threads /\ Users \subseteq Threads
  BY DEF Threads
<1> USE <1>p DEF TypeInv, Pcs, Handing
<1>1. ASSUME NEW t \in Threads, Begin(t) PROVE TypeInv'
  BY <1>1 DEF Begin
<1>2. ASSUME NEW t \in Threads, CheckStep(t) \/ LockCycle(t) PROVE TypeInv'
  <2>1. CASE Suspended(t) \/ NotSuspended(t) \/ Refuse(t) \/ Sent(t)
    BY <2>1 DEF Suspended, NotSuspended, Refuse, Sent
  <2>2. CASE List(t) \/ TakeBack(t)
    BY <2>2 DEF List, TakeBack
  <2>3. CASE Claim(t) \/ LeaveNote(t) \/ Fail(t)
    <3>1. inProgress' \in BOOLEAN /\ another' \in BOOLEAN
      BY <2>3 DEF Claim, LeaveNote, Fail
    <3>2. QED BY <2>3, <3>1 DEF Claim, LeaveNote, Fail
  <2>4. CASE LockCycle(t)
    BY <2>4 DEF LockCycle
  <2>5. QED BY <1>2, <2>1, <2>2, <2>3, <2>4 DEF CheckStep
<1>3. ASSUME NEW t \in Threads, CallbackStep(t) PROVE TypeInv'
  <2>1. CASE Take(t)
    <3>1. PICK x \in items[t], k \in Kinds :
            /\ items' = [items EXCEPT ![t] = @ \ {x}]
            /\ IF k = "incomplete"
               THEN UNCHANGED <<pc, cur, kind>>
               ELSE /\ cur' = [cur EXCEPT ![t] = x]
                    /\ kind' = [kind EXCEPT ![t] = k]
                    /\ pc' = [pc EXCEPT ![t] = IF k \in MethodKinds
                                               THEN "method" ELSE "command"]
      BY <2>1 DEF Take
    <3>2. /\ items' \in [Threads -> SUBSET Mail] /\ cur' \in [Threads -> Mail \cup {NoMail}]
          /\ kind' \in [Threads -> Kinds] /\ pc' \in [Threads -> Pcs]
      BY <3>1
    <3>3. QED BY <2>1, <3>2 DEF Take
  <2>2. CASE ProcessMethod(t)
    <3>1. runs' \in [Mail -> Nat] /\ acks' \in [Mail -> Nat]
      BY <2>2 DEF ProcessMethod, RunIt, MethodAck, CommandAck
    <3>2. QED BY <2>2, <3>1 DEF ProcessMethod
  <2>3. CASE ProcessCommand(t)
    <3>1. runs' \in [Mail -> Nat] /\ acks' \in [Mail -> Nat]
      BY <2>3 DEF ProcessCommand, RunIt, CommandAck
    <3>2. QED BY <2>3, <3>1 DEF ProcessCommand, Kinds
  <2>4. CASE Finish(t)
    <3>1. inProgress' \in BOOLEAN /\ another' \in BOOLEAN
      BY <2>4 DEF Finish
    <3>2. QED BY <2>4, <3>1 DEF Finish
  <2>5. QED BY <1>3, <2>1, <2>2, <2>3, <2>4 DEF CallbackStep
<1>4. ASSUME NEW t \in Threads, Answer(t) \/ AnswerError(t) PROVE TypeInv'
  BY <1>4 DEF Answer, AnswerError
<1>5. ASSUME NEW t \in Threads, Reply(t) \/ Expire(t) PROVE TypeInv'
  <2>1. ASSUME NEW w \in Threads, NEW S \in SUBSET Mail, Callback(w, S)
        PROVE  more' \in [Threads -> BOOLEAN]
    BY <2>1 DEF Callback
  <2>2. more' \in [Threads -> BOOLEAN]
    BY <1>5, <2>1 DEF Reply, Expire
  <2>3. QED BY <1>5, <2>2 DEF Reply, Expire, Callback, Close
<1>6. ASSUME NEW t \in Threads, Drop(t) PROVE TypeInv'
  <2>1. dropped' \in BOOLEAN
    BY <1>6 DEF Drop
  <2>2. QED BY <1>6, <2>1 DEF Drop, Close
<1>7. ASSUME NEW x \in Mail, Arrive(x) PROVE TypeInv'
  BY <1>7 DEF Arrive
<1>8. ASSUME NEW u \in Users, Suspend(u) \/ Resume(u) \/ RegisterMethod(u)
      PROVE  TypeInv'
  <2>1. suspended' \in BOOLEAN /\ inUse' \in BOOLEAN
    BY <1>8 DEF Suspend, Resume, RegisterMethod
  <2>2. QED BY <1>8, <2>1 DEF Suspend, Resume, RegisterMethod
<1>9. CASE UNCHANGED vars
  BY <1>9 DEF vars
<1>10. QED
  BY <1>1, <1>2, <1>3, <1>4, <1>5, <1>6, <1>7, <1>8, <1>9 DEF Next

-----------------------------------------------------------------------------
(* One check at a time. *)

(* mailbox_send_in_progress goes from the thread that checks to the request *)
(* and from there to its callback, and is reset only by the last of them.  *)
LEMMA OneCheckStep == TypeInv /\ OneCheck /\ [Next]_vars => OneCheck'
<1> SUFFICES ASSUME TypeInv, OneCheck, [Next]_vars PROVE OneCheck'
  OBVIOUS
<1>p. Recv \in Threads /\ Pend \in Threads /\ Users \subseteq Threads
      /\ pc \in [Threads -> Pcs]
  BY DEF Threads, TypeInv
<1> USE <1>p DEF OneCheck, Checking
<1>1. ASSUME NEW t \in Threads, Begin(t) PROVE OneCheck'
  BY <1>1 DEF Begin
<1>2. ASSUME NEW t \in Threads, CheckStep(t) \/ LockCycle(t) PROVE OneCheck'
  <2>1. CASE Suspended(t) \/ NotSuspended(t) \/ LeaveNote(t) \/ Sent(t)
    BY <2>1 DEF Suspended, NotSuspended, LeaveNote, Sent
  <2>2. CASE Claim(t)
    BY <2>2 DEF Claim
  <2>3. CASE List(t)
    BY <2>3 DEF List
  <2>4. CASE Refuse(t)
    BY <2>4 DEF Refuse
  <2>5. CASE TakeBack(t)
    BY <2>5 DEF TakeBack
  <2>6. CASE Fail(t)
    BY <2>6 DEF Fail
  <2>7. CASE LockCycle(t)
    BY <2>7 DEF LockCycle
  <2>8. QED BY <1>2, <2>1, <2>2, <2>3, <2>4, <2>5, <2>6, <2>7 DEF CheckStep
<1>3. ASSUME NEW t \in Threads, CallbackStep(t) PROVE OneCheck'
  <2>1. CASE Take(t) \/ ProcessMethod(t) \/ ProcessCommand(t)
    <3>1. /\ UNCHANGED <<open, inProgress>>
          /\ pc[t] \in Handing /\ \E p \in Handing : pc' = [pc EXCEPT ![t] = p]
      BY <2>1 DEF Take, ProcessMethod, ProcessCommand, Handing
    <3>2. Checking' = Checking
      BY <3>1 DEF Handing
    <3>3. QED BY <3>1, <3>2
  <2>2. CASE Finish(t)
    BY <2>2 DEF Finish
  <2>3. QED BY <1>3, <2>1, <2>2 DEF CallbackStep
<1>4. ASSUME NEW t \in Threads, Answer(t) \/ AnswerError(t) PROVE OneCheck'
  BY <1>4 DEF Answer, AnswerError
<1>5. ASSUME NEW t \in Threads, Reply(t) \/ Expire(t) PROVE OneCheck'
  BY <1>5 DEF Reply, Expire, Callback, Close
<1>6. ASSUME NEW t \in Threads, Drop(t) PROVE OneCheck'
  BY <1>6 DEF Drop, Close
<1>7. ASSUME NEW x \in Mail, Arrive(x) PROVE OneCheck'
  BY <1>7 DEF Arrive
<1>8. ASSUME NEW u \in Users, Suspend(u) \/ Resume(u) \/ RegisterMethod(u)
      PROVE  OneCheck'
  BY <1>8 DEF Suspend, Resume, RegisterMethod
<1>9. CASE UNCHANGED vars
  BY <1>9 DEF vars
<1>10. QED
  BY <1>1, <1>2, <1>3, <1>4, <1>5, <1>6, <1>7, <1>8, <1>9 DEF Next

(* The same for every behaviour, with the types. *)
LEMMA CheckInvariant == Spec => [](TypeInv /\ OneCheck)
<1>1. Init => OneCheck
  BY DEF Init, OneCheck, Checking
<1>2. QED BY <1>1, TypeInit, TypeStep, OneCheckStep, PTL DEF Spec

(* At most one check is being made, is pending or has its callback running *)
(* at any time, and mailbox_send_in_progress is set as long as one is.     *)
THEOREM OneCheckCorrect == Spec => []OneCheck
BY CheckInvariant, PTL

-----------------------------------------------------------------------------
(* No mail is forgotten. *)

(* A thread that is in a cycle of mutexes stays there. *)
LEMMA StuckStays == TypeInv /\ Stuck /\ [Next]_vars => Stuck'
<1> SUFFICES ASSUME TypeInv, [Next]_vars, NEW u \in Threads, pc[u] = "stuck"
             PROVE  pc'[u] = "stuck"
  BY DEF Stuck
<1>1. Recv \in Threads /\ Pend \in Threads /\ Users \subseteq Threads
      /\ pc \in [Threads -> Pcs]
  BY DEF Threads, TypeInv
<1>2. ASSUME NEW t \in Threads,
             \/ Begin(t) \/ CheckStep(t) \/ LockCycle(t) \/ CallbackStep(t)
             \/ Answer(t) \/ AnswerError(t) \/ Reply(t) \/ Expire(t) \/ Drop(t)
      PROVE  pc'[u] = "stuck"
  BY <1>1, <1>2
     DEF Begin, CheckStep, Suspended, NotSuspended, Claim, LeaveNote, List, Refuse, Sent,
         TakeBack, Fail, LockCycle, CallbackStep, Take, ProcessMethod, ProcessCommand,
         Finish, Answer, AnswerError, Reply, Expire, Drop, Callback
<1>3. ASSUME NEW v \in Users, Suspend(v) \/ Resume(v) \/ RegisterMethod(v)
      PROVE  pc'[u] = "stuck"
  BY <1>1, <1>3 DEF Suspend, Resume, RegisterMethod
<1>4. CASE UNCHANGED vars \/ \E x \in Mail : Arrive(x)
  BY <1>4 DEF vars, Arrive
<1>5. QED BY <1>2, <1>3, <1>4 DEF Next

(* Each step that ends a check leaves a thread that makes the next one, or *)
(* nothing that was promised, behind.                                      *)
LEMMA ForgottenStep ==
    TypeInv /\ OneCheck /\ NoMailForgotten /\ [Next]_vars => NoMailForgotten'
<1> SUFFICES ASSUME TypeInv, OneCheck, NoMailForgotten, [Next]_vars, ~Stuck
             PROVE  NoMailForgotten'
  BY StuckStays DEF NoMailForgotten
<1>p. /\ Recv \in Threads /\ Pend \in Threads /\ Users \subseteq Threads
      /\ pc \in [Threads -> Pcs] /\ more \in [Threads -> BOOLEAN]
      /\ answered \subseteq open /\ promised \subseteq sent
  BY DEF Threads, TypeInv
<1> USE <1>p DEF NoMailForgotten
<1>1. ASSUME NEW t \in Threads, Begin(t) PROVE NoMailForgotten'
  BY <1>1 DEF Begin
<1>2. ASSUME NEW t \in Threads, CheckStep(t) \/ LockCycle(t) PROVE NoMailForgotten'
  <2>1. CASE Suspended(t) \/ NotSuspended(t) \/ Sent(t)
    BY <2>1 DEF Suspended, NotSuspended, Sent
  <2>2. CASE Claim(t) \/ LeaveNote(t) \/ Refuse(t) \/ TakeBack(t) \/ Fail(t)
    BY <2>2 DEF Claim, LeaveNote, Refuse, TakeBack, Fail
  <2>3. CASE List(t)
    <3>1. open = {}
      BY <2>3 DEF List, OneCheck, Checking
    <3>2. t \in open' \ answered'
      BY <2>3, <3>1 DEF List
    <3>3. QED BY <3>2
  <2>4. CASE LockCycle(t)
    BY <2>4 DEF LockCycle, Stuck
  <2>5. QED BY <1>2, <2>1, <2>2, <2>3, <2>4 DEF CheckStep
<1>3. ASSUME NEW t \in Threads, CallbackStep(t) PROVE NoMailForgotten'
  <2>1. CASE Take(t) \/ ProcessMethod(t) \/ ProcessCommand(t)
    <3>1. /\ UNCHANGED <<open, answered, promised, box, dropped, inProgress, another, more>>
          /\ pc[t] \in Handing /\ \E p \in Handing : pc' = [pc EXCEPT ![t] = p]
      BY <2>1 DEF Take, ProcessMethod, ProcessCommand, Handing
    <3>2. QED BY <3>1 DEF Handing
  <2>2. CASE Finish(t)
    BY <2>2 DEF Finish
  <2>3. QED BY <1>3, <2>1, <2>2 DEF CallbackStep
<1>4. ASSUME NEW t \in Threads, Answer(t) PROVE NoMailForgotten'
  BY <1>4 DEF Answer
<1>5. ASSUME NEW t \in Threads, AnswerError(t) PROVE NoMailForgotten'
  <2>1. inProgress
    BY <1>5 DEF AnswerError, OneCheck
  <2>2. QED BY <1>5, <2>1 DEF AnswerError
<1>6. ASSUME NEW t \in Threads, Reply(t) PROVE NoMailForgotten'
  <2>1. open \ answered = {}
    BY <1>6 DEF Reply, OneCheck
  <2>2. /\ pc[Recv] = "idle" /\ pc' = [pc EXCEPT ![Recv] = "callback"]
        /\ \A u \in Threads : u # Recv => more'[u] = more[u]
        /\ UNCHANGED <<promised, box, dropped, inProgress, another>>
    BY <1>6 DEF Reply, Callback
  <2>3. QED BY <2>1, <2>2
<1>7. ASSUME NEW t \in Threads, Expire(t) PROVE NoMailForgotten'
  <2>1. inProgress
    BY <1>7 DEF Expire, OneCheck
  <2>2. promised' = (IF another THEN promised ELSE {}) /\ UNCHANGED <<inProgress, another, box>>
    BY <1>7 DEF Expire
  <2>3. QED BY <2>1, <2>2
<1>8. ASSUME NEW t \in Threads, Drop(t) PROVE NoMailForgotten'
  BY <1>8 DEF Drop
<1>9. ASSUME NEW x \in Mail, Arrive(x) PROVE NoMailForgotten'
  BY <1>9 DEF Arrive
<1>10. ASSUME NEW u \in Users, Suspend(u) \/ Resume(u) \/ RegisterMethod(u)
       PROVE  NoMailForgotten'
  BY <1>10 DEF Suspend, Resume, RegisterMethod
<1>11. CASE UNCHANGED vars
  BY <1>11 DEF vars
<1>12. QED
  BY <1>1, <1>2, <1>3, <1>4, <1>5, <1>6, <1>7, <1>8, <1>9, <1>10, <1>11 DEF Next

(* As long as no check fails, mail that was in the box when a check was    *)
(* accepted does not stay there with no check to come.                     *)
THEOREM NoMailForgottenCorrect == Spec => []NoMailForgotten
<1>1. Init => NoMailForgotten
  BY DEF Init, NoMailForgotten
<1>2. QED BY <1>1, CheckInvariant, ForgottenStep, PTL DEF Spec

-----------------------------------------------------------------------------
(* One answer for each message. *)

(* tr50_create: there is no mail. *)
LEMMA MailInit == Init => MailInv
BY DEF Init, MailInv, Fresh

(* A message is handed over by one thread, which gives it one answer. *)
LEMMA MailStep == TypeInv /\ OneCheck /\ MailInv /\ [Next]_vars => MailInv'
<1> SUFFICES ASSUME TypeInv, OneCheck, MailInv, [Next]_vars PROVE MailInv'
  OBVIOUS
<1>p. Recv \in Threads /\ Pend \in Threads /\ Users \subseteq Threads
  BY DEF Threads
<1>t. /\ pc \in [Threads -> Pcs] /\ items \in [Threads -> SUBSET Mail]
      /\ cur \in [Threads -> Mail \cup {NoMail}] /\ kind \in [Threads -> Kinds]
      /\ reply \in [Threads -> SUBSET Mail]
      /\ sent \subseteq Mail /\ box \subseteq sent /\ answered \subseteq open
      /\ runs \in [Mail -> Nat] /\ acks \in [Mail -> Nat]
  BY DEF TypeInv
<1>1. ASSUME NEW t \in Threads, Begin(t) PROVE MailInv'
  BY <1>p, <1>t, <1>1 DEF Begin, MailInv, Fresh, Handing
<1>2. ASSUME NEW t \in Threads, CheckStep(t) \/ LockCycle(t) PROVE MailInv'
  <2>1. /\ UNCHANGED <<items, cur, kind, answered, reply, mailVars, doneVars, inUse>>
        /\ pc[t] \notin Handing /\ \E p \in Pcs \ Handing : pc' = [pc EXCEPT ![t] = p]
    BY <1>t, <1>2 DEF CheckStep, Suspended, NotSuspended, Claim, LeaveNote, List, Refuse,
                      Sent, TakeBack, Fail, LockCycle, Pcs, Handing
  <2>2. QED BY <1>t, <2>1 DEF MailInv, Fresh, Handing
<1>3. ASSUME NEW t \in Threads, Take(t) PROVE MailInv'
  <2>1. PICK x \in items[t], k \in Kinds :
          /\ items' = [items EXCEPT ![t] = @ \ {x}]
          /\ IF k = "incomplete"
             THEN UNCHANGED <<pc, cur, kind>>
             ELSE /\ cur' = [cur EXCEPT ![t] = x]
                  /\ kind' = [kind EXCEPT ![t] = k]
                  /\ pc' = [pc EXCEPT ![t] = IF k \in MethodKinds
                                             THEN "method" ELSE "command"]
    BY <1>3 DEF Take
  <2>2. x \in Mail /\ x \in sent /\ x \notin box /\ Fresh(x)
    BY <1>t, <2>1 DEF MailInv
  <2>3. pc[t] = "callback" /\ UNCHANGED <<answered, reply, mailVars, doneVars, inUse>>
    BY <1>3 DEF Take
  <2>4. QED BY <1>t, <2>1, <2>2, <2>3 DEF MailInv, Fresh, Handing
<1>4. ASSUME NEW t \in Threads, ProcessMethod(t) \/ ProcessCommand(t) PROVE MailInv'
  <2> DEFINE x == cur[t]
  <2>1. /\ pc[t] \in {"method", "command"} /\ x \in Mail /\ x \in sent /\ x \notin box
        /\ x \notin items[t] /\ t \in Checking
    BY <1>t, <1>4 DEF ProcessMethod, ProcessCommand, MailInv, Checking
  <2>2. /\ open = {} /\ answered = {} /\ \A u \in Threads : u # t => u \notin Checking
    BY <1>t, <2>1 DEF OneCheck
  <2>3. /\ \A u \in Threads : reply[u] = {}
        /\ \A u \in Threads : u # t => items[u] = {} /\ pc[u] \notin Handing
    BY <2>2 DEF MailInv, Handing, Checking
  <2>4. UNCHANGED <<items, answered, reply, mailVars, inUse>>
    BY <1>4 DEF ProcessMethod, ProcessCommand
  <2>5. \/ runs' = [runs EXCEPT ![x] = @ + 1] /\ acks' = acks /\ Fresh(x)
        \/ acks' = [acks EXCEPT ![x] = @ + 1] /\ runs' = runs /\ Fresh(x)
        \/ UNCHANGED <<runs, acks>>
    <3>1. CASE ProcessMethod(t)
      BY <2>1, <3>1 DEF ProcessMethod, MailInv, RunIt, MethodAck, CommandAck
    <3>2. CASE ProcessCommand(t)
      BY <2>1, <3>2 DEF ProcessCommand, MailInv, RunIt, CommandAck
    <3>3. QED BY <1>4, <3>1, <3>2
  <2>6. \A y \in Mail : y # x => runs'[y] = runs[y] /\ acks'[y] = acks[y]
    BY <1>t, <2>1, <2>5
  <2>7. runs'[x] + acks'[x] <= 1
    BY <1>t, <2>1, <2>5 DEF Fresh, MailInv
  <2>8. \/ /\ pc[t] = "method" /\ pc' = [pc EXCEPT ![t] = "command"]
           /\ UNCHANGED <<cur, kind>> /\ (inUse \/ UNCHANGED <<runs, acks>>)
        \/ pc' = [pc EXCEPT ![t] = "callback"]
    BY <1>4 DEF ProcessMethod, ProcessCommand
  <2> HIDE DEF x
  <2>9. \A y \in Mail : runs'[y] + acks'[y] <= 1
    BY <2>6, <2>7 DEF MailInv
  <2>10. \A y \in Mail : y \notin sent' \/ y \in box' => Fresh(y)'
    BY <2>1, <2>4, <2>6 DEF MailInv, Fresh
  <2>11. \A u \in Threads : \A y \in items'[u] : y \in sent' /\ y \notin box' /\ Fresh(y)'
    BY <1>t, <2>1, <2>3, <2>4, <2>6 DEF MailInv, Fresh
  <2>12. \A u \in Threads : pc'[u] \in {"method", "command"} =>
           /\ cur'[u] \in sent' /\ cur'[u] \notin box' /\ cur'[u] \notin items'[u]
           /\ Fresh(cur[u])' \/ (pc'[u] = "command" /\ kind'[u] \in MethodKinds /\ inUse')
    <3>1. ASSUME NEW u \in Threads, pc'[u] \in {"method", "command"}
          PROVE  u = t /\ pc[t] = "method" /\ pc'[t] = "command" /\ UNCHANGED <<cur, kind>>
                 /\ (inUse \/ UNCHANGED <<runs, acks>>)
      BY <1>t, <2>3, <2>8, <3>1 DEF Handing
    <3>2. QED BY <2>1, <2>4, <3>1 DEF MailInv, Fresh, x
  <2>13. \A u \in Threads : items'[u] # {} => pc'[u] \in Handing
    BY <1>t, <2>3, <2>4, <2>8 DEF Handing
  <2>14. \A u \in Threads : pc'[u] = "method" => kind'[u] \in MethodKinds
    BY <1>t, <2>3, <2>8 DEF Handing
  <2>15. \A u \in Threads : reply'[u] = {}
    BY <2>3, <2>4
  <2>16. QED BY <2>9, <2>10, <2>11, <2>12, <2>13, <2>14, <2>15 DEF MailInv
<1>5. ASSUME NEW t \in Threads, Finish(t) PROVE MailInv'
  BY <1>t, <1>5 DEF Finish, MailInv, Fresh, Handing
<1>6. ASSUME NEW t \in Threads, Answer(t) \/ AnswerError(t) PROVE MailInv'
  BY <1>t, <1>6 DEF Answer, AnswerError, MailInv, Fresh
<1>7. ASSUME NEW t \in Threads, Reply(t) \/ Expire(t) PROVE MailInv'
  <2>1. PICK w \in {Recv, Pend}, S \in {reply[t], {}} : Callback(w, S)
    BY <1>7 DEF Reply, Expire
  <2>2. /\ answered' = answered \ {t} /\ reply' = [reply EXCEPT ![t] = {}]
        /\ UNCHANGED <<inUse, mailVars, doneVars>>
    BY <1>7 DEF Reply, Expire, Close
  <2>3. \A x \in S : x \in sent /\ x \notin box /\ Fresh(x)
    BY <2>1 DEF MailInv
  <2>4. /\ w \in Threads /\ pc[w] = "idle" /\ pc' = [pc EXCEPT ![w] = "callback"]
        /\ items' = [items EXCEPT ![w] = S] /\ UNCHANGED <<cur, kind>>
    BY <1>p, <2>1 DEF Callback
  <2>5. QED BY <1>t, <2>2, <2>3, <2>4 DEF MailInv, Fresh, Handing
<1>8. ASSUME NEW t \in Threads, Drop(t) PROVE MailInv'
  BY <1>t, <1>8 DEF Drop, Close, MailInv, Fresh
<1>9. ASSUME NEW x \in Mail, Arrive(x) PROVE MailInv'
  BY <1>t, <1>9 DEF Arrive, MailInv, Fresh
<1>10. ASSUME NEW u \in Users, Suspend(u) \/ Resume(u) \/ RegisterMethod(u)
       PROVE  MailInv'
  BY <1>p, <1>t, <1>10 DEF Suspend, Resume, RegisterMethod, MailInv, Fresh, Handing
<1>11. CASE UNCHANGED vars
  BY <1>11 DEF vars, MailInv, Fresh
<1>12. QED
  BY <1>1, <1>2, <1>3, <1>4, <1>5, <1>6, <1>7, <1>8, <1>9, <1>10, <1>11
     DEF Next, CallbackStep

(* Each message reaches one callback of the application or is acknowledged *)
(* with one error, not both, also when the first method is registered      *)
(* while a message is handed over.                                         *)
THEOREM OneAnswerCorrect == Spec => []OneAnswer
<1>1. MailInv => OneAnswer
  BY DEF MailInv, OneAnswer
<1>2. QED BY <1>1, MailInit, MailStep, CheckInvariant, PTL DEF Spec
=============================================================================
