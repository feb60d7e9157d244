--------------------------- MODULE MCTr50Library ---------------------------
(* The list of pending requests, the event of a synchronous call, JSON, and *)
(* the worker wrappers with the transfer of files, for TLC.  They share no  *)
(* state, so a behaviour has one of them.  Three messages are enough for a  *)
(* list with an inner element; the characters have one to four bytes in     *)
(* UTF-8 and one or two units in UTF-16, or an escape with and without a    *)
(* letter; the fractions have as many digits as are printed or more;        *)
(* the files are empty, shorter than two blocks, and of a length that has   *)
(* one or two digits.                                                       *)
EXTENDS Tr50Pending, Tr50Json, Tr50File

CONSTANTS m1, m2, m3

VARIABLE part

MCMsgs == {m1, m2, m3}

MCUtf8 ==
    (97 :> <<97>>) @@ (34 :> <<34>>) @@ (92 :> <<92>>) @@ (10 :> <<10>>) @@ (1 :> <<1>>)
      @@ (233 :> <<195, 169>>) @@ (8364 :> <<226, 130, 172>>)
      @@ (128512 :> <<240, 159, 152, 128>>)

MCNumbers == {<<0, 0>>, <<-12, 0>>, <<15, -1>>, <<-105, -2>>, <<3, 1>>, <<1234, -3>>, <<-1996, -3>>}

MCBodies == {<<>>, <<1, 2, 3>>, <<1, 2, 3, 4, 5>>}

MCInit ==
    /\ PendingInit /\ EventInit /\ Init
    /\ \/ part = "json" /\ JsonInit
       \/ /\ part \in {"pending", "event", "worker"}
          /\ value = Value("null", <<>>) /\ text = <<>> /\ parsed = <<>>

MCNext ==
    /\ \/ part = "pending" /\ PendingNext /\ UNCHANGED <<eventVars, jsonVars, vars>>
       \/ part = "event" /\ EventNext /\ UNCHANGED <<pendingVars, jsonVars, vars>>
       \/ part = "json" /\ JsonNext /\ UNCHANGED <<pendingVars, eventVars, vars>>
       \/ part = "worker" /\ Next /\ UNCHANGED <<pendingVars, eventVars, jsonVars>>
    /\ UNCHANGED part

MCSpec == MCInit /\ [][MCNext]_<<pendingVars, eventVars, jsonVars, vars, part>>
=============================================================================
