---------------------------- MODULE MCAtCommands ----------------------------
(* AtCommands for TLC: every command, with parameters that are right, one   *)
(* short, and more than ParamMax.  The table, the other AT commands with the *)
(* latency and the registration, and module.exec share only whether the     *)
(* client runs, and that the thread of the AT commands does one thing at a  *)
(* time: so a behaviour has one of the three.  Their product would add      *)
(* states and no case.                                                      *)
EXTENDS AtCommands

CONSTANTS r, p

VARIABLE part

MCPutters == {r, p}

Input(name, op, arg, fields) == [name |-> name, op |-> op, arg |-> arg, fields |-> fields]

MCInputs ==
    {Input(<<"DWCONN">>, "?", 0, <<>>), Input(<<"DWCONN">>, "=", 0, <<0>>),
     Input(<<"DWCONN">>, "=", 1, <<0>>), Input(<<"DWCONN">>, "=", 2, <<0>>),
     Input(<<"DWSEND", "R">>, "=", 2, <<0, 0>>),
     Input(<<"DWSEND">>, "=", 0, <<0, 0>>), Input(<<"DWSEND">>, "=", 0, <<0, 0, 0, 1, 0, 1>>),
     Input(<<"DWSEND">>, "=", 0, <<0, 0, 0>>),
     Input(<<"DWSEND">>, "=", 1, <<0, 0, 0, 2, 0>>), Input(<<"DWSEND">>, "=", 1, <<0, 0, 0, 0, 0, 0, 0, 0>>),
     Input(<<"DWSEND">>, "=", 2, <<0, 0, 0>>), Input(<<"DWSEND">>, "=", 3, <<0, 0, 0>>),
     Input(<<"DWSEND">>, "", 0, <<>>),
     Input(<<"DWLRCV">>, "", 0, <<>>), Input(<<"DWSTATUS">>, "", 0, <<>>)}
      \cup {Input(<<"DWRCV", "R">>, "=", i, <<0>>) : i \in Ids}
      \cup {Input(<<"DWRCV">>, "=", i, <<0>>) : i \in Ids}

StartStop == {i \in Inputs : i.name = <<"DWCONN">> /\ i.op = "=" /\ i.arg < 2}

(* Those that start, call and fetch.  A DWSEND that calls is to the table   *)
(* as DWSENDR is; a stop changes nothing in it, and puts and gets go on.    *)
TableInputs ==
    {i \in Inputs : \/ i \in StartStop /\ i.arg = 1
                   \/ i.name \in {<<"DWSEND", "R">>, <<"DWRCV", "R">>, <<"DWRCV">>}}

MCInit == Init /\ part \in {"table", "commands", "exec"}

MCNext ==
    /\ \/ /\ part = "table"
          /\ \/ \E input \in TableInputs : Process(input)
             \/ CallsNext \/ TableNext
       \/ /\ part = "commands"
          /\ \/ \E input \in Inputs : Process(input)
             \/ StatusNext
       \/ /\ part = "exec"
          /\ \/ \E input \in StartStop : Process(input)
             \/ ExecNext
    /\ UNCHANGED part

MCSpec == MCInit /\ [][MCNext]_<<vars, part>>
=============================================================================
