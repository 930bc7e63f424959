------------------------------- MODULE MCLifecycle -------------------------------
(* One process: the port just accepted with a log level to repair, and a port  *)
(* just refused; NALA_UI_FONT_SIZE is no number and is ignored.                *)
EXTENDS Lifecycle, TLC

Last == [f \in {"server_port", "core_log_level"} |->
           IF f = "server_port" THEN 65535 ELSE "verbose"]
TooHigh == [f \in {"server_port"} |-> 65536]
MCContents == {Last, TooHigh}

MCEnv == [k \in {"ui_font_size"} |->
            [text |-> "big", number |-> NotANumber, items |-> <<"big">>]]
=============================================================================
