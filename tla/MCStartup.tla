-------------------------------- MODULE MCStartup --------------------------------
(* Two processes on one home directory: a first start, an upgrade from a       *)
(* version with 18 migrations, a start with nothing to do; config.toml         *)
(* missing, partial or on the wrong side of the port's bounds.                 *)
EXTENDS Startup, TLC

Sizes == [f \in {"server_port", "core_log_level"} |->
            IF f = "server_port" THEN 1024 ELSE "verbose"]
TooLow == [f \in {"server_port"} |-> 1023]
MCOldFiles == {Sizes, TooLow, Malformed}

MCEnv == [k \in {"ui_theme", "server_port"} |->
            IF k = "ui_theme" THEN [text |-> "dark", number |-> NotANumber, items |-> <<"dark">>]
            ELSE [text |-> "auto", number |-> NotANumber, items |-> <<"auto">>]]
=============================================================================
