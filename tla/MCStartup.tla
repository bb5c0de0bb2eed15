------------------------------ MODULE MCStartup ------------------------------
(* Instance of Startup for TLC. *)
EXTENDS Startup, TLC

CONSTANTS d, e   \* directories

MCAdminFiles ==
    {NoFile, Broken, <<>>, "configdir" :> d, "configdir" :> Empty @@ "tincbindir" :> d,
     "configdir" :> d @@ "tincbindir" :> d @@ "tincreload" :> TRUE}

MCEnvironment(file, config, bin, reload) ==
    [pathsFile |-> file, configDir |-> config, tincBinDir |-> bin,
     tincReload |-> reload]

MCEnvironments ==
    {MCEnvironment(FALSE, Unset, Unset, Unset),
     MCEnvironment(TRUE, Unset, Unset, Unset),
     MCEnvironment(FALSE, e, Unset, Unset),
     MCEnvironment(FALSE, e, e, TRUE),
     MCEnvironment(TRUE, Unset, Relative, FALSE),
     MCEnvironment(FALSE, Unset, Unset, Broken)}
=============================================================================
