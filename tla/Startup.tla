------------------------------- MODULE Startup -------------------------------
(***************************************************************************)
(* What main does before it serves (main.cpp:66-212, util/config.cpp): the *)
(* command line, the configuration file, the environment, the database and *)
(* the adapters.  A value of the configuration is represented by where it  *)
(* comes from, and by whether it is the empty string.                      *)
(***************************************************************************)

CONSTANTS Files,         \* configuration files: [state, gives]
          Environments   \* environments: functions on variables of Overridable

\* Each answers for models of its own, so their order does not matter.
Providers == {"deepseek", "openai", "anthropic"}
Overridable == {"deepseek", "openai", "anthropic", "db_password"}
Fields == Overridable \cup {"server", "database", "rate_limiter", "admin"}

Values == {"default", "file", "file_empty", "env", "env_empty"}

\* gives are the values the file contains, up to the first of a wrong type.
StartupAssumption ==
  /\ \A f \in Files :
       /\ f.state \in {"missing", "malformed", "mistyped", "good"}
       /\ f.gives \in UNION {[S -> {"file", "file_empty"}] : S \in SUBSET Fields}
  /\ Environments \subseteq
       UNION {[S -> {"env", "env_empty"}] : S \in SUBSET Overridable}

VARIABLES phase,         \* how far main has got
          named,         \* user_set_config: there is a --config
          file, env,     \* the file and the environment it finds
          loaded,        \* config.loaded
          config,        \* the configuration
          adapters       \* adapters_ of the factory

svars == <<phase, named, file, env, loaded, config, adapters>>

Default == [f \in Fields |-> "default"]

Init ==
  /\ phase = "options"
  /\ named \in BOOLEAN
  /\ file \in Files
  /\ env \in Environments
  /\ loaded = FALSE
  /\ config = Default
  /\ adapters = {}

Override(c, new) ==
  [f \in Fields |-> IF f \in DOMAIN new THEN new[f] ELSE c[f]]

\* --help, or main returns 1.
Exit == phase' = "exited" /\ UNCHANGED <<named, file, env, loaded, config, adapters>>

-----------------------------------------------------------------------------
ReadOptions ==
  /\ phase = "options"
  /\ \/ Exit
     \/ phase' = "load" /\ UNCHANGED <<named, file, env, loaded, config, adapters>>

\* No file, or no JSON: the defaults.
FileUnusable ==
  /\ phase = "load"
  /\ file.state \in {"missing", "malformed"}
  /\ phase' = "check"
  /\ UNCHANGED <<named, file, env, loaded, config, adapters>>

FileLoaded ==
  /\ phase = "load"
  /\ file.state = "good"
  /\ config' = Override(config, file.gives)
  /\ loaded' = TRUE
  /\ phase' = "check"
  /\ UNCHANGED <<named, file, env, adapters>>

\* Only parse_error is caught; a type_error ends the process.  Mutant: every
\* exception of the library is caught.
CatchEverything ==
  /\ phase = "load"
  /\ file.state = "mistyped"
  /\ config' = Override(config, file.gives)
  /\ phase' = "check"
  /\ UNCHANGED <<named, file, env, loaded, adapters>>
FileMistyped ==
  /\ phase = "load"
  /\ file.state = "mistyped"
  /\ Exit

CheckLoaded ==
  /\ phase = "check"
  /\ IF named /\ ~loaded
       THEN Exit
       ELSE /\ phase' = "env"
            /\ UNCHANGED <<named, file, env, loaded, config, adapters>>

ReadEnvironment ==
  /\ phase = "env"
  /\ config' = Override(config, env)
  /\ phase' = "database"
  /\ UNCHANGED <<named, file, env, loaded, adapters>>

\* connection_pool throws when it has not a single connection.
ConnectDatabase ==
  /\ phase = "database"
  /\ \/ Exit
     \/ phase' = "adapters" /\ UNCHANGED <<named, file, env, loaded, config, adapters>>

Empty == {"default", "file_empty", "env_empty"}

RegisterAdapters ==
  /\ phase = "adapters"
  /\ adapters' = {p \in Providers : config[p] \notin Empty}
  /\ phase' = "open"
  /\ UNCHANGED <<named, file, env, loaded, config>>

\* http_server throws when it cannot listen.  What is not looked at again is
\* forgotten.
OpenServer ==
  /\ phase = "open"
  /\ \/ Exit
     \/ /\ phase' = "serving"
        /\ named' = FALSE /\ loaded' = FALSE /\ config' = Default
        /\ file' = [state |-> "missing", gives |-> <<>>] /\ env' = <<>>
        /\ UNCHANGED adapters

Next ==
  \/ ReadOptions \/ FileUnusable \/ FileLoaded \/ FileMistyped \/ CheckLoaded
  \/ ReadEnvironment \/ ConnectDatabase \/ RegisterAdapters \/ OpenServer
-----------------------------------------------------------------------------
(***************************************************************************)
(* The server never opens with half a configuration: the file was read to  *)
(* its end or not at all, and not at all only if nobody asked for one      *)
(* (main.cpp:100-101); the environment comes first (main.cpp:114), also    *)
(* when it empties a value; the adapters are those that have a key then.   *)
(***************************************************************************)
Told(f) ==
  IF f \in DOMAIN env THEN env[f]
  ELSE IF file.state = "good" /\ f \in DOMAIN file.gives THEN file.gives[f]
  ELSE "default"

NeverHalfConfigured ==
  phase = "open" =>
    /\ \A f \in Fields : config[f] = Told(f)
    /\ named => file.state = "good"
    /\ adapters = {p \in Providers : Told(p) \notin Empty}
=============================================================================
