------------------------------ MODULE ServerConfig ------------------------------
(***************************************************************************)
(* The configuration of a clawdb-server process, from its command line,    *)
(* its environment and a file. A path is abstracted to the root directory  *)
(* it lies under: the default paths of the stores are joined to a data     *)
(* directory once, and overriding the data directory later moves none.     *)
(*                                                                         *)
(* Whatever is not given is Unset. Malformed stands for a value that does  *)
(* not parse: CLAW_WORKSPACE_ID, CLAW_AGENT_ID, CLAW_VECTOR_ENABLED in     *)
(* the environment, the whole of a file that is missing or not TOML.       *)
(***************************************************************************)

CONSTANTS Unset, Malformed,
          Home    \* the root below the home directory

Blank       == ""
DefaultMark == "change-me"

Or(value, default) == IF value = Unset THEN default ELSE value

\* ClawDBConfig::default_for_dir. A config keeps its data directory, the root
\* its stores lie under and the secret of guard.
DefaultForDir(dir) == [data_dir |-> dir, stores |-> dir, jwt_secret |-> DefaultMark]

ApplyEnvOverrides(config, env) ==
  IF env.parsed = Malformed THEN Malformed
  ELSE [config EXCEPT !.data_dir = Or(env.data_dir, @), !.jwt_secret = Or(env.jwt_secret, @)]

\* MUTANT of FromEnv: the secret is not looked at.
FromEnvAnySecret(env) ==
  ApplyEnvOverrides(DefaultForDir(Or(env.data_dir, Home)), env)

FromEnv(env) ==
  LET config == ApplyEnvOverrides(DefaultForDir(Or(env.data_dir, Home)), env)
  IN  IF config # Malformed /\ env.jwt_secret = Unset /\ config.jwt_secret = DefaultMark
        THEN Malformed ELSE config

\* toml::from_str with #[serde(default)]: what the file leaves out has the
\* default below the home directory, whatever data_dir the file gives.
FromToml(file) ==
  [data_dir |-> Or(file.data_dir, Home), stores |-> Or(file.stores, Home),
   jwt_secret |-> Or(file.jwt_secret, DefaultMark)]

FromFile(file, beside, env) ==
  IF file = Malformed THEN Malformed
  ELSE LET raw    == FromToml(file)
           config == ApplyEnvOverrides(
                       IF raw.data_dir = Blank THEN [raw EXCEPT !.data_dir = beside] ELSE raw, env)
       IN  IF config # Malformed /\ config.jwt_secret \in {Blank, DefaultMark}
             THEN Malformed ELSE config

\* main, load_config: args.config is the file or Unset; args.data_dir is the
\* flag, or CLAW_DATA_DIR when the flag is missing.
LoadConfig(args, beside, env) ==
  LET config == IF args.config = Unset THEN FromEnv(env)
                ELSE FromFile(args.config, beside, env)
  IN  IF config = Malformed THEN Malformed
      ELSE [config EXCEPT !.data_dir = Or(Or(args.data_dir, env.data_dir), @)]
=============================================================================
