---------------------------- MODULE ServerLifecycle ----------------------------
(***************************************************************************)
(* Server processes from their start to their end, and the commands of the *)
(* clawdb client that start and stop them.                                 *)
(*                                                                         *)
(* A process loads its configuration, opens the components of ClawDB,      *)
(* binds its three ports, installs its signal handler and serves; the      *)
(* first error ends it. `clawdb start` spawns one and writes its pid into  *)
(* a file, without waiting for it to serve; `clawdb stop` signals the pid  *)
(* it reads in that file. The commands are processes too: they interleave  *)
(* and may be interrupted anywhere. A pid that is free may be taken by a   *)
(* process that has nothing to do with clawdb. How a serving process       *)
(* drains and closes is the module ServerShutdown; here it takes a step.   *)
(***************************************************************************)
EXTENDS Naturals, Sequences, SequencesExt, ServerConfig

CONSTANTS MaxServers,  \* BOUND on the server processes, numbered as they start
          MaxCommands, \* BOUND on the commands that users give, numbered likewise
          Pid,
          None, Stranger,
          Args,      \* command lines of a server: config, data_dir, ports, certificate
          Env        \* environments one of which everybody shares

ASSUME BoundsAssumption == MaxServers \in Nat /\ MaxCommands \in Nat

Server  == 1..MaxServers
Command == 1..MaxCommands

ASSUME NamesAssumption ==
  /\ None \notin Server /\ None \notin Pid /\ None \notin {"start", "foreground", "stop", "ok"}
  /\ Stranger \notin Server /\ Blank \notin Pid

VARIABLES server,    \* the server processes
          holder,    \* who listens on a port
          pids,      \* who has a pid
          file,      \* server.pid: None, Blank or a pid
          command,   \* the commands
          env,       \* the environment
          died,       \* HISTORY detached servers that ended before anybody signalled them
          struck,     \* HISTORY commands that sent SIGTERM to a stranger
          overlapped, \* HISTORY commands that were at work while another one was
          unfinished  \* HISTORY commands that signalled and left the file

notes == <<died, struck, overlapped, unfinished>>
vars  == <<server, holder, pids, file, command, env, notes>>

Listeners == <<"grpc", "http", "metrics">>
Ports     == {args.ports[l] : args \in Args, l \in ToSet(Listeners)}

StartedBy(c, s) == command[c].kind = "start" /\ command[c].server = s
Detached(s)     == \E c \in Command : StartedBy(c, s)

Live(s)     == server[s].stage \notin {"none", "over"}
Starting(s) == server[s].stage \in {"loading", "opening", "binding", "bound"}

NoServer  == [stage |-> "none", step |-> 1, args |-> None, config |-> None, pid |-> None,
              signalled |-> FALSE, exit |-> None]
NoCommand == [kind |-> None, at |-> "idle", server |-> None, pid |-> None, answer |-> None]

Init ==
  /\ server = [s \in Server |-> NoServer]
  /\ holder = [p \in Ports |-> None]
  /\ pids = [p \in Pid |-> None]
  /\ file = None
  /\ command = [c \in Command |-> NoCommand]
  /\ env \in Env
  /\ died = {} /\ struck = {} /\ overlapped = {} /\ unfinished = {}

-----------------------------------------------------------------------------
(* A server process *)

Awaited(s) == \E c \in Command : command[c].at = "waiting" /\ command[c].server = s

\* The end of a process: the system takes its ports and its pid back, and how
\* it ended is known to a parent that waits.
Exit(s, how) ==
  /\ server' = [server EXCEPT ![s] =
       [NoServer EXCEPT !.stage = "over", !.exit = IF Awaited(s) THEN how ELSE None]]
  /\ holder' = [p \in Ports |-> IF holder[p] = s THEN None ELSE holder[p]]
  /\ pids' = [pids EXCEPT ![server[s].pid] = None]

\* A process that ends by itself, or because it was told to before.
Dies(s, how) ==
  /\ Exit(s, how)
  /\ died' = died \cup {u \in {s} : Detached(u) /\ ~server[u].signalled}
  /\ UNCHANGED <<file, command, env, struck, overlapped, unfinished>>

Moves(s, stage) == server' = [server EXCEPT ![s].stage = stage]

\* main: load_config, and the certificate that ends a process asked for one.
Load(s) ==
  /\ server[s].stage = "loading"
  /\ LET config == LoadConfig(server[s].args, Home, env)
     IN  IF config = Malformed THEN Dies(s, "error")
         ELSE IF server[s].args.certificate THEN \E how \in {"ok", "error"} : Dies(s, how)
         ELSE /\ server' = [server EXCEPT ![s].stage = "opening", ![s].config = config]
              /\ UNCHANGED <<holder, pids, file, command, env, notes>>

\* ClawDB::new opens core, vector, branch, sync, guard, reflect and the plugins
\* and returns the first error: what is open then is dropped with the process,
\* nothing is closed.
Open(s) ==
  /\ server[s].stage = "opening"
  /\ \/ /\ Moves(s, "binding")
        /\ UNCHANGED <<holder, pids, file, command, env, notes>>
     \/ Dies(s, "error")

PortOf(s) == server[s].args.ports[Listeners[server[s].step]]

\* MUTANT of Takes: one listener too many.
TakesOneMore(s, port) ==
  /\ holder' = [holder EXCEPT ![port] = s]
  /\ server' = IF server[s].step <= Len(Listeners) THEN [server EXCEPT ![s].step = @ + 1]
               ELSE [server EXCEPT ![s].stage = "bound"]
  /\ UNCHANGED <<pids, file, command, env, notes>>

Takes(s, port) ==
  /\ holder' = [holder EXCEPT ![port] = s]
  /\ server' = IF server[s].step < Len(Listeners) THEN [server EXCEPT ![s].step = @ + 1]
               ELSE [server EXCEPT ![s].stage = "bound"]
  /\ UNCHANGED <<pids, file, command, env, notes>>

\* MUTANT of Bind: a port that is taken is waited for.
BindWaits(s) ==
  /\ server[s].stage = "binding"
  /\ holder[PortOf(s)] = None /\ Takes(s, PortOf(s))

\* spawn_servers binds the next listener; a port that is taken is an error.
Bind(s) ==
  /\ server[s].stage = "binding"
  /\ \/ holder[PortOf(s)] = None /\ Takes(s, PortOf(s))
     \/ Dies(s, "error")

\* wait_for_signal: the handler is installed when select! first polls it; an
\* error there is the end of the wait.
Install(s) ==
  /\ server[s].stage = "bound"
  /\ \E stage \in {"serving", "stopping"} : Moves(s, stage)
  /\ UNCHANGED <<holder, pids, file, command, env, notes>>

\* select!, signal arm.
BeginShutdown(s) ==
  /\ server[s].stage = "serving" /\ server[s].signalled
  /\ Moves(s, "stopping")
  /\ UNCHANGED <<holder, pids, file, command, env, notes>>

\* RunningServers::shutdown is over, one way or the other.
Stopped(s) == server[s].stage = "stopping" /\ \E how \in {"ok", "error"} : Dies(s, how)

\* select!, the other arms.
TaskExit(s) == server[s].stage = "serving" /\ \E how \in {"ok", "error"} : Dies(s, how)

\* The process is killed by the system.
Crash(s) == Live(s) /\ Dies(s, "error")

\* A process of somebody else takes a free pid. BOUND: one that the pid file or
\* a command still names; the others are nobody's concern.
Intrude(p) ==
  /\ pids[p] = None
  /\ file = p \/ \E c \in Command : command[c].pid = p
  /\ pids' = [pids EXCEPT ![p] = Stranger]
  /\ UNCHANGED <<server, holder, file, command, env, notes>>

-----------------------------------------------------------------------------
(* Spawning a process *)

\* The pid of the first process is called FirstPid.
FirstPid == CHOOSE p \in Pid : TRUE

Spawned(s, p, args) ==
  /\ s = 1 => p = FirstPid
  /\ server[s].stage = "none" /\ pids[p] = None
  /\ \A r \in 1 .. s - 1 : server[r].stage # "none"
  /\ server' = [server EXCEPT ![s] = [NoServer EXCEPT !.stage = "loading", !.args = args, !.pid = p]]
  /\ pids' = [pids EXCEPT ![p] = s]
  /\ UNCHANGED <<holder, file, env, died, struck, unfinished>>

\* Without the client, for a certificate. One that is to serve is modelled as
\* a foreground start that is interrupted at once.
RunForCertificate(s) ==
  /\ \E p \in Pid, args \in Args : args.certificate /\ Spawned(s, p, args)
  /\ UNCHANGED <<command, overlapped>>

\* Commands that have read or are to write the pid file.
AtWork == {c \in Command : command[c].kind \in {"start", "stop"} /\ command[c].at \notin {"done", "gone"}}

Overlaps(c) == overlapped' = IF AtWork = {} THEN overlapped ELSE overlapped \cup AtWork \cup {c}

Idle(c) == command[c].at = "idle" /\ \A d \in 1 .. c - 1 : command[d].at # "idle"

Begins(c, kind, at, s, p) ==
  /\ Idle(c)
  /\ command' = [command EXCEPT ![c] =
       [kind |-> kind, at |-> at, server |-> s, pid |-> p, answer |-> None]]

Answers(c, how) ==
  command' = [command EXCEPT ![c].at = "done", ![c].pid = None, ![c].answer = how]

\* start never gives a data directory nor asks for a certificate.
StartArgs == {args \in Args : args.data_dir = Unset /\ ~args.certificate}

\* clawdb start: the child is spawned.
StartSpawns(c, s) ==
  /\ \E p \in Pid, args \in StartArgs : Spawned(s, p, args) /\ Begins(c, "start", "spawned", s, p)
  /\ Overlaps(c)

\* ... and fs::write of its pid: the file is emptied, then written.
StartEmptiesFile(c) ==
  /\ command[c].at = "spawned"
  /\ \/ file' = Blank /\ command' = [command EXCEPT ![c].at = "writing"]
     \/ Answers(c, "error") /\ UNCHANGED file
  /\ UNCHANGED <<server, holder, pids, env, notes>>

\* MUTANT of StartWritesPid: an error of the write is ignored.
StartIgnoresWriteError(c) ==
  /\ command[c].at = "writing"
  /\ file' \in {command[c].pid, file} /\ Answers(c, "ok")
  /\ UNCHANGED <<server, holder, pids, env, notes>>

StartWritesPid(c) ==
  /\ command[c].at = "writing"
  /\ \/ file' = command[c].pid /\ Answers(c, "ok")
     \/ Answers(c, "error") /\ UNCHANGED file
  /\ UNCHANGED <<server, holder, pids, env, notes>>

\* clawdb start --foreground: the child is spawned and waited for.
ForegroundSpawns(c, s) ==
  /\ \E p \in Pid, args \in StartArgs : Spawned(s, p, args) /\ Begins(c, "foreground", "waiting", s, None)
  /\ UNCHANGED overlapped

ForegroundEnds(c) ==
  /\ command[c].at = "waiting" /\ server[command[c].server].stage = "over"
  /\ Answers(c, server[command[c].server].exit)
  /\ UNCHANGED <<server, holder, pids, file, env, notes>>

\* clawdb stop: the file is read.
StopReadsFile(c) ==
  /\ Idle(c)
  /\ Overlaps(c)
  /\ command' = [command EXCEPT ![c] =
       IF file = None THEN [@ EXCEPT !.kind = "stop", !.at = "done", !.answer = "not_found"]
       ELSE IF file = Blank THEN [@ EXCEPT !.kind = "stop", !.at = "done", !.answer = "error"]
       ELSE [@ EXCEPT !.kind = "stop", !.at = "read", !.pid = file]]
  /\ UNCHANGED <<server, holder, pids, file, env, died, struck, unfinished>>

\* SIGTERM to a server: without a handler it ends the process; with one it is
\* noted, and noticed once.
Terminate(s) ==
  IF Starting(s)
    THEN Exit(s, "error")
    ELSE /\ server' = [server EXCEPT ![s].signalled = TRUE]
         /\ UNCHANGED <<holder, pids>>

\* kill -TERM: without such a process, or without the right to, stop fails
\* and leaves the file.
StopSignals(c) ==
  /\ command[c].at = "read"
  /\ LET who == pids[command[c].pid]
     IN  \/ /\ who \in Server /\ Terminate(who)
            /\ command' = [command EXCEPT ![c].at = "signalled", ![c].server = who]
            /\ UNCHANGED struck
         \/ /\ who = Stranger /\ struck' = struck \cup {c}
            /\ command' = [command EXCEPT ![c].at = "signalled", ![c].server = Stranger]
            /\ UNCHANGED <<server, holder, pids>>
         \/ /\ who \notin Server /\ Answers(c, "error")
            /\ UNCHANGED <<server, holder, pids, struck>>
  /\ UNCHANGED <<file, env, died, overlapped, unfinished>>

\* MUTANT of StopRemovesFile: the file is kept.
StopKeepsFile(c) ==
  /\ command[c].at = "signalled"
  /\ Answers(c, "ok")
  /\ UNCHANGED <<server, holder, pids, file, env, notes>>

\* The file is removed, whoever wrote it last; a failure is ignored.
StopRemovesFile(c) ==
  /\ command[c].at = "signalled"
  /\ Answers(c, "ok")
  /\ \/ file' = None /\ UNCHANGED unfinished
     \/ UNCHANGED file /\ unfinished' = unfinished \cup {c}
  /\ UNCHANGED <<server, holder, pids, env, died, struck, overlapped>>

\* A command is interrupted; what it spawned goes on.
Interrupt(c) ==
  /\ command[c].at \notin {"idle", "done", "gone"}
  /\ command' = [command EXCEPT ![c].at = "gone", ![c].pid = None]
  /\ unfinished' = unfinished \cup {d \in {c} : command[d].at = "signalled"}
  /\ UNCHANGED <<server, holder, pids, file, env, died, struck, overlapped>>

-----------------------------------------------------------------------------
Progress(s) == Load(s) \/ Open(s) \/ Bind(s) \/ Install(s) \/ BeginShutdown(s) \/ Stopped(s)

Next ==
  \/ \E s \in Server : Progress(s) \/ TaskExit(s) \/ Crash(s) \/ RunForCertificate(s)
  \/ \E c \in Command, s \in Server : StartSpawns(c, s) \/ ForegroundSpawns(c, s)
  \/ \E c \in Command : \/ StartEmptiesFile(c) \/ StartWritesPid(c) \/ ForegroundEnds(c)
                         \/ StopReadsFile(c) \/ StopSignals(c) \/ StopRemovesFile(c) \/ Interrupt(c)
  \/ \E p \in Pid : Intrude(p)

\* A process goes on with its start-up and, once told to, with its end (which
\* comes: ServerShutdown!ShutdownEnds). Users and clients do what they please.
Spec == Init /\ [][Next]_vars /\ \A s \in Server : WF_vars(Progress(s))

-----------------------------------------------------------------------------
(* Properties *)

\* Every variable has the type its declaration states.
TypeOK ==
  /\ \A s \in Server :
       /\ \/ server[s].stage \in {"none", "serving", "stopping", "over"}
          \/ Starting(s)
       /\ server[s].step \in DOMAIN Listeners
       /\ server[s].args \in Args \cup {None} /\ server[s].pid \in Pid \cup {None}
       /\ server[s].signalled \in BOOLEAN
       /\ server[s].exit \in {None, "ok", "error"}
       /\ server[s].exit # None => server[s].stage = "over"
  /\ holder \in [Ports -> Server \cup {None}]
  /\ pids \in [Pid -> Server \cup {None, Stranger}]
  /\ file \in Pid \cup {None, Blank}
  /\ \A c \in Command :
       /\ command[c].at \in {"idle", "spawned", "writing", "waiting", "read", "signalled",
                             "done", "gone"}
       /\ command[c].pid \in Pid \cup {None}
       /\ command[c].server \in Server \cup {None, Stranger}
  /\ env \in Env
  /\ died \subseteq Server
  /\ struck \subseteq Command /\ overlapped \subseteq Command /\ unfinished \subseteq Command

\* A process that serves listens on each of its three ports, and was given a
\* secret for guard: the published one signs no session unless it was chosen
\* in the environment.
ServesWhole ==
  \A s \in Server : server[s].stage = "serving" =>
    /\ \A l \in ToSet(Listeners) : holder[server[s].args.ports[l]] = s
    /\ server[s].config.jwt_secret = DefaultMark =>
         server[s].args.config = Unset /\ env.jwt_secret = DefaultMark

\* A start that answered ok, and during which no other command was at work.
Ordered(c) == command[c].kind = "start" /\ command[c].answer = "ok" /\ c \notin overlapped

\* The server of the last `start` is the one the pid file leads to, as long as
\* it lives and nobody has signalled it: stop will find it. This holds after any
\* mess that commands at the same time, crashes or a second server have left
\* behind, and whatever the stops that come later do at the same time.
StopFindsIt ==
  \A c \in Command, s \in Server :
    /\ StartedBy(c, s) /\ Ordered(c) /\ Live(s) /\ ~server[s].signalled
    /\ \A d \in Command : d > c => command[d].kind # "start"
    => file \in Pid /\ pids[file] = s

\* The last start before d that answered ok is c.
LastBefore(c, d) ==
  /\ Ordered(c) /\ c < d
  /\ \A e \in Command : c < e /\ e < d /\ command[e].kind = "start" => command[e].answer # "ok"

\* When a stop that no other command overlaps ends somebody else's process, then
\* the server of the last `start` before it had ended by itself, or a stop
\* between the two had signalled that server and left the file.
StrangersAreSafe ==
  \A c \in Command, d \in struck \ overlapped :
    LastBefore(c, d) =>
      command[c].server \in died \/ \E e \in unfinished : c < e /\ e < d

\* A process that was started serves or is over in the end: nothing in its
\* start-up waits for another process.
StartUpEnds == \A s \in Server : Starting(s) ~> ~Starting(s)

\* A server that stop answered for ends.
StoppedEnds ==
  \A s \in Server :
    (\E c \in Command : command[c].kind = "stop" /\ command[c].answer = "ok" /\ command[c].server = s)
      ~> server[s].stage = "over"

\* Processes come to rest, whatever users do at the same time.
StartAndStopEnd == StartUpEnds /\ StoppedEnds
=============================================================================
