------------------------- MODULE ServerLifecycleProofs -------------------------
(***************************************************************************)
(* Safety theorems of ServerLifecycle, for any number of servers and       *)
(* commands, and any pids, command lines and environments.                 *)
(***************************************************************************)
EXTENDS ServerLifecycle, TLAPS

-----------------------------------------------------------------------------
(* The inductive invariant *)

Configs == {LoadConfig(args, Home, e) : args \in Args, e \in Env}
Whole   == {"bound", "serving", "stopping"}

ServerState ==
  [stage : {"none", "loading", "opening", "binding", "over"} \cup Whole, step : DOMAIN Listeners,
   args : Args \cup {None}, config : Configs \cup {None}, pid : Pid \cup {None},
   signalled : BOOLEAN, exit : {None, "ok", "error"}]
CommandState ==
  [kind : {None, "start", "foreground", "stop"},
   at : {"idle", "spawned", "writing", "waiting", "read", "signalled", "done", "gone"},
   server : Server \cup {None, Stranger}, pid : Pid \cup {None},
   answer : {None, "ok", "error", "not_found"}]

Types ==
  /\ server \in [Server -> ServerState] /\ command \in [Command -> CommandState]
  /\ holder \in [Ports -> Server \cup {None}]
  /\ pids \in [Pid -> Server \cup {None, Stranger}]
  /\ file \in Pid \cup {None, Blank}
  /\ env \in Env
  /\ died \subseteq Server
  /\ struck \subseteq Command /\ overlapped \subseteq Command /\ unfinished \subseteq Command

Holds(s, l) == holder[server[s].args.ports[Listeners[l]]] = s

\* A process has its pid as long as it lives, a port from when it binds it, and
\* the configuration it has loaded.
ServerInv(s) ==
  /\ Live(s) => server[s].args \in Args /\ server[s].pid \in Pid /\ pids[server[s].pid] = s
  /\ server[s].stage \in {"loading", "opening"} => server[s].step = 1
  /\ server[s].stage = "binding" => \A l \in DOMAIN Listeners : l < server[s].step => Holds(s, l)
  /\ server[s].stage \in Whole => \A l \in DOMAIN Listeners : Holds(s, l)
  /\ server[s].stage \in {"opening", "binding"} \cup Whole =>
       /\ server[s].config = LoadConfig(server[s].args, Home, env)
       /\ server[s].config # Malformed
  /\ server[s].exit # None => server[s].stage = "over"

\* What a command is doing says what it is, and a start knows the pid of the
\* process it has spawned.
CommandInv(c) ==
  /\ command[c].at = "idle" <=> command[c].kind = None
  /\ command[c].at \in {"spawned", "writing"} => command[c].kind = "start" /\ command[c].pid \in Pid
  /\ command[c].at = "waiting" => command[c].kind = "foreground"
  /\ command[c].at \in {"read", "signalled"} => command[c].kind = "stop"
  /\ command[c].at = "read" => command[c].pid \in Pid
  /\ command[c].answer # None => command[c].at = "done"
  /\ \A s \in Server : StartedBy(c, s) =>
       /\ server[s].stage # "none"
       /\ command[c].at \in {"spawned", "writing"} /\ Live(s) => server[s].pid = command[c].pid
  /\ command[c].kind \in {"start", "foreground"} => command[c].server \in Server

Working(c)     == command[c].kind \in {"start", "stop"} /\ command[c].at \notin {"done", "gone"}
Starts(c)      == command[c].at \in {"spawned", "writing"}
Runs(c, s)     == StartedBy(c, s) /\ Live(s) /\ ~server[s].signalled
Answered(c, s) == Runs(c, s) /\ command[c].answer = "ok"
Latest(c)      == \A d \in Command : d > c => command[d].kind # "start"

\* Commands begin in their order. While a start or stop that nobody overlaps is
\* at work nobody else is, and who is at work after it began after it. Stops
\* strike strangers and leave files.
Turns ==
  /\ \A c, d \in Command : command[c].at = "idle" /\ c < d => command[d].at = "idle"
  /\ \A c, d \in Command :
       command[c].kind \in {"start", "stop"} /\ c \notin overlapped /\ Working(d) /\ d # c =>
         c < d /\ ~Working(c)
  /\ \A d \in struck \cup unfinished : command[d].kind = "stop"

\* The pid file leads to the server that the last start has answered for, and so
\* does what a stop has read in it.
Found ==
  \A c \in Command, s \in Server : Answered(c, s) /\ c \notin overlapped /\ Latest(c) =>
    /\ file = server[s].pid
    /\ \A d \in Command : /\ command[d].at = "read" => command[d].pid = server[s].pid
                          /\ command[d].at # "signalled"

\* A pid is that of the server of c.
Leads(c, p) == \E s \in Server : Runs(c, s) /\ server[s].pid = p

\* What explains that a stop finds a stranger under the pid that c has written.
Blame(c, d) == command[c].server \in died \/ \E e \in unfinished : c < e /\ e < d

\* The server of a start that is at work runs, or has died.
SpawnedRuns ==
  \A c \in Command : Starts(c) /\ c \notin overlapped =>
    Runs(c, command[c].server) \/ command[c].server \in died

\* A pid in the file is of the server of the last start, until that dies or is
\* signalled, ...
FileLeads ==
  \A c \in Command :
    /\ Ordered(c) /\ file \in Pid
    /\ \A e \in Command : c < e /\ command[e].kind = "start" => command[e].answer # "ok"
    => \/ Leads(c, file) \/ command[c].server \in died
       \/ \E e \in Command : c < e /\ (e \in unfinished \/ command[e].at = "signalled")

\* ... and so is the pid that a stop has read.
ReadLeads ==
  \A c \in Command, d \in Command \ overlapped :
    command[d].at = "read" /\ LastBefore(c, d) => Leads(c, command[d].pid) \/ Blame(c, d)

Blamed == \A c \in Command, d \in struck \ overlapped : LastBefore(c, d) => Blame(c, d)

Safe == SpawnedRuns /\ FileLeads /\ ReadLeads /\ Blamed

IInv ==
  /\ Types
  /\ \A s \in Server : ServerInv(s)
  /\ \A c \in Command : CommandInv(c)
  /\ Turns /\ Found /\ Safe

USE DEF notes

LEMMA NamesOf == None \notin Server /\ None \notin Pid /\ Stranger \notin Server /\ Blank \notin Pid
              /\ None \notin {"start", "foreground", "stop", "ok"}
BY NamesAssumption

LEMMA ListenersOf == Listeners = <<"grpc", "http", "metrics">> /\ DOMAIN Listeners = 1..3 /\ Len(Listeners) = 3
BY DEF Listeners

LEMMA PortsOf ==
  ASSUME NEW args \in Args, NEW l \in DOMAIN Listeners PROVE args.ports[Listeners[l]] \in Ports
BY DEF Ports, ToSet

LEMMA InitInvariant == Init => IInv
<1> SUFFICES ASSUME Init PROVE IInv
  OBVIOUS
<1>1. NoServer \in ServerState
  BY ListenersOf DEF NoServer, ServerState
<1>2. Types
  BY <1>1 DEF Init, Types, NoCommand, CommandState
<1>3. ASSUME NEW s \in Server PROVE ServerInv(s)
  <2>1. server[s].stage = "none" /\ server[s].exit = None
    BY DEF Init, NoServer
  <2> QED
    BY <2>1 DEF ServerInv, Live, Whole
<1>4. \A c \in Command : command[c].at = "idle" /\ command[c].kind = None /\ command[c].answer = None
  BY DEF Init, NoCommand
<1>5. ASSUME NEW c \in Command PROVE CommandInv(c)
  BY <1>4, NamesOf DEF CommandInv, StartedBy
<1>6. Turns
  BY <1>4, NamesOf DEF Init, Turns, Working
<1>7. Found
  BY <1>4, NamesOf DEF Found, Answered
<1>8. Safe
  BY <1>4, NamesOf DEF Init, Safe, SpawnedRuns, FileLeads, ReadLeads, Blamed, Starts, Ordered
<1> QED
  BY <1>2, <1>3, <1>5, <1>6, <1>7, <1>8 DEF IInv

-----------------------------------------------------------------------------
(* One process or one command takes a step *)

OtherServers(s)  == \A u \in Server : u # s => server'[u] = server[u]
OtherCommands(c) == \A d \in Command : d # c => command'[d] = command[d]

LEMMA ServerUpdated ==
  ASSUME Types, NEW s \in Server, NEW r \in ServerState, server' = [server EXCEPT ![s] = r]
  PROVE  server' \in [Server -> ServerState] /\ server'[s] = r /\ OtherServers(s)
BY DEF Types, OtherServers

LEMMA CommandUpdated ==
  ASSUME Types, NEW c \in Command, NEW r \in CommandState, command' = [command EXCEPT ![c] = r]
  PROVE  command' \in [Command -> CommandState] /\ command'[c] = r /\ OtherCommands(c)
BY DEF Types, OtherCommands

\* A server whose own part of the state does not change.
LEMMA ServerKept ==
  ASSUME IInv, NEW u \in Server, server'[u] = server[u], env' = env,
         \A p \in Ports : holder[p] = u => holder'[p] = u,
         \A p \in Pid : pids[p] = u => pids'[p] = u
  PROVE  ServerInv(u)'
<1>1. ServerInv(u)
  BY DEF IInv
<1>2. ASSUME NEW l \in DOMAIN Listeners, Live(u), Holds(u, l) PROVE Holds(u, l)'
  BY <1>1, <1>2, PortsOf DEF ServerInv, Holds
<1>3. server[u].stage \in {"binding"} \cup Whole => Live(u)
  BY DEF Live, Whole
<1> QED
  BY <1>1, <1>2, <1>3 DEF ServerInv, Live

\* The end of a process leaves the others what they have.
LEMMA ExitShape ==
  ASSUME IInv, NEW s \in Server, Live(s), NEW how \in {"ok", "error"}, Exit(s, how), env' = env
  PROVE  /\ server' \in [Server -> ServerState] /\ OtherServers(s) /\ server'[s].stage = "over"
         /\ holder' \in [Ports -> Server \cup {None}]
         /\ pids' \in [Pid -> Server \cup {None, Stranger}]
         /\ \A u \in Server : ServerInv(u)'
<1> DEFINE r == [NoServer EXCEPT !.stage = "over", !.exit = IF Awaited(s) THEN how ELSE None]
<1>1. r \in ServerState /\ r.stage = "over"
  <2>1. NoServer \in ServerState
    BY ListenersOf DEF NoServer, ServerState
  <2>2. CASE Awaited(s)
    BY <2>1, <2>2 DEF ServerState
  <2>3. CASE ~Awaited(s)
    BY <2>1, <2>3 DEF ServerState
  <2> QED
    BY <2>2, <2>3
<1>2. server' = [server EXCEPT ![s] = r]
  BY DEF Exit
<1> HIDE DEF r
<1>3. server' \in [Server -> ServerState] /\ server'[s] = r /\ OtherServers(s)
  BY <1>1, <1>2, ServerUpdated DEF IInv
<1>4. /\ holder' = [p \in Ports |-> IF holder[p] = s THEN None ELSE holder[p]]
      /\ pids' = [pids EXCEPT ![server[s].pid] = None]
  BY DEF Exit
<1>5. holder' \in [Ports -> Server \cup {None}] /\ pids' \in [Pid -> Server \cup {None, Stranger}]
  BY <1>4 DEF IInv, Types
<1>6. server[s].pid \in Pid /\ pids[server[s].pid] = s
  BY DEF IInv, ServerInv
<1>7. ASSUME NEW u \in Server, u # s PROVE ServerInv(u)'
  <2>1. \A p \in Ports : holder[p] = u => holder'[p] = u
    BY <1>4, <1>7
  <2>2. \A p \in Pid : pids[p] = u => pids'[p] = u
    BY <1>4, <1>6, <1>7 DEF IInv, Types
  <2> QED
    BY <1>3, <1>7, <2>1, <2>2, ServerKept DEF OtherServers
<1>8. ServerInv(s)'
  BY <1>1, <1>3 DEF ServerInv, Live, Whole
<1> QED
  BY <1>1, <1>3, <1>5, <1>7, <1>8

\* The commands go on: what they are and what they have answered stays, and only
\* a start that is at work may come to answer ok.
GoOn ==
  /\ died \subseteq died' /\ overlapped \subseteq overlapped' /\ unfinished \subseteq unfinished'
  /\ \A d \in Command :
       /\ command[d].kind # None => command'[d].kind = command[d].kind
       /\ command[d].kind = "start" => command'[d].server = command[d].server
       /\ command[d].answer = "ok" => command'[d].answer = "ok"
       /\ command'[d].kind = "start" /\ command'[d].answer = "ok" => command[d].answer = "ok" \/ Starts(d)

\* Servers go on, or die.
RunsKept ==
  \A c \in Command, s \in Server : Runs(c, s) =>
    (Runs(c, s)' /\ server'[s].pid = server[s].pid) \/ s \in died'

\* Commands that go on and do not begin.
LEMMA TurnsKept ==
  ASSUME IInv, \A d \in Command : /\ command'[d].kind = command[d].kind
                                  /\ command'[d].at = "idle" <=> command[d].at = "idle"
                                  /\ Working(d)' => Working(d),
         overlapped' = overlapped,
         \A d \in (struck' \cup unfinished') \ (struck \cup unfinished) : command[d].kind = "stop",
         struck' \cup unfinished' \subseteq Command
  PROVE  Turns'
<1>1. \A c, d \in Command : command'[c].at = "idle" /\ c < d => command'[d].at = "idle"
  BY DEF IInv, Turns
<1>2. ASSUME NEW c \in Command, NEW d \in Command, command'[c].kind \in {"start", "stop"},
             c \notin overlapped', Working(d)', d # c
      PROVE  c < d /\ ~Working(c)'
  BY <1>2 DEF IInv, Turns
<1>3. \A d \in struck' \cup unfinished' : command'[d].kind = "stop"
  BY DEF IInv, Turns
<1> QED
  BY <1>1, <1>2, <1>3 DEF Turns

\* One that begins is the first that has not.
LEMMA OrderBegun ==
  ASSUME IInv, NEW c \in Command, Idle(c)
  PROVE  /\ \A d \in Command : c < d => command[d].at = "idle" /\ ~Working(d)
         /\ \A d \in Command : d < c => command[d].at # "idle"
         /\ \A d \in Command : command[d].kind # None => d < c
         /\ command[c].at = "idle" /\ ~Working(c) /\ command[c].kind = None /\ ~Starts(c)
         /\ \A s \in Server : ~StartedBy(c, s)
<1>1. c \in Nat /\ \A d \in Command : d \in Nat /\ (d < c => d \in 1 .. c - 1)
  BY BoundsAssumption DEF Command
<1>2. command[c].at = "idle" /\ \A d \in Command : c < d => command[d].at = "idle"
  BY <1>1 DEF Idle, IInv, Turns
<1>3. \A d \in Command : command[d].at = "idle" => command[d].kind = None /\ ~Working(d) /\ ~Starts(d)
  BY NamesOf DEF IInv, CommandInv, Working, Starts
<1>4. \A d \in Command : d < c => command[d].at # "idle"
  BY <1>1 DEF Idle
<1>5. \A d \in Command : command[d].kind # None => d < c
  BY <1>1, <1>2, <1>3
<1> QED
  BY <1>2, <1>3, <1>4, <1>5, NamesOf DEF StartedBy

LEMMA TurnsBegun ==
  ASSUME IInv, NEW c \in Command, Idle(c), Overlaps(c), OtherCommands(c),
         command'[c].at # "idle", struck' = struck, unfinished' = unfinished
  PROVE  Turns'
<1>1. /\ \A d \in Command : c < d => command[d].at = "idle" /\ ~Working(d)
      /\ \A d \in Command : d < c => command[d].at # "idle"
      /\ ~Working(c) /\ command[c].kind = None
  BY OrderBegun
<1>2. \A d \in Command : d \in AtWork <=> Working(d)
  BY DEF AtWork, Working
<1>3. /\ overlapped \subseteq overlapped'
      /\ AtWork # {} => c \in overlapped' /\ \A d \in Command : Working(d) => d \in overlapped'
  BY <1>2 DEF Overlaps
<1>4. ASSUME NEW x \in Command, NEW y \in Command, command'[x].at = "idle", x < y PROVE command'[y].at = "idle"
  BY <1>1, <1>4 DEF OtherCommands, IInv, Turns
<1>5. ASSUME NEW x \in Command, NEW y \in Command, command'[x].kind \in {"start", "stop"},
             x \notin overlapped', Working(y)', y # x
      PROVE  x < y /\ ~Working(x)'
  <2>1. CASE AtWork = {}
    <3>1. y = c /\ ~Working(x) /\ command'[x] = command[x]
      BY <1>2, <1>5, <2>1 DEF OtherCommands, Working
    <3>2. command[x].at # "idle"
      BY <1>5, <3>1, NamesOf DEF IInv, CommandInv
    <3>3. x < c
      BY <1>1, <1>5, <3>1, <3>2, BoundsAssumption DEF Command
    <3> QED
      BY <3>1, <3>3 DEF Working
  <2>2. CASE AtWork # {}
    <3>1. x # c /\ ~Working(x) /\ command'[x] = command[x]
      BY <1>3, <1>5, <2>2 DEF OtherCommands
    <3>2. x < y
      <4>1. CASE y = c
        <5>1. command[x].at # "idle"
          BY <1>5, <3>1, NamesOf DEF IInv, CommandInv
        <5> QED
          BY <1>1, <3>1, <4>1, <5>1, BoundsAssumption DEF Command
      <4>2. CASE y # c
        BY <1>3, <1>5, <3>1, <4>2 DEF OtherCommands, Working, IInv, Turns
      <4> QED
        BY <4>1, <4>2
    <3> QED
      BY <3>1, <3>2 DEF Working
  <2> QED
    BY <2>1, <2>2
<1>6. \A d \in struck' \cup unfinished' : command'[d].kind = "stop"
  <2>1. \A d \in struck \cup unfinished : d \in Command /\ command[d].kind = "stop"
    BY DEF IInv, Types, Turns
  <2> QED
    BY <1>1, <2>1, NamesOf DEF OtherCommands, IInv, CommandInv
<1> QED
  BY <1>4, <1>5, <1>6 DEF Turns

\* Neither the file nor a server that a start has answered for changes.
LEMMA FoundKept ==
  ASSUME IInv, GoOn, file' = file,
         \A c \in Command, s \in Server : Answered(c, s)' => Answered(c, s) /\ server'[s].pid = server[s].pid,
         \A d \in Command : /\ command'[d].at = "read" => command[d].at = "read" /\ command'[d].pid = command[d].pid
                            /\ command'[d].at = "signalled" => command[d].at = "signalled"
  PROVE  Found'
<1> SUFFICES ASSUME NEW c \in Command, NEW s \in Server, Answered(c, s)', c \notin overlapped', Latest(c)'
             PROVE  /\ file' = server'[s].pid
                    /\ \A d \in Command : /\ command'[d].at = "read" => command'[d].pid = server'[s].pid
                                          /\ command'[d].at # "signalled"
  BY DEF Found
<1>1. Answered(c, s) /\ server'[s].pid = server[s].pid /\ c \notin overlapped
  BY DEF GoOn
<1>2. Latest(c)
  BY NamesOf DEF Latest, GoOn
<1> QED
  BY <1>1, <1>2 DEF IInv, Found

\* The last start before a stop that nobody overlaps stays the last, and to blame.
LEMMA LastKept ==
  ASSUME IInv, GoOn, NEW c \in Command, NEW d \in Command, command[d].kind = "stop", d \notin overlapped',
         LastBefore(c, d)'
  PROVE  LastBefore(c, d) /\ (Blame(c, d) => Blame(c, d)')
<1>1. Ordered(c)' /\ c < d /\ d \notin overlapped
  BY DEF LastBefore, GoOn
<1>2. command[c].answer = "ok"
  <2> SUFFICES ASSUME command[c].answer # "ok" PROVE FALSE
    OBVIOUS
  <2>1. Starts(c)
    BY <1>1 DEF GoOn, Ordered
  <2>2. Working(c)
    BY <2>1 DEF IInv, CommandInv, Starts, Working
  <2>3. d < c
    BY <1>1, <2>2, BoundsAssumption DEF IInv, Turns, Command
  <2> QED
    BY <1>1, <2>3, BoundsAssumption DEF Command
<1>3. command[c].kind # None
  BY <1>2, NamesOf DEF IInv, CommandInv
<1>4. Ordered(c) /\ command'[c].server = command[c].server
  BY <1>1, <1>2, <1>3 DEF GoOn, Ordered
<1>5. LastBefore(c, d)
  <2> SUFFICES ASSUME NEW e \in Command, c < e, e < d, command[e].kind = "start", command[e].answer = "ok"
               PROVE  FALSE
    BY <1>1, <1>4 DEF LastBefore
  <2>1. command'[e].kind = "start" /\ command'[e].answer = "ok"
    BY NamesOf DEF GoOn
  <2> QED
    BY <2>1 DEF LastBefore
<1>6. Blame(c, d) => Blame(c, d)'
  BY <1>4 DEF Blame, GoOn
<1> QED
  BY <1>5, <1>6

LEMMA BlamedKept ==
  ASSUME IInv, GoOn, struck' = struck PROVE Blamed'
<1> SUFFICES ASSUME NEW c \in Command, NEW d \in struck, d \notin overlapped', LastBefore(c, d)'
             PROVE  Blame(c, d)'
  BY DEF Blamed
<1>1. d \in Command /\ command[d].kind = "stop" /\ d \notin overlapped
  BY DEF IInv, Types, Turns, GoOn
<1> QED
  BY <1>1, LastKept DEF IInv, Safe, Blamed

LEMMA LeadsKept ==
  ASSUME IInv, RunsKept, NEW c \in Command, NEW p, Leads(c, p)
  PROVE  Leads(c, p)' \/ command[c].server \in died'
<1>1. PICK s \in Server : Runs(c, s) /\ server[s].pid = p
  BY DEF Leads
<1> QED
  BY <1>1 DEF RunsKept, Leads, Runs, StartedBy

LEMMA ReadKeptOf ==
  ASSUME IInv, GoOn, RunsKept, NEW c \in Command, NEW d \in Command, d \notin overlapped',
         command[d].at = "read", command'[d].pid = command[d].pid, LastBefore(c, d)'
  PROVE  Leads(c, command[d].pid)' \/ Blame(c, d)'
<1>1. command[d].kind = "stop" /\ d \notin overlapped
  BY DEF IInv, CommandInv, GoOn
<1>2. LastBefore(c, d) /\ (Blame(c, d) => Blame(c, d)')
  BY <1>1, LastKept
<1>3. Leads(c, command[d].pid) \/ Blame(c, d)
  BY <1>1, <1>2 DEF IInv, Safe, ReadLeads
<1>4. command'[c].server = command[c].server
  BY <1>2 DEF LastBefore, Ordered, GoOn
<1>5. ASSUME Leads(c, command[d].pid) PROVE Leads(c, command[d].pid)' \/ Blame(c, d)'
  <2>1. PICK p : p = command[d].pid
    OBVIOUS
  <2>2. Leads(c, p)' \/ command[c].server \in died'
    BY <1>5, <2>1, LeadsKept
  <2> QED
    BY <1>4, <2>1, <2>2 DEF Blame, Leads
<1> QED
  BY <1>2, <1>3, <1>5

LEMMA ReadKept ==
  ASSUME IInv, GoOn, RunsKept,
         \A d \in Command : command'[d].at = "read" => command[d].at = "read" /\ command'[d].pid = command[d].pid
  PROVE  ReadLeads'
BY ReadKeptOf DEF ReadLeads

\* The file is as it was, or leads nowhere, and no start has come to answer ok.
LEMMA FileKept ==
  ASSUME IInv, GoOn, RunsKept, file' \in Pid => file' = file,
         \A d \in Command : /\ command'[d].kind = "start" /\ command'[d].answer = "ok" => command[d].answer = "ok"
                            /\ command[d].at = "signalled" => command'[d].at = "signalled" \/ d \in unfinished' \/ file' \notin Pid
  PROVE  FileLeads'
<1> SUFFICES ASSUME NEW c \in Command, Ordered(c)', file' \in Pid,
                    \A e \in Command : c < e /\ command'[e].kind = "start" => command'[e].answer # "ok"
             PROVE  \/ Leads(c, file)' \/ command'[c].server \in died'
                    \/ \E e \in Command : c < e /\ (e \in unfinished' \/ command'[e].at = "signalled")
  BY DEF FileLeads
<1>1. command[c].answer = "ok" /\ c \notin overlapped
  BY DEF Ordered, GoOn
<1>2. Ordered(c) /\ command'[c].server = command[c].server
  BY <1>1, NamesOf DEF Ordered, GoOn, IInv, CommandInv
<1>3. \A e \in Command : c < e /\ command[e].kind = "start" => command[e].answer # "ok"
  BY NamesOf DEF GoOn
<1>4. \/ Leads(c, file) \/ command[c].server \in died
      \/ \E e \in Command : c < e /\ (e \in unfinished \/ command[e].at = "signalled")
  BY <1>2, <1>3 DEF IInv, Safe, FileLeads
<1>5. ASSUME Leads(c, file) PROVE Leads(c, file)' \/ command'[c].server \in died'
  <2>1. PICK p : p = file
    OBVIOUS
  <2>2. Leads(c, p)' \/ command[c].server \in died'
    BY <1>5, <2>1, LeadsKept
  <2> QED
    BY <1>2, <2>1, <2>2 DEF Leads
<1> QED
  BY <1>2, <1>4, <1>5 DEF GoOn

LEMMA SpawnedKeptOf ==
  ASSUME IInv, GoOn, RunsKept, NEW c \in Command, Starts(c), c \notin overlapped'
  PROVE  Runs(c, command[c].server)' \/ command'[c].server \in died'
<1>1. c \notin overlapped /\ command[c].kind = "start"
  BY DEF GoOn, IInv, CommandInv, Starts
<1>2. PICK s \in Server : s = command[c].server
  BY <1>1 DEF IInv, CommandInv
<1>3. command'[c].server = s /\ (Runs(c, s) \/ s \in died)
  BY <1>1, <1>2 DEF GoOn, IInv, Safe, SpawnedRuns
<1>4. Runs(c, s)' \/ s \in died'
  BY <1>3 DEF RunsKept, GoOn
<1> QED
  BY <1>3, <1>4

LEMMA SpawnedKept ==
  ASSUME IInv, GoOn, RunsKept, \A d \in Command : Starts(d)' => Starts(d) PROVE SpawnedRuns'
BY SpawnedKeptOf DEF SpawnedRuns

\* A step that no command takes.
LEMMA OrderKept ==
  ASSUME IInv, command' = command, file' = file, struck' = struck, overlapped' = overlapped,
         unfinished' = unfinished, died \subseteq died',
         \A u \in Server : Live(u)' =>
           \/ server[u].stage = "none"
           \/ Live(u) /\ server'[u].pid = server[u].pid /\ server'[u].signalled = server[u].signalled,
         \A u \in Server : Live(u) /\ Detached(u) /\ ~server[u].signalled =>
           Live(u)' \/ u \in died',
         \A u \in Server : server[u].stage # "none" => server'[u].stage # "none"
  PROVE  (\A c \in Command : CommandInv(c)') /\ Turns' /\ Found' /\ Safe'
<1>1. ASSUME NEW c \in Command, NEW s \in Server, Runs(c, s)'
      PROVE  Runs(c, s) /\ server'[s].pid = server[s].pid
  BY <1>1 DEF IInv, CommandInv, Runs, StartedBy
<1>2. RunsKept
  <2> SUFFICES ASSUME NEW c \in Command, NEW s \in Server, Runs(c, s), s \notin died'
               PROVE  Runs(c, s)' /\ server'[s].pid = server[s].pid
    BY DEF RunsKept
  <2>1. Detached(s) /\ Live(s)
    BY DEF Runs, Detached
  <2>2. Live(s)' /\ server[s].stage # "none"
    BY <2>1 DEF Runs, Live
  <2> QED
    BY <2>2 DEF Runs, StartedBy
<1>3. GoOn
  BY DEF GoOn
<1>4. ASSUME NEW c \in Command PROVE CommandInv(c)'
  <2>1. CommandInv(c)
    BY DEF IInv
  <2> QED
    BY <2>1 DEF CommandInv, StartedBy
<1>5. Turns'
  BY DEF IInv, Turns, Working
<1>6. Found'
  BY <1>1, <1>3, FoundKept DEF Answered
<1>7. Safe'
  BY <1>2, <1>3, SpawnedKept, FileKept, ReadKept, BlamedKept DEF Safe, Starts
<1> QED
  BY <1>4, <1>5, <1>6, <1>7

-----------------------------------------------------------------------------
(* A server process *)

\* A server step that leaves the commands, the file and the pids alone, on a
\* server that goes on.
GoesOn(s) ==
  /\ server' \in [Server -> ServerState] /\ OtherServers(s)
  /\ Live(s) /\ Live(s)'
  /\ server'[s].pid = server[s].pid /\ server'[s].signalled = server[s].signalled
  /\ server'[s].args = server[s].args

LEMMA GoesOnStep ==
  ASSUME IInv, NEW s \in Server, GoesOn(s), ServerInv(s)',
         holder' \in [Ports -> Server \cup {None}],
         \A p \in Ports : holder[p] # None => holder'[p] = holder[p],
         UNCHANGED <<pids, file, command, env, notes>>
  PROVE  IInv'
<1>1. Types'
  BY DEF IInv, Types, GoesOn
<1>2. ASSUME NEW u \in Server PROVE ServerInv(u)'
  <2>1. CASE u # s
    <3>1. server'[u] = server[u]
      BY <2>1 DEF GoesOn, OtherServers
    <3>2. \A p \in Ports : holder[p] = u => holder'[p] = u
      BY NamesOf
    <3> QED
      BY <3>1, <3>2, ServerKept
  <2> QED
    BY <2>1
<1>3. \A u \in Server : Live(u)' = Live(u) /\ server'[u].pid = server[u].pid
                        /\ server'[u].signalled = server[u].signalled
  BY DEF GoesOn, OtherServers, Live
<1>4. \A u \in Server : server[u].stage # "none" => server'[u].stage # "none"
  BY DEF GoesOn, OtherServers, Live
<1>5. (\A c \in Command : CommandInv(c)') /\ Turns' /\ Found' /\ Safe'
  BY <1>3, <1>4, OrderKept
<1> QED
  BY <1>1, <1>2, <1>5 DEF IInv

LEMMA DiesStep ==
  ASSUME IInv, NEW s \in Server, Live(s), NEW how \in {"ok", "error"}, Dies(s, how)
  PROVE  IInv'
<1>1. /\ Exit(s, how)
      /\ died' = died \cup {u \in {s} : Detached(u) /\ ~server[u].signalled}
      /\ UNCHANGED <<file, command, env, struck, overlapped, unfinished>>
  BY DEF Dies
<1>2. /\ server' \in [Server -> ServerState] /\ OtherServers(s) /\ server'[s].stage = "over"
      /\ holder' \in [Ports -> Server \cup {None}]
      /\ pids' \in [Pid -> Server \cup {None, Stranger}]
      /\ \A u \in Server : ServerInv(u)'
  BY <1>1, ExitShape
<1>3. died \subseteq died' /\ died' \subseteq died \cup {s}
      /\ (Detached(s) /\ ~server[s].signalled => s \in died')
  BY <1>1
<1>4. Types'
  BY <1>1, <1>2, <1>3 DEF IInv, Types
<1>5. \A u \in Server : Live(u)' =>
        Live(u) /\ server'[u].pid = server[u].pid /\ server'[u].signalled = server[u].signalled
  BY <1>2 DEF OtherServers, Live
<1>6. \A u \in Server : Live(u) /\ Detached(u) /\ ~server[u].signalled => Live(u)' \/ u \in died'
  BY <1>2, <1>3 DEF OtherServers, Live
<1>7. \A u \in Server : server[u].stage # "none" => server'[u].stage # "none"
  BY <1>2 DEF OtherServers
<1>8. (\A c \in Command : CommandInv(c)') /\ Turns' /\ Found' /\ Safe'
  BY <1>1, <1>3, <1>5, <1>6, <1>7, OrderKept
<1> QED
  BY <1>2, <1>4, <1>8 DEF IInv

\* A process moves to another stage of its life.
LEMMA MovesShape ==
  ASSUME IInv, NEW s \in Server, Live(s), NEW stage \in {"binding"} \cup Whole, Moves(s, stage)
  PROVE  /\ GoesOn(s) /\ server'[s].stage = stage /\ server'[s].step = server[s].step
         /\ server'[s].config = server[s].config /\ server'[s].exit = server[s].exit
<1> DEFINE r == [server[s] EXCEPT !.stage = stage]
<1>1. server[s] \in ServerState
  BY DEF IInv, Types
<1>2. /\ r \in ServerState /\ r.stage = stage /\ r.step = server[s].step /\ r.pid = server[s].pid
      /\ r.signalled = server[s].signalled /\ r.args = server[s].args
      /\ r.config = server[s].config /\ r.exit = server[s].exit
  BY <1>1 DEF ServerState
<1>3. server' = [server EXCEPT ![s] = r]
  BY DEF Moves
<1> HIDE DEF r
<1>4. server' \in [Server -> ServerState] /\ server'[s] = r /\ OtherServers(s)
  BY <1>2, <1>3, ServerUpdated DEF IInv
<1> QED
  BY <1>2, <1>4 DEF GoesOn, Live, Whole

LEMMA LoadStep ==
  ASSUME IInv, NEW s \in Server, Load(s) PROVE IInv'
<1>1. server[s].stage = "loading" /\ Live(s) /\ ServerInv(s) /\ server[s].args \in Args
  BY DEF Load, Live, IInv, ServerInv
<1> DEFINE config == LoadConfig(server[s].args, Home, env)
<1>2. CASE \E how \in {"ok", "error"} : Dies(s, how)
  BY <1>1, <1>2, DiesStep
<1>3. CASE /\ config # Malformed
           /\ server' = [server EXCEPT ![s].stage = "opening", ![s].config = config]
           /\ UNCHANGED <<holder, pids, file, command, env, notes>>
  <2> DEFINE r == [server[s] EXCEPT !.stage = "opening", !.config = config]
  <2>1. config \in Configs /\ server[s] \in ServerState
    BY <1>1 DEF Configs, IInv, Types
  <2> HIDE DEF config
  <2>2. /\ r \in ServerState /\ r.stage = "opening" /\ r.step = server[s].step /\ r.pid = server[s].pid
        /\ r.signalled = server[s].signalled /\ r.args = server[s].args
        /\ r.config = config /\ r.exit = server[s].exit
    BY <2>1 DEF ServerState
  <2>3. server' = [server EXCEPT ![s] = r]
    BY <1>3
  <2> HIDE DEF r
  <2>4. server' \in [Server -> ServerState] /\ server'[s] = r /\ OtherServers(s)
    BY <2>2, <2>3, ServerUpdated DEF IInv
  <2>5. GoesOn(s)
    BY <1>1, <2>2, <2>4 DEF GoesOn, Live
  <2>6. r.config = LoadConfig(r.args, Home, env)
    BY <2>2 DEF config
  <2>7. ServerInv(s)'
    BY <1>1, <1>3, <2>2, <2>4, <2>6 DEF ServerInv, Live, Whole
  <2> QED
    BY <1>3, <2>5, <2>7, GoesOnStep DEF IInv, Types
<1>4. \/ \E how \in {"ok", "error"} : Dies(s, how)
      \/ /\ config # Malformed
         /\ server' = [server EXCEPT ![s].stage = "opening", ![s].config = config]
         /\ UNCHANGED <<holder, pids, file, command, env, notes>>
  BY DEF Load
<1> QED
  BY <1>2, <1>3, <1>4

LEMMA OpenStep ==
  ASSUME IInv, NEW s \in Server, Open(s) PROVE IInv'
<1>1. server[s].stage = "opening" /\ Live(s) /\ ServerInv(s)
  BY DEF Open, Live, IInv
<1>2. CASE Dies(s, "error")
  BY <1>1, <1>2, DiesStep
<1>3. CASE Moves(s, "binding") /\ UNCHANGED <<holder, pids, file, command, env, notes>>
  <2>1. /\ GoesOn(s) /\ server'[s].stage = "binding" /\ server'[s].step = server[s].step
        /\ server'[s].config = server[s].config /\ server'[s].exit = server[s].exit
    BY <1>1, <1>3, MovesShape
  <2>2. \A l \in DOMAIN Listeners : ~(l < 1)
    BY ListenersOf
  <2>3. server'[s].step = 1 /\ server'[s].args = server[s].args /\ server'[s].pid = server[s].pid
    BY <1>1, <2>1 DEF ServerInv, GoesOn
  <2>4. ServerInv(s)'
    BY <1>1, <1>3, <2>1, <2>2, <2>3 DEF ServerInv, Live, Whole
  <2> QED
    BY <1>3, <2>1, <2>4, GoesOnStep DEF IInv, Types
<1> QED
  BY <1>2, <1>3 DEF Open

LEMMA BindStep ==
  ASSUME IInv, NEW s \in Server, Bind(s) PROVE IInv'
<1>1. server[s].stage = "binding" /\ Live(s) /\ ServerInv(s) /\ server[s].args \in Args
      /\ server[s] \in ServerState
  BY DEF Bind, Live, IInv, ServerInv, Types
<1>2. CASE Dies(s, "error")
  BY <1>1, <1>2, DiesStep
<1>3. CASE holder[PortOf(s)] = None /\ Takes(s, PortOf(s))
  <2> DEFINE k == server[s].step
  <2>1. k \in 1..3 /\ PortOf(s) \in Ports
    BY <1>1, ListenersOf, PortsOf DEF ServerState, PortOf
  <2>2. /\ holder' = [holder EXCEPT ![PortOf(s)] = s]
        /\ UNCHANGED <<pids, file, command, env, notes>>
    BY <1>3 DEF Takes
  <2>3. /\ holder' \in [Ports -> Server \cup {None}]
        /\ \A p \in Ports : holder[p] # None => holder'[p] = holder[p]
        /\ holder'[PortOf(s)] = s
    BY <1>3, <2>1, <2>2 DEF IInv, Types
  <2>4. \A l \in DOMAIN Listeners : l <= k => holder'[server[s].args.ports[Listeners[l]]] = s
    <3> SUFFICES ASSUME NEW l \in DOMAIN Listeners, l <= k
                 PROVE  holder'[server[s].args.ports[Listeners[l]]] = s
      OBVIOUS
    <3>1. CASE l = k
      BY <2>3, <3>1 DEF PortOf
    <3>2. CASE l < k
      <4>1. holder[server[s].args.ports[Listeners[l]]] = s
        BY <1>1, <3>2 DEF ServerInv, Holds
      <4> QED
        BY <1>1, <2>3, <4>1, PortsOf, NamesOf
    <3> QED
      BY <2>1, <3>1, <3>2, ListenersOf
  <2> DEFINE r == IF k < 3 THEN [server[s] EXCEPT !.step = k + 1] ELSE [server[s] EXCEPT !.stage = "bound"]
  <2>5. server' = [server EXCEPT ![s] = r]
    <3>1. Len(Listeners) = 3
      BY ListenersOf
    <3>2. CASE k < 3
      BY <1>3, <3>1, <3>2 DEF Takes
    <3>3. CASE ~(k < 3)
      BY <1>3, <3>1, <3>3 DEF Takes
    <3> QED
      BY <3>2, <3>3
  <2>6. /\ r \in ServerState /\ r.pid = server[s].pid
        /\ r.signalled = server[s].signalled /\ r.args = server[s].args
        /\ r.config = server[s].config /\ r.exit = server[s].exit
        /\ \/ k < 3 /\ r.stage = "binding" /\ r.step = k + 1
           \/ k = 3 /\ r.stage = "bound"
    BY <1>1, <2>1, ListenersOf DEF ServerState, Whole
  <2> HIDE DEF r
  <2>7. server' \in [Server -> ServerState] /\ server'[s] = r /\ OtherServers(s)
    BY <2>5, <2>6, ServerUpdated DEF IInv
  <2>8. GoesOn(s)
    BY <1>1, <2>6, <2>7 DEF GoesOn, Live
  <2>9. \A l \in DOMAIN Listeners : r.stage = "bound" \/ l < r.step => Holds(s, l)'
    BY <2>1, <2>4, <2>6, <2>7, ListenersOf DEF Holds
  <2>10. ServerInv(s)'
    BY <1>1, <2>2, <2>6, <2>7, <2>9 DEF ServerInv, Live, Whole
  <2> QED
    BY <2>2, <2>3, <2>8, <2>10, GoesOnStep
<1> QED
  BY <1>2, <1>3 DEF Bind

LEMMA WholeStep ==
  ASSUME IInv, NEW s \in Server, server[s].stage \in Whole, NEW stage \in Whole, Moves(s, stage),
         UNCHANGED <<holder, pids, file, command, env, notes>>
  PROVE  IInv'
<1>1. Live(s) /\ ServerInv(s)
  BY DEF Live, Whole, IInv
<1>2. /\ GoesOn(s) /\ server'[s].stage = stage /\ server'[s].step = server[s].step
      /\ server'[s].config = server[s].config /\ server'[s].exit = server[s].exit
  BY <1>1, MovesShape
<1>3. server'[s].args = server[s].args /\ server'[s].pid = server[s].pid
  BY <1>2 DEF GoesOn
<1>4. \A l \in DOMAIN Listeners : Holds(s, l)'
  BY <1>1, <1>3 DEF ServerInv, Holds
<1>5. ServerInv(s)'
  BY <1>1, <1>2, <1>3, <1>4 DEF ServerInv, Live, Whole
<1> QED
  BY <1>2, <1>5, GoesOnStep DEF IInv, Types

LEMMA ServerStep ==
  ASSUME IInv, NEW s \in Server, Progress(s) \/ TaskExit(s) \/ Crash(s) PROVE IInv'
<1>1. CASE Install(s) \/ BeginShutdown(s)
  BY <1>1, WholeStep DEF Install, BeginShutdown, Whole
<1>2. CASE Stopped(s) \/ TaskExit(s) \/ Crash(s)
  BY <1>2, DiesStep DEF Stopped, TaskExit, Crash, Live
<1> QED
  BY <1>1, <1>2, LoadStep, OpenStep, BindStep DEF Progress

LEMMA IntrudeStep ==
  ASSUME IInv, NEW p \in Pid, Intrude(p) PROVE IInv'
<1>1. pids[p] = None /\ pids' = [pids EXCEPT ![p] = Stranger]
      /\ UNCHANGED <<server, holder, file, command, env, notes>>
  BY DEF Intrude
<1>2. Types'
  BY <1>1 DEF IInv, Types
<1>3. \A u \in Server : \A q \in Pid : pids[q] = u => pids'[q] = u
  BY <1>1, NamesOf DEF IInv, Types
<1>4. \A u \in Server : ServerInv(u)'
  BY <1>1, <1>3, ServerKept
<1>5. \A u \in Server : Live(u)' = Live(u)
  BY <1>1 DEF Live
<1>6. (\A c \in Command : CommandInv(c)') /\ Turns' /\ Found' /\ Safe'
  BY <1>1, <1>5, OrderKept
<1> QED
  BY <1>2, <1>4, <1>6 DEF IInv

-----------------------------------------------------------------------------
(* Spawning a process *)

LEMMA SpawnedShape ==
  ASSUME IInv, NEW s \in Server, NEW p \in Pid, NEW args \in Args, Spawned(s, p, args)
  PROVE  /\ UNCHANGED <<holder, file, env, died, struck, unfinished>>
         /\ server[s].stage = "none" /\ OtherServers(s)
         /\ server' \in [Server -> ServerState]
         /\ server'[s].stage = "loading" /\ server'[s].pid = p /\ ~server'[s].signalled
         /\ pids' \in [Pid -> Server \cup {None, Stranger}]
         /\ \A u \in Server : ServerInv(u)'
<1> DEFINE r == [NoServer EXCEPT !.stage = "loading", !.args = args, !.pid = p]
<1>1. r \in ServerState /\ r.stage = "loading" /\ r.step = 1 /\ r.args = args /\ r.pid = p
      /\ r.signalled = FALSE /\ r.exit = None
  <2>1. NoServer \in ServerState
    BY ListenersOf DEF NoServer, ServerState
  <2> QED
    BY <2>1 DEF NoServer, ServerState
<1>2. /\ server' = [server EXCEPT ![s] = r] /\ pids[p] = None /\ pids' = [pids EXCEPT ![p] = s]
      /\ UNCHANGED <<holder, file, env, died, struck, unfinished>> /\ server[s].stage = "none"
  BY DEF Spawned
<1> HIDE DEF r
<1>3. server' \in [Server -> ServerState] /\ server'[s] = r /\ OtherServers(s)
  BY <1>1, <1>2, ServerUpdated DEF IInv
<1>4. pids' \in [Pid -> Server \cup {None, Stranger}] /\ pids'[p] = s
      /\ \A u \in Server : \A q \in Pid : pids[q] = u => pids'[q] = u
  BY <1>2, NamesOf DEF IInv, Types
<1>5. ASSUME NEW u \in Server, u # s PROVE ServerInv(u)'
  <2>1. server'[u] = server[u]
    BY <1>3, <1>5 DEF OtherServers
  <2> QED
    BY <1>2, <1>4, <2>1, ServerKept
<1>6. ServerInv(s)'
  BY <1>1, <1>3, <1>4 DEF ServerInv, Whole
<1> QED
  BY <1>1, <1>2, <1>3, <1>4, <1>5, <1>6

LEMMA CertificateStep ==
  ASSUME IInv, NEW s \in Server, RunForCertificate(s) PROVE IInv'
<1>1. PICK p \in Pid, args \in Args : Spawned(s, p, args)
  BY DEF RunForCertificate
<1>2. UNCHANGED <<command, overlapped>>
  BY DEF RunForCertificate
<1>3. /\ UNCHANGED <<holder, file, env, died, struck, unfinished>>
      /\ server[s].stage = "none" /\ OtherServers(s)
      /\ server' \in [Server -> ServerState] /\ server'[s].stage = "loading"
      /\ pids' \in [Pid -> Server \cup {None, Stranger}]
      /\ \A u \in Server : ServerInv(u)'
  BY <1>1, SpawnedShape
<1>4. Types'
  BY <1>2, <1>3 DEF IInv, Types
<1>5. \A u \in Server : u # s => Live(u)' = Live(u)
  BY <1>3 DEF OtherServers, Live
<1>6. ~Live(s)
  BY <1>3 DEF Live
<1>7. (\A c \in Command : CommandInv(c)') /\ Turns' /\ Found' /\ Safe'
  BY <1>2, <1>3, <1>5, <1>6, OrderKept DEF OtherServers
<1> QED
  BY <1>3, <1>4, <1>7 DEF IInv

-----------------------------------------------------------------------------
(* A command *)

\* A command that takes no step is what it was, as long as no process is
\* brought back to life.
LEMMA CommandKept ==
  ASSUME IInv, NEW d \in Command, command'[d] = command[d],
         \A u \in Server : server[u].stage # "none" =>
           server'[u].stage # "none" /\ (Live(u)' => Live(u) /\ server'[u].pid = server[u].pid)
  PROVE  CommandInv(d)'
<1>1. CommandInv(d)
  BY DEF IInv
<1>2. ASSUME NEW u \in Server, StartedBy(d, u)'
      PROVE  /\ server'[u].stage # "none"
             /\ command'[d].at \in {"spawned", "writing"} /\ Live(u)' => server'[u].pid = command'[d].pid
  BY <1>1, <1>2 DEF CommandInv, StartedBy
<1> QED
  BY <1>1, <1>2 DEF CommandInv

\* A step of a command that spawns and signals nobody.
CommandStep(c) ==
  /\ command' \in [Command -> CommandState] /\ OtherCommands(c)
  /\ UNCHANGED <<server, holder, pids, env, died>>

LEMMA CommandOnly ==
  ASSUME IInv, NEW c \in Command, CommandStep(c), CommandInv(c)',
         file' \in Pid \cup {None, Blank},
         struck' \subseteq Command, overlapped' \subseteq Command, unfinished' \subseteq Command,
         Turns', Found', Safe'
  PROVE  IInv'
<1>1. Types'
  BY DEF IInv, Types, CommandStep
<1>2. \A u \in Server : ServerInv(u)'
  BY ServerKept DEF CommandStep
<1>3. \A u \in Server : Live(u)' = Live(u)
  BY DEF CommandStep, Live
<1>4. ASSUME NEW d \in Command, d # c PROVE CommandInv(d)'
  BY <1>3, <1>4, CommandKept DEF CommandStep, OtherCommands
<1> QED
  BY <1>1, <1>2, <1>4 DEF IInv

\* A command that has begun goes on.
LEMMA CommandGoesOn ==
  ASSUME IInv, NEW c \in Command, CommandStep(c),
         command'[c].kind = command[c].kind,
         command[c].kind = "start" => command'[c].server = command[c].server,
         command[c].answer = None, command'[c].answer = "ok" => command[c].kind # "start" \/ Starts(c),
         overlapped' = overlapped, unfinished \subseteq unfinished'
  PROVE  /\ GoOn /\ RunsKept
         /\ \A d \in Command, s \in Server : Runs(d, s)' = Runs(d, s)
<1>1. \A d \in Command, s \in Server : Runs(d, s)' = Runs(d, s)
  BY DEF Runs, StartedBy, Live, CommandStep, OtherCommands
<1>2. GoOn
  BY NamesOf DEF GoOn, CommandStep, OtherCommands
<1>3. RunsKept
  BY <1>1 DEF RunsKept, CommandStep
<1> QED
  BY <1>1, <1>2, <1>3

\* ... or ends, and leaves the file.
LEMMA EndsStep ==
  ASSUME IInv, NEW c \in Command, CommandStep(c),
         command[c].at # "idle", command[c].answer = None, command'[c].at \in {"done", "gone"},
         command'[c].kind = command[c].kind, command'[c].server = command[c].server,
         command'[c].answer # None => command'[c].at = "done",
         command'[c].answer = "ok" => command[c].kind # "start",
         UNCHANGED <<file, struck, overlapped>>,
         unfinished' = unfinished \cup {d \in {c} : command[d].at = "signalled"}
  PROVE  IInv'
<1>1. CommandInv(c) /\ c \in Command
  BY DEF IInv
<1>2. CommandInv(c)'
  BY <1>1 DEF CommandInv, StartedBy, CommandStep, Live
<1>3. /\ GoOn /\ RunsKept
      /\ \A d \in Command, s \in Server : Runs(d, s)' = Runs(d, s)
  BY CommandGoesOn
<1>4. \A d \in Command : /\ command'[d].kind = command[d].kind
                         /\ command'[d].at = "idle" <=> command[d].at = "idle"
                         /\ Working(d)' => Working(d)
                         /\ Starts(d)' => Starts(d)
                         /\ command'[d].at = "read" => command[d].at = "read" /\ command'[d].pid = command[d].pid
                         /\ command'[d].at = "signalled" => command[d].at = "signalled"
                         /\ command[d].at = "signalled" => command'[d].at = "signalled" \/ d \in unfinished'
                         /\ command'[d].kind = "start" /\ command'[d].answer = "ok" => command[d].answer = "ok"
  BY DEF CommandStep, OtherCommands, Working, Starts
<1>5. unfinished' \subseteq Command /\ \A d \in unfinished' \ unfinished : command[d].kind = "stop"
  BY <1>1 DEF IInv, Types, CommandInv
<1>6. Turns'
  BY <1>4, <1>5, TurnsKept DEF IInv, Types
<1>7. \A d \in Command, s \in Server : Answered(d, s)' => Answered(d, s) /\ server'[s].pid = server[s].pid
  BY <1>3, <1>4 DEF Answered, Runs, StartedBy, CommandStep
<1>8. Found'
  BY <1>3, <1>4, <1>7, FoundKept
<1>9. Safe'
  BY <1>3, <1>4, SpawnedKept, FileKept, ReadKept, BlamedKept DEF Safe
<1> QED
  BY <1>2, <1>5, <1>6, <1>8, <1>9, CommandOnly DEF IInv, Types

LEMMA AnswersShape ==
  ASSUME IInv, NEW c \in Command, NEW how \in {None, "ok", "error"}, Answers(c, how)
  PROVE  /\ command' \in [Command -> CommandState] /\ OtherCommands(c)
         /\ command'[c].kind = command[c].kind /\ command'[c].server = command[c].server
         /\ command'[c].at = "done" /\ command'[c].answer = how
<1> DEFINE r == [command[c] EXCEPT !.at = "done", !.pid = None, !.answer = how]
<1>1. command[c] \in CommandState
  BY DEF IInv, Types
<1>2. /\ r \in CommandState /\ r.kind = command[c].kind /\ r.server = command[c].server
      /\ r.at = "done" /\ r.answer = how
  BY <1>1 DEF CommandState
<1>3. command' = [command EXCEPT ![c] = r]
  BY DEF Answers
<1> HIDE DEF r
<1>4. command' \in [Command -> CommandState] /\ command'[c] = r /\ OtherCommands(c)
  BY <1>2, <1>3, CommandUpdated DEF IInv
<1> QED
  BY <1>2, <1>4

\* A command that fails ends and leaves the file.
LEMMA FailsStep ==
  ASSUME IInv, NEW c \in Command, command[c].at \notin {"idle", "done", "signalled"}, Answers(c, "error"),
         UNCHANGED <<server, holder, pids, file, env, notes>>
  PROVE  IInv'
<1>1. command[c].answer = None
  BY DEF IInv, CommandInv
<1>2. /\ command' \in [Command -> CommandState] /\ OtherCommands(c)
      /\ command'[c].kind = command[c].kind /\ command'[c].server = command[c].server
      /\ command'[c].at = "done" /\ command'[c].answer = "error"
  BY AnswersShape
<1>3. CommandStep(c)
  BY <1>2 DEF CommandStep
<1> QED
  BY <1>1, <1>2, <1>3, EndsStep

\* While a start is at work, no other that nobody overlaps is the last.
LEMMA NotLatest ==
  ASSUME IInv, NEW c \in Command, Working(c), command[c].kind = "start",
         NEW d \in Command, d # c, command[d].kind \in {"start", "stop"}, d \notin overlapped
  PROVE  d < c /\ ~Latest(d)
<1>1. d < c
  BY DEF IInv, Turns
<1>2. c > d
  BY <1>1, BoundsAssumption DEF Command
<1> QED
  BY <1>1, <1>2 DEF Latest

LEMMA EmptiesStep ==
  ASSUME IInv, NEW c \in Command, StartEmptiesFile(c) PROVE IInv'
<1>1. /\ CommandInv(c) /\ command[c].at = "spawned" /\ command[c].kind = "start" /\ Starts(c) /\ Working(c)
      /\ command[c].answer = None /\ command[c].pid \in Pid
      /\ UNCHANGED <<server, holder, pids, env, notes>>
  BY DEF StartEmptiesFile, IInv, CommandInv, Starts, Working
<1>2. CASE Answers(c, "error") /\ UNCHANGED file
  BY <1>1, <1>2, FailsStep
<1>3. CASE file' = Blank /\ command' = [command EXCEPT ![c].at = "writing"]
  <2> DEFINE r == [command[c] EXCEPT !.at = "writing"]
  <2>1. command[c] \in CommandState
    BY DEF IInv, Types
  <2>2. /\ r \in CommandState /\ r.kind = "start" /\ r.server = command[c].server
        /\ r.at = "writing" /\ r.answer = None /\ r.pid = command[c].pid
    BY <1>1, <2>1 DEF CommandState
  <2>3. command' = [command EXCEPT ![c] = r]
    BY <1>3
  <2> HIDE DEF r
  <2>4. command' \in [Command -> CommandState] /\ command'[c] = r /\ OtherCommands(c)
    BY <2>2, <2>3, CommandUpdated DEF IInv
  <2>5. CommandStep(c)
    BY <1>1, <2>4 DEF CommandStep
  <2>6. /\ GoOn /\ RunsKept
        /\ \A d \in Command, s \in Server : Runs(d, s)' = Runs(d, s)
    BY <1>1, <2>2, <2>4, <2>5, NamesOf, CommandGoesOn
  <2>7. \A d \in Command : /\ command'[d].kind = command[d].kind
                           /\ command'[d].at = "idle" <=> command[d].at = "idle"
                           /\ Working(d)' => Working(d)
                           /\ Starts(d)' => Starts(d)
                           /\ command'[d].at = "read" => command[d].at = "read" /\ command'[d].pid = command[d].pid
                           /\ command[d].at = "signalled" => command'[d].at = "signalled"
                           /\ command'[d].kind = "start" /\ command'[d].answer = "ok" => command[d].answer = "ok"
    BY <1>1, <2>2, <2>4, NamesOf DEF OtherCommands, Working, Starts
  <2>8. CommandInv(c)'
    BY <1>1, <2>2, <2>4 DEF CommandInv, StartedBy, Live
  <2>9. Turns'
    BY <1>1, <2>7, TurnsKept DEF IInv, Types
  <2>10. Found'
    <3> SUFFICES ASSUME NEW d \in Command, NEW s \in Server, Answered(d, s)', d \notin overlapped, Latest(d)'
                 PROVE  FALSE
      BY <1>1 DEF Found
    <3>1. d # c /\ command[d].kind = "start"
      BY <2>2, <2>4, <2>7, NamesOf DEF Answered, Runs, StartedBy
    <3>2. Latest(d)
      BY <2>7 DEF Latest
    <3> QED
      BY <1>1, <3>1, <3>2, NotLatest
  <2>11. Safe'
    BY <1>1, <1>3, <2>6, <2>7, NamesOf, SpawnedKept, FileKept, ReadKept, BlamedKept DEF Safe
  <2> QED
    BY <1>1, <1>3, <2>5, <2>8, <2>9, <2>10, <2>11, CommandOnly DEF IInv, Types
<1> QED
  BY <1>2, <1>3 DEF StartEmptiesFile

LEMMA WritesStep ==
  ASSUME IInv, NEW c \in Command, StartWritesPid(c) PROVE IInv'
<1>1. /\ CommandInv(c) /\ command[c].at = "writing" /\ command[c].kind = "start" /\ Starts(c) /\ Working(c)
      /\ command[c].pid \in Pid /\ command[c].answer = None
      /\ UNCHANGED <<server, holder, pids, env, notes>>
  BY DEF StartWritesPid, IInv, CommandInv, Starts, Working
<1>2. CASE Answers(c, "error") /\ UNCHANGED file
  BY <1>1, <1>2, FailsStep
<1>3. CASE file' = command[c].pid /\ Answers(c, "ok")
  <2>1. /\ CommandStep(c) /\ OtherCommands(c)
        /\ command'[c].kind = "start" /\ command'[c].server = command[c].server
        /\ command'[c].at = "done" /\ command'[c].answer = "ok"
    BY <1>1, <1>3, AnswersShape DEF CommandStep
  <2>2. /\ GoOn /\ RunsKept
        /\ \A d \in Command, s \in Server : Runs(d, s)' = Runs(d, s)
    BY <1>1, <2>1, CommandGoesOn
  <2>3. \A d \in Command : /\ command'[d].kind = command[d].kind
                           /\ command'[d].at = "idle" <=> command[d].at = "idle"
                           /\ Working(d)' => Working(d)
                           /\ Starts(d)' => Starts(d)
                           /\ command'[d].at = "read" => command[d].at = "read" /\ command'[d].pid = command[d].pid
                           /\ command'[d].at = "signalled" => command[d].at = "signalled"
    BY <1>1, <2>1 DEF OtherCommands, Working, Starts
  <2>4. CommandInv(c)'
    BY <1>1, <2>1 DEF CommandInv, StartedBy, Live, CommandStep
  <2>5. Turns'
    BY <1>1, <2>3, TurnsKept DEF IInv, Types
  <2>6. Found'
    <3> SUFFICES ASSUME NEW d \in Command, NEW s \in Server, Answered(d, s)', d \notin overlapped, Latest(d)'
                 PROVE  /\ file' = server'[s].pid
                        /\ \A e \in Command : command'[e].at \notin {"read", "signalled"}
      BY <1>1 DEF Found
    <3>1. Runs(d, s) /\ command[d].kind = "start" /\ Latest(d)
      BY <2>2, <2>3 DEF Answered, Runs, StartedBy, Latest
    <3>2. d = c
      BY <1>1, <3>1, NotLatest
    <3>3. server[s].pid = command[c].pid
      BY <1>1, <3>1, <3>2 DEF CommandInv, Runs
    <3>4. ASSUME NEW e \in Command, e # c PROVE ~Working(e)
      BY <1>1, <3>2, <3>4 DEF IInv, Turns
    <3>5. \A e \in Command : command'[e].at \notin {"read", "signalled"}
      BY <2>1, <3>4 DEF IInv, CommandInv, Working, OtherCommands
    <3> QED
      BY <1>1, <1>3, <3>3, <3>5
  <2>7. FileLeads'
    <3> SUFFICES ASSUME NEW x \in Command, Ordered(x)',
                        \A e \in Command : x < e /\ command'[e].kind = "start" => command'[e].answer # "ok"
                 PROVE  Leads(x, file)' \/ command'[x].server \in died'
      BY DEF FileLeads
    <3>1. x = c
      <4> SUFFICES ASSUME x # c PROVE FALSE
        OBVIOUS
      <4>1. command[x].kind = "start" /\ x \notin overlapped
        BY <1>1, <2>3 DEF Ordered
      <4>2. x < c
        BY <1>1, <4>1, NotLatest
      <4> QED
        BY <2>1, <4>2
    <3>2. c \notin overlapped
      BY <1>1, <3>1 DEF Ordered
    <3>3. PICK s \in Server : s = command[c].server
      BY <1>1 DEF CommandInv
    <3>4. Runs(c, s) \/ s \in died
      BY <1>1, <3>2, <3>3 DEF IInv, Safe, SpawnedRuns
    <3>5. ASSUME Runs(c, s) PROVE Leads(c, file)'
      <4>1. Runs(c, s)' /\ server'[s].pid = command[c].pid
        BY <1>1, <2>2, <3>5 DEF CommandInv, Runs
      <4> QED
        BY <1>3, <4>1 DEF Leads
    <3> QED
      BY <1>1, <2>1, <3>1, <3>3, <3>4, <3>5
  <2>8. Safe'
    BY <1>1, <2>2, <2>3, <2>7, SpawnedKept, ReadKept, BlamedKept DEF Safe
  <2> QED
    BY <1>1, <1>3, <2>1, <2>4, <2>5, <2>6, <2>8, CommandOnly DEF IInv, Types
<1> QED
  BY <1>2, <1>3 DEF StartWritesPid

LEMMA ForegroundEndsStep ==
  ASSUME IInv, NEW c \in Command, ForegroundEnds(c) PROVE IInv'
<1>1. /\ CommandInv(c) /\ command[c].kind = "foreground" /\ command[c].server \in Server
      /\ command[c].at = "waiting" /\ command[c].answer = None
  BY DEF ForegroundEnds, IInv, CommandInv
<1>2. server[command[c].server].exit \in {None, "ok", "error"}
  BY <1>1 DEF IInv, Types, ServerState
<1>3. /\ Answers(c, server[command[c].server].exit)
      /\ UNCHANGED <<server, holder, pids, file, env, notes>>
  BY DEF ForegroundEnds
<1>4. /\ CommandStep(c) /\ command'[c].kind = "foreground" /\ command'[c].server = command[c].server
      /\ command'[c].at = "done"
  BY <1>1, <1>2, <1>3, AnswersShape DEF CommandStep
<1> QED
  BY <1>1, <1>3, <1>4, EndsStep

\* One that is interrupted.
LEMMA InterruptStep ==
  ASSUME IInv, NEW c \in Command, Interrupt(c) PROVE IInv'
<1> DEFINE r == [command[c] EXCEPT !.at = "gone", !.pid = None]
<1>1. /\ CommandInv(c) /\ command[c].at \notin {"idle", "done", "gone"} /\ command[c] \in CommandState
      /\ UNCHANGED <<server, holder, pids, file, env, died, struck, overlapped>>
      /\ unfinished' = unfinished \cup {d \in {c} : command[d].at = "signalled"}
      /\ command' = [command EXCEPT ![c] = r]
  BY DEF Interrupt, IInv, Types
<1>2. /\ r \in CommandState /\ r.kind = command[c].kind /\ r.server = command[c].server
      /\ r.at = "gone" /\ r.answer = command[c].answer /\ command[c].answer = None
  BY <1>1 DEF CommandState, CommandInv
<1> HIDE DEF r
<1>3. command' \in [Command -> CommandState] /\ command'[c] = r /\ OtherCommands(c)
  BY <1>1, <1>2, CommandUpdated DEF IInv
<1>4. CommandStep(c)
  BY <1>1, <1>3 DEF CommandStep
<1> QED
  BY <1>1, <1>2, <1>3, <1>4, NamesOf, EndsStep

LEMMA RemovesStep ==
  ASSUME IInv, NEW c \in Command, StopRemovesFile(c) PROVE IInv'
<1>1. /\ CommandInv(c) /\ command[c].at = "signalled" /\ command[c].kind = "stop" /\ Working(c)
      /\ command[c].answer = None
      /\ UNCHANGED <<server, holder, pids, env, died, struck, overlapped>>
  BY DEF StopRemovesFile, IInv, CommandInv, Working
<1>2. /\ CommandStep(c) /\ command'[c].kind = "stop" /\ command'[c].at = "done"
      /\ command'[c].server = command[c].server
  BY <1>1, AnswersShape DEF StopRemovesFile, CommandStep
<1>3. CASE file' = file /\ unfinished' = unfinished \cup {c}
  BY <1>1, <1>2, <1>3, EndsStep
<1>4. CASE file' = None /\ unfinished' = unfinished
  <2>1. /\ GoOn /\ RunsKept
        /\ \A d \in Command, s \in Server : Runs(d, s)' = Runs(d, s)
    BY <1>1, <1>2, <1>4, CommandGoesOn
  <2>2. \A d \in Command : /\ command'[d].kind = command[d].kind
                           /\ command'[d].at = "idle" <=> command[d].at = "idle"
                           /\ Working(d)' => Working(d)
                           /\ Starts(d)' => Starts(d)
                           /\ command'[d].at = "read" => command[d].at = "read" /\ command'[d].pid = command[d].pid
                           /\ command'[d].kind = "start" => command'[d].answer = command[d].answer
    BY <1>1, <1>2 DEF CommandStep, OtherCommands, Working, Starts
  <2>3. CommandInv(c)'
    BY <1>1, <1>2, NamesOf DEF CommandInv, StartedBy
  <2>4. Turns'
    BY <1>1, <1>4, <2>2, TurnsKept DEF IInv, Types
  <2>5. Found'
    <3> SUFFICES ASSUME NEW d \in Command, NEW s \in Server, Answered(d, s)', d \notin overlapped, Latest(d)'
                 PROVE  FALSE
      BY <1>1 DEF Found
    <3>1. Answered(d, s) /\ Latest(d)
      BY <2>1, <2>2 DEF Answered, Runs, StartedBy, Latest
    <3> QED
      BY <1>1, <3>1 DEF IInv, Found
  <2>6. Safe'
    BY <1>1, <1>4, <2>1, <2>2, NamesOf, SpawnedKept, FileKept, ReadKept, BlamedKept DEF Safe
  <2> QED
    BY <1>1, <1>2, <1>4, <2>3, <2>4, <2>5, <2>6, CommandOnly DEF IInv, Types
<1> QED
  BY <1>3, <1>4 DEF StopRemovesFile

LEMMA ReadsStep ==
  ASSUME IInv, NEW c \in Command, StopReadsFile(c) PROVE IInv'
<1>1. /\ \A d \in Command : command[d].kind # None => d < c
      /\ command[c].at = "idle" /\ ~Working(c) /\ command[c].kind = None /\ ~Starts(c)
      /\ \A s \in Server : ~StartedBy(c, s)
  BY OrderBegun DEF StopReadsFile
<1>2. /\ Idle(c) /\ Overlaps(c)
      /\ UNCHANGED <<server, holder, pids, file, env, died, struck, unfinished>>
  BY DEF StopReadsFile
<1>3. /\ overlapped \subseteq overlapped' /\ overlapped' \subseteq Command
      /\ c \notin overlapped' => \A d \in Command : ~Working(d)
  BY <1>2 DEF Overlaps, AtWork, Working, IInv, Types
<1>4. command[c] \in CommandState /\ command[c].answer = None
  BY <1>1 DEF IInv, Types, CommandInv
<1>5. /\ CommandStep(c) /\ command'[c].kind = "stop"
      /\ \/ command'[c].at = "done"
         \/ command'[c].at = "read" /\ command'[c].pid = file /\ file \in Pid /\ command'[c].answer = None
  <2>1. CASE file \in Pid
    <3> DEFINE r == [command[c] EXCEPT !.kind = "stop", !.at = "read", !.pid = file]
    <3>1. r \in CommandState /\ r.kind = "stop" /\ r.at = "read" /\ r.pid = file /\ r.answer = None
      BY <1>4, <2>1 DEF CommandState
    <3>2. command' = [command EXCEPT ![c] = r]
      BY <2>1, NamesOf DEF StopReadsFile
    <3> HIDE DEF r
    <3>3. command' \in [Command -> CommandState] /\ command'[c] = r /\ OtherCommands(c)
      BY <3>1, <3>2, CommandUpdated DEF IInv
    <3> QED
      BY <1>2, <2>1, <3>1, <3>3 DEF CommandStep
  <2>2. CASE file \notin Pid
    <3>1. PICK how \in {"not_found", "error"} :
            command' = [command EXCEPT ![c] = [@ EXCEPT !.kind = "stop", !.at = "done", !.answer = how]]
      BY <2>2 DEF StopReadsFile, IInv, Types
    <3> DEFINE r == [command[c] EXCEPT !.kind = "stop", !.at = "done", !.answer = how]
    <3>2. r \in CommandState /\ r.kind = "stop" /\ r.at = "done"
      BY <1>4 DEF CommandState
    <3>3. command' = [command EXCEPT ![c] = r]
      BY <3>1
    <3> HIDE DEF r
    <3>4. command' \in [Command -> CommandState] /\ command'[c] = r /\ OtherCommands(c)
      BY <3>2, <3>3, CommandUpdated DEF IInv
    <3> QED
      BY <1>2, <3>2, <3>4 DEF CommandStep
  <2> QED
    BY <2>1, <2>2
<1>6. CommandInv(c)'
  BY <1>5, NamesOf DEF CommandInv, StartedBy
<1>7. Turns'
  BY <1>2, <1>5, TurnsBegun DEF CommandStep
<1>8. ASSUME NEW d \in Command, NEW s \in Server PROVE Runs(d, s)' = Runs(d, s)
  <2>1. CASE d = c
    BY <1>1, <1>5, <2>1 DEF Runs, StartedBy
  <2>2. CASE d # c
    BY <1>5, <2>2 DEF Runs, StartedBy, Live, CommandStep, OtherCommands
  <2> QED
    BY <2>1, <2>2
<1>9. GoOn /\ RunsKept
  BY <1>1, <1>2, <1>3, <1>4, <1>5, <1>8, NamesOf DEF GoOn, RunsKept, CommandStep, OtherCommands
<1>10. Found'
  <2> SUFFICES ASSUME NEW d \in Command, NEW s \in Server, Answered(d, s)', d \notin overlapped', Latest(d)'
               PROVE  /\ file' = server'[s].pid
                      /\ \A e \in Command : /\ command'[e].at = "read" => command'[e].pid = server'[s].pid
                                            /\ command'[e].at # "signalled"
    BY DEF Found
  <2>1. Answered(d, s) /\ d \notin overlapped
    BY <1>1, <1>3, <1>5, <1>8 DEF Answered, Runs, CommandStep, OtherCommands
  <2>2. Latest(d)
    BY <1>9, NamesOf DEF Latest, GoOn
  <2> QED
    BY <1>2, <1>5, <2>1, <2>2 DEF IInv, Found, CommandStep, OtherCommands
<1>11. ReadLeads'
  <2> SUFFICES ASSUME NEW x \in Command, NEW d \in Command, d \notin overlapped', command'[d].at = "read", LastBefore(x, d)'
               PROVE  Leads(x, command[d].pid)' \/ Blame(x, d)'
    BY DEF ReadLeads
  <2>1. CASE d # c
    BY <1>5, <1>9, <2>1, ReadKeptOf DEF CommandStep, OtherCommands
  <2>2. CASE d = c
    <3>1. x < c /\ x # c /\ Ordered(x)
      BY <1>3, <1>5, <2>2, BoundsAssumption DEF LastBefore, Ordered, CommandStep, OtherCommands, Command
    <3>2. \A e \in Command : x < e /\ command[e].kind = "start" => command[e].answer # "ok"
      BY <1>1, <1>9, <2>2, NamesOf DEF LastBefore, GoOn
    <3>3. \A e \in Command : command[e].at # "signalled"
      BY <1>3, <2>2 DEF IInv, CommandInv, Working
    <3>4. \A e \in unfinished : e \in Command /\ e < c
      BY <1>1, NamesOf DEF IInv, Types, Turns
    <3>5. file \in Pid /\ command'[c].pid = file
      BY <1>5, <2>2
    <3>6. Leads(x, file) \/ command[x].server \in died \/ \E e \in unfinished : x < e
      BY <3>1, <3>2, <3>3, <3>5 DEF IInv, Safe, FileLeads
    <3>7. command'[x].server = command[x].server
      BY <3>1, <1>5 DEF CommandStep, OtherCommands
    <3>8. Leads(x, file) => Leads(x, command[c].pid)'
      BY <1>2, <1>8, <3>5 DEF Leads
    <3> QED
      BY <1>2, <2>2, <3>4, <3>6, <3>7, <3>8 DEF Blame
  <2> QED
    BY <2>1, <2>2
<1>12. Safe'
  <2>1. \A d \in Command : /\ Starts(d)' => Starts(d)
                           /\ command[d].at = "signalled" => command'[d].at = "signalled"
                           /\ command'[d].kind = "start" /\ command'[d].answer = "ok" => command[d].answer = "ok"
    BY <1>1, <1>5 DEF Starts, CommandStep, OtherCommands
  <2> QED
    BY <1>2, <1>9, <1>11, <2>1, SpawnedKept, FileKept, BlamedKept DEF Safe
<1> QED
  BY <1>2, <1>3, <1>5, <1>6, <1>7, <1>10, <1>12, CommandOnly DEF IInv, Types

\* A step that spawns a process changes nothing of those that others have started.
LEMMA SpawnKeeps ==
  ASSUME IInv, NEW c \in Command, NEW s \in Server, server[s].stage = "none",
         OtherServers(s), OtherCommands(c), command[c].kind = None, command'[c].answer = None,
         overlapped \subseteq overlapped', UNCHANGED <<died, unfinished>>
  PROVE  /\ GoOn /\ RunsKept
         /\ \A d \in Command, u \in Server : Answered(d, u)' => Answered(d, u) /\ server'[u].pid = server[u].pid
<1>1. ASSUME NEW d \in Command, NEW u \in Server, d # c
      PROVE  Runs(d, u)' = Runs(d, u) /\ (Runs(d, u) => server'[u].pid = server[u].pid)
  <2>1. CASE u = s
    <3>1. ~StartedBy(d, u)
      BY <2>1 DEF IInv, CommandInv
    <3> QED
      BY <1>1, <3>1 DEF Runs, StartedBy, OtherCommands
  <2>2. CASE u # s
    <3>1. server'[u] = server[u] /\ command'[d] = command[d]
      BY <1>1, <2>2 DEF OtherServers, OtherCommands
    <3> QED
      BY <3>1 DEF Runs, StartedBy, Live
  <2> QED
    BY <2>1, <2>2
<1>2. GoOn
  BY NamesOf DEF GoOn, OtherCommands, IInv, CommandInv
<1>3. \A u \in Server : ~Runs(c, u)
  BY NamesOf DEF Runs, StartedBy
<1> QED
  BY <1>1, <1>2, <1>3, NamesOf DEF RunsKept, Answered, OtherCommands

LEMMA StartSpawnsStep ==
  ASSUME IInv, NEW c \in Command, NEW s \in Server, StartSpawns(c, s) PROVE IInv'
<1>1. PICK p \in Pid, args \in StartArgs : Spawned(s, p, args) /\ Begins(c, "start", "spawned", s, p)
  BY DEF StartSpawns
<1>2. /\ UNCHANGED <<holder, file, env, died, struck, unfinished>>
      /\ server[s].stage = "none" /\ OtherServers(s)
      /\ server' \in [Server -> ServerState]
      /\ server'[s].stage = "loading" /\ server'[s].pid = p /\ ~server'[s].signalled
      /\ pids' \in [Pid -> Server \cup {None, Stranger}]
      /\ \A u \in Server : ServerInv(u)'
  <2>1. args \in Args
    BY DEF StartArgs
  <2> QED
    BY <1>1, <2>1, SpawnedShape
<1>3. Idle(c) /\ Overlaps(c) /\ command[c].kind = None
  BY <1>1, OrderBegun DEF Begins, StartSpawns
<1> DEFINE r == [kind |-> "start", at |-> "spawned", server |-> s, pid |-> p, answer |-> None]
<1>4. r \in CommandState /\ command' = [command EXCEPT ![c] = r]
  BY <1>1 DEF Begins, CommandState
<1>5. command' \in [Command -> CommandState] /\ command'[c] = r /\ OtherCommands(c)
  BY <1>4, CommandUpdated DEF IInv
<1>6. overlapped \subseteq overlapped' /\ overlapped' \subseteq Command
  BY <1>3 DEF Overlaps, AtWork, IInv, Types
<1>7. ASSUME NEW d \in Command, d # c PROVE CommandInv(d)'
  BY <1>2, <1>5, <1>7, CommandKept DEF OtherServers, OtherCommands, Live
<1>8. CommandInv(c)'
  BY <1>2, <1>5, NamesOf DEF CommandInv, StartedBy
<1>9. Types'
  BY <1>2, <1>5, <1>6 DEF IInv, Types
<1>10. Turns'
  BY <1>2, <1>3, <1>5, TurnsBegun
<1>11. /\ GoOn /\ RunsKept
       /\ \A d \in Command, u \in Server : Answered(d, u)' => Answered(d, u) /\ server'[u].pid = server[u].pid
  BY <1>2, <1>3, <1>5, <1>6, SpawnKeeps
<1>12. \A d \in Command : /\ command'[d].at = "read" => command[d].at = "read" /\ command'[d].pid = command[d].pid
                          /\ command'[d].at = "signalled" => command[d].at = "signalled"
                          /\ command[d].at = "signalled" => command'[d].at = "signalled"
                          /\ command'[d].kind = "start" /\ command'[d].answer = "ok" => command[d].answer = "ok"
  BY <1>3, <1>5, NamesOf DEF OtherCommands, IInv, CommandInv
<1>13. Found'
  BY <1>2, <1>11, <1>12, FoundKept
<1>14. SpawnedRuns'
  <2> SUFFICES ASSUME NEW d \in Command, Starts(d)', d \notin overlapped'
               PROVE  Runs(d, command[d].server)' \/ command'[d].server \in died'
    BY DEF SpawnedRuns
  <2>1. CASE d = c
    BY <1>2, <1>5, <2>1 DEF Runs, StartedBy, Live
  <2>2. CASE d # c
    BY <1>5, <1>11, <2>2, SpawnedKeptOf DEF Starts, OtherCommands
  <2> QED
    BY <2>1, <2>2
<1>15. Safe'
  BY <1>2, <1>11, <1>12, <1>14, FileKept, ReadKept, BlamedKept DEF Safe
<1> QED
  BY <1>2, <1>7, <1>8, <1>9, <1>10, <1>13, <1>15 DEF IInv

LEMMA ForegroundSpawnsStep ==
  ASSUME IInv, NEW c \in Command, NEW s \in Server, ForegroundSpawns(c, s) PROVE IInv'
<1>1. PICK p \in Pid, args \in StartArgs : Spawned(s, p, args) /\ Begins(c, "foreground", "waiting", s, None)
  BY DEF ForegroundSpawns
<1>2. /\ UNCHANGED <<holder, file, env, died, struck, unfinished>>
      /\ server[s].stage = "none" /\ OtherServers(s)
      /\ server' \in [Server -> ServerState] /\ server'[s].stage = "loading"
      /\ pids' \in [Pid -> Server \cup {None, Stranger}]
      /\ \A u \in Server : ServerInv(u)'
  <2>1. args \in Args
    BY DEF StartArgs
  <2> QED
    BY <1>1, <2>1, SpawnedShape
<1>3. /\ \A d \in Command : d < c => command[d].at # "idle"
      /\ Idle(c) /\ command[c].kind = None /\ ~Starts(c)
  BY <1>1, OrderBegun DEF Begins
<1> DEFINE r == [kind |-> "foreground", at |-> "waiting", server |-> s, pid |-> None, answer |-> None]
<1>4. r \in CommandState /\ command' = [command EXCEPT ![c] = r]
  BY <1>1 DEF Begins, CommandState
<1>5. command' \in [Command -> CommandState] /\ command'[c] = r /\ OtherCommands(c) /\ overlapped' = overlapped
  BY <1>4, CommandUpdated DEF IInv, ForegroundSpawns
<1>6. ASSUME NEW d \in Command, d # c PROVE CommandInv(d)'
  BY <1>2, <1>5, <1>6, CommandKept DEF OtherServers, OtherCommands, Live
<1>7. CommandInv(c)'
  BY <1>2, <1>5, NamesOf DEF CommandInv, StartedBy
<1>8. Types'
  BY <1>2, <1>5 DEF IInv, Types
<1>9. Turns'
  <2>1. \A x, y \in Command : command'[x].at = "idle" /\ x < y => command'[y].at = "idle"
    BY <1>3, <1>5 DEF OtherCommands, IInv, Turns
  <2>2. ASSUME NEW x \in Command, NEW y \in Command, command'[x].kind \in {"start", "stop"},
               x \notin overlapped', Working(y)', y # x
        PROVE  x < y /\ ~Working(x)'
    BY <1>5, <2>2 DEF OtherCommands, IInv, Turns, Working
  <2>3. \A d \in struck' \cup unfinished' : command'[d].kind = "stop"
    BY <1>2, <1>3, <1>5, NamesOf DEF OtherCommands, IInv, Turns, Types
  <2> QED
    BY <2>1, <2>2, <2>3 DEF Turns
<1>10. /\ GoOn /\ RunsKept
       /\ \A d \in Command, u \in Server : Answered(d, u)' => Answered(d, u) /\ server'[u].pid = server[u].pid
  BY <1>2, <1>3, <1>5, SpawnKeeps
<1>11. \A d \in Command : /\ Starts(d)' => Starts(d)
                          /\ command'[d].at = "read" => command[d].at = "read" /\ command'[d].pid = command[d].pid
                          /\ command'[d].at = "signalled" => command[d].at = "signalled"
                          /\ command[d].at = "signalled" => command'[d].at = "signalled"
                          /\ command'[d].kind = "start" /\ command'[d].answer = "ok" => command[d].answer = "ok"
  BY <1>3, <1>5, NamesOf DEF Starts, OtherCommands, IInv, CommandInv
<1>12. Found'
  BY <1>2, <1>10, <1>11, FoundKept
<1>13. Safe'
  BY <1>2, <1>10, <1>11, SpawnedKept, FileKept, ReadKept, BlamedKept DEF Safe
<1> QED
  BY <1>2, <1>6, <1>7, <1>8, <1>9, <1>12, <1>13 DEF IInv

\* While a stop is at work, no other command that nobody overlaps is.
LEMMA StopAlone ==
  ASSUME IInv, NEW c \in Command, Working(c), NEW d \in Command, d # c, d \notin overlapped
  PROVE  ~Starts(d) /\ command[d].at # "read"
BY DEF IInv, Turns, CommandInv, Working, Starts

\* stop ends or signals the server that has the pid, and is then after the signal.
LEMMA TerminatesStep ==
  ASSUME IInv, NEW c \in Command, command[c].at = "read",
         NEW who \in Server, who = pids[command[c].pid], Terminate(who),
         command' = [command EXCEPT ![c].at = "signalled", ![c].server = who],
         UNCHANGED <<file, env, notes>>
  PROVE  IInv'
<1>1. /\ CommandInv(c) /\ command[c].kind = "stop" /\ command[c].pid \in Pid /\ Working(c)
      /\ command[c] \in CommandState /\ ~Starts(c) /\ command[c].answer = None
  BY DEF IInv, Types, CommandInv, Working, Starts
<1> DEFINE r == [command[c] EXCEPT !.at = "signalled", !.server = who]
<1>2. /\ r \in CommandState /\ r.kind = "stop" /\ r.at = "signalled" /\ r.answer = command[c].answer
  BY <1>1 DEF CommandState
<1>3. command' = [command EXCEPT ![c] = r]
  OBVIOUS
<1> HIDE DEF r
<1>4. command' \in [Command -> CommandState] /\ command'[c] = r /\ OtherCommands(c)
  BY <1>2, <1>3, CommandUpdated DEF IInv
<1>5. /\ server' \in [Server -> ServerState] /\ OtherServers(who)
      /\ holder' \in [Ports -> Server \cup {None}]
      /\ pids' \in [Pid -> Server \cup {None, Stranger}]
      /\ \A u \in Server : ServerInv(u)'
      /\ server'[who].stage \in {server[who].stage, "over"}
      /\ Live(who)' => Live(who) /\ server'[who].pid = server[who].pid /\ server'[who].signalled
  <2>1. CASE Starting(who)
    <3>1. Live(who) /\ Exit(who, "error")
      BY <2>1 DEF Terminate, Starting, Live
    <3>2. /\ server' \in [Server -> ServerState] /\ OtherServers(who) /\ server'[who].stage = "over"
          /\ holder' \in [Ports -> Server \cup {None}]
          /\ pids' \in [Pid -> Server \cup {None, Stranger}]
          /\ \A u \in Server : ServerInv(u)'
      BY <3>1, ExitShape
    <3> QED
      BY <3>2 DEF Live
  <2>2. CASE ~Starting(who)
    <3> DEFINE q == [server[who] EXCEPT !.signalled = TRUE]
    <3>1. server' = [server EXCEPT ![who] = q] /\ UNCHANGED <<holder, pids>>
      BY <2>2 DEF Terminate
    <3>2. server[who] \in ServerState /\ ServerInv(who)
      BY DEF IInv, Types
    <3>3. /\ q \in ServerState /\ q.stage = server[who].stage /\ q.step = server[who].step
          /\ q.args = server[who].args /\ q.config = server[who].config /\ q.pid = server[who].pid
          /\ q.exit = server[who].exit /\ q.signalled
      BY <3>2 DEF ServerState
    <3> HIDE DEF q
    <3>4. server' \in [Server -> ServerState] /\ server'[who] = q /\ OtherServers(who)
      BY <3>1, <3>3, ServerUpdated DEF IInv
    <3>5. ASSUME NEW u \in Server, u # who PROVE ServerInv(u)'
      BY <3>1, <3>4, <3>5, ServerKept DEF OtherServers
    <3>6. \A l \in DOMAIN Listeners : Holds(who, l)' = Holds(who, l)
      BY <3>1, <3>3, <3>4 DEF Holds
    <3>7. ServerInv(who)'
      BY <3>1, <3>2, <3>3, <3>4, <3>6 DEF ServerInv, Live
    <3> QED
      BY <3>1, <3>3, <3>4, <3>5, <3>7 DEF IInv, Types, Live
  <2> QED
    BY <2>1, <2>2
<1>6. ASSUME NEW d \in Command, d # c PROVE CommandInv(d)'
  BY <1>4, <1>5, <1>6, CommandKept DEF OtherServers, OtherCommands, Live
<1>7. CommandInv(c)'
  BY <1>1, <1>2, <1>4, NamesOf DEF CommandInv, StartedBy
<1>8. Types'
  BY <1>4, <1>5 DEF IInv, Types
<1>9. \A d \in Command : /\ command'[d].kind = command[d].kind
                         /\ command'[d].at = "idle" <=> command[d].at = "idle"
                         /\ Working(d)' => Working(d)
                         /\ Starts(d)' => Starts(d)
                         /\ command'[d].at = "read" => d # c /\ command[d].at = "read"
                         /\ command[d].at = "signalled" => command'[d].at = "signalled"
                         /\ command'[d].answer = command[d].answer
                         /\ command[d].kind = "start" => command'[d].server = command[d].server
  BY <1>1, <1>2, <1>4 DEF OtherCommands, Working, Starts
<1>10. GoOn
  BY <1>9 DEF GoOn
<1>11. Turns'
  BY <1>9, TurnsKept DEF IInv, Types
<1>12. ASSUME NEW d \in Command, NEW u \in Server
       PROVE  /\ Runs(d, u)' => Runs(d, u) /\ u # who
              /\ Runs(d, u) /\ u # who => Runs(d, u)' /\ server'[u].pid = server[u].pid
  <2>1. Runs(d, u) \/ Runs(d, u)' => d # c
    BY <1>1, <1>2, <1>4 DEF Runs, StartedBy
  <2>2. Runs(d, u)' => u # who
    BY <1>5 DEF Runs
  <2>3. CASE d # c /\ u # who
    BY <1>4, <1>5, <2>3 DEF Runs, StartedBy, Live, OtherServers, OtherCommands
  <2> QED
    BY <2>1, <2>2, <2>3
<1>13. Found'
  <2> SUFFICES ASSUME NEW d \in Command, NEW u \in Server, Answered(d, u)', d \notin overlapped, Latest(d)'
               PROVE  FALSE
    BY DEF Found
  <2>1. Answered(d, u) /\ u # who /\ Latest(d)
    BY <1>9, <1>12 DEF Answered, Latest
  <2>2. command[c].pid = server[u].pid /\ Live(u)
    BY <2>1 DEF IInv, Found, Answered, Runs
  <2> QED
    BY <2>1, <2>2 DEF IInv, ServerInv
<1>14. SpawnedRuns' /\ ReadLeads'
  BY <1>1, <1>9, StopAlone DEF SpawnedRuns, ReadLeads
<1>15. FileLeads'
  <2> SUFFICES ASSUME NEW x \in Command, Ordered(x)', file \in Pid,
                      \A e \in Command : x < e /\ command'[e].kind = "start" => command'[e].answer # "ok"
               PROVE  \/ Leads(x, file)' \/ command'[x].server \in died
                      \/ \E e \in Command : x < e /\ (e \in unfinished \/ command'[e].at = "signalled")
    BY DEF FileLeads
  <2>1. Ordered(x) /\ command'[x].server = command[x].server
    BY <1>9 DEF Ordered
  <2>2. x < c /\ command'[c].at = "signalled"
    BY <1>1, <1>2, <1>4, <2>1 DEF IInv, Turns, Ordered
  <2> QED
    BY <2>2
<1>16. Safe'
  BY <1>10, <1>14, <1>15, BlamedKept DEF Safe
<1> QED
  BY <1>5, <1>6, <1>7, <1>8, <1>11, <1>13, <1>16 DEF IInv

\* stop strikes a stranger.
LEMMA StrikesStep ==
  ASSUME IInv, NEW c \in Command, command[c].at = "read", pids[command[c].pid] = Stranger,
         struck' = struck \cup {c},
         command' = [command EXCEPT ![c].at = "signalled", ![c].server = Stranger],
         UNCHANGED <<server, holder, pids, file, env, died, overlapped, unfinished>>
  PROVE  IInv'
<1>1. /\ CommandInv(c) /\ command[c].kind = "stop" /\ command[c].pid \in Pid /\ Working(c)
      /\ command[c] \in CommandState /\ ~Starts(c) /\ command[c].answer = None
  BY DEF IInv, Types, CommandInv, Working, Starts
<1> DEFINE r == [command[c] EXCEPT !.at = "signalled", !.server = Stranger]
<1>2. r \in CommandState /\ r.kind = "stop" /\ r.at = "signalled" /\ r.answer = None
  BY <1>1 DEF CommandState
<1>3. command' = [command EXCEPT ![c] = r]
  OBVIOUS
<1> HIDE DEF r
<1>4. command' \in [Command -> CommandState] /\ command'[c] = r /\ OtherCommands(c)
  BY <1>2, <1>3, CommandUpdated DEF IInv
<1>5. CommandStep(c)
  BY <1>4 DEF CommandStep
<1>6. /\ GoOn /\ RunsKept
      /\ \A d \in Command, s \in Server : Runs(d, s)' = Runs(d, s)
  BY <1>1, <1>2, <1>4, <1>5, NamesOf, CommandGoesOn
<1>7. \A d \in Command : /\ command'[d].kind = command[d].kind
                         /\ command'[d].at = "idle" <=> command[d].at = "idle"
                         /\ Working(d)' => Working(d)
                         /\ Starts(d)' => Starts(d)
                         /\ command'[d].at = "read" => command[d].at = "read" /\ command'[d].pid = command[d].pid
                         /\ command[d].at = "signalled" => command'[d].at = "signalled"
                         /\ command'[d].answer = command[d].answer
  BY <1>1, <1>2, <1>4 DEF OtherCommands, Working, Starts
<1>8. CommandInv(c)'
  BY <1>1, <1>2, <1>4, NamesOf DEF CommandInv, StartedBy
<1>9. Turns'
  BY <1>1, <1>7, TurnsKept DEF IInv, Types
<1>10. \A d \in Command, s \in Server : ~(Runs(d, s) /\ server[s].pid = command[c].pid)
  BY NamesOf DEF IInv, ServerInv, Runs
<1>11. Found'
  <2> SUFFICES ASSUME NEW d \in Command, NEW u \in Server, Answered(d, u)', d \notin overlapped, Latest(d)'
               PROVE  FALSE
    BY DEF Found
  <2>1. Answered(d, u) /\ Latest(d)
    BY <1>6, <1>7 DEF Answered, Latest
  <2>2. command[c].pid = server[u].pid
    BY <2>1 DEF IInv, Found
  <2> QED
    BY <1>10, <2>1, <2>2 DEF Answered
<1>12. Blamed'
  <2> SUFFICES ASSUME NEW x \in Command, NEW d \in struck', d \notin overlapped, LastBefore(x, d)'
               PROVE  Blame(x, d)'
    BY DEF Blamed
  <2>1. d \in Command /\ command[d].kind = "stop"
    BY <1>1 DEF IInv, Types, Turns
  <2>2. LastBefore(x, d) /\ (Blame(x, d) => Blame(x, d)')
    BY <1>6, <2>1, LastKept
  <2>3. CASE d = c
    <3>1. Leads(x, command[c].pid) \/ Blame(x, c)
      BY <2>2, <2>3 DEF IInv, Safe, ReadLeads
    <3> QED
      BY <1>10, <2>2, <2>3, <3>1 DEF Leads
  <2>4. CASE d \in struck
    BY <2>2, <2>4 DEF IInv, Safe, Blamed
  <2> QED
    BY <2>2, <2>3, <2>4
<1>13. Safe'
  BY <1>6, <1>7, <1>12, SpawnedKept, FileKept, ReadKept DEF Safe
<1> QED
  BY <1>5, <1>8, <1>9, <1>11, <1>13, CommandOnly DEF IInv, Types

LEMMA SignalsStep ==
  ASSUME IInv, NEW c \in Command, StopSignals(c) PROVE IInv'
<1>1. command[c].at = "read" /\ UNCHANGED <<file, env, died, overlapped, unfinished>>
  BY DEF StopSignals
<1>2. PICK who : who = pids[command[c].pid]
  OBVIOUS
<1>3. CASE who \in Server /\ Terminate(who) /\ struck' = struck
           /\ command' = [command EXCEPT ![c].at = "signalled", ![c].server = who]
  BY <1>1, <1>2, <1>3, TerminatesStep
<1>4. CASE /\ who = Stranger /\ struck' = struck \cup {c} /\ UNCHANGED <<server, holder, pids>>
           /\ command' = [command EXCEPT ![c].at = "signalled", ![c].server = Stranger]
  BY <1>1, <1>2, <1>4, StrikesStep
<1>5. CASE Answers(c, "error") /\ UNCHANGED <<server, holder, pids, struck>>
  BY <1>1, <1>5, FailsStep
<1> QED
  BY <1>2, <1>3, <1>4, <1>5 DEF StopSignals

-----------------------------------------------------------------------------
LEMMA StepInvariant == IInv /\ [Next]_vars => IInv'
<1> SUFFICES ASSUME IInv, [Next]_vars PROVE IInv'
  OBVIOUS
<1>1. CASE UNCHANGED vars
  <2>1. \A s \in Server : ServerInv(s)'
    BY <1>1 DEF vars, IInv, ServerInv, Live, Holds
  <2>2. (\A c \in Command : CommandInv(c)') /\ Turns' /\ Found' /\ Safe'
    BY <1>1, OrderKept DEF vars, Live
  <2> QED
    BY <1>1, <2>1, <2>2 DEF vars, IInv, Types
<1>2. CASE \E s \in Server : Progress(s) \/ TaskExit(s) \/ Crash(s) \/ RunForCertificate(s)
  BY <1>2, ServerStep, CertificateStep
<1>3. CASE \E c \in Command, s \in Server : StartSpawns(c, s) \/ ForegroundSpawns(c, s)
  BY <1>3, StartSpawnsStep, ForegroundSpawnsStep
<1>4. CASE \E c \in Command :
              \/ StartEmptiesFile(c) \/ StartWritesPid(c) \/ ForegroundEnds(c)
              \/ StopReadsFile(c) \/ StopSignals(c) \/ StopRemovesFile(c) \/ Interrupt(c)
  BY <1>4, EmptiesStep, WritesStep, ForegroundEndsStep, ReadsStep, SignalsStep, RemovesStep, InterruptStep
<1>5. CASE \E p \in Pid : Intrude(p)
  BY <1>5, IntrudeStep
<1> QED
  BY <1>1, <1>2, <1>3, <1>4, <1>5 DEF Next

\* The invariant holds of every execution.
THEOREM Invariance == Spec => []IInv
BY InitInvariant, StepInvariant, PTL DEF Spec

\* Every variable keeps its type.
THEOREM TypeCorrect == Spec => []TypeOK
<1>1. ASSUME IInv PROVE TypeOK
  <2>1. Types
    BY <1>1 DEF IInv
  <2>2. ASSUME NEW s \in Server
        PROVE  /\ \/ server[s].stage \in {"none", "serving", "stopping", "over"}
                  \/ Starting(s)
               /\ server[s].step \in DOMAIN Listeners
               /\ server[s].args \in Args \cup {None} /\ server[s].pid \in Pid \cup {None}
               /\ server[s].signalled \in BOOLEAN
               /\ server[s].exit \in {None, "ok", "error"}
               /\ server[s].exit # None => server[s].stage = "over"
    <3>1. server[s] \in ServerState /\ ServerInv(s)
      BY <1>1, <2>1 DEF IInv, Types
    <3> QED
      BY <3>1 DEF ServerState, ServerInv, Whole, Starting
  <2>3. ASSUME NEW c \in Command
        PROVE  /\ command[c].at \in {"idle", "spawned", "writing", "waiting", "read", "signalled",
                                     "done", "gone"}
               /\ command[c].pid \in Pid \cup {None}
               /\ command[c].server \in Server \cup {None, Stranger}
    BY <2>1 DEF Types, CommandState
  <2> QED
    BY <2>1, <2>2, <2>3 DEF TypeOK, Types
<1> QED
  BY <1>1, Invariance, PTL

\* The published secret gets through LoadConfig only if it was chosen in the
\* environment.
LEMMA SecretIsChosen ==
  ASSUME NEW args, NEW e, LoadConfig(args, Home, e) # Malformed,
         LoadConfig(args, Home, e).jwt_secret = DefaultMark
  PROVE  args.config = Unset /\ e.jwt_secret = DefaultMark
<1>1. CASE args.config = Unset
  <2> DEFINE config == ApplyEnvOverrides(DefaultForDir(Or(e.data_dir, Home)), e)
  <2>1. FromEnv(e) # Malformed
    BY <1>1 DEF LoadConfig
  <2>2. FromEnv(e) = config /\ config # Malformed
        /\ ~(e.jwt_secret = Unset /\ config.jwt_secret = DefaultMark)
    BY <2>1 DEF FromEnv
  <2>3. config = [data_dir |-> config.data_dir, stores |-> config.stores, jwt_secret |-> Or(e.jwt_secret, DefaultMark)]
    BY <2>2 DEF ApplyEnvOverrides, DefaultForDir
  <2>4. config.jwt_secret = Or(e.jwt_secret, DefaultMark)
    BY <2>3
  <2> HIDE DEF config
  <2>5. LoadConfig(args, Home, e) = [config EXCEPT !.data_dir = Or(Or(args.data_dir, e.data_dir), @)]
    BY <1>1, <2>2 DEF LoadConfig
  <2>6. LoadConfig(args, Home, e).jwt_secret = config.jwt_secret
    BY <2>3, <2>5
  <2> QED
    BY <1>1, <2>2, <2>4, <2>6 DEF Or
<1>2. CASE args.config # Unset
  <2> DEFINE raw == FromToml(args.config)
             config == ApplyEnvOverrides(IF raw.data_dir = Blank THEN [raw EXCEPT !.data_dir = Home] ELSE raw, e)
  <2>1. FromFile(args.config, Home, e) # Malformed
    BY <1>2 DEF LoadConfig
  <2>2. FromFile(args.config, Home, e) = config /\ config # Malformed
        /\ config.jwt_secret # DefaultMark
    BY <2>1 DEF FromFile
  <2>3. config = [data_dir |-> config.data_dir, stores |-> config.stores, jwt_secret |-> config.jwt_secret]
    BY <2>2 DEF ApplyEnvOverrides, FromToml
  <2> HIDE DEF config
  <2>4. LoadConfig(args, Home, e) = [config EXCEPT !.data_dir = Or(Or(args.data_dir, e.data_dir), @)]
    BY <1>2, <2>2 DEF LoadConfig
  <2>5. LoadConfig(args, Home, e).jwt_secret = config.jwt_secret
    BY <2>3, <2>4
  <2> QED
    BY <2>2, <2>5
<1> QED
  BY <1>1, <1>2

\* A server that serves has its three ports, and its secret was chosen.
THEOREM ServesWholeHolds == Spec => []ServesWhole
<1>1. ASSUME IInv PROVE ServesWhole
  <2> SUFFICES ASSUME NEW s \in Server, server[s].stage = "serving"
               PROVE  /\ \A l \in ToSet(Listeners) : holder[server[s].args.ports[l]] = s
                      /\ server[s].config.jwt_secret = DefaultMark =>
                           server[s].args.config = Unset /\ env.jwt_secret = DefaultMark
    BY DEF ServesWhole
  <2>1. ServerInv(s)
    BY <1>1 DEF IInv
  <2>2. \A l \in DOMAIN Listeners : holder[server[s].args.ports[Listeners[l]]] = s
    BY <2>1 DEF ServerInv, Whole, Holds
  <2>3. server[s].config = LoadConfig(server[s].args, Home, env) /\ server[s].config # Malformed
    BY <2>1 DEF ServerInv, Whole
  <2>4. server[s].config.jwt_secret = DefaultMark =>
          server[s].args.config = Unset /\ env.jwt_secret = DefaultMark
    BY <2>3, SecretIsChosen
  <2> QED
    BY <2>2, <2>4 DEF ToSet
<1> QED
  BY <1>1, Invariance, PTL

\* stop finds the server of the last start, if no other command was at work
\* during that one.
THEOREM StopFindsItHolds == Spec => []StopFindsIt
<1>1. ASSUME IInv PROVE StopFindsIt
  <2> SUFFICES ASSUME NEW c \in Command, NEW s \in Server,
                      StartedBy(c, s), Ordered(c), Live(s), ~server[s].signalled,
                      \A d \in Command : d > c => command[d].kind # "start"
               PROVE  file \in Pid /\ pids[file] = s
    BY DEF StopFindsIt
  <2>1. file = server[s].pid
    BY <1>1 DEF IInv, Found, Answered, Runs, Ordered, Latest
  <2> QED
    BY <1>1, <2>1 DEF IInv, ServerInv
<1> QED
  BY <1>1, Invariance, PTL

\* A stop that nobody overlaps strikes no stranger, unless the server of the last
\* start died or an earlier stop left the file of a server it had signalled.
THEOREM StrangersAreSafeHolds == Spec => []StrangersAreSafe
<1>1. ASSUME IInv PROVE StrangersAreSafe
  BY <1>1 DEF IInv, Safe, Blamed, Blame, StrangersAreSafe
<1> QED
  BY <1>1, Invariance, PTL
=============================================================================
