------------------------------ MODULE Startup ------------------------------
(***************************************************************************)
(* A node from the start of its process on.  main makes the databases,     *)
(* spawns the queue checker's thread, sets the panic hook and binds the    *)
(* server, in that order: until the hook is set a panic of the thread ends *)
(* the thread and nothing else.  PodpingNode starts where this module      *)
(* comes to "serving", and calls every exit a crash.                       *)
(***************************************************************************)
EXTENDS PodpingNode

VARIABLES
  boot,         \* how far main has come
  thread        \* the queue checker's thread

lifeVars == <<boot, thread>>

startupVars == <<vars, lifeVars>>

LifeTypeOK ==
  /\ boot \in {"databases", "spawn", "unhooked", "hooked", "serving"}
  /\ thread \in {"none", "running", "dead"}

StartupInit == Init /\ boot = "databases" /\ thread = "none"

-----------------------------------------------------------------------------
\* create_databases; when it fails the process exits, which is a Crash.
MakeDatabases ==
  /\ boot = "databases"
  /\ boot' = "spawn"
  /\ UNCHANGED thread

SpawnChecker ==
  /\ boot = "spawn"
  /\ boot' = "unhooked"
  /\ thread' = "running"

SetHook ==
  /\ boot = "unhooked"
  /\ boot' = "hooked"
  /\ UNCHANGED thread

\* Server::bind; it panics when the port is taken, which is a Crash.
BindServer ==
  /\ boot = "hooked"
  /\ boot' = "serving"
  /\ UNCHANGED thread

BootStep ==
  /\ MakeDatabases \/ SpawnChecker \/ SetHook \/ BindServer
  /\ UNCHANGED vars

\* What goes on beside the queue checker; the handlers only of a bound server.
OtherStep ==
  /\ \/ boot = "serving" /\ \E p \in Pings : HandlerStep(p)
     \/ WriterStep
     \/ WriterFault
     \/ Tick
  /\ UNCHANGED lifeVars

RunningStep ==
  /\ thread = "running"
  /\ CheckerStep
  /\ UNCHANGED lifeVars

ProcessEnds ==
  /\ boot' = "databases"
  /\ thread' = "none"

\* An unwrap of the thread panics before the hook is set.
ThreadDies ==
  /\ thread = "running" /\ boot = "unhooked"
  /\ Fault
  /\ CheckerExits
  /\ SocketCloses
  /\ thread' = "dead"
  /\ UNCHANGED <<queue, handlerVars, held, landed, refused, boot>>

\* Any other panic, and any other end of the process.
ProcessCrashes == Crash /\ ProcessEnds

RequestPanics ==
  /\ boot = "serving"
  /\ \E p \in Pings : PanickingRequest(p)
  /\ ProcessEnds

StartupNext ==
  \/ BootStep
  \/ OtherStep
  \/ RunningStep
  \/ ThreadDies
  \/ ProcessCrashes
  \/ RequestPanics

StartupSpec == StartupInit /\ [][StartupNext]_startupVars

-----------------------------------------------------------------------------
\* Nothing runs in a handler of a server that is not bound.
NoEarlyHandler ==
  boot # "serving" =>
    \A p \in Pings : stage[p] \notin InProgress /\ stamp[p] = 0

\* main.rs, "We want a thread panic on the ZMQ thread to exit the whole
\* process": a node that takes in pings has a queue checker that sends them.
ServingHasChecker == boot = "serving" => thread = "running"
=============================================================================
