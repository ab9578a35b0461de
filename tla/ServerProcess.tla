---------------------------- MODULE ServerProcess ----------------------------
(***************************************************************************)
(* The macOS application and the server that it runs as a child process    *)
(* (MobiusAdmin: Services/ProcessManager.swift, App/AppState.swift).       *)
(*                                                                         *)
(* Both classes live on the main actor, so an action is what the main      *)
(* thread does in one turn: stop() waits for the child inside its turn,    *)
(* and restart() is a stop and a start in one.  What happens beside it:    *)
(* children bind their port and exit, Foundation calls the termination     *)
(* handler of a child, which puts a block on the main queue, and tasks     *)
(* wait for the answer to a shutdown request.                              *)
(***************************************************************************)
EXTENDS Sequences, Integers

CONSTANTS Children, \* the processes that may be launched: a bound on launches
          None,     \* no process, which is none of Children
          MaxTasks  \* bound on shutdown tasks at a time

VARIABLES
    app,     \* "open" or "quit"
    process, \* ProcessManager.process
    status,  \* "stopped", "running" or "error"; .starting does not outlive its turn
    alert,   \* AppState.showShutdownAlert
    tasks,   \* shutdown tasks that have yet to call stop()
    child,   \* "new", "up" (running), "bound" (and listening) or "dead"
    handled, \* children whose terminationHandler is set and was not called
    queued   \* blocks on the main queue, each of a child's termination

vars == <<app, process, status, alert, tasks, child, handled, queued>>

Init ==
    /\ app = "open" /\ process = None /\ status = "stopped"
    /\ alert = FALSE /\ tasks = 0
    /\ child = [k \in Children |-> "new"]
    /\ handled = {} /\ queued = <<>>

-----------------------------------------------------------------------------
(* ProcessManager *)

PortInUse(ch) == \E k \in Children : ch[k] = "bound"

\* The rest of start(), after its guard, with the children ch of which those in
\* hd have a handler: the port is taken, the launch fails, or a child runs.
Launch(ch, hd) ==
    \/ /\ status' = "error" /\ process' = None
       /\ child' = ch /\ handled' = hd
    \/ /\ ~ PortInUse(ch)
       /\ \E k \in Children :
             /\ ch[k] = "new"
             /\ process' = k /\ status' = "running"
             /\ child' = [ch EXCEPT ![k] = "up"]
             /\ handled' = hd \cup {k}

start ==
    IF process = None THEN Launch(child, handled)
    ELSE UNCHANGED <<process, status, child, handled>>

\* stop() ends the child it holds, by SIGKILL if need be, and takes its handler.
Stopped == [k \in Children |-> IF k = process THEN "dead" ELSE child[k]]

stop ==
    /\ process' = None /\ status' = "stopped"
    /\ child' = Stopped
    /\ handled' = handled \ {process}

restart == Launch(Stopped, handled \ {process})

-----------------------------------------------------------------------------
(* AppState: what the user does *)

StartServer == app = "open" /\ start /\ UNCHANGED <<app, alert, tasks, queued>>

\* stopServer() asks first if the server runs; the button is off if it does not.
StopServer ==
    /\ app = "open" /\ status = "running"
    /\ alert' = TRUE
    /\ UNCHANGED <<app, process, status, tasks, child, handled, queued>>

RestartServer == app = "open" /\ restart /\ UNCHANGED <<app, alert, tasks, queued>>

ForceStop ==
    /\ app = "open" /\ alert
    /\ alert' = FALSE
    /\ stop
    /\ UNCHANGED <<app, tasks, queued>>

ConfirmShutdown ==
    /\ app = "open" /\ alert
    /\ alert' = FALSE
    /\ IF status = "running"
       THEN tasks < MaxTasks /\ tasks' = tasks + 1 /\ UNCHANGED <<process, status, child, handled>>
       ELSE stop /\ UNCHANGED tasks
    /\ UNCHANGED <<app, queued>>

\* The request failed, or it was answered and two seconds have passed.
ShutdownTask ==
    /\ app = "open" /\ tasks > 0
    /\ tasks' = tasks - 1
    /\ stop
    /\ UNCHANGED <<app, alert, queued>>

Quit ==
    /\ app = "open"
    /\ app' = "quit"
    /\ stop
    /\ UNCHANGED <<alert, tasks, queued>>

-----------------------------------------------------------------------------
(* The children, and the application when one ends *)

Bind(k) ==
    /\ child[k] = "up" /\ ~ PortInUse(child)
    /\ child' = [child EXCEPT ![k] = "bound"]
    /\ UNCHANGED <<app, process, status, alert, tasks, handled, queued>>

Exit(k) ==
    /\ child[k] \in {"up", "bound"}
    /\ child' = [child EXCEPT ![k] = "dead"]
    /\ UNCHANGED <<app, process, status, alert, tasks, handled, queued>>

TerminationHandler(k) ==
    /\ app = "open" /\ child[k] = "dead" /\ k \in handled
    /\ handled' = handled \ {k}
    /\ \E s \in {"stopped", "error"} : queued' = Append(queued, [of |-> k, status |-> s])
    /\ UNCHANGED <<app, process, status, alert, tasks, child>>

\* The block looks whether a process is held, not whether it is the one that ended.
TerminationBlock ==
    /\ app = "open" /\ queued # <<>>
    /\ queued' = Tail(queued)
    /\ IF process = None THEN UNCHANGED <<process, status>>
       ELSE process' = None /\ status' = Head(queued).status
    /\ UNCHANGED <<app, alert, tasks, child, handled>>

-----------------------------------------------------------------------------
Next ==
    \/ StartServer \/ StopServer \/ RestartServer \/ ForceStop \/ ConfirmShutdown
    \/ ShutdownTask \/ Quit \/ TerminationBlock
    \/ \E k \in Children : Bind(k) \/ Exit(k) \/ TerminationHandler(k)

Spec == Init /\ [][Next]_vars

-----------------------------------------------------------------------------
(* Properties *)

\* The termination of a server that stop() has dealt with does not interfere
\* with the next one: a server that runs is the one the application holds, and
\* can be stopped from it.
RunningIsHeld ==
    \A k \in Children : child[k] \in {"up", "bound"} => process = k
=============================================================================
