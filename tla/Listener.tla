------------------------------ MODULE Listener -------------------------------
(***************************************************************************)
(* core, tcp_server and connection: a listener per port accepts clients in *)
(* a chain of handlers, each client has a session of asynchronous reads    *)
(* and writes, and stop() comes from the signal handler's thread at any    *)
(* time, also while run() is still starting.                               *)
(*                                                                         *)
(* A server object lives as long as an operation or a handler refers to it,*)
(* and io_service::run returns when nothing is left to wait for.  All      *)
(* ports have a route.                                                     *)
(***************************************************************************)
EXTENDS Integers, FiniteSets

CONSTANTS
  Threads,        \* the workers that run the io_service, in the order of their start
  Ports,          \* a listener for each
  Echo,           \* the ports of the echo translator; the others are Wialon's
  MaxClients,     \* bound on the clients that connect
  MaxLines,       \* bound on what a client sends
  MaxErrors       \* bound on the accepts that fail

ASSUME ListenerAssumption ==
  /\ Threads \subseteq Nat /\ Ports \subseteq Nat \ {0}
  /\ IsFiniteSet(Ports) /\ Echo \subseteq Ports
  /\ {MaxClients, MaxLines, MaxErrors} \subseteq Nat

\* Connection objects: one for each client, and one that waits at each port.
Sessions == 1..(MaxClients + Cardinality(Ports))
None == 0

VARIABLES
  redis,          \* redis is among the dispatchers: its timer, lookup or socket
                  \* has something under way for ever (RedisConnection)
  main,           \* core::operator(): "settings", "plugins", "listening" while it
                  \* makes listeners, "starting" the workers, "joining", "failed"
  making, step,   \* the port of the listener being made, and what comes next:
                  \* "push", "create" or "accept"
  listeners,      \* listeners_
  ioService,      \* core::io_service_ is set
  stop,           \* core::stop(): "no", "cancelling", "done"
  toCancel,       \* the listeners its loop has not come to
  accept,         \* the accept of a port: "none", "pending", "ok", "aborted", "failed"
  newConnection,  \* new_connection_
  made,           \* how many connection objects were made
  pc, at,         \* where a worker is in handle_accept, and of which port
  port,           \* the port of a session
  peer,           \* the client's end: "none", "open", "closed"
  reads, writes,  \* operations under way on a session's socket
  pending,        \* what a session stored and was not answered yet
  sent,           \* how many times a client has sent something
  crashed,        \* why the process has ended in the middle of a function: "no",
                  \* "null pointer", "dangling pointer" or "exception"
  early,          \* history: stop() came before there was an io_service
  broken,         \* history: the ports where an accept failed
  late            \* history: the ports that accept again after their cancel()

startup == <<redis, main, making, step>>
server == <<listeners, accept, newConnection, made>>
worker == <<pc, at>>
session == <<port, peer, reads, writes, pending, sent>>
stopping == <<ioService, stop, toCancel, early>>
vars == <<startup, server, worker, session, stopping, crashed, broken, late>>

Init ==
  /\ redis \in BOOLEAN
  /\ main = "settings" /\ making = None /\ step = "push" /\ listeners = {}
  /\ ioService = FALSE /\ stop = "no" /\ toCancel = {} /\ early = FALSE
  /\ accept = [p \in Ports |-> "none"]
  /\ newConnection = [p \in Ports |-> None] /\ made = 0
  /\ pc = [t \in Threads |-> "unborn"] /\ at = [t \in Threads |-> None]
  /\ port = [s \in Sessions |-> None]
  /\ peer = [s \in Sessions |-> "none"]
  /\ reads = [s \in Sessions |-> 0] /\ writes = [s \in Sessions |-> 0]
  /\ pending = [s \in Sessions |-> 0] /\ sent = [s \in Sessions |-> 0]
  /\ crashed = "no" /\ broken = {} /\ late = {}

-----------------------------------------------------------------------------
(* core::run and operator()                                                  *)

Ended ==
  \/ crashed # "no"
  \/ main = "failed" /\ stop = "done"
  \/ main = "joining" /\ \A t \in Threads : pc[t] = "gone"

\* The configuration file is read; run() begins with the io_service.
LoadSettings ==
  /\ main = "settings"
  /\ main' = "plugins" /\ ioService' = TRUE
  /\ UNCHANGED <<redis, making, step, server, worker, session, stop, toCancel, early,
                 crashed, broken, late>>

\* Plugins are loaded, and dispatchers made: redis takes core's io_service.
LoadPlugins ==
  /\ main = "plugins"
  /\ IF redis /\ ~ioService
       THEN crashed' = "null pointer" /\ UNCHANGED main
       ELSE main' = "listening" /\ UNCHANGED crashed
  /\ UNCHANGED <<redis, making, step, server, worker, session, stopping, broken, late>>

\* A boost::exception: a bad file, plugin, address or port.  operator() calls stop().
StartFails ==
  /\ main \in {"settings", "plugins"} \/ (main = "listening" /\ making = None /\ listeners # Ports)
  /\ main' = "failed"
  /\ UNCHANGED <<redis, making, step, server, worker, session, stopping, crashed, broken, late>>

\* Any other exception, as that of a plugin directory that is not there.
StartThrows ==
  /\ main = "plugins"
  /\ crashed' = "exception"
  /\ UNCHANGED <<startup, server, worker, session, stopping, broken, late>>

First(S) == CHOOSE x \in S : \A y \in S : x <= y

\* The ports come in order.  The constructor of tcp_server takes core's io_service.
MakeListener(p) ==
  /\ main = "listening" /\ making = None
  /\ listeners # Ports /\ p = First(Ports \ listeners)
  /\ IF ioService
       THEN making' = p /\ step' = "push" /\ UNCHANGED crashed
       ELSE crashed' = "null pointer" /\ UNCHANGED <<making, step>>
  /\ UNCHANGED <<redis, main, server, worker, session, stopping, broken, late>>

\* listeners_ grows; a loop of stop() that walks it may be left with nothing to walk.
PushListener ==
  /\ making # None /\ step = "push"
  /\ listeners' = listeners \cup {making} /\ step' = "create"
  /\ \/ UNCHANGED crashed
     \/ toCancel # {} /\ crashed' = "dangling pointer"
  /\ UNCHANGED <<redis, main, making, accept, newConnection, made, worker, session, stopping,
                 broken, late>>

\* tcp_server::start_accept: a connection object is made and waits at the port;
\* its constructor takes core's io_service.
NewConnection(p) ==
  IF ioService
    THEN /\ made' = made + 1
         /\ newConnection' = [newConnection EXCEPT ![p] = made + 1]
         /\ UNCHANGED crashed
    ELSE crashed' = "null pointer" /\ UNCHANGED <<made, newConnection>>

\* async_accept, whether or not cancel() was called meanwhile.
StartAccept(p) ==
  /\ accept' = [accept EXCEPT ![p] = "pending"]
  /\ late' = IF stop # "no" /\ p \notin toCancel THEN late \cup {p} ELSE late

FirstConnection ==
  /\ making # None /\ step = "create"
  /\ NewConnection(making) /\ step' = IF ioService THEN "accept" ELSE step
  /\ UNCHANGED <<redis, main, making, listeners, accept, worker, session, stopping, broken, late>>

FirstAccept ==
  /\ making # None /\ step = "accept"
  /\ StartAccept(making) /\ making' = None
  /\ UNCHANGED <<redis, main, step, listeners, newConnection, made, worker, session, stopping,
                 crashed, broken>>

\* A worker is bound to core's io_service; when all are there they are joined.
StartWorker(t) ==
  /\ main \in {"listening", "starting"} /\ making = None /\ listeners = Ports
  /\ pc[t] = "unborn" /\ \A u \in Threads : pc[u] = "unborn" => t <= u
  /\ IF ioService
       THEN /\ pc' = [pc EXCEPT ![t] = "idle"] /\ UNCHANGED crashed
            /\ main' = IF \A u \in Threads \ {t} : pc[u] # "unborn" THEN "joining" ELSE "starting"
       ELSE crashed' = "null pointer" /\ UNCHANGED <<pc, main>>
  /\ UNCHANGED <<redis, making, step, server, at, session, stopping, broken, late>>

Handling(t, p) == pc[t] \in {"connect", "create", "accept"} /\ at[t] = p

NoWork ==
  /\ ~redis
  /\ \A p \in Ports : accept[p] = "none" /\ \A t \in Threads : ~Handling(t, p)
  /\ \A s \in Sessions : reads[s] = 0 /\ writes[s] = 0 /\ pending[s] = 0

\* io_service::run returns.
Leave(t) ==
  /\ pc[t] = "idle" /\ NoWork
  /\ pc' = [pc EXCEPT ![t] = "gone"]
  /\ UNCHANGED <<startup, server, at, session, stopping, crashed, broken, late>>

-----------------------------------------------------------------------------
(* core::stop, for a signal and for a start that failed: when it was done    *)
(* for the signal already, the second time changes nothing.                  *)

StopReset ==
  /\ stop = "no"
  /\ ioService' = FALSE /\ stop' = "cancelling" /\ toCancel' = listeners
  /\ early' = (main = "settings")
  /\ UNCHANGED <<startup, server, worker, session, crashed, broken, late>>

\* Mutant of Cancel: the listeners are not cancelled.
CancelNothing(p) ==
  /\ p \in toCancel
  /\ toCancel' = toCancel \ {p}
  /\ UNCHANGED <<startup, server, worker, session, ioService, stop, early, crashed, broken, late>>

\* cancel() of a listener that is still there ends the accept that waits, if any.
Cancel(p) ==
  /\ p \in toCancel
  /\ toCancel' = toCancel \ {p}
  /\ accept' = [accept EXCEPT ![p] = IF @ = "pending" THEN "aborted" ELSE @]
  /\ UNCHANGED <<startup, listeners, newConnection, made, worker, session, ioService, stop, early,
                 crashed, broken, late>>

StopDone ==
  /\ stop = "cancelling" /\ toCancel = {}
  /\ stop' = "done"
  /\ UNCHANGED <<startup, server, worker, session, ioService, toCancel, early, crashed, broken, late>>

-----------------------------------------------------------------------------
(* handle_accept                                                             *)

TakeAccept(t, p) ==
  /\ pc[t] = "idle" /\ accept[p] = "ok"
  /\ pc' = [pc EXCEPT ![t] = "connect"] /\ at' = [at EXCEPT ![t] = p]
  /\ accept' = [accept EXCEPT ![p] = "none"]
  /\ UNCHANGED <<startup, listeners, newConnection, made, session, stopping, crashed, broken, late>>

\* Mutant of AcceptEnds: after any error it accepts again.
AcceptEndsNot(t, p) ==
  /\ pc[t] = "idle" /\ accept[p] \in {"aborted", "failed"}
  /\ pc' = [pc EXCEPT ![t] = "create"] /\ at' = [at EXCEPT ![t] = p]
  /\ accept' = [accept EXCEPT ![p] = "none"]
  /\ UNCHANGED <<startup, listeners, newConnection, made, session, stopping, crashed, broken, late>>

\* An error: the chain ends, and the server object with it.
AcceptEnds(t, p) ==
  /\ pc[t] = "idle" /\ accept[p] \in {"aborted", "failed"}
  /\ accept' = [accept EXCEPT ![p] = "none"]
  /\ newConnection' = [newConnection EXCEPT ![p] = None]
  /\ UNCHANGED <<startup, listeners, made, worker, session, stopping, crashed, broken, late>>

\* on_connection(): both translators begin with a read.  Of a client that has
\* gone, remote_endpoint() may throw, out of the handler and of the worker.
OnConnection(t) ==
  /\ pc[t] = "connect"
  /\ LET s == newConnection[at[t]] IN
       \/ /\ pc' = [pc EXCEPT ![t] = "create"]
          /\ reads' = [reads EXCEPT ![s] = 1]
          /\ UNCHANGED crashed
       \/ /\ peer[s] = "closed" /\ crashed' = "exception"
          /\ UNCHANGED <<pc, reads>>
  /\ UNCHANGED <<startup, server, at, port, peer, writes, pending, sent, stopping, broken, late>>

\* Mutant of Create: the connection object is used again.
CreateNothing(t) ==
  /\ pc[t] = "create"
  /\ pc' = [pc EXCEPT ![t] = "accept"]
  /\ UNCHANGED <<startup, server, at, session, stopping, crashed, broken, late>>

\* start_accept()
Create(t) ==
  /\ pc[t] = "create"
  /\ NewConnection(at[t])
  /\ pc' = [pc EXCEPT ![t] = IF ioService THEN "accept" ELSE @]
  /\ UNCHANGED <<startup, listeners, accept, at, session, stopping, broken, late>>

\* Mutant of Accept: the handler returns without another accept.
AcceptNoMore(t) ==
  /\ pc[t] = "accept"
  /\ pc' = [pc EXCEPT ![t] = "idle"] /\ at' = [at EXCEPT ![t] = None]
  /\ UNCHANGED <<startup, server, session, stopping, crashed, broken, late>>

Accept(t) ==
  /\ pc[t] = "accept"
  /\ pc' = [pc EXCEPT ![t] = "idle"] /\ at' = [at EXCEPT ![t] = None]
  /\ StartAccept(at[t])
  /\ UNCHANGED <<startup, listeners, newConnection, made, session, stopping, crashed, broken>>

-----------------------------------------------------------------------------
(* The handlers of a session; its strand runs one at a time                  *)

\* The echo translator writes it back, and will read again when that is done.
EchoRead(s) ==
  /\ reads' = [reads EXCEPT ![s] = @ - 1]
  /\ writes' = [writes EXCEPT ![s] = @ + 1]
  /\ UNCHANGED <<pending, crashed>>

\* Wialon parses a line, may reply, or store with process_data, which takes core's
\* io_service, and goes on reading.
WialonRead(s) ==
  /\ UNCHANGED reads
  /\ \/ UNCHANGED <<writes, pending, crashed>>
     \/ writes' = [writes EXCEPT ![s] = @ + 1] /\ UNCHANGED <<pending, crashed>>
     \/ /\ IF ioService
             THEN pending' = [pending EXCEPT ![s] = @ + 1] /\ UNCHANGED crashed
             ELSE crashed' = "null pointer" /\ UNCHANGED pending
        /\ UNCHANGED writes

\* Something to parse, which the client may have sent before it closed.
HandleRead(t, s) ==
  /\ pc[t] = "idle" /\ reads[s] > 0 /\ sent[s] < MaxLines
  /\ sent' = [sent EXCEPT ![s] = @ + 1]
  /\ IF port[s] \in Echo THEN EchoRead(s) ELSE WialonRead(s)
  /\ UNCHANGED <<startup, server, worker, port, peer, stopping, broken, late>>

\* Mutant of HandleReadEnd: it reads again after an error.
HandleReadAgain(t, s) ==
  /\ pc[t] = "idle" /\ reads[s] > 0 /\ peer[s] = "closed"
  /\ UNCHANGED vars

\* End of file, or an error: nothing is read any more.
HandleReadEnd(t, s) ==
  /\ pc[t] = "idle" /\ reads[s] > 0 /\ peer[s] = "closed"
  /\ reads' = [reads EXCEPT ![s] = @ - 1]
  /\ UNCHANGED <<startup, server, worker, port, peer, writes, pending, sent, stopping,
                 crashed, broken, late>>

\* Mutant of HandleWrite: the echo translator does not read again.
HandleWriteOnly(t, s) ==
  /\ pc[t] = "idle" /\ writes[s] > 0
  /\ writes' = [writes EXCEPT ![s] = @ - 1]
  /\ UNCHANGED <<startup, server, worker, port, peer, reads, pending, sent, stopping,
                 crashed, broken, late>>

\* A write completes, or fails once the client has gone.
HandleWrite(t, s) ==
  /\ pc[t] = "idle" /\ writes[s] > 0
  /\ writes' = [writes EXCEPT ![s] = @ - 1]
  /\ \/ port[s] \in Echo /\ reads' = [reads EXCEPT ![s] = @ + 1]
     \/ (port[s] \notin Echo \/ peer[s] = "closed") /\ UNCHANGED reads
  /\ UNCHANGED <<startup, server, worker, port, peer, pending, sent, stopping, crashed, broken, late>>

\* A dispatcher's answer: a reply, or one more block of a black box.
HandleProcessData(t, s) ==
  /\ pc[t] = "idle" /\ pending[s] > 0
  /\ pending' = [pending EXCEPT ![s] = @ - 1]
  /\ \/ writes' = [writes EXCEPT ![s] = @ + 1]
     \/ UNCHANGED writes
  /\ UNCHANGED <<startup, server, worker, port, peer, reads, sent, stopping, crashed, broken, late>>

-----------------------------------------------------------------------------
(* The clients and the operating system                                      *)

Connect(p) ==
  /\ accept[p] = "pending" /\ Cardinality({s \in Sessions : peer[s] # "none"}) < MaxClients
  /\ accept' = [accept EXCEPT ![p] = "ok"]
  /\ peer' = [peer EXCEPT ![newConnection[p]] = "open"]
  /\ port' = [port EXCEPT ![newConnection[p]] = p]
  /\ UNCHANGED <<startup, listeners, newConnection, made, worker, reads, writes, pending, sent,
                 stopping, crashed, broken, late>>

AcceptError(p) ==
  /\ accept[p] = "pending" /\ Cardinality(broken) < MaxErrors
  /\ accept' = [accept EXCEPT ![p] = "failed"]
  /\ broken' = broken \cup {p}
  /\ UNCHANGED <<startup, listeners, newConnection, made, worker, session, stopping, crashed, late>>

PeerCloses(s) ==
  /\ peer[s] = "open"
  /\ peer' = [peer EXCEPT ![s] = "closed"]
  /\ UNCHANGED <<startup, server, worker, port, reads, writes, pending, sent, stopping,
                 crashed, broken, late>>

-----------------------------------------------------------------------------
Startup ==
  \/ LoadSettings \/ LoadPlugins \/ StartFails \/ StartThrows
  \/ PushListener \/ FirstConnection \/ FirstAccept
  \/ \E p \in Ports : MakeListener(p)
  \/ \E t \in Threads : StartWorker(t)

Stop == StopReset \/ StopDone \/ \E p \in Ports : Cancel(p)

Handle(t) == OnConnection(t) \/ Create(t) \/ Accept(t)

\* What does not wait for the client.
HandleDue(t, s) == HandleReadEnd(t, s) \/ HandleWrite(t, s) \/ HandleProcessData(t, s)

Work(t) ==
  \/ Leave(t) \/ Handle(t)
  \/ \E p \in Ports : TakeAccept(t, p) \/ AcceptEnds(t, p)
  \/ \E s \in Sessions : HandleRead(t, s) \/ HandleDue(t, s)

Environment ==
  \/ \E p \in Ports : Connect(p) \/ AcceptError(p)
  \/ \E s \in Sessions : PeerCloses(s)

Next ==
  /\ ~Ended
  /\ Startup \/ Stop \/ Environment \/ \E t \in Threads : Work(t)

Spec == Init /\ [][Next]_vars

\* Threads are scheduled, and handlers that are due are run; the signal and the
\* clients are not obliged to anything.
FairSpec ==
  /\ Spec
  /\ WF_vars(~Ended /\ Startup)
  /\ WF_vars(~Ended /\ stop # "no" /\ Stop)
  /\ WF_vars(~Ended /\ main = "failed" /\ Stop)
  /\ \A t \in Threads : WF_vars(~Ended /\ (Handle(t) \/ Leave(t)))
  /\ \A p \in Ports : WF_vars(~Ended /\ \E t \in Threads : TakeAccept(t, p) \/ AcceptEnds(t, p))
  /\ \A s \in Sessions :
       WF_vars(~Ended /\ \E t \in Threads : HandleDue(t, s))

-----------------------------------------------------------------------------
(* A port has one accept, waiting, completed or being handled by one worker, *)
(* and it is for a connection object of its own: handle_accept reads         *)
(* new_connection_, which must be the one that was accepted.                 *)
OneChain ==
  \A p \in Ports :
    /\ Cardinality({t \in Threads : Handling(t, p)}) <= (IF accept[p] = "none" THEN 1 ELSE 0)
    /\ accept[p] = "pending" => newConnection[p] # None /\ peer[newConnection[p]] = "none"
    /\ \A q \in Ports : newConnection[p] = newConnection[q] /\ p # q => newConnection[p] = None

(* A client that was accepted is listened to: its session is about to be     *)
(* started, reads, or is the echo translator's, which writes and will read.  *)
(* And no session ever has two reads under way, which would share its buffer.*)
NotDeaf ==
  \A s \in Sessions :
    /\ reads[s] <= 1
    /\ peer[s] = "open" =>
      \/ accept[port[s]] = "ok" /\ newConnection[port[s]] = s
      \/ \E t \in Threads : pc[t] = "connect" /\ newConnection[at[t]] = s
      \/ reads[s] + (IF port[s] \in Echo THEN writes[s] ELSE 0) = 1

(* The workers do not leave before stop(), unless no port accepts any more;  *)
(* a stop() that came before the io_service changes nothing of that.         *)
ServesOn == \A t \in Threads : pc[t] = "gone" => (stop # "no" /\ ~early) \/ broken = Ports

(* After stop() the process ends once the clients have gone, although nothing*)
(* stops the sessions: save with redis, which is never told to end; when a   *)
(* listener began to accept behind its cancel(); and when stop() came so     *)
(* early that run() made an io_service all the same.                         *)
Exits ==
  stop = "done" ~> Ended \/ redis \/ early \/ late # {} \/ \E s \in Sessions : peer[s] = "open"

(* The session of a client that has gone ends, and nothing refers to it then:*)
(* again and again no such session is left.                                  *)
SessionsEnd ==
  []<>(\/ Ended
       \/ main = "failed"
       \/ \A s \in Sessions : peer[s] = "closed" =>
            /\ reads[s] = 0 /\ writes[s] = 0 /\ pending[s] = 0
            /\ \A p \in Ports : newConnection[p] # s)

(* stop() frees the io_service that core lends to others (core.cpp:114). A   *)
(* server whose start was complete and that no client ever came to does not  *)
(* need it again: it is stopped without a crash.                             *)
StopIsClean ==
  crashed = "null pointer" /\ main = "joining" => \E s \in Sessions : peer[s] # "none"
==============================================================================
