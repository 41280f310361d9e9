--------------------------- MODULE RedisConnection ---------------------------
(***************************************************************************)
(* The connection handling of redis_connection: the resolver, the list of  *)
(* endpoints, the timer shared by reconnecting and pinging, and the        *)
(* write/read cycle they start and stop.                                   *)
(*                                                                         *)
(* An action is one completion handler, or one call of publish(), from its *)
(* first line to its last; RedisPipeline interleaves their steps.  Queued  *)
(* handlers run in any order, as the workers that take them may be delayed.*)
(* A cancelled operation still calls its handler, and a wait that has      *)
(* expired cannot be cancelled any more: its handler is queued.            *)
(***************************************************************************)
EXTENDS Integers, Sequences

CONSTANTS
  Endpoints,       \* how many addresses the host name resolves to
  ConnectTimeout,  \* timeout_connect_ is not 0
  PingTimeout,     \* timeout_ping_ is not 0
  ResolverFails,   \* the resolver may report an error
  MaxPublishes,    \* bound: calls of publish() that find a connection
  MaxFaults        \* bound: refused attempts, lost connections, error replies

ASSUME ConnectionAssumption ==
  /\ Endpoints \in Nat \ {0}
  /\ {ConnectTimeout, PingTimeout, ResolverFails} \subseteq BOOLEAN
  /\ {MaxPublishes, MaxFaults} \subseteq Nat

VARIABLES
  resolving,       \* calls of async_resolve under way
  attempts,        \* attempts[e]: calls of async_connect to endpoint e under way
  aborted,         \* aborted[e]: those that have failed, their handler is queued
  socket,          \* "closed", "open" or "up" (connected)
  timer,           \* the pending wait: whose handler, and for which endpoint
  due,             \* the waits that have expired, their handlers are queued
  isConnected,     \* is_connected_
  busy,            \* busy_mutex_
  cycle,           \* the operation of the write/read cycle: "none", "writing",
                   \* "reading", or "failed" (its handler is queued)
  out, tmp,        \* the callbacks of out_buf_ and out_tmp_buf_
  published, faults,
  crashed          \* undefined behaviour, or an exception no handler catches

wires == <<resolving, attempts, aborted, socket>>
timers == <<timer, due>>
pipeline == <<busy, cycle, out, tmp>>
bounds == <<published, faults>>
vars == <<wires, timers, isConnected, pipeline, bounds, crashed>>

Off == <<"off", 0>>
PingWait == <<"ping", 0>>
ConnectWait(e) == <<"connect", e>>

Nowhere == [e \in 1..Endpoints |-> 0]

Init ==
  /\ resolving = 1                     \* dispatcher_redis::load_settings
  /\ attempts = Nowhere /\ aborted = Nowhere
  /\ socket = "closed"
  /\ timer = Off /\ due = {}
  /\ isConnected = FALSE
  /\ busy = FALSE /\ cycle = "none" /\ out = <<>> /\ tmp = <<>>
  /\ published = 0 /\ faults = 0
  /\ crashed = FALSE

-----------------------------------------------------------------------------
(* Connecting *)

Plus(f, e)  == [f EXCEPT ![e] = @ + 1]
Minus(f, e) == [f EXCEPT ![e] = @ - 1]
Both(f, g)  == [e \in 1..Endpoints |-> f[e] + g[e]]

\* connect(endpoint_iterator): the timer is set anew, whatever it waited for; an
\* attempt on a socket that is connected fails at once.
ConnectTo(e, live, failed) ==
  /\ timer' = ConnectWait(e)
  /\ socket' = IF socket = "closed" THEN "open" ELSE socket
  /\ IF socket = "up" THEN attempts' = live /\ aborted' = Plus(failed, e)
                      ELSE attempts' = Plus(live, e) /\ aborted' = failed

\* Mutant of AfterPong: the timer is cancelled and not set again.
NeverPing == Off

\* What timeout_no_ping(true) leaves the timer at.
AfterPong == IF PingTimeout THEN PingWait ELSE Off

\* write(): the buffers are swapped unless a cycle runs; q is what out_buf_ holds
\* and s the state of the socket.
Write(q, s) ==
  IF busy
    THEN out' = q /\ UNCHANGED <<busy, cycle, tmp>>
    ELSE /\ busy' = TRUE
         /\ out' = tmp /\ tmp' = q
         /\ cycle' = IF s = "up" THEN "writing" ELSE "failed"

HandleResolve ==
  /\ resolving > 0
  /\ resolving' = resolving - 1
  /\ ConnectTo(1, attempts, aborted)
  /\ UNCHANGED <<due, isConnected, pipeline, bounds, crashed>>

\* The iterator handed over with an error refers to no endpoint.
HandleResolveFailed ==
  /\ ResolverFails /\ resolving > 0
  /\ resolving' = resolving - 1
  /\ crashed' = TRUE
  /\ UNCHANGED <<attempts, aborted, socket, timers, isConnected, pipeline, bounds>>

\* handle_connect() without an error: requests stored meanwhile are written.
HandleConnect(e) ==
  /\ attempts[e] > 0 /\ socket = "open"
  /\ attempts' = Minus(attempts, e)
  /\ socket' = "up"
  /\ timer' = AfterPong
  /\ isConnected' = TRUE
  /\ IF out = <<>> THEN UNCHANGED pipeline ELSE Write(out, "up")
  /\ UNCHANGED <<resolving, aborted, due, bounds, crashed>>

\* handle_connect() with an error: the next endpoint, or nothing but a message.
NextEndpoint(e, live, failed) ==
  IF e < Endpoints
    THEN ConnectTo(e + 1, live, failed)
    ELSE attempts' = live /\ aborted' = failed /\ UNCHANGED <<socket, timer>>

HandleConnectAborted(e) ==
  /\ aborted[e] > 0
  /\ NextEndpoint(e, attempts, Minus(aborted, e))
  /\ UNCHANGED <<resolving, due, isConnected, pipeline, bounds, crashed>>

HandleConnectRefused(e) ==
  /\ attempts[e] > 0
  /\ faults < MaxFaults \/ socket = "up"
  /\ faults' = IF socket = "up" THEN faults ELSE faults + 1
  /\ NextEndpoint(e, Minus(attempts, e), aborted)
  /\ UNCHANGED <<resolving, due, isConnected, pipeline, published, crashed>>

-----------------------------------------------------------------------------
(* The timer *)

\* The wait is over; its handler is queued behind the handlers that are due.  A
\* wait takes seconds: the handlers of operations that failed earlier have run by then.
Expire ==
  /\ timer # Off
  /\ due = {} /\ aborted = Nowhere /\ cycle # "failed"
  /\ due' = {timer} /\ timer' = Off
  /\ UNCHANGED <<wires, isConnected, pipeline, bounds, crashed>>

Cancelled == IF cycle \in {"writing", "reading"} THEN "failed" ELSE cycle

\* Mutant of TimeoutConnect: the attempts are cancelled, and that is all.
TimeoutGivesUp(e) ==
  /\ ConnectWait(e) \in due
  /\ due' = due \ {ConnectWait(e)}
  /\ attempts' = Nowhere /\ aborted' = Both(attempts, aborted)
  /\ cycle' = Cancelled
  /\ UNCHANGED <<resolving, socket, timer, isConnected, busy, out, tmp, bounds, crashed>>

\* timeout_connect(): socket::cancel() throws when the socket is closed.
TimeoutConnect(e) ==
  /\ ConnectWait(e) \in due
  /\ due' = due \ {ConnectWait(e)}
  /\ IF socket = "closed"
       THEN /\ crashed' = TRUE
            /\ UNCHANGED <<attempts, aborted, socket, timer, cycle>>
       ELSE /\ IF ConnectTimeout
                 THEN ConnectTo(e, Nowhere, Both(attempts, aborted))
                 ELSE /\ attempts' = Nowhere /\ aborted' = Both(attempts, aborted)
                      /\ UNCHANGED <<socket, timer>>
            /\ cycle' = Cancelled
            /\ UNCHANGED crashed
  /\ UNCHANGED <<resolving, isConnected, busy, out, tmp, bounds>>

\* Mutant of TimeoutPing: the connection is closed instead of tried.
TimeoutPingCloses ==
  /\ PingWait \in due
  /\ due' = due \ {PingWait}
  /\ isConnected' = FALSE
  /\ timer' = Off
  /\ socket' = "closed"
  /\ tmp' = <<>> /\ busy' = FALSE /\ cycle' = "none"
  /\ resolving' = resolving + 1
  /\ UNCHANGED <<attempts, aborted, out, bounds, crashed>>

\* timeout_ping(): ping(), whose callback does nothing when it is told false.
TimeoutPing ==
  /\ PingWait \in due
  /\ due' = due \ {PingWait}
  /\ IF isConnected THEN Write(Append(out, "ping"), socket) ELSE UNCHANGED pipeline
  /\ UNCHANGED <<wires, timer, isConnected, bounds, crashed>>

-----------------------------------------------------------------------------
(* Requests and replies *)

\* publish() while connected; otherwise it calls back and changes nothing.
Publish ==
  /\ isConnected /\ published < MaxPublishes
  /\ published' = published + 1
  /\ Write(Append(out, "publish"), socket)
  /\ UNCHANGED <<wires, timers, isConnected, faults, crashed>>

HandleWrite ==
  /\ cycle = "writing"
  /\ cycle' = IF socket = "up" THEN "reading" ELSE "failed"
  /\ UNCHANGED <<wires, timers, isConnected, busy, out, tmp, bounds, crashed>>

\* The replies to the first k requests have come: their callbacks are called, that of
\* a ping sets the timer.
ReadReplies(k) ==
  /\ timer' = IF \E i \in 1..k : tmp[i] = "ping" THEN AfterPong ELSE timer
  /\ \/ /\ k < Len(tmp)                       \* read() again
        /\ tmp' = SubSeq(tmp, k + 1, Len(tmp))
        /\ UNCHANGED <<busy, cycle, out>>
     \/ /\ k = Len(tmp) /\ out = <<>>          \* the cycle ends
        /\ tmp' = <<>> /\ busy' = FALSE /\ cycle' = "none"
        /\ UNCHANGED out
     \/ /\ k = Len(tmp) /\ out # <<>>          \* write(true)
        /\ out' = <<>> /\ tmp' = out
        /\ cycle' = IF socket = "up" THEN "writing" ELSE "failed"
        /\ UNCHANGED busy

HandleRead ==
  /\ cycle = "reading"
  /\ \E k \in 1..Len(tmp) : ReadReplies(k)
  /\ UNCHANGED <<wires, due, isConnected, bounds, crashed>>

\* Mutant of Reconnect: drop() is not called.
ReconnectNoDrop ==
  /\ isConnected' = FALSE
  /\ timer' = Off
  /\ socket' = "closed"
  /\ attempts' = Nowhere /\ aborted' = Both(attempts, aborted)
  /\ resolving' = resolving + 1
  /\ UNCHANGED <<due, busy, cycle, out, tmp, published, crashed>>

\* reconnect(): close(), drop() and connect(host_, port_).
Reconnect ==
  /\ isConnected' = FALSE
  /\ timer' = Off
  /\ socket' = "closed"
  /\ attempts' = Nowhere /\ aborted' = Both(attempts, aborted)
  /\ tmp' = <<>> /\ busy' = FALSE /\ cycle' = "none"
  /\ resolving' = resolving + 1
  /\ UNCHANGED <<due, out, published, crashed>>

\* handle_read() with a reply it cannot handle.
HandleReadUnknown ==
  /\ cycle = "reading" /\ faults < MaxFaults
  /\ faults' = faults + 1
  /\ Reconnect

\* handle_write() or handle_read() with an error.
HandleFailed ==
  /\ cycle = "failed"
  /\ UNCHANGED faults
  /\ Reconnect

\* The peer or the network ends the connection; an operation under way fails, an
\* idle connection does not notice.
LoseConnection ==
  /\ socket = "up" /\ faults < MaxFaults
  /\ socket' = "open"
  /\ faults' = faults + 1
  /\ cycle' = Cancelled
  /\ UNCHANGED <<resolving, attempts, aborted, timers, isConnected, busy, out, tmp,
                 published, crashed>>

-----------------------------------------------------------------------------
Handlers ==
  \/ HandleResolve \/ HandleResolveFailed
  \/ \E e \in 1..Endpoints : \/ HandleConnect(e) \/ HandleConnectAborted(e)
                             \/ HandleConnectRefused(e) \/ TimeoutConnect(e)
  \/ TimeoutPing
  \/ HandleWrite \/ HandleRead \/ HandleReadUnknown \/ HandleFailed

Next == \/ ~crashed /\ (Handlers \/ Expire \/ Publish \/ LoseConnection)
        \/ crashed /\ UNCHANGED vars

Spec == Init /\ [][Next]_vars

\* Due handlers run, waits expire, the server replies, and an attempt that is made
\* again and again succeeds once.
Fairness ==
  /\ WF_vars(~crashed /\ HandleResolve)
  /\ \A e \in 1..Endpoints :
       /\ SF_vars(~crashed /\ HandleConnect(e))
       /\ WF_vars(~crashed /\ (HandleConnectAborted(e) \/ TimeoutConnect(e)))
  /\ WF_vars(~crashed /\ TimeoutPing)
  /\ WF_vars(~crashed /\ Expire)
  /\ WF_vars(~crashed /\ (HandleWrite \/ HandleRead \/ HandleFailed))

FairSpec == Spec /\ Fairness

-----------------------------------------------------------------------------
(* A cycle runs only between handle_connect() and close(), and it runs       *)
(* exactly while out_tmp_buf_ has callbacks.                                 *)
BusyWhileConnected ==
  /\ busy => isConnected /\ tmp # <<>> /\ cycle # "none"
  /\ ~busy => tmp = <<>> /\ cycle = "none"

(* While there is no connection one is under way: an address is looked up,   *)
(* an attempt is made, or the timer will make the next one.  A failed        *)
(* attempt at the last endpoint only writes a message and leaves it to the   *)
(* timer, which every connect, pong and close sets anew or cancels.          *)
RetryPending ==
  ~isConnected /\ ~crashed /\ ConnectTimeout =>
     \/ resolving > 0
     \/ \E e \in 1..Endpoints : \/ attempts[e] > 0
                                \/ ConnectWait(e) \in due \cup {timer}

(* Only the timer finds out that an idle connection has died, so while there *)
(* is a connection a wait is pending or its handler is due, or a ping is on  *)
(* its way whose answer sets the timer anew.                                 *)
Watched ==
  isConnected /\ ConnectTimeout /\ PingTimeout =>
     \/ timer # Off \/ due # {}
     \/ \E i \in 1..Len(out) : out[i] = "ping"
     \/ \E i \in 1..Len(tmp) : tmp[i] = "ping"

(* A connection that is lost is established again, however the endpoints,    *)
(* the timer and late handlers interleave.                                   *)
Reconnects == []<>(isConnected \/ crashed)

(* Once the faults are over the connection stays.                            *)
Settles == <>[](isConnected \/ crashed)
==============================================================================
