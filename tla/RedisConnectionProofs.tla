------------------------ MODULE RedisConnectionProofs ------------------------
(***************************************************************************)
(* Theorems about RedisConnection, for any number of endpoints, requests   *)
(* and faults, with and without the two timeouts.                          *)
(***************************************************************************)
EXTENDS RedisConnection, SequenceTheorems, TLAPS

-----------------------------------------------------------------------------
(* Types *)

Waits == {Off, PingWait} \cup {ConnectWait(e) : e \in 1..Endpoints}
Calls == [1..Endpoints -> Nat]
Callbacks == Seq({"ping", "publish"})

Types ==
  /\ resolving \in Nat /\ attempts \in Calls /\ aborted \in Calls
  /\ socket \in {"closed", "open", "up"}
  /\ timer \in Waits /\ due \subseteq Waits
  /\ cycle \in {"none", "writing", "reading", "failed"}
  /\ out \in Callbacks /\ tmp \in Callbacks

LEMMA Counted ==
  ASSUME NEW f \in Calls, NEW g \in Calls, NEW e \in 1..Endpoints
  PROVE  /\ Plus(f, e) \in Calls /\ (f[e] > 0 => Minus(f, e) \in Calls)
         /\ Both(f, g) \in Calls /\ Nowhere \in Calls
  BY DEF Calls, Plus, Minus, Both, Nowhere

LEMMA AppendNotEmpty ==
  ASSUME NEW b \in Callbacks, NEW c \in {"ping", "publish"}
  PROVE  /\ Append(b, c) # <<>> /\ Append(b, c) \in Callbacks
         /\ Len(b) \in Nat /\ Len(Append(b, c)) = Len(b) + 1
         /\ Append(b, c)[Len(b) + 1] = c
         /\ \A i \in 1..Len(b) : Append(b, c)[i] = b[i]
  BY AppendProperties, LenProperties DEF Callbacks

LEMMA InitTypes == Init => Types
<1> SUFFICES ASSUME Init PROVE Types
  OBVIOUS
<1>1. out \in Callbacks /\ tmp \in Callbacks
  BY EmptySeq DEF Init, Callbacks
<1>2. attempts \in Calls /\ aborted \in Calls
  BY DEF Init, Calls, Nowhere
<1> QED
  BY <1>1, <1>2 DEF Init, Types, Waits

\* An attempt is made: one more is counted, and the timer waits for it.
LEMMA ConnectToTypes ==
  ASSUME NEW e \in 1..Endpoints, NEW live \in Calls, NEW failed \in Calls,
         ConnectTo(e, live, failed), Types
  PROVE  /\ attempts' \in Calls /\ aborted' \in Calls
         /\ timer' \in Waits /\ socket' \in {"closed", "open", "up"}
<1>1. Plus(live, e) \in Calls /\ Plus(failed, e) \in Calls
  BY Counted
<1> QED
  BY <1>1 DEF ConnectTo, Types, Waits

LEMMA NextEndpointTypes ==
  ASSUME NEW e \in 1..Endpoints, NEW live \in Calls, NEW failed \in Calls,
         NextEndpoint(e, live, failed), Types
  PROVE  /\ attempts' \in Calls /\ aborted' \in Calls
         /\ timer' \in Waits /\ socket' \in {"closed", "open", "up"}
<1>1. CASE e < Endpoints
  <2>1. e + 1 \in 1..Endpoints /\ ConnectTo(e + 1, live, failed)
    BY <1>1, ConnectionAssumption DEF NextEndpoint
  <2> QED
    BY <2>1, ConnectToTypes
<1>2. CASE ~(e < Endpoints)
  BY <1>2 DEF NextEndpoint, Types
<1> QED
  BY <1>1, <1>2

\* What is written was in out_buf_, what is not is left there.
LEMMA WriteTypes ==
  ASSUME NEW q \in Callbacks, NEW s, Write(q, s), Types
  PROVE  /\ out' \in Callbacks /\ tmp' \in Callbacks
         /\ cycle' \in {"none", "writing", "reading", "failed"}
  BY DEF Write, Types

\* The requests that are still to be answered.
LEMMA RestOfReplies ==
  ASSUME NEW b \in Callbacks, NEW k \in 1..Len(b)
  PROVE  LET rest == SubSeq(b, k + 1, Len(b))
         IN  /\ rest \in Callbacks /\ Len(b) \in Nat
             /\ Len(rest) = Len(b) - k
             /\ k < Len(b) => rest # <<>>
             /\ \A i \in 1..Len(b) - k : rest[i] = b[k + i]
<1> DEFINE rest == SubSeq(b, k + 1, Len(b))
<1>1. Len(b) \in Nat /\ \A i \in 1..Len(b) : b[i] \in {"ping", "publish"}
  BY LenProperties, ElementOfSeq DEF Callbacks
<1>2. rest \in Callbacks /\ Len(rest) = Len(b) - k
  BY <1>1, SubSeqProperties DEF Callbacks
<1>3. \A i \in 1..Len(b) - k : rest[i] = b[k + i]
  <2>1. \A i \in 1..Len(b) - (k + 1) + 1 : rest[i] = b[(k + 1) + i - 1]
    BY <1>1, SubSeqProperties
  <2>2. \A i \in 1..Len(b) - k : i \in 1..Len(b) - (k + 1) + 1 /\ (k + 1) + i - 1 = k + i
    BY <1>1
  <2> QED
    BY <2>1, <2>2
<1>4. k < Len(b) => rest # <<>>
  <2>1. Len(<<>>) = 0
    OBVIOUS
  <2>2. k < Len(b) => Len(rest) # 0
    BY <1>1, <1>2
  <2> HIDE DEF rest
  <2> QED
    BY <2>1, <2>2
<1> QED
  BY <1>1, <1>2, <1>3, <1>4

LEMMA NextTypes == Types /\ [Next]_vars => Types'
<1> SUFFICES ASSUME Types, [Next]_vars PROVE Types'
  OBVIOUS
<1> USE DEF wires, timers, pipeline, bounds
<1>1. ASSUME HandleResolve PROVE Types'
  <2>1. ConnectTo(1, attempts, aborted) /\ 1 \in 1..Endpoints
    BY <1>1, ConnectionAssumption DEF HandleResolve
  <2>2. /\ attempts' \in Calls /\ aborted' \in Calls
        /\ timer' \in Waits /\ socket' \in {"closed", "open", "up"}
    BY <2>1, ConnectToTypes DEF Types
  <2> QED
    BY <1>1, <2>2 DEF HandleResolve, Types
<1>2. ASSUME HandleResolveFailed PROVE Types'
  BY <1>2 DEF HandleResolveFailed, Types
<1>3. ASSUME NEW e \in 1..Endpoints, HandleConnect(e) PROVE Types'
  <2>1. attempts' \in Calls
    BY <1>3, Counted DEF HandleConnect, Types
  <2>2. /\ out' \in Callbacks /\ tmp' \in Callbacks
        /\ cycle' \in {"none", "writing", "reading", "failed"}
    BY <1>3, WriteTypes DEF HandleConnect, Types
  <2>3. timer' \in Waits
    BY <1>3 DEF HandleConnect, AfterPong, Waits
  <2> QED
    BY <1>3, <2>1, <2>2, <2>3 DEF HandleConnect, Types
<1>4. ASSUME NEW e \in 1..Endpoints, HandleConnectAborted(e) PROVE Types'
  <2>1. NextEndpoint(e, attempts, Minus(aborted, e)) /\ Minus(aborted, e) \in Calls
    BY <1>4, Counted DEF HandleConnectAborted, Types
  <2>2. /\ attempts' \in Calls /\ aborted' \in Calls
        /\ timer' \in Waits /\ socket' \in {"closed", "open", "up"}
    BY <2>1, NextEndpointTypes DEF Types
  <2> QED
    BY <1>4, <2>2 DEF HandleConnectAborted, Types
<1>5. ASSUME NEW e \in 1..Endpoints, HandleConnectRefused(e) PROVE Types'
  <2>1. NextEndpoint(e, Minus(attempts, e), aborted) /\ Minus(attempts, e) \in Calls
    BY <1>5, Counted DEF HandleConnectRefused, Types
  <2>2. /\ attempts' \in Calls /\ aborted' \in Calls
        /\ timer' \in Waits /\ socket' \in {"closed", "open", "up"}
    BY <2>1, NextEndpointTypes DEF Types
  <2> QED
    BY <1>5, <2>2 DEF HandleConnectRefused, Types
<1>6. ASSUME NEW e \in 1..Endpoints, TimeoutConnect(e) PROVE Types'
  <2>1. Nowhere \in Calls /\ Both(attempts, aborted) \in Calls
    BY Counted DEF Types
  <2>2. CASE socket # "closed" /\ ConnectTimeout
    <3>1. ConnectTo(e, Nowhere, Both(attempts, aborted)) /\ cycle' = Cancelled
      BY <1>6, <2>2 DEF TimeoutConnect
    <3>2. /\ attempts' \in Calls /\ aborted' \in Calls
          /\ timer' \in Waits /\ socket' \in {"closed", "open", "up"}
      BY <2>1, <3>1, ConnectToTypes
    <3>3. UNCHANGED <<resolving, out, tmp>> /\ due' \subseteq due
      BY <1>6 DEF TimeoutConnect
    <3> QED
      BY <3>1, <3>2, <3>3 DEF Types, Cancelled
  <2>3. CASE socket = "closed" \/ ~ConnectTimeout
    BY <1>6, <2>1, <2>3 DEF TimeoutConnect, Types, Cancelled
  <2> QED
    BY <2>2, <2>3, ConnectionAssumption
<1>7. ASSUME TimeoutPing PROVE Types'
  <2>1. Append(out, "ping") \in Callbacks
    BY AppendProperties DEF Types, Callbacks
  <2>2. /\ out' \in Callbacks /\ tmp' \in Callbacks
        /\ cycle' \in {"none", "writing", "reading", "failed"}
    BY <1>7, <2>1, WriteTypes DEF TimeoutPing, Types
  <2> QED
    BY <1>7, <2>2 DEF TimeoutPing, Types
<1>8. ASSUME HandleWrite PROVE Types'
  BY <1>8 DEF HandleWrite, Types
<1>9. ASSUME HandleRead PROVE Types'
  <2>1. PICK k \in 1..Len(tmp) : ReadReplies(k)
    BY <1>9 DEF HandleRead
  <2>2. Len(tmp) \in Nat /\ SubSeq(tmp, k + 1, Len(tmp)) \in Callbacks /\ <<>> \in Callbacks
    BY LenProperties, RestOfReplies, EmptySeq DEF Types, Callbacks
  <2>3. /\ tmp' \in Callbacks /\ out' \in Callbacks
        /\ cycle' \in {"none", "writing", "reading", "failed"}
    BY <2>1, <2>2 DEF ReadReplies, Types
  <2>4. timer' \in Waits
    BY <2>1 DEF ReadReplies, Types, AfterPong, Waits
  <2> QED
    BY <1>9, <2>3, <2>4 DEF HandleRead, Types
<1>10. ASSUME HandleReadUnknown PROVE Types'
  <2>1. attempts' \in Calls /\ aborted' \in Calls
    BY <1>10, ConnectionAssumption, Counted DEF HandleReadUnknown, Reconnect, Types
  <2>2. tmp' \in Callbacks
    BY <1>10, EmptySeq DEF HandleReadUnknown, Reconnect, Callbacks
  <2> QED
    BY <1>10, <2>1, <2>2 DEF HandleReadUnknown, Reconnect, Types, Waits
<1>11. ASSUME HandleFailed PROVE Types'
  <2>1. attempts' \in Calls /\ aborted' \in Calls
    BY <1>11, ConnectionAssumption, Counted DEF HandleFailed, Reconnect, Types
  <2>2. tmp' \in Callbacks
    BY <1>11, EmptySeq DEF HandleFailed, Reconnect, Callbacks
  <2> QED
    BY <1>11, <2>1, <2>2 DEF HandleFailed, Reconnect, Types, Waits
<1>12. ASSUME Expire PROVE Types'
  BY <1>12 DEF Expire, Types, Waits
<1>13. ASSUME Publish PROVE Types'
  <2>1. Append(out, "publish") \in Callbacks
    BY AppendProperties DEF Types, Callbacks
  <2>2. /\ out' \in Callbacks /\ tmp' \in Callbacks
        /\ cycle' \in {"none", "writing", "reading", "failed"}
    BY <1>13, <2>1, WriteTypes DEF Publish, Types
  <2> QED
    BY <1>13, <2>2 DEF Publish, Types
<1>14. ASSUME LoseConnection PROVE Types'
  BY <1>14 DEF LoseConnection, Cancelled, Types
<1>15. ASSUME UNCHANGED vars PROVE Types'
  BY <1>15 DEF vars, Types
<1> QED
  BY <1>1, <1>2, <1>3, <1>4, <1>5, <1>6, <1>7, <1>8, <1>9, <1>10, <1>11, <1>12,
     <1>13, <1>14, <1>15
  DEF Next, Handlers

-----------------------------------------------------------------------------
(* The write/read cycle *)

LEMMA InitBusy == Init => BusyWhileConnected
  BY DEF Init, BusyWhileConnected

\* There is something to write, and the cycle begins or goes on.
LEMMA WriteBusy ==
  ASSUME NEW q, NEW s, q # <<>>, Write(q, s), isConnected', BusyWhileConnected
  PROVE  BusyWhileConnected'
  BY DEF Write, BusyWhileConnected

LEMMA NextBusy == Types /\ BusyWhileConnected /\ [Next]_vars => BusyWhileConnected'
<1> SUFFICES ASSUME Types, BusyWhileConnected, [Next]_vars PROVE BusyWhileConnected'
  OBVIOUS
<1> USE DEF wires, timers, pipeline, bounds
<1>1. ASSUME HandleResolve PROVE BusyWhileConnected'
  BY <1>1 DEF HandleResolve, BusyWhileConnected
<1>2. ASSUME HandleResolveFailed PROVE BusyWhileConnected'
  BY <1>2 DEF HandleResolveFailed, BusyWhileConnected
<1>3. ASSUME NEW e \in 1..Endpoints, HandleConnect(e) PROVE BusyWhileConnected'
  <2>1. CASE out = <<>>
    BY <1>3, <2>1 DEF HandleConnect, BusyWhileConnected
  <2>2. CASE out # <<>>
    BY <1>3, <2>2, WriteBusy DEF HandleConnect
  <2> QED
    BY <2>1, <2>2
<1>4. ASSUME NEW e \in 1..Endpoints, HandleConnectAborted(e) PROVE BusyWhileConnected'
  BY <1>4 DEF HandleConnectAborted, BusyWhileConnected
<1>5. ASSUME NEW e \in 1..Endpoints, HandleConnectRefused(e) PROVE BusyWhileConnected'
  BY <1>5 DEF HandleConnectRefused, BusyWhileConnected
<1>6. ASSUME NEW e \in 1..Endpoints, TimeoutConnect(e) PROVE BusyWhileConnected'
  BY <1>6 DEF TimeoutConnect, Cancelled, BusyWhileConnected
<1>7. ASSUME TimeoutPing PROVE BusyWhileConnected'
  <2>1. Append(out, "ping") # <<>>
    BY AppendNotEmpty DEF Types
  <2>2. CASE isConnected
    BY <1>7, <2>1, <2>2, WriteBusy DEF TimeoutPing
  <2>3. CASE ~isConnected
    BY <1>7, <2>3 DEF TimeoutPing, BusyWhileConnected
  <2> QED
    BY <2>2, <2>3
<1>8. ASSUME HandleWrite PROVE BusyWhileConnected'
  BY <1>8 DEF HandleWrite, BusyWhileConnected
<1>9. ASSUME HandleRead PROVE BusyWhileConnected'
  <2>1. busy /\ isConnected /\ UNCHANGED isConnected
    BY <1>9 DEF HandleRead, BusyWhileConnected
  <2>2. PICK k \in 1..Len(tmp) : ReadReplies(k)
    BY <1>9 DEF HandleRead
  <2>3. k < Len(tmp) => SubSeq(tmp, k + 1, Len(tmp)) # <<>>
    BY RestOfReplies DEF Types
  <2> QED
    BY <2>1, <2>2, <2>3 DEF ReadReplies, BusyWhileConnected
<1>10. ASSUME HandleReadUnknown PROVE BusyWhileConnected'
  BY <1>10 DEF HandleReadUnknown, Reconnect, BusyWhileConnected
<1>11. ASSUME HandleFailed PROVE BusyWhileConnected'
  BY <1>11 DEF HandleFailed, Reconnect, BusyWhileConnected
<1>12. ASSUME Expire PROVE BusyWhileConnected'
  BY <1>12 DEF Expire, BusyWhileConnected
<1>13. ASSUME Publish PROVE BusyWhileConnected'
  <2>1. Append(out, "publish") # <<>>
    BY AppendNotEmpty DEF Types
  <2> QED
    BY <1>13, <2>1, WriteBusy DEF Publish
<1>14. ASSUME LoseConnection PROVE BusyWhileConnected'
  BY <1>14 DEF LoseConnection, Cancelled, BusyWhileConnected
<1>15. ASSUME UNCHANGED vars PROVE BusyWhileConnected'
  BY <1>15 DEF vars, BusyWhileConnected
<1> QED
  BY <1>1, <1>2, <1>3, <1>4, <1>5, <1>6, <1>7, <1>8, <1>9, <1>10, <1>11, <1>12,
     <1>13, <1>14, <1>15
  DEF Next, Handlers

(* A cycle runs only while there is a connection, and exactly while          *)
(* out_tmp_buf_ has callbacks, in whatever order late handlers come.         *)
THEOREM CycleOfConnection == Spec => []BusyWhileConnected
  BY InitTypes, NextTypes, InitBusy, NextBusy, PTL DEF Spec

-----------------------------------------------------------------------------
(* Connecting again *)

\* An attempt at an endpoint comes with a wait of the timer, which outlives it: only
\* a connection or a new lookup takes the timer away.
RetryInv ==
  ~isConnected /\ ~crashed /\ ConnectTimeout =>
     \/ resolving > 0
     \/ \E e \in 1..Endpoints : ConnectWait(e) \in due \cup {timer}

LEMMA InitRetry == Init => RetryInv
  BY DEF Init, RetryInv

\* connect() leaves a retry pending.
LEMMA ConnectToRetries ==
  ASSUME NEW e \in 1..Endpoints, NEW live, NEW failed, ConnectTo(e, live, failed)
  PROVE  RetryInv'
  BY DEF ConnectTo, RetryInv

\* So does the next endpoint, or the end of the list.
LEMMA NextEndpointRetries ==
  ASSUME NEW e \in 1..Endpoints, NEW live, NEW failed, NextEndpoint(e, live, failed), RetryInv,
         UNCHANGED <<resolving, due, isConnected, crashed>>
  PROVE  RetryInv'
<1>1. CASE e < Endpoints
  <2>1. e + 1 \in 1..Endpoints /\ ConnectTo(e + 1, live, failed)
    BY <1>1, ConnectionAssumption DEF NextEndpoint
  <2> QED
    BY <2>1, ConnectToRetries
<1>2. CASE ~(e < Endpoints)
  BY <1>2 DEF NextEndpoint, RetryInv
<1> QED
  BY <1>1, <1>2

LEMMA NextRetry == Types /\ BusyWhileConnected /\ RetryInv /\ [Next]_vars => RetryInv'
<1> SUFFICES ASSUME Types, BusyWhileConnected, RetryInv, [Next]_vars PROVE RetryInv'
  OBVIOUS
<1> USE DEF wires, timers, pipeline, bounds
<1>1. ASSUME HandleResolve PROVE RetryInv'
  <2>1. ConnectTo(1, attempts, aborted) /\ 1 \in 1..Endpoints
    BY <1>1, ConnectionAssumption DEF HandleResolve
  <2> QED
    BY <2>1, ConnectToRetries
<1>2. ASSUME HandleResolveFailed PROVE RetryInv'
  BY <1>2 DEF HandleResolveFailed, RetryInv
<1>3. ASSUME NEW e \in 1..Endpoints, HandleConnect(e) PROVE RetryInv'
  BY <1>3 DEF HandleConnect, RetryInv
<1>4. ASSUME NEW e \in 1..Endpoints, HandleConnectAborted(e) PROVE RetryInv'
  BY <1>4, NextEndpointRetries DEF HandleConnectAborted
<1>5. ASSUME NEW e \in 1..Endpoints, HandleConnectRefused(e) PROVE RetryInv'
  BY <1>5, NextEndpointRetries DEF HandleConnectRefused
<1>6. ASSUME NEW e \in 1..Endpoints, TimeoutConnect(e) PROVE RetryInv'
  <2>1. CASE socket = "closed"
    BY <1>6, <2>1 DEF TimeoutConnect, RetryInv
  <2>2. CASE socket # "closed" /\ ConnectTimeout
    <3>1. ConnectTo(e, Nowhere, Both(attempts, aborted))
      BY <1>6, <2>2 DEF TimeoutConnect
    <3> QED
      BY <3>1, ConnectToRetries
  <2>3. CASE ~ConnectTimeout
    BY <2>3 DEF RetryInv
  <2> QED
    BY <2>1, <2>2, <2>3, ConnectionAssumption
<1>7. ASSUME TimeoutPing PROVE RetryInv'
  <2>1. \A e \in 1..Endpoints : ConnectWait(e) # PingWait
    BY DEF ConnectWait, PingWait
  <2> QED
    BY <1>7, <2>1 DEF TimeoutPing, RetryInv
<1>8. ASSUME HandleWrite PROVE RetryInv'
  BY <1>8 DEF HandleWrite, RetryInv
<1>9. ASSUME HandleRead PROVE RetryInv'
  <2>1. isConnected /\ isConnected' = isConnected
    BY <1>9 DEF HandleRead, BusyWhileConnected
  <2> QED
    BY <2>1 DEF RetryInv
<1>10. ASSUME HandleReadUnknown PROVE RetryInv'
  BY <1>10 DEF HandleReadUnknown, Reconnect, Types, RetryInv
<1>11. ASSUME HandleFailed PROVE RetryInv'
  BY <1>11 DEF HandleFailed, Reconnect, Types, RetryInv
<1>12. ASSUME Expire PROVE RetryInv'
  BY <1>12 DEF Expire, RetryInv, ConnectWait, Off
<1>13. ASSUME Publish PROVE RetryInv'
  BY <1>13 DEF Publish, RetryInv
<1>14. ASSUME LoseConnection PROVE RetryInv'
  BY <1>14 DEF LoseConnection, RetryInv
<1>15. ASSUME UNCHANGED vars PROVE RetryInv'
  BY <1>15 DEF vars, RetryInv
<1> QED
  BY <1>1, <1>2, <1>3, <1>4, <1>5, <1>6, <1>7, <1>8, <1>9, <1>10, <1>11, <1>12,
     <1>13, <1>14, <1>15
  DEF Next, Handlers

(* While there is no connection one is under way, for any number of endpoints*)
(* and however their attempts fail, are cancelled and come late.             *)
THEOREM RetryIsPending == Spec => []RetryPending
<1>1. RetryInv => RetryPending
  BY DEF RetryInv, RetryPending
<1> QED
  BY <1>1, InitTypes, NextTypes, InitBusy, NextBusy, InitRetry, NextRetry, PTL DEF Spec

-----------------------------------------------------------------------------
(* Pinging *)

\* Behind a wait for a connection that is there, or a ping, comes the next wait: the
\* socket of a connection is not closed, so timeout_connect() sets the timer again.
WatchInv == Watched /\ (isConnected => socket # "closed")

LEMMA InitWatch == Init => WatchInv
  BY DEF Init, WatchInv, Watched

\* The timer is not switched off.
LEMMA NeverOff ==
  /\ PingWait # Off
  /\ \A e \in 1..Endpoints : ConnectWait(e) # Off /\ ConnectWait(e) # PingWait
  BY DEF Off, PingWait, ConnectWait

\* A ping that was asked for is still there when a request was written behind it.
LEMMA WritePings ==
  ASSUME Types, BusyWhileConnected, NEW c \in {"ping", "publish"}, NEW s,
         Write(Append(out, c), s),
         \/ c = "ping"
         \/ \E i \in 1..Len(out) : out[i] = "ping"
         \/ \E i \in 1..Len(tmp) : tmp[i] = "ping"
  PROVE  \/ \E i \in 1..Len(out') : out'[i] = "ping"
         \/ \E i \in 1..Len(tmp') : tmp'[i] = "ping"
<1> DEFINE q == Append(out, c)
<1>1. \/ \E i \in 1..Len(q) : q[i] = "ping"
      \/ busy /\ \E i \in 1..Len(tmp) : tmp[i] = "ping"
  <2>1. /\ Len(out) \in Nat /\ Len(q) = Len(out) + 1 /\ q[Len(out) + 1] = c
        /\ \A i \in 1..Len(out) : q[i] = out[i]
    BY AppendNotEmpty DEF Types
  <2>2. Len(out) + 1 \in 1..Len(q) /\ \A i \in 1..Len(out) : i \in 1..Len(q)
    BY <2>1
  <2>3. ~busy => Len(tmp) = 0
    BY DEF BusyWhileConnected
  <2> QED
    BY <2>1, <2>2, <2>3
<1> HIDE DEF q
<1>2. CASE busy
  BY <1>1, <1>2 DEF Write, q
<1>3. CASE ~busy
  BY <1>1, <1>3 DEF Write, q
<1> QED
  BY <1>2, <1>3

LEMMA NextWatch == Types /\ BusyWhileConnected /\ WatchInv /\ [Next]_vars => WatchInv'
<1> SUFFICES ASSUME Types, BusyWhileConnected, WatchInv, [Next]_vars PROVE WatchInv'
  OBVIOUS
<1> USE DEF wires, timers, pipeline, bounds
<1>1. ASSUME HandleResolve PROVE WatchInv'
  BY <1>1, NeverOff, ConnectionAssumption DEF HandleResolve, ConnectTo, Types, WatchInv, Watched
<1>2. ASSUME HandleResolveFailed PROVE WatchInv'
  BY <1>2 DEF HandleResolveFailed, WatchInv, Watched
<1>3. ASSUME NEW e \in 1..Endpoints, HandleConnect(e) PROVE WatchInv'
  BY <1>3, NeverOff DEF HandleConnect, AfterPong, WatchInv, Watched
<1>4. ASSUME NEW e \in 1..Endpoints, HandleConnectAborted(e) PROVE WatchInv'
  <2>1. socket # "closed" => socket' # "closed"
    BY <1>4 DEF HandleConnectAborted, NextEndpoint, ConnectTo
  <2>2. UNCHANGED timer \/ timer' # Off
    BY <1>4, NeverOff, ConnectionAssumption DEF HandleConnectAborted, NextEndpoint, ConnectTo
  <2>3. UNCHANGED <<due, isConnected, out, tmp>>
    BY <1>4 DEF HandleConnectAborted
  <2> QED
    BY <2>1, <2>2, <2>3 DEF WatchInv, Watched
<1>5. ASSUME NEW e \in 1..Endpoints, HandleConnectRefused(e) PROVE WatchInv'
  <2>1. socket # "closed" => socket' # "closed"
    BY <1>5 DEF HandleConnectRefused, NextEndpoint, ConnectTo
  <2>2. UNCHANGED timer \/ timer' # Off
    BY <1>5, NeverOff, ConnectionAssumption DEF HandleConnectRefused, NextEndpoint, ConnectTo
  <2>3. UNCHANGED <<due, isConnected, out, tmp>>
    BY <1>5 DEF HandleConnectRefused
  <2> QED
    BY <2>1, <2>2, <2>3 DEF WatchInv, Watched
<1>6. ASSUME NEW e \in 1..Endpoints, TimeoutConnect(e) PROVE WatchInv'
  <2>1. CASE ~isConnected
    BY <1>6, <2>1 DEF TimeoutConnect, WatchInv, Watched
  <2>2. CASE isConnected /\ ~ConnectTimeout
    BY <1>6, <2>2 DEF TimeoutConnect, WatchInv, Watched
  <2>3. CASE isConnected /\ ConnectTimeout
    <3>1. timer' # Off /\ socket' # "closed"
      BY <1>6, <2>3, NeverOff DEF TimeoutConnect, ConnectTo, WatchInv
    <3> QED
      BY <3>1 DEF WatchInv, Watched
  <2> QED
    BY <2>1, <2>2, <2>3, ConnectionAssumption
<1>7. ASSUME TimeoutPing PROVE WatchInv'
  <2>1. CASE ~isConnected
    BY <1>7, <2>1 DEF TimeoutPing, WatchInv, Watched
  <2>2. CASE isConnected
    <3>1. \/ \E i \in 1..Len(out') : out'[i] = "ping"
          \/ \E i \in 1..Len(tmp') : tmp'[i] = "ping"
      BY <1>7, <2>2, WritePings DEF TimeoutPing
    <3> QED
      BY <1>7, <3>1 DEF TimeoutPing, WatchInv, Watched
  <2> QED
    BY <2>1, <2>2
<1>8. ASSUME HandleWrite PROVE WatchInv'
  BY <1>8 DEF HandleWrite, WatchInv, Watched
<1>9. ASSUME HandleRead PROVE WatchInv'
  <2>1. PICK k \in 1..Len(tmp) : ReadReplies(k)
    BY <1>9 DEF HandleRead
  <2>2. UNCHANGED <<socket, due, isConnected>>
    BY <1>9 DEF HandleRead
  <2>3. CASE \E i \in 1..k : tmp[i] = "ping"
    BY <2>1, <2>2, <2>3, NeverOff DEF ReadReplies, AfterPong, WatchInv, Watched
  <2>4. CASE ~\E i \in 1..k : tmp[i] = "ping"
    <3>1. timer' = timer
      BY <2>1, <2>4 DEF ReadReplies
    <3>2. CASE k < Len(tmp)
      <4>1. tmp' = SubSeq(tmp, k + 1, Len(tmp)) /\ out' = out
        BY <2>1, <3>2 DEF ReadReplies
      <4>2. /\ Len(tmp) \in Nat /\ Len(tmp') = Len(tmp) - k
            /\ \A i \in 1..Len(tmp) - k : tmp'[i] = tmp[k + i]
        BY <4>1, RestOfReplies DEF Types
      <4>3. ASSUME NEW i \in 1..Len(tmp), tmp[i] = "ping"
            PROVE  \E j \in 1..Len(tmp') : tmp'[j] = "ping"
        <5>1. i - k \in 1..Len(tmp') /\ i = k + (i - k)
          BY <2>4, <4>2, <4>3
        <5>2. tmp'[i - k] = "ping"
          BY <4>2, <4>3, <5>1
        <5> QED
          BY <5>1, <5>2
      <4> QED
        BY <2>2, <3>1, <4>1, <4>3 DEF WatchInv, Watched
    <3>3. CASE k = Len(tmp)
      <4>1. (out = <<>> /\ UNCHANGED out) \/ tmp' = out
        BY <2>1, <3>3 DEF ReadReplies
      <4>2. ~\E i \in 1..Len(tmp) : tmp[i] = "ping"
        BY <2>4, <3>3
      <4> QED
        BY <2>2, <3>1, <4>1, <4>2 DEF WatchInv, Watched
    <3> QED
      BY <2>1, <3>2, <3>3 DEF ReadReplies
  <2> QED
    BY <2>3, <2>4
<1>10. ASSUME HandleReadUnknown PROVE WatchInv'
  BY <1>10 DEF HandleReadUnknown, Reconnect, WatchInv, Watched
<1>11. ASSUME HandleFailed PROVE WatchInv'
  BY <1>11 DEF HandleFailed, Reconnect, WatchInv, Watched
<1>12. ASSUME Expire PROVE WatchInv'
  BY <1>12 DEF Expire, WatchInv, Watched
<1>13. ASSUME Publish PROVE WatchInv'
  <2>1. UNCHANGED <<socket, timer, due, isConnected>>
    BY <1>13 DEF Publish
  <2>2. Write(Append(out, "publish"), socket)
    BY <1>13 DEF Publish
  <2> QED
    BY <2>1, <2>2, WritePings DEF WatchInv, Watched
<1>14. ASSUME LoseConnection PROVE WatchInv'
  BY <1>14 DEF LoseConnection, WatchInv, Watched
<1>15. ASSUME UNCHANGED vars PROVE WatchInv'
  BY <1>15 DEF vars, WatchInv, Watched
<1> QED
  BY <1>1, <1>2, <1>3, <1>4, <1>5, <1>6, <1>7, <1>8, <1>9, <1>10, <1>11, <1>12,
     <1>13, <1>14, <1>15
  DEF Next, Handlers

(* While there is a connection something will find out that it has died: a   *)
(* wait, a handler that is due, or a ping that is under way.                 *)
THEOREM ConnectionIsWatched == Spec => []Watched
<1>1. WatchInv => Watched
  BY DEF WatchInv
<1> QED
  BY <1>1, InitTypes, NextTypes, InitBusy, NextBusy, InitWatch, NextWatch, PTL DEF Spec
==============================================================================
