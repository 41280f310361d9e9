---------------------------- MODULE ListenerProofs ----------------------------
(***************************************************************************)
(* What core, tcp_server and connection keep true for any number of ports, *)
(* workers and clients, with stop() at any time.  The argument is that the *)
(* chain of handlers of a port is in one place at a time (Chains), that    *)
(* the connection object it works on is its own (Counted, Objects), that a *)
(* session has one read (Reading) and that a chain ends for a reason       *)
(* (Served).                                                               *)
(***************************************************************************)
EXTENDS Listener, FiniteSetTheorems, WellFoundedInduction, TLAPS

\* The values of the variables; Counted bounds the number of connection objects.
Types ==
  /\ making \in Ports \cup {None} /\ step \in {"push", "create", "accept"}
  /\ listeners \subseteq Ports /\ broken \subseteq Ports /\ toCancel \subseteq Ports
  /\ accept \in [Ports -> {"none", "pending", "ok", "aborted", "failed"}]
  /\ made \in Nat /\ newConnection \in [Ports -> 0..made]
  /\ pc \in [Threads -> {"unborn", "idle", "connect", "create", "accept", "gone"}]
  /\ at \in [Threads -> Ports \cup {None}]
  /\ \A t \in Threads : pc[t] \in {"connect", "create", "accept"} => at[t] \in Ports
  /\ port \in [Sessions -> Ports \cup {None}]
  /\ peer \in [Sessions -> {"none", "open", "closed"}]
  /\ reads \in [Sessions -> Nat] /\ writes \in [Sessions -> Nat]
  /\ pending \in [Sessions -> Nat] /\ sent \in [Sessions -> Nat]

\* The chain of a port is in one place: with the thread that makes the listener, with
\* the accept, or with one worker.
Chains ==
  /\ making # None => (making \in listeners <=> step # "push") /\ accept[making] = "none"
  /\ \A p \in Ports : accept[p] # "none" => p \in listeners
  /\ \A t \in Threads, p \in Ports : Handling(t, p) =>
       /\ accept[p] = "none" /\ making # p /\ p \in listeners
       /\ \A u \in Threads : Handling(u, p) => u = t

\* No connection object waits for a client at a port: there is none yet, or a client has
\* come to the one there is.  At the others one waits, or waited when the chain ended.
Vacant(p) ==
  \/ p \notin listeners
  \/ making = p /\ step # "accept"
  \/ accept[p] = "ok"
  \/ \E t \in Threads : Handling(t, p) /\ pc[t] # "accept"

Waiting == {p \in Ports : ~Vacant(p)}
Clients == {s \in Sessions : peer[s] # "none"}

\* Every connection object has a client, or waits at a port of its own.
Counted ==
  /\ Cardinality(Clients) <= MaxClients
  /\ made = Cardinality(Clients) + Cardinality(Waiting)

\* The object that new_connection_ of a port refers to, before and after an accept.
Unused(p) == newConnection[p] \in Sessions /\ peer[newConnection[p]] = "none"
Used(p) ==
  /\ newConnection[p] \in Sessions
  /\ peer[newConnection[p]] # "none" /\ port[newConnection[p]] = p

\* new_connection_ is the object that is accepted, and was not used before.
Objects ==
  /\ \A s \in Sessions : s > made => peer[s] = "none"
  /\ \A p, q \in Ports : newConnection[p] = newConnection[q] /\ p # q => newConnection[p] = None
  /\ \A p \in Ports :
       /\ accept[p] \in {"pending", "aborted", "failed"} => Unused(p)
       /\ accept[p] = "ok" => Used(p)
       /\ making = p /\ step = "accept" => Unused(p)
       /\ \A t \in Threads : at[t] = p =>
            /\ pc[t] = "accept" => Unused(p)
            /\ pc[t] \in {"connect", "create"} => Used(p)

\* The session of a client that was accepted and that on_connection() has not seen.
Starting(s) ==
  \E p \in Ports :
    /\ newConnection[p] = s
    /\ accept[p] = "ok" \/ \E t \in Threads : pc[t] = "connect" /\ at[t] = p

\* A session has nothing under way before it starts; then it has one read, or the write
\* of the echo translator.
Reads(s) ==
  /\ peer[s] = "none" \/ Starting(s) => reads[s] = 0 /\ writes[s] = 0 /\ pending[s] = 0
  /\ port[s] \in Echo => pending[s] = 0 /\ reads[s] + writes[s] <= 1
  /\ reads[s] <= 1
  /\ peer[s] = "open" /\ ~Starting(s) =>
       reads[s] + (IF port[s] \in Echo THEN writes[s] ELSE 0) = 1

Reading == \A s \in Sessions : Reads(s)

\* A chain has ended because of stop() or an error; workers come after all listeners.
Stopped == stop # "no" /\ ~early

Served ==
  /\ making # None => main = "listening"
  /\ listeners # {} => main \notin {"settings", "plugins"}
  /\ toCancel # {} => Stopped
  /\ \A t \in Threads : pc[t] # "unborn" => listeners = Ports /\ making = None
  /\ \A p \in Ports :
       /\ accept[p] = "aborted" => Stopped
       /\ accept[p] = "failed" => p \in broken
       /\ p \in listeners /\ making # p /\ accept[p] = "none" /\ (\A t \in Threads : ~Handling(t, p)) =>
            Stopped \/ p \in broken
  /\ ServesOn

-----------------------------------------------------------------------------
\* Ports are not 0, which stands for no port.
LEMMA NoneIsNoPort == None \notin Ports /\ \A p \in Ports : p # None
  BY ListenerAssumption DEF None

\* There is a first of the ports that have no listener yet.
LEMMA FirstIsThere ==
  ASSUME NEW S \in SUBSET Nat, S # {}
  PROVE  First(S) \in S
<1>1. PICK x \in S : \A y \in S : ~(<<y, x>> \in OpToRel(<, Nat))
  BY NatLessThanWellFounded, WFMin
<1>2. \A y \in S : ~(y < x)
  BY <1>1 DEF OpToRel
<1>3. \A y \in S : x <= y
  BY <1>2
<1> QED
  BY <1>3 DEF First

\* A server object makes its next connection.
LEMMA NewConnectionTypes ==
  ASSUME NEW p \in Ports, NewConnection(p), Types
  PROVE  made' \in Nat /\ newConnection' \in [Ports -> 0..made']
<1>1. CASE ioService
  <2>1. made' = made + 1 /\ newConnection' = [newConnection EXCEPT ![p] = made + 1]
    BY <1>1 DEF NewConnection
  <2>2. \A n \in 0..made : n \in 0..made'
    BY <2>1 DEF Types
  <2> QED
    BY <2>1 DEF Types
<1>2. CASE ~ioService
  BY <1>2 DEF NewConnection, Types
<1> QED
  BY <1>1, <1>2

chain == <<making, step, listeners, accept, newConnection, made, pc, at, port>>

\* The steps that leave the chains of the ports alone.
OffChain ==
  \/ LoadSettings \/ LoadPlugins \/ StartFails \/ StartThrows \/ StopReset \/ StopDone
  \/ \E t \in Threads, s \in Sessions : HandleRead(t, s) \/ HandleDue(t, s)
  \/ \E s \in Sessions : PeerCloses(s)
  \/ UNCHANGED vars

\* Among them are all the handlers of sessions.
LEMMA OffChainFrame == OffChain => UNCHANGED chain
<1> USE DEF chain, startup, server, worker, session, stopping
<1>1. ASSUME NEW t \in Threads, NEW s \in Sessions, HandleRead(t, s) \/ HandleDue(t, s)
      PROVE  UNCHANGED chain
  BY <1>1 DEF HandleRead, HandleDue, HandleReadEnd, HandleWrite, HandleProcessData
<1>2. ASSUME NEW s \in Sessions, PeerCloses(s) PROVE UNCHANGED chain
  BY <1>2 DEF PeerCloses
<1>3. CASE LoadSettings \/ LoadPlugins
  BY <1>3 DEF LoadSettings, LoadPlugins
<1>4. CASE StartFails \/ StartThrows
  BY <1>4 DEF StartFails, StartThrows
<1>5. CASE StopReset \/ StopDone
  BY <1>5 DEF StopReset, StopDone
<1>6. CASE UNCHANGED vars
  BY <1>6 DEF vars
<1> QED
  BY <1>1, <1>2, <1>3, <1>4, <1>5, <1>6 DEF OffChain

LEMMA NextTypes == Types /\ [Next]_vars => Types'
<1> SUFFICES ASSUME Types, [Next]_vars PROVE Types'
  OBVIOUS
<1> USE DEF startup, server, worker, session, stopping
<1>1. ASSUME LoadSettings PROVE Types'
  BY <1>1 DEF LoadSettings, Types
<1>2. ASSUME LoadPlugins PROVE Types'
  BY <1>2 DEF LoadPlugins, Types
<1>3. ASSUME StartFails PROVE Types'
  BY <1>3 DEF StartFails, Types
<1>4. ASSUME StartThrows PROVE Types'
  BY <1>4 DEF StartThrows, Types
<1>5. ASSUME PushListener PROVE Types'
  BY <1>5 DEF PushListener, Types
<1>6. ASSUME FirstConnection PROVE Types'
  <2>1. making \in Ports
    BY <1>6 DEF FirstConnection, Types
  <2>2. made' \in Nat /\ newConnection' \in [Ports -> 0..made']
    BY <1>6, <2>1, NewConnectionTypes DEF FirstConnection
  <2> QED
    BY <1>6, <2>2 DEF FirstConnection, Types
<1>7. ASSUME FirstAccept PROVE Types'
  BY <1>7 DEF FirstAccept, StartAccept, Types
<1>8. ASSUME NEW p \in Ports, MakeListener(p) PROVE Types'
  BY <1>8 DEF MakeListener, Types
<1>9. ASSUME NEW t \in Threads, StartWorker(t) PROVE Types'
  BY <1>9 DEF StartWorker, Types
<1>10. ASSUME StopReset PROVE Types'
  BY <1>10 DEF StopReset, Types
<1>11. ASSUME StopDone PROVE Types'
  BY <1>11 DEF StopDone, Types
<1>12. ASSUME NEW p \in Ports, Cancel(p) PROVE Types'
  BY <1>12 DEF Cancel, Types
<1>13. ASSUME NEW t \in Threads, Leave(t) PROVE Types'
  BY <1>13 DEF Leave, Types
<1>14. ASSUME NEW t \in Threads, OnConnection(t) PROVE Types'
  BY <1>14 DEF OnConnection, Types
<1>15. ASSUME NEW t \in Threads, Create(t) PROVE Types'
  <2>1. at[t] \in Ports
    BY <1>15 DEF Create, Types
  <2>2. made' \in Nat /\ newConnection' \in [Ports -> 0..made']
    BY <1>15, <2>1, NewConnectionTypes DEF Create
  <2> QED
    BY <1>15, <2>2 DEF Create, Types
<1>16. ASSUME NEW t \in Threads, Accept(t) PROVE Types'
  BY <1>16 DEF Accept, StartAccept, Types
<1>17. ASSUME NEW t \in Threads, NEW p \in Ports, TakeAccept(t, p) PROVE Types'
  BY <1>17 DEF TakeAccept, Types
<1>18. ASSUME NEW t \in Threads, NEW p \in Ports, AcceptEnds(t, p) PROVE Types'
  <2>1. newConnection' \in [Ports -> 0..made']
    BY <1>18 DEF AcceptEnds, Types, None
  <2> QED
    BY <1>18, <2>1 DEF AcceptEnds, Types
<1>19. ASSUME NEW t \in Threads, NEW s \in Sessions, HandleRead(t, s) PROVE Types'
  <2>1. sent' \in [Sessions -> Nat]
    BY <1>19 DEF HandleRead, Types
  <2>2. CASE EchoRead(s)
    <3>1. reads' \in [Sessions -> Nat] /\ writes' \in [Sessions -> Nat]
      BY <1>19, <2>2 DEF HandleRead, EchoRead, Types
    <3> QED
      BY <1>19, <2>2, <3>1 DEF HandleRead, EchoRead, Types
  <2>3. CASE WialonRead(s)
    <3>1. /\ writes' = writes \/ writes' = [writes EXCEPT ![s] = @ + 1]
          /\ pending' = pending \/ pending' = [pending EXCEPT ![s] = @ + 1]
      BY <2>3 DEF WialonRead
    <3>2. writes' \in [Sessions -> Nat]
      BY <3>1 DEF Types
    <3>3. pending' \in [Sessions -> Nat]
      BY <3>1 DEF Types
    <3> QED
      BY <1>19, <2>1, <2>3, <3>2, <3>3 DEF HandleRead, WialonRead, Types
  <2> QED
    BY <1>19, <2>2, <2>3 DEF HandleRead
<1>20. ASSUME NEW t \in Threads, NEW s \in Sessions, HandleReadEnd(t, s) PROVE Types'
  BY <1>20 DEF HandleReadEnd, Types
<1>21. ASSUME NEW t \in Threads, NEW s \in Sessions, HandleWrite(t, s) PROVE Types'
  BY <1>21 DEF HandleWrite, Types
<1>22. ASSUME NEW t \in Threads, NEW s \in Sessions, HandleProcessData(t, s) PROVE Types'
  BY <1>22 DEF HandleProcessData, Types
<1>23. ASSUME NEW p \in Ports, Connect(p) PROVE Types'
  BY <1>23 DEF Connect, Types
<1>24. ASSUME NEW p \in Ports, AcceptError(p) PROVE Types'
  BY <1>24 DEF AcceptError, Types
<1>25. ASSUME NEW s \in Sessions, PeerCloses(s) PROVE Types'
  BY <1>25 DEF PeerCloses, Types
<1>26. CASE UNCHANGED vars
  BY <1>26 DEF vars, Types
<1> QED
  BY <1>1, <1>2, <1>3, <1>4, <1>5, <1>6, <1>7, <1>8, <1>9, <1>10, <1>11, <1>12,
     <1>13, <1>14, <1>15, <1>16, <1>17, <1>18, <1>19, <1>20, <1>21, <1>22, <1>23,
     <1>24, <1>25, <1>26
  DEF Next, Startup, Stop, Environment, Work, Handle, HandleDue

LEMMA NextChains == Types /\ Chains /\ [Next]_vars => Chains'
<1> SUFFICES ASSUME Types, Chains, [Next]_vars PROVE Chains'
  OBVIOUS
<1> USE DEF startup, server, worker, session, stopping
<1>1. CASE OffChain
  BY <1>1, OffChainFrame DEF chain, Chains, Handling
<1>2. ASSUME PushListener PROVE Chains'
  <2>1. making \in Ports /\ making \notin listeners /\ accept[making] = "none"
    BY <1>2 DEF PushListener, Types, Chains
  <2>2. UNCHANGED <<making, accept, pc, at>> /\ step' = "create" /\ listeners' = listeners \cup {making}
    BY <1>2 DEF PushListener
  <2> QED
    BY <2>2 DEF Chains, Handling
<1>3. ASSUME FirstConnection PROVE Chains'
  <2>1. making \in listeners /\ step' \in {"create", "accept"}
    BY <1>3 DEF FirstConnection, Chains
  <2>2. UNCHANGED <<making, listeners, accept, pc, at>>
    BY <1>3 DEF FirstConnection
  <2> QED
    BY <2>1, <2>2 DEF Chains, Handling
<1>4. ASSUME FirstAccept PROVE Chains'
  BY <1>4, NoneIsNoPort DEF FirstAccept, StartAccept, Chains, Handling
<1>5. ASSUME NEW p \in Ports, MakeListener(p) PROVE Chains'
  <2>1. p \in Ports \ listeners
    BY <1>5, FirstIsThere, ListenerAssumption DEF MakeListener, Types
  <2>2. UNCHANGED <<listeners, accept, pc, at>> /\ making = None
    BY <1>5 DEF MakeListener
  <2>3. CASE ioService
    <3>1. making' = p /\ step' = "push"
      BY <1>5, <2>3 DEF MakeListener
    <3> QED
      BY <2>1, <2>2, <3>1 DEF Chains, Handling
  <2>4. CASE ~ioService
    <3>1. UNCHANGED <<making, step>>
      BY <1>5, <2>4 DEF MakeListener
    <3> QED
      BY <2>2, <3>1 DEF Chains, Handling
  <2> QED
    BY <2>3, <2>4
<1>6. ASSUME NEW t \in Threads, StartWorker(t) PROVE Chains'
  <2>1. UNCHANGED <<making, step, listeners, accept, at>>
    BY <1>6 DEF StartWorker
  <2>2. \A u \in Threads, p \in Ports : Handling(u, p)' => Handling(u, p)
    BY <1>6 DEF StartWorker, Types, Handling
  <2> QED
    BY <2>1, <2>2 DEF Chains
<1>7. ASSUME NEW p \in Ports, Cancel(p) PROVE Chains'
  BY <1>7 DEF Cancel, Chains, Handling
<1>8. ASSUME NEW t \in Threads, Leave(t) PROVE Chains'
  BY <1>8 DEF Leave, Chains, Handling
<1>9. ASSUME NEW t \in Threads, OnConnection(t) PROVE Chains'
  BY <1>9 DEF OnConnection, Types, Chains, Handling
<1>10. ASSUME NEW t \in Threads, Create(t) PROVE Chains'
  <2>1. UNCHANGED <<making, step, listeners, accept, at>>
    BY <1>10 DEF Create
  <2>2. \A u \in Threads, p \in Ports : Handling(u, p)' => Handling(u, p)
    BY <1>10 DEF Create, Handling
  <2> QED
    BY <2>1, <2>2 DEF Chains
<1>11. ASSUME NEW t \in Threads, Accept(t) PROVE Chains'
  BY <1>11 DEF Accept, StartAccept, Types, Chains, Handling
<1>12. ASSUME NEW t \in Threads, NEW p \in Ports, TakeAccept(t, p) PROVE Chains'
  BY <1>12, NoneIsNoPort DEF TakeAccept, Types, Chains, Handling
<1>13. ASSUME NEW t \in Threads, NEW p \in Ports, AcceptEnds(t, p) PROVE Chains'
  BY <1>13 DEF AcceptEnds, Chains, Handling
<1>14. ASSUME NEW p \in Ports, Connect(p) PROVE Chains'
  BY <1>14 DEF Connect, Chains, Handling
<1>15. ASSUME NEW p \in Ports, AcceptError(p) PROVE Chains'
  BY <1>15 DEF AcceptError, Chains, Handling
<1> QED
  BY <1>1, <1>2, <1>3, <1>4, <1>5, <1>6, <1>7, <1>8, <1>9, <1>10, <1>11, <1>12,
     <1>13, <1>14, <1>15
  DEF Next, Startup, Stop, Environment, Work, Handle, HandleDue, OffChain

-----------------------------------------------------------------------------
(* Connection objects                                                        *)

\* The sessions are finitely many.
LEMMA Sizes ==
  /\ IsFiniteSet(Clients) /\ Cardinality(Clients) \in Nat
  /\ IsFiniteSet(Waiting) /\ Cardinality(Waiting) \in Nat
  /\ IsFiniteSet(Ports) /\ Cardinality(Ports) \in Nat
  /\ MaxClients \in Nat
<1>1. IsFiniteSet(Ports) /\ Cardinality(Ports) \in Nat /\ MaxClients \in Nat
  BY FS_CardinalityType, ListenerAssumption
<1>2. IsFiniteSet(Sessions)
  BY <1>1, FS_Interval DEF Sessions
<1>3. Clients \subseteq Sessions /\ Waiting \subseteq Ports
  BY DEF Clients, Waiting
<1> QED
  BY <1>1, <1>2, <1>3, FS_Subset, FS_CardinalityType

\* There are enough connection objects: one waits at a port at most.
LEMMA Room ==
  ASSUME Types, Counted, NEW p \in Ports, Vacant(p)
  PROVE  made + 1 \in Sessions
<1>1. Waiting \subseteq Ports \ {p}
  BY DEF Waiting
<1>2. IsFiniteSet(Ports \ {p}) /\ Cardinality(Ports \ {p}) = Cardinality(Ports) - 1
  BY Sizes, FS_RemoveElement
<1>3. Cardinality(Waiting) <= Cardinality(Ports) - 1
  BY <1>1, <1>2, FS_Subset
<1> QED
  BY <1>3, Sizes DEF Counted, Sessions

\* Whom a client was accepted for does not change while the chains do not.
LEMMA SameClients ==
  ASSUME OffChain
  PROVE  \A s \in Sessions : peer'[s] = "none" <=> peer[s] = "none"
<1> USE DEF startup, server, worker, session, stopping
<1>1. ASSUME NEW t \in Threads, NEW s \in Sessions, HandleRead(t, s) \/ HandleDue(t, s)
      PROVE  UNCHANGED peer
  BY <1>1 DEF HandleRead, HandleDue, HandleReadEnd, HandleWrite, HandleProcessData
<1>2. ASSUME NEW c \in Sessions, PeerCloses(c)
      PROVE  \A s \in Sessions : peer'[s] = "none" <=> peer[s] = "none"
  BY <1>2 DEF PeerCloses
<1>3. CASE LoadSettings \/ LoadPlugins
  BY <1>3 DEF LoadSettings, LoadPlugins
<1>4. CASE StartFails \/ StartThrows
  BY <1>4 DEF StartFails, StartThrows
<1>5. CASE StopReset \/ StopDone
  BY <1>5 DEF StopReset, StopDone
<1>6. CASE UNCHANGED vars
  BY <1>6 DEF vars
<1> QED
  BY <1>1, <1>2, <1>3, <1>4, <1>5, <1>6 DEF OffChain

\* Connection objects are counted as before.
LEMMA SameCount ==
  ASSUME Counted, \A q \in Ports : Vacant(q)' <=> Vacant(q),
         \A s \in Sessions : peer'[s] = "none" <=> peer[s] = "none", UNCHANGED made
  PROVE  Counted'
<1>1. Waiting' = Waiting
  BY DEF Waiting
<1>2. Clients' = Clients
  BY DEF Clients
<1> QED
  BY <1>1, <1>2 DEF Counted

\* A port gets its next connection object.
LEMMA OneMore ==
  ASSUME Types, Counted, NEW p \in Ports, Vacant(p), ~Vacant(p)',
         \A q \in Ports \ {p} : Vacant(q)' <=> Vacant(q),
         UNCHANGED peer, made' = made + 1
  PROVE  Counted'
<1>1. Waiting' = Waiting \cup {p} /\ p \notin Waiting
  BY DEF Waiting
<1>2. Cardinality(Waiting') = Cardinality(Waiting) + 1
  BY <1>1, Sizes, FS_AddElement
<1>3. Clients' = Clients
  BY DEF Clients
<1> QED
  BY <1>2, <1>3, Sizes DEF Counted

LEMMA NextCounted == Types /\ Chains /\ Objects /\ Counted /\ [Next]_vars => Counted'
<1> SUFFICES ASSUME Types, Chains, Objects, Counted, [Next]_vars PROVE Counted'
  OBVIOUS
<1> USE DEF startup, server, worker, session, stopping
<1>1. CASE OffChain
  <2>1. \A q \in Ports : Vacant(q)' <=> Vacant(q)
    BY <1>1, OffChainFrame DEF chain, Vacant, Handling
  <2> QED
    BY <1>1, <2>1, SameClients, SameCount, OffChainFrame DEF chain
<1>2. ASSUME PushListener PROVE Counted'
  <2>1. \A q \in Ports : Vacant(q)' <=> Vacant(q)
    BY <1>2 DEF Vacant, Handling, PushListener
  <2>2. UNCHANGED <<peer, made>>
    BY <1>2 DEF PushListener
  <2> QED
    BY <2>1, <2>2, SameCount
<1>3. ASSUME FirstConnection PROVE Counted'
  <2>1. /\ making \in Ports /\ step = "create" /\ UNCHANGED <<making, listeners, accept, pc, at, peer>>
        /\ making \in listeners /\ accept[making] = "none"
        /\ \A t \in Threads : ~Handling(t, making)
    BY <1>3 DEF FirstConnection, Types, Chains
  <2>2. CASE ioService
    <3>1. step' = "accept" /\ made' = made + 1
      BY <1>3, <2>2 DEF FirstConnection, NewConnection
    <3>2. Vacant(making) /\ ~Vacant(making)'
      BY <2>1, <3>1 DEF Vacant, Handling
    <3>3. \A q \in Ports \ {making} : Vacant(q)' <=> Vacant(q)
      BY <2>1 DEF Vacant, Handling
    <3> QED
      BY <2>1, <3>1, <3>2, <3>3, OneMore
  <2>3. CASE ~ioService
    <3>1. UNCHANGED <<step, made>>
      BY <1>3, <2>3 DEF FirstConnection, NewConnection
    <3>2. \A q \in Ports : Vacant(q)' <=> Vacant(q)
      BY <2>1, <3>1 DEF Vacant, Handling
    <3> QED
      BY <2>1, <3>1, <3>2, SameCount
  <2> QED
    BY <2>2, <2>3
<1>4. ASSUME FirstAccept PROVE Counted'
  <2>1. \A q \in Ports : Vacant(q)' <=> Vacant(q)
    BY <1>4 DEF Chains, Vacant, Handling, FirstAccept, StartAccept
  <2>2. UNCHANGED <<peer, made>>
    BY <1>4 DEF FirstAccept
  <2> QED
    BY <2>1, <2>2, SameCount
<1>5. ASSUME NEW p \in Ports, MakeListener(p) PROVE Counted'
  <2>1. p \in Ports \ listeners
    BY <1>5, FirstIsThere, ListenerAssumption DEF MakeListener, Types
  <2>2. UNCHANGED <<listeners, accept, pc, at>> /\ making = None
    BY <1>5 DEF MakeListener
  <2>3. making' \in {None, p}
    BY <1>5 DEF MakeListener
  <2>4. \A q \in Ports : Vacant(q)' <=> Vacant(q)
    BY <2>1, <2>2, <2>3, NoneIsNoPort DEF Vacant, Handling
  <2>5. UNCHANGED <<peer, made>>
    BY <1>5 DEF MakeListener
  <2> QED
    BY <2>4, <2>5, SameCount
<1>6. ASSUME NEW t \in Threads, StartWorker(t) PROVE Counted'
  <2>1. UNCHANGED <<making, step, listeners, accept, at, peer, made>>
    BY <1>6 DEF StartWorker
  <2>2. pc[t] = "unborn" /\ (pc' = pc \/ pc' = [pc EXCEPT ![t] = "idle"])
    BY <1>6 DEF StartWorker
  <2>3. \A q \in Ports : Vacant(q)' <=> Vacant(q)
    BY <2>1, <2>2 DEF Types, Vacant, Handling
  <2> QED
    BY <2>1, <2>3, SameCount
<1>7. ASSUME NEW p \in Ports, Cancel(p) PROVE Counted'
  <2>1. \A q \in Ports : Vacant(q)' <=> Vacant(q)
    BY <1>7 DEF Vacant, Handling, Cancel
  <2>2. UNCHANGED <<peer, made>>
    BY <1>7 DEF Cancel
  <2> QED
    BY <2>1, <2>2, SameCount
<1>8. ASSUME NEW t \in Threads, Leave(t) PROVE Counted'
  <2>1. \A q \in Ports : Vacant(q)' <=> Vacant(q)
    BY <1>8 DEF Vacant, Handling, Leave
  <2>2. UNCHANGED <<peer, made>>
    BY <1>8 DEF Leave
  <2> QED
    BY <2>1, <2>2, SameCount
<1>9. ASSUME NEW t \in Threads, OnConnection(t) PROVE Counted'
  <2>1. \A q \in Ports : Vacant(q)' <=> Vacant(q)
    BY <1>9 DEF Types, Vacant, Handling, OnConnection
  <2>2. UNCHANGED <<peer, made>>
    BY <1>9 DEF OnConnection
  <2> QED
    BY <2>1, <2>2, SameCount
<1>10. ASSUME NEW t \in Threads, Create(t) PROVE Counted'
  <2> DEFINE p == at[t]
  <2>1. /\ p \in Ports /\ UNCHANGED <<making, step, listeners, accept, at, peer>>
        /\ Handling(t, p) /\ pc[t] = "create"
    BY <1>10 DEF Create, Types, Handling
  <2>2. /\ p \in listeners /\ accept[p] = "none" /\ making # p
        /\ \A u \in Threads : Handling(u, p) => u = t
    BY <2>1 DEF Chains
  <2>3. CASE ioService
    <3>1. pc' = [pc EXCEPT ![t] = "accept"] /\ made' = made + 1
      BY <1>10, <2>3 DEF Create, NewConnection
    <3>2. Vacant(p)
      BY <2>1 DEF Vacant
    <3>3. ~Vacant(p)'
      BY <2>1, <2>2, <3>1 DEF Vacant, Handling, Types
    <3>4. \A q \in Ports \ {p} : Vacant(q)' <=> Vacant(q)
      BY <2>1, <3>1 DEF Vacant, Handling
    <3> QED
      BY <2>1, <3>1, <3>2, <3>3, <3>4, OneMore
  <2>4. CASE ~ioService
    <3>1. UNCHANGED <<pc, made>>
      BY <1>10, <2>4 DEF Create, NewConnection, Types
    <3>2. \A q \in Ports : Vacant(q)' <=> Vacant(q)
      BY <2>1, <3>1 DEF Vacant, Handling
    <3> QED
      BY <2>1, <3>1, <3>2, SameCount
  <2> QED
    BY <2>3, <2>4
<1>11. ASSUME NEW t \in Threads, Accept(t) PROVE Counted'
  <2>1. \A q \in Ports : Vacant(q)' <=> Vacant(q)
    BY <1>11 DEF Chains, Vacant, Handling, Accept, StartAccept
  <2>2. UNCHANGED <<peer, made>>
    BY <1>11 DEF Accept
  <2> QED
    BY <2>1, <2>2, SameCount
<1>12. ASSUME NEW t \in Threads, NEW p \in Ports, TakeAccept(t, p) PROVE Counted'
  <2>1. \A q \in Ports : Vacant(q)' <=> Vacant(q)
    BY <1>12 DEF Types, Vacant, Handling, TakeAccept
  <2>2. UNCHANGED <<peer, made>>
    BY <1>12 DEF TakeAccept
  <2> QED
    BY <2>1, <2>2, SameCount
<1>13. ASSUME NEW t \in Threads, NEW p \in Ports, AcceptEnds(t, p) PROVE Counted'
  <2>1. \A q \in Ports : Vacant(q)' <=> Vacant(q)
    BY <1>13 DEF Vacant, Handling, AcceptEnds
  <2>2. UNCHANGED <<peer, made>>
    BY <1>13 DEF AcceptEnds
  <2> QED
    BY <2>1, <2>2, SameCount
<1>14. ASSUME NEW p \in Ports, Connect(p) PROVE Counted'
  <2> DEFINE c == newConnection[p]
  <2>1. /\ accept[p] = "pending" /\ accept' = [accept EXCEPT ![p] = "ok"]
        /\ peer' = [peer EXCEPT ![c] = "open"] /\ Cardinality(Clients) < MaxClients
        /\ UNCHANGED <<making, step, listeners, made, pc, at>>
    BY <1>14 DEF Connect, Clients
  <2>2. c \in Sessions /\ peer[c] = "none" /\ p \in listeners /\ making # p
    BY <2>1, NoneIsNoPort DEF Objects, Unused, Chains
  <2>3. \A t \in Threads : ~Handling(t, p)
    BY <2>1 DEF Chains
  <2>4. ~Vacant(p) /\ Vacant(p)'
    BY <2>1, <2>2, <2>3 DEF Vacant, Types
  <2>5. \A q \in Ports \ {p} : Vacant(q)' <=> Vacant(q)
    BY <2>1 DEF Vacant, Handling, Types
  <2>6. Waiting' = Waiting \ {p} /\ p \in Waiting
    BY <2>4, <2>5 DEF Waiting
  <2>7. Clients' = Clients \cup {c} /\ c \notin Clients
    BY <2>1, <2>2 DEF Clients, Types
  <2>8. Cardinality(Waiting') = Cardinality(Waiting) - 1
    BY <2>6, Sizes, FS_RemoveElement
  <2>9. Cardinality(Clients') = Cardinality(Clients) + 1
    BY <2>7, Sizes, FS_AddElement
  <2> QED
    BY <2>1, <2>8, <2>9, Sizes DEF Counted
<1>15. ASSUME NEW p \in Ports, AcceptError(p) PROVE Counted'
  <2>1. \A q \in Ports : Vacant(q)' <=> Vacant(q)
    BY <1>15 DEF Vacant, Handling, AcceptError
  <2>2. UNCHANGED <<peer, made>>
    BY <1>15 DEF AcceptError
  <2> QED
    BY <2>1, <2>2, SameCount
<1> QED
  BY <1>1, <1>2, <1>3, <1>4, <1>5, <1>6, <1>7, <1>8, <1>9, <1>10, <1>11, <1>12,
     <1>13, <1>14, <1>15
  DEF Next, Startup, Stop, Environment, Work, Handle, HandleDue, OffChain

\* The connection object that a port gets is nobody else's.
Fresh(p) ==
  /\ newConnection'[p] \in Sessions /\ peer'[newConnection'[p]] = "none"
  /\ \A s \in Sessions : s > made' => peer'[s] = "none"
  /\ \A q, r \in Ports :
       newConnection'[q] = newConnection'[r] /\ q # r => newConnection'[q] = None
  /\ \A q \in Ports \ {p} : newConnection'[q] = newConnection[q]

\* A worker makes the next connection object of its port.
LEMMA NextConnection ==
  ASSUME Types, Counted, Objects, NEW p \in Ports, Vacant(p), UNCHANGED peer,
         made' = made + 1, newConnection' = [newConnection EXCEPT ![p] = made + 1]
  PROVE  Fresh(p)
<1>1. made + 1 \in Sessions
  BY Room
<1>2. newConnection'[p] = made + 1 /\ \A q \in Ports \ {p} : newConnection'[q] = newConnection[q]
  BY DEF Types
<1>3. \A q \in Ports \ {p} : newConnection'[q] # newConnection'[p]
  BY <1>2 DEF Types
<1>4. peer[made + 1] = "none" /\ \A s \in Sessions : s > made + 1 => peer[s] = "none"
  BY <1>1 DEF Objects, Types, Sessions
<1> QED
  BY <1>1, <1>2, <1>3, <1>4 DEF Fresh, Objects

LEMMA NextObjects == Types /\ Chains /\ Counted /\ Objects /\ [Next]_vars => Objects'
<1> SUFFICES ASSUME Types, Chains, Counted, Objects, [Next]_vars PROVE Objects'
  OBVIOUS
<1> USE DEF startup, server, worker, session, stopping
<1>1. CASE OffChain
  BY <1>1, OffChainFrame, SameClients DEF chain, Objects, Unused, Used
<1>2. ASSUME PushListener PROVE Objects'
  <2>1. UNCHANGED <<making, accept, newConnection, made, pc, at, peer, port>> /\ step' = "create"
    BY <1>2 DEF PushListener
  <2> QED
    BY <2>1 DEF Objects, Unused, Used
<1>3. ASSUME FirstConnection PROVE Objects'
  <2>1. /\ making \in Ports /\ UNCHANGED <<making, listeners, accept, pc, at, peer, port>>
        /\ step = "create" /\ accept[making] = "none"
        /\ \A t \in Threads : ~Handling(t, making)
    BY <1>3 DEF FirstConnection, Types, Chains
  <2>2. CASE ioService
    <3>1. made' = made + 1 /\ newConnection' = [newConnection EXCEPT ![making] = made + 1]
      BY <1>3, <2>2 DEF FirstConnection, NewConnection
    <3>2. Vacant(making)
      BY <2>1 DEF Vacant
    <3>3. Fresh(making)
      BY <2>1, <3>1, <3>2, NextConnection DEF Fresh
    <3> QED
      BY <2>1, <3>1, <3>3 DEF Objects, Fresh, Unused, Used, Handling, Types
  <2>3. CASE ~ioService
    <3>1. UNCHANGED <<step, made, newConnection>>
      BY <1>3, <2>3 DEF FirstConnection, NewConnection
    <3> QED
      BY <2>1, <3>1 DEF Objects, Unused, Used
  <2> QED
    BY <2>2, <2>3
<1>4. ASSUME FirstAccept PROVE Objects'
  BY <1>4, NoneIsNoPort DEF FirstAccept, StartAccept, Objects, Unused, Used
<1>5. ASSUME NEW p \in Ports, MakeListener(p) PROVE Objects'
  BY <1>5 DEF MakeListener, Objects, Unused, Used
<1>6. ASSUME NEW t \in Threads, StartWorker(t) PROVE Objects'
  <2>1. UNCHANGED <<making, step, accept, newConnection, made, at, peer, port>>
    BY <1>6 DEF StartWorker
  <2>2. \A u \in Threads : pc'[u] = pc[u] \/ pc'[u] = "idle"
    BY <1>6 DEF StartWorker, Types
  <2> QED
    BY <2>1, <2>2 DEF Objects, Unused, Used
<1>7. ASSUME NEW p \in Ports, Cancel(p) PROVE Objects'
  BY <1>7 DEF Cancel, Objects, Unused, Used
<1>8. ASSUME NEW t \in Threads, Leave(t) PROVE Objects'
  BY <1>8 DEF Leave, Objects, Unused, Used
<1>9. ASSUME NEW t \in Threads, OnConnection(t) PROVE Objects'
  BY <1>9 DEF OnConnection, Types, Objects, Unused, Used
<1>10. ASSUME NEW t \in Threads, Create(t) PROVE Objects'
  <2> DEFINE p == at[t]
  <2>1. /\ p \in Ports /\ UNCHANGED <<making, step, listeners, accept, at, peer, port>>
        /\ Handling(t, p) /\ pc[t] = "create"
    BY <1>10 DEF Create, Types, Handling
  <2>2. /\ accept[p] = "none" /\ making # p
        /\ \A u \in Threads : Handling(u, p) => u = t
    BY <2>1 DEF Chains
  <2>3. CASE ioService
    <3>1. /\ made' = made + 1 /\ newConnection' = [newConnection EXCEPT ![p] = made + 1]
          /\ pc' = [pc EXCEPT ![t] = "accept"]
      BY <1>10, <2>3 DEF Create, NewConnection
    <3>2. Vacant(p)
      BY <2>1 DEF Vacant
    <3>3. Fresh(p)
      BY <2>1, <3>1, <3>2, NextConnection DEF Fresh
    <3> QED
      BY <2>1, <2>2, <3>1, <3>3 DEF Objects, Fresh, Unused, Used, Handling, Types
  <2>4. CASE ~ioService
    <3>1. UNCHANGED <<pc, made, newConnection>>
      BY <1>10, <2>4 DEF Create, NewConnection, Types
    <3> QED
      BY <2>1, <3>1 DEF Objects, Unused, Used
  <2> QED
    BY <2>3, <2>4
<1>11. ASSUME NEW t \in Threads, Accept(t) PROVE Objects'
  BY <1>11, NoneIsNoPort DEF Accept, StartAccept, Objects, Unused, Used
<1>12. ASSUME NEW t \in Threads, NEW p \in Ports, TakeAccept(t, p) PROVE Objects'
  BY <1>12 DEF TakeAccept, Types, Objects, Unused, Used
<1>13. ASSUME NEW t \in Threads, NEW p \in Ports, AcceptEnds(t, p) PROVE Objects'
  BY <1>13, NoneIsNoPort DEF AcceptEnds, Types, Chains, Objects, Unused, Used, Handling
<1>14. ASSUME NEW p \in Ports, Connect(p) PROVE Objects'
  <2> DEFINE c == newConnection[p]
  <2>1. /\ accept[p] = "pending" /\ accept' = [accept EXCEPT ![p] = "ok"]
        /\ peer' = [peer EXCEPT ![c] = "open"] /\ port' = [port EXCEPT ![c] = p]
        /\ UNCHANGED <<making, step, newConnection, made, pc, at>>
    BY <1>14 DEF Connect
  <2>2. c \in Sessions /\ c # None /\ ~(c > made)
    BY <2>1 DEF Objects, Unused, Types, Sessions, None
  <2>3. making # p /\ \A t \in Threads : ~Handling(t, p)
    BY <2>1, NoneIsNoPort DEF Chains
  <2>4. Used(p)'
    BY <2>1, <2>2 DEF Used, Types
  <2>5. \A q \in Ports \ {p} : newConnection[q] # c
    BY <2>2 DEF Objects
  <2>6. \A q \in Ports \ {p} : (Unused(q)' <=> Unused(q)) /\ (Used(q)' <=> Used(q))
    BY <2>1, <2>5 DEF Unused, Used
  <2>7. \A s \in Sessions : s > made' => peer'[s] = "none"
    BY <2>1, <2>2 DEF Objects
  <2> QED
    BY <2>1, <2>3, <2>4, <2>6, <2>7 DEF Objects, Handling, Types
<1>15. ASSUME NEW p \in Ports, AcceptError(p) PROVE Objects'
  BY <1>15 DEF AcceptError, Objects, Unused, Used
<1> QED
  BY <1>1, <1>2, <1>3, <1>4, <1>5, <1>6, <1>7, <1>8, <1>9, <1>10, <1>11, <1>12,
     <1>13, <1>14, <1>15
  DEF Next, Startup, Stop, Environment, Work, Handle, HandleDue, OffChain

\* Chains in one place are one chain for each port.
LEMMA ChainsAreOne == Types /\ Chains /\ Objects => OneChain
<1> SUFFICES ASSUME Types, Chains, Objects, NEW p \in Ports
             PROVE  /\ Cardinality({t \in Threads : Handling(t, p)}) <= (IF accept[p] = "none" THEN 1 ELSE 0)
                    /\ accept[p] = "pending" => newConnection[p] # None /\ peer[newConnection[p]] = "none"
                    /\ \A q \in Ports : newConnection[p] = newConnection[q] /\ p # q => newConnection[p] = None
  BY DEF OneChain
<1> DEFINE handlers == {t \in Threads : Handling(t, p)}
<1>1. Cardinality(handlers) <= (IF accept[p] = "none" THEN 1 ELSE 0)
  <2>1. CASE \E t \in Threads : Handling(t, p)
    <3>1. PICK t \in Threads : handlers = {t} /\ accept[p] = "none"
      BY <2>1 DEF Chains
    <3>2. Cardinality(handlers) = 1
      BY <3>1, FS_Singleton
    <3> QED
      BY <3>1, <3>2
  <2>2. CASE ~(\E t \in Threads : Handling(t, p))
    <3>1. handlers = {}
      BY <2>2
    <3>2. Cardinality(handlers) = 0
      BY <3>1, FS_EmptySet
    <3> QED
      BY <3>2
  <2> QED
    BY <2>1, <2>2
<1>3. accept[p] = "pending" => newConnection[p] # None /\ peer[newConnection[p]] = "none"
  BY DEF Objects, Unused, Sessions, None
<1> QED
  BY <1>1, <1>3 DEF Objects

-----------------------------------------------------------------------------
(* Sessions                                                                  *)

\* Sessions are read as before.
LEMMA SameReading ==
  ASSUME Reading, \A s \in Sessions : Starting(s)' <=> Starting(s),
         UNCHANGED <<port, peer, reads, writes, pending>>
  PROVE  Reading'
  BY DEF Reading, Reads

\* The steps that leave sessions and what starts them alone.
OffSessions ==
  \/ LoadSettings \/ LoadPlugins \/ StartFails \/ StartThrows \/ PushListener
  \/ StopReset \/ StopDone
  \/ \E p \in Ports : MakeListener(p)
  \/ UNCHANGED vars

LEMMA NextReading == Types /\ Chains /\ Objects /\ Reading /\ [Next]_vars => Reading'
<1> SUFFICES ASSUME Types, Chains, Objects, Reading, [Next]_vars PROVE Reading'
  OBVIOUS
<1> USE DEF startup, server, worker, session, stopping
<1>1. CASE OffSessions
  <2>1. UNCHANGED <<accept, newConnection, pc, at, port, peer, reads, writes, pending>>
    BY <1>1 DEF OffSessions, LoadSettings, LoadPlugins, StartFails, StartThrows, PushListener, StopReset, StopDone, MakeListener, vars
  <2>2. \A s \in Sessions : Starting(s)' <=> Starting(s)
    BY <2>1 DEF Starting
  <2> QED
    BY <2>1, <2>2, SameReading
<1>2. ASSUME FirstConnection PROVE Reading'
  <2>1. PICK p \in Ports : p = making
    BY <1>2 DEF FirstConnection, Types
  <2>2. /\ UNCHANGED <<accept, pc, at, port, peer, reads, writes, pending>>
        /\ accept[p] = "none" /\ \A t \in Threads : ~Handling(t, p)
    BY <1>2, <2>1 DEF FirstConnection, Chains
  <2>3. \A q \in Ports \ {p} : newConnection'[q] = newConnection[q]
    BY <1>2, <2>1 DEF FirstConnection, NewConnection, Types
  <2>4. \A s \in Sessions : Starting(s)' <=> Starting(s)
    BY <2>2, <2>3 DEF Starting, Handling
  <2> QED
    BY <2>2, <2>4, SameReading
<1>3. ASSUME FirstAccept PROVE Reading'
  <2>1. \A s \in Sessions : Starting(s)' <=> Starting(s)
    BY <1>3 DEF Chains, Starting, FirstAccept, StartAccept
  <2>2. UNCHANGED <<port, peer, reads, writes, pending>>
    BY <1>3 DEF FirstAccept
  <2> QED
    BY <2>1, <2>2, SameReading
<1>4. ASSUME NEW t \in Threads, StartWorker(t) PROVE Reading'
  <2>1. UNCHANGED <<accept, newConnection, at, port, peer, reads, writes, pending>>
    BY <1>4 DEF StartWorker
  <2>2. pc[t] = "unborn" /\ (pc' = pc \/ pc' = [pc EXCEPT ![t] = "idle"])
    BY <1>4 DEF StartWorker
  <2>3. \A s \in Sessions : Starting(s)' <=> Starting(s)
    BY <2>1, <2>2 DEF Starting, Types
  <2> QED
    BY <2>1, <2>3, SameReading
<1>5. ASSUME NEW p \in Ports, Cancel(p) PROVE Reading'
  <2>1. \A s \in Sessions : Starting(s)' <=> Starting(s)
    BY <1>5 DEF Starting, Cancel
  <2>2. UNCHANGED <<port, peer, reads, writes, pending>>
    BY <1>5 DEF Cancel
  <2> QED
    BY <2>1, <2>2, SameReading
<1>6. ASSUME NEW t \in Threads, Leave(t) PROVE Reading'
  <2>1. \A s \in Sessions : Starting(s)' <=> Starting(s)
    BY <1>6 DEF Starting, Leave
  <2>2. UNCHANGED <<port, peer, reads, writes, pending>>
    BY <1>6 DEF Leave
  <2> QED
    BY <2>1, <2>2, SameReading
<1>7. ASSUME NEW t \in Threads, OnConnection(t) PROVE Reading'
  <2>1. at[t] \in Ports /\ pc[t] = "connect" /\ Handling(t, at[t])
    BY <1>7 DEF OnConnection, Types, Handling
  <2>2. PICK c \in Sessions : c = newConnection[at[t]] /\ Starting(c) /\ peer[c] # "none"
    BY <2>1 DEF Objects, Used, Starting
  <2>3. UNCHANGED <<accept, newConnection, at, port, peer, writes, pending>>
    BY <1>7, <2>2 DEF OnConnection
  <2>4. CASE pc' = [pc EXCEPT ![t] = "create"] /\ reads' = [reads EXCEPT ![c] = 1]
    <3>1. ~Starting(c)'
      BY <2>1, <2>2, <2>3, <2>4 DEF Starting, Objects, Chains, Handling, Types, Sessions, None
    <3>2. \A s \in Sessions \ {c} : Starting(s)' <=> Starting(s)
      BY <2>2, <2>3, <2>4 DEF Starting
    <3>3. Reads(c)'
      BY <2>2, <2>3, <2>4, <3>1 DEF Reading, Reads, Types
    <3>4. \A s \in Sessions \ {c} : Reads(s)'
      BY <2>3, <2>4, <3>2 DEF Reading, Reads
    <3> QED
      BY <3>3, <3>4 DEF Reading
  <2>5. CASE UNCHANGED <<pc, reads>>
    <3>1. \A s \in Sessions : Starting(s)' <=> Starting(s)
      BY <2>3, <2>5 DEF Starting
    <3> QED
      BY <2>3, <2>5, <3>1, SameReading
  <2> QED
    BY <1>7, <2>2, <2>4, <2>5 DEF OnConnection
<1>8. ASSUME NEW t \in Threads, Create(t) PROVE Reading'
  <2>1. PICK p \in Ports : p = at[t] /\ Handling(t, p) /\ pc[t] = "create"
    BY <1>8 DEF Create, Types, Handling
  <2>2. /\ UNCHANGED <<accept, at, port, peer, reads, writes, pending>>
        /\ accept[p] = "none" /\ \A u \in Threads : Handling(u, p) => u = t
    BY <1>8, <2>1 DEF Create, Chains
  <2>3. \A q \in Ports \ {p} : newConnection'[q] = newConnection[q]
    BY <1>8, <2>1 DEF Create, NewConnection, Types
  <2>4. pc'[t] # "connect" /\ \A u \in Threads \ {t} : pc'[u] = pc[u]
    BY <1>8 DEF Create
  <2>5. \A s \in Sessions : Starting(s)' <=> Starting(s)
    BY <2>1, <2>2, <2>3, <2>4 DEF Starting, Handling
  <2> QED
    BY <2>2, <2>5, SameReading
<1>9. ASSUME NEW t \in Threads, Accept(t) PROVE Reading'
  <2>1. \A s \in Sessions : Starting(s)' <=> Starting(s)
    BY <1>9 DEF Chains, Starting, Handling, Accept, StartAccept
  <2>2. UNCHANGED <<port, peer, reads, writes, pending>>
    BY <1>9 DEF Accept
  <2> QED
    BY <2>1, <2>2, SameReading
<1>10. ASSUME NEW t \in Threads, NEW p \in Ports, TakeAccept(t, p) PROVE Reading'
  <2>1. \A s \in Sessions : Starting(s)' <=> Starting(s)
    BY <1>10 DEF Types, Starting, TakeAccept
  <2>2. UNCHANGED <<port, peer, reads, writes, pending>>
    BY <1>10 DEF TakeAccept
  <2> QED
    BY <2>1, <2>2, SameReading
<1>11. ASSUME NEW t \in Threads, NEW p \in Ports, AcceptEnds(t, p) PROVE Reading'
  <2>1. \A s \in Sessions : Starting(s)' <=> Starting(s)
    BY <1>11 DEF Chains, Starting, Handling, AcceptEnds
  <2>2. UNCHANGED <<port, peer, reads, writes, pending>>
    BY <1>11 DEF AcceptEnds
  <2> QED
    BY <2>1, <2>2, SameReading
<1>12. ASSUME NEW t \in Threads, NEW s \in Sessions, HandleRead(t, s) PROVE Reading'
  <2>1. UNCHANGED <<accept, newConnection, pc, at>>
    BY <1>12 DEF HandleRead
  <2>2. \A c \in Sessions : Starting(c)' <=> Starting(c)
    BY <2>1 DEF Starting
  <2>3. Reads(s)'
    <3>1. peer[s] # "none" /\ ~Starting(s) /\ reads[s] = 1
      BY <1>12 DEF HandleRead, Reading, Reads, Types
    <3>2. CASE port[s] \in Echo
      <4>1. writes[s] = 0 /\ pending[s] = 0 /\ EchoRead(s) /\ UNCHANGED <<peer, port>>
        BY <1>12, <3>1, <3>2 DEF HandleRead, Reading, Reads, Types
      <4>2. reads'[s] = 0 /\ writes'[s] = 1 /\ pending'[s] = 0
        BY <3>1, <4>1 DEF EchoRead, Types
      <4> QED
        BY <2>2, <3>1, <3>2, <4>1, <4>2 DEF Reads
    <3>3. CASE port[s] \notin Echo
      <4>1. UNCHANGED <<reads, peer, port>>
        BY <1>12, <3>3 DEF HandleRead, WialonRead
      <4> QED
        BY <2>2, <3>1, <3>3, <4>1 DEF Reads
    <3> QED
      BY <3>2, <3>3
  <2>4. \A c \in Sessions \ {s} : Reads(c)'
    BY <1>12, <2>2 DEF HandleRead, EchoRead, WialonRead, Reading, Reads, Types
  <2> QED
    BY <2>3, <2>4 DEF Reading
<1>13. ASSUME NEW t \in Threads, NEW s \in Sessions, HandleReadEnd(t, s) PROVE Reading'
  <2>1. UNCHANGED <<accept, newConnection, pc, at>>
    BY <1>13 DEF HandleReadEnd
  <2>2. \A c \in Sessions : Starting(c)' <=> Starting(c)
    BY <2>1 DEF Starting
  <2>3. Reads(s)'
    BY <1>13, <2>2 DEF HandleReadEnd, Reading, Reads, Types
  <2>4. \A c \in Sessions \ {s} : Reads(c)'
    BY <1>13, <2>2 DEF HandleReadEnd, Reading, Reads
  <2> QED
    BY <2>3, <2>4 DEF Reading
<1>14. ASSUME NEW t \in Threads, NEW s \in Sessions, HandleWrite(t, s) PROVE Reading'
  <2>1. UNCHANGED <<accept, newConnection, pc, at>>
    BY <1>14 DEF HandleWrite
  <2>2. \A c \in Sessions : Starting(c)' <=> Starting(c)
    BY <2>1 DEF Starting
  <2>3. Reads(s)'
    BY <1>14, <2>2 DEF HandleWrite, Reading, Reads, Types
  <2>4. \A c \in Sessions \ {s} : Reads(c)'
    BY <1>14, <2>2 DEF HandleWrite, Reading, Reads, Types
  <2> QED
    BY <2>3, <2>4 DEF Reading
<1>15. ASSUME NEW t \in Threads, NEW s \in Sessions, HandleProcessData(t, s) PROVE Reading'
  <2>1. UNCHANGED <<accept, newConnection, pc, at>>
    BY <1>15 DEF HandleProcessData
  <2>2. \A c \in Sessions : Starting(c)' <=> Starting(c)
    BY <2>1 DEF Starting
  <2>3. Reads(s)'
    BY <1>15, <2>2 DEF HandleProcessData, Reading, Reads
  <2>4. \A c \in Sessions \ {s} : Reads(c)'
    BY <1>15, <2>2 DEF HandleProcessData, Reading, Reads, Types
  <2> QED
    BY <2>3, <2>4 DEF Reading
<1>16. ASSUME NEW p \in Ports, Connect(p) PROVE Reading'
  <2>2. PICK c \in Sessions : c = newConnection[p] /\ peer[c] = "none"
    BY <1>16 DEF Connect, Objects, Unused
  <2>1. /\ accept[p] = "pending" /\ accept' = [accept EXCEPT ![p] = "ok"]
        /\ peer' = [peer EXCEPT ![c] = "open"] /\ port' = [port EXCEPT ![c] = p]
        /\ UNCHANGED <<newConnection, pc, at, reads, writes, pending>>
    BY <1>16, <2>2 DEF Connect
  <2>3. Starting(c)'
    BY <2>1, <2>2 DEF Starting, Types
  <2>4. \A s \in Sessions \ {c} : Starting(s)' <=> Starting(s)
    BY <2>1, <2>2 DEF Starting
  <2>5. Reads(c)'
    BY <2>1, <2>2, <2>3 DEF Reading, Reads
  <2>6. \A s \in Sessions \ {c} : Reads(s)'
    BY <2>1, <2>4 DEF Reading, Reads
  <2> QED
    BY <2>5, <2>6 DEF Reading
<1>17. ASSUME NEW p \in Ports, AcceptError(p) PROVE Reading'
  <2>1. \A s \in Sessions : Starting(s)' <=> Starting(s)
    BY <1>17 DEF Starting, AcceptError
  <2>2. UNCHANGED <<port, peer, reads, writes, pending>>
    BY <1>17 DEF AcceptError
  <2> QED
    BY <2>1, <2>2, SameReading
<1>18. ASSUME NEW s \in Sessions, PeerCloses(s) PROVE Reading'
  <2>1. UNCHANGED <<accept, newConnection, pc, at>>
    BY <1>18 DEF PeerCloses
  <2>2. \A c \in Sessions : Starting(c)' <=> Starting(c)
    BY <2>1 DEF Starting
  <2>3. Reads(s)'
    BY <1>18, <2>2 DEF PeerCloses, Reading, Reads
  <2>4. \A c \in Sessions \ {s} : Reads(c)'
    BY <1>18, <2>2 DEF PeerCloses, Reading, Reads
  <2> QED
    BY <2>3, <2>4 DEF Reading
<1> QED
  BY <1>1, <1>2, <1>3, <1>4, <1>5, <1>6, <1>7, <1>8, <1>9, <1>10, <1>11, <1>12,
     <1>13, <1>14, <1>15, <1>16, <1>17, <1>18
  DEF Next, Startup, Stop, Environment, Work, Handle, HandleDue, OffSessions

\* A session whose reads are counted is heard.
LEMMA SessionsAreRead == Types /\ Objects /\ Reading => NotDeaf
<1> SUFFICES ASSUME Types, Objects, Reading, NEW s \in Sessions
             PROVE  /\ reads[s] <= 1
                    /\ peer[s] = "open" =>
                      \/ accept[port[s]] = "ok" /\ newConnection[port[s]] = s
                      \/ \E t \in Threads : pc[t] = "connect" /\ newConnection[at[t]] = s
                      \/ reads[s] + (IF port[s] \in Echo THEN writes[s] ELSE 0) = 1
  BY DEF NotDeaf
<1>1. CASE Starting(s)
  <2>1. PICK p \in Ports :
          /\ newConnection[p] = s
          /\ accept[p] = "ok" \/ \E t \in Threads : pc[t] = "connect" /\ at[t] = p
    BY <1>1 DEF Starting
  <2>2. accept[p] = "ok" => port[s] = p
    BY <2>1 DEF Objects, Used
  <2> QED
    BY <2>1, <2>2 DEF Reading, Reads
<1>2. CASE ~Starting(s)
  BY <1>2 DEF Reading, Reads
<1> QED
  BY <1>1, <1>2

-----------------------------------------------------------------------------
(* Workers and stop()                                                        *)

LEMMA NextServed == Types /\ Chains /\ Served /\ [Next]_vars => Served'
<1> SUFFICES ASSUME Types, Chains, Served, [Next]_vars PROVE Served'
  OBVIOUS
<1> USE DEF startup, server, worker, session, stopping
<1>1. ASSUME LoadSettings PROVE Served'
  BY <1>1 DEF LoadSettings, Served, ServesOn, Stopped
<1>2. ASSUME LoadPlugins PROVE Served'
  BY <1>2 DEF LoadPlugins, Served, ServesOn, Stopped
<1>3. ASSUME StartFails PROVE Served'
  BY <1>3 DEF StartFails, Served, ServesOn, Stopped, Handling
<1>4. ASSUME StartThrows PROVE Served'
  BY <1>4 DEF StartThrows, Served, ServesOn, Stopped
<1>5. ASSUME PushListener PROVE Served'
  BY <1>5, NoneIsNoPort DEF PushListener, Types, Chains, Served, ServesOn, Stopped, Handling
<1>6. ASSUME FirstConnection PROVE Served'
  BY <1>6 DEF FirstConnection, Served, ServesOn, Stopped, Handling
<1>7. ASSUME FirstAccept PROVE Served'
  BY <1>7 DEF FirstAccept, StartAccept, Types, Served, ServesOn, Stopped, Handling
<1>8. ASSUME NEW p \in Ports, MakeListener(p) PROVE Served'
  BY <1>8, NoneIsNoPort DEF MakeListener, Served, ServesOn, Stopped, Handling
<1>9. ASSUME NEW t \in Threads, StartWorker(t) PROVE Served'
  <2>1. /\ UNCHANGED <<making, listeners, accept, broken, toCancel, stop, early, at>>
        /\ making = None /\ listeners = Ports /\ main' \notin {"settings", "plugins"}
    BY <1>9 DEF StartWorker
  <2>2. pc[t] = "unborn" /\ (pc' = pc \/ pc' = [pc EXCEPT ![t] = "idle"])
    BY <1>9 DEF StartWorker
  <2>3. \A u \in Threads, p \in Ports : Handling(u, p)' <=> Handling(u, p)
    BY <2>1, <2>2 DEF Handling, Types
  <2>4. ServesOn'
    BY <2>1, <2>2 DEF Served, ServesOn, Types
  <2> QED
    BY <2>1, <2>3, <2>4 DEF Served, Stopped
<1>10. ASSUME StopReset PROVE Served'
  BY <1>10 DEF StopReset, Served, ServesOn, Stopped
<1>11. ASSUME StopDone PROVE Served'
  BY <1>11 DEF StopDone, Served, ServesOn, Stopped, Handling
<1>12. ASSUME NEW p \in Ports, Cancel(p) PROVE Served'
  BY <1>12 DEF Cancel, Served, ServesOn, Stopped
<1>13. ASSUME NEW t \in Threads, Leave(t) PROVE Served'
  <2>1. /\ UNCHANGED <<main, making, listeners, accept, broken, toCancel, stop, early, at>>
        /\ pc[t] = "idle" /\ pc' = [pc EXCEPT ![t] = "gone"]
    BY <1>13 DEF Leave
  <2>2. making = None /\ listeners = Ports
    BY <2>1 DEF Served
  <2>3. Stopped \/ broken = Ports
    BY <1>13, <2>2, NoneIsNoPort DEF Leave, NoWork, Served, Types
  <2>4. \A u \in Threads, p \in Ports : Handling(u, p)' <=> Handling(u, p)
    BY <2>1 DEF Handling
  <2>5. ServesOn'
    BY <2>1, <2>3 DEF ServesOn, Stopped
  <2> QED
    BY <2>1, <2>4, <2>5 DEF Served, Stopped
<1>14. ASSUME NEW t \in Threads, OnConnection(t) PROVE Served'
  BY <1>14 DEF OnConnection, Types, Served, ServesOn, Stopped, Handling
<1>15. ASSUME NEW t \in Threads, Create(t) PROVE Served'
  BY <1>15 DEF Create, Served, ServesOn, Stopped, Handling
<1>16. ASSUME NEW t \in Threads, Accept(t) PROVE Served'
  BY <1>16 DEF Accept, StartAccept, Types, Served, ServesOn, Stopped, Handling
<1>17. ASSUME NEW t \in Threads, NEW p \in Ports, TakeAccept(t, p) PROVE Served'
  BY <1>17 DEF TakeAccept, Types, Served, ServesOn, Stopped, Handling
<1>18. ASSUME NEW t \in Threads, NEW p \in Ports, AcceptEnds(t, p) PROVE Served'
  BY <1>18 DEF AcceptEnds, Served, ServesOn, Stopped, Handling
<1>19. ASSUME NEW t \in Threads, NEW s \in Sessions, HandleRead(t, s) PROVE Served'
  BY <1>19 DEF HandleRead, Served, ServesOn, Stopped, Handling
<1>20. ASSUME NEW t \in Threads, NEW s \in Sessions, HandleReadEnd(t, s) PROVE Served'
  BY <1>20 DEF HandleReadEnd, Served, ServesOn, Stopped, Handling
<1>21. ASSUME NEW t \in Threads, NEW s \in Sessions, HandleWrite(t, s) PROVE Served'
  BY <1>21 DEF HandleWrite, Served, ServesOn, Stopped, Handling
<1>22. ASSUME NEW t \in Threads, NEW s \in Sessions, HandleProcessData(t, s) PROVE Served'
  BY <1>22 DEF HandleProcessData, Served, ServesOn, Stopped, Handling
<1>23. ASSUME NEW p \in Ports, Connect(p) PROVE Served'
  BY <1>23 DEF Connect, Served, ServesOn, Stopped, Handling
<1>24. ASSUME NEW p \in Ports, AcceptError(p) PROVE Served'
  BY <1>24 DEF AcceptError, Served, ServesOn, Stopped, Handling
<1>25. ASSUME NEW s \in Sessions, PeerCloses(s) PROVE Served'
  BY <1>25 DEF PeerCloses, Served, ServesOn, Stopped, Handling
<1>26. CASE UNCHANGED vars
  BY <1>26 DEF vars, Served, ServesOn, Stopped, Handling
<1> QED
  BY <1>1, <1>2, <1>3, <1>4, <1>5, <1>6, <1>7, <1>8, <1>9, <1>10, <1>11, <1>12,
     <1>13, <1>14, <1>15, <1>16, <1>17, <1>18, <1>19, <1>20, <1>21, <1>22, <1>23,
     <1>24, <1>25, <1>26
  DEF Next, Startup, Stop, Environment, Work, Handle, HandleDue

LEMMA NextClean == Types /\ Objects /\ Reading /\ Served /\ StopIsClean /\ [Next]_vars => StopIsClean'
<1> SUFFICES ASSUME Types, Objects, Reading, Served, StopIsClean, [Next]_vars PROVE StopIsClean'
  OBVIOUS
<1> USE DEF startup, server, worker, session, stopping
<1> SUFFICES ASSUME crashed = "no" PROVE StopIsClean'
  BY DEF Next, Ended, vars, StopIsClean
<1>1. ASSUME LoadSettings PROVE StopIsClean'
  BY <1>1 DEF LoadSettings, StopIsClean
<1>2. ASSUME LoadPlugins PROVE StopIsClean'
  BY <1>2 DEF LoadPlugins, StopIsClean
<1>3. ASSUME StartFails PROVE StopIsClean'
  BY <1>3 DEF StartFails, StopIsClean
<1>4. ASSUME StartThrows PROVE StopIsClean'
  BY <1>4 DEF StartThrows, StopIsClean
<1>5. ASSUME PushListener PROVE StopIsClean'
  BY <1>5 DEF PushListener, StopIsClean
<1>6. ASSUME FirstConnection PROVE StopIsClean'
  BY <1>6 DEF FirstConnection, Served, StopIsClean
<1>7. ASSUME FirstAccept PROVE StopIsClean'
  BY <1>7 DEF FirstAccept, StopIsClean
<1>8. ASSUME NEW p \in Ports, MakeListener(p) PROVE StopIsClean'
  BY <1>8 DEF MakeListener, StopIsClean
<1>9. ASSUME NEW t \in Threads, StartWorker(t) PROVE StopIsClean'
  BY <1>9 DEF StartWorker, StopIsClean
<1>10. ASSUME StopReset PROVE StopIsClean'
  BY <1>10 DEF StopReset, StopIsClean
<1>11. ASSUME StopDone PROVE StopIsClean'
  BY <1>11 DEF StopDone, StopIsClean
<1>12. ASSUME NEW p \in Ports, Cancel(p) PROVE StopIsClean'
  BY <1>12 DEF Cancel, StopIsClean
<1>13. ASSUME NEW t \in Threads, Leave(t) PROVE StopIsClean'
  BY <1>13 DEF Leave, StopIsClean
<1>14. ASSUME NEW t \in Threads, OnConnection(t) PROVE StopIsClean'
  BY <1>14 DEF OnConnection, StopIsClean
<1>15. ASSUME NEW t \in Threads, Create(t) PROVE StopIsClean'
  <2>1. at[t] \in Ports /\ Used(at[t])
    BY <1>15 DEF Create, Types, Objects
  <2> QED
    BY <1>15, <2>1 DEF Create, Used, StopIsClean
<1>16. ASSUME NEW t \in Threads, Accept(t) PROVE StopIsClean'
  BY <1>16 DEF Accept, StopIsClean
<1>17. ASSUME NEW t \in Threads, NEW p \in Ports, TakeAccept(t, p) PROVE StopIsClean'
  BY <1>17 DEF TakeAccept, StopIsClean
<1>18. ASSUME NEW t \in Threads, NEW p \in Ports, AcceptEnds(t, p) PROVE StopIsClean'
  BY <1>18 DEF AcceptEnds, StopIsClean
<1>19. ASSUME NEW t \in Threads, NEW s \in Sessions, HandleRead(t, s) PROVE StopIsClean'
  <2>1. peer[s] # "none" /\ UNCHANGED peer
    BY <1>19 DEF HandleRead, Reading, Reads
  <2> QED
    BY <2>1 DEF StopIsClean
<1>20. ASSUME NEW t \in Threads, NEW s \in Sessions, HandleReadEnd(t, s) PROVE StopIsClean'
  BY <1>20 DEF HandleReadEnd, StopIsClean
<1>21. ASSUME NEW t \in Threads, NEW s \in Sessions, HandleWrite(t, s) PROVE StopIsClean'
  BY <1>21 DEF HandleWrite, StopIsClean
<1>22. ASSUME NEW t \in Threads, NEW s \in Sessions, HandleProcessData(t, s) PROVE StopIsClean'
  BY <1>22 DEF HandleProcessData, StopIsClean
<1>23. ASSUME NEW p \in Ports, Connect(p) PROVE StopIsClean'
  BY <1>23 DEF Connect, StopIsClean
<1>24. ASSUME NEW p \in Ports, AcceptError(p) PROVE StopIsClean'
  BY <1>24 DEF AcceptError, StopIsClean
<1>25. ASSUME NEW s \in Sessions, PeerCloses(s) PROVE StopIsClean'
  BY <1>25 DEF PeerCloses, StopIsClean
<1>26. CASE UNCHANGED vars
  BY <1>26 DEF vars, StopIsClean
<1> QED
  BY <1>1, <1>2, <1>3, <1>4, <1>5, <1>6, <1>7, <1>8, <1>9, <1>10, <1>11, <1>12,
     <1>13, <1>14, <1>15, <1>16, <1>17, <1>18, <1>19, <1>20, <1>21, <1>22, <1>23,
     <1>24, <1>25, <1>26
  DEF Next, Startup, Stop, Environment, Work, Handle, HandleDue

-----------------------------------------------------------------------------
ServerInv == Types /\ Chains /\ Counted /\ Objects /\ Reading /\ Served /\ StopIsClean

LEMMA InitServer == Init => ServerInv
<1> SUFFICES ASSUME Init PROVE ServerInv
  OBVIOUS
<1> USE DEF Init
<1>1. Types
  <2>1. newConnection \in [Ports -> 0..made] /\ made \in Nat
    BY DEF None
  <2>2. making = None /\ step = "push" /\ listeners = {} /\ broken = {} /\ toCancel = {}
    OBVIOUS
  <2>3. accept \in [Ports -> {"none", "pending", "ok", "aborted", "failed"}]
    OBVIOUS
  <2>4. /\ pc \in [Threads -> {"unborn", "idle", "connect", "create", "accept", "gone"}]
        /\ at \in [Threads -> Ports \cup {None}] /\ \A t \in Threads : pc[t] = "unborn"
    OBVIOUS
  <2>5. /\ port \in [Sessions -> Ports \cup {None}]
        /\ peer \in [Sessions -> {"none", "open", "closed"}]
    OBVIOUS
  <2>6. /\ reads \in [Sessions -> Nat] /\ writes \in [Sessions -> Nat]
        /\ pending \in [Sessions -> Nat] /\ sent \in [Sessions -> Nat]
    OBVIOUS
  <2> QED
    BY <2>1, <2>3, <2>4, <2>5, <2>6 DEF Types
<1>2. Chains
  BY DEF Chains, Handling
<1>3. Counted
  <2>1. Clients = {} /\ Waiting = {}
    BY DEF Clients, Waiting, Vacant
  <2>2. Cardinality(Clients) = 0 /\ Cardinality(Waiting) = 0
    BY <2>1, FS_EmptySet
  <2> QED
    BY <2>2, Sizes DEF Counted
<1>4. Objects
  BY DEF Objects
<1>5. Reading
  BY ListenerAssumption DEF Reading, Reads, Starting, None
<1>6. Served
  BY DEF Served, ServesOn
<1>7. StopIsClean
  BY DEF StopIsClean
<1> QED
  BY <1>1, <1>2, <1>3, <1>4, <1>5, <1>6, <1>7 DEF ServerInv

LEMMA ServerInvariant == Spec => []ServerInv
<1>1. ServerInv /\ [Next]_vars => ServerInv'
  BY NextTypes, NextChains, NextCounted, NextObjects, NextReading, NextServed, NextClean
  DEF ServerInv
<1> QED
  BY <1>1, InitServer, PTL DEF Spec

(* A port has one accept, waiting or being handled by one worker, and a      *)
(* connection object of its own for it, whatever the workers and stop() do.  *)
THEOREM ChainsOfAccepts == Spec => []OneChain
<1>1. ServerInv => OneChain
  BY ChainsAreOne DEF ServerInv
<1> QED
  BY <1>1, ServerInvariant, PTL

(* A client that was accepted is listened to, with one read at a time.       *)
THEOREM ClientsAreHeard == Spec => []NotDeaf
<1>1. ServerInv => NotDeaf
  BY SessionsAreRead DEF ServerInv
<1> QED
  BY <1>1, ServerInvariant, PTL

(* The workers stay until stop(), unless no port accepts any more.           *)
THEOREM WorkersStay == Spec => []ServesOn
<1>1. ServerInv => ServesOn
  BY DEF ServerInv, Served
<1> QED
  BY <1>1, ServerInvariant, PTL

(* A server that is complete and that no client came to stops without use of *)
(* the io_service that stop() has freed.                                     *)
THEOREM StopsCleanly == Spec => []StopIsClean
<1>1. ServerInv => StopIsClean
  BY DEF ServerInv
<1> QED
  BY <1>1, ServerInvariant, PTL
==============================================================================
