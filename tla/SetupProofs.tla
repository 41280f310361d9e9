----------------------------- MODULE SetupProofs -----------------------------
(***************************************************************************)
(* What is set up before a connection comes.                               *)
(*                                                                         *)
(* Routes: what start-up leaves in port_mapping_ and routes_, and what a   *)
(* connection gets from them, for any plugins, ports and configuration.    *)
(* The argument follows each list as the configuration is read: a port is  *)
(* mapped from its first mapping on (Mapped), and a route holds what named *)
(* it so far (Routed); nothing changes once connections come (Entries).    *)
(*                                                                         *)
(* ServiceSetup: what "installed" says on Windows, and that a clean start  *)
(* is possible whatever earlier commands have left behind, for any paths   *)
(* and options.                                                            *)
(***************************************************************************)
EXTENDS Routes, ServiceSetup, SequenceTheorems, FiniteSetTheorems, TLAPS

-----------------------------------------------------------------------------
(* The tables                                                                *)

\* The values of the variables.
Types ==
  /\ phase \in {"plugins", "translators", "dispatchers", "serving", "failed"}
  /\ plugins \subseteq Uids /\ entry \in Uids \cup {NoUid}
  /\ portMapping \in [Ports -> Seq(Translators)]
  /\ instances \in Seq(Dispatchers) /\ dispatchers \in [Dispatchers -> Nat]
  /\ routes \in [Keys -> Seq(Nat)] /\ it \in Keys \cup {NoKey}
  /\ mapped \in Seq(Ports \X Translators) /\ sources \in Seq(Keys \X Nat)

\* A plugin that is not loaded has no entry; a session is set up when all are read.
Entries ==
  /\ phase = "translators" /\ entry # NoUid => entry \in LoadedTranslators
  /\ session # NoSession => phase = "serving"
  /\ \A p \in Ports : ToSet(portMapping[p]) \subseteq plugins

\* Of the mappings of p, the first and the last that is for another translator.
FirstFor(p, i) == i \in AskedFor(p) /\ \A j \in AskedFor(p) : i <= j

LastOther(p, i, l) ==
  /\ l \in AskedFor(p) /\ mapped[l][2] # mapped[i][2]
  /\ \A j \in AskedFor(p) : mapped[j][2] # mapped[i][2] => j <= l

Winner(p, i, u) ==
  \/ (\A j \in AskedFor(p) : mapped[j][2] = mapped[i][2]) /\ u = mapped[i][2]
  \/ \E l \in AskedFor(p) : LastOther(p, i, l) /\ u = mapped[l][2]

\* The first mapping keeps its place at the head, the winner is at the end.
Mapped ==
  \A p \in Ports : portMapping[p] # <<>> =>
    \E i \in AskedFor(p) :
      /\ FirstFor(p, i) /\ Head(portMapping[p]) = mapped[i][2]
      /\ Winner(p, i, Last(portMapping[p]))

\* A route has what names it, and nothing else.
Routed == \A k \in Keys : ToSet(routes[k]) = {sources[i][2] : i \in SourcesOf(k)}

RoutesInv ==
  /\ Types /\ Entries /\ MappedAsConfigured /\ Mapped /\ RoutesAsConfigured /\ Routed
  /\ SessionRouted

-----------------------------------------------------------------------------
(* Sequences and sets                                                        *)

\* The empty sequence.
LEMMA EmptySequence ==
  /\ Len(<<>>) = 0 /\ DOMAIN <<>> = {} /\ ToSet(<<>>) = {}
  /\ \A S : <<>> \in Seq(S)
<1>1. Len(<<>>) = 0 /\ \A S : <<>> \in Seq(S)
  OBVIOUS
<1>2. DOMAIN <<>> = {}
  OBVIOUS
<1> QED
  BY <1>1, <1>2 DEF ToSet

\* A sequence grows at its end.
LEMMA Grows ==
  ASSUME NEW S, NEW s \in Seq(S), NEW e \in S
  PROVE  /\ Append(s, e) \in Seq(S) /\ ToSet(Append(s, e)) = ToSet(s) \cup {e}
         /\ Len(s) \in Nat /\ DOMAIN s = 1..Len(s)
         /\ Len(Append(s, e)) = Len(s) + 1 /\ DOMAIN Append(s, e) = 1..Len(s) + 1
         /\ \A i \in 1..Len(s) : Append(s, e)[i] = s[i]
         /\ Append(s, e)[Len(s) + 1] = e
<1>1. /\ Append(s, e) \in Seq(S) /\ Len(Append(s, e)) = Len(s) + 1 /\ Len(s) \in Nat
      /\ \A i \in 1..Len(s) : Append(s, e)[i] = s[i]
      /\ Append(s, e)[Len(s) + 1] = e
  BY AppendProperties, LenProperties
<1>2. DOMAIN s = 1..Len(s) /\ DOMAIN Append(s, e) = 1..Len(s) + 1
  BY <1>1, LenProperties
<1>3. \A i \in 1..Len(s) + 1 : i \in 1..Len(s) \/ i = Len(s) + 1
  BY <1>1
<1>4. ToSet(Append(s, e)) = ToSet(s) \cup {e}
  BY <1>1, <1>2, <1>3 DEF ToSet
<1> QED
  BY <1>1, <1>2, <1>4

\* The least and the greatest member of a set that has one.
LEMMA Extremes ==
  ASSUME NEW S, S \subseteq Nat, NEW x \in S
  PROVE  /\ (\A y \in S : x <= y) => Min(S) = x
         /\ (\A y \in S : y <= x) => Max(S) = x
<1>1. ASSUME \A y \in S : x <= y PROVE Min(S) = x
  <2>1. \E m \in S : \A y \in S : m =< y
    BY <1>1
  <2>2. Min(S) \in S /\ \A y \in S : Min(S) =< y
    BY <2>1, Zenon DEF Min
  <2>3. Min(S) \in Nat /\ x \in Nat /\ Min(S) <= x /\ x <= Min(S)
    BY <1>1, <2>2
  <2> QED
    BY <2>3
<1>2. ASSUME \A y \in S : y <= x PROVE Max(S) = x
  <2>1. \E m \in S : \A y \in S : m >= y
    BY <1>2
  <2>2. Max(S) \in S /\ \A y \in S : Max(S) >= y
    BY <2>1, Zenon DEF Max
  <2>3. Max(S) \in Nat /\ x \in Nat /\ Max(S) >= x /\ x >= Max(S)
    BY <1>2, <2>2
  <2> QED
    BY <2>3
<1> QED
  BY <1>1, <1>2

-----------------------------------------------------------------------------
(* Steps                                                                     *)

\* What reading the configuration builds, and its history.
Configuration == <<portMapping, mapped, routes, sources>>

\* Only a mapping and a source add to what the configuration asked for.
LEMMA StepKinds ==
  ASSUME [Next]_vars
  PROVE  \/ UNCHANGED Configuration
         \/ UNCHANGED <<routes, sources>> /\ \E p \in Ports : MapPort(p)
         \/ UNCHANGED <<portMapping, mapped>> /\ \E k \in Keys : AddRoute(k)
<1> USE DEF Configuration
<1>1. CASE NextPhase \/ BadPort \/ UNCHANGED vars
  BY <1>1 DEF NextPhase, BadPort, vars
<1>2. ASSUME NEW u \in Uids, Load(u) \/ TranslatorEntry(u) \/ DispatcherEntry(u)
      PROVE  UNCHANGED Configuration
  BY <1>2 DEF Load, TranslatorEntry, DispatcherEntry
<1>3. ASSUME NEW p \in Ports, MapPort(p) PROVE UNCHANGED <<routes, sources>>
  BY <1>3 DEF MapPort
<1>4. ASSUME NEW p \in Ports, Connect(p) PROVE UNCHANGED Configuration
  BY <1>4 DEF Connect
<1>5. ASSUME NEW k \in Keys, AddRoute(k) PROVE UNCHANGED <<portMapping, mapped>>
  BY <1>5 DEF AddRoute
<1> QED
  BY <1>1, <1>2, <1>3, <1>4, <1>5 DEF Next

\* The uids of a mapping are of translators that are loaded.
LEMMA Mapping ==
  ASSUME Types, Entries, NEW p \in Ports, MapPort(p)
  PROVE  /\ entry \in Translators /\ entry \in plugins
         /\ mapped \in Seq(Ports \X Translators) /\ <<p, entry>> \in Ports \X Translators
         /\ mapped' = Append(mapped, <<p, entry>>) /\ portMapping[p] \in Seq(Translators)
         /\ \/ /\ portMapping[p] # <<>> /\ Head(portMapping[p]) = entry
               /\ UNCHANGED portMapping
            \/ /\ portMapping[p] = <<>> \/ Head(portMapping[p]) # entry
               /\ portMapping' = [portMapping EXCEPT ![p] = Append(@, entry)]
<1>1. entry \in LoadedTranslators
  BY DEF MapPort, Entries
<1> QED
  BY <1>1 DEF LoadedTranslators, MapPort, Types

LEMMA NextTypes == Types /\ Entries /\ [Next]_vars => Types'
<1> SUFFICES ASSUME Types, Entries, [Next]_vars PROVE Types'
  OBVIOUS
<1>1. CASE NextPhase
  BY <1>1 DEF NextPhase, Types
<1>2. CASE BadPort
  BY <1>2 DEF BadPort, Types
<1>3. ASSUME NEW u \in Uids, Load(u) PROVE Types'
  BY <1>3 DEF Load, Types
<1>4. ASSUME NEW u \in Uids, TranslatorEntry(u) PROVE Types'
  BY <1>4 DEF TranslatorEntry, Types
<1>5. ASSUME NEW u \in Uids, DispatcherEntry(u) PROVE Types'
  <2>1. CASE u \in LoadedDispatchers
    <3>1. u \in Dispatchers
      BY <2>1 DEF LoadedDispatchers
    <3>2. instances \in Seq(Dispatchers) /\ instances' = Append(instances, u)
      BY <1>5, <2>1 DEF DispatcherEntry, Types
    <3>3. instances' \in Seq(Dispatchers)
      BY <3>1, <3>2, AppendProperties
    <3>4. Len(instances') \in Nat
      BY <3>3, LenProperties
    <3> QED
      BY <1>5, <2>1, <3>3, <3>4 DEF DispatcherEntry, Types
  <2>2. CASE u \notin LoadedDispatchers
    BY <1>5, <2>2 DEF DispatcherEntry, Types
  <2> QED
    BY <2>1, <2>2
<1>6. ASSUME NEW p \in Ports, MapPort(p) PROVE Types'
  <2> DEFINE e == <<p, entry>>
  <2>0. /\ mapped \in Seq(Ports \X Translators) /\ e \in Ports \X Translators
        /\ mapped' = Append(mapped, e)
    BY <1>6, Mapping
  <2> HIDE DEF e
  <2>1. mapped' \in Seq(Ports \X Translators)
    BY <2>0, AppendProperties
  <2>2. portMapping' \in [Ports -> Seq(Translators)]
    <3>1. Append(portMapping[p], entry) \in Seq(Translators)
      BY <1>6, Mapping, AppendProperties
    <3>2. \/ UNCHANGED portMapping
          \/ portMapping' = [portMapping EXCEPT ![p] = Append(portMapping[p], entry)]
      BY <1>6, Mapping
    <3>3. portMapping \in [Ports -> Seq(Translators)]
      BY DEF Types
    <3> QED
      BY <3>1, <3>2, <3>3
  <2> QED
    BY <1>6, <2>1, <2>2 DEF MapPort, Types
<1>7. ASSUME NEW p \in Ports, Connect(p) PROVE Types'
  BY <1>7 DEF Connect, Types
<1>8. ASSUME NEW k \in Keys, AddRoute(k) PROVE Types'
  <2>1. Len(instances) \in Nat
    BY LenProperties DEF Types
  <2>2. sources' \in Seq(Keys \X Nat) /\ Append(routes[k], Len(instances)) \in Seq(Nat)
    BY <1>8, <2>1, Grows DEF AddRoute, Types
  <2>3. it' = k /\ routes' = [routes EXCEPT ![k] = Append(routes[k], Len(instances))]
    BY <1>8 DEF AddRoute
  <2> QED
    BY <1>8, <2>2, <2>3 DEF AddRoute, Types
<1>9. CASE UNCHANGED vars
  BY <1>9 DEF vars, Types
<1> QED
  BY <1>1, <1>2, <1>3, <1>4, <1>5, <1>6, <1>7, <1>8, <1>9 DEF Next

LEMMA NextEntries == Types /\ Entries /\ [Next]_vars => Entries'
<1> SUFFICES ASSUME Types, Entries, [Next]_vars PROVE Entries'
  OBVIOUS
<1> USE DEF LoadedTranslators
<1>1. CASE NextPhase
  BY <1>1 DEF NextPhase, Entries
<1>2. CASE BadPort
  BY <1>2 DEF BadPort, Entries
<1>3. ASSUME NEW u \in Uids, Load(u) PROVE Entries'
  BY <1>3 DEF Load, Entries
<1>4. ASSUME NEW u \in Uids, TranslatorEntry(u) PROVE Entries'
  BY <1>4 DEF TranslatorEntry, Entries
<1>5. ASSUME NEW u \in Uids, DispatcherEntry(u) PROVE Entries'
  BY <1>5 DEF DispatcherEntry, Entries
<1>6. ASSUME NEW p \in Ports, MapPort(p) PROVE Entries'
  <2>1. \A q \in Ports : ToSet(portMapping'[q]) \subseteq plugins
    <3>1. entry \in Translators /\ entry \in plugins /\ portMapping[p] \in Seq(Translators)
      BY <1>6, Mapping
    <3>2. ToSet(Append(portMapping[p], entry)) = ToSet(portMapping[p]) \cup {entry}
      BY <3>1, Grows
    <3> QED
      BY <1>6, <3>1, <3>2, Mapping DEF Entries, Types
  <2> QED
    BY <1>6, <2>1 DEF MapPort, Entries
<1>7. ASSUME NEW p \in Ports, Connect(p) PROVE Entries'
  BY <1>7 DEF Connect, Entries
<1>8. ASSUME NEW k \in Keys, AddRoute(k) PROVE Entries'
  BY <1>8 DEF AddRoute, Entries
<1>9. CASE UNCHANGED vars
  BY <1>9 DEF vars, Entries
<1> QED
  BY <1>1, <1>2, <1>3, <1>4, <1>5, <1>6, <1>7, <1>8, <1>9 DEF Next

-----------------------------------------------------------------------------
(* Ports and translators                                                     *)

\* The translators that ask for a port.
Wanted(p) == {mapped[i][2] : i \in AskedFor(p)}

\* A mapping is read: what was asked before keeps its place.
LEMMA OneMapping ==
  ASSUME Types, Entries, NEW p \in Ports, MapPort(p)
  PROVE  /\ Len(mapped) \in Nat /\ Len(mapped) + 1 \in AskedFor(p)'
         /\ mapped'[Len(mapped) + 1][2] = entry
         /\ AskedFor(p)' = AskedFor(p) \cup {Len(mapped) + 1}
         /\ \A q \in Ports : AskedFor(q) \subseteq 1..Len(mapped)
         /\ \A q \in Ports \ {p} : AskedFor(q)' = AskedFor(q)
         /\ \A i \in 1..Len(mapped) : mapped'[i] = mapped[i]
         /\ Wanted(p)' = Wanted(p) \cup {entry}
         /\ \A q \in Ports \ {p} : Wanted(q)' = Wanted(q)
<1>1. PICK e \in Ports \X Translators : e = <<p, entry>>
  BY Mapping
<1>2. mapped \in Seq(Ports \X Translators) /\ mapped' = Append(mapped, e)
  BY <1>1, Mapping
<1>3. /\ Len(mapped) \in Nat /\ DOMAIN mapped = 1..Len(mapped)
      /\ DOMAIN mapped' = 1..Len(mapped) + 1
      /\ \A i \in 1..Len(mapped) : mapped'[i] = mapped[i]
      /\ mapped'[Len(mapped) + 1] = e
  BY <1>2, Grows
<1>4. \A i \in 1..Len(mapped) + 1 : i \in 1..Len(mapped) \/ i = Len(mapped) + 1
  BY <1>3
<1>5. /\ AskedFor(p)' = AskedFor(p) \cup {Len(mapped) + 1}
      /\ \A q \in Ports : AskedFor(q) \subseteq 1..Len(mapped)
      /\ \A q \in Ports \ {p} : AskedFor(q)' = AskedFor(q)
  BY <1>1, <1>3, <1>4 DEF AskedFor
<1>6. \A q \in Ports \ {p} : Wanted(q)' = Wanted(q)
  BY <1>3, <1>5 DEF Wanted
<1>7. Wanted(p)' = Wanted(p) \cup {entry}
  BY <1>1, <1>3, <1>5 DEF Wanted
<1> QED
  BY <1>1, <1>3, <1>5, <1>6, <1>7

\* A mapping adds the translator that asks, unless it is there already.
LEMMA NextMappedAs ==
  Types /\ Entries /\ MappedAsConfigured /\ [Next]_vars => MappedAsConfigured'
<1> SUFFICES ASSUME Types, Entries, MappedAsConfigured, [Next]_vars PROVE MappedAsConfigured'
  OBVIOUS
<1>1. CASE UNCHANGED <<portMapping, mapped>>
  BY <1>1 DEF MappedAsConfigured, AskedFor
<1>2. ASSUME NEW p \in Ports, MapPort(p) PROVE MappedAsConfigured'
  <2>1. \A q \in Ports : ToSet(portMapping[q]) = Wanted(q)
    BY DEF MappedAsConfigured, Wanted
  <2>2. Wanted(p)' = Wanted(p) \cup {entry} /\ \A q \in Ports \ {p} : Wanted(q)' = Wanted(q)
    BY <1>2, OneMapping
  <2>3. /\ entry \in Translators /\ portMapping[p] \in Seq(Translators)
        /\ portMapping \in [Ports -> Seq(Translators)]
    BY <1>2, Mapping DEF Types
  <2>4. CASE portMapping[p] # <<>> /\ Head(portMapping[p]) = entry /\ UNCHANGED portMapping
    <3>1. entry \in ToSet(portMapping[p])
      <4>1. portMapping[p][1] = entry /\ 1 \in DOMAIN portMapping[p]
        BY <2>3, <2>4, HeadTailProperties, EmptySeq, LenProperties
      <4> QED
        BY <4>1 DEF ToSet
    <3>2. \A q \in Ports : ToSet(portMapping'[q]) = Wanted(q)'
      BY <2>1, <2>2, <2>4, <3>1
    <3> QED
      BY <2>4, <3>2 DEF MappedAsConfigured, Wanted
  <2>5. CASE /\ portMapping[p] = <<>> \/ Head(portMapping[p]) # entry
             /\ portMapping' = [portMapping EXCEPT ![p] = Append(@, entry)]
    <3>1. PICK s \in Seq(Translators) : s = portMapping[p]
      BY <2>3
    <3>2. portMapping'[p] = Append(s, entry) /\ \A q \in Ports \ {p} : portMapping'[q] = portMapping[q]
      BY <2>3, <2>5, <3>1
    <3>3. /\ ToSet(Append(s, entry)) = ToSet(s) \cup {entry} /\ Len(s) \in Nat
          /\ DOMAIN s = 1..Len(s) /\ DOMAIN Append(s, entry) = 1..Len(s) + 1
          /\ \A i \in 1..Len(s) : Append(s, entry)[i] = s[i]
          /\ Append(s, entry)[Len(s) + 1] = entry
      BY <2>3, Grows
    <3>4. Len(s) >= 1 => s[1] # entry
      BY <2>5, <3>1, EmptySequence, HeadTailProperties
    <3>5. \A i, j \in DOMAIN portMapping'[p] :
            i < j /\ portMapping'[p][i] = portMapping'[p][j] => i > 1
      BY <3>1, <3>2, <3>3, <3>4 DEF MappedAsConfigured
    <3>6. \A q \in Ports : ToSet(portMapping'[q]) = Wanted(q)'
      BY <2>1, <2>2, <3>1, <3>2, <3>3
    <3>7. \A q \in Ports : \A i, j \in DOMAIN portMapping'[q] :
            i < j /\ portMapping'[q][i] = portMapping'[q][j] => i > 1
      BY <3>2, <3>5 DEF MappedAsConfigured
    <3> QED
      BY <3>6, <3>7 DEF MappedAsConfigured, Wanted
  <2> QED
    BY <1>2, <2>4, <2>5, Mapping
<1> QED
  BY <1>1, <1>2, StepKinds DEF Configuration

\* A mapping of a port that has one already.
LEMMA AnotherMapping ==
  ASSUME Types, Entries, NEW p \in Ports, MapPort(p), NEW i \in AskedFor(p), FirstFor(p, i)
  PROVE  /\ i \in AskedFor(p)' /\ mapped'[i] = mapped[i] /\ FirstFor(p, i)'
         /\ mapped[i][2] # entry => Winner(p, i, entry)'
         /\ mapped[i][2] = entry => \A u : Winner(p, i, u) => Winner(p, i, u)'
<1>1. /\ AskedFor(p) \subseteq 1..Len(mapped) /\ Len(mapped) \in Nat
      /\ AskedFor(p)' = AskedFor(p) \cup {Len(mapped) + 1}
      /\ mapped'[Len(mapped) + 1][2] = entry
      /\ \A j \in 1..Len(mapped) : mapped'[j] = mapped[j]
  BY OneMapping
<1>2. \A j \in AskedFor(p) : j <= Len(mapped) /\ j \in Nat /\ mapped'[j] = mapped[j]
  BY <1>1
<1>3. FirstFor(p, i)'
  BY <1>1, <1>2 DEF FirstFor
<1>4. ASSUME mapped[i][2] # entry PROVE Winner(p, i, entry)'
  <2>1. PICK l \in Nat : l = Len(mapped) + 1
    BY <1>1
  <2>2. l \in AskedFor(p)' /\ mapped'[l][2] = entry /\ mapped'[i] = mapped[i]
    BY <1>1, <1>2, <2>1
  <2>3. \A j \in AskedFor(p)' : j <= l
    BY <1>1, <1>2, <2>1
  <2>4. LastOther(p, i, l)'
    BY <1>4, <2>2, <2>3 DEF LastOther
  <2>5. UNCHANGED entry
    BY DEF MapPort
  <2> QED
    BY <2>2, <2>4, <2>5 DEF Winner
<1>5. ASSUME mapped[i][2] = entry, NEW u, Winner(p, i, u) PROVE Winner(p, i, u)'
  BY <1>1, <1>2, <1>5 DEF Winner, LastOther
<1> QED
  BY <1>1, <1>2, <1>3, <1>4, <1>5

\* A mapping keeps the head, and the last one for another translator is at the end.
LEMMA NextMapped ==
  Types /\ Entries /\ MappedAsConfigured /\ Mapped /\ [Next]_vars => Mapped'
<1> SUFFICES ASSUME Types, Entries, MappedAsConfigured, Mapped, [Next]_vars PROVE Mapped'
  OBVIOUS
<1>1. CASE UNCHANGED <<portMapping, mapped>>
  BY <1>1 DEF Mapped, FirstFor, Winner, LastOther, AskedFor
<1>2. ASSUME NEW p \in Ports, MapPort(p) PROVE Mapped'
  <2> DEFINE Good(q) == \E i \in AskedFor(q) :
                          /\ FirstFor(q, i) /\ Head(portMapping[q]) = mapped[i][2]
                          /\ Winner(q, i, Last(portMapping[q]))
  <2>1. ASSUME NEW q \in Ports \ {p}, portMapping'[q] # <<>> PROVE Good(q)'
    <3>1. portMapping'[q] = portMapping[q]
      BY <1>2, <2>1, Mapping DEF Types
    <3>2. AskedFor(q)' = AskedFor(q) /\ \A i \in AskedFor(q) : mapped'[i] = mapped[i]
      BY <1>2, OneMapping
    <3> QED
      BY <2>1, <3>1, <3>2 DEF Mapped, FirstFor, Winner, LastOther
  <2>2. /\ entry \in Translators /\ portMapping[p] \in Seq(Translators)
        /\ portMapping \in [Ports -> Seq(Translators)]
    BY <1>2, Mapping DEF Types
  <2>3. CASE portMapping[p] # <<>> /\ Head(portMapping[p]) = entry /\ UNCHANGED portMapping
    <3>1. PICK i \in AskedFor(p) :
            /\ FirstFor(p, i) /\ Head(portMapping[p]) = mapped[i][2]
            /\ Winner(p, i, Last(portMapping[p]))
      BY <2>3 DEF Mapped
    <3>2. Good(p)'
      BY <1>2, <2>3, <3>1, AnotherMapping
    <3> QED
      BY <2>1, <3>2 DEF Mapped
  <2>4. CASE /\ portMapping[p] = <<>> \/ Head(portMapping[p]) # entry
             /\ portMapping' = [portMapping EXCEPT ![p] = Append(@, entry)]
    <3>1. PICK s \in Seq(Translators) : s = portMapping[p]
      BY <2>2
    <3>2. portMapping'[p] = Append(s, entry)
      BY <2>2, <2>4, <3>1
    <3>3. Last(Append(s, entry)) = entry
      BY <2>2, Grows DEF Last
    <3>4. CASE s = <<>>
      <4>1. Wanted(p) = {}
        BY <3>1, <3>4, EmptySequence DEF MappedAsConfigured, Wanted
      <4>2. AskedFor(p) = {}
        BY <4>1 DEF Wanted
      <4>3. Head(Append(s, entry)) = entry
        BY <3>4
      <4>4. /\ AskedFor(p)' = {Len(mapped) + 1} /\ Len(mapped) \in Nat
            /\ mapped'[Len(mapped) + 1][2] = entry
        BY <1>2, <4>2, OneMapping
      <4>5. Good(p)'
        BY <3>2, <3>3, <4>3, <4>4 DEF FirstFor, Winner
      <4> QED
        BY <2>1, <4>5 DEF Mapped
    <3>5. CASE s # <<>>
      <4>1. PICK i \in AskedFor(p) : FirstFor(p, i) /\ Head(s) = mapped[i][2]
        BY <3>1, <3>5 DEF Mapped
      <4>2. Head(Append(s, entry)) = Head(s)
        BY <2>2, <3>5, HeadTailProperties, EmptySeq, LenProperties, AppendProperties
      <4>3. mapped[i][2] # entry
        BY <2>4, <3>1, <3>5, <4>1
      <4>4. /\ i \in AskedFor(p)' /\ mapped'[i] = mapped[i] /\ FirstFor(p, i)'
            /\ Winner(p, i, entry)'
        BY <1>2, <4>1, <4>3, AnotherMapping
      <4>5. Good(p)'
        BY <1>2, <3>2, <3>3, <4>1, <4>2, <4>4 DEF Winner, MapPort
      <4> QED
        BY <2>1, <4>5 DEF Mapped
    <3> QED
      BY <3>4, <3>5
  <2> QED
    BY <1>2, <2>3, <2>4, Mapping
<1> QED
  BY <1>1, <1>2, StepKinds DEF Configuration

-----------------------------------------------------------------------------
(* Routes                                                                    *)

\* A source is read: what was named before keeps its place.
LEMMA OneSource ==
  ASSUME Types, NEW k \in Keys, AddRoute(k)
  PROVE  \E m \in Nat :
           /\ m = Len(sources) + 1 /\ SourcesOf(k)' = SourcesOf(k) \cup {m}
           /\ sources'[m][2] = Len(instances)
           /\ \A l \in Keys : SourcesOf(l) \subseteq 1..Len(sources)
           /\ \A l \in Keys \ {k} : SourcesOf(l)' = SourcesOf(l)
           /\ \A i \in 1..Len(sources) : sources'[i] = sources[i]
           /\ routes[k] \in Seq(Nat) /\ Len(instances) \in Nat
           /\ routes' = [routes EXCEPT ![k] = Append(routes[k], Len(instances))]
<1>1. Len(instances) \in Nat
  BY LenProperties DEF Types
<1>2. PICK e \in Keys \X Nat : e = <<k, Len(instances)>>
  BY <1>1
<1>3. sources \in Seq(Keys \X Nat) /\ sources' = Append(sources, e)
  BY <1>2 DEF AddRoute, Types
<1>4. /\ Len(sources) \in Nat /\ DOMAIN sources = 1..Len(sources)
      /\ DOMAIN sources' = 1..Len(sources) + 1
      /\ \A i \in 1..Len(sources) : sources'[i] = sources[i]
      /\ sources'[Len(sources) + 1] = e
  BY <1>3, Grows
<1>5. \A i \in 1..Len(sources) + 1 : i \in 1..Len(sources) \/ i = Len(sources) + 1
  BY <1>4
<1>6. /\ SourcesOf(k)' = SourcesOf(k) \cup {Len(sources) + 1}
      /\ \A l \in Keys : SourcesOf(l) \subseteq 1..Len(sources)
      /\ \A l \in Keys \ {k} : SourcesOf(l)' = SourcesOf(l)
  BY <1>2, <1>4, <1>5 DEF SourcesOf
<1>7. routes[k] \in Seq(Nat) /\ routes' = [routes EXCEPT ![k] = Append(routes[k], Len(instances))]
  BY DEF AddRoute, Types
<1> QED
  BY <1>1, <1>2, <1>4, <1>6, <1>7

\* The place of a source among those of its route.
LEMMA Places ==
  ASSUME NEW N \in Nat, NEW S, S \subseteq 1..N
  PROVE  /\ Cardinality(S) \in Nat /\ Cardinality(S \cup {N + 1}) = Cardinality(S) + 1
         /\ \A i \in S : /\ Cardinality(S \cap 1..i) \in 1..Cardinality(S)
                         /\ (S \cup {N + 1}) \cap 1..i = S \cap 1..i
         /\ (S \cup {N + 1}) \cap 1..N + 1 = S \cup {N + 1}
<1>1. IsFiniteSet(1..N)
  BY FS_Interval
<1>2. IsFiniteSet(S) /\ Cardinality(S) \in Nat /\ N + 1 \notin S
  <2>1. IsFiniteSet(S)
    BY <1>1, FS_Subset
  <2>2. N + 1 \notin 1..N
    OBVIOUS
  <2> QED
    BY <2>1, <2>2, FS_CardinalityType
<1>3. Cardinality(S \cup {N + 1}) = Cardinality(S) + 1
  BY <1>2, FS_AddElement
<1>4. ASSUME NEW i \in S
      PROVE  /\ Cardinality(S \cap 1..i) \in 1..Cardinality(S)
             /\ (S \cup {N + 1}) \cap 1..i = S \cap 1..i
  <2>1. i \in S \cap 1..i /\ S \cap 1..i \subseteq S
    OBVIOUS
  <2>2. IsFiniteSet(S \cap 1..i) /\ Cardinality(S \cap 1..i) <= Cardinality(S)
    BY <1>2, <2>1, FS_Subset
  <2>3. Cardinality(S \cap 1..i) # 0 /\ Cardinality(S \cap 1..i) \in Nat
    BY <2>1, <2>2, FS_EmptySet, FS_CardinalityType
  <2>4. (S \cup {N + 1}) \cap 1..i = S \cap 1..i
    OBVIOUS
  <2> QED
    BY <1>2, <2>2, <2>3, <2>4
<1>5. (S \cup {N + 1}) \cap 1..N + 1 = S \cup {N + 1}
  <2>1. 1..N \subseteq 1..N + 1 /\ N + 1 \in 1..N + 1
    OBVIOUS
  <2>2. S \subseteq 1..N + 1
    BY <2>1
  <2> QED
    BY <2>1, <2>2
<1> QED
  BY <1>2, <1>3, <1>4, <1>5

\* A source is added to its own route only, at the end.
LEMMA NextRoutesAs == Types /\ RoutesAsConfigured /\ [Next]_vars => RoutesAsConfigured'
<1> SUFFICES ASSUME Types, RoutesAsConfigured, [Next]_vars PROVE RoutesAsConfigured'
  OBVIOUS
<1>1. CASE UNCHANGED <<routes, sources>>
  BY <1>1 DEF RoutesAsConfigured, SourcesOf
<1>2. ASSUME NEW k \in Keys, AddRoute(k) PROVE RoutesAsConfigured'
  <2>1. PICK m \in Nat :
           /\ m = Len(sources) + 1 /\ SourcesOf(k)' = SourcesOf(k) \cup {m}
           /\ sources'[m][2] = Len(instances)
           /\ \A l \in Keys : SourcesOf(l) \subseteq 1..Len(sources)
           /\ \A l \in Keys \ {k} : SourcesOf(l)' = SourcesOf(l)
           /\ \A i \in 1..Len(sources) : sources'[i] = sources[i]
           /\ routes[k] \in Seq(Nat) /\ Len(instances) \in Nat
           /\ routes' = [routes EXCEPT ![k] = Append(routes[k], Len(instances))]
    BY <1>2, OneSource
  <2>2. Len(sources) \in Nat /\ routes \in [Keys -> Seq(Nat)]
    BY LenProperties DEF Types
  <2>3. PICK S : S = SourcesOf(k)
    OBVIOUS
  <2>4. PICK N \in Nat : N = Len(sources)
    BY <2>2
  <2>5. /\ Cardinality(S) \in Nat /\ Cardinality(S \cup {m}) = Cardinality(S) + 1
        /\ \A i \in S : /\ Cardinality(S \cap 1..i) \in 1..Cardinality(S)
                        /\ (S \cup {m}) \cap 1..i = S \cap 1..i
        /\ (S \cup {m}) \cap 1..m = S \cup {m}
    <3>1. S \subseteq 1..N /\ m = N + 1
      BY <2>1, <2>3, <2>4
    <3> QED
      BY <3>1, Places
  <2>6. PICK s \in Seq(Nat) : s = routes[k]
    BY <2>1
  <2>7. /\ Len(s) = Cardinality(S)
        /\ \A i \in S : s[Cardinality(S \cap 1..i)] = sources[i][2]
    BY <2>3, <2>6 DEF RoutesAsConfigured
  <2>8. /\ routes'[k] = Append(s, Len(instances))
        /\ \A l \in Keys \ {k} : routes'[l] = routes[l]
    BY <2>1, <2>2, <2>6
  <2>9. /\ Len(Append(s, Len(instances))) = Cardinality(S) + 1
        /\ \A j \in 1..Cardinality(S) : Append(s, Len(instances))[j] = s[j]
        /\ Append(s, Len(instances))[Cardinality(S) + 1] = Len(instances)
    BY <2>1, <2>7, Grows
  <2>10. /\ Len(routes'[k]) = Cardinality(SourcesOf(k)')
         /\ \A i \in SourcesOf(k)' : routes'[k][Cardinality(SourcesOf(k)' \cap 1..i)] = sources'[i][2]
    <3>1. Len(routes'[k]) = Cardinality(S \cup {m})
      BY <2>5, <2>8, <2>9
    <3>2. ASSUME NEW i \in S PROVE routes'[k][Cardinality((S \cup {m}) \cap 1..i)] = sources'[i][2]
      <4>1. sources'[i] = sources[i]
        BY <2>1, <2>3
      <4> QED
        BY <2>5, <2>7, <2>8, <2>9, <4>1
    <3>3. routes'[k][Cardinality((S \cup {m}) \cap 1..m)] = sources'[m][2]
      BY <2>1, <2>5, <2>8, <2>9
    <3> QED
      BY <2>1, <2>3, <3>1, <3>2, <3>3
  <2>11. ASSUME NEW l \in Keys \ {k}
         PROVE  /\ Len(routes'[l]) = Cardinality(SourcesOf(l)')
                /\ \A i \in SourcesOf(l)' :
                     routes'[l][Cardinality(SourcesOf(l)' \cap 1..i)] = sources'[i][2]
    <3>1. SourcesOf(l)' = SourcesOf(l) /\ routes'[l] = routes[l]
          /\ \A i \in SourcesOf(l) : sources'[i] = sources[i]
      BY <2>1, <2>8
    <3>2. PICK T : T = SourcesOf(l)
      OBVIOUS
    <3>3. /\ Len(routes[l]) = Cardinality(T)
          /\ \A i \in T : routes[l][Cardinality(T \cap 1..i)] = sources[i][2]
      BY <3>2 DEF RoutesAsConfigured
    <3> QED
      BY <3>1, <3>2, <3>3
  <2> QED
    BY <2>10, <2>11 DEF RoutesAsConfigured
<1> QED
  BY <1>1, <1>2, StepKinds DEF Configuration

\* The dispatchers that name a route.
Named(k) == {sources[i][2] : i \in SourcesOf(k)}

LEMMA NextRouted == Types /\ Routed /\ [Next]_vars => Routed'
<1> SUFFICES ASSUME Types, Routed, [Next]_vars PROVE Routed'
  OBVIOUS
<1>1. CASE UNCHANGED <<routes, sources>>
  BY <1>1 DEF Routed, SourcesOf
<1>2. ASSUME NEW k \in Keys, AddRoute(k) PROVE Routed'
  <2>1. PICK m \in Nat :
           /\ m = Len(sources) + 1 /\ SourcesOf(k)' = SourcesOf(k) \cup {m}
           /\ sources'[m][2] = Len(instances)
           /\ \A l \in Keys : SourcesOf(l) \subseteq 1..Len(sources)
           /\ \A l \in Keys \ {k} : SourcesOf(l)' = SourcesOf(l)
           /\ \A i \in 1..Len(sources) : sources'[i] = sources[i]
           /\ routes[k] \in Seq(Nat) /\ Len(instances) \in Nat
           /\ routes' = [routes EXCEPT ![k] = Append(routes[k], Len(instances))]
    BY <1>2, OneSource
  <2>2. \A l \in Keys : ToSet(routes[l]) = Named(l)
    BY DEF Routed, Named
  <2>3. Named(k)' = Named(k) \cup {Len(instances)}
    BY <2>1 DEF Named
  <2>4. \A l \in Keys \ {k} : Named(l)' = Named(l)
    BY <2>1 DEF Named
  <2>5. PICK s \in Seq(Nat) : s = routes[k]
    BY <2>1
  <2>6. ToSet(Append(s, Len(instances))) = ToSet(s) \cup {Len(instances)}
    BY <2>1, Grows
  <2>7. /\ routes'[k] = Append(s, Len(instances))
        /\ \A l \in Keys \ {k} : routes'[l] = routes[l]
    BY <2>1, <2>5 DEF Types
  <2>8. \A l \in Keys : ToSet(routes'[l]) = Named(l)'
    BY <2>2, <2>3, <2>4, <2>5, <2>6, <2>7
  <2> QED
    BY <2>8 DEF Routed, Named
<1> QED
  BY <1>1, <1>2, StepKinds DEF Configuration

-----------------------------------------------------------------------------
(* Sessions                                                                  *)

\* The winner of a port, as SessionRouted puts it.
LEMMA WinnerIs ==
  ASSUME Types, NEW p \in Ports, NEW i \in AskedFor(p), FirstFor(p, i), NEW u, Winner(p, i, u)
  PROVE  LET first  == mapped[Min(AskedFor(p))][2]
             others == {j \in AskedFor(p) : mapped[j][2] # first}
         IN  u = IF others = {} THEN first ELSE mapped[Max(others)][2]
<1> DEFINE others == {j \in AskedFor(p) : mapped[j][2] # mapped[i][2]}
<1>1. AskedFor(p) \subseteq Nat
  <2>1. DOMAIN mapped = 1..Len(mapped) /\ Len(mapped) \in Nat
    BY LenProperties DEF Types
  <2> QED
    BY <2>1 DEF AskedFor
<1>2. Min(AskedFor(p)) = i
  BY <1>1, Extremes DEF FirstFor
<1>3. CASE others = {}
  BY <1>2, <1>3 DEF Winner, LastOther
<1>4. CASE others # {}
  <2>1. PICK l \in AskedFor(p) : LastOther(p, i, l) /\ u = mapped[l][2]
    BY <1>4 DEF Winner
  <2>2. l \in others /\ others \subseteq Nat /\ \A j \in others : j <= l
    BY <1>1, <2>1 DEF LastOther
  <2>3. Max(others) = l
    BY <2>2, Extremes
  <2> QED
    BY <1>2, <1>4, <2>1, <2>3
<1> QED
  BY <1>3, <1>4

\* A connection is set up.
LEMMA Connected ==
  ASSUME Types, Entries, Mapped, Routed, NEW p \in Ports, Connect(p)
  PROVE  SessionRouted'
<1>1. PICK u : u = Last(portMapping[p])
  OBVIOUS
<1>2. /\ portMapping[p] # <<>> /\ session'.port = p /\ session'.translator = u
      /\ session'.targets = routes[<<p, u>>]
      /\ UNCHANGED <<plugins, mapped, sources>>
  BY <1>1 DEF Connect, Listeners, PortTranslator
<1>3. PICK i \in AskedFor(p) : FirstFor(p, i) /\ Winner(p, i, u)
  BY <1>1, <1>2 DEF Mapped
<1>4. LET first  == mapped[Min(AskedFor(p))][2]
          others == {j \in AskedFor(p) : mapped[j][2] # first}
      IN  u = IF others = {} THEN first ELSE mapped[Max(others)][2]
  BY <1>3, WinnerIs
<1>5. u \in Translators /\ u \in plugins
  <2>1. portMapping[p] \in Seq(Translators) /\ Len(portMapping[p]) \in Nat
    BY LenProperties DEF Types
  <2>2. Len(portMapping[p]) \in DOMAIN portMapping[p]
    BY <1>2, <2>1, EmptySeq, LenProperties
  <2>3. u \in ToSet(portMapping[p]) /\ u \in Translators
    BY <1>1, <2>1, <2>2, ElementOfSeq, LenProperties DEF Last, ToSet
  <2> QED
    BY <2>3 DEF Entries
<1>6. ToSet(routes[<<p, u>>]) = {sources[j][2] : j \in SourcesOf(<<p, u>>)}
  BY <1>5 DEF Routed, Keys
<1>7. AskedFor(p)' = AskedFor(p) /\ SourcesOf(<<p, u>>)' = SourcesOf(<<p, u>>)
  BY <1>2 DEF AskedFor, SourcesOf
<1>8. LET first  == mapped'[Min(AskedFor(p)')][2]
          others == {j \in AskedFor(p)' : mapped'[j][2] # first}
      IN  u = IF others = {} THEN first ELSE mapped'[Max(others)][2]
  BY <1>2, <1>4, <1>7
<1>9. u \in plugins' /\ ToSet(session'.targets) = {sources'[j][2] : j \in SourcesOf(<<p, u>>)'}
  BY <1>2, <1>5, <1>6, <1>7
<1> DEFINE Asks(q) == {j \in DOMAIN mapped' : mapped'[j][1] = q}
           first(q) == mapped'[Min(Asks(q))][2]
           others(q) == {j \in Asks(q) : mapped'[j][2] # first(q)}
           RoutedTo(q, v, targets) ==
             /\ v = IF others(q) = {} THEN first(q) ELSE mapped'[Max(others(q))][2]
             /\ v \in plugins'
             /\ ToSet(targets) =
                  {sources'[j][2] : j \in {j \in DOMAIN sources' : sources'[j][1] = <<q, v>>}}
<1>10. RoutedTo(p, u, session'.targets)
  BY <1>8, <1>9 DEF AskedFor, SourcesOf
<1>11. RoutedTo(session'.port, session'.translator, session'.targets)
  <2> HIDE DEF RoutedTo
  <2> QED
    BY <1>2, <1>10
<1> QED
  BY <1>11 DEF SessionRouted, AskedFor, SourcesOf

\* Nothing that a session rests on changes once connections come.
LEMMA NextSession ==
  Types /\ Entries /\ Mapped /\ Routed /\ SessionRouted /\ [Next]_vars => SessionRouted'
<1> SUFFICES ASSUME Types, Entries, Mapped, Routed, SessionRouted, [Next]_vars PROVE SessionRouted'
  OBVIOUS
<1>1. ASSUME NEW p \in Ports, Connect(p) PROVE SessionRouted'
  BY <1>1, Connected
<1>2. CASE ~\E p \in Ports : Connect(p)
  <2>1. UNCHANGED session
    <3>1. CASE NextPhase \/ BadPort \/ UNCHANGED vars
      BY <3>1 DEF NextPhase, BadPort, vars
    <3>2. ASSUME NEW u \in Uids, Load(u) \/ TranslatorEntry(u) \/ DispatcherEntry(u)
          PROVE  UNCHANGED session
      BY <3>2 DEF Load, TranslatorEntry, DispatcherEntry
    <3>3. ASSUME NEW p \in Ports, MapPort(p) PROVE UNCHANGED session
      BY <3>3 DEF MapPort
    <3>4. ASSUME NEW k \in Keys, AddRoute(k) PROVE UNCHANGED session
      BY <3>4 DEF AddRoute
    <3> QED
      BY <1>2, <3>1, <3>2, <3>3, <3>4 DEF Next
  <2>2. phase = "serving" => UNCHANGED vars
    BY <1>2 DEF Next, NextPhase, BadPort, Load, TranslatorEntry, DispatcherEntry, MapPort, AddRoute
  <2>3. CASE session = NoSession
    BY <2>1, <2>3 DEF SessionRouted
  <2>4. CASE session # NoSession
    <3>1. UNCHANGED <<session, mapped, sources, plugins>>
      BY <2>2, <2>4 DEF Entries, vars
    <3> QED
      BY <3>1 DEF SessionRouted, AskedFor, SourcesOf
  <2> QED
    BY <2>3, <2>4
<1> QED
  BY <1>1, <1>2

-----------------------------------------------------------------------------
LEMMA InitRoutes == Init => RoutesInv
<1> SUFFICES ASSUME Init PROVE RoutesInv
  OBVIOUS
<1>1. Types
  BY EmptySequence DEF Init, Types
<1>2. Entries
  BY EmptySequence DEF Init, Entries
<1>3. \A p \in Ports : AskedFor(p) = {}
  BY EmptySequence DEF Init, AskedFor
<1>4. \A k \in Keys : SourcesOf(k) = {}
  BY EmptySequence DEF Init, SourcesOf
<1>5. MappedAsConfigured
  BY <1>3, EmptySequence DEF Init, MappedAsConfigured
<1>6. Mapped
  BY DEF Init, Mapped
<1>7. RoutesAsConfigured
  BY <1>4, EmptySequence, FS_EmptySet DEF Init, RoutesAsConfigured
<1>8. Routed
  BY <1>4, EmptySequence DEF Init, Routed
<1>9. SessionRouted
  BY DEF Init, SessionRouted
<1> QED
  BY <1>1, <1>2, <1>5, <1>6, <1>7, <1>8, <1>9 DEF RoutesInv

LEMMA RoutesInvariant == Spec => []RoutesInv
<1>1. RoutesInv /\ [Next]_vars => RoutesInv'
  BY NextTypes, NextEntries, NextMappedAs, NextMapped, NextRoutesAs, NextRouted, NextSession
     DEF RoutesInv
<1> QED
  BY <1>1, InitRoutes, PTL DEF Spec

\* A route is the list of the dispatchers that name it as a source, in the order of the
\* configuration, for any configuration: the iterator that load_settings keeps from one source to
\* the next (request_router.cpp:142) never puts a dispatcher on another route.
THEOREM RoutesAreConfigured == Spec => []RoutesAsConfigured
<1>1. RoutesInv => RoutesAsConfigured
  BY DEF RoutesInv
<1> QED
  BY <1>1, RoutesInvariant, PTL

\* port_mapping_ holds for a port the translators that ask for it and no other, although map_port()
\* compares with the first mapping only.
THEOREM PortsAreMapped == Spec => []MappedAsConfigured
<1>1. RoutesInv => MappedAsConfigured
  BY DEF RoutesInv
<1> QED
  BY <1>1, RoutesInvariant, PTL

\* What on_connection() gives a connection follows from the configuration alone: the translator by
\* the order in which the port was asked for, the targets by the sources of that port and translator.
THEOREM SessionsAreRouted == Spec => []SessionRouted
<1>1. RoutesInv => SessionRouted
  BY DEF RoutesInv
<1> QED
  BY <1>1, RoutesInvariant, PTL

-----------------------------------------------------------------------------
(* The commands on Windows                                                   *)

\* What the App Paths key of the file name may hold.
AppKeys == [default : Paths \cup {None}, dir : Paths \cup {None}]

\* main() reports when the command has ended.  Only a service that runs is marked.
Steady ==
  /\ path \in Paths
  /\ said # "nothing" => step = "idle"
  /\ marked => running
  /\ running => service # None

\* The service that install_service() has made, and what it has written of the key.
Installing ==
  /\ step \in {"key", "default", "dir"} => service = Entry /\ ~marked
  /\ appKey = None \/ appKey \in AppKeys
  /\ step \in {"default", "dir"} => appKey \in AppKeys
  /\ step = "dir" => appKey.default = path

\* No service is in the way of the next --install after a faultless --uninstall.
Removed ==
  /\ step = "unregister" /\ ~faulty => service = None \/ marked
  /\ clean = 1 /\ step \in {"idle", "create"} => service = None \/ marked

SetupInv == Steady /\ Installing /\ Removed /\ InstalledIsRegistered /\ Reinstalled

\* Nothing is installed at first.
LEMMA InitSetup == SetupInit => SetupInv
  BY DEF SetupInit, SetupInv, Steady, Installing, Removed, InstalledIsRegistered, Reinstalled, Entry

\* Each call, and the end of the process before any call, keeps the invariant.
LEMMA NextSetup == SetupInv /\ [SetupNext]_setupVars => SetupInv'
<1> SUFFICES ASSUME SetupInv, [SetupNext]_setupVars PROVE SetupInv'
  OBVIOUS
<1> USE DEF command, registry
<1>1. ASSUME OptionsOnly \/ Launch PROVE SetupInv'
  <2>1. Steady'
    BY <1>1 DEF SetupInv, Steady, OptionsOnly, Launch, Says
  <2>2. Installing'
    BY <1>1 DEF SetupInv, Installing, OptionsOnly, Launch, Says
  <2>3. Removed'
    BY <1>1 DEF Removed, OptionsOnly, Launch, Says
  <2>4. InstalledIsRegistered'
    BY <1>1 DEF InstalledIsRegistered, OptionsOnly, Launch, Says
  <2>5. Reinstalled'
    BY <1>1 DEF Reinstalled, OptionsOnly, Launch, Says
  <2> QED
    BY <2>1, <2>2, <2>3, <2>4, <2>5 DEF SetupInv
<1>2. ASSUME NEW p \in Paths, NEW o \in Options, Install(p, o) \/ Uninstall(p, o) PROVE SetupInv'
  <2>1. Steady'
    BY <1>2 DEF SetupInv, Steady, Install, Uninstall, Command
  <2>2. Installing'
    BY <1>2 DEF SetupInv, Installing, Install, Uninstall, Command
  <2>3. Removed'
    BY <1>2 DEF SetupInv, Removed, Install, Uninstall, Command
  <2>4. InstalledIsRegistered'
    BY <1>2 DEF InstalledIsRegistered, Install, Uninstall, Command
  <2>5. Reinstalled'
    BY <1>2 DEF Reinstalled, Install, Uninstall, Command
  <2> QED
    BY <2>1, <2>2, <2>3, <2>4, <2>5 DEF SetupInv
<1>3. ASSUME NEW outcome \in {"failed", "aborted"}, InstallRefused(outcome) PROVE SetupInv'
  <2>1. Steady'
    BY <1>3 DEF SetupInv, Steady, InstallRefused, EndInstall
  <2>2. Installing'
    BY <1>3 DEF SetupInv, Installing, InstallRefused, EndInstall
  <2>3. Removed'
    BY <1>3 DEF Removed, InstallRefused, EndInstall
  <2>4. InstalledIsRegistered'
    BY <1>3 DEF InstalledIsRegistered, InstallRefused, EndInstall
  <2>5. Reinstalled'
    BY <1>3 DEF Reinstalled, InstallRefused, EndInstall
  <2> QED
    BY <2>1, <2>2, <2>3, <2>4, <2>5 DEF SetupInv
<1>4. ASSUME NEW outcome \in {"failed", "aborted"}, UninstallRefused(outcome) PROVE SetupInv'
  <2>1. Steady'
    BY <1>4 DEF SetupInv, Steady, UninstallRefused, EndUninstall
  <2>2. Installing'
    BY <1>4 DEF SetupInv, Installing, UninstallRefused, EndUninstall
  <2>3. Removed'
    BY <1>4 DEF Removed, UninstallRefused, EndUninstall
  <2>4. InstalledIsRegistered'
    BY <1>4 DEF InstalledIsRegistered, UninstallRefused, EndUninstall
  <2>5. Reinstalled'
    BY <1>4 DEF Reinstalled, UninstallRefused, EndUninstall
  <2> QED
    BY <2>1, <2>2, <2>3, <2>4, <2>5 DEF SetupInv
<1>5. ASSUME CreateService PROVE SetupInv'
  <2>1. Steady'
    BY <1>5 DEF SetupInv, Steady, CreateService, Created, Then
  <2>2. Installing'
    BY <1>5 DEF SetupInv, Steady, Installing, Entry, CreateService, Created, Then
  <2>3. Removed'
    BY <1>5 DEF Removed, CreateService, Then
  <2>4. InstalledIsRegistered'
    BY <1>5 DEF SetupInv, InstalledIsRegistered, Entry, CreateService, Created, Then
  <2>5. Reinstalled'
    BY <1>5 DEF Reinstalled, CreateService, Then
  <2> QED
    BY <2>1, <2>2, <2>3, <2>4, <2>5 DEF SetupInv
<1>6. ASSUME CreateServiceFails PROVE SetupInv'
  <2>1. Steady'
    BY <1>6 DEF SetupInv, Steady, CreateServiceFails, EndInstall
  <2>2. Installing'
    BY <1>6 DEF SetupInv, Installing, CreateServiceFails, EndInstall
  <2>3. Removed'
    BY <1>6 DEF Removed, CreateServiceFails, EndInstall
  <2>4. InstalledIsRegistered'
    BY <1>6 DEF InstalledIsRegistered, CreateServiceFails, EndInstall
  <2>5. Reinstalled'
    <3>1. PICK fault \in {TRUE, marked} : (service = None => fault) /\ EndInstall("failed", fault)
      BY <1>6 DEF CreateServiceFails
    <3>2. clean = 1 => fault
      <4>1. CASE marked
        BY <4>1
      <4>2. CASE service = None
        BY <3>1, <4>2
      <4> QED
        BY <1>6, <4>1, <4>2 DEF CreateServiceFails, SetupInv, Removed
    <3> QED
      BY <3>1, <3>2 DEF EndInstall, Reinstalled
  <2> QED
    BY <2>1, <2>2, <2>3, <2>4, <2>5 DEF SetupInv
<1>7. ASSUME CreateKey PROVE SetupInv'
  <2>1. Steady'
    BY <1>7 DEF SetupInv, Steady, CreateKey, Then
  <2>2. Installing'
    BY <1>7 DEF SetupInv, Installing, Entry, AppKeys, CreateKey, Then
  <2>3. Removed'
    BY <1>7 DEF Removed, CreateKey, Then
  <2>4. InstalledIsRegistered'
    BY <1>7 DEF SetupInv, InstalledIsRegistered, Entry, CreateKey, Then
  <2>5. Reinstalled'
    BY <1>7 DEF Reinstalled, CreateKey, Then
  <2> QED
    BY <2>1, <2>2, <2>3, <2>4, <2>5 DEF SetupInv
<1>8. ASSUME SetDefault PROVE SetupInv'
  <2>1. Steady'
    BY <1>8 DEF SetupInv, Steady, SetDefault, Then
  <2>2. Installing'
    BY <1>8 DEF SetupInv, Steady, Installing, Entry, AppKeys, SetDefault, Then
  <2>3. Removed'
    BY <1>8 DEF Removed, SetDefault, Then
  <2>4. InstalledIsRegistered'
    BY <1>8 DEF SetupInv, InstalledIsRegistered, Entry, SetDefault, Then
  <2>5. Reinstalled'
    BY <1>8 DEF Reinstalled, SetDefault, Then
  <2> QED
    BY <2>1, <2>2, <2>3, <2>4, <2>5 DEF SetupInv
<1>9. ASSUME SetDir PROVE SetupInv'
  <2>1. Steady'
    BY <1>9 DEF SetupInv, Steady, SetDir, EndInstall
  <2>2. Installing'
    BY <1>9 DEF SetupInv, Installing, AppKeys, SetDir, EndInstall
  <2>3. Removed'
    BY <1>9 DEF Removed, SetDir, EndInstall
  <2>4. InstalledIsRegistered'
    BY <1>9 DEF SetupInv, Installing, InstalledIsRegistered, Entry, SetDir, EndInstall
  <2>5. Reinstalled'
    BY <1>9 DEF SetupInv, Installing, Reinstalled, Entry, AppKeys, SetDir, EndInstall
  <2> QED
    BY <2>1, <2>2, <2>3, <2>4, <2>5 DEF SetupInv
<1>10. ASSUME RegisterFails PROVE SetupInv'
  <2>1. Steady'
    BY <1>10 DEF SetupInv, Steady, RegisterFails, EndInstall
  <2>2. Installing'
    BY <1>10 DEF SetupInv, Installing, RegisterFails, EndInstall
  <2>3. Removed'
    BY <1>10 DEF Removed, RegisterFails, EndInstall
  <2>4. InstalledIsRegistered'
    BY <1>10 DEF SetupInv, Installing, InstalledIsRegistered, Entry, RegisterFails, EndInstall
  <2>5. Reinstalled'
    BY <1>10 DEF Reinstalled, RegisterFails, EndInstall
  <2> QED
    BY <2>1, <2>2, <2>3, <2>4, <2>5 DEF SetupInv
<1>11. ASSUME OpenServiceFails PROVE SetupInv'
  <2>1. Steady'
    BY <1>11 DEF SetupInv, Steady, OpenServiceFails, EndUninstall
  <2>2. Installing'
    BY <1>11 DEF SetupInv, Installing, OpenServiceFails, EndUninstall
  <2>3. Removed'
    <3>1. PICK fault \in {TRUE, service # None} : EndUninstall("failed", fault)
      BY <1>11 DEF OpenServiceFails
    <3>2. step' = "idle" /\ UNCHANGED <<service, marked>>
      BY <1>11 DEF OpenServiceFails, EndUninstall
    <3>3. clean' = 1 => service = None
      <4>1. CASE fault
        BY <3>1, <4>1 DEF EndUninstall
      <4>2. CASE ~fault
        BY <4>2
      <4> QED
        BY <4>1, <4>2
    <3> QED
      BY <3>2, <3>3 DEF Removed
  <2>4. InstalledIsRegistered'
    BY <1>11 DEF InstalledIsRegistered, OpenServiceFails, EndUninstall
  <2>5. Reinstalled'
    BY <1>11 DEF Reinstalled, OpenServiceFails, EndUninstall
  <2> QED
    BY <2>1, <2>2, <2>3, <2>4, <2>5 DEF SetupInv
<1>12. ASSUME DeleteService PROVE SetupInv'
  <2>1. Steady'
    BY <1>12 DEF SetupInv, Steady, DeleteService, Then
  <2>2. Installing'
    BY <1>12 DEF SetupInv, Installing, DeleteService, Then
  <2>3. Removed'
    BY <1>12 DEF Removed, DeleteService, Then
  <2>4. InstalledIsRegistered'
    BY <1>12 DEF SetupInv, Steady, InstalledIsRegistered, DeleteService, Then
  <2>5. Reinstalled'
    BY <1>12 DEF Reinstalled, DeleteService, Then
  <2> QED
    BY <2>1, <2>2, <2>3, <2>4, <2>5 DEF SetupInv
<1>13. ASSUME Unregister PROVE SetupInv'
  <2>1. Steady'
    BY <1>13 DEF SetupInv, Steady, Unregister, EndUninstall
  <2>2. Installing'
    BY <1>13 DEF SetupInv, Installing, Unregister, EndUninstall
  <2>3. Removed'
    BY <1>13 DEF SetupInv, Removed, Unregister, EndUninstall
  <2>4. InstalledIsRegistered'
    BY <1>13 DEF InstalledIsRegistered, Unregister, EndUninstall
  <2>5. Reinstalled'
    BY <1>13 DEF Reinstalled, Unregister, EndUninstall
  <2> QED
    BY <2>1, <2>2, <2>3, <2>4, <2>5 DEF SetupInv
<1>14. ASSUME StartService PROVE SetupInv'
  <2>1. Steady'
    BY <1>14 DEF SetupInv, Steady, StartService
  <2>2. Installing'
    BY <1>14 DEF SetupInv, Installing, Entry, StartService
  <2>3. Removed'
    BY <1>14 DEF SetupInv, Removed, StartService
  <2>4. InstalledIsRegistered'
    BY <1>14 DEF SetupInv, InstalledIsRegistered, Entry, StartService
  <2>5. Reinstalled'
    BY <1>14 DEF SetupInv, Reinstalled, Entry, StartService
  <2> QED
    BY <2>1, <2>2, <2>3, <2>4, <2>5 DEF SetupInv
<1>15. ASSUME StopService PROVE SetupInv'
  <2>1. Steady'
    BY <1>15 DEF SetupInv, Steady, StopService
  <2>2. Installing'
    BY <1>15 DEF SetupInv, Installing, Entry, StopService
  <2>3. Removed'
    BY <1>15 DEF SetupInv, Removed, StopService
  <2>4. InstalledIsRegistered'
    BY <1>15 DEF SetupInv, InstalledIsRegistered, Entry, StopService
  <2>5. Reinstalled'
    BY <1>15 DEF SetupInv, Reinstalled, Entry, StopService
  <2> QED
    BY <2>1, <2>2, <2>3, <2>4, <2>5 DEF SetupInv
<1>16. ASSUME Kill PROVE SetupInv'
  <2>1. Steady'
    BY <1>16 DEF SetupInv, Steady, Kill
  <2>2. Installing'
    BY <1>16 DEF SetupInv, Installing, Kill
  <2>3. Removed'
    BY <1>16 DEF Removed, Kill
  <2>4. InstalledIsRegistered'
    BY <1>16 DEF SetupInv, InstalledIsRegistered, Entry, Kill
  <2>5. Reinstalled'
    BY <1>16 DEF Reinstalled, Kill
  <2> QED
    BY <2>1, <2>2, <2>3, <2>4, <2>5 DEF SetupInv
<1>17. ASSUME UNCHANGED setupVars PROVE SetupInv'
  <2>1. Steady'
    BY <1>17 DEF SetupInv, Steady, setupVars
  <2>2. Installing'
    BY <1>17 DEF SetupInv, Installing, Entry, setupVars
  <2>3. Removed'
    BY <1>17 DEF SetupInv, Removed, setupVars
  <2>4. InstalledIsRegistered'
    BY <1>17 DEF SetupInv, InstalledIsRegistered, Entry, setupVars
  <2>5. Reinstalled'
    BY <1>17 DEF SetupInv, Reinstalled, Entry, setupVars
  <2> QED
    BY <2>1, <2>2, <2>3, <2>4, <2>5 DEF SetupInv
<1> QED
  BY <1>1, <1>2, <1>3, <1>4, <1>5, <1>6, <1>7, <1>8, <1>9, <1>10, <1>11, <1>12,
     <1>13, <1>14, <1>15, <1>16, <1>17
  DEF SetupNext

(* "Service is installed" is only said of a service that is registered as    *)
(* that command asked for and is not about to go, whatever was left behind.  *)
THEOREM SaidIsRegistered == SetupSpec => []InstalledIsRegistered
<1>1. SetupInv => InstalledIsRegistered
  BY DEF SetupInv
<1> QED
  BY <1>1, InitSetup, NextSetup, PTL DEF SetupSpec

(* A faultless uninstall and a faultless install after it succeed, and all   *)
(* is registered for the new path, after any history of failures and kills.  *)
THEOREM CleanStart == SetupSpec => []Reinstalled
<1>1. SetupInv => Reinstalled
  BY DEF SetupInv
<1> QED
  BY <1>1, InitSetup, NextSetup, PTL DEF SetupSpec
==============================================================================
