------------------------------- MODULE Routes --------------------------------
(***************************************************************************)
(* Start-up: plugin_factory loads the plugins, translator_manager maps     *)
(* ports to translators, request_router makes the dispatchers and their    *)
(* routes.  Then each connection is given the translator and the route of  *)
(* its port.  The configuration is chosen entry by entry as it is read;    *)
(* boost::property_tree allows the same key more than once.                *)
(***************************************************************************)
EXTENDS Integers, Sequences, SequencesExt

CONSTANTS
  Translators,    \* uids of the translator plugins that exist
  Dispatchers,    \* uids of the dispatcher plugins that exist
  Ports,
  NoUid,
  MaxMappings,    \* bound on the ports in the section "translator"
  MaxInstances,   \* bound on the entries of the section "dispatcher"
  MaxSources      \* bound on the ports in the "source" of the dispatchers

ASSUME RoutesAssumption ==
  /\ Translators \cap Dispatchers = {} /\ NoUid \notin Translators \cup Dispatchers
  /\ {MaxMappings, MaxInstances, MaxSources} \subseteq Nat

Uids == Translators \cup Dispatchers
Keys == Ports \X Translators
NoKey == <<>>
NoSession == [translator |-> NoUid]

VARIABLES
  phase,          \* of plugin_factory::load_settings, then "serving" or "failed"
  plugins,        \* plugins_: loaded_translators_ and loaded_dispatchers_ share it
  entry,          \* the uid whose entry is being read
  portMapping,    \* port_mapping_: the uids of a port, in the multimap's order
  instances,      \* the dispatchers that were made, by number
  dispatchers,    \* dispatchers_: uid -> number, 0 if there is none
  routes,         \* routes_: (port, translator) -> numbers, <<>> if there is none
  it,             \* the iterator that load_settings keeps: a key or NoKey
  session,        \* the connection that was set up last
  mapped,         \* history: the ports of the section "translator"
  sources         \* history: the ports of the section "dispatcher"

vars == <<phase, plugins, entry, portMapping, instances, dispatchers, routes, it,
          session, mapped, sources>>

Init ==
  /\ phase = "plugins" /\ plugins = {} /\ entry = NoUid
  /\ portMapping = [p \in Ports |-> <<>>]
  /\ instances = <<>> /\ dispatchers = [u \in Dispatchers |-> 0]
  /\ routes = [k \in Keys |-> <<>>] /\ it = NoKey
  /\ session = NoSession
  /\ mapped = <<>> /\ sources = <<>>

-----------------------------------------------------------------------------
\* loaded_translators_, loaded_dispatchers_: load() calls one of the two add().
LoadedTranslators == plugins \cap Translators
LoadedDispatchers == plugins \cap Dispatchers

\* load(): a plugin file is found; a uid that is loaded already is left alone.
Load(u) ==
  /\ phase = "plugins" /\ u \notin plugins
  /\ plugins' = plugins \cup {u}
  /\ UNCHANGED <<phase, entry, portMapping, instances, dispatchers, routes, it,
                 session, mapped, sources>>

NextPhase ==
  /\ \/ phase = "plugins" /\ phase' = "translators"
     \/ phase = "translators" /\ phase' = "dispatchers"
     \/ phase = "dispatchers" /\ phase' = "serving"
  /\ entry' = NoUid
  /\ UNCHANGED <<plugins, portMapping, instances, dispatchers, routes, it, session,
                 mapped, sources>>

\* translator_manager: create() throws for a plugin that is not loaded, and the
\* exception ends core::run.
TranslatorEntry(u) ==
  /\ phase = "translators"
  /\ IF u \in LoadedTranslators
       THEN entry' = u /\ UNCHANGED phase
       ELSE phase' = "failed" /\ UNCHANGED entry
  /\ UNCHANGED <<plugins, portMapping, instances, dispatchers, routes, it, session,
                 mapped, sources>>

\* Mutant of MapPort: the uid is added to whatever the port has.
MapPortAgain(p) ==
  /\ phase = "translators" /\ entry # NoUid /\ Len(mapped) < MaxMappings
  /\ mapped' = Append(mapped, <<p, entry>>)
  /\ portMapping' = [portMapping EXCEPT ![p] = Append(@, entry)]
  /\ UNCHANGED <<phase, plugins, entry, instances, dispatchers, routes, it, session, sources>>

\* map_port(): find() returns the first mapping of the port, and only that one is
\* compared.
MapPort(p) ==
  /\ phase = "translators" /\ entry # NoUid /\ Len(mapped) < MaxMappings
  /\ mapped' = Append(mapped, <<p, entry>>)
  /\ IF \/ entry \notin LoadedTranslators
        \/ portMapping[p] # <<>> /\ Head(portMapping[p]) = entry
       THEN UNCHANGED portMapping
       ELSE portMapping' = [portMapping EXCEPT ![p] = Append(@, entry)]
  /\ UNCHANGED <<phase, plugins, entry, instances, dispatchers, routes, it, session, sources>>

\* request_router: a dispatcher is made and keeps its own settings.
DispatcherEntry(u) ==
  /\ phase = "dispatchers" /\ Len(instances) < MaxInstances
  /\ IF u \in LoadedDispatchers
       THEN /\ entry' = u
            /\ instances' = Append(instances, u)
            /\ dispatchers' = IF dispatchers[u] = 0
                                THEN [dispatchers EXCEPT ![u] = Len(instances')]
                                ELSE dispatchers
            /\ it' = NoKey
            /\ UNCHANGED phase
       ELSE /\ phase' = "failed"
            /\ UNCHANGED <<entry, instances, dispatchers, it>>
  /\ UNCHANGED <<plugins, portMapping, routes, session, mapped, sources>>

\* Mutant of AddRoute: the kept iterator is not compared with the key.
AddRouteToKept(k) ==
  /\ phase = "dispatchers" /\ entry # NoUid /\ Len(sources) < MaxSources
  /\ sources' = Append(sources, <<k, Len(instances)>>)
  /\ it' = IF it = NoKey THEN k ELSE it
  /\ routes' = [routes EXCEPT ![it'] = Append(@, Len(instances))]
  /\ UNCHANGED <<phase, plugins, entry, portMapping, instances, dispatchers, session, mapped>>

\* One port of one translator in the dispatcher's "source".  Neither is looked up:
\* the translator need not be loaded, nor the port mapped, nor named once.
AddRoute(k) ==
  /\ phase = "dispatchers" /\ entry # NoUid /\ Len(sources) < MaxSources
  /\ sources' = Append(sources, <<k, Len(instances)>>)
  /\ it' = IF it = k THEN it ELSE k
  /\ routes' = [routes EXCEPT ![it'] = Append(@, Len(instances))]
  /\ UNCHANGED <<phase, plugins, entry, portMapping, instances, dispatchers, session, mapped>>

\* get<unsigned short>() throws: what should be a port is not a number.
BadPort ==
  /\ phase \in {"translators", "dispatchers"} /\ entry # NoUid
  /\ phase' = "failed"
  /\ UNCHANGED <<plugins, entry, portMapping, instances, dispatchers, routes, it,
                 session, mapped, sources>>

-----------------------------------------------------------------------------
\* core::run: a listener for each port that is a key of the mapping.
Listeners == {p \in Ports : portMapping[p] # <<>>}

\* Mutant of PortTranslator: the port's first mapping is taken.
FirstTranslator(p) == Head(portMapping[p])

\* on_connection(): the loop over list_port() leaves the last uid.
PortTranslator(p) == Last(portMapping[p])

\* on_connection(), setup_connection_routes(): no route, no targets.
Connect(p) ==
  /\ phase = "serving" /\ p \in Listeners
  /\ LET u == PortTranslator(p) IN
       session' = [port |-> p, translator |-> u, targets |-> routes[<<p, u>>]]
  /\ UNCHANGED <<phase, plugins, entry, portMapping, instances, dispatchers, routes, it,
                 mapped, sources>>

Next ==
  \/ NextPhase \/ BadPort
  \/ \E u \in Uids : Load(u) \/ TranslatorEntry(u) \/ DispatcherEntry(u)
  \/ \E p \in Ports : MapPort(p) \/ Connect(p)
  \/ \E k \in Keys : AddRoute(k)

Spec == Init /\ [][Next]_vars

-----------------------------------------------------------------------------
\* What the configuration asks for, by its place in it.
AskedFor(p) == {i \in DOMAIN mapped : mapped[i][1] = p}
SourcesOf(k) == {i \in DOMAIN sources : sources[i][1] = k}

(* Although load_settings looks a key up only when it differs from the last  *)
(* one, a route has the dispatchers that name it as a source, each as often  *)
(* as it does, in the order of the configuration.                            *)
RoutesAsConfigured ==
  \A k \in Keys :
    /\ Len(routes[k]) = Cardinality(SourcesOf(k))
    /\ \A i \in SourcesOf(k) : routes[k][Cardinality(SourcesOf(k) \cap 1..i)] = sources[i][2]

(* A port is mapped to the translators that ask for it, and to a translator  *)
(* that was already there only if another one was before it.                 *)
MappedAsConfigured ==
  \A p \in Ports :
    /\ ToSet(portMapping[p]) = {mapped[i][2] : i \in AskedFor(p)}
    /\ \A i, j \in DOMAIN portMapping[p] :
         i < j /\ portMapping[p][i] = portMapping[p][j] => i > 1

(* A connection gets the translator that asked last for its port, except that*)
(* the one that asked first never wins the port back from another; and what  *)
(* it stores goes to the dispatchers that name the port under it.            *)
SessionRouted ==
  session # NoSession =>
    LET p      == session.port
        u      == session.translator
        first  == mapped[Min(AskedFor(p))][2]
        others == {i \in AskedFor(p) : mapped[i][2] # first}
    IN /\ u = IF others = {} THEN first ELSE mapped[Max(others)][2]
       /\ u \in plugins
       /\ ToSet(session.targets) = {sources[i][2] : i \in SourcesOf(<<p, u>>)}
==============================================================================
