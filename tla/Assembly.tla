------------------------------ MODULE Assembly ------------------------------
(***************************************************************************)
(* rushwind-bootstrap: a document turned into a running application, and   *)
(* the application's end.  build() resolves the document section by        *)
(* section, binds the servers, announces the instance and leaves two       *)
(* before-stop hooks; App::run serves, drains, runs the hooks in the order *)
(* they were pushed, and stops the servers.                                *)
(*                                                                         *)
(* The phases of the lifecycle are those of Lifecycle, seen from the       *)
(* servers' side: only what the hooks and the announcement meet is kept.   *)
(* A factory, an init and a register may fail, and the caller may drop     *)
(* build() while one of them is awaited.                                   *)
(***************************************************************************)
EXTENDS Naturals, Sequences, FiniteSets, SequencesExt

CONSTANTS Docs,       \* documents
          Known,      \* what the application registered: <<family, engine>>
          Features,   \* cargo features: "metrics", "health", "trace"
          None, MaxRequests

VARIABLES
  doc,
  stage,      \* the section build() is at
  todo,       \* its entries still to resolve
  made,       \* what is assembled, and what the HTTP packs were handed
  hooks,      \* before-stop hooks in the order they run
  bound,      \* servers whose listener is open
  routes,     \* what is mounted: [server, name, guards]
  result,     \* "building", "ready", "failed", "abandoned", "panicked"
  scripts,    \* script -> "closed", "ready"
  announced,  \* "no", "live", "withdrawn", "lapsed"
  handle,     \* the registration handle: "none", "held", "dropped"
  app,        \* "idle", "serving", "draining", "hooks", "stopping", "done"
  requests,   \* requests in flight, by server
  served,     \* how many there have been
  faults      \* "cut": the drain ran out; "kept": the deregistration failed; "landed": a failed register got through

assemblyVars == <<doc, stage, todo, made, hooks, bound, routes, result, scripts, announced,
                  handle, app, requests, served, faults>>

-----------------------------------------------------------------------------
(* The document.  Named families are hash maps: their entries are resolved *)
(* in any order.  Sources, endpoints and servers are lists.                *)
Families == {"storage", "authn", "authz", "broker", "cache", "circuitbreaker", "limiter", "ai", "oss"}
Order == <<"storage", "authn", "authz", "broker", "cache", "circuitbreaker", "limiter", "ai", "oss",
           "metrics", "config", "script", "health", "tracer", "endpoint", "server", "registry">>

Entries(s) == IF s \in {"config", "server", "endpoint"} THEN DOMAIN doc[s] ELSE doc[s]
Sections == {s \in ToSet(Order) : s \notin {"config", "endpoint", "server", "registry", "health", "tracer"}}
NextStage(s) == Order[SelectInSeq(Order, LAMBDA x : x = s) + 1]

AssemblyInit ==
  /\ doc \in Docs
  /\ stage = Order[1] /\ todo = doc[Order[1]]
  /\ made = [engines |-> {}, seen |-> {}, sources |-> <<>>]
  /\ hooks = <<>> /\ bound = {} /\ routes = {}
  /\ result = "building"
  /\ scripts = [s \in {e[1] : e \in doc["script"]} |-> "closed"]
  /\ announced = "no" /\ handle = "none"
  /\ app = "idle" /\ requests = {} /\ served = 0 /\ faults = {}

appVars == <<app, requests, served>>
At(s) == result = "building" /\ stage = s
Registered(family, engine) == <<family, engine>> \in Known
Take(e) == e \in todo /\ todo' = todo \ {e}

\* An early return drops what build() holds: listeners close, engines go.
Fail(how) ==
  /\ result' = how /\ bound' = {} /\ todo' = {}
  /\ UNCHANGED <<doc, stage, made, hooks, routes>>
StillAround == UNCHANGED <<scripts, announced, handle, faults, appVars>>

Assembled(x) ==
  /\ made' = [made EXCEPT !.engines = @ \cup {x}]
  /\ UNCHANGED <<doc, stage, hooks, bound, routes, result>>

\* One entry <<instance, engine>> of a family with registered factories.
Resolve(family) ==
  /\ At(family)
  /\ \E e \in todo :
       \/ /\ Registered(family, e[2])
          /\ Take(e) /\ Assembled(<<family, e[1]>>)
       \/ Fail("failed")       \* an unknown engine, or its factory's error
  /\ StillAround
ResolveFamily == \E family \in Families : Resolve(family)

\* The built-in Prometheus engine answers when no factory has its name.
ResolveMetrics ==
  /\ At("metrics")
  /\ \E e \in todo :
       \/ /\ \/ Registered("metrics", e[2])
             \/ e[2] = "prometheus" /\ "metrics" \in Features
          /\ Take(e)
          /\ Assembled(<<IF Registered("metrics", e[2]) THEN "metrics" ELSE "scrape", e[1]>>)
       \/ Fail("failed")
  /\ StillAround

\* Sources in the order of their priority, which the fallback over them asks
\* in.
AddSource ==
  /\ At("config") /\ todo # {}
  /\ LET source == doc["config"][Min(todo)]
     IN  \/ /\ Registered("config", source)
            /\ Take(Min(todo))
            /\ made' = [made EXCEPT !.sources = Append(@, source)]
            /\ UNCHANGED <<doc, stage, hooks, bound, routes, result>>
         \/ Fail("failed")
  /\ StillAround

\* Built, initialised, then put in the manager under its name.
InitScript ==
  /\ At("script")
  /\ \E e \in todo :
       \/ /\ Registered("script", e[2])
          /\ Take(e) /\ Assembled(<<"script", e[1]>>)
          /\ scripts' = [scripts EXCEPT ![e[1]] = "ready"]
       \/ Fail("failed") /\ UNCHANGED scripts
  /\ UNCHANGED <<announced, handle, faults, appVars>>

\* A section whose feature is compiled out fails the build.
CheckObservers ==
  /\ result = "building" /\ stage \in {"health", "tracer"}
  /\ \E e \in todo :
       \/ /\ (IF stage = "tracer" THEN "trace" ELSE stage) \in Features
          /\ Take(e) /\ Assembled(<<stage, e[1]>>)
       \/ Fail("failed")
  /\ StillAround

EndStage ==
  /\ result = "building" /\ todo = {} /\ stage # Last(Order)
  /\ stage' = NextStage(stage)
  /\ todo' = Entries(NextStage(stage))
  /\ hooks' = IF stage = "script" /\ doc["script"] # {} THEN Append(hooks, "close_scripts") ELSE hooks
  /\ UNCHANGED <<doc, made, bound, routes, result>> /\ StillAround

-----------------------------------------------------------------------------
(* Guards name assembled instances; the point's project is fixed, read     *)
(* from a claim or empty, never two of these.                              *)
GuardsUnchecked(g) == TRUE
GuardsResolve(g) ==
  /\ g.authz # None => /\ <<"authz", g.authz>> \in made.engines
                       /\ ~(g.project /\ g.project_claim)
  /\ g.authn # None => <<"authn", g.authn>> \in made.engines

Wrapped(g) == [authn |-> g.authn, authz |-> g.authz]

\* A storage endpoint: the crud pack, or one the application registered.
MountEndpoint ==
  /\ At("endpoint") /\ todo # {}
  /\ LET i == Min(todo)
         endpoint == doc["endpoint"][i]
     IN  \/ /\ \E x \in made.engines : x[1] = "storage"
            /\ endpoint.api = "crud" \/ Registered("endpoint", endpoint.api)
            /\ GuardsResolve(endpoint.guards)
            /\ Take(i)
            /\ made' = [made EXCEPT !.seen = @ \cup {made.engines}]
            /\ UNCHANGED <<doc, stage, hooks, bound, routes, result>>
         \/ Fail("failed")
  /\ StillAround

RequiresMounts(server) ==
  /\ "health" \in server.mounts => \E x \in made.engines : x[1] = "health"
  /\ "metrics" \in server.mounts => \E x \in made.engines : x[1] = "scrape"

Packs(i) ==
  {[server |-> i, name |-> p.name, guards |-> Wrapped(p.guards)] : p \in ToSet(doc["server"][i].packs)}
Nests(i) ==
  {[server |-> i, name |-> e.nest, guards |-> Wrapped(e.guards)] : e \in ToSet(doc["endpoint"])}

\* The domain mounts: probes and the scrape, outside every guard.
Open == [authn |-> None, authz |-> None]
Probes == {"/healthz", "/readyz"}
Scrape == {"/metrics"}
Mounts(i) ==
  {[server |-> i, name |-> n, guards |-> Open] :
     n \in UNION {IF m = "health" THEN Probes ELSE Scrape : m \in doc["server"][i].mounts}}

\* Two mounts of one path make axum's router panic.
Mounted(i) == Packs(i) \cup Nests(i) \cup Mounts(i)
Clash(i) ==
  Cardinality({r.name : r \in Mounted(i)}) <
    Len(doc["server"][i].packs) + Len(doc["endpoint"]) + Cardinality(Mounts(i))

\* AxumServer::new opens the listener while the server is built.
Bind(i) == bound' = bound \cup {i}

\* An http server: its packs each behind their guards, every storage
\* endpoint nested, the mounts, the edge around all of it, the listener.
\* A cron server takes registered jobs; any other kind has a factory.
BuildServer ==
  /\ At("server") /\ todo # {}
  /\ LET i == Min(todo)
         server == doc["server"][i]
     IN  \/ /\ server.kind = "http" =>
                 /\ \A p \in ToSet(server.packs) : Registered("pack", p.name) /\ GuardsResolve(p.guards)
                 /\ RequiresMounts(server) /\ ~Clash(i)
            /\ server.kind = "cron" => \A job \in server.jobs : Registered("job", job)
            /\ server.kind \notin {"http", "cron"} => Registered("server", server.kind)
            /\ Take(i)
            /\ made' = [made EXCEPT !.seen = @ \cup {made.engines}]
            /\ Bind(i)
            /\ routes' = IF server.kind = "http" THEN routes \cup Mounted(i) ELSE routes
            /\ UNCHANGED <<doc, stage, hooks, result>>
         \/ Fail("failed")     \* a name not registered, an address in use
         \/ server.kind = "http" /\ Clash(i) /\ Fail("panicked")
  /\ StillAround

-----------------------------------------------------------------------------
(* The announcement.  register is awaited: it may fail after the backend   *)
(* took it, and so may the whole build be dropped.                         *)
Announces == doc["registry"] # {} /\ doc.identity /\ doc.registrar /\ doc["server"] # <<>>

Announce ==
  /\ At("registry") /\ Announces
  /\ \E e \in todo :
       \/ /\ Registered("registry", e[2])
          /\ Take(e)
          /\ announced' = "live" /\ handle' = "held"
          /\ hooks' = Append(hooks, "deregister")
          /\ UNCHANGED <<doc, stage, made, bound, routes, result, faults>>
       \/ Fail("failed") /\ UNCHANGED <<announced, handle, faults>>
       \/ /\ Registered("registry", e[2])
          /\ Fail("failed") /\ announced' = "live" /\ faults' = faults \cup {"landed"}
          /\ UNCHANGED handle
  /\ UNCHANGED <<scripts, appVars>>

Unannounced ==
  /\ At("registry") /\ todo # {} /\ ~Announces
  /\ \/ /\ \E e \in todo : Registered("registry", e[2]) /\ Take(e)
        /\ UNCHANGED <<doc, stage, made, hooks, bound, routes, result>>
     \/ Fail("failed")
  /\ StillAround

Finish ==
  /\ result = "building" /\ stage = Last(Order) /\ todo = {}
  /\ result' = "ready"
  /\ UNCHANGED <<doc, stage, todo, made, hooks, bound, routes>> /\ StillAround

\* What awaits: a registered factory, and a script's init; not a server of a
\* built-in kind, a built-in engine, or an entry nothing was found for.
Awaits ==
  CASE stage = "config" -> Registered("config", doc["config"][Min(todo)])
    [] stage = "server" -> LET kind == doc["server"][Min(todo)].kind
                           IN  kind \notin {"http", "cron"} /\ Registered("server", kind)
    [] stage = "endpoint" -> FALSE
    [] OTHER -> \E e \in todo : Registered(stage, e[2])

Abandon ==
  /\ result = "building" /\ todo # {} /\ Awaits
  /\ Fail("abandoned")
  /\ \/ UNCHANGED <<announced, faults>>
     \/ /\ stage = "registry" /\ Announces
        /\ announced' = "live" /\ faults' = faults \cup {"landed"}
  /\ UNCHANGED <<scripts, handle, appVars>>

Build == ResolveFamily \/ ResolveMetrics \/ AddSource \/ InitScript \/ CheckObservers \/ EndStage
         \/ MountEndpoint \/ BuildServer \/ Announce \/ Unannounced \/ Finish

-----------------------------------------------------------------------------
(* The application.                                                        *)
builtVars == <<doc, stage, todo, made, hooks, routes, result>>

Run ==
  /\ result = "ready" /\ app = "idle"
  /\ app' = "serving"
  /\ UNCHANGED <<builtVars, bound, scripts, announced, handle, requests, served, faults>>

Arrive ==
  /\ app = "serving" /\ served < MaxRequests
  /\ \E i \in bound : doc["server"][i].kind = "http" /\ requests' = requests \cup {<<i, served>>}
  /\ served' = served + 1
  /\ UNCHANGED <<builtVars, bound, scripts, announced, handle, app, faults>>

Complete ==
  /\ \E r \in requests : requests' = requests \ {r}
  /\ UNCHANGED <<builtVars, bound, scripts, announced, handle, app, served, faults>>

\* A stop, a signal, or one server's start returning: all are told to end.
Trigger ==
  /\ app = "serving"
  /\ app' = "draining"
  /\ UNCHANGED <<builtVars, bound, scripts, announced, handle, requests, served, faults>>

\* A server's start returns once its requests are through; its listener is
\* gone with it.
Drained ==
  /\ app = "draining"
  /\ \E i \in bound : (\A r \in requests : r[1] # i) /\ bound' = bound \ {i}
  /\ UNCHANGED <<builtVars, scripts, announced, handle, app, requests, served, faults>>

\* The deadline drops the start futures that remain; the connections they
\* spawned run on.
DrainTimeout ==
  /\ app = "draining" /\ bound # {}
  /\ bound' = {} /\ faults' = faults \cup {"cut"}
  /\ UNCHANGED <<builtVars, scripts, announced, handle, appVars>>

BeginHooks ==
  /\ app = "draining" /\ bound = {}
  /\ app' = "hooks"
  /\ UNCHANGED <<builtVars, bound, scripts, announced, handle, requests, served, faults>>

\* close_all empties the manager; its errors are discarded.
CloseScripts ==
  /\ app = "hooks" /\ hooks # <<>> /\ Head(hooks) = "close_scripts"
  /\ scripts' = [s \in DOMAIN scripts |-> "closed"]
  /\ hooks' = Tail(hooks)
  /\ UNCHANGED <<doc, stage, todo, made, routes, result, bound, announced, handle, appVars, faults>>

\* An error of deregister is swallowed, and the hook's budget may cut it.
Deregister ==
  /\ app = "hooks" /\ hooks # <<>> /\ Head(hooks) = "deregister"
  /\ hooks' = Tail(hooks)
  /\ \/ announced' = (IF announced = "live" THEN "withdrawn" ELSE announced) /\ UNCHANGED faults
     \/ faults' = faults \cup {"kept"} /\ UNCHANGED announced
  /\ UNCHANGED <<doc, stage, todo, made, routes, result, bound, scripts, handle, appVars>>

StopServers ==
  /\ app = "hooks" /\ hooks = <<>>
  /\ app' = "done"
  /\ UNCHANGED <<builtVars, bound, scripts, announced, handle, requests, served, faults>>

\* The handle is a field of Bootstrapped: whoever keeps only the app drops
\* it, and the announcement's lease runs out.
DropHandle ==
  /\ handle = "held"
  /\ handle' = "dropped"
  /\ UNCHANGED <<builtVars, bound, scripts, announced, appVars, faults>>

Lapse ==
  /\ announced = "live" /\ handle = "dropped"
  /\ announced' = "lapsed"
  /\ UNCHANGED <<builtVars, bound, scripts, handle, appVars, faults>>

Shutdown == Drained \/ DrainTimeout \/ BeginHooks \/ CloseScripts \/ Deregister \/ StopServers
AssemblyNext == Build \/ Abandon \/ Run \/ Arrive \/ Complete \/ Trigger \/ Shutdown \/ DropHandle \/ Lapse

-----------------------------------------------------------------------------
(* Packs, api packs and server factories run when everything the document  *)
(* names is there, its sources in their order, and every route they mount  *)
(* is behind exactly the guards its entry names, on every http server: no  *)
(* reference is dropped on the way, no subtree is left open because an     *)
(* instance was missing.                                                   *)
MountedAsWritten ==
  /\ \A engines \in made.seen, s \in Sections : \A e \in doc[s] :
       {<<s, e[1]>>, <<IF s = "metrics" THEN "scrape" ELSE s, e[1]>>} \cap engines # {}
  /\ (made.seen # {} \/ result = "ready") => made.sources = doc["config"]
  /\ \A r \in {x \in routes : x \notin Mounts(x.server)} :
       LET entries == {p.guards : p \in {q \in ToSet(doc["server"][r.server].packs) : q.name = r.name}}
                      \cup {e.guards : e \in {x \in ToSet(doc["endpoint"]) : x.nest = r.name}}
       IN  \E g \in entries : /\ r.guards = [authn |-> g.authn, authz |-> g.authz]
                              /\ g.authn # None => <<"authn", g.authn>> \in made.engines
                              /\ g.authz # None => <<"authz", g.authz>> \in made.engines
  /\ result = "ready" =>
       \A i \in 1..Len(doc["server"]) : doc["server"][i].kind = "http" =>
         Cardinality({r \in routes : r.server = i /\ r \notin Mounts(i)})
           = Len(doc["server"][i].packs) + Len(doc["endpoint"])

(* An instance is announced only with every server of the document bound,  *)
(* and a build that fails leaves neither a listener nor an announcement -- *)
(* unless the failure was the register call's own, whose outcome nobody    *)
(* knows.                                                                  *)
AnnouncedMeansBound ==
  /\ (announced = "live" /\ "landed" \notin faults /\ app \in {"idle", "serving"}) =>
       bound = 1..Len(doc["server"])
  /\ result \in {"failed", "abandoned", "panicked"} => bound = {} /\ (announced = "no" \/ "landed" \in faults)

(* Script engines are closed under no request but one that outlived the    *)
(* drain's deadline; and when the run is over none is open, and nothing is *)
(* announced unless the deregistration itself failed.                      *)
HooksFollowTheDrain ==
  /\ (result = "ready" /\ requests # {} /\ "cut" \notin faults) => \A s \in DOMAIN scripts : scripts[s] = "ready"
  /\ app = "done" => /\ \A s \in DOMAIN scripts : scripts[s] = "closed"
                     /\ announced = "live" => "kept" \in faults
=============================================================================
