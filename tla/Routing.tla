------------------------------ MODULE Routing ------------------------------
(***************************************************************************)
(* Static routes.  A request reads the list of its kind without the lock,  *)
(* edits it, and UpdateStaticRouteConfig replaces the whole list under the *)
(* lock; it starts a goroutine that reads the file again, without the      *)
(* lock, and writes zebra.conf.                                            *)
(***************************************************************************)
EXTENDS InterfaceStore

CONSTANTS
    Routes,       \* interface, destination and mask: what makes two routes equal
    KindOf        \* the kind of each

ASSUME RoutingAssumption == KindOf \in [Routes -> RouteKinds]

VARIABLES
    generator,    \* the goroutine a request has started: its step, what it read,
                  \* and (history) whether nothing changed the file meanwhile
    zebra,        \* the routes of zebra.conf
    trusted       \* history: the last zebra.conf was generated undisturbed

routingVars == <<generator, zebra, trusted>>
NoGenerator == [step |-> "none", routes |-> {}, alone |-> FALSE]
Generating == {r \in Requests : generator[r].step # "none"}

Row(x) == [name |-> x, fields |-> Plain]
RouteNames(rows) == {rows[i].name : i \in DOMAIN rows}
DumpedRoutes(content) == RouteNames(content["ipv4_unicast"])

\* What a generator still running has read, or will write, is overtaken.
Disturbed == [g \in Requests |-> [generator[g] EXCEPT !.alone = FALSE]]

-----------------------------------------------------------------------------
RouteJob(op, old, x, rows) ==
    [op |-> op, old |-> old, name |-> x, section |-> KindOf[x], rows |-> rows, step |-> "routing"]

CreateStaticRoute(r, x) ==
    LET rows == file[KindOf[x]]
    IN  /\ x \notin RouteNames(rows)
        /\ Begin(r, RouteJob("create", None, x, Append(rows, Row(x))))
        /\ UNCHANGED <<fileVars, routingVars>>

\* Every row equal to the route goes.
DeleteStaticRoute(r, x) ==
    LET rows == file[KindOf[x]]
    IN  /\ x \in RouteNames(rows)
        /\ Begin(r, RouteJob("delete", x, x, SelectSeq(rows, LAMBDA row : row.name # x)))
        /\ UNCHANGED <<fileVars, routingVars>>

\* The new route takes the place of the old one, be it there already or not.
UpdateStaticRoute(r, x, y) ==
    LET rows == file[KindOf[x]]
    IN  /\ x \in RouteNames(rows) /\ KindOf[y] = KindOf[x]
        /\ Begin(r, RouteJob("update", x, y, [i \in DOMAIN rows |->
                                  IF rows[i].name = x THEN Row(y) ELSE rows[i]]))
        /\ UNCHANGED <<fileVars, routingVars>>

UpdateStaticRouteConfig(r) ==
    /\ At(r, "routing")
    /\ LockAndTruncate(r, job[r].section, job[r].rows)
    /\ UNCHANGED <<job, contended, routingVars>>

\* Mutant of StoreRoutes: the goroutine is not started.
StoreRoutesOnly(r) ==
    /\ At(r, "routing")
    /\ WriteAndUnlock(r)
    /\ Finish(r, "ok")
    /\ UNCHANGED routingVars

StoreRoutes(r) ==
    /\ At(r, "routing")
    /\ WriteAndUnlock(r)
    /\ generator' = [Disturbed EXCEPT ![r] =
                        [step |-> "started", routes |-> {}, alone |-> Generating = {}]]
    /\ Finish(r, "ok")
    /\ UNCHANGED <<zebra, trusted>>

RoutesTimeOut(r) ==
    /\ At(r, "routing") /\ LockTimedOut(r)
    /\ Finish(r, "failed")
    /\ UNCHANGED routingVars

-----------------------------------------------------------------------------
\* generateZebraConfig: the file is read, and then zebra.conf is written with
\* the routes of one kind only.
FetchRouteConfig(g) ==
    /\ generator[g].step = "started"
    /\ generator' = [generator EXCEPT ![g].step = "fetched", ![g].routes = DumpedRoutes(file),
                                         ![g].alone = @ /\ ~ Torn]
    /\ UNCHANGED <<storeVars, zebra, trusted>>

WriteZebra(g) ==
    /\ generator[g].step = "fetched"
    /\ zebra' = generator[g].routes
    /\ trusted' = generator[g].alone
    /\ generator' = [Disturbed EXCEPT ![g] = NoGenerator]
    /\ UNCHANGED storeVars

ServeRoutes(r) == UpdateStaticRouteConfig(r) \/ StoreRoutes(r) \/ RoutesTimeOut(r)
Generate(g) == FetchRouteConfig(g) \/ WriteZebra(g)
=============================================================================
