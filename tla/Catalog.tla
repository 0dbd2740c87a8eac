------------------------------ MODULE Catalog ------------------------------
(***************************************************************************)
(* The catalogue kept in the Vault -- folders, SSH hosts, Forwards, Web    *)
(* Routes, trusted host keys -- under every operation that writes it, and  *)
(* the table of running Forwards next to it, which the bindings of app.go  *)
(* must keep in step.                                                      *)
(*                                                                         *)
(* The catalogue is one record of functions from ids; an id is the largest *)
(* one plus one, so that of a deleted item may come back.  Every writer    *)
(* works on a copy and the Store keeps the result only if it is valid.     *)
(* Names, ports and notes are left out: a host is its endpoint and the     *)
(* revision of its secret, a Forward its folder, mode and chain of hosts,  *)
(* a Route its Forward and its two switches.                               *)
(*                                                                         *)
(* The specification's own names carry the module's, for ServiceProofs     *)
(* extends this module together with Commands.                             *)
(***************************************************************************)
EXTENDS Naturals, Sequences, FiniteSets, FiniteSetsExt, SequencesExt, Lists

CONSTANTS
    Endpoints,      \* address, port and user of an SSH host
    Packages,       \* the contents of the backups that may be imported
    Secrets,        \* values of a host's secret
    MaxItems,       \* bound on the ids given out
    MaxOps,         \* bound on the operations of the user
    MaxImports      \* bound on the packages imported

ASSUME CatalogAssumption == MaxItems \in Nat /\ MaxOps \in Nat /\ MaxImports \in Nat

VARIABLES
    data,       \* model.VaultData
    table,      \* the run table: what each running Forward was started with
    imports,    \* how many packages were imported
    ops         \* how many operations were done

catalogVars == << data, table, imports, ops >>

Empty == << >>
Modes == {"local", "remote"}
Kinds == {"folders", "hosts", "forwards", "routes", "keys"}

-----------------------------------------------------------------------------
(* The catalogue                                                           *)

NextID(items) == Max(DOMAIN items \cup {0}) + 1
With(items, id, item) == [i \in DOMAIN items \cup {id} |-> IF i = id THEN item ELSE items[i]]
Without(items, ids) == [i \in DOMAIN items \ ids |-> items[i]]

\* Folders have two levels at most; references lead somewhere; a Route needs a
\* local Forward.  Ids are unique because a kind is a function of its ids.
Validate(d) ==
    /\ \A f \in DOMAIN d.folders :
          d.folders[f] # 0 => d.folders[f] \in DOMAIN d.folders /\ d.folders[d.folders[f]] = 0
    /\ \A w \in DOMAIN d.forwards :
          /\ d.forwards[w].folder \in DOMAIN d.folders
          /\ d.forwards[w].chain # << >>
          /\ ToSet(d.forwards[w].chain) \subseteq DOMAIN d.hosts
    /\ \A r \in DOMAIN d.routes :
          /\ d.routes[r].forward \in DOMAIN d.forwards
          /\ d.forwards[d.routes[r].forward].mode = "local"

\* What every writer leaves behind: the shape of the records, and what
\* CaddyNeedsHosts says.
Written(d) ==
    /\ DOMAIN d = Kinds
    /\ \A kind \in Kinds \ {"keys"} : IsFiniteSet(DOMAIN d[kind]) /\ DOMAIN d[kind] \subseteq Nat \ {0}
    /\ \A w \in DOMAIN d.forwards : d.forwards[w] \in [folder : Nat, mode : Modes, chain : Seq(Nat)]
    /\ \A r \in DOMAIN d.routes :
          /\ d.routes[r] \in [forward : Nat, hosts : BOOLEAN, caddy : BOOLEAN]
          /\ d.routes[r].caddy => d.routes[r].hosts

\* A backup is a catalogue some Vault once held.
ASSUME PackagesAssumption == \A p \in Packages : Written(p) /\ Validate(p)

\* Store.Update: an error of the callback leaves the file alone.
Update(d) == Validate(d) /\ data' = d

Operation == ops' = ops + 1
Edit(d) == Operation /\ Update(d) /\ UNCHANGED << table, imports >>

-----------------------------------------------------------------------------
(* Folders, hosts, Forwards, Routes                                        *)

CreateFolder(parent) ==
    Edit([data EXCEPT !.folders = With(@, NextID(@), parent)])

\* SaveSSHHostSecure: the revision grows when the secret really changes.
Prepared(old, endpoint, secret) ==
    [endpoint |-> endpoint, secret |-> secret,
     revision |-> old.revision + (IF secret # old.secret THEN 1 ELSE 0)]

SaveSSHHost(id, endpoint, secret) ==
    IF id = 0
    THEN Edit([data EXCEPT !.hosts = With(@, NextID(@), Prepared([secret |-> "none", revision |-> 0], endpoint, secret))])
    ELSE /\ id \in DOMAIN data.hosts
         /\ Edit([data EXCEPT !.hosts[id] = Prepared(@, endpoint, secret)])

Active(id) == id \in DOMAIN table /\ ~table[id].stopping
Definition(forward) == << forward.mode, forward.chain >>

\* The binding refuses to edit a Forward that runs.
SaveForward(id, forward) ==
    IF id = 0
    THEN Edit([data EXCEPT !.forwards = With(@, NextID(@), forward)])
    ELSE /\ id \in DOMAIN data.forwards /\ ~Active(id)
         /\ Edit([data EXCEPT !.forwards[id] = forward])

\* All or nothing; a folder is no part of what a run was started with.
MoveIntoFolder(ids, folder) ==
    /\ ids # {} /\ ids \subseteq DOMAIN data.forwards /\ folder \in DOMAIN data.folders
    /\ \E id \in ids : data.forwards[id].folder # folder
    /\ LET Moved(id) == IF id \in ids THEN [data.forwards[id] EXCEPT !.folder = folder] ELSE data.forwards[id]
       IN  Edit([data EXCEPT !.forwards = [id \in DOMAIN data.forwards |-> Moved(id)]])

PutRoute(id, route) ==
    IF id = 0 THEN Edit([data EXCEPT !.routes = With(@, NextID(@), route)])
    ELSE id \in DOMAIN data.routes /\ Edit([data EXCEPT !.routes[id] = route])

\* SaveWebRoute: no hosts, no Caddy.
SaveWebRoute(id, forward, hosts, caddy) ==
    PutRoute(id, [forward |-> forward, hosts |-> hosts, caddy |-> hosts /\ caddy])

\* CommitRouteChange with a whole Route: Caddy takes the hosts along.
UpsertRoute(id, forward, hosts, caddy) ==
    PutRoute(id, [forward |-> forward, hosts |-> hosts \/ caddy, caddy |-> caddy])

\* Mutant: the switch of the hosts entry leaves Caddy alone.
FlippedAlone(route, flag, on) == [route EXCEPT ![flag] = on]

\* applyRouteIntent with one switch: hosts off takes Caddy along, Caddy on the hosts.
Flipped(route, flag, on) ==
    CASE flag = "hosts" /\ ~on -> [route EXCEPT !.hosts = FALSE, !.caddy = FALSE]
      [] flag = "caddy" /\ on  -> [route EXCEPT !.hosts = TRUE, !.caddy = TRUE]
      [] OTHER                 -> [route EXCEPT ![flag] = on]

SetRouteFlag(id, flag, on) ==
    /\ id \in DOMAIN data.routes
    /\ Edit([data EXCEPT !.routes[id] = Flipped(@, flag, on)])

DeleteWebRoute(id) ==
    /\ id \in DOMAIN data.routes
    /\ Edit([data EXCEPT !.routes = Without(@, {id})])

\* EnrollHostKey refuses a known endpoint; ReplaceHostKey overwrites it.
EnrollHostKey(endpoint, key) ==
    /\ endpoint \notin DOMAIN data.keys
    /\ Edit([data EXCEPT !.keys = With(@, endpoint, key)])
ReplaceHostKey(endpoint, key) == Edit([data EXCEPT !.keys = With(@, endpoint, key)])

-----------------------------------------------------------------------------
(* DeleteSelection                                                         *)

Subfolders(ids) == {f \in DOMAIN data.folders : data.folders[f] \in ids \ {0}}
In(ids) == {w \in DOMAIN data.forwards : data.forwards[w].folder \in ids}

\* Mutant: only what lies directly in the selected folders is stopped.
StopsShallow(sel) == sel.forwards \cup (IF sel.cascade THEN In(sel.folders) ELSE {})

\* What the binding stops before it asks for the deletion; it works out the
\* cascade itself and ignores that a stop failed.
Stops(sel) ==
    sel.forwards \cup (IF sel.cascade THEN In(sel.folders \cup Subfolders(sel.folders)) ELSE {})

\* A stop ends the run, or runs into its deadline and leaves it being stopped.
Stopped(ids, failing) ==
    [id \in DOMAIN table \ (ids \ failing) |->
        IF id \in ids THEN [table[id] EXCEPT !.stopping = TRUE] ELSE table[id]]

Selected(sel) == sel.folders \cup Subfolders(sel.folders)
Doomed(sel) == sel.forwards \cup In(Selected(sel))

Deletable(sel) ==
    /\ sel.folders \subseteq DOMAIN data.folders
    /\ sel.cascade \/ (Selected(sel) = sel.folders /\ Doomed(sel) = sel.forwards)
    /\ \A w \in DOMAIN data.forwards \ Doomed(sel) : ToSet(data.forwards[w].chain) \cap sel.hosts = {}

Deleted(sel) ==
    [data EXCEPT !.folders  = Without(@, Selected(sel)),
                 !.forwards = Without(@, Doomed(sel)),
                 !.hosts    = Without(@, sel.hosts),
                 !.routes   = Without(@, {r \in DOMAIN data.routes : data.routes[r].forward \in Doomed(sel)})]

\* The runs are stopped even when the deletion is refused.
DeleteSelection(sel) ==
    /\ Operation
    /\ \E failing \in SUBSET (Stops(sel) \cap DOMAIN table) : table' = Stopped(Stops(sel), failing)
    /\ IF Deletable(sel) THEN Update(Deleted(sel)) ELSE data' = data
    /\ UNCHANGED imports

-----------------------------------------------------------------------------
(* ApplyStagedImport                                                       *)

\* New ids follow the largest old one in the order of the package.
Renumber(items, ids) == [id \in ids |-> NextID(items) - 1 + Cardinality({i \in ids : i <= id})]

Tops(p) == {f \in DOMAIN p.folders : p.folders[f] = 0}
Kept(p, skip) == {h \in DOMAIN p.hosts : p.hosts[h].endpoint \notin skip}

\* A skipped host leaves the chain; a chain of skipped hosts takes the Forward along.
Hops(p, skip, w) ==
    LET chain == p.forwards[w].chain
    IN  Staying(chain, {i \in DOMAIN chain : chain[i] \in Kept(p, skip)})
Arriving(p, skip) == {w \in DOMAIN p.forwards : Hops(p, skip, w) # << >>}

Merge(old, new) == [id \in DOMAIN old \cup DOMAIN new |-> IF id \in DOMAIN old THEN old[id] ELSE new[id]]

\* Mutant: the trust of the package replaces the user's.
KeysOverwritten(p) == Merge(p.keys, data.keys)

ImportedKeys(p) == Merge(data.keys, p.keys)

\* Everything goes under a new folder, two levels become one, Routes are off.
Imported(p, skip) ==
    LET wrapper == NextID(data.folders)
        folderID == [f \in Tops(p) |-> wrapper + Cardinality({g \in Tops(p) : g <= f})]
        hostID == Renumber(data.hosts, Kept(p, skip))
        forwardID == Renumber(data.forwards, DOMAIN p.forwards)
        routes == {r \in DOMAIN p.routes : p.routes[r].forward \in Arriving(p, skip)}
        routeID == Renumber(data.routes, routes)
        Home(f) == folderID[IF f \in Tops(p) THEN f ELSE p.folders[f]]
        Back(map, id) == CHOOSE x \in DOMAIN map : map[x] = id
        Forward(w) == [p.forwards[w] EXCEPT
            !.folder = Home(@), !.chain = [i \in DOMAIN Hops(p, skip, w) |-> hostID[Hops(p, skip, w)[i]]]]
    IN  [folders  |-> Merge(data.folders,
                        [f \in {wrapper} \cup Range(folderID) |-> IF f = wrapper THEN 0 ELSE wrapper]),
         hosts    |-> Merge(data.hosts, [h \in Range(hostID) |-> p.hosts[Back(hostID, h)]]),
         forwards |-> Merge(data.forwards,
                        [w \in {forwardID[x] : x \in Arriving(p, skip)} |-> Forward(Back(forwardID, w))]),
         routes   |-> Merge(data.routes, [r \in Range(routeID) |->
                        [forward |-> forwardID[p.routes[Back(routeID, r)].forward], hosts |-> FALSE, caddy |-> FALSE]]),
         keys     |-> ImportedKeys(p)]

Import(p, skip) ==
    /\ Operation
    /\ Update(Imported(p, skip))
    /\ imports' = imports + 1
    /\ UNCHANGED table

-----------------------------------------------------------------------------
(* Runs                                                                    *)

\* RuntimeBiz.Start reads the Forward from the Vault.
Start(id) ==
    /\ id \in DOMAIN data.forwards \ DOMAIN table
    /\ Operation
    /\ table' = With(table, id, [def |-> Definition(data.forwards[id]), stopping |-> FALSE])
    /\ UNCHANGED << data, imports >>

Stop(id) ==
    /\ Active(id)
    /\ \E failing \in SUBSET {id} : table' = Stopped({id}, failing)
    /\ UNCHANGED << data, imports, ops >>

RunExits(id) ==
    /\ id \in DOMAIN table
    /\ table' = Without(table, {id})
    /\ UNCHANGED << data, imports, ops >>

-----------------------------------------------------------------------------

CatalogInit ==
    /\ data \in Packages
    /\ table = Empty /\ imports = 0 /\ ops = 0

Within(items) == NextID(items) <= MaxItems

Selections ==
    [folders : SUBSET DOMAIN data.folders, hosts : SUBSET DOMAIN data.hosts,
     forwards : SUBSET DOMAIN data.forwards, cascade : BOOLEAN]

Chains == {<< h >> : h \in DOMAIN data.hosts} \cup
          {<< h, i >> : h \in DOMAIN data.hosts, i \in DOMAIN data.hosts}

EditFolders == \E parent \in DOMAIN data.folders \cup {0} : Within(data.folders) /\ CreateFolder(parent)

EditHosts ==
    \E id \in DOMAIN data.hosts \cup {0}, e \in Endpoints, s \in Secrets :
       (id = 0 => Within(data.hosts)) /\ SaveSSHHost(id, e, s)

EditForwards ==
    \/ \E id \in DOMAIN data.forwards \cup {0} :
       \E forward \in [folder : DOMAIN data.folders, mode : Modes, chain : Chains] :
          (id = 0 => Within(data.forwards)) /\ SaveForward(id, forward)
    \/ \E ids \in SUBSET DOMAIN data.forwards, f \in DOMAIN data.folders : MoveIntoFolder(ids, f)

EditRoutes ==
    \/ \E id \in DOMAIN data.routes \cup {0}, w \in DOMAIN data.forwards, h, c \in BOOLEAN :
          /\ id = 0 => Within(data.routes)
          /\ SaveWebRoute(id, w, h, c) \/ UpsertRoute(id, w, h, c)
    \/ \E id \in DOMAIN data.routes, flag \in {"hosts", "caddy"}, on \in BOOLEAN : SetRouteFlag(id, flag, on)
    \/ \E id \in DOMAIN data.routes : DeleteWebRoute(id)

EditKeys == \E e \in Endpoints, key \in {"k1", "k2"} : EnrollHostKey(e, key) \/ ReplaceHostKey(e, key)

CatalogNext ==
    \/ /\ ops < MaxOps
       /\ \/ EditFolders \/ EditHosts \/ EditForwards \/ EditRoutes \/ EditKeys
          \/ \E sel \in Selections : DeleteSelection(sel)
          \/ \E p \in Packages, skip \in SUBSET Endpoints : imports < MaxImports /\ Import(p, skip)
          \/ \E id \in DOMAIN data.forwards : Start(id)
    \/ \E id \in DOMAIN table : Stop(id) \/ RunExits(id)

CatalogSpec == CatalogInit /\ [][CatalogNext]_catalogVars

-----------------------------------------------------------------------------
(* Properties                                                              *)

\* A run that is not being stopped belongs to a Forward of the catalogue and is
\* what the catalogue says of it: no edit, deletion or cascade passes it by
\* (app.go:478-530).  A run whose stop failed may outlive its Forward.
RunsMatchCatalogue ==
    \A id \in DOMAIN table :
       Active(id) => id \in DOMAIN data.forwards /\ table[id].def = Definition(data.forwards[id])

\* Caddy never serves a Route whose hosts entry is off, whichever writer came
\* last; Validate does not look at it (catalog.go, the comment of SaveWebRoute).
CaddyNeedsHosts == \A r \in DOMAIN data.routes : data.routes[r].caddy => data.routes[r].hosts

\* An import only adds: what was there is as it was, no Route arrives switched
\* on, no trusted key is replaced, and each Forward that arrives goes through the
\* endpoints it went through in the package, but for the skipped ones.
Endpoint(d, chain) == [i \in DOMAIN chain |-> d.hosts[chain[i]].endpoint]
Unskipped(endpoints, skip) == Staying(endpoints, {i \in DOMAIN endpoints : endpoints[i] \notin skip})
Extends(new, old) == DOMAIN old \subseteq DOMAIN new /\ \A id \in DOMAIN old : new[id] = old[id]
ImportAddsOnly ==
    [][ imports' # imports =>
          /\ \A kind \in DOMAIN data : Extends(data'[kind], data[kind])
          /\ \A r \in DOMAIN data'.routes \ DOMAIN data.routes : ~data'.routes[r].hosts /\ ~data'.routes[r].caddy
          /\ \E p \in Packages, skip \in SUBSET Endpoints :
                \A w \in DOMAIN data'.forwards \ DOMAIN data.forwards :
                   \E x \in DOMAIN p.forwards :
                      /\ data'.forwards[w].mode = p.forwards[x].mode
                      /\ Endpoint(data', data'.forwards[w].chain)
                           = Unskipped(Endpoint(p, p.forwards[x].chain), skip) ]_catalogVars

=============================================================================
