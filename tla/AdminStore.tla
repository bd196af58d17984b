---- MODULE AdminStore ----
(* The administrators of the portal (portal/admin/store.go with the parts of
   portal.go, middleware/admin.go and handlers/admins.go that use it) and the
   Headscale they administer.  The sidecar starts the portal twice, on the LAN
   and on the tailnet, and each NewServer loads a Store of its own from the one
   admins.json; neither looks at the file again.  A handler's work on its store
   is one step, because Store.mu is held for all of it, save included. *)
EXTENDS Naturals, Sequences, FiniteSets

CONSTANTS
    Name,       \* users of Headscale, the system user left out
    Node,       \* devices
    Server,     \* the two portals of the sidecar
    FirstUser,  \* the user there is at the start,
    SecondUser, \* one who may have joined before,
    FirstNode,  \* and their
    SecondNode, \* devices
    Lan,        \* the portal a browser on the LAN reaches; the others are for users
    Local,      \* the caller there, whom the middleware calls "local"
    MaxEvents,  \* bound on failures, restarts and what administrators do
    None

ASSUME NamesAssumption ==
    /\ FirstUser \in Name /\ SecondUser \in Name
    /\ FirstNode \in Node /\ SecondNode \in Node
    /\ Local \notin Name /\ None \notin Name
    /\ MaxEvents \in Nat

VARIABLES
    users,      \* Headscale's users in the order of createdAt
    nodes,      \* its nodes, <<node, user>>
    known,      \* users and
    seen,       \* nodes there have been (names and ids are not used twice)
    store,      \* Store.admins of each server
    boot,       \* how far each server has come: "off", "nil" (NewStore failed),
                \* then Bootstrap's "check", "list", "add" and "done"
    oldest,     \* the user Bootstrap is about to promote
    file,       \* admins.json, {} when it is missing,
    torn,       \* and whether a write of it broke off
    kept,       \* history: administrators whose grant was saved,
    knows,      \* history: and the servers whose store has them from it
    events

headscaleVars == <<users, nodes, known, seen>>
storeVars == <<store, boot, oldest, file, torn, kept, knows>>
vars == <<headscaleVars, storeVars, events>>

TypeOK ==
    /\ users \in Seq(Name) /\ nodes \subseteq Node \X Name
    /\ known \subseteq Name /\ seen \subseteq Node
    /\ store \in [Server -> SUBSET Name]
    /\ boot \in [Server -> {"off", "nil", "check", "list", "add", "done"}]
    /\ oldest \in [Server -> Name \cup {None}]
    /\ \A s \in Server : boot[s] = "add" => oldest[s] \in Name
    /\ file \subseteq Name /\ torn \in BOOLEAN
    /\ kept \subseteq Name /\ knows \in [Name -> SUBSET Server]
    /\ events \in 0..MaxEvents

UserNames == {users[i] : i \in DOMAIN users}

\* A fresh installation, or one with administrators from an earlier life.
Init ==
    /\ \/ users = <<>> /\ nodes = {} /\ file = {}
       \/ users = <<FirstUser>> /\ nodes = {<<FirstNode, FirstUser>>} /\ file = {}
       \/ /\ users = <<FirstUser, SecondUser>>
          /\ nodes = {<<FirstNode, FirstUser>>, <<SecondNode, SecondUser>>}
          /\ file \in {{FirstUser}, {FirstUser, SecondUser}}
    /\ known = UserNames /\ kept = file
    /\ seen = {p[1] : p \in nodes}
    /\ store = [s \in Server |-> {}] /\ boot = [s \in Server |-> "off"]
    /\ oldest = [s \in Server |-> None]
    /\ torn = FALSE
    /\ knows = [n \in Name |-> {}]
    /\ events = 0

Event == events < MaxEvents /\ events' = events + 1

----
(* The store *)

Serving(s) == boot[s] \notin {"off", "nil"}

\* NewServer: load, and go s.Bootstrap.  A file that does not parse leaves the
\* server without a store.
NewServer(s) ==
    /\ boot[s] = "off"
    /\ IF torn
         THEN boot' = [boot EXCEPT ![s] = "nil"] /\ UNCHANGED <<store, knows>>
         ELSE /\ boot' = [boot EXCEPT ![s] = "check"]
              /\ store' = [store EXCEPT ![s] = file]
              /\ knows' = [n \in Name |-> IF n \in kept THEN knows[n] \cup {s} ELSE {}]
    /\ UNCHANGED <<headscaleVars, oldest, file, torn, kept, events>>

\* What Add and Remove leave in the map, the check that there is more than one
\* administrator, and the slip of one that is off by one.
Added(s, n) == store[s] \cup {n}
Removed(s, n) == store[s] \ {n}
RemovableToZero(s) == store[s] # {}
Removable(s) == \E m, n \in store[s] : m # n

\* save after the map was changed, and the slip of a save before the change.
SavesOld(s, admins) ==
    /\ store' = [store EXCEPT ![s] = admins]
    /\ file' = store[s]
    /\ torn' = FALSE
Saves(s, admins) ==
    /\ store' = [store EXCEPT ![s] = admins]
    /\ file' = admins
    /\ torn' = FALSE

\* save fails: the map keeps the change, the file is as before or broken off.
SaveFails(s, admins) ==
    /\ Event
    /\ store' = [store EXCEPT ![s] = admins]
    /\ torn' \in {torn, TRUE}
    /\ UNCHANGED file

Add(s, n) ==
    /\ Saves(s, Added(s, n))
    /\ knows' = [knows EXCEPT ![n] = (IF n \in kept THEN @ ELSE {}) \cup {s}]
    /\ kept' = {m \in kept \cup {n} : s \in knows'[m]}

AddFails(s, n) ==
    /\ SaveFails(s, Added(s, n))
    /\ kept' = IF torn' THEN {} ELSE kept
    /\ UNCHANGED knows

Remove(s, n) ==
    /\ Removable(s)
    /\ Saves(s, Removed(s, n))
    /\ kept' = {m \in kept \ {n} : s \in knows[m]}
    /\ knows' = [knows EXCEPT ![n] = {}]

RemoveFails(s, n) ==
    /\ Removable(s)
    /\ SaveFails(s, Removed(s, n))
    /\ kept' = IF torn' THEN {} ELSE kept \ {n}
    /\ knows' = [knows EXCEPT ![n] = {}]

\* Bootstrap: HasAny, then ListUsers over the network, then Add; the slip does
\* not ask whether there is an oldest user.
BootstrapCheck(s) ==
    /\ boot[s] = "check"
    /\ boot' = [boot EXCEPT ![s] = IF store[s] = {} THEN "list" ELSE "done"]
    /\ UNCHANGED <<headscaleVars, store, oldest, file, torn, kept, knows, events>>

BootstrapListUnchecked(s) ==
    /\ boot[s] = "list"
    /\ boot' = [boot EXCEPT ![s] = "add"]
    /\ oldest' = [oldest EXCEPT ![s] = IF users = <<>> THEN None ELSE Head(users)]
    /\ UNCHANGED <<headscaleVars, store, file, torn, kept, knows, events>>
BootstrapList(s) ==
    /\ boot[s] = "list"
    /\ IF users = <<>>
         THEN boot' = [boot EXCEPT ![s] = "done"] /\ UNCHANGED oldest
         ELSE /\ boot' = [boot EXCEPT ![s] = "add"]
              /\ oldest' = [oldest EXCEPT ![s] = Head(users)]
    /\ UNCHANGED <<headscaleVars, store, file, torn, kept, knows, events>>

BootstrapListFails(s) ==
    /\ boot[s] = "list" /\ Event
    /\ boot' = [boot EXCEPT ![s] = "done"]
    /\ UNCHANGED <<headscaleVars, store, oldest, file, torn, kept, knows>>

BootstrapAdd(s) ==
    /\ boot[s] = "add"
    /\ boot' = [boot EXCEPT ![s] = "done"]
    /\ \/ Add(s, oldest[s]) /\ UNCHANGED events
       \/ AddFails(s, oldest[s])
    /\ oldest' = [oldest EXCEPT ![s] = None]
    /\ UNCHANGED headscaleVars

\* AdminOnly, for a caller told by the address extractIP took from the request: a
\* server without a store lets everyone in, and a local caller is let in by every
\* one; others by the user of their device.
AdminOnly(s, caller) ==
    \/ boot[s] = "nil"
    \/ Serving(s) /\ caller = Local
    \/ /\ Serving(s) /\ caller \in store[s]
       /\ \E n \in Node : <<n, caller>> \in nodes

\* The handlers' work once the middleware has let them through: with the answer
\* 204, or with an error that has changed nothing or not reached the file.
Grant(s, n) == Serving(s) /\ Add(s, n) /\ UNCHANGED <<boot, oldest>>
GrantFails(s, n) == Serving(s) /\ AddFails(s, n) /\ UNCHANGED <<boot, oldest>>
Revoke(s, caller, n) ==
    /\ Serving(s) /\ caller # n
    /\ Remove(s, n) /\ UNCHANGED <<boot, oldest>>
RevokeFails(s, caller, n) ==
    /\ Serving(s) /\ caller # n
    /\ RemoveFails(s, n) /\ UNCHANGED <<boot, oldest>>
GrantRefused(s) == boot[s] = "nil"
RevokeRefused(s, caller, n) == boot[s] = "nil" \/ caller = n \/ ~Removable(s)

\* The sidecar stops, a write of admins.json possibly half done, and starts again.
SidecarRestart ==
    /\ Event
    /\ boot' = [s \in Server |-> "off"] /\ store' = [s \in Server |-> {}]
    /\ oldest' = [s \in Server |-> None] /\ knows' = [n \in Name |-> {}]
    /\ \/ UNCHANGED <<torn, kept>>
       \/ (\E s \in Server : Serving(s)) /\ torn' = TRUE /\ kept' = {}
    /\ UNCHANGED <<headscaleVars, file>>

----
(* Headscale, as the portal's client uses it *)

CreateUser(u) ==
    /\ u \notin known /\ known' = known \cup {u}
    /\ users' = Append(users, u)
    /\ UNCHANGED <<nodes, seen>>

DeviceRegisters(n, u) ==
    /\ u \in UserNames /\ n \notin seen
    /\ nodes' = nodes \cup {<<n, u>>} /\ seen' = seen \cup {n}
    /\ UNCHANGED <<users, known, storeVars, events>>

DeleteNode(n) ==
    /\ \E u \in Name : <<n, u>> \in nodes
    /\ nodes' = {p \in nodes : p[1] # n}
    /\ UNCHANGED <<users, known, seen>>

\* A user with nodes cannot be deleted.
DestroyUser(u) ==
    /\ u \in UserNames /\ \A p \in nodes : p[2] # u
    /\ \E i \in DOMAIN users :
          /\ users[i] = u
          /\ users' = [j \in 1..(Len(users) - 1) |-> users[IF j < i THEN j ELSE j + 1]]
    /\ UNCHANGED <<nodes, known, seen>>

----
\* Requests of administrators at other browsers.
Reaches(caller, s) == caller = Local <=> s = Lan

OtherGrants(s, caller, n) ==
    /\ Event /\ Reaches(caller, s) /\ AdminOnly(s, caller)
    /\ Grant(s, n) \/ GrantFails(s, n)
    /\ UNCHANGED headscaleVars

OtherRevokes(s, caller, n) ==
    /\ Event /\ Reaches(caller, s) /\ AdminOnly(s, caller)
    /\ Revoke(s, caller, n) \/ RevokeFails(s, caller, n)
    /\ UNCHANGED headscaleVars

ServerStep(s) ==
    NewServer(s) \/ BootstrapCheck(s) \/ BootstrapList(s)
    \/ BootstrapListFails(s) \/ BootstrapAdd(s)

OtherStep ==
    \/ SidecarRestart
    \/ \E s \in Server, c \in Name \cup {Local}, n \in Name :
          OtherGrants(s, c, n) \/ OtherRevokes(s, c, n)
    \/ \E n \in Node, u \in Name : DeviceRegisters(n, u)

\* A request that the middleware let through at some time, whoever sent it.
RequestStep(s, caller) ==
    \E n \in Name :
       \/ (Grant(s, n) \/ Revoke(s, caller, n)) /\ UNCHANGED <<headscaleVars, events>>
       \/ (GrantFails(s, n) \/ RevokeFails(s, caller, n)) /\ UNCHANGED headscaleVars

\* What administrators do to Headscale, at once or through requests, and what only
\* counts as an event: a click, a request that is lost.
HeadscaleStep ==
    /\ \/ \E u \in Name : CreateUser(u) \/ DestroyUser(u)
       \/ \E n \in Node : DeleteNode(n)
       \/ UNCHANGED headscaleVars
    /\ Event \/ UNCHANGED events
    /\ UNCHANGED storeVars

Next ==
    \/ \E s \in Server : ServerStep(s)
    \/ OtherStep
    \/ \E s \in Server, c \in Name \cup {Local} : RequestStep(s, c)
    \/ HeadscaleStep

Spec == Init /\ [][Next]_vars

----
(* Properties *)

\* Revocations leave a name: a store that has one is never emptied, whichever
\* requests of whichever servers overlap and whichever saves fail, a saved list
\* is never an empty one, and so a server that loads it has a name to start with.
\* Whether the name is still that of a user is another matter: deleting a user
\* does not touch the stores (handlers/users.go), and the last one named may be
\* gone, against the document (see the README).
AdminRemains ==
    [][/\ \A s \in Server : Serving(s) /\ store[s] # {} =>
             store'[s] # {} \/ boot'[s] = "off"
       /\ file # {} => file' # {}
       /\ \A s \in Server : boot[s] = "off" /\ file # {} =>
             boot'[s] \in {"off", "nil"} \/ store'[s] # {}]_vars

\* A grant that Add has saved is still in admins.json, for the next start of the
\* sidecar to find, unless a revocation was asked for, a write of the file broke
\* off, or the other server saved its own map, which it had loaded before.
GrantsKept == kept \subseteq file
====
