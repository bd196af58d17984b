---- MODULE PortalUsersProofs ----
(* The portal's administrators and its page of users and devices, for any number
   of users, devices, servers and requests.

   First AdminStore.  Its inductive invariant adds to the types that a server which
   is said to know a kept administrator has them in its map: so what it saves has
   them too.

   Then the page.  Its inductive invariant says of every control that the requests
   it stands for are at most one, that they are not in flight any more once one has
   succeeded, and that the control shows just that.  A step replaces one request,
   or, when a refresh ends, unmounts those of the rows that are no longer listed;
   so the lemmas say what that does to the requests of one control, and each action
   names the control it is about and leaves the others alone.  The page's steps are
   steps of AdminStore, which gives the page its types and AdminStore's theorems. *)
EXTENDS PortalUsers, TLAPS

KnownHeld == \A n \in kept : \A s \in knows[n] : n \in store[s]

IInv == TypeOK /\ GrantsKept /\ KnownHeld

----
(* One lemma for each way the store changes *)

\* Add, whoever calls it: the map and the file have the new administrator and
\* all that are still kept.
LEMMA AddKeeps ==
    ASSUME IInv, NEW s \in Server, NEW n \in Name, Add(s, n)
    PROVE  /\ store' \in [Server -> SUBSET Name] /\ file' \subseteq Name /\ torn' \in BOOLEAN
           /\ kept' \subseteq Name /\ knows' \in [Name -> SUBSET Server]
           /\ GrantsKept' /\ KnownHeld'
<1> DEFINE N == IF n \in kept THEN knows[n] ELSE {}
<1>1. /\ store' = [store EXCEPT ![s] = store[s] \cup {n}]
      /\ file' = store[s] \cup {n} /\ torn' = FALSE
      /\ knows' = [knows EXCEPT ![n] = N \cup {s}]
      /\ kept' = {m \in kept \cup {n} : s \in knows'[m]}
  BY DEF Add, Saves, Added
<1>2. /\ store \in [Server -> SUBSET Name] /\ knows \in [Name -> SUBSET Server]
      /\ kept \subseteq Name /\ N \subseteq Server
  BY DEF IInv, TypeOK
<1>3. \A t \in N : n \in store[t]
  BY DEF IInv, KnownHeld
<1>4. \A m \in kept : \A t \in knows[m] : m \in store[t]
  BY DEF IInv, KnownHeld
<1> HIDE DEF N
<1>5. /\ store' \in [Server -> SUBSET Name] /\ knows' \in [Name -> SUBSET Server]
      /\ file' \subseteq Name /\ torn' \in BOOLEAN /\ kept' \subseteq Name
  BY Zenon, <1>1, <1>2
<1>6. ASSUME NEW m \in kept'
      PROVE  m \in file' /\ \A t \in knows'[m] : m \in store'[t]
  <2>1. CASE m = n
    BY <2>1, <1>1, <1>2, <1>3
  <2>2. CASE m # n
    <3>1. m \in kept /\ knows'[m] = knows[m] /\ s \in knows[m]
      BY <2>2, <1>1, <1>2
    <3> QED BY <3>1, <1>1, <1>2, <1>4
  <2> QED BY <2>1, <2>2
<1> QED BY <1>5, <1>6 DEF GrantsKept, KnownHeld

\* The same when the save fails.
LEMMA AddFailsKeeps ==
    ASSUME IInv, NEW s \in Server, NEW n \in Name, AddFails(s, n)
    PROVE  /\ store' \in [Server -> SUBSET Name] /\ file' \subseteq Name /\ torn' \in BOOLEAN
           /\ kept' \subseteq Name /\ knows' \in [Name -> SUBSET Server]
           /\ GrantsKept' /\ KnownHeld'
<1>1. /\ store' = [store EXCEPT ![s] = store[s] \cup {n}]
      /\ file' = file /\ torn' \in {torn, TRUE} /\ knows' = knows
      /\ kept' \subseteq kept
  BY Zenon DEF AddFails, SaveFails, Added
<1>2. /\ store \in [Server -> SUBSET Name] /\ knows \in [Name -> SUBSET Server]
      /\ kept \subseteq Name /\ file \subseteq Name /\ torn \in BOOLEAN /\ kept \subseteq file
      /\ \A m \in kept : \A t \in knows[m] : m \in store[t]
  BY DEF IInv, TypeOK, GrantsKept, KnownHeld
<1> QED BY Zenon, <1>1, <1>2 DEF GrantsKept, KnownHeld

\* Remove: what it takes out of the map is no longer counted as kept.
LEMMA RemoveKeeps ==
    ASSUME IInv, NEW s \in Server, NEW n \in Name, Remove(s, n)
    PROVE  /\ store' \in [Server -> SUBSET Name] /\ file' \subseteq Name /\ torn' \in BOOLEAN
           /\ kept' \subseteq Name /\ knows' \in [Name -> SUBSET Server]
           /\ GrantsKept' /\ KnownHeld'
<1>1. /\ store' = [store EXCEPT ![s] = store[s] \ {n}]
      /\ file' = store[s] \ {n} /\ torn' = FALSE /\ knows' = [knows EXCEPT ![n] = {}]
      /\ kept' = {m \in kept \ {n} : s \in knows[m]}
  BY DEF Remove, Saves, Removed
<1>2. /\ store \in [Server -> SUBSET Name] /\ knows \in [Name -> SUBSET Server]
      /\ kept \subseteq Name
      /\ \A m \in kept : \A t \in knows[m] : m \in store[t]
  BY DEF IInv, TypeOK, KnownHeld
<1> QED BY Zenon, <1>1, <1>2 DEF GrantsKept, KnownHeld

\* And when its save fails.
LEMMA RemoveFailsKeeps ==
    ASSUME IInv, NEW s \in Server, NEW n \in Name, RemoveFails(s, n)
    PROVE  /\ store' \in [Server -> SUBSET Name] /\ file' \subseteq Name /\ torn' \in BOOLEAN
           /\ kept' \subseteq Name /\ knows' \in [Name -> SUBSET Server]
           /\ GrantsKept' /\ KnownHeld'
<1>1. /\ store' = [store EXCEPT ![s] = store[s] \ {n}]
      /\ file' = file /\ torn' \in {torn, TRUE} /\ knows' = [knows EXCEPT ![n] = {}]
      /\ kept' \subseteq kept \ {n}
  BY Zenon DEF RemoveFails, SaveFails, Removed
<1>2. /\ store \in [Server -> SUBSET Name] /\ knows \in [Name -> SUBSET Server]
      /\ kept \subseteq Name /\ file \subseteq Name /\ torn \in BOOLEAN /\ kept \subseteq file
      /\ \A m \in kept : \A t \in knows[m] : m \in store[t]
  BY DEF IInv, TypeOK, GrantsKept, KnownHeld
<1> QED BY Zenon, <1>1, <1>2 DEF GrantsKept, KnownHeld

\* A server that starts has every kept administrator, because the file does.
LEMMA NewServerKeeps ==
    ASSUME IInv, NEW s \in Server, NewServer(s)
    PROVE  IInv'
<1>1. CASE torn
  BY <1>1 DEF NewServer, IInv, TypeOK, GrantsKept, KnownHeld, headscaleVars
<1>2. CASE ~torn
  <2>1. /\ store' = [store EXCEPT ![s] = file]
        /\ knows' = [n \in Name |-> IF n \in kept THEN knows[n] \cup {s} ELSE {}]
        /\ kept' = kept /\ file' = file
    BY <1>2 DEF NewServer
  <2>2. KnownHeld'
    BY <2>1 DEF IInv, TypeOK, GrantsKept, KnownHeld
  <2> QED BY <1>2, <2>1, <2>2 DEF NewServer, IInv, TypeOK, GrantsKept, headscaleVars
<1> QED BY <1>1, <1>2
----
(* Every step *)

\* What a step of Headscale or of the store leaves to be shown about the other.
Rest ==
    /\ users \in Seq(Name) /\ nodes \subseteq Node \X Name
    /\ known \subseteq Name /\ seen \subseteq Node
    /\ boot \in [Server -> {"off", "nil", "check", "list", "add", "done"}]
    /\ oldest \in [Server -> Name \cup {None}]
    /\ \A s \in Server : boot[s] = "add" => oldest[s] \in Name
    /\ events \in 0..MaxEvents

LEMMA RestAndStore ==
    ASSUME Rest', store' \in [Server -> SUBSET Name], file' \subseteq Name,
           torn' \in BOOLEAN, kept' \subseteq Name, knows' \in [Name -> SUBSET Server],
           GrantsKept', KnownHeld'
    PROVE  IInv'
BY DEF Rest, IInv, TypeOK

LEMMA EventBounded ==
    ASSUME IInv, Event \/ events' = events
    PROVE  events' \in 0..MaxEvents
BY NamesAssumption DEF IInv, TypeOK, Event

\* The goroutine that starts a server and bootstraps its store.
LEMMA ServerStepKeeps ==
    ASSUME IInv, NEW s \in Server, ServerStep(s)
    PROVE  IInv'
<1> USE DEF headscaleVars
<1>1. CASE NewServer(s)
  BY <1>1, NewServerKeeps
<1>2. CASE BootstrapCheck(s)
  BY <1>2 DEF BootstrapCheck, IInv, TypeOK, GrantsKept, KnownHeld
<1>3. CASE BootstrapList(s)
  <2>1. CASE users = <<>>
    BY <1>3, <2>1 DEF BootstrapList, IInv, TypeOK, GrantsKept, KnownHeld
  <2>2. CASE users # <<>>
    <3>1. users \in Seq(Name)
      BY DEF IInv, TypeOK
    <3>2. Head(users) \in Name
      BY <2>2, <3>1
    <3>3. /\ boot' = [boot EXCEPT ![s] = "add"]
          /\ oldest' = [oldest EXCEPT ![s] = Head(users)]
          /\ UNCHANGED <<users, nodes, known, seen, store, file, torn, kept, knows, events>>
      BY <1>3, <2>2 DEF BootstrapList
    <3> QED BY <3>2, <3>3 DEF IInv, TypeOK, GrantsKept, KnownHeld
  <2> QED BY <2>1, <2>2
<1>4. CASE BootstrapListFails(s)
  <2>1. events' \in 0..MaxEvents
    BY <1>4, EventBounded DEF BootstrapListFails
  <2> QED BY <1>4, <2>1 DEF BootstrapListFails, IInv, TypeOK, GrantsKept, KnownHeld
<1>5. CASE BootstrapAdd(s)
  <2>1. oldest[s] \in Name
    BY <1>5 DEF BootstrapAdd, IInv, TypeOK
  <2>2. Event \/ events' = events
    BY Zenon, <1>5 DEF BootstrapAdd, AddFails, SaveFails
  <2>3. Rest'
    BY <1>5, <2>2, EventBounded DEF BootstrapAdd, IInv, TypeOK, Rest
  <2>4. CASE Add(s, oldest[s])
    BY <2>1, <2>3, <2>4, AddKeeps, RestAndStore
  <2>5. CASE AddFails(s, oldest[s])
    BY <2>1, <2>3, <2>5, AddFailsKeeps, RestAndStore
  <2> QED BY <1>5, <2>4, <2>5 DEF BootstrapAdd
<1> QED BY <1>1, <1>2, <1>3, <1>4, <1>5 DEF ServerStep

\* A request to grant or revoke, from any page.
LEMMA RequestKeeps ==
    ASSUME IInv, NEW s \in Server, NEW n \in Name, NEW c,
           \/ Grant(s, n) \/ GrantFails(s, n) \/ Revoke(s, c, n) \/ RevokeFails(s, c, n),
           UNCHANGED headscaleVars, Event \/ events' = events
    PROVE  IInv'
<1>1. UNCHANGED <<boot, oldest>>
  BY DEF Grant, GrantFails, Revoke, RevokeFails
<1>2. Rest'
  BY <1>1, EventBounded DEF IInv, TypeOK, Rest, headscaleVars
<1>3. CASE Grant(s, n)
  BY <1>2, <1>3, AddKeeps, RestAndStore DEF Grant
<1>4. CASE GrantFails(s, n)
  BY <1>2, <1>4, AddFailsKeeps, RestAndStore DEF GrantFails
<1>5. CASE Revoke(s, c, n)
  BY <1>2, <1>5, RemoveKeeps, RestAndStore DEF Revoke
<1>6. CASE RevokeFails(s, c, n)
  BY <1>2, <1>6, RemoveFailsKeeps, RestAndStore DEF RevokeFails
<1> QED BY <1>3, <1>4, <1>5, <1>6

\* Headscale's own changes do not touch the administrators.
LEMMA HeadscaleKeeps ==
    ASSUME IInv,
           \/ HeadscaleStep
           \/ \E n \in Node, u \in Name : DeviceRegisters(n, u)
    PROVE  IInv'
<1>1. UNCHANGED <<store, boot, oldest, file, torn, kept, knows>> /\ (Event \/ events' = events)
  BY DEF HeadscaleStep, DeviceRegisters, storeVars
<1>2. /\ users' \in Seq(Name) /\ nodes' \subseteq Node \X Name
      /\ known' \subseteq Name /\ seen' \subseteq Node
  <2>1. ASSUME NEW u \in Name, DestroyUser(u)
        PROVE  users' \in Seq(Name)
    <3>1. PICK i \in DOMAIN users :
             users' = [j \in 1..(Len(users) - 1) |-> users[IF j < i THEN j ELSE j + 1]]
      BY <2>1 DEF DestroyUser
    <3>2. users \in Seq(Name)
      BY DEF IInv, TypeOK
    <3>3. Len(users) \in Nat /\ DOMAIN users = 1..Len(users) /\ Len(users) - 1 \in Nat
      BY <3>1, <3>2
    <3>4. \A j \in 1..(Len(users) - 1) : users[IF j < i THEN j ELSE j + 1] \in Name
      BY <3>2, <3>3
    <3> QED BY <3>1, <3>3, <3>4
  <2>2. users' \in Seq(Name)
    <3>1. users \in Seq(Name)
      BY DEF IInv, TypeOK
    <3>2. ASSUME NEW u \in Name, CreateUser(u)
          PROVE  users' \in Seq(Name)
      BY <3>1, <3>2 DEF CreateUser
    <3> QED BY <2>1, <3>1, <3>2 DEF HeadscaleStep, DeviceRegisters, DeleteNode, headscaleVars
  <2>3. /\ nodes' \subseteq Node \X Name /\ known' \subseteq Name /\ seen' \subseteq Node
    BY DEF HeadscaleStep, CreateUser, DestroyUser, DeleteNode, DeviceRegisters, headscaleVars,
      IInv, TypeOK
  <2> QED BY <2>2, <2>3
<1>3. events' \in 0..MaxEvents
  BY <1>1, EventBounded
<1> QED BY <1>1, <1>2, <1>3 DEF IInv, TypeOK, GrantsKept, KnownHeld

LEMMA RestartKeeps ==
    ASSUME IInv, SidecarRestart
    PROVE  IInv'
<1>1. events' \in 0..MaxEvents
  BY EventBounded DEF SidecarRestart
<1> QED BY Zenon, <1>1 DEF SidecarRestart, IInv, TypeOK, GrantsKept, KnownHeld, headscaleVars

LEMMA Initial == Init => IInv
<1> SUFFICES ASSUME Init PROVE IInv
  OBVIOUS
<1>1. users \in Seq(Name)
  <2>1. FirstUser \in Name /\ SecondUser \in Name
    BY NamesAssumption
  <2>2. <<>> \in Seq(Name) /\ <<FirstUser>> \in Seq(Name)
    BY <2>1
  <2>3. <<FirstUser, SecondUser>> \in Seq(Name)
    BY <2>1
  <2>4. users \in {<<>>, <<FirstUser>>, <<FirstUser, SecondUser>>}
    BY DEF Init
  <2> QED BY Zenon, <2>2, <2>3, <2>4
<1>2. UserNames \subseteq Name
  BY <1>1 DEF UserNames
<1>3. nodes \subseteq Node \X Name /\ file \subseteq Name
  BY NamesAssumption DEF Init
<1>4. seen \subseteq Node
  BY <1>3 DEF Init
<1>5. events \in 0..MaxEvents
  BY NamesAssumption DEF Init
<1> QED BY Zenon, <1>1, <1>2, <1>3, <1>4, <1>5 DEF Init, IInv, TypeOK, GrantsKept, KnownHeld

LEMMA StepKeeps == IInv /\ [Next]_vars => IInv'
<1> SUFFICES ASSUME IInv, [Next]_vars PROVE IInv'
  OBVIOUS
<1>1. ASSUME NEW s \in Server, ServerStep(s) PROVE IInv'
  BY <1>1, ServerStepKeeps
<1>2. CASE OtherStep
  <2>1. CASE SidecarRestart
    BY <2>1, RestartKeeps
  <2>2. ASSUME NEW s \in Server, NEW c \in Name \cup {Local}, NEW n \in Name,
               OtherGrants(s, c, n) \/ OtherRevokes(s, c, n)
        PROVE  IInv'
    BY <2>2, RequestKeeps DEF OtherGrants, OtherRevokes
  <2>3. CASE \E n \in Node, u \in Name : DeviceRegisters(n, u)
    BY <2>3, HeadscaleKeeps
  <2> QED BY <1>2, <2>1, <2>2, <2>3 DEF OtherStep
<1>3. ASSUME NEW s \in Server, NEW c \in Name \cup {Local}, RequestStep(s, c)
      PROVE  IInv'
  <2>1. PICK n \in Name :
           /\ Grant(s, n) \/ GrantFails(s, n) \/ Revoke(s, c, n) \/ RevokeFails(s, c, n)
           /\ UNCHANGED headscaleVars
           /\ Event \/ events' = events
    BY Zenon, <1>3 DEF RequestStep, GrantFails, RevokeFails, AddFails, RemoveFails, SaveFails
  <2> QED BY <2>1, RequestKeeps
<1>4. CASE HeadscaleStep
  BY <1>4, HeadscaleKeeps
<1>5. CASE UNCHANGED vars
  BY <1>5 DEF vars, headscaleVars, storeVars, IInv, TypeOK, GrantsKept, KnownHeld
<1> QED BY <1>1, <1>2, <1>3, <1>4, <1>5 DEF Next

LEMMA Invariant == Spec => []IInv
<1>1. Init => IInv
  BY Initial
<1>2. IInv /\ [Next]_vars => IInv'
  BY StepKeeps
<1> QED BY <1>1, <1>2, PTL DEF Spec

\* Headscale, the servers and admins.json keep their types; Bootstrap never
\* promotes a user it has not found (store.go:128-154).
THEOREM TypeCorrect == Spec => []TypeOK
<1>1. IInv => TypeOK
  BY DEF IInv
<1> QED BY <1>1, Invariant, PTL

\* With any number of servers over one admins.json a saved grant is in the file
\* until it is revoked, a write breaks off, or a server saves that had loaded the
\* file before the grant (store.go:61-123).
THEOREM SavedGrantsKept == Spec => []GrantsKept
<1>1. IInv => GrantsKept
  BY DEF IInv
<1> QED BY <1>1, Invariant, PTL

----
(* The last administrator *)

\* Remove's guard leaves somebody in the map.
LEMMA SomebodyStays ==
    ASSUME NEW s \in Server, NEW n, Removable(s)
    PROVE  Removed(s, n) # {}
BY DEF Removed, Removable

\* What one step may do to the stores and the file.
AdminStays ==
    /\ \A s \in Server : Serving(s) /\ store[s] # {} =>
          store'[s] # {} \/ boot'[s] = "off"
    /\ file # {} => file' # {}
    /\ \A s \in Server : boot[s] = "off" /\ file # {} =>
          boot'[s] \in {"off", "nil"} \/ store'[s] # {}

LEMMA SavedNotEmpty ==
    ASSUME IInv, NEW s \in Server, NEW admins, admins # {},
           Saves(s, admins) \/ SaveFails(s, admins),
           \A t \in Server : boot[t] = "off" => boot'[t] = "off"
    PROVE  AdminStays
<1>1. store' = [store EXCEPT ![s] = admins] /\ (file' = admins \/ file' = file)
  BY Zenon DEF Saves, SaveFails
<1>2. store \in [Server -> SUBSET Name]
  BY DEF IInv, TypeOK
<1> QED BY <1>1, <1>2 DEF AdminStays

LEMMA StepStays == IInv /\ [Next]_vars => AdminStays
<1> SUFFICES ASSUME IInv, [Next]_vars PROVE AdminStays
  OBVIOUS
<1>0. /\ store \in [Server -> SUBSET Name]
      /\ boot \in [Server -> {"off", "nil", "check", "list", "add", "done"}]
  BY DEF IInv, TypeOK
<1>1. ASSUME NEW s \in Server, ServerStep(s) PROVE AdminStays
  <2>1. CASE NewServer(s)
    BY <1>0, <2>1 DEF NewServer, AdminStays, Serving
  <2>2. CASE BootstrapCheck(s) \/ BootstrapList(s) \/ BootstrapListFails(s)
    BY <1>0, <2>2 DEF BootstrapCheck, BootstrapList, BootstrapListFails, AdminStays
  <2>3. CASE BootstrapAdd(s)
    <3>1. Added(s, oldest[s]) # {}
      BY DEF Added
    <3>2. \A t \in Server : boot[t] = "off" => boot'[t] = "off"
      BY <1>0, <2>3 DEF BootstrapAdd
    <3>3. Saves(s, Added(s, oldest[s])) \/ SaveFails(s, Added(s, oldest[s]))
      BY <2>3 DEF BootstrapAdd, Add, AddFails
    <3> QED BY <3>1, <3>2, <3>3, SavedNotEmpty
  <2> QED BY <1>1, <2>1, <2>2, <2>3 DEF ServerStep
<1>2. ASSUME NEW s \in Server, NEW c, NEW n \in Name,
             Grant(s, n) \/ GrantFails(s, n) \/ Revoke(s, c, n) \/ RevokeFails(s, c, n)
      PROVE  AdminStays
  <2>1. boot' = boot
    BY <1>2 DEF Grant, GrantFails, Revoke, RevokeFails
  <2>2. CASE Grant(s, n) \/ GrantFails(s, n)
    <3>1. Saves(s, Added(s, n)) \/ SaveFails(s, Added(s, n))
      BY <2>2 DEF Grant, GrantFails, Add, AddFails
    <3>2. Added(s, n) # {}
      BY DEF Added
    <3> QED BY <2>1, <3>1, <3>2, SavedNotEmpty
  <2>3. CASE Revoke(s, c, n) \/ RevokeFails(s, c, n)
    <3>1. Removable(s) /\ (Saves(s, Removed(s, n)) \/ SaveFails(s, Removed(s, n)))
      BY <2>3 DEF Revoke, RevokeFails, Remove, RemoveFails
    <3> QED BY <2>1, <3>1, SomebodyStays, SavedNotEmpty
  <2> QED BY <1>2, <2>2, <2>3
<1>3. CASE OtherStep
  <2>1. CASE SidecarRestart
    BY <2>1 DEF SidecarRestart, AdminStays
  <2>2. CASE \E n \in Node, u \in Name : DeviceRegisters(n, u)
    BY <2>2 DEF DeviceRegisters, storeVars, AdminStays
  <2> QED BY <1>2, <1>3, <2>1, <2>2 DEF OtherStep, OtherGrants, OtherRevokes
<1>4. ASSUME NEW s \in Server, NEW c \in Name \cup {Local}, RequestStep(s, c)
      PROVE  AdminStays
  BY <1>2, <1>4 DEF RequestStep
<1>5. CASE HeadscaleStep \/ UNCHANGED vars
  BY <1>5 DEF HeadscaleStep, vars, storeVars, AdminStays
<1> QED BY <1>1, <1>3, <1>4, <1>5 DEF Next

\* No request, overlap of requests, failed save or restart takes the last name out
\* of a store or of the file (Remove, store.go:115-123).
THEOREM LastAdminRemains == Spec => AdminRemains
<1>1. IInv /\ [Next]_vars => [AdminStays]_vars
  BY StepStays
<1>2. Spec => [][AdminStays]_vars
  BY <1>1, Invariant, PTL DEF Spec
<1> QED BY <1>2 DEF AdminRemains, AdminStays

----
(* The page: what its requests and its state look like *)

\* What a request of each kind has and what its handler has added so far.
WellFormed(c) ==
    /\ \/ c.kind = "deleteNode" /\ c.arg \in Node
       \/ c.kind = "refresh" /\ c.arg \in Name \cup {None}
       \/ c.kind \notin {"deleteNode", "refresh"} /\ c.arg \in Name
    /\ c.kind = "refresh" /\ (c.nodes # None \/ c.at = "done") =>
          c.users \in SUBSET Name /\ c.nodes \in SUBSET (Node \X Name)
    /\ c.kind = "refresh" /\ c.at = "done" => c.admins \in SUBSET Name
    /\ c.at = "admitted" => c.kind \in {"grantAdmin", "revokeAdmin"}
    /\ c.at \in {"found", "listed"} => c.kind = "deleteUser"
    /\ c.at = "listed" => c.nodes \in SUBSET Node
    /\ c.kind = "poll" => c.nodes \in SUBSET Node

GoodCall == {c \in CallRecord : WellFormed(c)}

RowType == [confirmDelete : BOOLEAN, deleting : BOOLEAN,
            confirmAdmin : {None, "grant", "revoke"}, adminBusy : BOOLEAN]
NodeRowType == [confirmDelete : BOOLEAN, deleting : BOOLEAN]
Lists == [users : SUBSET Name, nodes : SUBSET (Node \X Name), admins : SUBSET Name]

CallsOK == calls \in [1..MaxCalls -> GoodCall \cup {None}]

ControlsOK ==
    /\ shown \in Lists
    /\ creating \in BOOLEAN /\ generatingKey \in Name \cup {None}
    /\ baseline \in {None} \cup SUBSET Node
    /\ row \in [Name -> RowType] /\ nodeRow \in [Node -> NodeRowType]

PageOK == CallsOK /\ ControlsOK

\* The requests a control stands for: handleCreateUser's, with the refresh it
\* awaits; handleGenerateKey's; and those of a row that is still mounted.
Creating ==
    {c \in GoodCall : c.kind = "createUser" \/ (c.kind = "refresh" /\ c.arg # None)}
KeyFor(u) == {c \in GoodCall : c.kind = "createKey" /\ c.arg = u}
OfRow(kinds, arg) == {c \in GoodCall : c.kind \in kinds /\ c.arg = arg /\ c.mounted}

Deleting == {"deleteUser"}
Toggling == {"grantAdmin", "revokeAdmin"}
Removing == {"deleteNode"}

Some(K) == \E i \in 1..MaxCalls : calls[i] \in K
One(K) == \A i, j \in 1..MaxCalls : calls[i] \in K /\ calls[j] \in K => i = j

Engaged(kinds, arg) == Some(OfRow(kinds, arg)) \/ RowGranted(kinds, arg)
Settled(kinds, arg) ==
    One(OfRow(kinds, arg)) /\ ~(Some(OfRow(kinds, arg)) /\ RowGranted(kinds, arg))

CreateHonest == (creating <=> Some(Creating)) /\ One(Creating)
KeyHonest == \A u \in Name : generatingKey = u => Some(KeyFor(u))
RowsHonest ==
    /\ \A u \in Name : /\ row[u].deleting <=> Engaged(Deleting, u)
                       /\ row[u].adminBusy <=> Engaged(Toggling, u)
                       /\ Settled(Deleting, u) /\ Settled(Toggling, u)
    /\ \A n \in Node : /\ nodeRow[n].deleting <=> Engaged(Removing, n)
                       /\ Settled(Removing, n)

\* The inductive invariant of the page.
Honest == CreateHonest /\ KeyHonest /\ RowsHonest
PInv == IInv /\ PageOK /\ Honest

----
(* One place of calls changes *)

\* Whether some request, and only one, is of a kind K when the one in place i is
\* replaced and the others stay of K or not.
LEMMA PlaceChanges ==
    ASSUME NEW K, NEW i \in 1..MaxCalls, One(K),
           \A j \in 1..MaxCalls : j # i => (calls'[j] \in K <=> calls[j] \in K)
    PROVE  /\ (calls'[i] \in K <=> calls[i] \in K) => (Some(K)' <=> Some(K)) /\ One(K)'
           /\ calls'[i] \in K /\ ~Some(K) => Some(K)' /\ One(K)'
           /\ calls[i] \in K /\ calls'[i] \notin K => ~Some(K)' /\ One(K)'
<1>1. ASSUME calls'[i] \in K <=> calls[i] \in K
      PROVE  (Some(K)' <=> Some(K)) /\ One(K)'
  <2>1. \A j \in 1..MaxCalls : calls'[j] \in K <=> calls[j] \in K
    BY <1>1, Zenon
  <2> QED BY <2>1, Zenon DEF Some, One
<1>2. ASSUME calls'[i] \in K, ~Some(K)
      PROVE  Some(K)' /\ One(K)'
  BY <1>2, Zenon DEF Some, One
<1>3. ASSUME calls[i] \in K, calls'[i] \notin K
      PROVE  ~Some(K)' /\ One(K)'
  BY <1>3, Zenon DEF Some, One
<1> QED BY <1>1, <1>2, <1>3, Zenon

\* The same for a row.
LEMMA RowChanges ==
    ASSUME NEW kinds, NEW arg, NEW i \in 1..MaxCalls, Settled(kinds, arg),
           \A j \in 1..MaxCalls : j # i =>
              (calls'[j] \in OfRow(kinds, arg) <=> calls[j] \in OfRow(kinds, arg))
    PROVE  /\ /\ calls'[i] \in OfRow(kinds, arg) <=> calls[i] \in OfRow(kinds, arg)
              /\ RowGranted(kinds, arg)' <=> RowGranted(kinds, arg)
              => (Engaged(kinds, arg)' <=> Engaged(kinds, arg)) /\ Settled(kinds, arg)'
           /\ /\ calls'[i] \in OfRow(kinds, arg) /\ ~Engaged(kinds, arg)
              /\ RowGranted(kinds, arg)' <=> RowGranted(kinds, arg)
              => Engaged(kinds, arg)' /\ Settled(kinds, arg)'
           /\ /\ calls[i] \in OfRow(kinds, arg) /\ calls'[i] \notin OfRow(kinds, arg)
              /\ RowGranted(kinds, arg)' <=> RowGranted(kinds, arg)
              => ~Engaged(kinds, arg)' /\ Settled(kinds, arg)'
           /\ /\ calls[i] \in OfRow(kinds, arg) /\ calls'[i] \notin OfRow(kinds, arg)
              /\ RowGranted(kinds, arg)'
              => (Engaged(kinds, arg)' <=> Engaged(kinds, arg)) /\ Settled(kinds, arg)'
<1>1. One(OfRow(kinds, arg)) /\ ~(Some(OfRow(kinds, arg)) /\ RowGranted(kinds, arg))
  BY Zenon DEF Settled
<1>2. /\ (calls'[i] \in OfRow(kinds, arg) <=> calls[i] \in OfRow(kinds, arg))
           => (Some(OfRow(kinds, arg))' <=> Some(OfRow(kinds, arg))) /\ One(OfRow(kinds, arg))'
      /\ calls'[i] \in OfRow(kinds, arg) /\ ~Some(OfRow(kinds, arg))
           => Some(OfRow(kinds, arg))' /\ One(OfRow(kinds, arg))'
      /\ calls[i] \in OfRow(kinds, arg) /\ calls'[i] \notin OfRow(kinds, arg)
           => ~Some(OfRow(kinds, arg))' /\ One(OfRow(kinds, arg))'
  BY <1>1, PlaceChanges, Zenon
<1>3. calls[i] \in OfRow(kinds, arg) => Some(OfRow(kinds, arg))
  BY Zenon DEF Some
<1> QED BY <1>1, <1>2, <1>3, Zenon DEF Engaged, Settled

\* A request that goes through its handler stays what it is for the page, and one
\* that no control stands for is like none.
Unclaimed(c) == c = None \/ c.kind = "poll" \/ (c.kind = "refresh" /\ c.arg = None)
Alike(c, d) ==
    \/ c = d
    \/ Unclaimed(c) /\ Unclaimed(d)
    \/ /\ c # None /\ d # None
       /\ c.kind = d.kind /\ c.arg = d.arg /\ c.mounted = d.mounted

LEMMA NoCall == None \notin GoodCall
BY CallAssumption, Zenon DEF GoodCall

LEMMA AlikeStays ==
    ASSUME NEW c \in GoodCall \cup {None}, NEW d \in GoodCall \cup {None}, Alike(c, d)
    PROVE  /\ c \in Creating <=> d \in Creating
           /\ \A u : c \in KeyFor(u) <=> d \in KeyFor(u)
           /\ \A a : /\ c \in OfRow(Deleting, a) <=> d \in OfRow(Deleting, a)
                     /\ c \in OfRow(Toggling, a) <=> d \in OfRow(Toggling, a)
                     /\ c \in OfRow(Removing, a) <=> d \in OfRow(Removing, a)
<1>0. None \notin GoodCall
  BY NoCall
<1>1. CASE c = d
  BY <1>1, Zenon
<1>2. CASE Unclaimed(c) /\ Unclaimed(d)
  <2>1. ASSUME NEW x \in GoodCall \cup {None}, Unclaimed(x)
        PROVE  /\ x \notin Creating /\ \A u : x \notin KeyFor(u)
               /\ \A a : x \notin OfRow(Deleting, a) /\ x \notin OfRow(Toggling, a)
                         /\ x \notin OfRow(Removing, a)
    BY <1>0, <2>1 DEF Unclaimed, Creating, KeyFor, OfRow, Deleting, Toggling, Removing
  <2> QED BY <1>2, <2>1, Zenon
<1>3. CASE /\ c # None /\ d # None
           /\ c.kind = d.kind /\ c.arg = d.arg /\ c.mounted = d.mounted
  <2>1. c \in GoodCall /\ d \in GoodCall
    BY <1>3, Zenon
  <2> QED BY <1>3, <2>1, Zenon DEF Creating, KeyFor, OfRow
<1> QED BY <1>1, <1>2, <1>3, Zenon DEF Alike

\* A step that leaves the controls alone: the requests stay alike, and no row is
\* set to work or released.
Carries ==
    /\ \A j \in 1..MaxCalls : Alike(calls[j], calls'[j])
    /\ creating' = creating /\ generatingKey' \in {generatingKey, None} /\ granted' = granted
    /\ \A u \in Name : row'[u].deleting = row[u].deleting /\ row'[u].adminBusy = row[u].adminBusy
    /\ \A n \in Node : nodeRow'[n].deleting = nodeRow[n].deleting

LEMMA CarriesKeep ==
    ASSUME PInv, PageOK', Carries
    PROVE  Honest'
<1> DEFINE Same(K) == \A j \in 1..MaxCalls : calls'[j] \in K <=> calls[j] \in K
<1>1. \A j \in 1..MaxCalls : /\ calls[j] \in GoodCall \cup {None}
                             /\ calls'[j] \in GoodCall \cup {None}
                             /\ Alike(calls[j], calls'[j])
  BY Zenon DEF PInv, PageOK, CallsOK, Carries
<1>2. /\ Same(Creating) /\ \A u : Same(KeyFor(u))
      /\ \A a : Same(OfRow(Deleting, a)) /\ Same(OfRow(Toggling, a)) /\ Same(OfRow(Removing, a))
  BY <1>1, AlikeStays, Zenon
<1>3. ASSUME NEW K, Same(K)
      PROVE  (Some(K)' <=> Some(K)) /\ (One(K) => One(K)')
  BY <1>3, Zenon DEF Some, One
<1> HIDE DEF Same
<1>4. CreateHonest'
  BY <1>2, <1>3, Zenon DEF PInv, Honest, CreateHonest, Carries
<1>5. KeyHonest'
  <2> SUFFICES ASSUME NEW u \in Name, generatingKey' = u PROVE Some(KeyFor(u))'
    BY Zenon DEF KeyHonest
  <2>1. generatingKey = u
    BY NamesAssumption, Zenon DEF Carries
  <2>2. Some(KeyFor(u))
    BY <2>1, Zenon DEF PInv, Honest, KeyHonest
  <2> QED BY <1>2, <1>3, <2>2, Zenon
<1>6. ASSUME NEW kinds, NEW a, Same(OfRow(kinds, a)), Settled(kinds, a)
      PROVE  (Engaged(kinds, a)' <=> Engaged(kinds, a)) /\ Settled(kinds, a)'
  <2>1. RowGranted(kinds, a)' <=> RowGranted(kinds, a)
    BY Zenon DEF Carries, RowGranted
  <2> QED BY <1>3, <1>6, <2>1, Zenon DEF Engaged, Settled
<1>7. RowsHonest'
  BY <1>2, <1>6, Zenon DEF PInv, Honest, RowsHonest, Carries
<1> QED BY <1>4, <1>5, <1>7 DEF Honest


----
(* Requests at the server *)

\* A request as it is sent.
Fresh(k, a) ==
    /\ Call(k, a) \in GoodCall /\ Call(k, a).kind = k /\ Call(k, a).arg = a
    /\ Call(k, a).mounted

LEMMA FreshGood ==
    /\ \A u \in Name : /\ Fresh("createUser", u) /\ Fresh("createKey", u)
                       /\ Fresh("deleteUser", u)
                       /\ Fresh("grantAdmin", u) /\ Fresh("revokeAdmin", u)
    /\ \A n \in Node : Fresh("deleteNode", n)
    /\ \A a \in Name \cup {None} : Fresh("refresh", a)
<1>1. ASSUME NEW k \in {"refresh", "createUser", "createKey", "deleteUser", "grantAdmin",
                      "revokeAdmin", "deleteNode", "poll"},
             NEW a \in Name \cup Node \cup {None}, WellFormed(Call(k, a))
      PROVE  Fresh(k, a)
  <2>1. "sent" \in {"sent", "admitted", "found", "listed", "done", "failed"} /\ TRUE \in BOOLEAN
    OBVIOUS
  <2>2. /\ None \in {None} \cup SUBSET Name
        /\ None \in {None} \cup SUBSET (Node \cup (Node \X Name))
    BY Zenon
  <2>3. Call(k, a) \in CallRecord
    BY <2>1, <2>2 DEF Call, CallRecord
  <2> QED BY <1>1, <2>3 DEF Fresh, GoodCall, Call
<1>2. ASSUME NEW k \in {"createUser", "createKey", "deleteUser", "grantAdmin", "revokeAdmin"},
             NEW u \in Name
      PROVE  Fresh(k, u)
  <2>1. WellFormed(Call(k, u))
    BY DEF Call, WellFormed
  <2> QED BY <1>1, <2>1
<1>3. ASSUME NEW n \in Node
      PROVE  Fresh("deleteNode", n)
  <2>1. WellFormed(Call("deleteNode", n))
    BY DEF Call, WellFormed
  <2> QED BY <1>1, <2>1
<1>4. ASSUME NEW a \in Name \cup {None}
      PROVE  Fresh("refresh", a)
  <2>1. WellFormed(Call("refresh", a))
    BY DEF Call, WellFormed
  <2> QED BY <1>1, <2>1
<1> QED BY <1>2, <1>3, <1>4

\* What a request turns into: it keeps its kind, its argument and its row.
Advanced(c, d) ==
    d \in GoodCall /\ d.kind = c.kind /\ d.arg = c.arg /\ d.mounted = c.mounted

LEMMA StageGood ==
    ASSUME NEW c \in GoodCall, NEW at,
           \/ at = "failed" \/ (at = "done" /\ c.kind # "refresh")
           \/ at = "admitted" /\ c.kind \in {"grantAdmin", "revokeAdmin"}
           \/ at = "found" /\ c.kind = "deleteUser"
    PROVE  Advanced(c, [c EXCEPT !.at = at])
<1>1. c \in CallRecord /\ WellFormed(c)
  BY Zenon DEF GoodCall
<1>2. [c EXCEPT !.at = at] \in CallRecord
  BY <1>1 DEF CallRecord
<1>3. WellFormed([c EXCEPT !.at = at])
  BY <1>1 DEF CallRecord, WellFormed
<1> QED BY <1>1, <1>2, <1>3 DEF Advanced, GoodCall, CallRecord

\* A request in flight is well formed.
LEMMA InFlightGood ==
    ASSUME PInv, NEW i \in InFlight
    PROVE  i \in 1..MaxCalls /\ calls[i] \in GoodCall
BY Zenon DEF InFlight, PInv, PageOK, CallsOK

LEMMA IdsAreNodes ==
    ASSUME NEW list \in SUBSET (Node \X Name), NEW u
    PROVE  IdsOf(list, u) \in SUBSET Node
BY DEF IdsOf

LEMMA UserNamesTyped ==
    ASSUME IInv
    PROVE  UserNames \in SUBSET Name
BY DEF IInv, TypeOK, UserNames

\* Every step of a handler, and a request that is lost: the request in its place
\* goes on, or ends if it was a poll that found nothing.
LEMMA HandledAdvances ==
    ASSUME PInv, NEW i \in InFlight, Handled(i) \/ CallFails(i)
    PROVE  \E d : /\ Becomes(i, d)
                  /\ Advanced(calls[i], d) \/ (d = None /\ calls[i].kind = "poll")
<1>0. calls[i] \in GoodCall /\ calls[i] \in CallRecord /\ WellFormed(calls[i])
  BY InFlightGood, Zenon DEF GoodCall
<1> DEFINE Goes(d) == /\ Becomes(i, d)
                      /\ Advanced(calls[i], d) \/ (d = None /\ calls[i].kind = "poll")
<1>1. ASSUME NEW at, GoesTo(i, at),
             \/ at = "failed" \/ (at = "done" /\ calls[i].kind # "refresh")
             \/ at = "admitted" /\ calls[i].kind \in {"grantAdmin", "revokeAdmin"}
             \/ at = "found" /\ calls[i].kind = "deleteUser"
      PROVE  \E d : Goes(d)
  BY <1>0, <1>1, StageGood, Zenon DEF GoesTo
<1>2. CASE Admitted(i) \/ Refused(i) \/ CallFails(i)
  BY <1>1, <1>2, Zenon DEF Admitted, Refused, CallFails, Sent
<1>3. CASE ReadLists(i)
  <2> DEFINE c == calls[i]
  <2>0. UserNames \in SUBSET Name /\ nodes \in SUBSET (Node \X Name)
        /\ (IF Serving(portal) THEN store[portal] ELSE {}) \in SUBSET Name
    BY UserNamesTyped, PageAssumption DEF PInv, IInv, TypeOK
  <2>1. CASE c.users = None /\ Becomes(i, [c EXCEPT !.users = UserNames])
    <3>1. Advanced(c, [c EXCEPT !.users = UserNames])
      BY <1>0, <2>0 DEF Advanced, GoodCall, CallRecord, WellFormed
    <3> QED BY <2>1, <3>1, Zenon
  <2>2. CASE c.users # None /\ Becomes(i, [c EXCEPT !.nodes = nodes]) /\ c.kind = "refresh"
    <3>0. nodes \in SUBSET (Node \cup (Node \X Name)) /\ c.users \in SUBSET Name
      <4>1. nodes \in SUBSET (Node \cup (Node \X Name))
        BY <2>0, Zenon
      <4>2. c.users \in {None} \cup SUBSET Name
        BY <1>0 DEF CallRecord
      <4> QED BY <2>2, <4>1, <4>2, Zenon
    <3>1. [c EXCEPT !.nodes = nodes] \in CallRecord
      BY <1>0, <3>0 DEF CallRecord
    <3>2. WellFormed([c EXCEPT !.nodes = nodes])
      BY <1>0, <2>0, <2>2, <3>0 DEF CallRecord, WellFormed
    <3>3. Advanced(c, [c EXCEPT !.nodes = nodes])
      BY <1>0, <3>1, <3>2 DEF Advanced, GoodCall, CallRecord
    <3> QED BY <2>2, <3>3, Zenon
  <2>3. ASSUME NEW A \in SUBSET Name, c.nodes # None, c.kind = "refresh",
               Becomes(i, [c EXCEPT !.at = "done", !.admins = A])
        PROVE  \E d : Goes(d)
    <3>1. Advanced(c, [c EXCEPT !.at = "done", !.admins = A])
      BY Zenon, <1>0, <2>3 DEF Advanced, GoodCall, CallRecord, WellFormed
    <3> QED BY <2>3, <3>1, Zenon
  <2> QED BY <1>3, <2>0, <2>1, <2>2, <2>3, Zenon DEF ReadLists, Sent
<1>4. CASE ReadPoll(i)
  BY <1>1, <1>4 DEF ReadPoll, Sent
<1>5. CASE Created(i) \/ KeyCreated(i) \/ NodeDeleted(i)
  BY <1>1, <1>5 DEF Created, KeyCreated, NodeDeleted, Sent
<1>6. CASE UserFound(i) \/ UserDeleted(i)
  BY <1>0, <1>1, <1>6 DEF UserFound, UserDeleted, Sent, WellFormed
<1>7. CASE NodesListed(i)
  <2>1. IdsOf(nodes, calls[i].arg) \in SUBSET Node
    BY IdsAreNodes DEF PInv, IInv, TypeOK
  <2>2. Advanced(calls[i], [calls[i] EXCEPT !.at = "listed", !.nodes = IdsOf(nodes, calls[i].arg)])
    BY Zenon, <1>0, <1>7, <2>1 DEF NodesListed, Advanced, GoodCall, CallRecord, WellFormed
  <2> QED BY <1>7, <2>2, Zenon DEF NodesListed
<1>8. CASE UserNodeDeleted(i)
  <2>1. ASSUME NEW n, calls[i].at = "listed"
        PROVE  Advanced(calls[i], [calls[i] EXCEPT !.nodes = @ \ {n}])
    BY <1>0, <2>1 DEF Advanced, GoodCall, CallRecord, WellFormed
  <2> QED BY <1>1, <1>8, <2>1 DEF UserNodeDeleted
<1>9. CASE AdminGranted(i) \/ AdminRevoked(i)
  BY <1>1, <1>9 DEF AdminGranted, AdminRevoked
<1> QED BY <1>2, <1>3, <1>4, <1>5, <1>6, <1>7, <1>8, <1>9, Zenon DEF Handled


----
(* Rows when one request is sent or answered *)

Replaces(i) == \A j \in 1..MaxCalls : j # i => calls'[j] = calls[j]

\* Rows of other kinds than the request before and after.
LEMMA RowForeign ==
    ASSUME NEW kinds, NEW i \in 1..MaxCalls, Replaces(i), granted' = granted,
           calls[i] = None \/ calls[i].kind \notin kinds,
           calls'[i] = None \/ calls'[i].kind \notin kinds
    PROVE  \A a : Settled(kinds, a) =>
              (Engaged(kinds, a)' <=> Engaged(kinds, a)) /\ Settled(kinds, a)'
<1> SUFFICES ASSUME NEW a, Settled(kinds, a)
             PROVE  (Engaged(kinds, a)' <=> Engaged(kinds, a)) /\ Settled(kinds, a)'
  OBVIOUS
<1>1. calls[i] \notin OfRow(kinds, a) /\ calls'[i] \notin OfRow(kinds, a)
  BY NoCall, Zenon DEF OfRow
<1>2. RowGranted(kinds, a)' <=> RowGranted(kinds, a)
  BY Zenon DEF RowGranted
<1> QED BY <1>1, <1>2, RowChanges, Zenon DEF Replaces

\* A row's request is sent.
LEMMA RowStarts ==
    ASSUME NEW kinds, NEW arg, NEW i \in 1..MaxCalls, Replaces(i), granted' = granted,
           calls[i] = None, calls'[i] \in GoodCall,
           calls'[i].kind \in kinds, calls'[i].arg = arg, calls'[i].mounted
    PROVE  /\ Settled(kinds, arg) /\ ~Engaged(kinds, arg) =>
                 Engaged(kinds, arg)' /\ Settled(kinds, arg)'
           /\ \A a : a # arg /\ Settled(kinds, a) =>
                 (Engaged(kinds, a)' <=> Engaged(kinds, a)) /\ Settled(kinds, a)'
<1>1. calls'[i] \in OfRow(kinds, arg) /\ \A a : a # arg => calls'[i] \notin OfRow(kinds, a)
  BY Zenon DEF OfRow
<1>2. \A a : calls[i] \notin OfRow(kinds, a)
  BY NoCall, Zenon DEF OfRow
<1>3. \A a : RowGranted(kinds, a)' <=> RowGranted(kinds, a)
  BY Zenon DEF RowGranted
<1>4. Settled(kinds, arg) /\ ~Engaged(kinds, arg) => Engaged(kinds, arg)' /\ Settled(kinds, arg)'
  BY <1>1, <1>3, RowChanges, Zenon DEF Replaces
<1>5. ASSUME NEW a, a # arg, Settled(kinds, a)
      PROVE  (Engaged(kinds, a)' <=> Engaged(kinds, a)) /\ Settled(kinds, a)'
  BY <1>1, <1>2, <1>3, <1>5, RowChanges, Zenon DEF Replaces
<1> QED BY <1>4, <1>5, Zenon

\* It fails, and the row, if it is still there, is free again.
LEMMA RowReleased ==
    ASSUME NEW kinds, NEW arg, NEW i \in 1..MaxCalls, Replaces(i), granted' = granted,
           calls[i] \in GoodCall, calls'[i] = None, calls[i].kind \in kinds, calls[i].arg = arg
    PROVE  /\ calls[i].mounted /\ Settled(kinds, arg) =>
                 ~Engaged(kinds, arg)' /\ Settled(kinds, arg)'
           /\ \A a : (a # arg \/ ~calls[i].mounted) /\ Settled(kinds, a) =>
                 (Engaged(kinds, a)' <=> Engaged(kinds, a)) /\ Settled(kinds, a)'
<1>1. \A a : calls'[i] \notin OfRow(kinds, a)
  BY NoCall, Zenon DEF OfRow
<1>2. \A a : calls[i] \in OfRow(kinds, a) <=> a = arg /\ calls[i].mounted
  BY Zenon DEF OfRow
<1>3. \A a : RowGranted(kinds, a)' <=> RowGranted(kinds, a)
  BY Zenon DEF RowGranted
<1>4. ASSUME calls[i].mounted, Settled(kinds, arg)
      PROVE  ~Engaged(kinds, arg)' /\ Settled(kinds, arg)'
  BY <1>1, <1>2, <1>3, <1>4, RowChanges, Zenon DEF Replaces
<1>5. ASSUME NEW a, a # arg \/ ~calls[i].mounted, Settled(kinds, a)
      PROVE  (Engaged(kinds, a)' <=> Engaged(kinds, a)) /\ Settled(kinds, a)'
  BY <1>1, <1>2, <1>3, <1>5, RowChanges, Zenon DEF Replaces
<1> QED BY <1>4, <1>5, Zenon

\* It succeeds: a row that is still there stays as it is, for it is done.
LEMMA RowAnswered ==
    ASSUME NEW kinds, NEW i \in 1..MaxCalls, Replaces(i), calls[i] \in GoodCall,
           calls'[i].kind \notin kinds,
           granted' = IF calls[i].mounted
                      THEN granted \cup {[kind |-> calls[i].kind, arg |-> calls[i].arg]}
                      ELSE granted
    PROVE  \A a : Settled(kinds, a) =>
              (Engaged(kinds, a)' <=> Engaged(kinds, a)) /\ Settled(kinds, a)'
<1> SUFFICES ASSUME NEW a, Settled(kinds, a)
             PROVE  (Engaged(kinds, a)' <=> Engaged(kinds, a)) /\ Settled(kinds, a)'
  OBVIOUS
<1>1. calls'[i] \notin OfRow(kinds, a)
  BY Zenon DEF OfRow
<1>2. calls[i] \in OfRow(kinds, a) => RowGranted(kinds, a)'
  BY DEF OfRow, RowGranted
<1>3. calls[i] \notin OfRow(kinds, a) => (RowGranted(kinds, a)' <=> RowGranted(kinds, a))
  BY DEF OfRow, RowGranted
<1> QED BY <1>1, <1>2, <1>3, RowChanges, Zenon DEF Replaces


----
(* The steps of the page, one lemma each *)

LEMMA PlaceSet ==
    ASSUME PInv, NEW i \in 1..MaxCalls, NEW d \in GoodCall \cup {None},
           calls' = [calls EXCEPT ![i] = d]
    PROVE  CallsOK' /\ calls'[i] = d /\ Replaces(i)
<1>1. calls \in [1..MaxCalls -> GoodCall \cup {None}]
  BY Zenon DEF PInv, PageOK, CallsOK
<1> QED BY <1>1, Zenon DEF CallsOK, Replaces

LEMMA SendsOne ==
    ASSUME PInv, NEW c \in GoodCall, Sends(c)
    PROVE  \E i \in 1..MaxCalls :
              CallsOK' /\ calls[i] = None /\ calls'[i] = c /\ Replaces(i)
<1>1. PICK i \in (1..MaxCalls) \ InFlight : calls' = [calls EXCEPT ![i] = c]
  BY Zenon DEF Sends
<1>2. i \in 1..MaxCalls /\ calls[i] = None
  BY Zenon DEF InFlight
<1>3. CallsOK' /\ calls'[i] = c /\ Replaces(i)
  BY <1>1, <1>2, PlaceSet, Zenon
<1> QED BY <1>2, <1>3, Zenon

LEMMA PanelTyped ==
    ASSUME PInv, NEW open, NEW list \in Lists, Panel(open, list)
    PROVE  baseline' \in {None} \cup SUBSET Node
<1>1. list.nodes \in SUBSET (Node \X Name)
  BY DEF Lists
<1>2. IdsOf(list.nodes, open) \in SUBSET Node
  BY <1>1, IdsAreNodes
<1>3. baseline \in {None} \cup SUBSET Node
  BY Zenon DEF PInv, PageOK, ControlsOK
<1> QED BY <1>2, <1>3, Zenon DEF Panel

\* Steps that replace one request by one alike and touch no control.
LEMMA PlaceAlike ==
    ASSUME NEW i \in 1..MaxCalls, Replaces(i), Alike(calls[i], calls'[i])
    PROVE  \A j \in 1..MaxCalls : Alike(calls[j], calls'[j])
<1>1. \A j \in 1..MaxCalls : j # i => Alike(calls[j], calls'[j])
  BY Zenon DEF Replaces, Alike
<1> QED BY <1>1, Zenon

LEMMA AllAlike ==
    ASSUME calls' = calls
    PROVE  \A j \in 1..MaxCalls : Alike(calls[j], calls'[j])
BY Zenon DEF Alike

LEMMA HandledHonest ==
    ASSUME PInv, NEW i \in InFlight, Handled(i) \/ CallFails(i)
    PROVE  PageOK' /\ Honest'
<1>1. PICK d : /\ Becomes(i, d)
               /\ Advanced(calls[i], d) \/ (d = None /\ calls[i].kind = "poll")
  BY HandledAdvances, Zenon
<1>2. i \in 1..MaxCalls /\ calls[i] \in GoodCall /\ calls[i] # None
  BY InFlightGood, Zenon DEF InFlight
<1>3. d \in GoodCall \cup {None}
  BY <1>1, Zenon DEF Advanced
<1>4. CallsOK' /\ calls'[i] = d /\ Replaces(i)
  BY <1>1, <1>2, <1>3, PlaceSet, Zenon DEF Becomes
<1>5. Alike(calls[i], d)
  BY <1>1, <1>2, NoCall, Zenon DEF Advanced, Alike, Unclaimed
<1>6. \A j \in 1..MaxCalls : Alike(calls[j], calls'[j])
  BY <1>2, <1>4, <1>5, PlaceAlike, Zenon
<1>7. UNCHANGED <<shown, creating, generatingKey, baseline, row, nodeRow, granted>>
  BY <1>1, Zenon DEF Becomes, panelVars
<1>8. Carries
  BY <1>6, <1>7, Zenon DEF Carries
<1>9. PageOK'
  BY <1>4, <1>7, Zenon DEF PInv, PageOK, ControlsOK
<1> QED BY <1>8, <1>9, CarriesKeep, Zenon

LEMMA RestartHonest ==
    ASSUME PInv, Restart
    PROVE  PageOK' /\ Honest'
<1>1. /\ calls' = [i \in 1..MaxCalls |->
                     IF calls[i] # None /\ calls[i].at # "done"
                     THEN [calls[i] EXCEPT !.at = "failed"] ELSE calls[i]]
      /\ UNCHANGED <<shown, creating, generatingKey, baseline, row, nodeRow, granted>>
  BY Zenon DEF Restart, panelVars
<1>2. ASSUME NEW i \in 1..MaxCalls
      PROVE  calls'[i] \in GoodCall \cup {None} /\ Alike(calls[i], calls'[i])
  <2>1. CASE calls[i] # None /\ calls[i].at # "done"
    <3>1. calls[i] \in GoodCall
      BY <2>1, Zenon DEF PInv, PageOK, CallsOK
    <3>2. Advanced(calls[i], [calls[i] EXCEPT !.at = "failed"])
      BY <3>1, StageGood, Zenon
    <3>3. calls'[i] = [calls[i] EXCEPT !.at = "failed"]
      BY <1>1, <2>1, Zenon
    <3>4. Advanced(calls[i], calls'[i])
      BY <3>2, <3>3, Zenon
    <3> QED BY <2>1, <3>4, NoCall, Zenon DEF Advanced, Alike
  <2>2. CASE ~(calls[i] # None /\ calls[i].at # "done")
    <3>1. calls'[i] = calls[i]
      BY <1>1, <2>2, Zenon
    <3> QED BY <3>1, Zenon DEF Alike, PInv, PageOK, CallsOK
  <2> QED BY <2>1, <2>2, Zenon
<1>3. CallsOK'
  BY <1>1, <1>2, Zenon DEF CallsOK
<1>4. Carries
  BY <1>1, <1>2, Zenon DEF Carries
<1>5. PageOK'
  BY <1>1, <1>3, Zenon DEF PInv, PageOK, ControlsOK
<1> QED BY <1>4, <1>5, CarriesKeep, Zenon


\* The controls that a step which replaces one request has nothing to do with.
RowKinds == {"deleteUser", "grantAdmin", "revokeAdmin", "deleteNode"}

LEMMA RowsStay ==
    ASSUME PInv, NEW i \in 1..MaxCalls, Replaces(i), UNCHANGED <<granted, row, nodeRow>>,
           calls[i] = None \/ calls[i].kind \notin RowKinds,
           calls'[i] = None \/ calls'[i].kind \notin RowKinds
    PROVE  RowsHonest'
<1>1. \A kinds \in {Deleting, Toggling, Removing} : kinds \subseteq RowKinds
  BY Zenon DEF RowKinds, Deleting, Toggling, Removing
<1>2. \A a : /\ Settled(Deleting, a) =>
                  (Engaged(Deleting, a)' <=> Engaged(Deleting, a)) /\ Settled(Deleting, a)'
             /\ Settled(Toggling, a) =>
                  (Engaged(Toggling, a)' <=> Engaged(Toggling, a)) /\ Settled(Toggling, a)'
             /\ Settled(Removing, a) =>
                  (Engaged(Removing, a)' <=> Engaged(Removing, a)) /\ Settled(Removing, a)'
  <2>1. ASSUME NEW kinds \in {Deleting, Toggling, Removing}
        PROVE  \A a : Settled(kinds, a) =>
                  (Engaged(kinds, a)' <=> Engaged(kinds, a)) /\ Settled(kinds, a)'
    BY <1>1, RowForeign, Zenon
  <2> QED BY <2>1, Zenon
<1> QED BY <1>2, Zenon DEF PInv, Honest, RowsHonest

LEMMA KeyStays ==
    ASSUME PInv, NEW i \in 1..MaxCalls, Replaces(i), generatingKey' \in {generatingKey, None},
           calls[i] = None \/ calls[i].kind # "createKey"
    PROVE  KeyHonest'
<1> SUFFICES ASSUME NEW u \in Name, generatingKey' = u PROVE Some(KeyFor(u))'
  BY Zenon DEF KeyHonest
<1>1. generatingKey = u
  BY NamesAssumption, Zenon
<1>2. PICK j \in 1..MaxCalls : calls[j] \in KeyFor(u)
  BY <1>1, Zenon DEF PInv, Honest, KeyHonest, Some
<1>3. j # i
  BY <1>2, NoCall, Zenon DEF KeyFor
<1> QED BY <1>2, <1>3, Zenon DEF Replaces, Some

LEMMA CreateStays ==
    ASSUME PInv, NEW i \in 1..MaxCalls, Replaces(i), creating' = creating,
           Unclaimed(calls[i]) \/ calls[i].kind \notin {"createUser", "refresh"},
           Unclaimed(calls'[i]) \/ calls'[i].kind \notin {"createUser", "refresh"}
    PROVE  CreateHonest'
<1>1. calls[i] \notin Creating /\ calls'[i] \notin Creating
  BY NoCall DEF Unclaimed, Creating
<1>2. (Some(Creating)' <=> Some(Creating)) /\ One(Creating)'
  BY <1>1, PlaceChanges, Zenon DEF PInv, Honest, CreateHonest, Replaces
<1> QED BY <1>2, Zenon DEF PInv, Honest, CreateHonest

----
(* Clicks *)

LEMMA MeHonest ==
    ASSUME PInv, Me
    PROVE  PageOK' /\ Honest'
<1>1. UNCHANGED <<shown, creating, generatingKey, baseline, row, nodeRow, granted>>
  BY Zenon DEF Me, panelVars
<1>2. CallsOK' /\ \A j \in 1..MaxCalls : Alike(calls[j], calls'[j])
  <2>1. CASE Sends(Refresh(None))
    <3>1. Refresh(None) \in GoodCall /\ Unclaimed(Refresh(None))
      BY FreshGood, Zenon DEF Fresh, Refresh, Unclaimed
    <3>2. PICK i \in 1..MaxCalls :
             CallsOK' /\ calls[i] = None /\ calls'[i] = Refresh(None) /\ Replaces(i)
      BY <2>1, <3>1, SendsOne, Zenon
    <3>3. Alike(calls[i], calls'[i])
      BY <3>1, <3>2, Zenon DEF Alike, Unclaimed
    <3> QED BY <3>2, <3>3, PlaceAlike, Zenon
  <2>2. CASE calls' = calls
    BY <2>2, AllAlike, Zenon DEF PInv, PageOK, CallsOK
  <2> QED BY <2>1, <2>2, Zenon DEF Me
<1>3. Carries
  BY <1>1, <1>2, Zenon DEF Carries
<1>4. PageOK'
  BY <1>1, <1>2, Zenon DEF PInv, PageOK, ControlsOK
<1> QED BY <1>3, <1>4, CarriesKeep, Zenon

LEMMA CreateUserHonest ==
    ASSUME PInv, NEW u \in Name, HandleCreateUser(u)
    PROVE  PageOK' /\ Honest'
<1>1. /\ creating = FALSE /\ creating' = TRUE
      /\ UNCHANGED <<shown, generatingKey, baseline, row, nodeRow, granted>>
  BY Zenon DEF HandleCreateUser, Click, panelVars, PInv, PageOK, ControlsOK
<1>2. Call("createUser", u) \in GoodCall /\ Call("createUser", u).kind = "createUser"
  BY FreshGood, Zenon DEF Fresh
<1>3. PICK i \in 1..MaxCalls :
         CallsOK' /\ calls[i] = None /\ calls'[i] = Call("createUser", u) /\ Replaces(i)
  BY <1>2, SendsOne, Zenon DEF HandleCreateUser
<1>4. CreateHonest'
  <2>1. calls'[i] \in Creating
    BY <1>2, <1>3, Zenon DEF Creating
  <2>2. ~Some(Creating) /\ One(Creating)
    BY <1>1, Zenon DEF PInv, Honest, CreateHonest
  <2>3. Some(Creating)' /\ One(Creating)'
    BY <1>3, <2>1, <2>2, PlaceChanges, Zenon DEF Replaces
  <2> QED BY <1>1, <2>3, Zenon DEF CreateHonest
<1>5. KeyHonest'
  BY <1>1, <1>3, KeyStays, Zenon
<1>6. RowsHonest'
  <2>1. calls'[i].kind \notin RowKinds
    BY <1>2, <1>3 DEF RowKinds
  <2> QED BY <1>1, <1>3, <2>1, RowsStay, Zenon
<1>7. PageOK'
  BY <1>1, <1>3, Zenon DEF PInv, PageOK, ControlsOK
<1> QED BY <1>4, <1>5, <1>6, <1>7, Zenon DEF Honest

\* handleGenerateKey, from the row or from the panel.
LEMMA GeneratesKeyHonest ==
    ASSUME PInv, NEW u \in Name, GeneratesKey(u, shown), Sends(Call("createKey", u)),
           UNCHANGED <<shown, creating, row, nodeRow, granted>>
    PROVE  PageOK' /\ Honest'
<1>1. generatingKey' = u /\ Panel(u, shown)
  BY Zenon DEF GeneratesKey
<1>2. Call("createKey", u) \in GoodCall /\ Call("createKey", u).kind = "createKey"
      /\ Call("createKey", u).arg = u
  BY FreshGood, Zenon DEF Fresh
<1>3. PICK i \in 1..MaxCalls :
         CallsOK' /\ calls[i] = None /\ calls'[i] = Call("createKey", u) /\ Replaces(i)
  BY <1>2, SendsOne, Zenon
<1>4. calls'[i].kind \notin RowKinds /\ calls'[i].kind \notin {"createUser", "refresh"}
  BY <1>2, <1>3 DEF RowKinds
<1>5. CreateHonest'
  BY <1>3, <1>4, CreateStays, Zenon DEF Unclaimed
<1>6. KeyHonest'
  BY <1>1, <1>2, <1>3, Zenon DEF KeyHonest, KeyFor, Some
<1>7. RowsHonest'
  BY <1>3, <1>4, RowsStay, Zenon
<1>8. ControlsOK'
  <2>1. baseline' \in {None} \cup SUBSET Node
    BY <1>1, PanelTyped, Zenon DEF PInv, PageOK, ControlsOK
  <2> QED BY <1>1, <2>1, Zenon DEF PInv, PageOK, ControlsOK
<1> QED BY <1>3, <1>5, <1>6, <1>7, <1>8, Zenon DEF Honest, PageOK


LEMMA PanelClosesHonest ==
    ASSUME PInv, ClosesPanel, CallsOK', \A j \in 1..MaxCalls : Alike(calls[j], calls'[j]),
           UNCHANGED <<shown, creating, row, nodeRow, granted>>
    PROVE  PageOK' /\ Honest'
<1>1. generatingKey' = generatingKey /\ Panel(None, shown)
  BY Zenon DEF ClosesPanel
<1>2. baseline' \in {None} \cup SUBSET Node
  BY <1>1, PanelTyped, Zenon DEF PInv, PageOK, ControlsOK
<1>3. PageOK'
  BY <1>1, <1>2, Zenon DEF PInv, PageOK, ControlsOK
<1>4. Carries
  BY <1>1, Zenon DEF Carries
<1> QED BY <1>3, <1>4, CarriesKeep, Zenon

LEMMA OnboardingHonest ==
    ASSUME PInv, NEW u \in Name, OnToggleOnboarding(u) \/ OnRegenerateKey(u)
    PROVE  PageOK' /\ Honest'
<1>1. UNCHANGED <<shown, creating, row, nodeRow, granted>>
  BY Zenon DEF OnToggleOnboarding, OnRegenerateKey, Click
<1>2. CASE GeneratesKey(u, shown) /\ Sends(Call("createKey", u))
  BY <1>1, <1>2, GeneratesKeyHonest, Zenon
<1>3. CASE ClosesPanel /\ calls' = calls
  <2>1. CallsOK' /\ \A j \in 1..MaxCalls : Alike(calls[j], calls'[j])
    BY <1>3, AllAlike, Zenon DEF PInv, PageOK, CallsOK
  <2> QED BY <1>1, <1>3, <2>1, PanelClosesHonest, Zenon
<1> QED BY <1>2, <1>3, Zenon DEF OnToggleOnboarding, OnRegenerateKey

LEMMA ConfirmHonest ==
    ASSUME PInv,
           \/ \E u \in Name : ConfirmDelete(u) \/ ConfirmAdmin(u)
           \/ \E n \in Node : ConfirmDeleteNode(n)
    PROVE  PageOK' /\ Honest'
<1>0. row \in [Name -> RowType] /\ nodeRow \in [Node -> NodeRowType]
  BY Zenon DEF PInv, PageOK, ControlsOK
<1>1. UNCHANGED <<shown, creating, generatingKey, baseline, calls, granted>>
  BY Zenon DEF ConfirmDelete, ConfirmAdmin, ConfirmDeleteNode, Deletable, Click, panelVars
<1>2. \/ nodeRow' = nodeRow /\ \E u \in Name :
            \/ \E b \in BOOLEAN : row' = [row EXCEPT ![u].confirmDelete = b]
            \/ \E a \in {None, "grant", "revoke"} : row' = [row EXCEPT ![u].confirmAdmin = a]
      \/ row' = row /\ \E n \in Node, b \in BOOLEAN :
            nodeRow' = [nodeRow EXCEPT ![n].confirmDelete = b]
  BY Zenon DEF ConfirmDelete, ConfirmAdmin, ConfirmDeleteNode
<1>3. /\ row' \in [Name -> RowType]
      /\ \A v \in Name : row'[v].deleting = row[v].deleting /\ row'[v].adminBusy = row[v].adminBusy
  <2>1. ASSUME NEW u \in Name, NEW b \in BOOLEAN, row' = [row EXCEPT ![u].confirmDelete = b]
        PROVE  row' \in [Name -> RowType] /\ \A v \in Name :
                  row'[v].deleting = row[v].deleting /\ row'[v].adminBusy = row[v].adminBusy
    BY <1>0, <2>1 DEF RowType
  <2>2. ASSUME NEW u \in Name, NEW a \in {None, "grant", "revoke"},
               row' = [row EXCEPT ![u].confirmAdmin = a]
        PROVE  row' \in [Name -> RowType] /\ \A v \in Name :
                  row'[v].deleting = row[v].deleting /\ row'[v].adminBusy = row[v].adminBusy
    BY <1>0, <2>2 DEF RowType
  <2> QED BY <1>0, <1>2, <2>1, <2>2, Zenon
<1>4. /\ nodeRow' \in [Node -> NodeRowType]
      /\ \A m \in Node : nodeRow'[m].deleting = nodeRow[m].deleting
  <2>1. ASSUME NEW n \in Node, NEW b \in BOOLEAN,
               nodeRow' = [nodeRow EXCEPT ![n].confirmDelete = b]
        PROVE  nodeRow' \in [Node -> NodeRowType] /\ \A m \in Node :
                  nodeRow'[m].deleting = nodeRow[m].deleting
    BY <1>0, <2>1 DEF NodeRowType
  <2> QED BY <1>0, <1>2, <2>1, Zenon
<1>5. Carries
  BY <1>1, <1>3, <1>4, AllAlike, Zenon DEF Carries
<1>6. PageOK'
  BY <1>1, <1>3, <1>4, Zenon DEF PInv, PageOK, CallsOK, ControlsOK
<1> QED BY <1>5, <1>6, CarriesKeep, Zenon

\* What the lemmas about rows say of the requests of one kind of row.
Kept(kinds) ==
    \A a : Settled(kinds, a) =>
       (Engaged(kinds, a)' <=> Engaged(kinds, a)) /\ Settled(kinds, a)'

LEMMA RowsUse ==
    ASSUME PInv
    PROVE  /\ \A u \in Name : Settled(Deleting, u) /\ (row[u].deleting <=> Engaged(Deleting, u))
           /\ \A u \in Name : Settled(Toggling, u) /\ (row[u].adminBusy <=> Engaged(Toggling, u))
           /\ \A n \in Node : Settled(Removing, n) /\ (nodeRow[n].deleting <=> Engaged(Removing, n))
BY Zenon DEF PInv, Honest, RowsHonest

LEMMA DeleteHonest ==
    ASSUME PInv, NEW u \in Name, HandleDelete(u)
    PROVE  PageOK' /\ Honest'
<1>0. row \in [Name -> RowType]
  BY Zenon DEF PInv, PageOK, ControlsOK
<1>1. /\ ~row[u].deleting /\ row' = [row EXCEPT ![u].deleting = TRUE]
      /\ UNCHANGED <<shown, creating, generatingKey, baseline, nodeRow, granted>>
  BY Zenon DEF HandleDelete, Deletable, Click, panelVars
<1>2. Call("deleteUser", u) \in GoodCall /\ Call("deleteUser", u).kind = "deleteUser"
      /\ Call("deleteUser", u).arg = u /\ Call("deleteUser", u).mounted
  BY FreshGood, Zenon DEF Fresh
<1>3. PICK i \in 1..MaxCalls :
         CallsOK' /\ calls[i] = None /\ calls'[i] = Call("deleteUser", u) /\ Replaces(i)
  BY <1>2, SendsOne, Zenon DEF HandleDelete
<1>4. /\ calls'[i].kind \in Deleting /\ calls'[i].kind \notin Toggling \cup Removing
      /\ calls'[i].kind # "poll" /\ calls'[i].kind \notin {"createUser", "refresh"}
  BY <1>2, <1>3 DEF Deleting, Toggling, Removing
<1>5. /\ row' \in [Name -> RowType] /\ row'[u].deleting
      /\ \A v \in Name : v # u => row'[v].deleting = row[v].deleting
      /\ \A v \in Name : row'[v].adminBusy = row[v].adminBusy
  BY Zenon, <1>0, <1>1 DEF RowType
<1>6. CreateHonest' /\ KeyHonest'
  BY <1>1, <1>3, <1>4, CreateStays, KeyStays, Zenon DEF Unclaimed
<1>7. Kept(Toggling) /\ Kept(Removing)
  BY <1>1, <1>3, <1>4, RowForeign, Zenon DEF Kept
<1>8. /\ Settled(Deleting, u) /\ ~Engaged(Deleting, u) =>
            Engaged(Deleting, u)' /\ Settled(Deleting, u)'
      /\ \A a : a # u /\ Settled(Deleting, a) =>
            (Engaged(Deleting, a)' <=> Engaged(Deleting, a)) /\ Settled(Deleting, a)'
  BY <1>1, <1>2, <1>3, <1>4, RowStarts, Zenon
<1>9. RowsHonest'
  BY <1>1, <1>5, <1>7, <1>8, RowsUse, Zenon DEF RowsHonest, Kept
<1>10. PageOK'
  BY <1>1, <1>3, <1>5, Zenon DEF PInv, PageOK, ControlsOK
<1> QED BY <1>6, <1>9, <1>10, Zenon DEF Honest

LEMMA AdminToggleHonest ==
    ASSUME PInv, NEW u \in Name, HandleAdminToggle(u)
    PROVE  PageOK' /\ Honest'
<1>0. row \in [Name -> RowType]
  BY Zenon DEF PInv, PageOK, ControlsOK
<1>1. /\ ~row[u].adminBusy /\ row' = [row EXCEPT ![u].adminBusy = TRUE]
      /\ UNCHANGED <<shown, creating, generatingKey, baseline, nodeRow, granted>>
  BY Zenon DEF HandleAdminToggle, Click, panelVars
<1>2. PICK k \in Toggling : Sends(Call(k, u))
  BY Zenon DEF HandleAdminToggle, Toggling
<1>3. /\ Call(k, u) \in GoodCall /\ Call(k, u).kind = k
      /\ Call(k, u).arg = u /\ Call(k, u).mounted
  <2>1. k = "grantAdmin" \/ k = "revokeAdmin"
    BY Zenon DEF Toggling
  <2>2. Fresh("grantAdmin", u) /\ Fresh("revokeAdmin", u)
    BY FreshGood, Zenon
  <2>3. Fresh(k, u)
    BY <2>1, <2>2, Zenon
  <2> QED BY <2>3, Zenon DEF Fresh
<1>4. PICK i \in 1..MaxCalls :
         CallsOK' /\ calls[i] = None /\ calls'[i] = Call(k, u) /\ Replaces(i)
  BY <1>2, <1>3, SendsOne, Zenon
<1>5. /\ calls'[i].kind \in Toggling /\ calls'[i].kind \notin Deleting \cup Removing
      /\ calls'[i].kind # "poll" /\ calls'[i].kind \notin {"createUser", "refresh"}
  <2>1. calls'[i].kind = "grantAdmin" \/ calls'[i].kind = "revokeAdmin"
    BY <1>3, <1>4, Zenon DEF Toggling
  <2> QED BY <2>1 DEF Deleting, Toggling, Removing
<1>6. /\ row' \in [Name -> RowType] /\ row'[u].adminBusy
      /\ \A v \in Name : v # u => row'[v].adminBusy = row[v].adminBusy
      /\ \A v \in Name : row'[v].deleting = row[v].deleting
  BY Zenon, <1>0, <1>1 DEF RowType
<1>7. CreateHonest' /\ KeyHonest'
  BY <1>1, <1>4, <1>5, CreateStays, KeyStays, Zenon DEF Unclaimed
<1>8. Kept(Deleting) /\ Kept(Removing)
  BY <1>1, <1>4, <1>5, RowForeign, Zenon DEF Kept
<1>9. /\ Settled(Toggling, u) /\ ~Engaged(Toggling, u) =>
            Engaged(Toggling, u)' /\ Settled(Toggling, u)'
      /\ \A a : a # u /\ Settled(Toggling, a) =>
            (Engaged(Toggling, a)' <=> Engaged(Toggling, a)) /\ Settled(Toggling, a)'
  BY <1>1, <1>3, <1>4, <1>5, RowStarts, Zenon
<1>10. RowsHonest'
  BY <1>1, <1>6, <1>8, <1>9, RowsUse, Zenon DEF RowsHonest, Kept
<1>11. PageOK'
  BY <1>1, <1>4, <1>6, Zenon DEF PInv, PageOK, ControlsOK
<1> QED BY <1>7, <1>10, <1>11, Zenon DEF Honest

LEMMA DeleteNodeHonest ==
    ASSUME PInv, NEW n \in Node, HandleDeleteNode(n)
    PROVE  PageOK' /\ Honest'
<1>0. nodeRow \in [Node -> NodeRowType]
  BY Zenon DEF PInv, PageOK, ControlsOK
<1>1. /\ ~nodeRow[n].deleting /\ nodeRow' = [nodeRow EXCEPT ![n].deleting = TRUE]
      /\ UNCHANGED <<shown, creating, generatingKey, baseline, row, granted>>
  BY Zenon DEF HandleDeleteNode, Click, panelVars
<1>2. Call("deleteNode", n) \in GoodCall /\ Call("deleteNode", n).kind = "deleteNode"
      /\ Call("deleteNode", n).arg = n /\ Call("deleteNode", n).mounted
  BY FreshGood, Zenon DEF Fresh
<1>3. PICK i \in 1..MaxCalls :
         CallsOK' /\ calls[i] = None /\ calls'[i] = Call("deleteNode", n) /\ Replaces(i)
  BY <1>2, SendsOne, Zenon DEF HandleDeleteNode
<1>4. /\ calls'[i].kind \in Removing /\ calls'[i].kind \notin Toggling \cup Deleting
      /\ calls'[i].kind # "poll" /\ calls'[i].kind \notin {"createUser", "refresh"}
  BY <1>2, <1>3 DEF Deleting, Toggling, Removing
<1>5. /\ nodeRow' \in [Node -> NodeRowType] /\ nodeRow'[n].deleting
      /\ \A m \in Node : m # n => nodeRow'[m].deleting = nodeRow[m].deleting
  BY Zenon, <1>0, <1>1 DEF NodeRowType
<1>6. CreateHonest' /\ KeyHonest'
  BY <1>1, <1>3, <1>4, CreateStays, KeyStays, Zenon DEF Unclaimed
<1>7. Kept(Toggling) /\ Kept(Deleting)
  BY <1>1, <1>3, <1>4, RowForeign, Zenon DEF Kept
<1>8. /\ Settled(Removing, n) /\ ~Engaged(Removing, n) =>
            Engaged(Removing, n)' /\ Settled(Removing, n)'
      /\ \A a : a # n /\ Settled(Removing, a) =>
            (Engaged(Removing, a)' <=> Engaged(Removing, a)) /\ Settled(Removing, a)'
  BY <1>1, <1>2, <1>3, <1>4, RowStarts, Zenon
<1>9. RowsHonest'
  BY <1>1, <1>5, <1>7, <1>8, RowsUse, Zenon DEF RowsHonest, Kept
<1>10. PageOK'
  BY <1>1, <1>3, <1>5, Zenon DEF PInv, PageOK, ControlsOK
<1> QED BY <1>6, <1>9, <1>10, Zenon DEF Honest


----
(* The panel's clock and the answers *)

LEMMA PollStartsHonest ==
    ASSUME PInv, NEW u \in Name, PollStarts(u)
    PROVE  PageOK' /\ Honest'
<1> DEFINE c == [Call("poll", u) EXCEPT !.nodes = baseline]
<1>1. UNCHANGED <<shown, creating, generatingKey, baseline, row, nodeRow, granted>> /\ Sends(c)
      /\ baseline # None
  BY Zenon DEF PollStarts, Polling, panelVars
<1>2. c \in GoodCall /\ c.kind = "poll"
  <2>1. baseline \in SUBSET Node
    BY <1>1, Zenon DEF PInv, PageOK, ControlsOK
  <2>2. baseline \in SUBSET (Node \cup (Node \X Name))
    BY <2>1, Zenon
  <2>3. c \in CallRecord
    BY Zenon, <2>2 DEF Call, CallRecord
  <2>4. WellFormed(c)
    BY <2>1 DEF Call, WellFormed
  <2> QED BY <2>3, <2>4 DEF GoodCall, Call
<1> HIDE DEF c
<1>3. PICK i \in 1..MaxCalls : CallsOK' /\ calls[i] = None /\ calls'[i] = c /\ Replaces(i)
  BY <1>1, <1>2, SendsOne, Zenon
<1>4. \A j \in 1..MaxCalls : Alike(calls[j], calls'[j])
  BY <1>2, <1>3, PlaceAlike, Zenon DEF Alike, Unclaimed
<1>5. Carries
  BY <1>1, <1>4, Zenon DEF Carries
<1>6. PageOK'
  BY <1>1, <1>3, Zenon DEF PInv, PageOK, ControlsOK
<1> QED BY <1>5, <1>6, CarriesKeep, Zenon

\* A key expires, a step off the page, or none.
LEMMA ElsewhereHonest ==
    ASSUME PInv,
           UNCHANGED <<shown, creating, generatingKey, baseline, row, nodeRow, calls, granted>>
    PROVE  PageOK' /\ Honest'
<1>1. Carries
  BY AllAlike, Zenon DEF Carries
<1>2. PageOK'
  BY Zenon DEF PInv, PageOK, CallsOK, ControlsOK
<1> QED BY <1>1, <1>2, CarriesKeep, Zenon

LEMMA CreateUserEndsHonest ==
    ASSUME PInv, NEW i \in InFlight, CreateUserEnds(i)
    PROVE  PageOK' /\ Honest'
<1>1. i \in 1..MaxCalls /\ calls[i] \in GoodCall /\ calls[i].kind = "createUser"
      /\ calls[i].arg \in Name
  BY InFlightGood, Zenon DEF CreateUserEnds, Answered, GoodCall, WellFormed
<1>2. UNCHANGED <<shown, generatingKey, baseline, row, nodeRow, granted>>
  BY Zenon DEF CreateUserEnds, panelVars
<1>3. /\ CallsOK' /\ Replaces(i) /\ CreateHonest' /\ creating' \in BOOLEAN
      /\ calls'[i] = None \/ calls'[i].kind = "refresh"
  <2>0. calls[i] \in Creating /\ One(Creating) /\ Some(Creating) /\ creating
    BY <1>1, Zenon DEF Creating, Some, PInv, Honest, CreateHonest
  <2>1. CASE Then(i, Refresh(calls[i].arg)) /\ creating' = creating
    <3> DEFINE d == Refresh(calls[i].arg)
    <3>0. calls[i].arg \in Name \cup {None}
      BY <1>1, Zenon
    <3>1. d \in GoodCall /\ d.kind = "refresh" /\ d.arg = calls[i].arg
      BY <3>0, FreshGood, Zenon DEF Fresh, Refresh
    <3>2. d \in Creating
      BY <1>1, <3>1, NamesAssumption, Zenon DEF Creating
    <3> HIDE DEF d
    <3>3. CallsOK' /\ calls'[i] = d /\ Replaces(i)
      BY <1>1, <2>1, <3>1, PlaceSet, Zenon DEF Then, d
    <3>4. (Some(Creating)' <=> Some(Creating)) /\ One(Creating)'
      BY <1>1, <2>0, <3>2, <3>3, PlaceChanges, Zenon DEF Replaces
    <3> QED BY <2>0, <2>1, <3>1, <3>3, <3>4, Zenon DEF CreateHonest
  <2>2. CASE Then(i, None) /\ creating' = FALSE
    <3>1. CallsOK' /\ calls'[i] = None /\ Replaces(i)
      BY <1>1, <2>2, PlaceSet, Zenon DEF Then
    <3>2. calls'[i] \notin Creating
      BY <3>1, NoCall, Zenon DEF Creating
    <3>3. ~Some(Creating)' /\ One(Creating)'
      BY <1>1, <2>0, <3>1, <3>2, PlaceChanges, Zenon DEF Replaces
    <3> QED BY <2>2, <3>1, <3>3, Zenon DEF CreateHonest
  <2> QED BY <2>1, <2>2, Zenon DEF CreateUserEnds
<1>4. KeyHonest'
  BY <1>1, <1>2, <1>3, KeyStays
<1>5. RowsHonest'
  BY <1>1, <1>2, <1>3, RowsStay DEF RowKinds
<1>6. PageOK'
  BY <1>2, <1>3, Zenon DEF PInv, PageOK, ControlsOK
<1> QED BY <1>3, <1>4, <1>5, <1>6, Zenon DEF Honest

LEMMA GenerateKeyEndsHonest ==
    ASSUME PInv, NEW i \in InFlight, GenerateKeyEnds(i)
    PROVE  PageOK' /\ Honest'
<1>1. i \in 1..MaxCalls /\ calls[i].kind = "createKey"
  BY InFlightGood, Zenon DEF GenerateKeyEnds, Answered
<1>2. generatingKey' = None /\ UNCHANGED <<shown, creating, baseline, row, nodeRow, granted>>
  BY Zenon DEF GenerateKeyEnds
<1>3. CallsOK' /\ calls'[i] = None /\ Replaces(i)
  BY <1>1, PlaceSet, Zenon DEF GenerateKeyEnds, Then
<1>4. KeyHonest'
  BY <1>2, NamesAssumption, Zenon DEF KeyHonest
<1>5. CreateHonest'
  BY <1>1, <1>2, <1>3, CreateStays DEF Unclaimed
<1>6. RowsHonest'
  BY <1>1, <1>2, <1>3, RowsStay DEF RowKinds
<1>7. PageOK'
  BY <1>2, <1>3, Zenon DEF PInv, PageOK, ControlsOK
<1> QED BY <1>4, <1>5, <1>6, <1>7, Zenon DEF Honest

LEMMA PollEndsHonest ==
    ASSUME PInv, NEW i \in InFlight, PollEnds(i)
    PROVE  PageOK' /\ Honest'
<1>1. i \in 1..MaxCalls /\ Unclaimed(calls[i])
  BY InFlightGood, Zenon DEF PollEnds, Answered, Unclaimed
<1>2. UNCHANGED <<shown, creating, row, nodeRow, granted>>
  BY Zenon DEF PollEnds
<1>3. ASSUME NEW d \in GoodCall \cup {None}, Then(i, d), Unclaimed(d)
      PROVE  CallsOK' /\ \A j \in 1..MaxCalls : Alike(calls[j], calls'[j])
  <2>1. CallsOK' /\ calls'[i] = d /\ Replaces(i)
    BY <1>1, <1>3, PlaceSet, Zenon DEF Then
  <2>2. Alike(calls[i], calls'[i])
    BY <1>1, <1>3, <2>1, Zenon DEF Alike
  <2> QED BY <1>1, <2>1, <2>2, PlaceAlike, Zenon
<1>4. CASE Then(i, Refresh(None)) /\ ClosesPanel
  <2>1. Refresh(None) \in GoodCall /\ Unclaimed(Refresh(None))
    BY FreshGood, Zenon DEF Fresh, Refresh, Unclaimed
  <2> QED BY <1>2, <1>3, <1>4, <2>1, PanelClosesHonest, Zenon
<1>5. CASE Then(i, None) /\ UNCHANGED panelVars
  <2>1. CallsOK' /\ \A j \in 1..MaxCalls : Alike(calls[j], calls'[j])
    BY <1>3, <1>5, Zenon DEF Unclaimed
  <2>2. UNCHANGED <<generatingKey, baseline>>
    BY <1>5, Zenon DEF panelVars
  <2>3. Carries
    BY <1>2, <2>1, <2>2, Zenon DEF Carries
  <2>4. PageOK'
    BY <1>2, <2>1, <2>2, Zenon DEF PInv, PageOK, ControlsOK
  <2> QED BY <2>3, <2>4, CarriesKeep, Zenon
<1> QED BY <1>4, <1>5, Zenon DEF PollEnds


\* A row's request is answered.  What holds whichever row it is: the request was
\* the row's, and neither a new user nor a key is waited for.
LEMMA RowEnds ==
    ASSUME PInv, NEW i \in InFlight, calls[i].kind \in RowKinds,
           Then(i, None) \/ Then(i, Refresh(None)),
           creating' = creating, generatingKey' = generatingKey
    PROVE  /\ i \in 1..MaxCalls /\ calls[i] \in GoodCall
           /\ CallsOK' /\ Replaces(i) /\ CreateHonest' /\ KeyHonest'
           /\ Then(i, None) => calls'[i] = None
           /\ Then(i, Refresh(None)) => calls'[i].kind = "refresh"
<1>1. i \in 1..MaxCalls /\ calls[i] \in GoodCall
  BY InFlightGood
<1>2. Refresh(None) \in GoodCall /\ Refresh(None).kind = "refresh" /\ Unclaimed(Refresh(None))
  BY FreshGood, Zenon DEF Fresh, Refresh, Unclaimed
<1>3. /\ CallsOK' /\ Replaces(i) /\ Unclaimed(calls'[i])
      /\ Then(i, None) => calls'[i] = None
      /\ Then(i, Refresh(None)) => calls'[i].kind = "refresh"
  BY <1>1, <1>2, PlaceSet, Zenon DEF Then, Unclaimed
<1>4. calls[i].kind \notin {"createUser", "refresh"} /\ calls[i].kind # "createKey"
  BY DEF RowKinds
<1>5. CreateHonest' /\ KeyHonest'
  BY <1>1, <1>3, <1>4, CreateStays, KeyStays, Zenon
<1> QED BY <1>1, <1>3, <1>5, Zenon

LEMMA RowDoneHonest ==
    ASSUME PInv, NEW i \in InFlight, calls[i].kind \in RowKinds, RowDone(i),
           creating' = creating, generatingKey' = generatingKey,
           \A u \in Name : /\ row'[u].deleting = row[u].deleting
                           /\ row'[u].adminBusy = row[u].adminBusy,
           nodeRow' = nodeRow
    PROVE  CallsOK' /\ Honest'
<1>1. Then(i, Refresh(None))
  BY Zenon DEF RowDone
<1>2. /\ i \in 1..MaxCalls /\ calls[i] \in GoodCall /\ Replaces(i)
      /\ CallsOK' /\ CreateHonest' /\ KeyHonest' /\ calls'[i].kind = "refresh"
  BY <1>1, RowEnds, Zenon
<1>3. calls'[i].kind \notin Deleting \cup Toggling \cup Removing
  BY <1>2 DEF Deleting, Toggling, Removing
<1>4. Kept(Deleting) /\ Kept(Toggling) /\ Kept(Removing)
  BY <1>2, <1>3, RowAnswered, Zenon DEF Kept, RowDone
<1>5. RowsHonest'
  BY <1>4, RowsUse, Zenon DEF Kept, RowsHonest
<1> QED BY <1>2, <1>5, Zenon DEF Honest

LEMMA DeleteEndsHonest ==
    ASSUME PInv, NEW i \in InFlight, DeleteEnds(i)
    PROVE  PageOK' /\ Honest'
<1>0. row \in [Name -> RowType] /\ calls[i].kind = "deleteUser"
  BY Zenon DEF PInv, PageOK, ControlsOK, DeleteEnds, Answered
<1>1. calls[i].kind \in RowKinds
  BY <1>0 DEF RowKinds
<1>2. UNCHANGED <<shown, creating, generatingKey, baseline, nodeRow>>
  BY Zenon DEF DeleteEnds, panelVars
<1>3. CASE RowDone(i) /\ row' = row
  <2>1. CallsOK' /\ Honest'
    BY <1>1, <1>2, <1>3, RowDoneHonest, Zenon
  <2> QED BY <1>2, <1>3, <2>1, Zenon DEF PInv, PageOK, ControlsOK
<1>4. CASE /\ Then(i, None) /\ granted' = granted
           /\ row' = IF calls[i].mounted
                     THEN [row EXCEPT ![calls[i].arg].deleting = FALSE,
                                      ![calls[i].arg].confirmDelete = FALSE]
                     ELSE row
  <2>1. /\ i \in 1..MaxCalls /\ calls[i] \in GoodCall /\ Replaces(i)
        /\ CallsOK' /\ CreateHonest' /\ KeyHonest' /\ calls'[i] = None
    BY <1>1, <1>2, <1>4, RowEnds, Zenon
  <2>2. PICK u \in Name : calls[i].arg = u
    BY <1>0, <2>1 DEF GoodCall, WellFormed
  <2>3. /\ row' \in [Name -> RowType]
        /\ calls[i].mounted => ~row'[u].deleting
        /\ \A v \in Name : v # u \/ ~calls[i].mounted => row'[v].deleting = row[v].deleting
        /\ \A v \in Name : row'[v].adminBusy = row[v].adminBusy
    <3>1. CASE ~calls[i].mounted
      BY <1>0, <1>4, <3>1, Zenon
    <3>2. CASE calls[i].mounted
      <4> DEFINE freed == [row EXCEPT ![u].deleting = FALSE]
      <4>1. /\ freed \in [Name -> RowType] /\ ~freed[u].deleting
            /\ \A v \in Name : v # u => freed[v].deleting = row[v].deleting
            /\ \A v \in Name : freed[v].adminBusy = row[v].adminBusy
        <5>1. freed \in [Name -> RowType] /\ ~freed[u].deleting
          BY Zenon, <1>0 DEF RowType
        <5>2. ASSUME NEW v \in Name, v # u
              PROVE  freed[v] = row[v]
          BY Zenon, <1>0, <5>2
        <5>3. freed[u].adminBusy = row[u].adminBusy
          BY Zenon, <1>0 DEF RowType
        <5> HIDE DEF freed
        <5> QED BY Zenon, <5>1, <5>2, <5>3
      <4>2. row' = [freed EXCEPT ![u].confirmDelete = FALSE]
        BY <1>4, <2>2, <3>2
      <4> HIDE DEF freed
      <4>3. row' \in [Name -> RowType] /\ ~row'[u].deleting
        BY Zenon, <4>1, <4>2 DEF RowType
      <4>4. ASSUME NEW v \in Name, v # u
            PROVE  row'[v] = freed[v]
        BY Zenon, <4>1, <4>2, <4>4
      <4>5. row'[u].adminBusy = freed[u].adminBusy
        BY Zenon, <4>1, <4>2 DEF RowType
      <4> QED BY Zenon, <3>2, <4>1, <4>3, <4>4, <4>5
    <3> QED BY <3>1, <3>2
  <2>4. calls[i].kind \in Deleting /\ calls[i].kind \notin Toggling \cup Removing
    BY <1>0 DEF Deleting, Toggling, Removing
  <2>5. Kept(Toggling) /\ Kept(Removing)
    BY <1>4, <2>1, <2>4, RowForeign, Zenon DEF Kept
  <2>6. /\ calls[i].mounted /\ Settled(Deleting, u) =>
              ~Engaged(Deleting, u)' /\ Settled(Deleting, u)'
        /\ \A a : (a # u \/ ~calls[i].mounted) /\ Settled(Deleting, a) =>
              (Engaged(Deleting, a)' <=> Engaged(Deleting, a)) /\ Settled(Deleting, a)'
    BY <1>4, <2>1, <2>2, <2>4, RowReleased, Zenon
  <2>7. RowsHonest'
    BY <1>2, <2>3, <2>5, <2>6, RowsUse, Zenon DEF RowsHonest, Kept
  <2> QED BY <1>2, <2>1, <2>3, <2>7, Zenon DEF Honest, PInv, PageOK, ControlsOK
<1> QED BY <1>3, <1>4, Zenon DEF DeleteEnds

LEMMA AdminToggleEndsHonest ==
    ASSUME PInv, NEW i \in InFlight, AdminToggleEnds(i)
    PROVE  PageOK' /\ Honest'
<1>0. row \in [Name -> RowType] /\ calls[i].kind \in Toggling
  BY Zenon DEF PInv, PageOK, ControlsOK, AdminToggleEnds, Answered, Toggling
<1>1. calls[i].kind \in RowKinds /\ calls[i].kind \notin Deleting \cup Removing
      /\ calls[i].kind \notin {"deleteNode", "refresh"}
  BY <1>0 DEF RowKinds, Toggling, Deleting, Removing
<1>2. UNCHANGED <<shown, creating, generatingKey, baseline, nodeRow>>
  BY Zenon DEF AdminToggleEnds, panelVars
<1>3. PICK u \in Name : calls[i].arg = u
  BY <1>1, InFlightGood DEF GoodCall, WellFormed
<1>4. CASE /\ RowDone(i)
           /\ row' = IF calls[i].mounted THEN [row EXCEPT ![u].confirmAdmin = None] ELSE row
  <2>1. /\ row' \in [Name -> RowType]
        /\ \A v \in Name : /\ row'[v].deleting = row[v].deleting
                           /\ row'[v].adminBusy = row[v].adminBusy
    BY <1>0, <1>4 DEF RowType
  <2>2. CallsOK' /\ Honest'
    BY <1>1, <1>2, <1>4, <2>1, RowDoneHonest, Zenon
  <2> QED BY <1>2, <2>1, <2>2, Zenon DEF PInv, PageOK, ControlsOK
<1>5. CASE /\ Then(i, None) /\ granted' = granted
           /\ row' = IF calls[i].mounted THEN [row EXCEPT ![u].adminBusy = FALSE] ELSE row
  <2>1. /\ i \in 1..MaxCalls /\ calls[i] \in GoodCall /\ Replaces(i)
        /\ CallsOK' /\ CreateHonest' /\ KeyHonest' /\ calls'[i] = None
    BY <1>1, <1>2, <1>5, RowEnds, Zenon
  <2>2. /\ row' \in [Name -> RowType]
        /\ calls[i].mounted => ~row'[u].adminBusy
        /\ \A v \in Name : v # u \/ ~calls[i].mounted => row'[v].adminBusy = row[v].adminBusy
        /\ \A v \in Name : row'[v].deleting = row[v].deleting
    BY Zenon, <1>0, <1>5 DEF RowType
  <2>3. Kept(Deleting) /\ Kept(Removing)
    BY <1>1, <1>5, <2>1, RowForeign, Zenon DEF Kept
  <2>4. /\ calls[i].mounted /\ Settled(Toggling, u) =>
              ~Engaged(Toggling, u)' /\ Settled(Toggling, u)'
        /\ \A a : (a # u \/ ~calls[i].mounted) /\ Settled(Toggling, a) =>
              (Engaged(Toggling, a)' <=> Engaged(Toggling, a)) /\ Settled(Toggling, a)'
    BY <1>0, <1>3, <1>5, <2>1, RowReleased, Zenon
  <2>5. RowsHonest'
    BY <1>2, <2>2, <2>3, <2>4, RowsUse, Zenon DEF RowsHonest, Kept
  <2> QED BY <1>2, <2>1, <2>2, <2>5, Zenon DEF Honest, PInv, PageOK, ControlsOK
<1> QED BY <1>3, <1>4, <1>5, Zenon DEF AdminToggleEnds

LEMMA DeleteNodeEndsHonest ==
    ASSUME PInv, NEW i \in InFlight, DeleteNodeEnds(i)
    PROVE  PageOK' /\ Honest'
<1>0. nodeRow \in [Node -> NodeRowType] /\ calls[i].kind = "deleteNode"
  BY Zenon DEF PInv, PageOK, ControlsOK, DeleteNodeEnds, Answered
<1>1. calls[i].kind \in RowKinds /\ calls[i].kind \in Removing
      /\ calls[i].kind \notin Deleting \cup Toggling
  BY <1>0 DEF RowKinds, Toggling, Deleting, Removing
<1>2. UNCHANGED <<shown, creating, generatingKey, baseline, row>>
  BY Zenon DEF DeleteNodeEnds, panelVars
<1>3. PICK n \in Node : calls[i].arg = n
  BY <1>0, InFlightGood DEF GoodCall, WellFormed
<1>4. CASE RowDone(i) /\ nodeRow' = nodeRow
  <2>1. CallsOK' /\ Honest'
    BY <1>1, <1>2, <1>4, RowDoneHonest, Zenon
  <2> QED BY <1>2, <1>4, <2>1, Zenon DEF PInv, PageOK, ControlsOK
<1>5. CASE /\ Then(i, None) /\ granted' = granted
           /\ nodeRow' = IF calls[i].mounted THEN [nodeRow EXCEPT ![n] = NodeRow] ELSE nodeRow
  <2>1. /\ i \in 1..MaxCalls /\ calls[i] \in GoodCall /\ Replaces(i)
        /\ CallsOK' /\ CreateHonest' /\ KeyHonest' /\ calls'[i] = None
    BY <1>1, <1>2, <1>5, RowEnds, Zenon
  <2>2. /\ nodeRow' \in [Node -> NodeRowType]
        /\ calls[i].mounted => ~nodeRow'[n].deleting
        /\ \A m \in Node : m # n \/ ~calls[i].mounted => nodeRow'[m].deleting = nodeRow[m].deleting
    BY Zenon, <1>0, <1>5 DEF NodeRowType, NodeRow
  <2>3. Kept(Deleting) /\ Kept(Toggling)
    BY <1>1, <1>5, <2>1, RowForeign, Zenon DEF Kept
  <2>4. /\ calls[i].mounted /\ Settled(Removing, n) =>
              ~Engaged(Removing, n)' /\ Settled(Removing, n)'
        /\ \A a : (a # n \/ ~calls[i].mounted) /\ Settled(Removing, a) =>
              (Engaged(Removing, a)' <=> Engaged(Removing, a)) /\ Settled(Removing, a)'
    BY <1>1, <1>3, <1>5, <2>1, RowReleased, Zenon
  <2>5. RowsHonest'
    BY <1>2, <2>2, <2>3, <2>4, RowsUse, Zenon DEF RowsHonest, Kept
  <2> QED BY <1>2, <2>1, <2>2, <2>5, Zenon DEF Honest, PInv, PageOK, ControlsOK
<1> QED BY <1>3, <1>4, <1>5, Zenon DEF DeleteNodeEnds


----
(* A refresh ends *)

LEMMA UnmountedGood ==
    ASSUME NEW c \in GoodCall
    PROVE  /\ [c EXCEPT !.mounted = FALSE] \in GoodCall
           /\ [c EXCEPT !.mounted = FALSE].kind = c.kind
           /\ [c EXCEPT !.mounted = FALSE].arg = c.arg
           /\ ~[c EXCEPT !.mounted = FALSE].mounted
<1>1. c \in CallRecord /\ WellFormed(c)
  BY Zenon DEF GoodCall
<1>2. [c EXCEPT !.mounted = FALSE] \in CallRecord
  BY Zenon, <1>1 DEF CallRecord
<1>3. WellFormed([c EXCEPT !.mounted = FALSE])
  BY <1>1 DEF CallRecord, WellFormed
<1> QED BY <1>1, <1>2, <1>3 DEF GoodCall, CallRecord

\* Whether the row of a user or a device is in the lists that were fetched.
RowListed(list, kinds, a) ==
    IF kinds = Removing THEN \E u \in list.users : <<a, u>> \in list.nodes
                        ELSE a \in list.users

LEMMA ListedMeans ==
    ASSUME NEW list, NEW kinds \in {Deleting, Toggling, Removing}, NEW c, c.kind \in kinds
    PROVE  Listed(list, c) <=> RowListed(list, kinds, c.arg)
<1>1. CASE kinds = Removing
  BY <1>1 DEF Listed, RowListed, Removing
<1>2. CASE kinds # Removing
  <2>1. c.kind \in {"deleteUser", "grantAdmin", "revokeAdmin"}
    BY <1>2 DEF Deleting, Toggling
  <2> QED BY <1>2, <2>1 DEF Listed, RowListed
<1> QED BY <1>1, <1>2

\* A row that is listed stays as it was, and one that is not is gone, with the
\* claim its requests had on it.
LEMMA RowRerendered ==
    ASSUME PInv, NEW list, NEW kinds \in {Deleting, Toggling, Removing}, NEW a,
           NEW i \in 1..MaxCalls, calls[i] \notin OfRow(kinds, a), calls'[i] \notin OfRow(kinds, a),
           \A j \in 1..MaxCalls : j # i => calls'[j] = Unmounted(list)[j],
           granted' = {c \in granted : Listed(list, c)}, Settled(kinds, a)
    PROVE  /\ Settled(kinds, a)'
           /\ RowListed(list, kinds, a) => (Engaged(kinds, a)' <=> Engaged(kinds, a))
           /\ ~RowListed(list, kinds, a) => ~Engaged(kinds, a)'
<1>1. ASSUME NEW j \in 1..MaxCalls, j # i
      PROVE  calls'[j] \in OfRow(kinds, a) <=>
                calls[j] \in OfRow(kinds, a) /\ RowListed(list, kinds, a)
  <2>0. calls[j] \in GoodCall \cup {None}
    BY Zenon DEF PInv, PageOK, CallsOK
  <2>1. calls'[j] = IF calls[j] # None /\ ~Listed(list, calls[j])
                    THEN [calls[j] EXCEPT !.mounted = FALSE] ELSE calls[j]
    BY <1>1, Zenon DEF Unmounted
  <2>2. ASSUME calls[j] \in OfRow(kinds, a)
        PROVE  calls[j] # None /\ (Listed(list, calls[j]) <=> RowListed(list, kinds, a))
    <3>1. calls[j] \in GoodCall /\ calls[j].kind \in kinds /\ calls[j].arg = a
      BY <2>2, Zenon DEF OfRow
    <3>2. Listed(list, calls[j]) <=> RowListed(list, kinds, calls[j].arg)
      BY <3>1, ListedMeans, Zenon
    <3> QED BY <3>1, <3>2, NoCall, Zenon
  <2>3. CASE calls[j] # None /\ ~Listed(list, calls[j])
    <3>1. calls[j] \in GoodCall /\ calls'[j] = [calls[j] EXCEPT !.mounted = FALSE]
      BY <2>0, <2>1, <2>3, Zenon
    <3>2. calls'[j] \notin OfRow(kinds, a)
      BY <3>1, UnmountedGood, Zenon DEF OfRow
    <3> QED BY <2>2, <2>3, <3>2, Zenon
  <2>4. CASE ~(calls[j] # None /\ ~Listed(list, calls[j]))
    <3>1. calls'[j] = calls[j]
      BY <2>1, <2>4, Zenon
    <3> QED BY <2>2, <2>4, <3>1, Zenon
  <2> QED BY <2>3, <2>4, Zenon
<1>2. RowGranted(kinds, a)' <=> RowGranted(kinds, a) /\ RowListed(list, kinds, a)
  <2>1. ASSUME NEW k \in kinds
        PROVE  Listed(list, [kind |-> k, arg |-> a]) <=> RowListed(list, kinds, a)
    BY ListedMeans
  <2> QED BY <2>1, Zenon DEF RowGranted
<1>3. CASE RowListed(list, kinds, a)
  BY <1>1, <1>2, <1>3, RowChanges, Zenon
<1>4. CASE ~RowListed(list, kinds, a)
  <2>1. \A j \in 1..MaxCalls : calls'[j] \notin OfRow(kinds, a)
    BY <1>1, <1>4, Zenon
  <2>2. ~Some(OfRow(kinds, a))' /\ One(OfRow(kinds, a))' /\ ~RowGranted(kinds, a)'
    BY <1>2, <1>4, <2>1, Zenon DEF Some, One
  <2> QED BY <1>4, <2>2, Zenon DEF Engaged, Settled
<1> QED BY <1>3, <1>4, Zenon


LEMMA RefreshEndsHonest ==
    ASSUME PInv, NEW i \in InFlight, RefreshEnds(i)
    PROVE  PageOK' /\ Honest'
<1>0. /\ i \in 1..MaxCalls /\ calls[i] \in GoodCall /\ calls[i].kind = "refresh"
      /\ calls[i].at \in {"done", "failed"}
  BY InFlightGood, Zenon DEF RefreshEnds, Answered, Succeeds, Fails
<1> DEFINE then == calls[i].arg
           list == IF Fails(i) THEN shown
                   ELSE [users |-> calls[i].users, nodes |-> calls[i].nodes,
                         admins |-> calls[i].admins]
           next == IF then = None THEN None ELSE Call("createKey", then)
<1>1. /\ shown' = list /\ Rerendered(list)
      /\ calls' = [Unmounted(list) EXCEPT ![i] = next]
      /\ \/ /\ then = None /\ Panel(onboardingUser, list)
            /\ creating' = creating /\ generatingKey' = generatingKey
         \/ /\ then # None /\ Panel(then, list)
            /\ creating' = FALSE /\ generatingKey' = then
  BY Zenon DEF RefreshEnds, GeneratesKey
<1>2. list \in Lists
  <2>1. CASE Fails(i)
    BY <2>1, Zenon DEF PInv, PageOK, ControlsOK
  <2>2. CASE ~Fails(i)
    BY <1>0, <2>2 DEF Fails, GoodCall, WellFormed, Lists
  <2> QED BY <2>1, <2>2
<1>3. then \in Name \cup {None}
  BY <1>0 DEF GoodCall, WellFormed
<1>4. /\ next \in GoodCall \cup {None}
      /\ then # None => next \in GoodCall /\ next.kind = "createKey" /\ next.arg = then
      /\ then = None => next = None
  <2>1. ASSUME then # None
        PROVE  /\ Call("createKey", then) \in GoodCall /\ Call("createKey", then).kind = "createKey"
               /\ Call("createKey", then).arg = then
    <3>1. PICK u \in Name : u = then
      BY <1>3, <2>1, Zenon
    <3>2. /\ Call("createKey", u) \in GoodCall /\ Call("createKey", u).kind = "createKey"
          /\ Call("createKey", u).arg = u
      BY FreshGood, Zenon DEF Fresh
    <3> QED BY <3>1, <3>2, Zenon
  <2> QED BY <2>1, Zenon
<1> HIDE DEF list, next
<1>5. PICK ls : ls = list
  OBVIOUS
<1>6. /\ Unmounted(ls) \in [1..MaxCalls -> GoodCall \cup {None}]
      /\ \A j \in 1..MaxCalls :
            \/ Unmounted(ls)[j] = calls[j]
            \/ /\ calls[j] # None /\ Unmounted(ls)[j] \in GoodCall
               /\ Unmounted(ls)[j].kind = calls[j].kind /\ Unmounted(ls)[j].arg = calls[j].arg
  <2>1. ASSUME NEW j \in 1..MaxCalls
        PROVE  /\ Unmounted(ls)[j] \in GoodCall \cup {None}
               /\ \/ Unmounted(ls)[j] = calls[j]
                  \/ /\ calls[j] # None /\ Unmounted(ls)[j] \in GoodCall
                     /\ Unmounted(ls)[j].kind = calls[j].kind
                     /\ Unmounted(ls)[j].arg = calls[j].arg
    <3>1. calls[j] \in GoodCall \cup {None}
      BY Zenon DEF PInv, PageOK, CallsOK
    <3>2. Unmounted(ls)[j] = IF calls[j] # None /\ ~Listed(ls, calls[j])
                             THEN [calls[j] EXCEPT !.mounted = FALSE] ELSE calls[j]
      BY Zenon DEF Unmounted
    <3>3. CASE calls[j] # None /\ ~Listed(ls, calls[j])
      <4>1. calls[j] \in GoodCall /\ Unmounted(ls)[j] = [calls[j] EXCEPT !.mounted = FALSE]
        BY <3>1, <3>2, <3>3, Zenon
      <4> QED BY <3>3, <4>1, UnmountedGood, Zenon
    <3>4. CASE ~(calls[j] # None /\ ~Listed(ls, calls[j]))
      BY <3>1, <3>2, <3>4, Zenon
    <3> QED BY <3>3, <3>4, Zenon
  <2>2. Unmounted(ls) = [j \in 1..MaxCalls |-> Unmounted(ls)[j]]
    BY Zenon DEF Unmounted
  <2> QED BY <2>1, <2>2, Zenon
<1>7. /\ CallsOK' /\ calls'[i] = next
      /\ \A j \in 1..MaxCalls : j # i => calls'[j] = Unmounted(ls)[j]
  BY <1>0, <1>1, <1>4, <1>5, <1>6, Zenon DEF CallsOK
<1>8. ASSUME NEW j \in 1..MaxCalls, j # i
      PROVE  /\ calls'[j] \in Creating <=> calls[j] \in Creating
             /\ \A u : calls'[j] \in KeyFor(u) <=> calls[j] \in KeyFor(u)
  <2>1. calls[j] \in GoodCall \cup {None}
    BY Zenon DEF PInv, PageOK, CallsOK
  <2>2. \/ calls'[j] = calls[j]
        \/ /\ calls[j] # None /\ calls'[j] \in GoodCall
           /\ calls'[j].kind = calls[j].kind /\ calls'[j].arg = calls[j].arg
    BY <1>6, <1>7, <1>8, Zenon
  <2> QED BY <2>1, <2>2, Zenon DEF Creating, KeyFor
<1>9. CreateHonest'
  <2>1. CASE then = None
    <3>1. calls[i] \notin Creating /\ calls'[i] \notin Creating
      BY <1>0, <1>4, <1>7, <2>1, NoCall DEF Creating
    <3>2. (Some(Creating)' <=> Some(Creating)) /\ One(Creating)'
      BY <1>0, <1>8, <3>1, PlaceChanges, Zenon DEF PInv, Honest, CreateHonest
    <3>3. creating' = creating
      BY <1>1, <2>1, Zenon
    <3> QED BY <3>2, <3>3, Zenon DEF PInv, Honest, CreateHonest
  <2>2. CASE then # None
    <3>1. calls[i] \in Creating /\ calls'[i] \notin Creating
      BY <1>0, <1>4, <1>7, <2>2 DEF Creating
    <3>2. ~Some(Creating)' /\ One(Creating)'
      BY <1>0, <1>8, <3>1, PlaceChanges, Zenon DEF PInv, Honest, CreateHonest
    <3> QED BY <1>1, <2>2, <3>2, Zenon DEF CreateHonest
  <2> QED BY <2>1, <2>2
<1>10. KeyHonest'
  <2> SUFFICES ASSUME NEW u \in Name, generatingKey' = u PROVE Some(KeyFor(u))'
    BY Zenon DEF KeyHonest
  <2>1. CASE then = None
    <3>1. PICK j \in 1..MaxCalls : calls[j] \in KeyFor(u)
      BY <1>1, <2>1, Zenon DEF PInv, Honest, KeyHonest, Some
    <3>2. j # i
      BY <1>0, <3>1 DEF KeyFor
    <3> QED BY <1>8, <3>1, <3>2, Zenon DEF Some
  <2>2. CASE then # None
    <3>1. u = then
      BY <1>1, <2>2, Zenon
    <3> QED BY <1>0, <1>4, <1>7, <2>2, <3>1, Zenon DEF KeyFor, Some
  <2> QED BY <2>1, <2>2
<1>11. ASSUME NEW kinds \in {Deleting, Toggling, Removing}, NEW a, Settled(kinds, a)
       PROVE  /\ Settled(kinds, a)'
              /\ RowListed(ls, kinds, a) => (Engaged(kinds, a)' <=> Engaged(kinds, a))
              /\ ~RowListed(ls, kinds, a) => ~Engaged(kinds, a)'
  <2>1. granted' = {c \in granted : Listed(ls, c)}
    BY <1>1, <1>5, Zenon DEF Rerendered
  <2>2. "refresh" \notin kinds /\ "createKey" \notin kinds
    BY DEF Deleting, Toggling, Removing
  <2>3. calls[i] \notin OfRow(kinds, a) /\ calls'[i] \notin OfRow(kinds, a)
    BY <1>0, <1>4, <1>7, <2>2, NoCall, Zenon DEF OfRow
  <2> QED BY <1>0, <1>7, <1>11, <2>1, <2>3, RowRerendered, Zenon
<1>12. /\ row' = [u \in Name |-> IF u \in ls.users THEN row[u] ELSE Row]
       /\ nodeRow' = [n \in Node |-> IF \E u \in ls.users : <<n, u>> \in ls.nodes
                                     THEN nodeRow[n] ELSE NodeRow]
  BY <1>1, <1>5, Zenon DEF Rerendered
<1>13. RowsHonest'
  <2>1. Removing # Deleting /\ Removing # Toggling
    BY DEF Removing, Deleting, Toggling
  <2>2. \A a : /\ RowListed(ls, Deleting, a) <=> a \in ls.users
               /\ RowListed(ls, Toggling, a) <=> a \in ls.users
               /\ RowListed(ls, Removing, a) <=> \E u \in ls.users : <<a, u>> \in ls.nodes
    BY <2>1, Zenon DEF RowListed
  <2>3. ~Row.deleting /\ ~Row.adminBusy /\ ~NodeRow.deleting
    BY DEF Row, NodeRow
  <2>4. ASSUME NEW u \in Name
        PROVE  /\ Settled(Deleting, u)' /\ (row'[u].deleting <=> Engaged(Deleting, u)')
               /\ Settled(Toggling, u)' /\ (row'[u].adminBusy <=> Engaged(Toggling, u)')
    <3>1. row'[u] = IF u \in ls.users THEN row[u] ELSE Row
      BY <1>12, Zenon
    <3> QED BY <1>11, <2>2, <2>3, <3>1, RowsUse, Zenon
  <2>5. ASSUME NEW n \in Node
        PROVE  Settled(Removing, n)' /\ (nodeRow'[n].deleting <=> Engaged(Removing, n)')
    <3>1. nodeRow'[n] = IF \E u \in ls.users : <<n, u>> \in ls.nodes THEN nodeRow[n] ELSE NodeRow
      BY <1>12, Zenon
    <3> QED BY <1>11, <2>2, <2>3, <3>1, RowsUse, Zenon
  <2> QED BY <2>4, <2>5, Zenon DEF RowsHonest
<1>14. ControlsOK'
  <2>1. Row \in RowType /\ NodeRow \in NodeRowType
    BY DEF Row, RowType, NodeRow, NodeRowType
  <2>2. row' \in [Name -> RowType] /\ nodeRow' \in [Node -> NodeRowType]
    BY <1>12, <2>1, Zenon DEF PInv, PageOK, ControlsOK
  <2>3. baseline' \in {None} \cup SUBSET Node
    BY <1>1, <1>2, PanelTyped, Zenon
  <2>4. shown' \in Lists /\ creating' \in BOOLEAN /\ generatingKey' \in Name \cup {None}
    BY <1>1, <1>2, <1>3, Zenon DEF PInv, PageOK, ControlsOK
  <2> QED BY <2>2, <2>3, <2>4, Zenon DEF ControlsOK
<1> QED BY <1>7, <1>9, <1>10, <1>13, <1>14, Zenon DEF PageOK, Honest


----
(* What the page does to the servers and to Headscale *)

\* Steps that are only an event, or not even that.
LEMMA QuietStep ==
    ASSUME UNCHANGED <<headscaleVars, storeVars>>, Event \/ UNCHANGED events
    PROVE  Next
BY Zenon DEF HeadscaleStep, Next

LEMMA UserCall ==
    ASSUME NEW u \in Name, CreateUser(u) \/ DestroyUser(u), UNCHANGED <<storeVars, events>>
    PROVE  Next
<1>1. HeadscaleStep
  BY Zenon DEF HeadscaleStep
<1> QED BY <1>1, Zenon DEF Next

LEMMA NodeCall ==
    ASSUME NEW n \in Node, DeleteNode(n), UNCHANGED <<storeVars, events>>
    PROVE  Next
<1>1. HeadscaleStep
  BY Zenon DEF HeadscaleStep
<1> QED BY <1>1, Zenon DEF Next

\* A handler works on the stores and on Headscale as AdminStore says.
LEMMA HandledIsStoreStep ==
    ASSUME PInv, NEW i \in InFlight, Handled(i) \/ CallFails(i)
    PROVE  Next
<1>0. calls[i] \in GoodCall /\ WellFormed(calls[i])
  BY InFlightGood, Zenon DEF GoodCall
<1>1. CASE \/ Admitted(i) \/ Refused(i) \/ ReadLists(i) \/ ReadPoll(i)
           \/ KeyCreated(i) \/ UserFound(i) \/ NodesListed(i) \/ CallFails(i)
  <2>1. UNCHANGED <<headscaleVars, storeVars>> /\ (Event \/ UNCHANGED events)
    BY <1>1, Zenon DEF Admitted, Refused, ReadLists, ReadPoll, KeyCreated, UserFound,
      NodesListed, CallFails, Quiet
  <2> QED BY <2>1, QuietStep, Zenon
<1>2. CASE Quiet
  BY <1>2, QuietStep, Zenon DEF Quiet
<1>3. CASE Created(i)
  <2>1. calls[i].arg \in Name
    BY <1>0, <1>3 DEF Created, Sent, WellFormed
  <2> QED BY <1>2, <1>3, <2>1, UserCall, Zenon DEF Created
<1>4. CASE NodeDeleted(i)
  <2>1. calls[i].arg \in Node
    BY <1>0, <1>4 DEF NodeDeleted, Sent, WellFormed
  <2> QED BY <1>2, <1>4, <2>1, NodeCall, Zenon DEF NodeDeleted
<1>5. CASE UserNodeDeleted(i)
  <2>1. calls[i].nodes \in SUBSET Node
    BY <1>0, <1>5, Zenon DEF UserNodeDeleted, WellFormed
  <2> QED BY <1>2, <1>5, <2>1, NodeCall, Zenon DEF UserNodeDeleted
<1>6. CASE UserDeleted(i)
  <2>1. calls[i].arg \in Name
    BY <1>0, <1>6 DEF UserDeleted, WellFormed
  <2> QED BY <1>2, <1>6, <2>1, UserCall, Zenon DEF UserDeleted
<1>7. CASE AdminGranted(i) \/ AdminRevoked(i)
  <2>1. calls[i].arg \in Name
    BY Zenon, <1>0, <1>7 DEF AdminGranted, AdminRevoked, WellFormed
  <2>2. \/ RequestStep(portal, Viewer)
        \/ UNCHANGED <<headscaleVars, storeVars, events>>
    BY <1>7, <2>1, Zenon DEF AdminGranted, AdminRevoked, RequestStep
  <2>3. CASE RequestStep(portal, Viewer)
    BY <2>3, PageAssumption, Zenon DEF Next
  <2>4. CASE UNCHANGED <<headscaleVars, storeVars, events>>
    BY <2>4, QuietStep, Zenon
  <2> QED BY <2>2, <2>3, <2>4
<1> QED BY <1>1, <1>3, <1>4, <1>5, <1>6, <1>7, Zenon DEF Handled

LEMMA PageStepIsStoreStep ==
    ASSUME PInv, [PageNext]_allVars
    PROVE  [Next]_vars
<1>1. CASE Me
  <2>1. UNCHANGED <<headscaleVars, storeVars>> /\ (Event \/ UNCHANGED events)
    BY <1>1, Zenon DEF Me
  <2> QED BY <2>1, QuietStep, Zenon
<1>2. CASE UserStep
  <2>1. Click
    BY <1>2, Zenon DEF UserStep, HandleCreateUser, OnToggleOnboarding, OnRegenerateKey,
      ConfirmDelete, HandleDelete, Deletable, ConfirmAdmin, HandleAdminToggle,
      ConfirmDeleteNode, HandleDeleteNode
  <2>2. UNCHANGED <<headscaleVars, storeVars>> /\ Event
    BY <2>1, Zenon DEF Click
  <2> QED BY <2>2, QuietStep, Zenon
<1>3. CASE \E u \in Name : PollStarts(u) \/ KeyExpires(u)
  <2>1. UNCHANGED vars
    BY <1>3, Zenon DEF PollStarts, KeyExpires
  <2> QED BY <2>1, Zenon
<1>4. ASSUME NEW i \in InFlight, Handled(i) \/ CallFails(i)
      PROVE  Next
  BY <1>4, HandledIsStoreStep, Zenon
<1>5. ASSUME NEW i \in InFlight, Ends(i)
      PROVE  UNCHANGED vars
  BY <1>5, Zenon DEF Ends, RefreshEnds, CreateUserEnds, GenerateKeyEnds, DeleteEnds,
    AdminToggleEnds, DeleteNodeEnds, PollEnds, OnPageOnly
<1>6. CASE Restart
  BY <1>6, Zenon DEF Restart, Next, OtherStep
<1>7. CASE OthersStep
  <2>1. CASE \E n \in Node : Event /\ DeleteNode(n) /\ UNCHANGED storeVars
    BY <2>1, Zenon DEF Next, HeadscaleStep
  <2>2. CASE \E s \in Server, c \in Name \cup {Local}, n \in Name :
                OtherGrants(s, c, n) \/ OtherRevokes(s, c, n)
    BY <2>2, Zenon DEF Next, OtherStep
  <2>3. CASE \E n \in Node, u \in Name : DeviceRegisters(n, u)
    BY <2>3, Zenon DEF Next, OtherStep
  <2>4. CASE \E s \in Server : ServerStep(s)
    BY <2>4, Zenon DEF Next
  <2> QED BY <1>7, <2>1, <2>2, <2>3, <2>4, Zenon DEF OthersStep
<1>8. CASE UNCHANGED allVars
  BY <1>8, Zenon DEF allVars
<1> QED BY <1>1, <1>2, <1>3, <1>4, <1>5, <1>6, <1>7, <1>8, Zenon DEF PageNext

----
(* Every step of the page *)

LEMMA PageInitial == PageInit => PInv
<1> SUFFICES ASSUME PageInit PROVE PInv
  OBVIOUS
<1>1. IInv
  BY Initial, Zenon DEF PageInit
<1>2. CallsOK /\ \A i \in 1..MaxCalls : calls[i] = None
  BY Zenon DEF PageInit, CallsOK
<1>3. ControlsOK
  <2>1. Row \in RowType /\ NodeRow \in NodeRowType
    BY DEF Row, RowType, NodeRow, NodeRowType
  <2>2. [users |-> {}, nodes |-> {}, admins |-> {}] \in Lists
    BY DEF Lists
  <2> QED BY <2>1, <2>2, Zenon DEF PageInit, ControlsOK
<1>4. ASSUME NEW K \in SUBSET GoodCall
      PROVE  ~Some(K) /\ One(K)
  BY <1>2, <1>4, NoCall, Zenon DEF Some, One
<1>5. Creating \in SUBSET GoodCall /\ \A kinds, a : OfRow(kinds, a) \in SUBSET GoodCall
  BY Zenon DEF Creating, OfRow
<1>6. CreateHonest
  BY <1>4, <1>5, Zenon DEF PageInit, CreateHonest
<1>7. KeyHonest
  BY NamesAssumption, Zenon DEF PageInit, KeyHonest
<1>8. \A kinds, a : ~Engaged(kinds, a) /\ Settled(kinds, a)
  BY <1>4, <1>5, Zenon DEF PageInit, RowGranted, Engaged, Settled
<1>9. RowsHonest
  <2>1. ~Row.deleting /\ ~Row.adminBusy /\ ~NodeRow.deleting
    BY DEF Row, NodeRow
  <2> QED BY <1>8, <2>1, Zenon DEF PageInit, RowsHonest
<1> QED BY <1>1, <1>2, <1>3, <1>6, <1>7, <1>9, Zenon DEF PInv, PageOK, Honest

LEMMA PageStepKeeps == PInv /\ [PageNext]_allVars => PInv'
<1> SUFFICES ASSUME PInv, [PageNext]_allVars PROVE PInv'
  OBVIOUS
<1>1. IInv'
  BY PageStepIsStoreStep, StepKeeps, Zenon DEF PInv
<1> SUFFICES PageOK' /\ Honest'
  BY <1>1, Zenon DEF PInv
<1>2. ASSUME NEW i \in InFlight, Handled(i) \/ CallFails(i) \/ Ends(i)
      PROVE  PageOK' /\ Honest'
  <2>1. CASE Handled(i) \/ CallFails(i)
    BY <2>1, HandledHonest, Zenon
  <2>2. CASE RefreshEnds(i)
    BY <2>2, RefreshEndsHonest, Zenon
  <2>3. CASE CreateUserEnds(i) \/ GenerateKeyEnds(i)
    BY <2>3, CreateUserEndsHonest, GenerateKeyEndsHonest, Zenon
  <2>4. CASE DeleteEnds(i) \/ DeleteNodeEnds(i)
    BY <2>4, DeleteEndsHonest, DeleteNodeEndsHonest, Zenon
  <2>5. CASE AdminToggleEnds(i) \/ PollEnds(i)
    BY <2>5, AdminToggleEndsHonest, PollEndsHonest, Zenon
  <2> QED BY <1>2, <2>1, <2>2, <2>3, <2>4, <2>5, Zenon DEF Ends
<1>3. CASE Me \/ Restart
  BY <1>3, MeHonest, RestartHonest, Zenon
<1>4. CASE UserStep
  <2>1. ASSUME NEW u \in Name,
               HandleCreateUser(u) \/ OnToggleOnboarding(u) \/ OnRegenerateKey(u)
        PROVE  PageOK' /\ Honest'
    BY <2>1, CreateUserHonest, OnboardingHonest, Zenon
  <2>2. ASSUME NEW u \in Name, HandleDelete(u) \/ HandleAdminToggle(u)
        PROVE  PageOK' /\ Honest'
    BY <2>2, DeleteHonest, AdminToggleHonest, Zenon
  <2>3. ASSUME NEW n \in Node, HandleDeleteNode(n)
        PROVE  PageOK' /\ Honest'
    BY <2>3, DeleteNodeHonest, Zenon
  <2>4. CASE \/ \E u \in Name : ConfirmDelete(u) \/ ConfirmAdmin(u)
             \/ \E n \in Node : ConfirmDeleteNode(n)
    BY <2>4, ConfirmHonest, Zenon
  <2> QED BY <1>4, <2>1, <2>2, <2>3, <2>4, Zenon DEF UserStep
<1>5. ASSUME NEW u \in Name, PollStarts(u)
      PROVE  PageOK' /\ Honest'
  BY <1>5, PollStartsHonest, Zenon
<1>6. CASE (\E u \in Name : KeyExpires(u)) \/ OthersStep \/ UNCHANGED allVars
  <2>1. UNCHANGED <<shown, creating, generatingKey, baseline, row, nodeRow, calls, granted>>
    BY <1>6, Zenon DEF KeyExpires, OthersStep, allVars, pageVars
  <2> QED BY <2>1, ElsewhereHonest, Zenon
<1> QED BY <1>2, <1>3, <1>4, <1>5, <1>6, Zenon DEF PageNext

LEMMA PageInvariant == PageSpec => []PInv
<1>1. PageInit => PInv
  BY PageInitial
<1>2. PInv /\ [PageNext]_allVars => PInv'
  BY PageStepKeeps
<1> QED BY <1>1, <1>2, PTL DEF PageSpec

\* The page is one way to use the portal: whatever is clicked, lost, answered late
\* or cut off by a restart, the servers, admins.json and Headscale only do what
\* AdminStore says, so what is proved of it holds with the page as well (the
\* requests of Users.tsx against portal.go's handlers).
THEOREM PageUsesStore == PageSpec => Spec
<1>1. PageInit => Init
  BY Zenon DEF PageInit
<1>2. PInv /\ [PageNext]_allVars => [Next]_vars
  BY PageStepIsStoreStep
<1> QED BY <1>1, <1>2, PageInvariant, PTL DEF PageSpec, Spec

\* So with the page the types hold, a saved grant is kept, and the last name
\* remains (store.go:61-123 under the requests of Users.tsx).
THEOREM StoreSafeUnderPage == PageSpec => []TypeOK /\ []GrantsKept /\ AdminRemains
BY PageUsesStore, TypeCorrect, SavedGrantsKept, LastAdminRemains, PTL

LEMMA HonestControls == PInv => ControlsHonest
<1> SUFFICES ASSUME PInv PROVE ControlsHonest
  OBVIOUS
<1>1. \A i \in 1..MaxCalls : calls[i] \in GoodCall \cup {None}
  BY Zenon DEF PInv, PageOK, CallsOK
<1>2. (Some(Creating) <=> Adding # {}) /\ (One(Creating) => AtMostOne(Adding))
  <2>1. \A i \in 1..MaxCalls : calls[i] \in Creating <=> i \in Adding
    BY <1>1, NoCall, Zenon DEF Creating, Adding, InFlight
  <2>2. \A i \in Adding : i \in 1..MaxCalls
    BY Zenon DEF Adding, InFlight
  <2> QED BY <2>1, <2>2, Zenon DEF Some, One, AtMostOne
<1>3. \A u : Some(KeyFor(u)) <=> Pending("createKey", u)
  BY <1>1, NoCall, Zenon DEF Some, KeyFor, Pending, InFlight
<1>4. ASSUME NEW kinds, NEW a
      PROVE  /\ Some(OfRow(kinds, a)) <=> RowCalls(kinds, a) # {}
             /\ One(OfRow(kinds, a)) => AtMostOne(RowCalls(kinds, a))
  <2>1. \A i \in 1..MaxCalls : calls[i] \in OfRow(kinds, a) <=> i \in RowCalls(kinds, a)
    BY <1>1, NoCall, Zenon DEF OfRow, RowCalls, InFlight
  <2>2. \A i \in RowCalls(kinds, a) : i \in 1..MaxCalls
    BY Zenon DEF RowCalls, InFlight
  <2> QED BY <2>1, <2>2, Zenon DEF Some, One, AtMostOne
<1>5. generatingKey # None => Pending("createKey", generatingKey)
  BY <1>3, Zenon DEF PInv, PageOK, ControlsOK, Honest, KeyHonest
<1>6. ASSUME NEW kinds, NEW a, NEW disabled, disabled <=> Engaged(kinds, a), Settled(kinds, a)
      PROVE  RowHonest(disabled, kinds, a)
  BY <1>4, <1>6, Zenon DEF Engaged, Settled, RowHonest
<1>7. /\ \A u \in Name : /\ RowHonest(row[u].deleting, {"deleteUser"}, u)
                         /\ RowHonest(row[u].adminBusy, {"grantAdmin", "revokeAdmin"}, u)
      /\ \A n \in Node : RowHonest(nodeRow[n].deleting, {"deleteNode"}, n)
  BY <1>6, Zenon DEF PInv, Honest, RowsHonest, Deleting, Toggling, Removing
<1>8. (creating <=> Adding # {}) /\ AtMostOne(Adding)
  BY <1>2, Zenon DEF PInv, Honest, CreateHonest
<1> QED BY <1>5, <1>7, <1>8, Zenon DEF ControlsHonest

\* With any number of users, devices and requests in flight, of the requests a
\* control for adding, deleting, granting or revoking stands for there is at most
\* one, and the control is disabled exactly while it is under way or, in a row
\* still mounted, once it has succeeded, whatever is lost or overlaps; and no
\* panel waits for a key that nobody generates (handleCreateUser,
\* handleGenerateKey, handleDelete and handleAdminToggle in Users.tsx).
THEOREM ControlsStayHonest == PageSpec => []ControlsHonest
BY PageInvariant, HonestControls, PTL

====
