---- MODULE PortalUsers ----
(* The portal's page of users and devices in one browser (Users.tsx, with the
   gate of Layout.tsx and the requests of api/client.ts) and the two portal
   servers and Headscale behind it (AdminStore).  A click or an answer is one
   step: React batches the state it sets, and JavaScript runs to the next await.
   Requests are in flight between: they are let in, worked on and answered in any
   order, and an answer may be lost.  Left out are the texts shown, the tagged
   devices (the same NodeRow once more) and the row of the system user, which has
   no controls. *)
EXTENDS AdminStore

CONSTANTS
    Viewer,     \* who looks at the page: Local or a user on the tailnet
    portal,     \* and the server they reach
    MaxCalls    \* bound on requests of the page in flight

ASSUME PageAssumption ==
    /\ Viewer \in Name \cup {Local} /\ portal \in Server /\ Reaches(Viewer, portal)
    /\ MaxCalls \in Nat \ {0}

VARIABLES
    me,             \* Layout's currentUser: "loading", "admin" or "restricted"
    loading,
    shown,          \* users, nodes and adminNames as last fetched
    creating,
    onboardingUser,
    keyData,        \* per user: no key, or one that is "live" or "expired"
    generatingKey,
    baseline,       \* baselineIds of the OnboardPanel that is mounted, or None
    row,            \* the state of each UserRow
    nodeRow,        \* and NodeRow
    calls,          \* the requests in flight
    granted         \* history: the rows' requests that were answered with success

pageVars == <<me, loading, shown, creating, onboardingUser, keyData,
              generatingKey, baseline, row, nodeRow, calls, granted>>
panelVars == <<onboardingUser, keyData, generatingKey, baseline>>
allVars == <<vars, pageVars>>

Call(kind, arg) ==
    [kind |-> kind, arg |-> arg, at |-> "sent", mounted |-> TRUE,
     users |-> None, nodes |-> None, admins |-> None]
Refresh(then) == Call("refresh", then)

\* The requests there are; "admitted", "found" and "listed" are stages of a handler.
CallRecord ==
    [kind : {"refresh", "createUser", "createKey", "deleteUser", "grantAdmin",
             "revokeAdmin", "deleteNode", "poll"},
     arg : Name \cup Node \cup {None},
     at : {"sent", "admitted", "found", "listed", "done", "failed"}, mounted : BOOLEAN,
     users : {None} \cup SUBSET Name, admins : {None} \cup SUBSET Name,
     nodes : {None} \cup SUBSET (Node \cup (Node \X Name))]

ASSUME CallAssumption == None \notin CallRecord

Row == [confirmDelete |-> FALSE, deleting |-> FALSE, confirmAdmin |-> None, adminBusy |-> FALSE]
NodeRow == [confirmDelete |-> FALSE, deleting |-> FALSE]

PageInit ==
    /\ Init
    /\ me = "loading" /\ loading = TRUE
    /\ shown = [users |-> {}, nodes |-> {}, admins |-> {}]
    /\ creating = FALSE /\ onboardingUser = None
    /\ keyData = [u \in Name |-> None] /\ generatingKey = None /\ baseline = None
    /\ row = [u \in Name |-> Row] /\ nodeRow = [n \in Node |-> NodeRow]
    /\ calls = [i \in 1..MaxCalls |-> None] /\ granted = {}

InFlight == {i \in 1..MaxCalls : calls[i] # None}
Pending(kind, arg) ==
    \E i \in InFlight : calls[i].kind = kind /\ calls[i].arg = arg

\* fetch.  Of the free places in calls the first is taken.
Sends(c) ==
    \E i \in (1..MaxCalls) \ InFlight :
       /\ \A j \in 1..(i - 1) : j \in InFlight
       /\ calls' = [calls EXCEPT ![i] = c]

\* OnboardPanel is mounted in the row of onboardingUser, if there is one, and
\* takes the row's nodes for its baseline when it is; the slip takes them anew
\* each time it is rendered.
IdsOf(list, u) == {p[1] : p \in {q \in list : q[2] = u}}
PanelRerendered(open, list) ==
    baseline' = IF open \in list.users THEN IdsOf(list.nodes, open) ELSE None
Panel(open, list) ==
    baseline' = IF open \notin list.users THEN None
                ELSE IF open = onboardingUser /\ open \in shown.users THEN baseline
                ELSE IdsOf(list.nodes, open)

\* handleGenerateKey up to its await.
GeneratesKey(u, list) ==
    /\ onboardingUser' = u /\ generatingKey' = u
    /\ keyData' = [keyData EXCEPT ![u] = None]
    /\ Panel(u, list)

ClosesPanel ==
    /\ onboardingUser' = None /\ Panel(None, shown)
    /\ UNCHANGED <<keyData, generatingKey>>

----
(* Clicks *)

MayAsk == AdminOnly(portal, Viewer)

\* What there is to click on: the page has loaded for an administrator.
Click ==
    /\ me = "admin" /\ ~loading
    /\ Event
    /\ UNCHANGED <<headscaleVars, storeVars, me, loading, shown, granted>>

\* Layout asks /api/me once and shows the page to administrators only.
Me ==
    /\ me = "loading" /\ boot[portal] # "off"
    /\ \/ /\ Viewer = Local \/ (Serving(portal) /\ MayAsk)
          /\ me' = "admin" /\ Sends(Refresh(None)) /\ UNCHANGED events
       \/ /\ Viewer # Local /\ ~(Serving(portal) /\ MayAsk)
          /\ me' = "restricted" /\ UNCHANGED <<calls, events>>
       \/ Event /\ me' = "restricted" /\ UNCHANGED calls
    /\ UNCHANGED <<headscaleVars, storeVars, loading, shown, creating, panelVars, row, nodeRow, granted>>

HandleCreateUser(u) ==
    /\ Click /\ ~creating /\ creating' = TRUE
    /\ Sends(Call("createUser", u))
    /\ UNCHANGED <<panelVars, row, nodeRow>>

\* "+ Add device" and Close; Regenerate and Cancel are in the panel once it has
\* a key.
OnToggleOnboarding(u) ==
    /\ Click /\ u \in shown.users
    /\ IF onboardingUser = u
         THEN ClosesPanel /\ UNCHANGED calls
         ELSE GeneratesKey(u, shown) /\ Sends(Call("createKey", u))
    /\ UNCHANGED <<creating, row, nodeRow>>

OnRegenerateKey(u) ==
    /\ Click /\ baseline # None /\ onboardingUser = u
    /\ generatingKey # u /\ keyData[u] # None
    /\ GeneratesKey(u, shown) /\ Sends(Call("createKey", u))
    /\ UNCHANGED <<creating, row, nodeRow>>

\* Delete, its Yes and its Cancel, which are not there while the panel is open.
Deletable(u) == Click /\ u \in shown.users /\ onboardingUser # u

ConfirmDelete(u) ==
    /\ Deletable(u)
    /\ row' = [row EXCEPT ![u].confirmDelete = ~@]
    /\ UNCHANGED <<creating, panelVars, nodeRow, calls>>

HandleDelete(u) ==
    /\ Deletable(u) /\ row[u].confirmDelete /\ ~row[u].deleting
    /\ row' = [row EXCEPT ![u].deleting = TRUE]
    /\ Sends(Call("deleteUser", u))
    /\ UNCHANGED <<creating, panelVars, nodeRow>>

\* The admin badge, dead for the viewer's own row and for the last
\* administrator shown; its Yes and Cancel stay whatever is fetched meanwhile.
BadgeDisabled(u) ==
    u = Viewer \/ (u \in shown.admins /\ Cardinality(shown.admins) <= 1)

ConfirmAdmin(u) ==
    /\ Click /\ u \in shown.users
    /\ \/ /\ row[u].confirmAdmin = None /\ ~BadgeDisabled(u)
          /\ row' = [row EXCEPT ![u].confirmAdmin =
                        IF u \in shown.admins THEN "revoke" ELSE "grant"]
       \/ /\ row[u].confirmAdmin # None
          /\ row' = [row EXCEPT ![u].confirmAdmin = None]
    /\ UNCHANGED <<creating, panelVars, nodeRow, calls>>

\* What Yes does is decided by isAdmin as it is now, not by the question asked.
HandleAdminToggle(u) ==
    /\ Click /\ u \in shown.users
    /\ row[u].confirmAdmin # None /\ ~row[u].adminBusy
    /\ row' = [row EXCEPT ![u].adminBusy = TRUE]
    /\ Sends(Call(IF u \in shown.admins THEN "revokeAdmin" ELSE "grantAdmin", u))
    /\ UNCHANGED <<creating, panelVars, nodeRow>>

\* The same for a device.
NodeShown(n) == \E u \in shown.users : <<n, u>> \in shown.nodes

ConfirmDeleteNode(n) ==
    /\ Click /\ NodeShown(n)
    /\ nodeRow' = [nodeRow EXCEPT ![n].confirmDelete = ~@]
    /\ UNCHANGED <<creating, panelVars, row, calls>>

HandleDeleteNode(n) ==
    /\ Click /\ NodeShown(n)
    /\ nodeRow[n].confirmDelete /\ ~nodeRow[n].deleting
    /\ nodeRow' = [nodeRow EXCEPT ![n].deleting = TRUE]
    /\ Sends(Call("deleteNode", n))
    /\ UNCHANGED <<creating, panelVars, row>>

UserStep ==
    \/ \E u \in Name : \/ HandleCreateUser(u) \/ OnToggleOnboarding(u) \/ OnRegenerateKey(u)
                       \/ ConfirmDelete(u) \/ HandleDelete(u)
                       \/ ConfirmAdmin(u) \/ HandleAdminToggle(u)
    \/ \E n \in Node : ConfirmDeleteNode(n) \/ HandleDeleteNode(n)
----
(* The panel's clock *)

\* The effect of OnboardPanel polls while it has a key that has not expired (as a
\* bound, not again for the user before the last poll was answered).
Polling(u) == onboardingUser = u /\ baseline # None /\ keyData[u] = "live"

PollStarts(u) ==
    /\ Polling(u) /\ ~Pending("poll", u)
    /\ Sends([Call("poll", u) EXCEPT !.nodes = baseline])
    /\ UNCHANGED <<vars, me, loading, shown, creating, panelVars, row, nodeRow, granted>>

KeyExpires(u) ==
    /\ keyData[u] = "live"
    /\ keyData' = [keyData EXCEPT ![u] = "expired"]
    /\ UNCHANGED <<vars, me, loading, shown, creating, onboardingUser,
                   generatingKey, baseline, row, nodeRow, calls, granted>>

----
(* A request at the server *)

\* The request in place i is now c, and nothing has changed on the page.
Becomes(i, c) ==
    /\ calls' = [calls EXCEPT ![i] = c]
    /\ UNCHANGED <<me, loading, shown, creating, panelVars, row, nodeRow, granted>>
GoesTo(i, at) == Becomes(i, [calls[i] EXCEPT !.at = at])
Quiet == UNCHANGED <<headscaleVars, storeVars, events>>

Sent(i, kind) == calls[i].at = "sent" /\ calls[i].kind = kind /\ MayAsk

\* The middleware: one step with the handler's first call to Headscale; the
\* handlers of /api/admins come after it, when the store may have changed.
Refused(i) ==
    /\ calls[i].at = "sent" /\ boot[portal] # "off" /\ ~MayAsk
    /\ GoesTo(i, "failed") /\ Quiet

Admitted(i) ==
    /\ Sent(i, "grantAdmin") \/ Sent(i, "revokeAdmin")
    /\ GoesTo(i, "admitted") /\ Quiet

\* The three requests of refresh, each answered at a time of its own (in one
\* order of the six: nothing on the page relates one list to another).
ReadLists(i) ==
    /\ Sent(i, "refresh")
    /\ LET c == calls[i] IN
       \/ c.users = None /\ Becomes(i, [c EXCEPT !.users = UserNames])
       \/ c.users # None /\ c.nodes = None /\ Becomes(i, [c EXCEPT !.nodes = nodes])
       \/ /\ c.nodes # None /\ c.admins = None
          /\ Becomes(i, [c EXCEPT !.at = "done",
                                  !.admins = IF Serving(portal) THEN store[portal] ELSE {}])
    /\ Quiet

ReadPoll(i) ==
    /\ Sent(i, "poll")
    /\ IF IdsOf(nodes, calls[i].arg) \subseteq calls[i].nodes
         THEN Becomes(i, None) ELSE GoesTo(i, "done")
    /\ Quiet

\* Create and the handlers of one call to Headscale that changes it (that of keys
\* looks the user up before, in the same step).
Created(i) ==
    /\ Sent(i, "createUser")
    /\ IF calls[i].arg \in known
         THEN GoesTo(i, "failed") /\ Quiet
         ELSE CreateUser(calls[i].arg) /\ GoesTo(i, "done") /\ UNCHANGED <<storeVars, events>>

KeyCreated(i) ==
    /\ Sent(i, "createKey")
    /\ GoesTo(i, IF calls[i].arg \in UserNames THEN "done" ELSE "failed")
    /\ Quiet

NodeDeleted(i) ==
    /\ Sent(i, "deleteNode")
    /\ IF \E u \in Name : <<calls[i].arg, u>> \in nodes
         THEN DeleteNode(calls[i].arg) /\ GoesTo(i, "done") /\ UNCHANGED <<storeVars, events>>
         ELSE GoesTo(i, "failed") /\ Quiet

\* DeleteUser: look the user up, list the nodes, delete theirs one by one, and
\* then the user.  It stops at the first call that fails.
UserFound(i) ==
    /\ Sent(i, "deleteUser")
    /\ GoesTo(i, IF calls[i].arg \in UserNames THEN "found" ELSE "failed")
    /\ Quiet

NodesListed(i) ==
    /\ calls[i].at = "found"
    /\ Becomes(i, [calls[i] EXCEPT !.at = "listed", !.nodes = IdsOf(nodes, calls[i].arg)])
    /\ Quiet

UserNodeDeleted(i) ==
    /\ calls[i].at = "listed"
    /\ \E n \in calls[i].nodes :
          IF \E u \in Name : <<n, u>> \in nodes
            THEN /\ DeleteNode(n) /\ UNCHANGED <<storeVars, events>>
                 /\ Becomes(i, [calls[i] EXCEPT !.nodes = @ \ {n}])
            ELSE GoesTo(i, "failed") /\ Quiet

UserDeleted(i) ==
    /\ calls[i].at = "listed" /\ calls[i].nodes = {}
    /\ LET u == calls[i].arg IN
       IF u \in UserNames /\ IdsOf(nodes, u) = {}
         THEN DestroyUser(u) /\ GoesTo(i, "done") /\ UNCHANGED <<storeVars, events>>
         ELSE GoesTo(i, "failed") /\ Quiet

AdminGranted(i) ==
    /\ calls[i].at = "admitted" /\ calls[i].kind = "grantAdmin"
    /\ UNCHANGED headscaleVars
    /\ LET n == calls[i].arg IN
       \/ Grant(portal, n) /\ GoesTo(i, "done") /\ UNCHANGED events
       \/ GrantFails(portal, n) /\ GoesTo(i, "failed")
       \/ GrantRefused(portal) /\ GoesTo(i, "failed") /\ UNCHANGED <<storeVars, events>>

AdminRevoked(i) ==
    /\ calls[i].at = "admitted" /\ calls[i].kind = "revokeAdmin"
    /\ UNCHANGED headscaleVars
    /\ LET n == calls[i].arg IN
       \/ Revoke(portal, Viewer, n) /\ GoesTo(i, "done") /\ UNCHANGED events
       \/ RevokeFails(portal, Viewer, n) /\ GoesTo(i, "failed")
       \/ /\ RevokeRefused(portal, Viewer, n)
          /\ GoesTo(i, "failed") /\ UNCHANGED <<storeVars, events>>

\* The request does not arrive, Headscale does not answer it, or its answer is lost.
CallFails(i) ==
    /\ calls[i].at \in {"sent", "admitted", "found", "listed", "done"}
    /\ Event /\ GoesTo(i, "failed")
    /\ UNCHANGED <<headscaleVars, storeVars>>

Handled(i) ==
    \/ Admitted(i) \/ Refused(i) \/ ReadLists(i) \/ ReadPoll(i)
    \/ Created(i) \/ KeyCreated(i) \/ NodeDeleted(i)
    \/ UserFound(i) \/ NodesListed(i) \/ UserNodeDeleted(i) \/ UserDeleted(i)
    \/ AdminGranted(i) \/ AdminRevoked(i)

\* A restart of the sidecar takes the requests it was working on with it.
Restart ==
    /\ SidecarRestart
    /\ calls' = [i \in 1..MaxCalls |->
                   IF calls[i] # None /\ calls[i].at # "done"
                   THEN [calls[i] EXCEPT !.at = "failed"] ELSE calls[i]]
    /\ UNCHANGED <<me, loading, shown, creating, panelVars, row, nodeRow, granted>>
----
(* Answers *)

Answered(i, kind) == i \in InFlight /\ calls[i].kind = kind
Succeeds(i) == calls[i].at = "done"
Fails(i) == calls[i].at = "failed"
OnPageOnly == UNCHANGED <<vars, me>>

\* What goes on in place i once its request is answered: nothing, or what the
\* handler requests next.
Then(i, c) == calls' = [calls EXCEPT ![i] = c]

\* Rows whose user or device is no longer listed are unmounted: their state is
\* gone, and what their requests set when answered goes nowhere.
Listed(list, c) ==
    CASE c.kind \in {"deleteUser", "grantAdmin", "revokeAdmin"} -> c.arg \in list.users
      [] c.kind = "deleteNode" -> \E u \in list.users : <<c.arg, u>> \in list.nodes
      [] OTHER -> TRUE
Rerendered(list) ==
    /\ row' = [u \in Name |-> IF u \in list.users THEN row[u] ELSE Row]
    /\ nodeRow' = [n \in Node |-> IF \E u \in list.users : <<n, u>> \in list.nodes
                                  THEN nodeRow[n] ELSE NodeRow]
    /\ granted' = {c \in granted : Listed(list, c)}
Unmounted(list) ==
    [i \in 1..MaxCalls |->
        IF calls[i] # None /\ ~Listed(list, calls[i])
        THEN [calls[i] EXCEPT !.mounted = FALSE] ELSE calls[i]]

\* refresh ends, and handleCreateUser with it if that is who awaits it; it never
\* fails for its caller.
RefreshEnds(i) ==
    /\ Answered(i, "refresh") /\ (Succeeds(i) \/ Fails(i))
    /\ LET then == calls[i].arg
           list == IF Fails(i) THEN shown
                   ELSE [users |-> calls[i].users, nodes |-> calls[i].nodes,
                         admins |-> calls[i].admins]
       IN /\ shown' = list /\ loading' = FALSE
          /\ Rerendered(list)
          /\ IF then = None
               THEN /\ calls' = [Unmounted(list) EXCEPT ![i] = None]
                    /\ Panel(onboardingUser, list)
                    /\ UNCHANGED <<creating, onboardingUser, keyData, generatingKey>>
               ELSE /\ calls' = [Unmounted(list) EXCEPT ![i] = Call("createKey", then)]
                    /\ GeneratesKey(then, list) /\ creating' = FALSE
    /\ OnPageOnly

CreateUserEnds(i) ==
    /\ Answered(i, "createUser")
    /\ \/ Succeeds(i) /\ Then(i, Refresh(calls[i].arg)) /\ UNCHANGED creating
       \/ Fails(i) /\ Then(i, None) /\ creating' = FALSE
    /\ OnPageOnly
    /\ UNCHANGED <<loading, shown, panelVars, row, nodeRow, granted>>

GenerateKeyEndsStuck(i) ==
    /\ Answered(i, "createKey") /\ Then(i, None)
    /\ \/ /\ Succeeds(i) /\ generatingKey' = None
          /\ keyData' = [keyData EXCEPT ![calls[i].arg] = "live"]
       \/ Fails(i) /\ UNCHANGED <<keyData, generatingKey>>
    /\ OnPageOnly
    /\ UNCHANGED <<loading, shown, creating, onboardingUser, baseline, row, nodeRow, granted>>
GenerateKeyEnds(i) ==
    /\ Answered(i, "createKey") /\ Then(i, None)
    /\ generatingKey' = None
    /\ \/ Succeeds(i) /\ keyData' = [keyData EXCEPT ![calls[i].arg] = "live"]
       \/ Fails(i) /\ UNCHANGED keyData
    /\ OnPageOnly
    /\ UNCHANGED <<loading, shown, creating, onboardingUser, baseline, row, nodeRow, granted>>

\* A row's request succeeded, and the lists are fetched again.
RowDone(i) ==
    /\ Succeeds(i) /\ Then(i, Refresh(None))
    /\ granted' = IF calls[i].mounted
                  THEN granted \cup {[kind |-> calls[i].kind, arg |-> calls[i].arg]}
                  ELSE granted

DeleteEnds(i) ==
    /\ Answered(i, "deleteUser")
    /\ LET u == calls[i].arg IN
       \/ RowDone(i) /\ UNCHANGED row
       \/ /\ Fails(i) /\ Then(i, None) /\ UNCHANGED granted
          /\ row' = IF calls[i].mounted
                    THEN [row EXCEPT ![u].deleting = FALSE, ![u].confirmDelete = FALSE]
                    ELSE row
    /\ OnPageOnly
    /\ UNCHANGED <<loading, shown, creating, panelVars, nodeRow>>

\* On success adminBusy stays set.
AdminToggleEnds(i) ==
    /\ Answered(i, "grantAdmin") \/ Answered(i, "revokeAdmin")
    /\ LET u == calls[i].arg IN
       \/ /\ RowDone(i)
          /\ row' = IF calls[i].mounted THEN [row EXCEPT ![u].confirmAdmin = None] ELSE row
       \/ /\ Fails(i) /\ Then(i, None) /\ UNCHANGED granted
          /\ row' = IF calls[i].mounted THEN [row EXCEPT ![u].adminBusy = FALSE] ELSE row
    /\ OnPageOnly
    /\ UNCHANGED <<loading, shown, creating, panelVars, nodeRow>>

DeleteNodeEnds(i) ==
    /\ Answered(i, "deleteNode")
    /\ LET n == calls[i].arg IN
       \/ RowDone(i) /\ UNCHANGED nodeRow
       \/ /\ Fails(i) /\ Then(i, None) /\ UNCHANGED granted
          /\ nodeRow' = IF calls[i].mounted THEN [nodeRow EXCEPT ![n] = NodeRow] ELSE nodeRow
    /\ OnPageOnly
    /\ UNCHANGED <<loading, shown, creating, panelVars, row>>

\* A poll that has found a device closes the panel that is open by now.
PollEnds(i) ==
    /\ Answered(i, "poll")
    /\ \/ Succeeds(i) /\ Then(i, Refresh(None)) /\ ClosesPanel
       \/ Fails(i) /\ Then(i, None) /\ UNCHANGED panelVars
    /\ OnPageOnly
    /\ UNCHANGED <<loading, shown, creating, row, nodeRow, granted>>

Ends(i) ==
    \/ RefreshEnds(i) \/ CreateUserEnds(i) \/ GenerateKeyEnds(i) \/ DeleteEnds(i)
    \/ AdminToggleEnds(i) \/ DeleteNodeEnds(i) \/ PollEnds(i)

----
(* The specification *)

\* Steps off the page: other administrators, the servers, and a device that
\* registers with a key the page has shown.
OthersStep ==
    /\ \/ \E n \in Node : Event /\ DeleteNode(n) /\ UNCHANGED storeVars
       \/ \E s \in Server, c \in Name \cup {Local}, n \in Name :
             OtherGrants(s, c, n) \/ OtherRevokes(s, c, n)
       \/ \E n \in Node, u \in Name : keyData[u] = "live" /\ DeviceRegisters(n, u)
       \/ \E s \in Server : ServerStep(s)
    /\ UNCHANGED pageVars

PageNext ==
    \/ Me \/ UserStep
    \/ \E u \in Name : PollStarts(u) \/ KeyExpires(u)
    \/ \E i \in InFlight : Handled(i) \/ CallFails(i) \/ Ends(i)
    \/ Restart \/ OthersStep

\* The servers come up and answer, and the browser runs its callbacks and timers;
\* nobody has to open the page or to click, and no failure has to happen.
PageFairness ==
    /\ \A s \in Server : WF_allVars(ServerStep(s) /\ UNCHANGED pageVars)
    /\ \A i \in 1..MaxCalls : WF_allVars(i \in InFlight /\ (Handled(i) \/ Ends(i)))
    /\ WF_allVars(\E u \in Name : PollStarts(u))

PageSpec == PageInit /\ [][PageNext]_allVars /\ PageFairness

----
(* Properties *)

\* What handleCreateUser awaits, what a mounted row awaits, and what it was granted.
Adding ==
    {i \in InFlight : \/ calls[i].kind = "createUser"
                      \/ calls[i].kind = "refresh" /\ calls[i].arg # None}
RowCalls(kinds, arg) ==
    {i \in InFlight : calls[i].kind \in kinds /\ calls[i].arg = arg /\ calls[i].mounted}
RowGranted(kinds, arg) == \E k \in kinds : [kind |-> k, arg |-> arg] \in granted
AtMostOne(S) == \A i, j \in S : i = j

RowHonest(disabled, kinds, arg) ==
    /\ disabled <=> RowCalls(kinds, arg) # {} \/ RowGranted(kinds, arg)
    /\ AtMostOne(RowCalls(kinds, arg))
    /\ RowGranted(kinds, arg) => RowCalls(kinds, arg) = {}

\* Adding a user, deleting a user or a device and granting or revoking: the
\* control is disabled while its one request is in flight, so that none is sent
\* twice, and comes back when that fails, its answer is lost or its row is
\* unmounted. After a success it stays disabled as long as the row is mounted,
\* the admin badge's Yes too, for which there would be more to do: after a grant
\* or a revocation handleAdminToggle leaves adminBusy set. Of a key only this: a
\* panel does not go on saying that one is being generated once no request for
\* that user is left. It may stop too early, and a second key be asked for,
\* because all users share generatingKey (the try, catch and finally of the
\* handlers in Users.tsx).
ControlsHonest ==
    /\ (creating <=> Adding # {}) /\ AtMostOne(Adding)
    /\ generatingKey # None => Pending("createKey", generatingKey)
    /\ \A u \in Name : /\ RowHonest(row[u].deleting, {"deleteUser"}, u)
                       /\ RowHonest(row[u].adminBusy, {"grantAdmin", "revokeAdmin"}, u)
    /\ \A n \in Node : RowHonest(nodeRow[n].deleting, {"deleteNode"}, n)

\* A device that registers while the panel waits for it is noticed: the panel does
\* not go on waiting, whatever else is fetched meanwhile, as long as its key lives,
\* the device stays and the viewer may ask (OnboardPanel's polling effect).
DeviceNoticed ==
    \A n \in Node :
       (\E u \in Name : Polling(u) /\ <<n, u>> \in nodes /\ n \notin baseline)
          ~> (~MayAsk \/ \A u \in Name : ~Polling(u) \/ <<n, u>> \notin nodes)
====
