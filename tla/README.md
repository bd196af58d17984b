# Verification of HeadFwd

TLA+ specifications of HeadFwd, model-checked with TLC and, for the central
components, proved with TLAPS. Modules are named after the parts of the code
they model and keep its names; `PROJECT.json` maps every definition to lines.

## The system

A Headscale server without a public address is reached through a relay. The
**sidecar** beside Headscale registers its key at the **relay**, gets a tunnel
secret, and keeps a websocket *tunnel* open. Clients talk to the relay at
`<fingerprint>.headfwd.net`; the relay passes their requests and TS2021 streams
through the tunnel.

| Part | Source | State | Operations |
|---|---|---|---|
| Fly relay: registration | `headfwd-proxy-fly/main.go`, `registration_crypto.go` | `challenges`, `registrations` | `register/init`, `register/verify`, restart |
| Fly relay: tunnel | `headfwd-proxy-fly/main.go` | `tunnels`, `pending`, response channels | `handleTunnel`, `readTunnel`, `forwardHTTP` |
| Fly relay: streams | `headfwd-proxy-fly/main.go` | `streams` | `handleStreamUpgrade`, `relayClientToTunnel`, `removeStream` |
| Fly relay: rate limiter | `headfwd-proxy-fly/ratelimit.go` | `buckets` | `allow`, `reap` |
| Sidecar: registration, tunnel loop | `headfwd-sidecar/main.go` | tunnel URL, connection, `streamConns` | `registerWithProxy`, `runTunnel`, `handleRequest`, `handleWs*` |
| Sidecar: Headscale set-up, tailnet node | `headfwd-sidecar/main.go` | `config.yaml`, tsnet state | `updateServerURL`, `startTsnetNode` |
| Portal | `headfwd-sidecar/portal/` | admin stores and `admins.json`, node cache | admin, user and key handlers, `Bootstrap`, upstream proxy |
| Cloudflare relay: Worker | `headfwd-proxy/src/index.ts` | KV registry, or maps without it | `handleRegister`, `handleRegisterInit`, `handleRegisterVerify` |
| Cloudflare relay: Durable Object | `headfwd-proxy/src/tunnel-do.ts` | `tunnel`, `pendingRequests`, `wsConnections` | `acceptTunnel`, `forwardToHeadscale`, `forwardWebSocket`, `handleTunnelMessage` |
| iOS app | `ios/HeadFwdApp/` | connection state, node, state directory | `connect`, `disconnect`, `clearState`, portal proxy |
| Portal frontend | `headfwd-sidecar/portal/frontend/` | lists shown, rows, onboarding panel | create, delete, grant, revoke, onboard, poll |

What is hard to test: handlers that compute between two critical sections;
connections replaced while their readers and writers live on; timers that race
late answers; goroutines started per message that others overtake; processes
that restart and forget, or meet requests of their own past. `PROJECT.json`
lists these hazards at their lines, with the properties that cover each.

## Modules

| Module | Models | Shape |
|---|---|---|
| `RelayRegistration` | registration handlers of the Fly relay | each handler two actions, one per critical section; a `Caller` is a request goroutine |
| `RelayTunnel` | tunnel, pending map, forwarding; the sidecar's request side; the network | actions per goroutine step; a `Conn` is one websocket connection, with an end on each side |
| `TunnelService` | what relay and sidecar together promise | abstract: a slot, executions, one answer per request |
| `TunnelStreams` | one TS2021 stream, end to end | two queues through the tunnel, goroutines at both ends |
| `TunnelDO` | the Cloudflare relay's Durable Object, plain requests | an action per stretch between two awaits or per event |
| `TunnelDOStreams` | its websocket streams, and the sidecar's end of them | extends `TunnelDO`; the tunnel's steps composed with what they do to streams |
| `WorkerRegistration` | the Worker's registration over KV, and the check in `acceptTunnel` | handlers cut at their awaits; a KV entry is a value and the older ones still readable |
| `AdminStore` | the portal's admin stores, their file, `Bootstrap`, Headscale's users | an action per critical section or network call; a `Server` is one portal |
| `PortalUsers` | the portal's page of users and devices, and the handlers it calls | extends `AdminStore`; a request is a record that moves from the page to the server and back |
| `RateLimiter` | the token bucket of one address | clock reading and locked section are separate actions |
| `SidecarLifecycle` | a sidecar from start to tunnel | extends `RelayRegistration`; its requests are the sidecar's |
| `MC*` | instances for TLC | symmetry sets, the fingerprint function |
| `*Proofs` | theorems | extend the module they are about; `RelayRegistrationProofs` is also about `SidecarLifecycle`, `PortalUsersProofs` also about `AdminStore` |

### Registration

`Init*` actions are `handleRegisterInit`, `Verify*` actions
`handleRegisterVerify`. A challenge carries the time *left* until `ExpiresAt`;
`Tick` counts it down to -1, "strictly past", so that the code's two
comparisons (`Before` in init, `After` in verify) differ at 0 as they do in the
code. Random values are fresh numbers. A proof is a record of its transcript,
which only the holder of the key can form: hash, HKDF and HMAC are taken to be
injective. `grants`, `tries` and `issued` are history.

### Tunnel

Every goroutine of the code is there: `handleTunnel` (`RelayUpgrade`,
`Install`), `readTunnel` (`ReadResponse`, `Deliver`, `ReadPing`, `Pong`,
`ReadFails`, `Retract`), `forwardHTTP` (`Forward*`), and the sidecar's loop and
handlers (`Sidecar*`, `Forwarded`). Messages of different requests are not
ordered. Headscale's answer is either a response or a failure that the sidecar
turns into "bad gateway".

Two things keep a peer from reading. A connection can be cut without notice:
what is sent is lost, and the read deadline (`ReadError`), or TCP for a write,
ends it. And the sidecar's loop can be stuck on a write to Headscale
(`SidecarStalls`) while its ticker goes on pinging: a send to it then blocks with
the connection's mutex held, and so does the reader as soon as it answers a ping,
so that its deadline never comes to bear. `Returns` says when such a write ends.

`TunnelService` knows nothing of connections' ends, goroutines or messages. The
mapping keeps the tunnel entry, whether the relay holds that connection open,
the number of executions, and the answers.

### Streams

One stream suffices: streams share no state but the connection. `ws_open` is
handled concurrently with the messages that follow it, as in the sidecar. A
send on a dead tunnel fails or is lost unnoticed. Assumed: the client sends
nothing before it has its 101.

### Durable Object

`AcceptTunnel` and `RefuseTunnel` are `acceptTunnel` after its KV lookup,
`CloseEvent` its close listener, `Receive` and `ReceiveThrows`
`handleTunnelMessage`, `Forward*` `forwardToHeadscale` before and after the body
is awaited. A response is Headscale's, or the sidecar's own 502 ("bad gateway"),
which leaves open whether the request was executed; an error of the object is
"not sent" or, once the request was sent, "lost". The sidecar leaves a connection at any time and the object learns of
it later or, after an eviction, the other way round. `ReceiveThrows` is the path
into the catch: by then entry and timer are gone, so the promise is `abandoned`.
Whether a response of Headscale can make the runtime's `Response` constructor
throw is not decided; the model allows it. Pings change no state modelled here.

`TunnelDOStreams` adds `forwardWebSocket`, its listeners and the two stream
messages. `Tell` is every send to the sidecar: without a tunnel the code skips
it, on a connection the sidecar has left it is lost. `OpenThrows` is the send of
`ws_open` on a closing socket, which leaves an entry with no listener. The
listener's `await data.arrayBuffer()` is not a cut: with the worker's
compatibility date binary frames are `ArrayBuffer`s. The mutant of
`FramesOrdered` is what the await would do. At the sidecar `handleWsOpen` runs
beside the loop, so that frames may come before the stream is registered; its
streams outlive a reconnect but answer on the connection they were opened on.

### Worker registration

Every handler is cut at its awaits on KV. An entry of KV is the last value put
and a set of older ones that a read may still return until they are
propagated; a call may fail, which leads into the handler's catch. `REGISTRY`
is chosen at the start: with it state is in KV, without it in the Worker's maps,
where `VerifyLocal` is one step. `challenge` and `registration` stand for both.
`Authorised` is what the Durable Object asks of the registration it reads;
without KV it compares with the configured secret only. The legacy endpoint
(`HandleRegister`) registers that secret without a proof, as the code does, so
`RegistrationsProved` is about the registrations of the challenge protocol.
`Registrant` limits the keys that are registered in an instance; challenges and
proofs of the others are there. Proofs are symbolic, as for the Fly relay.

### Portal

The sidecar starts one portal on the LAN and one in the tailnet, each with a
store of its own loaded from the same `admins.json` (`AdminStore`). A save can
fail, leaving the map changed; a write that breaks off leaves a file that does
not parse (`torn`), and the next start then runs without a store. `Bootstrap` is
three steps: the check, the list over the network, the addition.

`PortalUsers` is one viewer in the tailnet. A call is sent by a click or a poll,
passes the middleware, takes a step per request to Headscale, fails anywhere
on the way or succeeds, and its continuation in `Users.tsx` runs when it
returns, in any order with others. Rows are mounted and unmounted with the
lists, so an answer may find its row gone or a new one in its place. `Panel` is
the mount of the onboarding panel, which fixes the baseline the poll compares
with. Creating a key is one step, its lookup of the user's id included: a user
deleted between the two makes it fail, as other failures do. The middleware is
given the caller's address as `extractIP` returns it. Assumed: names and node ids are not used twice; the lists of one refresh
are read in a fixed order; tagged devices and the system user's row are absent.

### Rate limiter

Units of tokens are chosen so that the refill is one unit per tick. `Stall`
bounds the time a goroutine waits between reading the clock and the lock; an
address' idle limit must exceed the time to fill a bucket plus twice that
(`IdleAssumption`; 10 minutes against 20 seconds in the code). `reap`, like
`allow`, reads the clock (`ReapEnter`) before it has the lock (`Reap`).

### Sidecar lifecycle

`registerWithProxy` in its two requests, `main`'s exit on failure, the
container's restart, and the dial loop, conjoined with the relay's own actions:
`LifeNext` is a sidecar's step, a handler's end (`HandlerEnds`), the clock
(`ClockTick`) or a restart of the relay. Requests of a dead sidecar go on at the
relay. Two assumptions on time: handlers end within a tick (`ClockTick`'s guard),
and a proof is not submitted in the very instant its challenge expires
(`NotInItsLastInstant`). Without the second `SecretCurrent` fails: at that
instant init takes the challenge for dead and verify for alive, and a late
grant can replace a newer registration.

## Runs

| Run | Instance | States | Shows |
|---|---|---|---|
| `registration` | 2 callers, 2 keys (one no curve point), 2 fingerprints, TTL 1, 2 attempts, 3 draws | 621,677 | `RegistrationsProved`, `ProofsOnTime`, `AttemptsBounded`, `SpentNonceNeverLive` |
| `registration_nonce` | 2 callers, 1 key | violation | a nonce can buy two registrations |
| `registration_clobber` | 2 callers, 1 key | violation | overlapping inits replace a live challenge |
| `tunnel` | 3 connections, 1 request, 2 failures | 457,931 | `LiveTunnelRoutable`, `PendingOwned`, `ReaderNeverBlocks`, `AnswersTruthful`, refinement of `TunnelService`, `RequestsAnswered`, `Heals` |
| `rate_limiter` | 2 callers, bucket of 2 tokens, 11 ticks | 861,333 | `RateHonoured`, `DenialsEarned`, `BucketsExpire` |
| `lifecycle` | 3 callers, 2 failures, 1 relay restart | 366,590 | `SecretCurrent`, `ComesUpUnlessForgotten` |
| `lifecycle_restart` | 2 callers, 1 relay restart | violation | after a relay restart the sidecar never re-registers |
| `durable_object` | 2 connections, 1 request, 1 stream of 3 frames, 1 failure | 470,928 | `TunnelOpen`, `PendingUnsettled`, `AnswersTruthful`, `StreamsTracked`, `FramesOrdered`, `RequestsSettled`, closes both ways |
| `durable_object_holds` | 2 connections, 1 request, 1 failure | violation | a late close event takes the new tunnel away |
| `streams` | 3 chunks each way | 5,796 | order and closes, both directions |
| `worker_registration` | 2 keys, 1 of them registered, 2 handlers, 2 nonces, 2 secrets, 1 failing call, 1 stale value | 202,146 | `RegistrationsProved`, `SpentNonceNeverLive`, `SecretWorks` |
| `portal` | 2 users, 2 devices, 1 server, 3 calls in flight, 3 events | 172,227 | `AdminRemains`, `GrantsKept`, `ControlsHonest`, `DeviceNoticed` |

Deadlock checking is off where bounded resources legitimately run out
(connections, requests, draws, time, chunks); it is on for the lifecycle.

**Bounds.** Two overlapping requests are what every race in the registration
handlers needs, and three draws a challenge, a registration and one more
challenge. Two attempts let the limit be reached with concurrent requests. Two
connections are an old and a new tunnel, and two failures two of a cut, a crash
and a stuck sidecar;
healing needs a third, since each failure uses one up. One request is enough
for liveness, and what several might do to each other is proved. The Durable
Object's connections are used again once both ends have let go, so two suffice
there; one failure is a reconnect under an open stream. The bucket can be
emptied, refilled to its ceiling, and reaped and started again within eleven
ticks. Three chunks are a 101, data and data that overtakes. The lifecycle's
draws cover two failed registrations and a good one, and its third caller is
the request of a past life. At the Worker two handlers overlap as at the Fly
relay, the second key is the one whose proofs and challenges must not pass for
the first's, one stale value is a read that misses the last put, and one failing call
takes each catch in turn. In the portal three calls are an action, the refresh
that follows another and a poll; an event is another administrator's request, a
new device, a failing save or a restart. The portal's instance has the tailnet
server only; both servers are in the theorems. The safety theorems hold without these bounds.

**Fairness.** `RequestsAnswered` assumes that the relay's goroutines are
scheduled, its timers fire, its read deadline expires and TCP gives up on a peer
that is gone; and of the sidecar only that its loop does not hang on Headscale
for ever (`LoopGoesOn`). It needs that premise: `forwardHTTP` sets its 30-second
timer after the send, and a send has no deadline. `Heals` adds that the sidecar redials, reads and answers; failures are finite.
`ComesUpUnlessForgotten` assumes that the sidecar, its container and the handlers go on,
that time passes, and that key generation does not fail for ever (strong
fairness, as `InitError` competes with `InitStore`). `RequestsSettled` and
`HoldsTunnel` assume that the object's timers fire, close events and KV answers
arrive, and the sidecar redials and answers; the closes of its streams add that
stream events are dispatched and the sidecar's goroutines run. `SecretWorks`
assumes that KV propagates its puts, and nothing else. `DeviceNoticed` assumes that the poll's timer fires and calls return,
with an answer or an error; nobody has to click. Streams: each goroutine is
scheduled; neither client nor Headscale has to do anything.

## Proofs

TLAPS checks every obligation; constants are arbitrary within the named
assumptions.

`RelayRegistrationProofs`: type correctness and the four safety invariants. They
are not inductive: that a grant is justified depends on the copies goroutines
hold (`CopiesKept`) and the stored challenges (`ChallengesKept`) having been
issued for a key of that fingerprint; that attempts are bounded depends on the
stored count being the number of tries of its nonce; that a spent nonce stays
dead on nonces being issued once (`IssuedOnce`). Steps that store no challenge
and spend none are handled by one lemma (`TameStep`); `InitStore`,
`VerifyAdmit` and `VerifyGrant` have their own.

The same module proves of `SidecarLifecycle` that it implements
`RelayRegistration` (`LifecycleIsRegistration`), so that all of this holds with a
sidecar that crashes and restarts, and `SecretCurrent`. For the latter the
invariant `LInv` follows the requests of every life of the sidecar: at most one
verify is being checked and its challenge is live, so that init answers a new
life with 409 meanwhile (`OwnRequests`); and once the sidecar has a challenge
none is being checked but its own, and none at all when it dials (`Progress`), so
nothing is left that could replace its registration. Both assumptions on time
are needed here, in `TickKeeps` and `SubmitKeeps`.

`RelayTunnelProofs`: type correctness, the four invariants, and the refinement
of `TunnelService`. The invariant has a tunnel part (each reader's phase against
its connection and the map) and a request part (a request is unsent and
nowhere, or has one carrier: a message, a goroutine, a delivery or a channel).
One carrier gives at most one execution and one answer. `Frames` says what a
step that leaves a conjunct's variables alone preserves; there is one lemma per
action, and one per step of the abstract specification for the refinement.

`RateLimiterProofs`: `RateHonoured`, `DenialsEarned` and `BucketsExpire`. The argument follows the
bucket's credit, its tokens less the time they were counted at, which a refill
leaves alone: with a bucket, what was admitted since any time s and the credit
together stay within the burst less s (`CreditKept`); without one, all that was
spent has been earned back (`CreditEarned`), which is where `IdleAssumption` is
needed. `AgeKept` relates a bucket's age to the last run of reap. For
`DenialsEarned` the same credit is bounded from below: what the bucket lacks has
been spent since it was last full, by calls that read the clock at most `Stall`
before (`CreditMissed`).

`TunnelDOProofs`: type correctness and the three invariants of plain requests. The
part that makes them inductive is `OneCopy`: what was sent of a request is in
flight, in a goroutine of the sidecar or executed, and never two of these, and
a request that was not sent is nowhere.

`TunnelDOStreamsProofs`: the object with its streams implements `TunnelDO`, so the
above holds beside any number of streams; `StreamsTracked`; `FramesOrdered`. For
the order the invariant compares, per stream, the frames in flight with the last
received and the last sent (`FramesInv`). That none is missing between two before
the first failure needs more: the sidecar's connection is then the only one and
an open client has it as its tunnel (`OneTunnel`), so no frame is lost on the way;
all frames after one in flight, or after the last received, are in flight
(`DenseInv`); and a stream is registered once, before Headscale has anything of
it (`Opening`).

`WorkerRegistrationProofs`: type correctness, `RegistrationsProved`,
`SpentNonceNeverLive`. Every readable challenge, stale ones included, must be
filed under its key's fingerprint and have been offered (`ChallengesFiled`), and
so must the copy a verify holds (`VerifiesFound`). Nonces: each is held by one
init at most and drawn afresh (`HeldOnce`, `DrawnFresh`), so that none already
spent can be put back (`SpentDrawn`).

`PortalUsersProofs`: first `AdminStore`, type correctness, `GrantsKept` and
`AdminRemains`, for any set of servers; the latter is about the names in a store,
not about the users they belong to. `KnownHeld` says that a server that knows
of a saved grant has it in its map: its next save then keeps it. Then the page.
`PageUsesStore` says that it implements `AdminStore`, so the same holds whatever
the page sends (`StoreSafeUnderPage`). `ControlsStayHonest` is `ControlsHonest`
for any number of users, devices and requests. It is not inductive: that the end
of one request frees its control is right only if there is no second one, and
that a row stays busy after a success only if none is in flight then. `PInv` adds
both for every control (`One`, `Settled`), and the form of the requests
(`WellFormed`), from which it follows whose row an answer belongs to. Nearly
every step replaces one request; what that does to the requests of a control is
said once (`PlaceChanges`, `RowChanges`), and an action only names its control.
The exception is the end of a refresh, which unmounts rows (`RowRerendered`).

`TunnelStreamsProofs`: the order of chunks in both directions, for streams of any
length. The invariant numbers what is under way: a chunk in a buffer or in the
tunnel has the number that its place and the chunks already delivered give it
(`Buffered`, `Carries`). Upstream this needs `Early`: until the sidecar's reader
goroutine runs, which is after the stream is registered, nothing has come down,
so the client is not talking and there is no chunk for the loop to drop.

**Model-checked only:** liveness (`Heals`, `RequestsAnswered`, `ComesUpUnlessForgotten`,
`RequestsSettled`, `SecretWorks`, `DeviceNoticed`, the stream closes), which is
beyond the prover. Every safety property that a passing run checks is proved.

## Where code and documents differ

- `docs/REGISTRATION.md:16`, "Each nonce is single-use": two verifies that
  overlap both succeed (`registration_nonce`). It is single-use for requests
  that begin after the grant (`SpentNonceNeverLive`, proved).
- `headfwd-proxy-fly/main.go:250`, "Do not let an unauthenticated caller clobber
  a challenge": two inits that overlap do (`registration_clobber`).
- `docs/REGISTRATION.md:221`, "the sidecar simply re-registers automatically":
  it redials with the old secret (`lifecycle_restart`).
- `headfwd-proxy/README.md:11`, "one Durable Object that holds its persistent
  tunnel": a late close event of an old connection clears the tunnel of the new
  one, and nothing makes the sidecar redial (`durable_object_holds`). Comparing
  the socket in the close listener would not be enough: a dial the sidecar has
  given up can also be accepted after its successor.

No run is about these, as they concern intentions more than steps; the models
show them:

- `docs/REGISTRATION-STATUS.md:38`, "There is no longer a "legacy" unauthenticated
  registration endpoint", and `docs/REGISTRATION.md:13`, "Only someone with access
  to Headscale's Noise private key can complete registration": the Worker still
  has that endpoint (`handleRegister`, `headfwd-proxy/src/index.ts:86`), which
  stores a registration with the configured secret for any key it is sent.
  `RegistrationsProved` of the Worker excepts those registrations.
- `docs/headfwd-admin-user.md:50`, "At least 1 admin must always remain": what
  remains is a name. Deleting a user (`handlers/users.go:45`) leaves the stores
  alone, so the last name in a store may be that of a user who is gone, and then
  nobody in the tailnet is an administrator. `AdminRemains` is about names.
- `docs/REGISTRATION.md:9` describes the v2 registration for both relays; the
  Worker speaks v1 only.
- A grant or revocation at one portal is unknown to the other until the sidecar
  restarts, and a later save by the other one undoes it in `admins.json`
  (`GrantsKept` excepts it).
- `docs/headfwd-admin-user.md` has the portal wait for the first user and promote
  them; `Bootstrap` runs once, at start, and ends without users.
- After an `admins.json` that does not parse, the portal has no store and
  `AdminOnly` lets every caller through.
- After a successful grant or revocation `adminBusy` is not reset
  (`Users.tsx:253`): the row's badge works once until the page is loaded again.
- All users share one `generatingKey` (`Users.tsx:59`): the answer to a request of
  a panel closed meanwhile clears it for the panel that is open, whose button can
  then ask for a second key. `ControlsHonest` says of it only that it does not
  stay set without a request.
- A late poll of a closed panel closes the panel that is open (`Users.tsx:564`);
  for `DeviceNoticed` that ends the waiting like a device that was noticed.

## Not modelled

- **Sidecar set-up** (`updateServerURL`, `restartHeadscaleContainer`,
  `bootstrapAPIKey`, `startTsnetNode`): a single sequence of file, Docker and
  library calls before anything runs concurrently, each fatal or logged.
- **Upstream proxy and its node cache**: one snapshot under one mutex. That it is
  served past its 30 seconds while Headscale is away is one line and intended.
- **iOS service, portal proxy and views**: their hazards lie in how calls into
  the Tailscale library and Network.framework end when a node is closed under
  them; neither is in the repository, so a model would rest on guesses.
- **Frontend**: texts, layout, the connection popover, which only shows what it
  fetched, and `ConnectionStatus.tsx`, `Onboard.tsx`, `UserList.tsx`, which
  nothing imports.
- **Streams**: bytes the Fly relay's server read ahead of `Hijack`, and clients
  that stop reading, on whose writes there is no deadline.
- **A registration replaced during an upgrade** (`headfwd-proxy-fly/main.go:425`):
  no code ends a tunnel whose registration is replaced, by the same key.
- **Cryptography** is symbolic; shell scripts and Docker files are left out.
