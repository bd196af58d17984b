-------------------------- MODULE WorkerRegistration --------------------------
(***************************************************************************)
(* Registration at the Cloudflare Worker, over its KV store, and what      *)
(* acceptTunnel asks of a registration to let a dial in (TunnelDO has the  *)
(* dial itself).                                                           *)
(*                                                                         *)
(* A handler is cut at its awaits on KV; the cryptography in between is a  *)
(* symbolic MAC. KV may answer a get with a value that has been replaced,  *)
(* until the new one has reached every location, and may fail a call whose *)
(* effect took place. Without the REGISTRY binding the handlers keep two   *)
(* maps of their own instead, and a dial needs the configured secret.      *)
(* Clients are those of protocol v1, the only one this relay speaks.       *)
(***************************************************************************)
EXTENDS Naturals, FiniteSets

CONSTANTS
  Key,            \* Noise public keys of clients
  Registrant,     \* those that somebody asks to register; the others only ask for challenges
  Handler,        \* requests that can be in progress at once
  TUNNEL_SECRET,  \* the configured secret
  MaxNonces,      \* bound on init requests
  MaxSecrets,     \* bound on the secrets generated
  MaxFailures,    \* bound on failing calls
  MaxStale,       \* bound on replaced values that a get may still return
  None

ASSUME RegistrantAssumption == Registrant \subseteq Key

ASSUME BoundsAssumption ==
  /\ MaxNonces \in Nat /\ MaxSecrets \in Nat /\ MaxFailures \in Nat /\ MaxStale \in Nat
  /\ TUNNEL_SECRET \notin Nat

VARIABLES
  REGISTRY,      \* whether env.REGISTRY is bound
  challenge,     \* challenge:<fingerprint>, or localChallenges
  registration,  \* tunnel:<fingerprint>, or localRegistrations
  handler,       \* the requests in progress
  nonces,        \* nonces generated
  secrets,       \* secrets generated
  offered,       \* challenges sent to clients
  told,          \* tunnel URLs sent to clients
  spent,         \* history: nonces for which a verify has replied with a URL
  failures       \* failures so far

vars == <<REGISTRY, challenge, registration, handler, nonces, secrets, offered,
          told, spent, failures>>

\* computeFingerprint: the digest of a key, which no other key has.
Fingerprint(k) == [sha256 |-> k]
Fingerprints == {Fingerprint(k) : k \in Key}

Challenge == [publicKey : Key, nonce : 1 .. MaxNonces]

\* The MAC over the nonce that the holder of a key's private half can make, and
\* only after the challenge was sent.
Proof(c) == [mac |-> c]
Garbage == [mac |-> None]
Proofs == {Proof(c) : c \in Challenge} \cup {Garbage}

Secret == (1 .. MaxSecrets) \cup {TUNNEL_SECRET}
Registration == [publicKey : Key, secret : Secret, proof : Proofs]

\* A KV entry: what was written last, and what a get may still return.
Entry(v) == [now |-> v, old |-> {}]
Readable(e) == {e.now} \cup e.old

Written(e, v) ==
  IF REGISTRY THEN [now |-> v, old |-> e.old \cup {e.now}] ELSE Entry(v)

\* An entry can be written: the bound on stale values allows it.
Writable(e) == Cardinality(e.old) < MaxStale

Idle == [step |-> "idle"]

Init ==
  /\ REGISTRY \in BOOLEAN
  /\ challenge = [f \in Fingerprints |-> Entry(None)]
  /\ registration = [f \in Fingerprints |-> Entry(None)]
  /\ handler = [h \in Handler |-> Idle]
  /\ nonces = 0
  /\ secrets = 0
  /\ offered = {}
  /\ told = {}
  /\ spent = {}
  /\ failures = 0

Fails == failures < MaxFailures /\ failures' = failures + 1

Replies(h) == handler' = [handler EXCEPT ![h] = Idle]

-----------------------------------------------------------------------------
(* handleRegister and handleRegisterInit *)

\* The legacy endpoint stores the configured secret and asks for no proof.
LegacyPut(k) ==
  /\ Writable(registration[Fingerprint(k)])
  /\ registration' =
       IF REGISTRY
         THEN [registration EXCEPT ![Fingerprint(k)] =
                 Written(@, [publicKey |-> k, secret |-> TUNNEL_SECRET, proof |-> Garbage])]
         ELSE registration

HandleRegister(k) ==
  /\ LegacyPut(k)
  /\ told' = told \cup {[fingerprint |-> Fingerprint(k), secret |-> TUNNEL_SECRET]}
  /\ UNCHANGED <<REGISTRY, challenge, handler, nonces, secrets, offered, spent, failures>>

\* The put throws: 400, though it may have taken place.
HandleRegisterThrows(k) ==
  /\ REGISTRY
  /\ Fails
  /\ LegacyPut(k)
  /\ UNCHANGED <<REGISTRY, challenge, handler, nonces, secrets, offered, told, spent>>

\* The nonce and the ephemeral key are generated.
InitStart(h, k) ==
  /\ handler[h] = Idle
  /\ nonces < MaxNonces
  /\ nonces' = nonces + 1
  /\ handler' = [handler EXCEPT ![h] =
       [step |-> "init", challenge |-> [publicKey |-> k, nonce |-> nonces']]]
  /\ UNCHANGED <<REGISTRY, challenge, registration, secrets, offered, told, spent, failures>>

\* The challenge takes the place of any other, and is sent.
InitStore(h) ==
  /\ handler[h].step = "init"
  /\ LET c == handler[h].challenge IN
       /\ Writable(challenge[Fingerprint(c.publicKey)])
       /\ challenge' = [challenge EXCEPT ![Fingerprint(c.publicKey)] = Written(@, c)]
       /\ offered' = offered \cup {c}
  /\ Replies(h)
  /\ UNCHANGED <<REGISTRY, registration, nonces, secrets, told, spent, failures>>

\* A call throws: 400. A put that throws may have taken place.
InitThrows(h) ==
  /\ handler[h].step = "init"
  /\ Fails
  /\ LET c == handler[h].challenge IN
       \/ UNCHANGED challenge
       \/ /\ REGISTRY /\ Writable(challenge[Fingerprint(c.publicKey)])
          /\ challenge' = [challenge EXCEPT ![Fingerprint(c.publicKey)] = Written(@, c)]
  /\ Replies(h)
  /\ UNCHANGED <<REGISTRY, registration, nonces, secrets, offered, told, spent>>

-----------------------------------------------------------------------------
(* handleRegisterVerify *)

\* What clients can send: a proof of a challenge they were sent, or anything.
CanSend == {Proof(c) : c \in offered} \cup {Garbage}

\* The challenge is read; without one, 400; and the slip of not checking.
FoundUnchecked(e) == Readable(e)
Found(e) == Readable(e) \ {None}

VerifyRead(h, f, proof) ==
  /\ handler[h] = Idle
  /\ \E c \in Found(challenge[f]) :
       handler' = [handler EXCEPT ![h] =
         [step |-> "verify", fingerprint |-> f, proof |-> proof, challenge |-> c]]
  /\ UNCHANGED <<REGISTRY, challenge, registration, nonces, secrets, offered, told, spent, failures>>

\* The proof is compared with the one expected of the key in the challenge; and
\* the slip of taking that of any key.
AcceptsAnyKey(c, proof) == proof # Garbage
Accepts(c, proof) == proof = Proof(c)

\* 403 for a wrong proof, 400 for anything that throws so far.
VerifyRefuse(h) ==
  /\ handler[h].step = "verify"
  /\ ~Accepts(handler[h].challenge, handler[h].proof) \/ failures < MaxFailures
  /\ failures' = IF Accepts(handler[h].challenge, handler[h].proof)
                   THEN failures + 1 ELSE failures
  /\ Replies(h)
  /\ UNCHANGED <<REGISTRY, challenge, registration, nonces, secrets, offered, told, spent>>

\* The registration a verify stores; and the slip of keeping one that is there.
StoredOnce(e, r) == IF e.now = None THEN Written(e, r) ELSE e
Stored(e, r) == Written(e, r)

\* A secret is generated and the registration put.
Registers(h) ==
  /\ handler[h].step = "verify"
  /\ Accepts(handler[h].challenge, handler[h].proof)
  /\ secrets < MaxSecrets
  /\ Writable(registration[handler[h].fingerprint])
  /\ secrets' = secrets + 1
  /\ registration' = [registration EXCEPT ![handler[h].fingerprint] =
       Stored(@, [publicKey |-> handler[h].challenge.publicKey, secret |-> secrets',
                  proof |-> handler[h].proof])]

\* The reply, with the secret in its tunnel URL.
Grants(f, secret, nonce) ==
  /\ told' = told \cup {[fingerprint |-> f, secret |-> secret]}
  /\ spent' = spent \cup {nonce}

VerifyPut(h) ==
  /\ REGISTRY
  /\ Registers(h)
  /\ handler' = [handler EXCEPT ![h] =
       [step |-> "registered", fingerprint |-> @.fingerprint,
        challenge |-> @.challenge, secret |-> secrets']]
  /\ UNCHANGED <<REGISTRY, challenge, nonces, offered, told, spent, failures>>

\* The put throws: 400, though it may have taken place.
VerifyPutThrows(h) ==
  /\ REGISTRY
  /\ Registers(h)
  /\ Fails
  /\ Replies(h)
  /\ UNCHANGED <<REGISTRY, challenge, nonces, offered, told, spent>>

\* What is left of the challenge: none, whichever is stored by now; and the slip
\* of leaving it to its expiry.
LeftToExpire(e) == e
Removed(e) == Written(e, None)

VerifyDelete(h) ==
  /\ handler[h].step = "registered"
  /\ Writable(challenge[handler[h].fingerprint])
  /\ challenge' = [challenge EXCEPT ![handler[h].fingerprint] = Removed(@)]
  /\ Grants(handler[h].fingerprint, handler[h].secret, handler[h].challenge.nonce)
  /\ Replies(h)
  /\ UNCHANGED <<REGISTRY, registration, nonces, secrets, offered, failures>>

\* The delete throws: 400, though the client is registered.
VerifyDeleteThrows(h) ==
  /\ handler[h].step = "registered"
  /\ Fails
  /\ \/ UNCHANGED challenge
     \/ /\ Writable(challenge[handler[h].fingerprint])
        /\ challenge' = [challenge EXCEPT ![handler[h].fingerprint] = Removed(@)]
  /\ Replies(h)
  /\ UNCHANGED <<REGISTRY, registration, nonces, secrets, offered, told, spent>>

\* Without KV both maps change in one go.
VerifyLocal(h) ==
  /\ ~REGISTRY
  /\ Registers(h)
  /\ challenge' = [challenge EXCEPT ![handler[h].fingerprint] = Removed(@)]
  /\ Grants(handler[h].fingerprint, secrets', handler[h].challenge.nonce)
  /\ Replies(h)
  /\ UNCHANGED <<REGISTRY, nonces, offered, failures>>

-----------------------------------------------------------------------------
(* The store *)

\* What acceptTunnel asks of the secret in the URL.
Authorised(r, secret) ==
  IF REGISTRY THEN r # None /\ r.secret = secret ELSE secret = TUNNEL_SECRET

\* A challenge is gone after five minutes, a registration after a year.
Expires(e) == [now |-> None, old |-> e.old \ {e.now}]

ExpireChallenge(f) ==
  /\ challenge[f].now # None
  /\ challenge' = [challenge EXCEPT ![f] = Expires(@)]
  /\ UNCHANGED <<REGISTRY, registration, handler, nonces, secrets, offered, told, spent, failures>>

ExpireRegistration(f) ==
  /\ REGISTRY
  /\ registration[f].now # None
  /\ registration' = [registration EXCEPT ![f] = Expires(@)]
  /\ UNCHANGED <<REGISTRY, challenge, handler, nonces, secrets, offered, told, spent, failures>>

\* What was written last has reached every location.
Propagate(f) ==
  /\ challenge' = [challenge EXCEPT ![f].old = {}]
  /\ registration' = [registration EXCEPT ![f].old = {}]
  /\ UNCHANGED <<REGISTRY, handler, nonces, secrets, offered, told, spent, failures>>

-----------------------------------------------------------------------------
\* The Worker's fetch: what a request starts.
Fetch ==
  \/ \E k \in Registrant : HandleRegister(k) \/ HandleRegisterThrows(k)
  \/ \E h \in Handler, k \in Key : InitStart(h, k)
  \/ \E h \in Handler, k \in Registrant, p \in CanSend : VerifyRead(h, Fingerprint(k), p)

HandlerStep(h) ==
  \/ InitStore(h) \/ InitThrows(h)
  \/ VerifyRefuse(h) \/ VerifyPut(h) \/ VerifyPutThrows(h)
  \/ VerifyDelete(h) \/ VerifyDeleteThrows(h) \/ VerifyLocal(h)

StoreStep(f) == ExpireChallenge(f) \/ ExpireRegistration(f) \/ Propagate(f)

Next ==
  \/ Fetch
  \/ \E h \in Handler : HandlerStep(h)
  \/ \E f \in Fingerprints : StoreStep(f)

\* KV converges.
Fairness == \A f \in Fingerprints : WF_vars(Propagate(f))

Spec == Init /\ [][Next]_vars

FairSpec == Spec /\ Fairness

-----------------------------------------------------------------------------
\* The types of the store, the handlers and the replies.
TypeOK ==
  /\ REGISTRY \in BOOLEAN
  /\ challenge \in [Fingerprints -> [now : Challenge \cup {None}, old : SUBSET (Challenge \cup {None})]]
  /\ registration \in
       [Fingerprints -> [now : Registration \cup {None}, old : SUBSET (Registration \cup {None})]]
  /\ handler \in [Handler ->
       {Idle} \cup [step : {"init"}, challenge : Challenge]
         \cup [step : {"verify"}, fingerprint : Fingerprints, proof : Proofs, challenge : Challenge]
         \cup [step : {"registered"}, fingerprint : Fingerprints, challenge : Challenge,
               secret : 1 .. MaxSecrets]]
  /\ nonces \in 0 .. MaxNonces
  /\ secrets \in 0 .. MaxSecrets
  /\ offered \subseteq Challenge
  /\ told \subseteq [fingerprint : Fingerprints, secret : Secret]
  /\ spent \subseteq 1 .. MaxNonces
  /\ failures \in 0 .. MaxFailures

\* The challenge flow registers nothing unproved: a registration that acceptTunnel
\* may read for a fingerprint, stale answers of KV included, is that of the key
\* with this fingerprint and rests on a proof of a challenge sent for that very
\* key, however inits, verifies and failing calls overlap and whichever proofs of
\* other keys are sent. It says nothing of registrations with the configured
\* secret: the legacy endpoint stores them for anyone, though the documents say
\* that there is no such endpoint (see the README).
RegistrationsProved ==
  \A f \in Fingerprints : \A r \in Readable(registration[f]) :
    r # None =>
      /\ f = Fingerprint(r.publicKey)
      /\ r.secret # TUNNEL_SECRET =>
           \E c \in offered : c.publicKey = r.publicKey /\ r.proof = Proof(c)

\* Once a verify has replied with a tunnel URL its nonce is not in the store any
\* more: the delete takes whichever challenge is there, and no init that was
\* overtaken puts an old nonce back.
SpentNonceNeverLive ==
  \A f \in Fingerprints : challenge[f].now # None => challenge[f].now.nonce \notin spent

\* The registration has expired, or a put after the one of this secret replaced it.
Superseded(f, secret) ==
  LET r == registration[f].now IN
    \/ r = None
    \/ r.secret # secret /\ (TUNNEL_SECRET \in {r.secret, secret} \/ r.secret > secret)

\* A client that was told a secret will get in with it: though KV may take time to
\* show it, there comes a time when acceptTunnel lets it in whichever answer it
\* reads, unless a later registration replaces it or it expires. Without KV only
\* the configured secret works: what verify hands out there is never looked at.
SecretWorks ==
  \A t \in [fingerprint : Fingerprints, secret : Secret] :
    (REGISTRY /\ t \in told)
      ~> \/ \A r \in Readable(registration[t.fingerprint]) : Authorised(r, t.secret)
         \/ Superseded(t.fingerprint, t.secret)

=============================================================================
