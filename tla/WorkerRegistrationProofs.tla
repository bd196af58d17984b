----------------------- MODULE WorkerRegistrationProofs -----------------------
(***************************************************************************)
(* Registration at the Worker for any number of keys, concurrent requests, *)
(* failing calls and values that KV still returns after they were          *)
(* replaced. The inductive invariant follows a challenge from its draw,    *)
(* over the store, to the verify request that has read it: it stays under  *)
(* its fingerprint, and its nonce stands for no other challenge.           *)
(***************************************************************************)
EXTENDS WorkerRegistration, TLAPS

\* Challenges that a get returns, or that a verify request has read.
Held(c) ==
  \/ c # None /\ \E f \in Fingerprints : c \in Readable(challenge[f])
  \/ \E h \in Handler : handler[h].step \in {"verify", "registered"} /\ c = handler[h].challenge

\* A stored challenge is under the fingerprint of its key.
ChallengesFiled ==
  \A f \in Fingerprints : \A c \in Readable(challenge[f]) :
    c # None => f = Fingerprint(c.publicKey)

\* So is the one a verify request works on; its proof is one that was made.
VerifiesFound ==
  \A h \in Handler :
    /\ handler[h].step \in {"verify", "registered"} =>
         /\ handler[h].fingerprint = Fingerprint(handler[h].challenge.publicKey)
         /\ handler[h].challenge # None
    /\ handler[h].step = "verify" => handler[h].proof \in CanSend

\* A nonce stands for one challenge, and a drawn one for none as yet.
HeldOnce ==
  /\ \A c, d : Held(c) /\ Held(d) /\ c.nonce = d.nonce => c = d
  /\ \A c : Held(c) => c.nonce <= nonces
Drawn(h) == handler[h].step = "init"
DrawnFresh ==
  \A h \in Handler : Drawn(h) =>
    LET n == handler[h].challenge.nonce IN
      /\ n <= nonces /\ n \notin spent
      /\ \A c : Held(c) => c.nonce # n
      /\ \A g \in Handler : Drawn(g) /\ handler[g].challenge.nonce = n => g = h
SpentDrawn == \A n \in spent : n <= nonces

NonceInv == HeldOnce /\ DrawnFresh /\ SpentDrawn /\ SpentNonceNeverLive

IInv == TypeOK /\ ChallengesFiled /\ VerifiesFound /\ RegistrationsProved /\ NonceInv

-----------------------------------------------------------------------------
(* Entries of the store *)

EntryOf(S) == [now : S, old : SUBSET S]
Stores == EntryOf(Challenge \cup {None})
Registry == EntryOf(Registration \cup {None})

\* A write adds one value to those that can be read.
LEMMA WrittenEntry ==
  ASSUME NEW S, NEW e \in EntryOf(S), NEW v \in S
  PROVE  /\ Written(e, v) \in EntryOf(S)
         /\ Readable(Written(e, v)) \subseteq Readable(e) \cup {v}
         /\ Written(e, v).now = v
BY DEF Written, Entry, Readable, EntryOf

\* An expiry adds at most that there is none.
LEMMA ExpiredEntry ==
  ASSUME NEW S, NEW e \in EntryOf(S), None \in S
  PROVE  /\ Expires(e) \in EntryOf(S)
         /\ Readable(Expires(e)) \subseteq Readable(e) \cup {None}
         /\ Expires(e).now = None
BY Zenon DEF Expires, Readable, EntryOf

\* The states of a request.
Initing == [step : {"init"}, challenge : Challenge]
Verifying == [step : {"verify"}, fingerprint : Fingerprints, proof : Proofs, challenge : Challenge]
Registered == [step : {"registered"}, fingerprint : Fingerprints, challenge : Challenge,
               secret : 1 .. MaxSecrets]
Request == {Idle} \cup Initing \cup Verifying \cup Registered

LEMMA Requests ==
  ASSUME NEW q \in Request
  PROVE  /\ q.step = "init" => q \in Initing
         /\ q.step = "verify" => q \in Verifying
         /\ q.step = "registered" => q \in Registered
BY DEF Request, Idle, Initing, Verifying, Registered

\* The types, in these terms.
LEMMA Types ==
  TypeOK <=>
    /\ REGISTRY \in BOOLEAN
    /\ challenge \in [Fingerprints -> Stores]
    /\ registration \in [Fingerprints -> Registry]
    /\ handler \in [Handler -> Request]
    /\ nonces \in 0 .. MaxNonces
    /\ secrets \in 0 .. MaxSecrets
    /\ offered \subseteq Challenge
    /\ told \subseteq [fingerprint : Fingerprints, secret : Secret]
    /\ spent \subseteq 1 .. MaxNonces
    /\ failures \in 0 .. MaxFailures
BY Zenon DEF TypeOK, Stores, Registry, EntryOf, Request, Initing, Verifying, Registered

LEMMA TypesNext ==
  ASSUME REGISTRY' \in BOOLEAN,
         challenge' \in [Fingerprints -> Stores],
         registration' \in [Fingerprints -> Registry],
         handler' \in [Handler -> Request],
         nonces' \in 0 .. MaxNonces,
         secrets' \in 0 .. MaxSecrets,
         offered' \subseteq Challenge,
         told' \subseteq [fingerprint : Fingerprints, secret : Secret],
         spent' \subseteq 1 .. MaxNonces,
         failures' \in 0 .. MaxFailures
  PROVE  TypeOK'
BY Zenon DEF TypeOK, Stores, Registry, EntryOf, Request, Initing, Verifying, Registered

LEMMA HeldTyped ==
  ASSUME TypeOK
  PROVE  \A c : Held(c) => c \in Challenge
<1> TAKE c
<1>1. ASSUME NEW f \in Fingerprints, c \in Readable(challenge[f]), c # None
      PROVE  c \in Challenge
  BY <1>1, Types DEF Stores, EntryOf, Readable
<1>2. ASSUME NEW h \in Handler, handler[h].step \in {"verify", "registered"}
      PROVE  handler[h].challenge \in Challenge
  BY <1>2, Types, Requests DEF Verifying, Registered
<1> QED BY Zenon, <1>1, <1>2 DEF Held

-----------------------------------------------------------------------------
(* The types *)

LEMMA FailsBounded ==
  ASSUME TypeOK, Fails
  PROVE  failures' \in 0 .. MaxFailures
BY BoundsAssumption DEF TypeOK, Fails

LEMMA RepliesTyped ==
  ASSUME TypeOK, NEW h \in Handler, Replies(h)
  PROVE  /\ handler' = [handler EXCEPT ![h] = Idle]
         /\ handler' \in [Handler -> Request]
BY Zenon, Types DEF Replies, Request

\* What a put of a registration, by either endpoint, leaves in the store.
LEMMA LegacyEntry ==
  ASSUME TypeOK, NEW k \in Key, LegacyPut(k)
  PROVE  \/ registration' = registration
         \/ LET f == Fingerprint(k)
                r == [publicKey |-> k, secret |-> TUNNEL_SECRET, proof |-> Garbage]
            IN  /\ f \in Fingerprints /\ r \in Registration
                /\ registration' = [registration EXCEPT ![f] = Written(registration[f], r)]
BY Zenon DEF LegacyPut, Fingerprints, Registration, Secret, Proofs

LEMMA RegistersEntry ==
  ASSUME TypeOK, NEW h \in Handler, Registers(h)
  PROVE  LET f == handler[h].fingerprint
             r == [publicKey |-> handler[h].challenge.publicKey, secret |-> secrets',
                   proof |-> handler[h].proof]
         IN  /\ handler[h] \in Verifying
             /\ f \in Fingerprints /\ r \in Registration /\ secrets' \in 1 .. MaxSecrets
             /\ registration' = [registration EXCEPT ![f] = Written(registration[f], r)]
<1>1. handler[h] \in Verifying
  BY Zenon, Types, Requests DEF Registers
<1>2. secrets' \in 1 .. MaxSecrets
  BY BoundsAssumption DEF TypeOK, Registers
<1>3. handler[h].challenge.publicKey \in Key
  BY Zenon, <1>1 DEF Verifying, Challenge
<1> QED BY Zenon, <1>1, <1>2, <1>3 DEF Registers, Stored, Registration, Verifying, Secret

LEMMA RegistryTyped ==
  ASSUME TypeOK, NEW f \in Fingerprints, NEW r \in Registration \cup {None},
         registration' = [registration EXCEPT ![f] = Written(registration[f], r)]
  PROVE  registration' \in [Fingerprints -> Registry]
<1>1. registration \in [Fingerprints -> Registry]
  BY Zenon, Types
<1>2. Written(registration[f], r) \in Registry
  BY ZenonT(40), <1>1, WrittenEntry DEF Registry
<1> QED BY <1>1, <1>2

LEMMA StoreTyped ==
  ASSUME TypeOK, NEW f \in Fingerprints, NEW c \in Challenge \cup {None},
         challenge' = [challenge EXCEPT ![f] = Written(challenge[f], c)]
  PROVE  challenge' \in [Fingerprints -> Stores]
<1>1. challenge \in [Fingerprints -> Stores]
  BY Zenon, Types
<1>2. Written(challenge[f], c) \in Stores
  BY Zenon, <1>1, WrittenEntry DEF Stores
<1> QED BY <1>1, <1>2

-----------------------------------------------------------------------------
(* Nonces *)

\* Steps after which no challenge is held that was not held before.
LEMMA NoncesQuiet ==
  ASSUME NonceInv, nonces' = nonces, spent' = spent,
         \A c : Held(c)' => Held(c),
         \A h \in Handler : Drawn(h)' => Drawn(h) /\ handler'[h].challenge = handler[h].challenge,
         \A f \in Fingerprints : challenge'[f].now \in {challenge[f].now, None}
  PROVE  NonceInv'
<1>1. HeldOnce'
  BY Zenon DEF NonceInv, HeldOnce
<1>2. DrawnFresh'
  BY Zenon DEF NonceInv, DrawnFresh
<1> QED BY Zenon, <1>1, <1>2 DEF NonceInv, SpentDrawn, SpentNonceNeverLive

\* A drawn challenge is stored.
LEMMA NoncesStored ==
  ASSUME TypeOK, NonceInv, NEW h \in Handler, Drawn(h),
         nonces' = nonces, spent' = spent,
         \A c : Held(c)' => Held(c) \/ c = handler[h].challenge,
         \A g \in Handler : Drawn(g)' =>
            g # h /\ Drawn(g) /\ handler'[g].challenge = handler[g].challenge,
         \A f \in Fingerprints : challenge'[f].now \in {challenge[f].now, handler[h].challenge}
  PROVE  NonceInv'
<1> DEFINE d == handler[h].challenge
<1>1. /\ d.nonce <= nonces /\ d.nonce \notin spent
      /\ \A c : Held(c) => c.nonce # d.nonce
      /\ \A g \in Handler : Drawn(g) /\ handler[g].challenge.nonce = d.nonce => g = h
  BY Zenon DEF NonceInv, DrawnFresh
<1> HIDE DEF d
<1>2. HeldOnce'
  BY Zenon, <1>1 DEF NonceInv, HeldOnce, d
<1>3. DrawnFresh'
  BY Zenon DEF NonceInv, DrawnFresh
<1>4. SpentNonceNeverLive'
  BY Zenon, <1>1 DEF NonceInv, SpentNonceNeverLive, d
<1> QED BY Zenon, <1>2, <1>3, <1>4 DEF NonceInv, SpentDrawn

\* The nonce of a challenge that is held is spent, and the store has it no more.
LEMMA NoncesSpent ==
  ASSUME NonceInv, NEW d, Held(d),
         nonces' = nonces, spent' = spent \cup {d.nonce},
         \A c : Held(c)' => Held(c),
         \A h \in Handler : Drawn(h)' => Drawn(h) /\ handler'[h].challenge = handler[h].challenge,
         \A f \in Fingerprints :
            /\ challenge'[f].now \in {challenge[f].now, None}
            /\ challenge'[f].now # None => challenge'[f].now # d,
         \A f \in Fingerprints : challenge[f].now # None => Held(challenge[f].now)
  PROVE  NonceInv'
<1>1. HeldOnce'
  BY Zenon DEF NonceInv, HeldOnce
<1>2. DrawnFresh'
  BY DEF NonceInv, DrawnFresh
<1>3. SpentNonceNeverLive'
  BY Zenon DEF NonceInv, SpentNonceNeverLive, HeldOnce
<1>4. SpentDrawn'
  BY DEF NonceInv, SpentDrawn, HeldOnce
<1> QED BY Zenon, <1>1, <1>2, <1>3, <1>4 DEF NonceInv

-----------------------------------------------------------------------------
(* Challenges under their fingerprints *)

\* Steps that make nothing readable but what a request of init has drawn.
LEMMA FiledKept ==
  ASSUME ChallengesFiled,
         \A f \in Fingerprints : \A c \in Readable(challenge'[f]) :
            c # None => c \in Readable(challenge[f]) \/ f = Fingerprint(c.publicKey)
  PROVE  ChallengesFiled'
BY Zenon DEF ChallengesFiled

\* Steps that leave a request of verify as it was, or end it.
LEMMA FoundKept ==
  ASSUME VerifiesFound, offered \subseteq offered',
         \A h \in Handler : handler'[h].step \in {"verify", "registered"} =>
            \/ handler'[h] = handler[h]
            \/ /\ handler[h].step = "verify" /\ handler'[h].step = "registered"
               /\ handler'[h].fingerprint = handler[h].fingerprint
               /\ handler'[h].challenge = handler[h].challenge
  PROVE  VerifiesFound'
BY DEF VerifiesFound, CanSend

\* Steps that leave the registry alone.
LEMMA ProvedKept ==
  ASSUME RegistrationsProved, offered \subseteq offered',
         \A f \in Fingerprints : Readable(registration'[f]) \subseteq Readable(registration[f]) \cup {None}
  PROVE  RegistrationsProved'
BY DEF RegistrationsProved

-----------------------------------------------------------------------------
(* One lemma for each kind of step *)

\* Steps that leave challenges and requests alone.
LEMMA ElsewhereKeeps ==
  ASSUME IInv, TypeOK', RegistrationsProved',
         UNCHANGED <<challenge, handler, nonces, offered, spent>>
  PROVE  IInv'
<1>1. \A c : Held(c)' <=> Held(c)
  BY DEF Held, Readable
<1>2. NonceInv'
  BY Zenon, <1>1, NoncesQuiet DEF IInv, Drawn
<1>3. ChallengesFiled' /\ VerifiesFound'
  BY Zenon, FiledKept, FoundKept DEF IInv
<1> QED BY <1>2, <1>3 DEF IInv

\* handleRegister registers without a proof, but the configured secret only.
LEMMA HandleRegisterKeeps ==
  ASSUME IInv, NEW k \in Key, HandleRegister(k) \/ HandleRegisterThrows(k)
  PROVE  IInv'
<1>1. TypeOK /\ LegacyPut(k)
  BY Zenon DEF IInv, HandleRegister, HandleRegisterThrows
<1>2. registration' \in [Fingerprints -> Registry]
  BY ZenonT(40), <1>1, LegacyEntry, RegistryTyped, Types
<1>3. failures' \in 0 .. MaxFailures /\ told' \subseteq [fingerprint : Fingerprints, secret : Secret]
  BY <1>1, FailsBounded DEF HandleRegister, HandleRegisterThrows, TypeOK, Fingerprints, Secret
<1>4. TypeOK'
  BY Zenon, <1>1, <1>2, <1>3, Types, TypesNext DEF HandleRegister, HandleRegisterThrows
<1>5. RegistrationsProved'
  <2>1. CASE registration' = registration
    BY Zenon, <2>1, ProvedKept DEF IInv, HandleRegister, HandleRegisterThrows
  <2>2. CASE registration' # registration
    <3> DEFINE r == [publicKey |-> k, secret |-> TUNNEL_SECRET, proof |-> Garbage]
    <3>1. /\ r \in Registration
          /\ registration' = [registration EXCEPT ![Fingerprint(k)] =
                                Written(registration[Fingerprint(k)], r)]
          /\ Fingerprint(k) \in Fingerprints
      BY Zenon, <1>1, <2>2, LegacyEntry
    <3>2. r.publicKey = k /\ r.secret = TUNNEL_SECRET
      OBVIOUS
    <3> HIDE DEF r
    <3>3. registration \in [Fingerprints -> Registry]
      BY Zenon, <1>1, Types
    <3>4. Readable(Written(registration[Fingerprint(k)], r))
            \subseteq Readable(registration[Fingerprint(k)]) \cup {r}
      BY <3>1, <3>3, WrittenEntry DEF Registry
    <3>5. offered' = offered
      BY Zenon DEF HandleRegister, HandleRegisterThrows
    <3>6. \A f \in Fingerprints : Readable(registration'[f]) \subseteq
             Readable(registration[f]) \cup (IF f = Fingerprint(k) THEN {r} ELSE {})
      BY Zenon, <3>1, <3>3, <3>4
    <3> QED BY <3>2, <3>5, <3>6 DEF IInv, RegistrationsProved
  <2> QED BY <2>1, <2>2
<1> QED BY Zenon, <1>4, <1>5, ElsewhereKeeps DEF HandleRegister, HandleRegisterThrows

LEMMA ExpireRegistrationKeeps ==
  ASSUME IInv, NEW f \in Fingerprints, ExpireRegistration(f)
  PROVE  IInv'
<1>1. TypeOK /\ registration \in [Fingerprints -> Registry]
  BY Zenon, Types DEF IInv
<1>2. /\ Expires(registration[f]) \in Registry
      /\ Readable(Expires(registration[f])) \subseteq Readable(registration[f]) \cup {None}
  BY <1>1, ExpiredEntry DEF Registry
<1>3. registration' = [registration EXCEPT ![f] = Expires(registration[f])]
  BY Zenon DEF ExpireRegistration
<1>4. TypeOK'
  BY <1>1, <1>2, Types, TypesNext DEF ExpireRegistration
<1>5. RegistrationsProved'
  BY Zenon, <1>1, <1>2, ProvedKept DEF IInv, ExpireRegistration
<1> QED BY Zenon, <1>4, <1>5, ElsewhereKeeps DEF ExpireRegistration

\* Steps of the store alone.
LEMMA StoreKeeps ==
  ASSUME IInv, TypeOK', RegistrationsProved', UNCHANGED <<handler, nonces, offered, spent>>,
         \A f \in Fingerprints :
            /\ Readable(challenge'[f]) \subseteq Readable(challenge[f]) \cup {None}
            /\ challenge'[f].now \in {challenge[f].now, None}
  PROVE  IInv'
<1>1. \A c : Held(c)' => Held(c)
  BY DEF Held
<1>2. NonceInv'
  BY Zenon, <1>1, NoncesQuiet DEF IInv, Drawn
<1>3. ChallengesFiled' /\ VerifiesFound'
  BY Zenon, FiledKept, FoundKept DEF IInv
<1> QED BY Zenon, <1>2, <1>3 DEF IInv

LEMMA ExpireChallengeKeeps ==
  ASSUME IInv, NEW f \in Fingerprints, ExpireChallenge(f)
  PROVE  IInv'
<1>1. TypeOK /\ challenge \in [Fingerprints -> Stores]
  BY Zenon, Types DEF IInv
<1>2. /\ Expires(challenge[f]) \in Stores
      /\ Readable(Expires(challenge[f])) \subseteq Readable(challenge[f]) \cup {None}
      /\ Expires(challenge[f]).now = None
  <2>1. challenge[f] \in EntryOf(Challenge \cup {None}) /\ None \in Challenge \cup {None}
    BY Zenon, <1>1 DEF Stores
  <2> QED BY Zenon, <2>1, ExpiredEntry DEF Stores
<1>3. challenge' = [challenge EXCEPT ![f] = Expires(challenge[f])]
  BY Zenon DEF ExpireChallenge
<1>4. TypeOK'
  BY <1>1, <1>2, Types, TypesNext DEF ExpireChallenge
<1>5. RegistrationsProved'
  BY Zenon, ProvedKept DEF IInv, ExpireChallenge
<1> QED BY Zenon, <1>1, <1>2, <1>4, <1>5, StoreKeeps DEF ExpireChallenge

LEMMA PropagateKeeps ==
  ASSUME IInv, NEW f \in Fingerprints, Propagate(f)
  PROVE  IInv'
<1>1. TypeOK /\ challenge \in [Fingerprints -> Stores] /\ registration \in [Fingerprints -> Registry]
  BY Zenon, Types DEF IInv
<1>2. \A g \in Fingerprints :
        /\ challenge'[g] \in Stores /\ challenge'[g].now = challenge[g].now
        /\ Readable(challenge'[g]) \subseteq Readable(challenge[g])
  BY <1>1 DEF Propagate, Stores, EntryOf, Readable
<1>3. \A g \in Fingerprints :
        /\ registration'[g] \in Registry
        /\ Readable(registration'[g]) \subseteq Readable(registration[g])
  BY <1>1 DEF Propagate, Registry, EntryOf, Readable
<1>4. challenge' \in [Fingerprints -> Stores] /\ registration' \in [Fingerprints -> Registry]
  BY ZenonT(40), <1>1, <1>2, <1>3 DEF Propagate
<1>5. TypeOK'
  BY Zenon, <1>1, <1>4, Types, TypesNext DEF Propagate
<1>6. RegistrationsProved'
  BY Zenon, <1>3, ProvedKept DEF IInv, Propagate
<1> QED BY ZenonT(40), <1>2, <1>5, <1>6, StoreKeeps DEF Propagate

-----------------------------------------------------------------------------
(* handleRegisterInit *)

LEMMA InitStartKeeps ==
  ASSUME IInv, NEW h \in Handler, NEW k \in Key, InitStart(h, k)
  PROVE  IInv'
<1> DEFINE d == [publicKey |-> k, nonce |-> nonces']
<1>1. TypeOK /\ NonceInv /\ handler \in [Handler -> Request]
  BY Zenon, Types DEF IInv
<1>2. nonces' = nonces + 1 /\ nonces \in Nat /\ nonces' \in 1 .. MaxNonces
  BY <1>1, BoundsAssumption DEF TypeOK, InitStart
<1>3. d \in Challenge /\ d.nonce = nonces'
  BY Zenon, <1>2 DEF Challenge
<1>4. /\ handler' = [handler EXCEPT ![h] = [step |-> "init", challenge |-> d]]
      /\ UNCHANGED <<REGISTRY, challenge, registration, secrets, offered, told, spent, failures>>
  BY Zenon DEF InitStart
<1> HIDE DEF d
<1>5. handler' \in [Handler -> Request] /\ handler'[h].step = "init" /\ handler'[h].challenge = d
      /\ \A g \in Handler : g # h => handler'[g] = handler[g]
  BY Zenon, <1>1, <1>3, <1>4 DEF Request, Initing
<1>6. TypeOK'
  BY <1>1, <1>2, <1>4, <1>5, Types, TypesNext
<1>7. \A c : Held(c)' => Held(c)
  BY Zenon, <1>4, <1>5 DEF Held
<1>8. NonceInv'
  <2>1. HeldOnce'
    <3>1. \A c : Held(c) => c.nonce \in Nat /\ c.nonce <= nonces
      BY <1>1, HeldTyped DEF NonceInv, HeldOnce, Challenge
    <3>2. \A c : Held(c)' => c.nonce <= nonces'
      BY <1>2, <1>7, <3>1
    <3> QED BY Zenon, <1>1, <1>7, <3>2 DEF NonceInv, HeldOnce
  <2>2. \A c : Held(c) => c.nonce # nonces'
    <3> SUFFICES ASSUME NEW c, Held(c), c.nonce = nonces' PROVE FALSE
      OBVIOUS
    <3>1. c.nonce <= nonces
      BY Zenon, <1>1 DEF NonceInv, HeldOnce
    <3> QED BY <1>2, <3>1
  <2>3. nonces' \notin spent
    BY <1>1, <1>2 DEF NonceInv, SpentDrawn
  <2>4. \A g \in Handler : g # h /\ Drawn(g)' =>
          /\ Drawn(g) /\ handler'[g].challenge = handler[g].challenge
          /\ handler[g].challenge.nonce <= nonces /\ handler[g].challenge.nonce \in Nat
    <3> TAKE g \in Handler
    <3> HAVE g # h /\ Drawn(g)'
    <3>1. Drawn(g) /\ handler'[g] = handler[g]
      BY Zenon, <1>5 DEF Drawn
    <3>2. handler[g] \in Initing
      BY Zenon, <1>1, <3>1, Requests DEF Drawn
    <3>3. handler[g].challenge.nonce \in Nat
      BY <3>2 DEF Initing, Challenge
    <3> QED BY Zenon, <1>1, <3>1, <3>3 DEF NonceInv, DrawnFresh
  <2>5. DrawnFresh'
    BY <1>1, <1>2, <1>3, <1>4, <1>7, <2>2, <2>3, <2>4 DEF NonceInv, DrawnFresh
  <2>6. SpentDrawn'
    <3>1. \A n \in spent : n \in 1 .. MaxNonces /\ n <= nonces
      BY Zenon, <1>1 DEF TypeOK, NonceInv, SpentDrawn
    <3>2. \A n \in spent : n <= nonces'
      BY <1>2, <3>1, BoundsAssumption
    <3> QED BY Zenon, <1>4, <3>2 DEF SpentDrawn
  <2>7. SpentNonceNeverLive'
    BY Zenon, <1>1, <1>4 DEF NonceInv, SpentNonceNeverLive
  <2> QED BY <2>1, <2>5, <2>6, <2>7 DEF NonceInv
<1>9. ChallengesFiled' /\ RegistrationsProved'
  BY Zenon, <1>4, FiledKept, ProvedKept DEF IInv
<1>10. VerifiesFound'
  BY Zenon, <1>4, <1>5, FoundKept DEF IInv
<1> QED BY <1>6, <1>8, <1>9, <1>10 DEF IInv

\* The put of a challenge, told of or not.
LEMMA InitStoreKeeps ==
  ASSUME IInv, NEW h \in Handler, InitStore(h) \/ InitThrows(h)
  PROVE  IInv'
<1> DEFINE d == handler[h].challenge
           f == Fingerprint(d.publicKey)
<1>1. TypeOK /\ NonceInv /\ handler \in [Handler -> Request] /\ challenge \in [Fingerprints -> Stores]
  BY Zenon, Types DEF IInv
<1>2. handler[h] \in Initing /\ Drawn(h)
  BY Zenon, <1>1, Requests DEF InitStore, InitThrows, Drawn
<1>3. d \in Challenge /\ f \in Fingerprints
  BY Zenon, <1>2 DEF Initing, Fingerprints, Challenge
<1>4. \/ challenge' = challenge
      \/ challenge' = [challenge EXCEPT ![f] = Written(challenge[f], d)]
  BY Zenon DEF InitStore, InitThrows
<1>5. /\ UNCHANGED <<REGISTRY, registration, nonces, secrets, told, spent>>
      /\ Replies(h) /\ offered' \subseteq offered \cup {d} /\ offered \subseteq offered'
      /\ failures' = failures \/ Fails
  BY Zenon DEF InitStore, InitThrows
<1>6. f = Fingerprint(d.publicKey)
  OBVIOUS
<1>7. handler' \in [Handler -> Request] /\ handler'[h] = Idle
      /\ \A g \in Handler : g # h => handler'[g] = handler[g]
  BY <1>1, <1>5, RepliesTyped
<1>8. d = handler[h].challenge
  OBVIOUS
<1> HIDE DEF f, d
<1>9. /\ Written(challenge[f], d) \in Stores
      /\ Readable(Written(challenge[f], d)) \subseteq Readable(challenge[f]) \cup {d}
      /\ Written(challenge[f], d).now = d
  <2>1. challenge[f] \in EntryOf(Challenge \cup {None}) /\ d \in Challenge \cup {None}
    BY Zenon, <1>1, <1>3 DEF Stores
  <2> QED BY <2>1, WrittenEntry DEF Stores
<1>10. /\ challenge' \in [Fingerprints -> Stores]
       /\ \A g \in Fingerprints :
            /\ Readable(challenge'[g]) \subseteq
                 Readable(challenge[g]) \cup (IF g = f THEN {d} ELSE {})
            /\ challenge'[g].now \in {challenge[g].now, d}
  BY Zenon, <1>1, <1>3, <1>4, <1>9
<1>11. TypeOK'
  <2>1. offered' \subseteq Challenge /\ failures' \in 0 .. MaxFailures
    BY Zenon, <1>1, <1>3, <1>5, FailsBounded DEF TypeOK
  <2> QED BY Zenon, <1>1, <1>5, <1>7, <1>10, <2>1, Types, TypesNext
<1>12. \A c : Held(c)' => Held(c) \/ c = d
  BY <1>7, <1>10 DEF Held, Idle
<1>13. NonceInv'
  BY <1>1, <1>2, <1>5, <1>7, <1>8, <1>10, <1>12, NoncesStored DEF Drawn, Idle
<1>14. ChallengesFiled'
  BY Zenon, <1>6, <1>10, FiledKept DEF IInv
<1>15. VerifiesFound'
  BY <1>5, <1>7, FoundKept DEF IInv, Idle
<1>16. RegistrationsProved'
  BY Zenon, <1>5, ProvedKept DEF IInv
<1> QED BY <1>11, <1>13, <1>14, <1>15, <1>16 DEF IInv

-----------------------------------------------------------------------------
(* handleRegisterVerify *)

\* The challenge found is one that is held, and under its fingerprint.
LEMMA VerifyReadKeeps ==
  ASSUME IInv, NEW h \in Handler, NEW f \in Fingerprints, NEW p \in CanSend, VerifyRead(h, f, p)
  PROVE  IInv'
<1>1. TypeOK /\ NonceInv /\ handler \in [Handler -> Request]
  BY Zenon, Types DEF IInv
<1>2. PICK c \in Found(challenge[f]) : handler' = [handler EXCEPT ![h] =
         [step |-> "verify", fingerprint |-> f, proof |-> p, challenge |-> c]]
  BY ZenonT(40) DEF VerifyRead
<1>3. UNCHANGED <<REGISTRY, challenge, registration, nonces, secrets, offered, told, spent, failures>>
  BY Zenon DEF VerifyRead
<1>4. c \in Readable(challenge[f]) /\ c # None
  BY DEF Found
<1>5. Held(c) /\ c \in Challenge
  BY Zenon, <1>1, <1>4, HeldTyped DEF Held
<1>6. p \in Proofs
  BY <1>1 DEF TypeOK, CanSend, Proofs
<1>7. /\ handler'[h] = [step |-> "verify", fingerprint |-> f, proof |-> p, challenge |-> c]
      /\ \A g \in Handler : g # h => handler'[g] = handler[g]
      /\ handler' \in [Handler -> Request]
  BY Zenon, <1>1, <1>2, <1>5, <1>6 DEF Request, Verifying
<1>8. /\ handler'[h].step = "verify" /\ handler'[h].fingerprint = f
      /\ handler'[h].proof = p /\ handler'[h].challenge = c
  BY <1>7
<1>9. TypeOK'
  BY Zenon, <1>1, <1>3, <1>7, Types, TypesNext
<1>10. \A d : Held(d)' => Held(d)
  BY <1>3, <1>5, <1>7 DEF Held
<1>11. NonceInv'
  BY Zenon, <1>1, <1>3, <1>7, <1>8, <1>10, NoncesQuiet DEF Drawn
<1>12. f = Fingerprint(c.publicKey)
  BY <1>4 DEF IInv, ChallengesFiled
<1>13. VerifiesFound'
  BY <1>3, <1>4, <1>7, <1>12 DEF IInv, VerifiesFound, CanSend
<1>14. ChallengesFiled' /\ RegistrationsProved'
  BY Zenon, <1>3, FiledKept, ProvedKept DEF IInv
<1> QED BY <1>9, <1>11, <1>13, <1>14 DEF IInv

\* Steps that end a request, or take it from verifying to registered.
LEMMA RequestEnds ==
  ASSUME IInv, NEW h \in Handler, UNCHANGED <<nonces, spent, challenge, offered>>,
         TypeOK', RegistrationsProved',
         \A g \in Handler : g # h => handler'[g] = handler[g],
         \/ handler'[h] = Idle
         \/ /\ handler[h].step = "verify" /\ handler'[h].step = "registered"
            /\ handler'[h].fingerprint = handler[h].fingerprint
            /\ handler'[h].challenge = handler[h].challenge
  PROVE  IInv'
<1>1. \A c : Held(c)' => Held(c)
  BY DEF Held, Idle
<1>2. NonceInv'
  BY <1>1, NoncesQuiet DEF IInv, Drawn, Idle
<1>3. ChallengesFiled' /\ VerifiesFound'
  BY FiledKept, FoundKept DEF IInv, Idle
<1> QED BY Zenon, <1>2, <1>3 DEF IInv

LEMMA VerifyRefuseKeeps ==
  ASSUME IInv, NEW h \in Handler, VerifyRefuse(h)
  PROVE  IInv'
<1>1. TypeOK /\ handler \in [Handler -> Request]
  BY Zenon, Types DEF IInv
<1>2. /\ UNCHANGED <<REGISTRY, challenge, registration, nonces, secrets, offered, told, spent>>
      /\ Replies(h) /\ failures' \in 0 .. MaxFailures
  BY <1>1, BoundsAssumption DEF VerifyRefuse, TypeOK
<1>3. /\ handler' \in [Handler -> Request] /\ handler'[h] = Idle
      /\ \A g \in Handler : g # h => handler'[g] = handler[g]
  BY <1>1, <1>2, RepliesTyped
<1>4. TypeOK'
  BY Zenon, <1>1, <1>2, <1>3, Types, TypesNext
<1>5. RegistrationsProved'
  BY Zenon, <1>2, ProvedKept DEF IInv
<1> QED BY Zenon, <1>2, <1>3, <1>4, <1>5, RequestEnds

\* What verify registers rests on the proof it has checked.
LEMMA RegistersProved ==
  ASSUME IInv, NEW h \in Handler, Registers(h), offered' = offered
  PROVE  registration' \in [Fingerprints -> Registry] /\ RegistrationsProved'
<1> DEFINE f == handler[h].fingerprint
           d == handler[h].challenge
           r == [publicKey |-> d.publicKey, secret |-> secrets', proof |-> handler[h].proof]
<1>1. TypeOK /\ registration \in [Fingerprints -> Registry]
  BY Zenon, Types DEF IInv
<1>2. /\ f \in Fingerprints /\ r \in Registration
      /\ registration' = [registration EXCEPT ![f] = Written(registration[f], r)]
  BY Zenon, <1>1, RegistersEntry
<1>3. registration' \in [Fingerprints -> Registry]
  BY ZenonT(40), <1>1, <1>2, RegistryTyped
<1>4. Readable(Written(registration[f], r)) \subseteq Readable(registration[f]) \cup {r}
  BY <1>1, <1>2, WrittenEntry DEF Registry
<1>5. /\ handler[h].step = "verify" /\ handler[h].proof = Proof(d)
      /\ handler[h].proof \in CanSend /\ d # None /\ f = Fingerprint(d.publicKey)
  BY Zenon DEF Registers, Accepts, IInv, VerifiesFound
<1>6. d \in offered
  <2>1. ASSUME NEW c, Proof(d) = Proof(c) PROVE d = c
    <3>1. Proof(d).mac = d /\ Proof(c).mac = c
      BY DEF Proof
    <3> QED BY <2>1, <3>1
  <2>2. Proof(d) # Garbage
    <3>1. Proof(d).mac = d /\ Garbage.mac = None
      BY DEF Proof, Garbage
    <3> QED BY Zenon, <1>5, <3>1
  <2>3. PICK c \in offered : Proof(d) = Proof(c)
    BY Zenon, <1>5, <2>2 DEF CanSend
  <2> QED BY Zenon, <2>1, <2>3
<1>7. r.publicKey = d.publicKey /\ r.proof = Proof(d)
  BY Zenon, <1>5
<1> HIDE DEF r, d, f
<1>8. \A g \in Fingerprints : Readable(registration'[g]) \subseteq
         Readable(registration[g]) \cup (IF g = f THEN {r} ELSE {})
  BY <1>2, <1>4
<1>9. RegistrationsProved'
  BY <1>5, <1>6, <1>7, <1>8 DEF IInv, RegistrationsProved
<1> QED BY <1>3, <1>9

LEMMA VerifyPutKeeps ==
  ASSUME IInv, NEW h \in Handler, VerifyPut(h) \/ VerifyPutThrows(h)
  PROVE  IInv'
<1>1. TypeOK /\ handler \in [Handler -> Request] /\ Registers(h)
  BY Zenon, Types DEF IInv, VerifyPut, VerifyPutThrows
<1>2. UNCHANGED <<REGISTRY, challenge, nonces, offered, told, spent>>
  BY Zenon DEF VerifyPut, VerifyPutThrows
<1>3. registration' \in [Fingerprints -> Registry] /\ RegistrationsProved'
  BY <1>1, <1>2, RegistersProved
<1>4. handler[h] \in Verifying /\ secrets' \in 1 .. MaxSecrets
  BY ZenonT(40), <1>1, RegistersEntry
<1>5. failures' \in 0 .. MaxFailures
  BY Zenon, <1>1, FailsBounded DEF VerifyPut, VerifyPutThrows, TypeOK
<1>6. /\ handler' \in [Handler -> Request]
      /\ \A g \in Handler : g # h => handler'[g] = handler[g]
      /\ \/ handler'[h] = Idle
         \/ /\ handler[h].step = "verify" /\ handler'[h].step = "registered"
            /\ handler'[h].fingerprint = handler[h].fingerprint
            /\ handler'[h].challenge = handler[h].challenge
  <2>1. CASE VerifyPut(h)
    <3> DEFINE q == [step |-> "registered", fingerprint |-> handler[h].fingerprint,
                     challenge |-> handler[h].challenge, secret |-> secrets']
    <3>1. handler' = [handler EXCEPT ![h] = q]
      BY Zenon, <2>1 DEF VerifyPut
    <3>2. q \in Registered
      BY Zenon, <1>4 DEF Verifying, Registered
    <3>3. /\ q.step = "registered" /\ q.fingerprint = handler[h].fingerprint
          /\ q.challenge = handler[h].challenge
      OBVIOUS
    <3>4. q \in Request
      BY Zenon, <3>2 DEF Request
    <3>5. handler[h].step = "verify"
      BY <1>4 DEF Verifying
    <3> HIDE DEF q
    <3>6. handler'[h] = q /\ handler' \in [Handler -> Request]
          /\ \A g \in Handler : g # h => handler'[g] = handler[g]
      BY <1>1, <3>1, <3>4
    <3> QED BY Zenon, <3>3, <3>5, <3>6
  <2>2. CASE VerifyPutThrows(h)
    BY Zenon, <1>1, <2>2, RepliesTyped DEF VerifyPutThrows
  <2> QED BY Zenon, <2>1, <2>2
<1>7. TypeOK'
  BY <1>1, <1>2, <1>3, <1>4, <1>5, <1>6, Types, TypesNext
<1> QED BY Zenon, <1>2, <1>3, <1>6, <1>7, RequestEnds

\* The delete of whatever challenge is stored under the fingerprint by now.
LEMMA RemovedStore ==
  ASSUME TypeOK, NEW f \in Fingerprints,
         challenge' = [challenge EXCEPT ![f] = Removed(challenge[f])]
  PROVE  /\ challenge' \in [Fingerprints -> Stores]
         /\ challenge'[f].now = None
         /\ \A g \in Fingerprints :
              /\ Readable(challenge'[g]) \subseteq Readable(challenge[g]) \cup {None}
              /\ challenge'[g].now \in {challenge[g].now, None}
              /\ g # f => challenge'[g] = challenge[g]
<1>1. challenge \in [Fingerprints -> Stores]
  BY Zenon, Types
<1>2. challenge[f] \in EntryOf(Challenge \cup {None}) /\ None \in Challenge \cup {None}
  BY Zenon, <1>1 DEF Stores
<1>3. /\ Removed(challenge[f]) \in Stores
      /\ Readable(Removed(challenge[f])) \subseteq Readable(challenge[f]) \cup {None}
      /\ Removed(challenge[f]).now = None
  BY <1>2, WrittenEntry DEF Stores, Removed
<1> QED BY Zenon, <1>1, <1>3

\* A nonce is spent with the delete, and no entry has it afterwards.
LEMMA SpendKeeps ==
  ASSUME IInv, NEW h \in Handler, handler[h].step \in {"verify", "registered"},
         challenge' = [challenge EXCEPT ![handler[h].fingerprint] = Removed(challenge[handler[h].fingerprint])],
         spent' = spent \cup {handler[h].challenge.nonce},
         UNCHANGED <<nonces, offered>>, TypeOK', RegistrationsProved',
         handler' = [handler EXCEPT ![h] = Idle]
  PROVE  IInv'
<1> DEFINE d == handler[h].challenge
           f == handler[h].fingerprint
<1>1. TypeOK /\ NonceInv /\ handler \in [Handler -> Request]
  BY Zenon, Types DEF IInv
<1>2. f \in Fingerprints
  BY <1>1, Requests DEF Verifying, Registered
<1>3. f = Fingerprint(d.publicKey) /\ Held(d)
  BY Zenon DEF IInv, VerifiesFound, Held
<1>4. handler'[h] = Idle /\ \A g \in Handler : g # h => handler'[g] = handler[g]
  BY Zenon, <1>1
<1>5. spent' = spent \cup {d.nonce} /\ challenge' = [challenge EXCEPT ![f] = Removed(challenge[f])]
  OBVIOUS
<1> HIDE DEF d, f
<1>6. /\ challenge'[f].now = None
      /\ \A g \in Fingerprints :
           /\ Readable(challenge'[g]) \subseteq Readable(challenge[g]) \cup {None}
           /\ challenge'[g].now \in {challenge[g].now, None}
           /\ g # f => challenge'[g] = challenge[g]
  BY ZenonT(40), <1>1, <1>2, <1>5, RemovedStore
<1>7. \A c : Held(c)' => Held(c)
  BY SMTT(40), <1>4, <1>6 DEF Held, Readable, Idle
<1>8. \A g \in Fingerprints : challenge[g].now # None =>
        Held(challenge[g].now) /\ g = Fingerprint(challenge[g].now.publicKey)
  BY Zenon DEF Held, Readable, IInv, ChallengesFiled
<1>9. \A g \in Fingerprints : challenge'[g].now # None => challenge'[g].now # d
  BY <1>3, <1>6, <1>8
<1>10. \A g \in Handler : Drawn(g)' => Drawn(g) /\ handler'[g].challenge = handler[g].challenge
  BY DEF Drawn, Idle
<1>11. NonceInv'
  BY ZenonT(40), <1>1, <1>3, <1>5, <1>6, <1>7, <1>8, <1>9, <1>10, NoncesSpent
<1>12. ChallengesFiled'
  BY Zenon, <1>6, FiledKept DEF IInv
<1>13. VerifiesFound'
  BY FoundKept DEF IInv, Idle
<1> QED BY Zenon, <1>11, <1>12, <1>13 DEF IInv

LEMMA GrantsTyped ==
  ASSUME TypeOK, NEW f \in Fingerprints, NEW s \in 1 .. MaxSecrets, NEW c \in Challenge,
         Grants(f, s, c.nonce)
  PROVE  /\ told' \subseteq [fingerprint : Fingerprints, secret : Secret]
         /\ spent' \subseteq 1 .. MaxNonces
<1>1. told' = told \cup {[fingerprint |-> f, secret |-> s]} /\ s \in Secret
      /\ spent' = spent \cup {c.nonce} /\ c.nonce \in 1 .. MaxNonces
  BY DEF Grants, Secret, Challenge
<1>2. /\ told \subseteq [fingerprint : Fingerprints, secret : Secret]
      /\ spent \subseteq 1 .. MaxNonces
  BY Zenon DEF TypeOK
<1>3. [fingerprint |-> f, secret |-> s] \in [fingerprint : Fingerprints, secret : Secret]
  BY Zenon, <1>1
<1> QED BY ZenonT(40), <1>1, <1>2, <1>3

LEMMA VerifyDeleteKeeps ==
  ASSUME IInv, NEW h \in Handler, VerifyDelete(h)
  PROVE  IInv'
<1>1. TypeOK /\ handler \in [Handler -> Request]
  BY Zenon, Types DEF IInv
<1>2. /\ UNCHANGED <<REGISTRY, registration, nonces, secrets, offered, failures>>
      /\ challenge' = [challenge EXCEPT ![handler[h].fingerprint] = Removed(challenge[handler[h].fingerprint])]
      /\ Grants(handler[h].fingerprint, handler[h].secret, handler[h].challenge.nonce)
      /\ Replies(h) /\ handler[h].step = "registered"
  BY Zenon DEF VerifyDelete
<1>3. handler[h] \in Registered
  BY Zenon, <1>1, <1>2, Requests
<1>4. /\ handler[h].fingerprint \in Fingerprints /\ handler[h].secret \in 1 .. MaxSecrets
      /\ handler[h].challenge \in Challenge
  BY Zenon, <1>3 DEF Registered
<1>5. challenge' \in [Fingerprints -> Stores]
  BY ZenonT(40), <1>1, <1>2, <1>4, RemovedStore
<1>6. handler' = [handler EXCEPT ![h] = Idle] /\ handler' \in [Handler -> Request]
  BY Zenon, <1>1, <1>2, RepliesTyped
<1>7. TypeOK'
  BY Zenon, <1>1, <1>2, <1>4, <1>5, <1>6, GrantsTyped, Types, TypesNext
<1>8. RegistrationsProved'
  BY Zenon, <1>2, ProvedKept DEF IInv
<1>9. spent' = spent \cup {handler[h].challenge.nonce}
  BY Zenon, <1>2 DEF Grants
<1> QED BY ZenonT(40), <1>2, <1>6, <1>7, <1>8, <1>9, SpendKeeps

LEMMA VerifyLocalKeeps ==
  ASSUME IInv, NEW h \in Handler, VerifyLocal(h)
  PROVE  IInv'
<1>1. TypeOK /\ handler \in [Handler -> Request] /\ Registers(h)
  BY Zenon, Types DEF IInv, VerifyLocal
<1>2. /\ UNCHANGED <<REGISTRY, nonces, offered, failures>>
      /\ challenge' = [challenge EXCEPT ![handler[h].fingerprint] = Removed(challenge[handler[h].fingerprint])]
      /\ Grants(handler[h].fingerprint, secrets', handler[h].challenge.nonce)
      /\ Replies(h)
  BY Zenon DEF VerifyLocal
<1>3. handler[h] \in Verifying /\ secrets' \in 1 .. MaxSecrets
  BY ZenonT(40), <1>1, RegistersEntry
<1>4. /\ handler[h].fingerprint \in Fingerprints /\ handler[h].challenge \in Challenge
      /\ handler[h].step = "verify"
  BY Zenon, <1>3 DEF Verifying
<1>5. challenge' \in [Fingerprints -> Stores]
  BY ZenonT(40), <1>1, <1>2, <1>4, RemovedStore
<1>6. handler' = [handler EXCEPT ![h] = Idle] /\ handler' \in [Handler -> Request]
  BY Zenon, <1>1, <1>2, RepliesTyped
<1>7. registration' \in [Fingerprints -> Registry] /\ RegistrationsProved'
  BY Zenon, <1>1, <1>2, RegistersProved
<1>8. /\ told' \subseteq [fingerprint : Fingerprints, secret : Secret]
      /\ spent' \subseteq 1 .. MaxNonces
  BY Zenon, <1>1, <1>2, <1>3, <1>4, GrantsTyped
<1>9. TypeOK'
  BY <1>1, <1>2, <1>3, <1>5, <1>6, <1>7, <1>8, Types, TypesNext
<1>10. spent' = spent \cup {handler[h].challenge.nonce}
  BY Zenon, <1>2 DEF Grants
<1> QED BY ZenonT(40), <1>2, <1>4, <1>6, <1>7, <1>9, <1>10, SpendKeeps

LEMMA VerifyDeleteThrowsKeeps ==
  ASSUME IInv, NEW h \in Handler, VerifyDeleteThrows(h)
  PROVE  IInv'
<1>1. TypeOK /\ handler \in [Handler -> Request] /\ challenge \in [Fingerprints -> Stores]
  BY Zenon, Types DEF IInv
<1>2. /\ UNCHANGED <<REGISTRY, registration, nonces, secrets, offered, told, spent>>
      /\ Replies(h) /\ Fails /\ handler[h].step = "registered"
  BY Zenon DEF VerifyDeleteThrows
<1>3. handler[h].fingerprint \in Fingerprints
  BY <1>1, <1>2, Requests DEF Registered
<1>4. /\ challenge' \in [Fingerprints -> Stores]
      /\ \A g \in Fingerprints :
           /\ Readable(challenge'[g]) \subseteq Readable(challenge[g]) \cup {None}
           /\ challenge'[g].now \in {challenge[g].now, None}
  <2>1. CASE challenge' = challenge
    BY <1>1, <2>1
  <2>2. CASE challenge' # challenge
    <3>1. challenge' = [challenge EXCEPT ![handler[h].fingerprint] =
                          Removed(challenge[handler[h].fingerprint])]
      BY Zenon, <2>2 DEF VerifyDeleteThrows
    <3> QED BY ZenonT(40), <1>1, <3>1, RemovedStore
  <2> QED BY Zenon, <2>1, <2>2
<1>5. /\ handler' \in [Handler -> Request] /\ handler'[h] = Idle
      /\ \A g \in Handler : g # h => handler'[g] = handler[g]
  BY <1>1, <1>2, RepliesTyped
<1>6. TypeOK'
  BY Zenon, <1>1, <1>2, <1>4, <1>5, FailsBounded, Types, TypesNext
<1>7. \A c : Held(c)' => Held(c)
  BY <1>4, <1>5 DEF Held, Idle
<1>8. NonceInv'
  BY <1>2, <1>4, <1>5, <1>7, NoncesQuiet DEF IInv, Drawn, Idle
<1>9. ChallengesFiled' /\ VerifiesFound' /\ RegistrationsProved'
  BY <1>2, <1>4, <1>5, FiledKept, FoundKept, ProvedKept DEF IInv, Idle
<1> QED BY <1>6, <1>8, <1>9 DEF IInv

-----------------------------------------------------------------------------
(* The theorems *)

LEMMA Initial == Init => IInv
<1> SUFFICES ASSUME Init PROVE IInv
  OBVIOUS
<1>1. Entry(None) \in Stores /\ Entry(None) \in Registry /\ Readable(Entry(None)) = {None}
      /\ Entry(None).now = None
  BY DEF Entry, Stores, Registry, EntryOf, Readable
<1>2. Idle \in Request /\ Idle.step = "idle"
  BY DEF Request, Idle
<1>3. TypeOK
  BY <1>1, <1>2, Types, BoundsAssumption DEF Init
<1>4. \A c : ~Held(c)
  BY Zenon, <1>1, <1>2 DEF Init, Held
<1>5. NonceInv
  BY Zenon, <1>2, <1>4
    DEF Init, NonceInv, HeldOnce, DrawnFresh, Drawn, SpentDrawn, SpentNonceNeverLive
<1>6. ChallengesFiled /\ VerifiesFound /\ RegistrationsProved
  BY Zenon, <1>1, <1>2 DEF Init, ChallengesFiled, VerifiesFound, RegistrationsProved
<1> QED BY <1>3, <1>5, <1>6 DEF IInv

LEMMA StepKeeps == IInv /\ [Next]_vars => IInv'
<1> SUFFICES ASSUME IInv, [Next]_vars PROVE IInv'
  OBVIOUS
<1>1. CASE Fetch
  BY <1>1, HandleRegisterKeeps, InitStartKeeps, VerifyReadKeeps, RegistrantAssumption
  DEF Fetch, Fingerprints
<1>2. ASSUME NEW h \in Handler, HandlerStep(h) PROVE IInv'
  BY <1>2, InitStoreKeeps, VerifyRefuseKeeps, VerifyPutKeeps, VerifyDeleteKeeps,
    VerifyDeleteThrowsKeeps, VerifyLocalKeeps
    DEF HandlerStep
<1>3. ASSUME NEW f \in Fingerprints, StoreStep(f) PROVE IInv'
  BY <1>3, ExpireChallengeKeeps, ExpireRegistrationKeeps, PropagateKeeps DEF StoreStep
<1>4. CASE UNCHANGED vars
  <2>1. TypeOK'
    BY Zenon, <1>4, Types, TypesNext DEF IInv, vars
  <2>2. RegistrationsProved'
    BY Zenon, <1>4, ProvedKept DEF IInv, vars
  <2> QED BY <1>4, <2>1, <2>2, ElsewhereKeeps DEF vars
<1> QED BY <1>1, <1>2, <1>3, <1>4 DEF Next

LEMMA Invariant == Spec => []IInv
<1>1. Init => IInv
  BY Initial
<1>2. IInv /\ [Next]_vars => IInv'
  BY StepKeeps
<1> QED BY <1>1, <1>2, PTL DEF Spec

\* The store, the requests and the replies of the Worker keep their types; no
\* verify request goes on without a challenge (index.ts:236-261).
THEOREM TypeCorrect == Spec => []TypeOK
<1>1. IInv => TypeOK
  BY DEF IInv
<1> QED BY <1>1, Invariant, PTL

\* Only a proof over a challenge sent for the very key registers a secret of its
\* own for the fingerprint of that key (handleRegisterVerify, index.ts:220-359).
THEOREM OnlyProvedRegistrations == Spec => []RegistrationsProved
<1>1. IInv => RegistrationsProved
  BY DEF IInv
<1> QED BY <1>1, Invariant, PTL

\* A nonce that bought a tunnel URL is never the stored challenge of any key
\* again (handleRegisterVerify's delete, index.ts:332-335).
THEOREM SpentNoncesStayDead == Spec => []SpentNonceNeverLive
<1>1. IInv => SpentNonceNeverLive
  BY DEF IInv, NonceInv
<1> QED BY <1>1, Invariant, PTL

=============================================================================
