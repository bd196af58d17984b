-------------------------- MODULE RelayRegistration --------------------------
(***************************************************************************)
(* Registration at the Fly relay: POST /api/register/init hands out a      *)
(* challenge for a Headscale key, POST /api/register/verify turns a proof  *)
(* of possession of that key into a registration with a tunnel secret.     *)
(*                                                                         *)
(* Each handler takes the server mutex twice and computes in between, so   *)
(* each is two actions here; a Caller is a request goroutine of net/http.  *)
(* Requests turned away before the first critical section (wrong method,   *)
(* rate limited, undecodable body, malformed key, empty field) change      *)
(* nothing and are stuttering steps.                                       *)
(*                                                                         *)
(* Time: a challenge carries `left', its ExpiresAt minus the current time, *)
(* counted down by Tick and held at -1 once ExpiresAt is strictly past.    *)
(* randomHex(32) is the next number of `draws', never drawn before.        *)
(***************************************************************************)
EXTENDS Integers

CONSTANTS
  Key,                 \* public keys that pass init's "mkey:" and hex checks
  CurveKey,            \* those of them that are usable X25519 points
  Fingerprint,         \* 32-character subdomain labels
  ComputeFingerprint,  \* computeFingerprint, as a function on Key
  Caller,              \* concurrent register requests
  TTL,                 \* life of a challenge (5 minutes), in clock ticks
  MaxAttempts,         \* proofs one challenge may be tried with
  MaxDraws,            \* bound on the random values drawn
  None                 \* absent map entry; also a proof that proves nothing

ASSUME KeysAssumption ==
  /\ CurveKey \subseteq Key
  /\ ComputeFingerprint \in [Key -> Fingerprint]

ASSUME LimitsAssumption ==
  /\ TTL \in Nat \ {0}
  /\ MaxAttempts \in Nat \ {0}
  /\ MaxDraws \in Nat

VARIABLES
  challenges,          \* Server.challenges
  registrations,       \* Server.registrations
  call,                \* progress, or last reply, of each request goroutine
  draws,               \* random values drawn so far
  issued,              \* challenges sent to callers: what proofs can be made of
  grants,              \* history: the registrations ever made, and why
  tries                \* history: proofs admitted for checking, per nonce

vars == <<challenges, registrations, call, draws, issued, grants, tries>>

Draw == 1 .. MaxDraws

Challenge ==
  [publicKey : Key, nonce : Draw, left : -1 .. TTL, attempts : 0 .. MaxAttempts]

Registration == [publicKey : Key, secret : Draw]

Proof == [fingerprint : Fingerprint, publicKey : Key, nonce : Draw]

Status == {"none", "challenge", "conflict", "error", "gone", "refused",
           "registered", "reset"}

RepliedCall == [pc : {"replied"}, status : Status, value : 0 .. MaxDraws]

StoreCall == [pc : {"store"}, publicKey : Key, left : -1 .. TTL]

CheckCall == [pc : {"check"}, fingerprint : Fingerprint,
              proof : Proof \cup {None}, challenge : Challenge]

Call == RepliedCall \cup StoreCall \cup CheckCall

ASSUME NoneAssumption ==
  None \notin Challenge /\ None \notin Registration /\ None \notin Proof

Replied(status, value) == [pc |-> "replied", status |-> status, value |-> value]

\* time.Now().Before(ExpiresAt), as init asks it; and the slip of taking no
\* challenge for a live one, as protocol v1 did.
LiveNever(ch) == FALSE
Live(ch) == ch # None /\ ch.left > 0

\* time.Now().After(ExpiresAt), as verify asks it: false at the last instant.
Expired(ch) == ch # None /\ ch.left < 0

\* registrationProof: a keyed MAC over the whole transcript, which only the
\* holder of publicKey's private half can compute. The ephemeral key is drawn
\* with the nonce, so the nonce stands for both.
RegistrationProof(f, k, n) == [fingerprint |-> f, publicKey |-> k, nonce |-> n]

\* What a caller can put in a verify request: the proof for a challenge that
\* was sent to a key's holder, or any other string.
ProofSent ==
  {RegistrationProof(ComputeFingerprint[i.publicKey], i.publicKey, i.nonce) :
     i \in {j \in issued : j.publicKey \in CurveKey}} \cup {None}

Init ==
  /\ challenges = [f \in Fingerprint |-> None]
  /\ registrations = [f \in Fingerprint |-> None]
  /\ call = [c \in Caller |-> Replied("none", 0)]
  /\ draws = 0
  /\ issued = {}
  /\ grants = {}
  /\ tries = [n \in Draw |-> 0]

-----------------------------------------------------------------------------
(* handleRegisterInit *)

\* First critical section: a live challenge for the fingerprint, 409.
InitConflict(c, k) ==
  /\ call[c].pc = "replied"
  /\ Live(challenges[ComputeFingerprint[k]])
  /\ call' = [call EXCEPT ![c] = Replied("conflict", 0)]
  /\ UNCHANGED <<challenges, registrations, draws, issued, grants, tries>>

\* First critical section passed; the mutex is released.
InitCheck(c, k) ==
  /\ call[c].pc = "replied"
  /\ ~Live(challenges[ComputeFingerprint[k]])
  /\ call' = [call EXCEPT ![c] = [pc |-> "store", publicKey |-> k, left |-> TTL]]
  /\ UNCHANGED <<challenges, registrations, draws, issued, grants, tries>>

\* Key generation failed between the critical sections, 500.
InitError(c) ==
  /\ call[c].pc = "store"
  /\ call' = [call EXCEPT ![c] = Replied("error", 0)]
  /\ UNCHANGED <<challenges, registrations, draws, issued, grants, tries>>

\* Second critical section and the reply. ExpiresAt was computed at some
\* moment since the check, hence the choice of what is left of it.
InitStore(c) ==
  /\ call[c].pc = "store"
  /\ draws < MaxDraws
  /\ draws' = draws + 1
  /\ \E left \in call[c].left .. TTL :
       challenges' = [challenges EXCEPT ![ComputeFingerprint[call[c].publicKey]] =
                        [publicKey |-> call[c].publicKey, nonce |-> draws',
                         left |-> left, attempts |-> 0]]
  /\ issued' = issued \cup {[publicKey |-> call[c].publicKey, nonce |-> draws']}
  /\ call' = [call EXCEPT ![c] = Replied("challenge", draws')]
  /\ UNCHANGED <<registrations, grants, tries>>

-----------------------------------------------------------------------------
(* handleRegisterVerify *)

\* The challenge counted once more, as the map entry and as the local copy;
\* and the entry left as it was, the slip of counting only the copy.
CountedLocally(ch) == ch
Counted(ch) == [ch EXCEPT !.attempts = @ + 1]

\* A challenge that still admits an attempt; and the same without a look at
\* the clock, as a version that left expiry to init would have it, or with the
\* attempt compared before it is counted.
UsableOnceMore(ch) == ch # None /\ ~Expired(ch) /\ ch.attempts <= MaxAttempts
UsableForever(ch) == ch # None /\ ch.attempts + 1 <= MaxAttempts
Usable(ch) == ch # None /\ ~Expired(ch) /\ ch.attempts + 1 <= MaxAttempts

\* First critical section: no challenge, an expired one or a worn-out one;
\* whatever was there is deleted, 400.
VerifyGone(c, f) ==
  /\ call[c].pc = "replied"
  /\ ~Usable(challenges[f])
  /\ challenges' = [challenges EXCEPT ![f] = None]
  /\ call' = [call EXCEPT ![c] = Replied("gone", 0)]
  /\ UNCHANGED <<registrations, draws, issued, grants, tries>>

\* First critical section: the attempt is counted and the challenge copied;
\* the mutex is released and the proof is checked against the copy.
VerifyAdmit(c, f, p) ==
  /\ call[c].pc = "replied"
  /\ Usable(challenges[f])
  /\ challenges' = [challenges EXCEPT ![f] = Counted(@)]
  /\ call' = [call EXCEPT ![c] = [pc |-> "check", fingerprint |-> f, proof |-> p,
                                  challenge |-> challenges'[f]]]
  /\ tries' = [tries EXCEPT ![challenges[f].nonce] = @ + 1]
  /\ UNCHANGED <<registrations, draws, issued, grants>>

ExpectedProof(v) ==
  RegistrationProof(v.fingerprint, v.challenge.publicKey, v.challenge.nonce)

AcceptsAnything(v) == v.challenge.publicKey \in CurveKey
Accepts(v) == v.challenge.publicKey \in CurveKey /\ v.proof = ExpectedProof(v)

\* The stored key is no curve point (400, 500) or the proof is wrong (403).
VerifyRefuse(c) ==
  /\ call[c].pc = "check"
  /\ ~Accepts(call[c])
  /\ call' = [call EXCEPT ![c] = Replied("refused", 0)]
  /\ UNCHANGED <<challenges, registrations, draws, issued, grants, tries>>

\* The challenge entry a grant leaves behind: none, whichever challenge is
\* there by now; and the slip of leaving it to expire.
LeftToExpire(ch) == ch
Consumed(ch) == None

\* Second critical section and the reply with the tunnel secret.
VerifyGrant(c) ==
  LET v == call[c]
      f == v.fingerprint
  IN  /\ v.pc = "check"
      /\ Accepts(v)
      /\ draws < MaxDraws
      /\ draws' = draws + 1
      /\ registrations' = [registrations EXCEPT ![f] =
                             [publicKey |-> v.challenge.publicKey, secret |-> draws']]
      /\ challenges' = [challenges EXCEPT ![f] = Consumed(@)]
      /\ call' = [call EXCEPT ![c] = Replied("registered", draws')]
      /\ grants' = grants \cup
                     {[fingerprint |-> f, challenge |-> v.challenge,
                       proof |-> v.proof, secret |-> draws']}
      /\ UNCHANGED <<issued, tries>>

-----------------------------------------------------------------------------
(* The clock and the process *)

\* One tick less to go, until past.
Older(r) == [r EXCEPT !.left = IF @ > -1 THEN @ - 1 ELSE @]

Tick ==
  /\ challenges' = [f \in Fingerprint |->
       IF challenges[f] = None THEN None ELSE Older(challenges[f])]
  /\ call' = [c \in Caller |->
       IF call[c].pc = "store" THEN Older(call[c]) ELSE call[c]]
  /\ UNCHANGED <<registrations, draws, issued, grants, tries>>

\* The relay process dies and comes back: newServer makes empty maps and every
\* request in progress is cut off.
Restart ==
  /\ challenges' = [f \in Fingerprint |-> None]
  /\ registrations' = [f \in Fingerprint |-> None]
  /\ call' = [c \in Caller |->
       IF call[c].pc = "replied" THEN call[c] ELSE Replied("reset", 0)]
  /\ UNCHANGED <<draws, issued, grants, tries>>

Next ==
  \/ \E c \in Caller, k \in Key : InitConflict(c, k) \/ InitCheck(c, k)
  \/ \E c \in Caller : InitError(c) \/ InitStore(c)
  \/ \E c \in Caller, f \in Fingerprint : VerifyGone(c, f)
  \/ \E c \in Caller, f \in Fingerprint, p \in ProofSent : VerifyAdmit(c, f, p)
  \/ \E c \in Caller : VerifyRefuse(c) \/ VerifyGrant(c)
  \/ Tick
  \/ Restart

Spec == Init /\ [][Next]_vars

-----------------------------------------------------------------------------
(* Properties *)

\* Every map, goroutine and history value has its type.
TypeOK ==
  /\ challenges \in [Fingerprint -> Challenge \cup {None}]
  /\ registrations \in [Fingerprint -> Registration \cup {None}]
  /\ call \in [Caller -> Call]
  /\ draws \in 0 .. MaxDraws
  /\ issued \subseteq [publicKey : Key, nonce : Draw]
  /\ grants \subseteq [fingerprint : Fingerprint, challenge : Challenge,
                       proof : Proof \cup {None}, secret : Draw]
  /\ tries \in [Draw -> Nat]

\* A fingerprint is registered only to a key that hashes to it and whose
\* holder proved, over this very fingerprint and nonce, a challenge the relay
\* sent out for that key: handleRegisterVerify works on a copy of the challenge
\* that others may have replaced, deleted or let expire in the meantime.
RegistrationsProved ==
  \A f \in Fingerprint : registrations[f] # None =>
    \E g \in grants :
      /\ g.fingerprint = f
      /\ g.secret = registrations[f].secret
      /\ g.challenge.publicKey = registrations[f].publicKey
      /\ ComputeFingerprint[g.challenge.publicKey] = f
      /\ [publicKey |-> g.challenge.publicKey, nonce |-> g.challenge.nonce] \in issued
      /\ g.proof = RegistrationProof(f, g.challenge.publicKey, g.challenge.nonce)

\* No registration rests on a challenge that had expired when the proof came
\* in, however long the check took after that.
ProofsOnTime == \A g \in grants : g.challenge.left >= 0

\* One nonce is tried with at most maxAttempts proofs, whatever requests run
\* concurrently, expire it, or replace it: the count is kept in the map entry,
\* which verify reads and writes back within one critical section.
AttemptsBounded ==
  \A n \in Draw : tries[n] <= MaxAttempts

\* A nonce that bought a registration is never a live challenge again, so no
\* verify that starts after the grant can use it.
SpentNonceNeverLive ==
  \A f \in Fingerprint, g \in grants :
    challenges[f] # None => challenges[f].nonce # g.challenge.nonce

\* As documented: "Each nonce is single-use" (docs/REGISTRATION.md).
NonceSingleUse ==
  \A g, h \in grants : g.challenge.nonce = h.challenge.nonce => g = h

\* As documented: handleRegisterInit does not "let an unauthenticated caller
\* clobber a challenge that is already in flight".
NoClobber ==
  [][\A f \in Fingerprint :
       Live(challenges[f]) /\ challenges'[f] # None
         => challenges'[f].nonce = challenges[f].nonce]_vars

=============================================================================
