----------------------- MODULE RelayRegistrationProofs -----------------------
(***************************************************************************)
(* Proofs about RelayRegistration, for any keys, fingerprint function,     *)
(* number of concurrent requests, challenge life and attempt limit; and    *)
(* about SidecarLifecycle, which composes it with a sidecar, for any       *)
(* number of failures and relay restarts as well.                          *)
(***************************************************************************)
EXTENDS SidecarLifecycle, TLAPS

\* A challenge, wherever it is held, was sent out for its key.
Sent(ch) == [publicKey |-> ch.publicKey, nonce |-> ch.nonce] \in issued

\* A nonce was sent out for one key only, and after it was drawn.
IssuedOnce ==
  /\ \A i, j \in issued : i.nonce = j.nonce => i = j
  /\ \A i \in issued : i.nonce <= draws

\* A stored challenge sits under its own fingerprint and carries the number
\* of proofs its nonce was tried with.
ChallengesKept ==
  \A f \in Fingerprint : challenges[f] # None =>
    /\ Sent(challenges[f])
    /\ ComputeFingerprint[challenges[f].publicKey] = f
    /\ tries[challenges[f].nonce] = challenges[f].attempts

\* The copy a verify request works on was usable when it was made.
CopiesKept ==
  \A c \in Caller : call[c].pc = "check" =>
    /\ Sent(call[c].challenge)
    /\ ComputeFingerprint[call[c].challenge.publicKey] = call[c].fingerprint
    /\ call[c].challenge.left >= 0

\* What every grant rests on.
GrantsKept ==
  \A g \in grants :
    /\ Sent(g.challenge)
    /\ ComputeFingerprint[g.challenge.publicKey] = g.fingerprint
    /\ g.challenge.left >= 0
    /\ g.proof = RegistrationProof(g.fingerprint, g.challenge.publicKey,
                                   g.challenge.nonce)

\* A registration is the outcome of a grant.
RegistrationsGranted ==
  \A f \in Fingerprint : registrations[f] # None =>
    \E g \in grants :
      /\ g.fingerprint = f
      /\ g.secret = registrations[f].secret
      /\ g.challenge.publicKey = registrations[f].publicKey

\* Nonces not drawn yet were not tried.
UndrawnUntried == \A n \in Draw : n > draws => tries[n] = 0

IInv ==
  /\ TypeOK
  /\ IssuedOnce
  /\ ChallengesKept
  /\ CopiesKept
  /\ GrantsKept
  /\ RegistrationsGranted
  /\ UndrawnUntried
  /\ AttemptsBounded
  /\ SpentNonceNeverLive

-----------------------------------------------------------------------------

\* Counting an attempt changes nothing else of a challenge.
LEMMA CountedFields ==
  ASSUME NEW ch \in Challenge
  PROVE  /\ Counted(ch).publicKey = ch.publicKey
         /\ Counted(ch).nonce = ch.nonce
         /\ Counted(ch).left = ch.left
         /\ Counted(ch).attempts = ch.attempts + 1
         /\ ch.attempts + 1 <= MaxAttempts => Counted(ch) \in Challenge
BY DEF Counted, Challenge, Draw

\* Ageing a challenge changes nothing but its time left.
LEMMA OlderFields ==
  ASSUME NEW ch \in Challenge
  PROVE  /\ Older(ch) \in Challenge
         /\ Older(ch).publicKey = ch.publicKey
         /\ Older(ch).nonce = ch.nonce
         /\ Older(ch).attempts = ch.attempts
BY LimitsAssumption DEF Older, Challenge, Draw

\* Nor does it change what an init request in progress is for.
LEMMA OlderCall ==
  ASSUME NEW v \in StoreCall
  PROVE  Older(v) \in StoreCall
BY LimitsAssumption DEF Older, StoreCall

\* The pc tells what a request goroutine holds.
LEMMA CallKinds ==
  ASSUME NEW v \in Call
  PROVE  /\ v.pc \in {"replied", "store", "check"}
         /\ v.pc = "store" => v \in StoreCall
         /\ v.pc = "check" => v \in CheckCall
BY DEF Call, RepliedCall, StoreCall, CheckCall

\* Every step of a handler, of the clock or of a restart keeps the types.
LEMMA TypeStep == TypeOK /\ [Next]_vars => TypeOK'
<1> SUFFICES ASSUME TypeOK, [Next]_vars PROVE TypeOK'
  OBVIOUS
<1> USE DEF TypeOK, Replied, Call
<1>1. ASSUME NEW c \in Caller, NEW k \in Key, InitConflict(c, k) PROVE TypeOK'
  BY LimitsAssumption, <1>1 DEF InitConflict, RepliedCall, Status
<1>2. ASSUME NEW c \in Caller, NEW k \in Key, InitCheck(c, k) PROVE TypeOK'
  BY LimitsAssumption, <1>2 DEF InitCheck, StoreCall
<1>3. ASSUME NEW c \in Caller, InitError(c) PROVE TypeOK'
  BY LimitsAssumption, <1>3 DEF InitError, RepliedCall, Status
<1>4. ASSUME NEW c \in Caller, InitStore(c) PROVE TypeOK'
  <2>1. call[c] \in StoreCall
    BY Zenon, <1>4, CallKinds DEF InitStore
  <2>2. /\ call[c].publicKey \in Key
        /\ call[c].left \in -1 .. TTL
        /\ ComputeFingerprint[call[c].publicKey] \in Fingerprint
    BY KeysAssumption, Zenon, <2>1 DEF StoreCall
  <2>3. draws' \in Draw /\ draws' \in 0 .. MaxDraws
    BY LimitsAssumption, <1>4 DEF InitStore, Draw
  <2>4. PICK left \in call[c].left .. TTL :
          challenges' = [challenges EXCEPT ![ComputeFingerprint[call[c].publicKey]] =
                           [publicKey |-> call[c].publicKey, nonce |-> draws',
                            left |-> left, attempts |-> 0]]
    BY ZenonT(40), <1>4 DEF InitStore
  <2>5. [publicKey |-> call[c].publicKey, nonce |-> draws',
         left |-> left, attempts |-> 0] \in Challenge
    BY LimitsAssumption, <2>2, <2>3 DEF Challenge
  <2>6. challenges' \in [Fingerprint -> Challenge \cup {None}]
    BY Zenon, <2>4, <2>5
  <2> QED
    BY <1>4, <2>2, <2>3, <2>6 DEF InitStore, RepliedCall, Status
<1>5. ASSUME NEW c \in Caller, NEW f \in Fingerprint, VerifyGone(c, f) PROVE TypeOK'
  BY LimitsAssumption, <1>5 DEF VerifyGone, RepliedCall, Status
<1>6. ASSUME NEW c \in Caller, NEW f \in Fingerprint, NEW p \in ProofSent,
             VerifyAdmit(c, f, p)
      PROVE TypeOK'
  <2>1. challenges[f] \in Challenge /\ Counted(challenges[f]) \in Challenge
    BY <1>6, CountedFields DEF VerifyAdmit, Usable
  <2>2. challenges[f].nonce \in Draw
    BY Zenon, <2>1 DEF Challenge
  <2>3. p \in Proof \cup {None}
    BY KeysAssumption DEF ProofSent, Proof, RegistrationProof
  <2> QED
    BY <1>6, <2>1, <2>2, <2>3 DEF VerifyAdmit, CheckCall
<1>7. ASSUME NEW c \in Caller, VerifyRefuse(c) PROVE TypeOK'
  BY LimitsAssumption, <1>7 DEF VerifyRefuse, RepliedCall, Status
<1>8. ASSUME NEW c \in Caller, VerifyGrant(c) PROVE TypeOK'
  <2>1. call[c] \in CheckCall
    BY Zenon, <1>8, CallKinds DEF VerifyGrant
  <2>2. call[c].challenge \in Challenge /\ call[c].challenge.publicKey \in Key
    BY Zenon, <2>1 DEF CheckCall, Challenge
  <2> QED
    BY LimitsAssumption, <1>8, <2>1, <2>2
    DEF VerifyGrant, Consumed, CheckCall, RepliedCall, Status, Registration, Draw
<1>9. CASE Tick
  BY Zenon, <1>9, OlderFields, OlderCall, CallKinds DEF Tick
<1>10. CASE Restart
  BY LimitsAssumption, <1>10 DEF Restart, RepliedCall, Status
<1>11. CASE UNCHANGED vars
  BY Zenon, <1>11 DEF vars
<1> QED
  BY Zenon, <1>1, <1>2, <1>3, <1>4, <1>5, <1>6, <1>7, <1>8, <1>9, <1>10, <1>11 DEF Next

-----------------------------------------------------------------------------
\* A step that grants, stores and admits nothing: challenges may vanish or age,
\* registrations may vanish, requests may start or end.
Tame ==
  /\ UNCHANGED <<draws, issued, grants, tries>>
  /\ \A f \in Fingerprint : challenges'[f] # None =>
       /\ challenges[f] # None
       /\ challenges'[f].publicKey = challenges[f].publicKey
       /\ challenges'[f].nonce = challenges[f].nonce
       /\ challenges'[f].attempts = challenges[f].attempts
  /\ \A f \in Fingerprint : registrations'[f] # None =>
       registrations'[f] = registrations[f]
  /\ \A c \in Caller : call'[c].pc = "check" => call'[c] = call[c]

\* Such a step preserves the invariant.
LEMMA TameStep == IInv /\ TypeOK' /\ Tame => IInv'
<1> SUFFICES ASSUME IInv, TypeOK', Tame PROVE IInv'
  OBVIOUS
<1> USE DEF IInv, Tame
<1>1. IssuedOnce'
  BY Zenon DEF IssuedOnce
<1>2. ChallengesKept'
  BY DEF ChallengesKept, Sent
<1>3. CopiesKept'
  BY Zenon DEF CopiesKept, Sent
<1>4. GrantsKept'
  BY Zenon DEF GrantsKept, Sent
<1>5. RegistrationsGranted'
  BY DEF RegistrationsGranted
<1>6. UndrawnUntried'
  BY Zenon DEF UndrawnUntried
<1>7. AttemptsBounded'
  BY Zenon DEF AttemptsBounded
<1>8. SpentNonceNeverLive'
  BY DEF SpentNonceNeverLive
<1> QED
  BY Zenon, <1>1, <1>2, <1>3, <1>4, <1>5, <1>6, <1>7, <1>8

\* Storing a challenge under a fresh nonce preserves the invariant.
LEMMA InitStoreStep ==
  ASSUME NEW c \in Caller
  PROVE  IInv /\ TypeOK' /\ InitStore(c) => IInv'
<1> SUFFICES ASSUME IInv, TypeOK', InitStore(c) PROVE IInv'
  OBVIOUS
<1> DEFINE k == call[c].publicKey
           n == draws + 1
           new == [publicKey |-> k, nonce |-> n]
<1>1. k \in Key /\ n \in Draw
  BY CallKinds DEF IInv, TypeOK, InitStore, StoreCall, Draw
<1>2. /\ draws' = n
      /\ issued' = issued \cup {new}
      /\ UNCHANGED <<registrations, grants, tries>>
      /\ \A d \in Caller : call'[d].pc = "check" => call'[d] = call[d]
  BY DEF InitStore, Replied, IInv, TypeOK
<1>3. \A f \in Fingerprint :
        IF f = ComputeFingerprint[k]
          THEN /\ challenges'[f].publicKey = k
               /\ challenges'[f].nonce = n
               /\ challenges'[f].attempts = 0
          ELSE challenges'[f] = challenges[f]
  BY DEF InitStore, IInv, TypeOK
<1>4. \A i \in issued : i.nonce \in Draw /\ i.nonce < n
  BY DEF IInv, TypeOK, IssuedOnce, Draw
<1>5. IssuedOnce'
  BY <1>1, <1>2, <1>4 DEF IInv, IssuedOnce, Draw
<1>6. tries[n] = 0
  BY <1>1 DEF IInv, TypeOK, UndrawnUntried
<1>7. ChallengesKept'
  BY <1>1, <1>2, <1>3, <1>6 DEF IInv, ChallengesKept, Sent
<1>8. CopiesKept'
  BY <1>2 DEF IInv, CopiesKept, Sent
<1>9. GrantsKept'
  BY Zenon, <1>2 DEF IInv, GrantsKept, Sent
<1>10. RegistrationsGranted'
  BY <1>2 DEF IInv, RegistrationsGranted
<1>11. UndrawnUntried' /\ AttemptsBounded'
  BY <1>1, <1>2 DEF IInv, TypeOK, UndrawnUntried, AttemptsBounded, Draw
<1>12. \A g \in grants : g.challenge.nonce < n
  BY ZenonT(40), <1>4 DEF IInv, GrantsKept, Sent
<1>13. SpentNonceNeverLive'
  BY <1>1, <1>2, <1>3, <1>12 DEF IInv, SpentNonceNeverLive, Draw
<1> QED
  BY <1>5, <1>7, <1>8, <1>9, <1>10, <1>11, <1>13 DEF IInv

\* Two stored or copied challenges with one nonce are under one fingerprint:
\* a nonce was sent out for one key, and a key has one fingerprint.
LEMMA NonceOneFingerprint ==
  ASSUME IInv, NEW f \in Fingerprint, NEW ch, NEW g \in Fingerprint,
         challenges[f] # None, challenges[f].nonce = ch.nonce,
         Sent(ch), ComputeFingerprint[ch.publicKey] = g
  PROVE  f = g
<1> DEFINE i == [publicKey |-> challenges[f].publicKey, nonce |-> challenges[f].nonce]
           j == [publicKey |-> ch.publicKey, nonce |-> ch.nonce]
<1>1. i \in issued /\ j \in issued /\ ComputeFingerprint[i.publicKey] = f
  BY DEF IInv, ChallengesKept, Sent
<1>2. i = j
  BY <1>1 DEF IInv, IssuedOnce
<1>3. i.publicKey = ch.publicKey
  BY <1>2
<1> QED
  BY <1>1, <1>3

\* Admitting an attempt preserves the invariant: the count in the map entry is
\* the number of tries before and after.
LEMMA VerifyAdmitStep ==
  ASSUME NEW c \in Caller, NEW f \in Fingerprint, NEW p \in ProofSent
  PROVE  IInv /\ TypeOK' /\ VerifyAdmit(c, f, p) => IInv'
<1> SUFFICES ASSUME IInv, TypeOK', VerifyAdmit(c, f, p) PROVE IInv'
  OBVIOUS
<1> DEFINE ch == challenges[f]
<1>1. ch \in Challenge /\ ch # None /\ ch.left >= 0 /\ ch.attempts + 1 <= MaxAttempts
  BY DEF IInv, TypeOK, VerifyAdmit, Usable, Expired, Challenge
<1>2. /\ Counted(ch) \in Challenge
      /\ Counted(ch).publicKey = ch.publicKey
      /\ Counted(ch).nonce = ch.nonce
      /\ Counted(ch).left = ch.left
      /\ Counted(ch).attempts = ch.attempts + 1
  BY <1>1, CountedFields
<1>3. /\ UNCHANGED <<registrations, draws, issued, grants>>
      /\ challenges'[f] = Counted(ch)
      /\ \A e \in Fingerprint : e # f => challenges'[e] = challenges[e]
      /\ \A d \in Caller : d # c => call'[d] = call[d]
      /\ call'[c].fingerprint = f
      /\ call'[c].challenge = Counted(ch)
  BY DEF VerifyAdmit, IInv, TypeOK
<1>4. ch.nonce \in Draw /\ ch.nonce <= draws /\ tries[ch.nonce] = ch.attempts
      /\ Sent(ch) /\ ComputeFingerprint[ch.publicKey] = f
  BY <1>1 DEF IInv, TypeOK, ChallengesKept, Sent, IssuedOnce, Challenge
<1>5. /\ tries'[ch.nonce] = ch.attempts + 1
      /\ \A n \in Draw : n # ch.nonce => tries'[n] = tries[n]
  BY <1>4 DEF VerifyAdmit, IInv, TypeOK
<1>6. [publicKey |-> Counted(ch).publicKey, nonce |-> Counted(ch).nonce] \in issued'
  BY <1>2, <1>3, <1>4 DEF Sent
<1>7. ChallengesKept'
  <2> SUFFICES ASSUME NEW e \in Fingerprint, challenges'[e] # None
               PROVE  /\ Sent(challenges[e])'
                      /\ ComputeFingerprint[challenges'[e].publicKey] = e
                      /\ tries'[challenges'[e].nonce] = challenges'[e].attempts
    BY DEF ChallengesKept
  <2>1. CASE e = f
    BY <2>1, <1>2, <1>3, <1>4, <1>5, <1>6 DEF Sent
  <2>2. CASE e # f
    <3>1. challenges'[e] = challenges[e] /\ challenges[e] \in Challenge
      BY <2>2, <1>3 DEF IInv, TypeOK
    <3>2. challenges[e].nonce # ch.nonce
      BY <2>2, <3>1, <1>4, NonceOneFingerprint
    <3>3. challenges[e].nonce \in Draw
      BY SMTT(40), <3>1 DEF Challenge
    <3> QED
      BY <3>1, <3>2, <3>3, <1>3, <1>5 DEF IInv, ChallengesKept, Sent
  <2> QED
    BY <2>1, <2>2
<1>8. CopiesKept'
  BY SMTT(40), <1>1, <1>2, <1>3, <1>4, <1>6 DEF IInv, CopiesKept, Sent
<1>9. UndrawnUntried' /\ AttemptsBounded'
  <2> SUFFICES ASSUME NEW n \in Draw
               PROVE  (n > draws => tries'[n] = 0) /\ tries'[n] <= MaxAttempts
    BY <1>3 DEF UndrawnUntried, AttemptsBounded
  <2>1. n \in Int /\ draws \in Int
    BY SMTT(40) DEF IInv, TypeOK, Draw
  <2> QED
    BY SMTT(40), <2>1, <1>1, <1>4, <1>5 DEF IInv, UndrawnUntried, AttemptsBounded
<1>10. IssuedOnce' /\ GrantsKept' /\ RegistrationsGranted'
  BY <1>3 DEF IInv, IssuedOnce, GrantsKept, RegistrationsGranted, Sent
<1>11. SpentNonceNeverLive'
  BY <1>1, <1>2, <1>3 DEF IInv, SpentNonceNeverLive
<1> QED
  BY <1>7, <1>8, <1>9, <1>10, <1>11 DEF IInv

\* Granting a registration preserves the invariant: the nonce it spends can be
\* live only under the fingerprint whose challenge it deletes.
LEMMA VerifyGrantStep ==
  ASSUME NEW c \in Caller
  PROVE  IInv /\ TypeOK' /\ VerifyGrant(c) => IInv'
<1> SUFFICES ASSUME IInv, TypeOK', VerifyGrant(c) PROVE IInv'
  OBVIOUS
<1> DEFINE v == call[c]
           f == v.fingerprint
           ch == v.challenge
           grant == [fingerprint |-> f, challenge |-> ch, proof |-> v.proof,
                     secret |-> draws + 1]
<1>1. f \in Fingerprint /\ v.pc = "check" /\ v.proof = ExpectedProof(v)
  BY CallKinds DEF IInv, TypeOK, VerifyGrant, CheckCall, Accepts
<1>2. Sent(ch) /\ ComputeFingerprint[ch.publicKey] = f /\ ch.left >= 0
  BY <1>1 DEF IInv, CopiesKept
<1>3. /\ UNCHANGED <<issued, tries>>
      /\ draws' = draws + 1
      /\ draws \in Nat
      /\ grants' = grants \cup {grant}
      /\ challenges'[f] = None
      /\ \A e \in Fingerprint : e # f => challenges'[e] = challenges[e]
      /\ registrations'[f] = [publicKey |-> ch.publicKey, secret |-> draws + 1]
      /\ \A e \in Fingerprint : e # f => registrations'[e] = registrations[e]
      /\ \A d \in Caller : call'[d].pc = "check" => call'[d] = call[d]
  BY <1>1 DEF VerifyGrant, Consumed, Replied, IInv, TypeOK
<1>4. IssuedOnce' /\ UndrawnUntried' /\ AttemptsBounded'
  BY <1>3 DEF IInv, TypeOK, IssuedOnce, UndrawnUntried, AttemptsBounded, Draw
<1>5. ChallengesKept'
  BY SMTT(40), <1>3 DEF IInv, ChallengesKept, Sent
<1>6. CopiesKept'
  BY SMTT(40), <1>3 DEF IInv, CopiesKept, Sent
<1>7. GrantsKept'
  <2>1. grant.proof = RegistrationProof(grant.fingerprint, grant.challenge.publicKey,
                                        grant.challenge.nonce)
    BY <1>1 DEF ExpectedProof
  <2>2. \A g \in grants : Sent(g.challenge)'
    BY Zenon, <1>3 DEF IInv, GrantsKept, Sent
  <2>3. [publicKey |-> grant.challenge.publicKey, nonce |-> grant.challenge.nonce]
          \in issued'
    BY <1>2, <1>3 DEF Sent
  <2> QED
    <3> SUFFICES ASSUME NEW g \in grants'
                 PROVE  /\ Sent(g.challenge)'
                        /\ ComputeFingerprint[g.challenge.publicKey] = g.fingerprint
                        /\ g.challenge.left >= 0
                        /\ g.proof = RegistrationProof(g.fingerprint,
                                       g.challenge.publicKey, g.challenge.nonce)
      BY DEF GrantsKept
    <3>1. CASE g \in grants
      BY <3>1, <2>2 DEF IInv, GrantsKept
    <3>2. CASE g = grant
      BY <3>2, <2>1, <2>3, <1>2 DEF Sent
    <3> QED
      BY <3>1, <3>2, <1>3
<1>8. RegistrationsGranted'
  <2> SUFFICES ASSUME NEW e \in Fingerprint, registrations'[e] # None
               PROVE  \E g \in grants' :
                        /\ g.fingerprint = e
                        /\ g.secret = registrations'[e].secret
                        /\ g.challenge.publicKey = registrations'[e].publicKey
    BY DEF RegistrationsGranted
  <2>1. CASE e = f
    <3>1. grant \in grants' /\ grant.fingerprint = e
          /\ grant.secret = registrations'[e].secret
          /\ grant.challenge.publicKey = registrations'[e].publicKey
      BY <2>1, <1>3
    <3> QED
      BY <3>1
  <2>2. CASE e # f
    BY <2>2, <1>3 DEF IInv, RegistrationsGranted
  <2> QED
    BY <2>1, <2>2
<1>9. SpentNonceNeverLive'
  <2> SUFFICES ASSUME NEW e \in Fingerprint, NEW g \in grants', challenges'[e] # None
               PROVE  challenges'[e].nonce # g.challenge.nonce
    BY DEF SpentNonceNeverLive
  <2>1. e # f /\ challenges'[e] = challenges[e]
    BY <1>3
  <2>2. CASE g \in grants
    BY <2>1, <2>2 DEF IInv, SpentNonceNeverLive
  <2>3. CASE g = grant
    BY <2>1, <2>3, <1>1, <1>2, NonceOneFingerprint
  <2> QED
    BY <2>2, <2>3, <1>3
<1> QED
  BY <1>4, <1>5, <1>6, <1>7, <1>8, <1>9 DEF IInv

-----------------------------------------------------------------------------
\* The maps newServer makes satisfy the invariant.
LEMMA InitIInv == Init => IInv
<1> SUFFICES ASSUME Init PROVE IInv
  OBVIOUS
<1>1. TypeOK
  BY LimitsAssumption DEF Init, TypeOK, Replied, Call, RepliedCall, Status, Draw
<1>2. \A c \in Caller : call[c].pc # "check"
  BY DEF Init, Replied
<1> QED
  BY LimitsAssumption, <1>1, <1>2 DEF Init, IInv, IssuedOnce, ChallengesKept, CopiesKept, GrantsKept,
    RegistrationsGranted, UndrawnUntried, AttemptsBounded, SpentNonceNeverLive

\* Every step of a handler, of the clock or of a restart preserves it.
LEMMA NextIInv == IInv /\ [Next]_vars => IInv'
<1> SUFFICES ASSUME IInv, [Next]_vars PROVE IInv'
  OBVIOUS
<1>0. TypeOK /\ TypeOK'
  BY TypeStep DEF IInv
<1> USE DEF Tame, TypeOK, Replied
<1>1. ASSUME NEW c \in Caller, NEW k \in Key, InitConflict(c, k) PROVE IInv'
  <2>1. Tame
    BY SMTT(40), <1>0, <1>1 DEF InitConflict
  <2> QED
    BY SMTT(40), <1>0, <2>1, TameStep
<1>2. ASSUME NEW c \in Caller, NEW k \in Key, InitCheck(c, k) PROVE IInv'
  <2>1. Tame
    BY <1>0, <1>2 DEF InitCheck
  <2> QED
    BY <1>0, <2>1, TameStep
<1>3. ASSUME NEW c \in Caller, InitError(c) PROVE IInv'
  <2>1. Tame
    BY <1>0, <1>3 DEF InitError
  <2> QED
    BY <1>0, <2>1, TameStep
<1>4. ASSUME NEW c \in Caller, InitStore(c) PROVE IInv'
  BY SMTT(40), <1>0, <1>4, InitStoreStep
<1>5. ASSUME NEW c \in Caller, NEW f \in Fingerprint, VerifyGone(c, f) PROVE IInv'
  <2>1. Tame
    BY <1>0, <1>5 DEF VerifyGone
  <2> QED
    BY SMTT(40), <1>0, <2>1, TameStep
<1>6. ASSUME NEW c \in Caller, NEW f \in Fingerprint, NEW p \in ProofSent,
             VerifyAdmit(c, f, p)
      PROVE IInv'
  BY SMTT(40), <1>0, <1>6, VerifyAdmitStep
<1>7. ASSUME NEW c \in Caller, VerifyRefuse(c) PROVE IInv'
  <2>1. Tame
    BY <1>0, <1>7 DEF VerifyRefuse
  <2> QED
    BY <1>0, <2>1, TameStep
<1>8. ASSUME NEW c \in Caller, VerifyGrant(c) PROVE IInv'
  BY <1>0, <1>8, VerifyGrantStep
<1>9. CASE Tick
  <2>1. \A c \in Caller : call[c].pc = "store" => Older(call[c]).pc = "store"
    BY <1>0, OlderCall, CallKinds DEF StoreCall
  <2>2. Tame
    BY <1>0, <1>9, <2>1, OlderFields DEF Tick
  <2> QED
    BY <1>0, <2>2, TameStep
<1>10. CASE Restart
  <2>1. Tame
    BY <1>0, <1>10 DEF Restart
  <2> QED
    BY <1>0, <2>1, TameStep
<1>11. CASE UNCHANGED vars
  <2>1. Tame
    BY <1>11 DEF vars
  <2> QED
    BY <1>0, <2>1, TameStep
<1> QED
  BY <1>1, <1>2, <1>3, <1>4, <1>5, <1>6, <1>7, <1>8, <1>9, <1>10, <1>11 DEF Next

\* The invariant holds throughout.
LEMMA SpecIInv == Spec => []IInv
<1> QED
  BY InitIInv, NextIInv, PTL DEF Spec

\* The handlers of register/init and register/verify keep every map well typed.
THEOREM TypeCorrect == Spec => []TypeOK
<1>1. IInv => TypeOK
  BY DEF IInv
<1> QED
  BY <1>1, SpecIInv, PTL

\* Whatever requests overlap, a fingerprint is registered only by a proof of
\* possession of a key with that fingerprint, over a challenge sent for it.
THEOREM OnlyProvedRegistrations == Spec => []RegistrationsProved
<1>1. IInv => RegistrationsProved
  <2> SUFFICES ASSUME IInv, NEW f \in Fingerprint, registrations[f] # None
               PROVE  \E g \in grants :
                        /\ g.fingerprint = f
                        /\ g.secret = registrations[f].secret
                        /\ g.challenge.publicKey = registrations[f].publicKey
                        /\ ComputeFingerprint[g.challenge.publicKey] = f
                        /\ Sent(g.challenge)
                        /\ g.proof = RegistrationProof(f, g.challenge.publicKey,
                                                       g.challenge.nonce)
    BY ZenonT(40) DEF RegistrationsProved, Sent
  <2>1. PICK g \in grants : /\ g.fingerprint = f
                            /\ g.secret = registrations[f].secret
                            /\ g.challenge.publicKey = registrations[f].publicKey
    BY DEF IInv, RegistrationsGranted
  <2> QED
    BY <2>1 DEF IInv, GrantsKept
<1> QED
  BY <1>1, SpecIInv, PTL

\* No registration rests on a challenge that had expired on admission.
THEOREM OnlyTimelyProofs == Spec => []ProofsOnTime
<1>1. IInv => ProofsOnTime
  BY DEF IInv, GrantsKept, ProofsOnTime
<1> QED
  BY <1>1, SpecIInv, PTL

\* A nonce is tried with at most maxAttempts proofs.
THEOREM BoundedAttempts == Spec => []AttemptsBounded
<1>1. IInv => AttemptsBounded
  BY DEF IInv
<1> QED
  BY <1>1, SpecIInv, PTL

\* A nonce that bought a registration is never offered for another try.
THEOREM SpentNoncesStayDead == Spec => []SpentNonceNeverLive
<1>1. IInv => SpentNonceNeverLive
  BY DEF IInv
<1> QED
  BY <1>1, SpecIInv, PTL

-----------------------------------------------------------------------------
(* A sidecar and its container *)

HIDE KeysAssumption
HIDE LimitsAssumption
HIDE NoneAssumption

\* No proof is being checked.
NoCheck == \A c \in Caller : call[c].pc # "check"

\* The reply the sidecar has got.
Answered(status) == call[slot].pc = "replied" /\ call[slot].status = status

\* The relay holds this secret, unless a restart made it forget.
Held(s) ==
  \/ registrations[fingerprint] # None /\ registrations[fingerprint].secret = s
  \/ restarts > 0 /\ registrations[fingerprint] = None

\* All requests are this sidecar's, of whatever life of it. One check runs at a
\* time, over a live challenge; handlers are quicker than the clock.
OwnRequests ==
  /\ \A c \in Caller :
       /\ call[c].pc = "check" =>
            call[c].fingerprint = fingerprint /\ Live(challenges[fingerprint])
       /\ call[c].pc = "store" => call[c].publicKey = publicKey /\ call[c].left = TTL
  /\ \A c, d \in Caller : call[c].pc = "check" /\ call[d].pc = "check" => c = d

\* What the sidecar's progress says of the requests.
Progress ==
  /\ side \in {"starting", "init", "verify", "exited", "dialing", "up"}
  /\ restarts \in Nat
  /\ side \in {"init", "verify"} => slot \in Caller
  /\ side = "init" /\ (call[slot].pc = "store" \/ Answered("challenge")) => NoCheck
  /\ side = "init" /\ Answered("challenge") =>
       [publicKey |-> publicKey, nonce |-> call[slot].value] \in issued
  /\ side = "verify" => \A c \in Caller : call[c].pc = "check" => c = slot
  /\ side = "verify" /\ Answered("registered") => Held(call[slot].value)
  /\ side \in {"dialing", "up"} => NoCheck

\* The inductive invariant.
LInv == TypeOK /\ OwnRequests /\ Progress /\ SecretCurrent

-----------------------------------------------------------------------------
(* The relay's part of every step is a step of registration *)

LEMMA Assumptions ==
  /\ publicKey \in CurveKey /\ publicKey \in Key /\ fingerprint \in Fingerprint
  /\ TTL \in Nat \ {0} /\ MaxAttempts \in Nat \ {0} /\ MaxDraws \in Nat
  BY LifecycleAssumption, KeysAssumption, LimitsAssumption DEF fingerprint

\* Every step of the composition is, at the relay, a step of registration or
\* none: a sidecar's proof is one for a challenge that was sent to it.
LEMMA RelayStep ==
  ASSUME LInv, [LifeNext]_lifeVars
  PROVE  [Next]_vars
<1> USE Assumptions
<1>1. ASSUME NEW c \in Caller, RequestChallenge(c) PROVE Next
  BY <1>1 DEF RequestChallenge, Next
<1>2. ASSUME NEW c \in Caller, SubmitProof(c) PROVE Next
  <2> DEFINE i == [publicKey |-> publicKey, nonce |-> call[slot].value]
             p == RegistrationProof(fingerprint, publicKey, call[slot].value)
  <2>1. i \in issued
    BY <1>2 DEF SubmitProof, LInv, Progress, Answered
  <2>2. p \in ProofSent
    <3>1. p = RegistrationProof(ComputeFingerprint[i.publicKey], i.publicKey, i.nonce)
      BY DEF fingerprint
    <3>2. i \in {j \in issued : j.publicKey \in CurveKey}
      BY <2>1
    <3> HIDE DEF i, p
    <3> QED BY <3>1, <3>2 DEF ProofSent
  <2>3. VerifyGone(c, fingerprint) \/ VerifyAdmit(c, fingerprint, p)
    BY <1>2 DEF SubmitProof
  <2> HIDE DEF p
  <2> QED BY <2>2, <2>3 DEF Next
<1>3. ASSUME NEW c \in Caller, HandlerEnds(c) PROVE Next
  BY <1>3 DEF HandlerEnds, Next
<1>4. CASE ClockTick \/ RelayRestart
  BY <1>4 DEF ClockTick, RelayRestart, Next
<1>5. CASE \/ Registered \/ RegistrationFails \/ ReplyLost \/ ContainerRestart
           \/ TunnelUp \/ TunnelDrops \/ SidecarCrash \/ UNCHANGED lifeVars
  <2>1. UNCHANGED vars
    BY <1>5 DEF Registered, RegistrationFails, ReplyLost, ContainerRestart, TunnelUp,
      TunnelDrops, SidecarCrash, lifeVars
  <2> QED BY <2>1 
<1> QED BY <1>1, <1>2, <1>3, <1>4, <1>5 DEF LifeNext

LEMMA TypeKeeps ==
  ASSUME LInv, [LifeNext]_lifeVars
  PROVE  TypeOK'
  BY RelayStep, TypeStep DEF LInv

-----------------------------------------------------------------------------
(* Every step preserves the invariant *)

\* The shapes the proofs need of the relay's state.
LEMMA Shapes ==
  ASSUME TypeOK
  PROVE  /\ call = [c \in Caller |-> call[c]]
         /\ challenges \in [Fingerprint -> Challenge \cup {None}]
         /\ registrations \in [Fingerprint -> Registration \cup {None}]
         /\ draws \in Nat
         /\ \A ch \in Challenge : ch # None /\ ch.left \in Int /\ Counted(ch).left = ch.left
         /\ \A r \in Registration : r # None
<1> USE Assumptions
<1>1. \A ch \in Challenge : ch # None /\ ch.left \in Int /\ Counted(ch).left = ch.left
  BY NoneAssumption DEF Challenge, Counted
<1>2. \A r \in Registration : r # None
  BY NoneAssumption
<1> QED BY <1>1, <1>2 DEF TypeOK


LifeInv == OwnRequests /\ Progress /\ SecretCurrent

\* The first request of a life: granted a challenge only if no check runs.
LEMMA RequestKeeps ==
  ASSUME LInv, NEW c \in Caller, RequestChallenge(c)
  PROVE  LifeInv'
<1>1. /\ side = "starting" /\ side' = "init" /\ slot' = c
      /\ UNCHANGED <<restarts, challenges, registrations, issued>>
  BY DEF RequestChallenge, InitConflict, InitCheck
<1>2. CASE InitConflict(c, publicKey)
  <2>1. /\ call[c].pc = "replied"
        /\ call' = [call EXCEPT ![c] = [pc |-> "replied", status |-> "conflict", value |-> 0]]
    BY <1>2 DEF InitConflict, Replied
  <2>2. /\ call'[c].pc = "replied" /\ call'[c].status = "conflict"
        /\ \A d \in Caller : d # c => call'[d] = call[d]
    BY <2>1, Shapes DEF LInv
  <2>3. OwnRequests'
    BY <1>1, <2>1, <2>2 DEF LInv, OwnRequests, Live
  <2>4. Progress'
    BY <1>1, <2>2 DEF LInv, Progress, Answered
  <2>5. SecretCurrent'
    BY <1>1 DEF SecretCurrent
  <2> QED BY <2>3, <2>4, <2>5 DEF LifeInv
<1>3. CASE InitCheck(c, publicKey)
  <2>1. /\ call[c].pc = "replied" /\ ~Live(challenges[fingerprint])
        /\ call' = [call EXCEPT ![c] = [pc |-> "store", publicKey |-> publicKey, left |-> TTL]]
    BY <1>3 DEF InitCheck, fingerprint
  <2>2. /\ call'[c].pc = "store" /\ call'[c].publicKey = publicKey /\ call'[c].left = TTL
        /\ \A d \in Caller : d # c => call'[d] = call[d]
    BY <2>1, Shapes DEF LInv
  <2>3. NoCheck
    BY <2>1 DEF LInv, OwnRequests, NoCheck
  <2>4. NoCheck'
    BY <2>2, <2>3 DEF NoCheck
  <2>5. OwnRequests'
    <3>1. \A d \in Caller : call'[d].pc = "store" =>
            call'[d].publicKey = publicKey /\ call'[d].left = TTL
      BY <2>2 DEF LInv, OwnRequests
    <3> QED BY <2>4, <3>1 DEF OwnRequests, NoCheck
  <2>6. Progress'
    BY <1>1, <2>2, <2>4 DEF LInv, Progress, Answered
  <2>7. SecretCurrent'
    BY <1>1 DEF SecretCurrent
  <2> QED BY <2>5, <2>6, <2>7 DEF LifeInv
<1> QED BY <1>2, <1>3 DEF RequestChallenge

\* The proof of the challenge just received: the only check, over a challenge
\* that is live.
LEMMA SubmitKeeps ==
  ASSUME LInv, NEW c \in Caller, SubmitProof(c)
  PROVE  LifeInv'
<1> DEFINE p == RegistrationProof(fingerprint, publicKey, call[slot].value)
<1>1. /\ side = "init" /\ side' = "verify" /\ slot' = c
      /\ UNCHANGED <<restarts, registrations, issued>>
      /\ Answered("challenge")
  BY DEF SubmitProof, VerifyGone, VerifyAdmit, Answered
<1>2. NoCheck
  BY Zenon, <1>1 DEF LInv, Progress
<1>3. SecretCurrent'
  BY <1>1 DEF SecretCurrent
<1>4. CASE VerifyGone(c, fingerprint)
  <2>1. call' = [call EXCEPT ![c] = [pc |-> "replied", status |-> "gone", value |-> 0]]
    BY <1>4 DEF VerifyGone, Replied
  <2>2. /\ call'[c].pc = "replied" /\ call'[c].status = "gone"
        /\ \A d \in Caller : d # c => call'[d] = call[d]
    BY <2>1, Shapes DEF LInv
  <2>3. NoCheck'
    BY <1>2, <2>2 DEF NoCheck
  <2>4. OwnRequests'
    BY <2>2, <2>3 DEF LInv, OwnRequests, NoCheck
  <2>5. Progress'
    BY <1>1, <2>2, <2>3 DEF LInv, Progress, Answered, NoCheck
  <2> QED BY <1>3, <2>4, <2>5 DEF LifeInv
<1>5. CASE NotInItsLastInstant(challenges[fingerprint]) /\ VerifyAdmit(c, fingerprint, p)
  <2>1. /\ challenges' = [challenges EXCEPT ![fingerprint] = Counted(@)]
        /\ challenges[fingerprint] # None /\ challenges[fingerprint].left # 0
        /\ ~(challenges[fingerprint].left < 0)
        /\ challenges[fingerprint].attempts + 1 <= MaxAttempts
    BY <1>5 DEF NotInItsLastInstant, VerifyAdmit, Usable, Expired,
      Counted, Counted
  <2>2. call' = [call EXCEPT ![c] = [pc |-> "check", fingerprint |-> fingerprint, proof |-> p,
                                     challenge |-> challenges'[fingerprint]]]
    BY <1>5 DEF VerifyAdmit
  <2> HIDE DEF p
  <2>3. /\ call'[c].pc = "check" /\ call'[c].fingerprint = fingerprint
        /\ \A d \in Caller : d # c => call'[d] = call[d]
    BY <2>2, Shapes DEF LInv
  <2>4. Live(challenges[fingerprint])'
    <3>1. challenges[fingerprint] \in Challenge
      BY Assumptions, <2>1, Shapes DEF LInv
    <3>2. challenges'[fingerprint] = Counted(challenges[fingerprint])
      BY Assumptions, <2>1, Shapes DEF LInv
    <3>3. challenges'[fingerprint].left = challenges[fingerprint].left
      BY <3>1, <3>2, Shapes DEF LInv
    <3>4. challenges'[fingerprint] # None
      BY <2>1, <3>1, <3>2, CountedFields, Shapes DEF LInv
    <3> QED BY <2>1, <3>1, <3>3, <3>4, Shapes DEF LInv, Live
  <2>5. OwnRequests'
    BY <1>2, <2>3, <2>4 DEF LInv, OwnRequests, NoCheck
  <2>6. Progress'
    BY <1>1, <1>2, <2>3 DEF LInv, Progress, Answered, NoCheck
  <2> QED BY <1>3, <2>5, <2>6 DEF LifeInv
<1> QED BY <1>4, <1>5 DEF SubmitProof


\* The challenge that init stores for the sidecar's key is live.
LEMMA StoredIsLive ==
  ASSUME TypeOK, NEW c \in Caller, InitStore(c),
         call[c].publicKey = publicKey, call[c].left = TTL
  PROVE  Live(challenges[fingerprint])'
<1>1. PICK left \in TTL .. TTL :
        challenges' = [challenges EXCEPT ![fingerprint] =
                         [publicKey |-> publicKey, nonce |-> draws', left |-> left, attempts |-> 0]]
  BY Zenon DEF InitStore, fingerprint
<1> DEFINE ch == [publicKey |-> publicKey, nonce |-> draws', left |-> left, attempts |-> 0]
<1>2. draws < MaxDraws /\ draws' = draws + 1 /\ draws \in 0 .. MaxDraws
  BY Zenon DEF InitStore, TypeOK
<1>3. draws' \in Draw /\ left \in -1 .. TTL /\ left > 0 /\ 0 \in 0 .. MaxAttempts
  BY <1>2, LimitsAssumption DEF Draw
<1>4. publicKey \in Key
  BY Assumptions, Zenon
<1>5. ch \in Challenge /\ ch.left > 0
  BY <1>3, <1>4 DEF Challenge
<1> HIDE DEF ch
<1>6. challenges'[fingerprint] = ch
  BY <1>1, Assumptions, Shapes, Zenon DEF ch
<1>7. ch # None
  BY <1>5, NoneAssumption, Zenon
<1> QED BY <1>5, <1>6, <1>7, Zenon DEF Live

\* A handler ends without a registration, leaving no check of its own.
LEMMA UnregisteredKeeps ==
  ASSUME LInv, NEW c \in Caller, HandlerEnds(c),
         InitError(c) \/ InitStore(c) \/ VerifyRefuse(c)
  PROVE  LifeInv'
<1>1. /\ UNCHANGED <<side, slot, secret, restarts, registrations>>
      /\ issued \subseteq issued'
  BY DEF HandlerEnds, InitError, InitStore, VerifyRefuse
<1> DEFINE Ends(status, value) ==
      /\ call' = [call EXCEPT ![c] = [pc |-> "replied", status |-> status, value |-> value]]
      /\ status \in {"error", "challenge", "refused"}
      /\ status = "challenge" =>
           /\ call[c].pc = "store"
           /\ [publicKey |-> call[c].publicKey, nonce |-> value] \in issued'
<1>2. PICK status, value : Ends(status, value)
  <2>1. CASE InitError(c)
    <3>1. Ends("error", 0)
      BY <2>1, Zenon DEF InitError, Replied
    <3> QED BY <3>1, Zenon
  <2>2. CASE VerifyRefuse(c)
    <3>1. Ends("refused", 0)
      BY <2>2, Zenon DEF VerifyRefuse, Replied
    <3> QED BY <3>1, Zenon
  <2>3. CASE InitStore(c)
    <3>1. Ends("challenge", draws')
      BY <2>3, Zenon DEF InitStore, Replied
    <3> QED BY <3>1, Zenon
  <2> QED BY <2>1, <2>2, <2>3, Zenon
<1>3. /\ call'[c].pc = "replied" /\ call'[c].status = status /\ call'[c].value = value
      /\ \A d \in Caller : d # c => call'[d] = call[d]
  BY <1>2, Shapes DEF LInv
<1>4. challenges' = challenges \/ Live(challenges[fingerprint])'
  <2>1. CASE InitError(c) \/ VerifyRefuse(c)
    BY <2>1, Zenon DEF InitError, VerifyRefuse
  <2>2. CASE InitStore(c)
    <3>1. call[c].publicKey = publicKey /\ call[c].left = TTL
      BY <2>2, Zenon DEF LInv, OwnRequests, InitStore
    <3> QED BY <2>2, <3>1, StoredIsLive, Zenon DEF LInv
  <2> QED BY <2>1, <2>2, Zenon
<1>5. OwnRequests'
  BY <1>3, <1>4 DEF LInv, OwnRequests, Live
<1>6. NoCheck => NoCheck'
  BY <1>3 DEF NoCheck
<1>7. SecretCurrent' /\ \A s : Held(s)' <=> Held(s)
  BY <1>1, Zenon DEF LInv, SecretCurrent, Authorised, Held
<1>8. Progress'
  <2>1. ASSUME side = "init", slot = c PROVE
          /\ (call[slot].pc = "store" \/ Answered("challenge"))' => NoCheck'
          /\ Answered("challenge")' =>
               [publicKey |-> publicKey, nonce |-> call'[slot].value] \in issued'
    BY Zenon, <1>1, <1>2, <1>3, <1>6, <2>1 DEF LInv, Progress, Answered, OwnRequests
  <2>2. ASSUME slot \in Caller, slot # c PROVE call'[slot] = call[slot]
    BY <1>3, <2>2
  <2>3. side = "verify" => \A d \in Caller : call'[d].pc = "check" => d = slot
    BY <1>3 DEF LInv, Progress
  <2>4. side = "verify" /\ Answered("registered")' => Held(call[slot].value)'
    BY <1>1, <1>2, <1>3, <1>7, <2>2, Zenon DEF LInv, Progress, Answered
  <2>5. side = "init" /\ (call[slot].pc = "store" \/ Answered("challenge"))' => NoCheck'
    BY <1>1, <1>6, <2>1, <2>2, Zenon DEF LInv, Progress, Answered
  <2>6. side = "init" /\ Answered("challenge")' =>
          [publicKey |-> publicKey, nonce |-> call'[slot].value] \in issued'
    BY <1>1, <2>1, <2>2 DEF LInv, Progress, Answered
  <2>7. /\ side' \in {"starting", "init", "verify", "exited", "dialing", "up"}
        /\ restarts' \in Nat
        /\ side' \in {"init", "verify"} => slot' \in Caller
        /\ side' \in {"dialing", "up"} => NoCheck'
    BY <1>1, <1>6, Zenon DEF LInv, Progress
  <2>8. side' = "verify" => \A d \in Caller : call'[d].pc = "check" => d = slot'
    BY <1>1, <2>3, Zenon
  <2>9. side' = side /\ slot' = slot
    BY <1>1
  <2> QED BY <2>4, <2>5, <2>6, <2>7, <2>8, <2>9, Zenon DEF Progress
<1> QED BY <1>5, <1>7, <1>8, Zenon DEF LifeInv

\* A registration is made: for the sidecar that waits for it, or for one that
\* died and whose successor has no challenge yet.
LEMMA GrantKeeps ==
  ASSUME LInv, NEW c \in Caller, HandlerEnds(c), VerifyGrant(c)
  PROVE  LifeInv'
<1>1. UNCHANGED <<side, slot, secret, restarts, issued>>
  BY DEF HandlerEnds, VerifyGrant
<1>2. call[c].pc = "check" /\ call[c].fingerprint = fingerprint
  BY DEF VerifyGrant, LInv, OwnRequests
<1>3. /\ call' = [call EXCEPT ![c] = [pc |-> "replied", status |-> "registered", value |-> draws']]
      /\ registrations' = [registrations EXCEPT ![fingerprint] =
           [publicKey |-> call[c].challenge.publicKey, secret |-> draws']]
  BY <1>2 DEF VerifyGrant, Replied
<1>4. /\ call'[c].pc = "replied" /\ call'[c].status = "registered" /\ call'[c].value = draws'
      /\ \A d \in Caller : d # c => call'[d] = call[d]
  BY <1>3, Shapes DEF LInv
<1>5. registrations'[fingerprint] # None /\ registrations'[fingerprint].secret = draws'
  <2>1. registrations'[fingerprint] =
          [publicKey |-> call[c].challenge.publicKey, secret |-> draws']
    BY Assumptions, <1>3, Shapes DEF LInv
  <2>2. draws' \in Draw
    <3>1. draws < MaxDraws /\ draws' = draws + 1 /\ draws \in 0 .. MaxDraws
      BY Zenon DEF VerifyGrant, LInv, TypeOK
    <3> QED BY <3>1, LimitsAssumption DEF Draw
  <2>3. call[c].challenge \in Challenge
    BY <1>2, CallKinds DEF LInv, TypeOK, CheckCall
  <2>4. registrations'[fingerprint] \in Registration
    BY <2>1, <2>2, <2>3 DEF Registration, Challenge
  <2>5. registrations'[fingerprint] # None
    BY <2>4, Shapes DEF LInv
  <2> QED BY <2>1, <2>5
<1>6. NoCheck' /\ ~NoCheck
  BY <1>2, <1>4 DEF LInv, OwnRequests, NoCheck
<1>7. OwnRequests'
  <2>1. \A d \in Caller : call'[d].pc = "store" =>
          call'[d].publicKey = publicKey /\ call'[d].left = TTL
    BY <1>4 DEF LInv, OwnRequests
  <2> QED BY <1>6, <2>1, Zenon DEF OwnRequests, NoCheck
<1>8. side \notin {"dialing", "up"}
  BY Zenon, <1>6 DEF LInv, Progress
<1>9. SecretCurrent'
  BY <1>1, <1>8 DEF SecretCurrent
<1>10. Progress'
  <2>1. side = "verify" => slot = c
    BY <1>2, Zenon DEF LInv, Progress
  <2>2. side = "init" => ~Answered("challenge") /\ ~(call[slot].pc = "store")
    BY Zenon, <1>6 DEF LInv, Progress
  <2>3. side = "init" => ~Answered("challenge")'
    BY <1>1, <1>4, <2>2 DEF LInv, Progress, Answered
  <2>4. side = "verify" => Held(call[slot].value)'
    BY <1>1, <1>4, <1>5, <2>1 DEF Held
  <2> QED BY <1>1, <1>6, <1>8, <2>3, <2>4 DEF LInv, Progress, NoCheck
<1> QED BY <1>7, <1>9, <1>10 DEF LifeInv


\* The sidecar's own steps leave the relay alone.
LEMMA SidecarKeeps ==
  ASSUME LInv, UNCHANGED vars, restarts' = restarts,
         \/ Registered \/ RegistrationFails \/ ReplyLost \/ ContainerRestart
         \/ TunnelUp \/ TunnelDrops \/ SidecarCrash \/ UNCHANGED lifeVars
  PROVE  LifeInv'
<1>1. UNCHANGED <<challenges, registrations, call, issued>>
  BY DEF vars
<1>2. OwnRequests'
  BY <1>1 DEF LInv, OwnRequests, Live
<1>3. (NoCheck' <=> NoCheck) /\ \A s : Held(s)' <=> Held(s)
  BY <1>1 DEF NoCheck, Held
<1>4. CASE Registered
  <2>1. /\ side = "verify" /\ side' = "dialing" /\ secret' = call[slot].value
        /\ Answered("registered")
    BY <1>4 DEF Registered, Answered
  <2>2. NoCheck
    BY <2>1 DEF LInv, Progress, Answered, NoCheck
  <2>3. Held(call[slot].value)
    BY <2>1 DEF LInv, Progress
  <2>4. SecretCurrent'
    BY <1>1, <2>1, <2>3 DEF SecretCurrent, Authorised, Held
  <2>5. Progress'
    BY <1>3, <2>1, <2>2 DEF LInv, Progress
  <2> QED BY <1>2, <2>4, <2>5 DEF LifeInv
<1>5. CASE RegistrationFails \/ ReplyLost \/ ContainerRestart \/ SidecarCrash
  <2>1. side' \in {"exited", "starting"}
    BY <1>5 DEF RegistrationFails, ReplyLost, ContainerRestart, SidecarCrash
  <2> QED BY <1>2, <2>1 DEF LInv, LifeInv, Progress, SecretCurrent
<1>6. CASE TunnelUp \/ TunnelDrops
  <2>1. /\ side \in {"dialing", "up"} /\ side' \in {"dialing", "up"} /\ secret' = secret
        /\ Authorised
    BY <1>6 DEF TunnelUp, TunnelDrops, LInv, SecretCurrent
  <2>2. SecretCurrent'
    BY <1>1, <2>1 DEF SecretCurrent, Authorised
  <2>3. Progress'
    BY <1>3, <2>1 DEF LInv, Progress
  <2> QED BY <1>2, <2>2, <2>3 DEF LifeInv
<1>7. CASE UNCHANGED lifeVars
  <2>1. UNCHANGED <<side, slot, secret>>
    BY <1>7 DEF lifeVars
  <2>2. Progress'
    BY <1>1, <1>3, <2>1 DEF LInv, Progress, Answered
  <2>3. SecretCurrent'
    BY <1>1, <2>1 DEF LInv, SecretCurrent, Authorised
  <2> QED BY <1>2, <2>2, <2>3 DEF LifeInv
<1> QED BY <1>4, <1>5, <1>6, <1>7

\* The clock moves only when no handler runs.
LEMMA TickKeeps ==
  ASSUME LInv, ClockTick
  PROVE  LifeInv'
<1>1. /\ \A c \in Caller : call[c].pc = "replied"
      /\ UNCHANGED <<side, slot, secret, restarts, registrations, issued>>
      /\ call' = [c \in Caller |-> IF call[c].pc = "store" THEN Older(call[c]) ELSE call[c]]
  BY DEF ClockTick, Tick
<1>2. \A c \in Caller : call'[c] = call[c]
  BY <1>1
<1>3. OwnRequests' /\ NoCheck' /\ NoCheck
  BY <1>1, <1>2 DEF OwnRequests, NoCheck
<1>4. SecretCurrent' /\ \A s : Held(s)' <=> Held(s)
  BY <1>1 DEF LInv, SecretCurrent, Authorised, Held
<1>5. Progress'
  BY <1>1, <1>2, <1>3, <1>4 DEF LInv, Progress, Answered, NoCheck
<1> QED BY <1>3, <1>4, <1>5 DEF LifeInv

\* A restart of the relay ends every handler and forgets every registration.
LEMMA RestartKeeps ==
  ASSUME LInv, RelayRestart
  PROVE  LifeInv'
<1>1. /\ UNCHANGED <<slot, secret, issued>> /\ restarts' = restarts + 1
      /\ side' = IF side = "up" THEN "dialing" ELSE side
      /\ registrations' = [f \in Fingerprint |-> None]
      /\ call' = [c \in Caller |->
           IF call[c].pc = "replied" THEN call[c]
           ELSE [pc |-> "replied", status |-> "reset", value |-> 0]]
  BY DEF RelayRestart, Restart, Replied
<1>2. /\ \A c \in Caller : \/ call'[c] = call[c] /\ call[c].pc = "replied"
                           \/ call'[c] = [pc |-> "replied", status |-> "reset", value |-> 0]
      /\ registrations'[fingerprint] = None
      /\ restarts \in Nat /\ restarts' \in Nat /\ restarts' > 0
  BY Assumptions, <1>1 DEF LInv, Progress
<1>3. \A c \in Caller : /\ call'[c].pc = "replied"
                        /\ call'[c].status # "reset" => call'[c] = call[c]
  BY <1>2
<1>4. OwnRequests' /\ NoCheck'
  BY <1>3, Zenon DEF OwnRequests, NoCheck
<1>5. SecretCurrent' /\ \A s : Held(s)'
  <2>1. side' # "up"
    BY <1>1
  <2> QED BY <1>2, <2>1, Zenon DEF SecretCurrent, Held
<1>6. Progress'
  <2>1. /\ side' \in {"starting", "init", "verify", "exited", "dialing", "up"}
        /\ side' \in {"init", "verify"} => side' = side
    BY <1>1, Zenon DEF LInv, Progress
  <2>2. side' \in {"init", "verify"} => slot' \in Caller
    BY <1>1, <2>1, Zenon DEF LInv, Progress
  <2>3. side' = "init" /\ Answered("challenge")' =>
          [publicKey |-> publicKey, nonce |-> call'[slot'].value] \in issued'
    <3>1. SUFFICES ASSUME side' = "init", Answered("challenge")'
                   PROVE  [publicKey |-> publicKey, nonce |-> call'[slot'].value] \in issued'
      OBVIOUS
    <3>2. slot' = slot /\ slot \in Caller /\ side = "init" /\ issued' = issued
      BY <1>1, <2>1, <2>2, <3>1, Zenon
    <3>3. call'[slot].status = "challenge"
      BY <3>1, <3>2, Zenon DEF Answered
    <3>4. call'[slot] = call[slot] /\ call[slot].pc = "replied"
      BY <1>2, <1>3, <3>2, <3>3
    <3> QED BY <3>2, <3>3, <3>4, Zenon DEF LInv, Progress, Answered
  <2>4. side' = "verify" => \A c \in Caller : call'[c].pc = "check" => c = slot'
    BY <1>4, Zenon DEF NoCheck
  <2> QED BY <1>2, <1>4, <1>5, <2>1, <2>2, <2>3, <2>4, Zenon DEF Progress
<1> QED BY <1>4, <1>5, <1>6, Zenon DEF LifeInv

LEMMA Initial == LifeInit => LInv
<1> SUFFICES ASSUME LifeInit PROVE LInv
  OBVIOUS
<1>1. TypeOK
  BY InitIInv DEF LifeInit, IInv
<1>2. /\ \A c \in Caller : call[c].pc = "replied"
      /\ side = "starting" /\ restarts = 0
  BY DEF LifeInit, Init, Replied
<1> QED BY <1>1, <1>2, Zenon DEF LInv, OwnRequests, Progress, SecretCurrent

LEMMA StepKeeps ==
  ASSUME LInv, [LifeNext]_lifeVars
  PROVE  LInv'
<1>1. ASSUME NEW c \in Caller, RequestChallenge(c) \/ SubmitProof(c) \/ HandlerEnds(c)
      PROVE  LifeInv'
  BY <1>1, RequestKeeps, SubmitKeeps, UnregisteredKeeps, GrantKeeps DEF HandlerEnds
<1>2. ASSUME \/ Registered \/ RegistrationFails \/ ReplyLost \/ ContainerRestart
             \/ TunnelUp \/ TunnelDrops \/ SidecarCrash \/ UNCHANGED lifeVars
      PROVE  LifeInv'
  <2>1. UNCHANGED vars /\ restarts' = restarts
    BY <1>2 DEF Registered, RegistrationFails, ReplyLost, ContainerRestart, TunnelUp,
      TunnelDrops, SidecarCrash, lifeVars
  <2> QED BY <1>2, <2>1, SidecarKeeps
<1>3. LifeInv'
  BY <1>1, <1>2, TickKeeps, RestartKeeps DEF LifeNext
<1> QED BY <1>3, TypeKeeps DEF LifeInv, LInv

LEMMA Invariant == LifeSpec => []LInv
  BY Initial, StepKeeps, PTL DEF LifeSpec

-----------------------------------------------------------------------------
\* A registered sidecar holds the secret the relay knows: no registration that
\* an earlier life of it asked for replaces the one it uses, for any number of
\* requests, failures and restarts (handleRegisterInit's 409 and
\* handleRegisterVerify in main.go, registerWithProxy in the sidecar).
THEOREM SecretStaysCurrent == LifeSpec => []SecretCurrent
<1>1. LInv => SecretCurrent
  BY DEF LInv
<1> QED BY <1>1, Invariant, PTL

\* Composed with a sidecar and its container, the relay's handlers still only do
\* what RelayRegistration lets them: in particular the sidecar's proofs are ones
\* RelayRegistration allows for (registerWithProxy, phase 2).
THEOREM LifecycleIsRegistration == LifeSpec => Spec
<1>1. LifeInit => Init
  BY DEF LifeInit
<1>2. ASSUME LInv, [LifeNext]_lifeVars PROVE [Next]_vars
  BY <1>2, RelayStep
<1> QED BY <1>1, <1>2, Invariant, PTL DEF LifeSpec, Spec

\* Hence what is proved of registration holds of the composition, lost replies,
\* crashes and restarts included: registrations are proved ones, on time, with a
\* bounded number of attempts at a nonce and none at one that was spent.
THEOREM RegistrationStaysSafe ==
  LifeSpec => [](/\ RegistrationsProved /\ ProofsOnTime
                 /\ AttemptsBounded /\ SpentNonceNeverLive)
  BY LifecycleIsRegistration, OnlyProvedRegistrations, OnlyTimelyProofs, BoundedAttempts,
     SpentNoncesStayDead, PTL

=============================================================================
