--------------------------- MODULE SidecarLifecycle ---------------------------
(***************************************************************************)
(* A sidecar from its start to a working tunnel, composed with the relay's *)
(* registration handlers: main registers once (registerWithProxy), exits   *)
(* if that fails and is started again by its container, and otherwise      *)
(* dials the tunnel URL it was given for as long as it lives.              *)
(*                                                                         *)
(* A request of a sidecar that died or stopped waiting keeps its goroutine *)
(* at the relay, so a restarted sidecar can meet its own past. The rate    *)
(* limiter is left out: its refusals end like any other failed call.       *)
(***************************************************************************)
EXTENDS RelayRegistration

CONSTANTS
  publicKey,    \* this sidecar's Headscale key
  MaxFailures,  \* bound on lost or late replies, dropped tunnels and crashes
  MaxRestarts   \* bound on restarts of the relay

ASSUME LifecycleAssumption ==
  publicKey \in CurveKey /\ MaxFailures \in Nat /\ MaxRestarts \in Nat

VARIABLES
  side,         \* sidecar: where main is
  slot,         \* sidecar: the request it waits for
  secret,       \* sidecar: the auth parameter of its tunnel URL
  failures,     \* failures so far
  restarts      \* relay restarts so far

lifeVars == <<vars, side, slot, secret, failures, restarts>>

fingerprint == ComputeFingerprint[publicKey]

LifeInit ==
  /\ Init
  /\ side = "starting"
  /\ slot = None
  /\ secret = None
  /\ failures = 0
  /\ restarts = 0

-----------------------------------------------------------------------------
(* The sidecar *)

\* registerWithProxy, phase 1: the init request reaches the relay.
RequestChallenge(c) ==
  /\ side = "starting"
  /\ InitConflict(c, publicKey) \/ InitCheck(c, publicKey)
  /\ side' = "init"
  /\ slot' = c
  /\ UNCHANGED <<secret, failures, restarts>>

\* A challenge is good for 5 minutes and answered at once: the proof is taken
\* not to arrive within one handler's duration of its expiry.
NotInItsLastInstant(ch) == ch # None => ch.left # 0

\* Phase 2: the challenge came back, the proof of its nonce reaches the relay.
SubmitProof(c) ==
  /\ side = "init"
  /\ call[slot].pc = "replied"
  /\ call[slot].status = "challenge"
  /\ \/ VerifyGone(c, fingerprint)
     \/ /\ NotInItsLastInstant(challenges[fingerprint])
        /\ VerifyAdmit(c, fingerprint,
             RegistrationProof(fingerprint, publicKey, call[slot].value))
  /\ side' = "verify"
  /\ slot' = c
  /\ UNCHANGED <<secret, failures, restarts>>

\* The registration came back; main goes on to its tunnel loop.
Registered ==
  /\ side = "verify"
  /\ call[slot].pc = "replied"
  /\ call[slot].status = "registered"
  /\ side' = "dialing"
  /\ secret' = call[slot].value
  /\ slot' = None
  /\ UNCHANGED <<vars, failures, restarts>>

\* Either request was answered with an error: log.Fatalf; and the slip of going
\* on without a registration, as in dev mode.
RegistrationIgnored ==
  /\ side \in {"init", "verify"}
  /\ call[slot].pc = "replied"
  /\ call[slot].status # (IF side = "init" THEN "challenge" ELSE "registered")
  /\ side' = "dialing"
  /\ slot' = None
  /\ UNCHANGED <<vars, secret, failures, restarts>>

RegistrationFails ==
  /\ side \in {"init", "verify"}
  /\ call[slot].pc = "replied"
  /\ call[slot].status # (IF side = "init" THEN "challenge" ELSE "registered")
  /\ side' = "exited"
  /\ slot' = None
  /\ UNCHANGED <<vars, secret, failures, restarts>>

\* Either request's answer was lost: log.Fatalf as well.
ReplyLost ==
  /\ side \in {"init", "verify"}
  /\ failures < MaxFailures
  /\ failures' = failures + 1
  /\ side' = "exited"
  /\ slot' = None
  /\ UNCHANGED <<vars, secret, restarts>>

\* The container's restart policy.
ContainerRestart ==
  /\ side = "exited"
  /\ side' = "starting"
  /\ UNCHANGED <<vars, slot, secret, failures, restarts>>

\* handleTunnel's look at the registration.
Authorised ==
  /\ registrations[fingerprint] # None
  /\ registrations[fingerprint].secret = secret

\* runTunnel: the dial is accepted. A refused one leaves main in its loop, with
\* the same URL and after the reconnect delay.
TunnelUp ==
  /\ side = "dialing"
  /\ Authorised
  /\ side' = "up"
  /\ UNCHANGED <<vars, slot, secret, failures, restarts>>

\* runTunnel returns with a read error.
TunnelDrops ==
  /\ side = "up"
  /\ failures < MaxFailures
  /\ failures' = failures + 1
  /\ side' = "dialing"
  /\ UNCHANGED <<vars, slot, secret, restarts>>

\* The process dies, or main ends because a step of registerWithProxy other than
\* the two requests failed (reading the key, asking Headscale, a reply that does
\* not match the fingerprint).
SidecarCrash ==
  /\ side # "exited"
  /\ failures < MaxFailures
  /\ failures' = failures + 1
  /\ side' = "exited"
  /\ slot' = None
  /\ secret' = None
  /\ UNCHANGED <<vars, restarts>>

-----------------------------------------------------------------------------
(* The relay and the clock *)

\* The second half of a handler runs.
HandlerEnds(c) ==
  /\ InitError(c) \/ InitStore(c) \/ VerifyRefuse(c) \/ VerifyGrant(c)
  /\ UNCHANGED <<side, slot, secret, failures, restarts>>

\* Handlers take far less than a tick; that the sidecar lets a tick of its
\* challenge's life pass before it answers counts as a failure.
ClockTick ==
  /\ \A c \in Caller : call[c].pc = "replied"
  /\ Tick
  /\ failures' = IF side = "init" /\ Live(challenges[fingerprint])
                 THEN failures + 1 ELSE failures
  /\ failures' <= MaxFailures
  /\ UNCHANGED <<side, slot, secret, restarts>>

RelayRestart ==
  /\ restarts < MaxRestarts
  /\ restarts' = restarts + 1
  /\ Restart
  /\ side' = IF side = "up" THEN "dialing" ELSE side
  /\ UNCHANGED <<slot, secret, failures>>

LifeNext ==
  \/ \E c \in Caller : RequestChallenge(c) \/ SubmitProof(c) \/ HandlerEnds(c)
  \/ Registered
  \/ RegistrationFails
  \/ ReplyLost
  \/ ContainerRestart
  \/ TunnelUp
  \/ TunnelDrops
  \/ SidecarCrash
  \/ ClockTick
  \/ RelayRestart

\* The sidecar and its container keep going, handlers end, the relay can
\* generate keys, and time passes.
Fairness ==
  /\ WF_lifeVars(\E c \in Caller : RequestChallenge(c))
  /\ WF_lifeVars(\E c \in Caller : SubmitProof(c))
  /\ \A c \in Caller :
       WF_lifeVars((InitStore(c) \/ VerifyRefuse(c) \/ VerifyGrant(c)) /\ HandlerEnds(c))
  /\ SF_lifeVars(\E c \in Caller : InitStore(c) /\ HandlerEnds(c))
  /\ WF_lifeVars(Registered)
  /\ WF_lifeVars(RegistrationFails)
  /\ WF_lifeVars(ContainerRestart)
  /\ WF_lifeVars(TunnelUp)
  /\ SF_lifeVars(ClockTick)

LifeSpec == LifeInit /\ [][LifeNext]_lifeVars /\ Fairness

-----------------------------------------------------------------------------
\* A sidecar that has registered holds the secret the relay knows, even if it
\* crashed or stopped waiting with earlier requests still being handled: a late
\* registration of its past never replaces the one it uses. Only a restart of
\* the relay, which forgets all registrations, can lock it out, and then its
\* tunnel is down.
SecretCurrent ==
  /\ side = "dialing" => Authorised \/ (restarts > 0 /\ registrations[fingerprint] = None)
  /\ side = "up" => Authorised

\* The tunnel comes up and stays up once failures stop: also if the relay
\* restarts, by docs/REGISTRATION.md: "If the proxy restarts, the sidecar simply
\* re-registers automatically."
TunnelComesUp == <>[](side = "up")

\* The tunnel comes up, through 409s, lost replies, crashes and drops, as long as
\* the relay keeps its registrations.
ComesUpUnlessForgotten == [](restarts = 0) => TunnelComesUp

=============================================================================
