---------------------------- MODULE TunnelService ----------------------------
(***************************************************************************)
(* What the relay and the sidecar together promise about one fingerprint:  *)
(* a slot that names at most one tunnel and loses a working tunnel only to *)
(* its successor, and requests that are executed at most once and answered *)
(* truthfully.                                                             *)
(***************************************************************************)
EXTENDS Naturals

CONSTANTS Conn, Request, None

VARIABLES
  slot,      \* the tunnel clients are routed to
  up,        \* whether that tunnel's connection is open
  executed,  \* how often each request was executed
  outcome    \* what each request's client was told

svars == <<slot, up, executed, outcome>>

\* Outcomes after which the client may safely send the request again.
Refusal == {"not connected", "write failed"}

Outcome == Refusal \cup {"headscale", "bad gateway", "timeout"}

SInit ==
  /\ slot = None
  /\ up = FALSE
  /\ executed = [r \in Request |-> 0]
  /\ outcome = [r \in Request |-> None]

\* A new tunnel takes the slot, from whatever was there.
Connect(c) ==
  /\ slot' = c
  /\ up' = TRUE
  /\ UNCHANGED <<executed, outcome>>

\* The routed tunnel's connection ends.
Disconnect ==
  /\ slot # None
  /\ up
  /\ up' = FALSE
  /\ UNCHANGED <<slot, executed, outcome>>

\* The slot is emptied, and only of a tunnel that is down.
Clear ==
  /\ slot # None
  /\ ~up
  /\ slot' = None
  /\ UNCHANGED <<up, executed, outcome>>

\* Headscale executes requests that were neither executed nor refused.
Execute(requests) ==
  /\ \A r \in requests : executed[r] = 0 /\ outcome[r] \notin Refusal
  /\ executed' = [r \in Request |-> IF r \in requests THEN 1 ELSE executed[r]]
  /\ UNCHANGED <<slot, up, outcome>>

\* A client gets its one answer.
Answer(r, answer) ==
  /\ outcome[r] = None
  /\ answer = "headscale" => executed[r] = 1
  /\ answer \in Refusal => executed[r] = 0
  /\ outcome' = [outcome EXCEPT ![r] = answer]
  /\ UNCHANGED <<slot, up, executed>>

SNext ==
  \/ \E c \in Conn : Connect(c)
  \/ Disconnect
  \/ Clear
  \/ \E requests \in SUBSET Request : Execute(requests)
  \/ \E r \in Request, answer \in Outcome : Answer(r, answer)

SSpec == SInit /\ [][SNext]_svars

=============================================================================
