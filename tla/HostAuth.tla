------------------------------ MODULE HostAuth ------------------------------
(***************************************************************************)
(* The authority of a standalone host: a token the owner's browser sends,  *)
(* and a random proof that the host adds to each request it lets pass, for *)
(* the bridge policy of the backend to recognise.  Both are zeroed when    *)
(* the host is disposed or its HTTP server has closed.  A handler runs to  *)
(* its end; between two of them anything may happen.                       *)
(***************************************************************************)
CONSTANT Requests

VARIABLES
  server,     \* the HTTP server of Vite, as far as its hooks have run
  disposed,
  secrets,    \* the bytes of the token and of the proof
  upgrades,   \* who listens to upgrades
  request     \* requests and upgrades by id

hostVars == <<server, disposed, secrets, upgrades, request>>

(* What a client may present as the token: the owner's, or zeros, which    *)
(* is what the host would compare with once its own is cleared.            *)
Tokens == {"owner", "zeros"}

Request ==
  [kind : {"http", "upgrade"}, token : Tokens, proof : {"fresh", "zeros", "none"},
   phase : {"none", "forwarded", "delegated", "served"}]

NoRequest == [kind |-> "http", token |-> "owner", proof |-> "none", phase |-> "none"]

HostTypeOK ==
  /\ server \in {"created", "configured", "gated", "listening", "closing", "closed"}
  /\ disposed \in BOOLEAN
  /\ secrets \in {"set", "cleared"}
  /\ upgrades \in {"vite", "gate"}
  /\ request \in [Requests -> Request]

HostInit ==
  /\ server = "created"
  /\ disposed = FALSE
  /\ secrets = "set"
  /\ upgrades = "vite"
  /\ request = [r \in Requests |-> NoRequest]

(* The pre-auth plugin is the first configureServer hook, the post hook of *)
(* the finalizer the last; the server listens after both.                  *)
ConfigureServer ==
  /\ server = "created"
  /\ server' = "configured"
  /\ UNCHANGED <<disposed, secrets, upgrades, request>>

InstallUpgradeGate ==
  /\ server = "configured"
  /\ server' = "gated"
  /\ upgrades' = "gate"
  /\ UNCHANGED <<disposed, secrets, request>>

Listen ==
  /\ server = "gated"
  /\ server' = "listening"
  /\ UNCHANGED <<disposed, secrets, upgrades, request>>

ExpectedToken == IF secrets = "set" THEN "owner" ELSE "zeros"
TrustedProof == IF secrets = "set" THEN "fresh" ELSE "zeros"

(* authorize, after the check of disposed. *)
AdmitsAnyTime(token) == token = ExpectedToken
Admits(token) == ~disposed /\ token = ExpectedToken

Reachable == server \in {"listening", "closing"}

(* Whatever authority a request claims is stripped; the host's is added.   *)
(* A request that is answered 401 leaves nothing behind.                   *)
HttpRequest(r, token) ==
  /\ Reachable
  /\ request[r] = NoRequest
  /\ Admits(token)
  /\ request' = [request EXCEPT ![r] =
       [kind |-> "http", token |-> token, proof |-> TrustedProof, phase |-> "forwarded"]]
  /\ UNCHANGED <<server, disposed, secrets, upgrades>>

Upgrade(r, token) ==
  /\ Reachable
  /\ request[r] = NoRequest
  /\ upgrades = "gate" => Admits(token)
  /\ request' = [request EXCEPT ![r] =
       [kind |-> "upgrade", token |-> token,
        proof |-> IF upgrades = "gate" THEN TrustedProof ELSE "none", phase |-> "delegated"]]
  /\ UNCHANGED <<server, disposed, secrets, upgrades>>

(* getPrincipal, in the backend the request was proxied to. *)
Recognised(r) == ~disposed /\ request[r].proof = TrustedProof

BridgeResolves(r) ==
  /\ request[r].phase = "forwarded"
  /\ request' = [request EXCEPT ![r] =
       IF Recognised(r) THEN [@ EXCEPT !.phase = "served"] ELSE NoRequest]
  /\ UNCHANGED <<server, disposed, secrets, upgrades>>

RequestEnds(r) ==
  /\ request[r].phase \in {"served", "delegated"}
  /\ request' = [request EXCEPT ![r] = NoRequest]
  /\ UNCHANGED <<server, disposed, secrets, upgrades>>

Deactivated ==
  /\ disposed' = TRUE
  /\ secrets' = "cleared"

Dispose ==
  /\ ~disposed
  /\ Deactivated
  /\ UNCHANGED <<server, upgrades, request>>

(* The server stops accepting; "close" may come while the backend still    *)
(* works on what was forwarded to it.                                      *)
BeginClose ==
  /\ server = "listening"
  /\ server' = "closing"
  /\ UNCHANGED <<disposed, secrets, upgrades, request>>

Closed ==
  /\ server = "closing"
  /\ server' = "closed"
  /\ Deactivated
  /\ upgrades' = "vite"
  /\ UNCHANGED request

HostNext ==
  \/ ConfigureServer \/ InstallUpgradeGate \/ Listen
  \/ \E r \in Requests, token \in Tokens : HttpRequest(r, token) \/ Upgrade(r, token)
  \/ \E r \in Requests : BridgeResolves(r) \/ RequestEnds(r)
  \/ Dispose \/ BeginClose \/ Closed

-----------------------------------------------------------------------------
(* Whatever the bridge serves and whatever upgrade reaches Vite was        *)
(* authorised by the owner's token, and is let through while the host is   *)
(* active: cleared secrets authorise nobody, whichever handler runs next.  *)
LetThrough(r) == request[r].phase \in {"served", "delegated"}

OnlyTheOwnerPasses ==
  [][\A r \in Requests :
       LetThrough(r)' /\ ~LetThrough(r) => request'[r].token = "owner" /\ ~disposed]_hostVars
=============================================================================
