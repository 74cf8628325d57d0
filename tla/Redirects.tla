------------------------------ MODULE Redirects ------------------------------
(* One exchange with a server that answers with redirects: the CheckRedirect  *)
(* of processScenario (internal/runner/worker.go), the client without one of  *)
(* the cached requests (internal/runner/cached-request-processor.go), and     *)
(* what net/http makes of either.  The server redirects chain times before it *)
(* answers.                                                                   *)
EXTENDS Integers

CONSTANTS
  Limits,   \* values of max_redirects
  Chains    \* bound: how often a server may redirect

ASSUME RedirectAssumption == Limits \subseteq Nat /\ Chains \subseteq Nat

VARIABLES
  limit,    \* scenarioBp.Config.MaxRedirects
  chain,    \* redirects the server has in store
  cached,   \* the request goes through sendCached
  made,     \* len(via): requests made so far
  outcome   \* "none" while it goes on, then what the caller is given

vars == <<limit, chain, cached, made, outcome>>

TypeOK ==
  /\ limit \in Limits /\ chain \in Chains /\ cached \in BOOLEAN
  /\ made \in 1 .. chain + 1
  /\ outcome \in {"none", "answer", "error"}

Init ==
  /\ limit \in Limits /\ chain \in Chains /\ cached \in BOOLEAN
  /\ made = 1 /\ outcome = "none"

(* A Client without CheckRedirect gives up after ten requests. *)
DefaultLimit == 10

(* Mutant: the first request is not counted, len(via) > MaxRedirects, so that *)
(* as many redirects are followed as the limit says.                          *)
RefusedFromFirst == made > (IF cached THEN DefaultLimit ELSE limit)

(* CheckRedirect returns an error. *)
Refused == made >= (IF cached THEN DefaultLimit ELSE limit)

Redirected == outcome = "none" /\ made <= chain

(* Client.Do passes the error on, and the redirect itself is lost. *)
GiveUp ==
  /\ Redirected /\ Refused
  /\ outcome' = "error"
  /\ UNCHANGED <<limit, chain, cached, made>>

Follow ==
  /\ Redirected /\ ~Refused
  /\ made' = made + 1
  /\ UNCHANGED <<limit, chain, cached, outcome>>

Answer ==
  /\ outcome = "none" /\ made > chain
  /\ outcome' = "answer"
  /\ UNCHANGED <<limit, chain, cached, made>>

Next == GiveUp \/ Follow \/ Answer \/ (outcome # "none" /\ UNCHANGED vars)

Spec == Init /\ [][Next]_vars

-----------------------------------------------------------------------------
Followed == made - 1

(* CheckRedirect is asked with the requests made so far, the first included:  *)
(* a scenario's own client makes at most max_redirects requests, but always   *)
(* the first, and so follows one redirect less than that.  An answer within   *)
(* these requests is always reached, and one beyond them never: the caller    *)
(* has an error instead, after as many requests as are allowed.               *)
(* docs/scenario.md:54 says otherwise: that max_redirects are followed, and   *)
(* that at the limit the redirect itself is the response.                     *)
OwnClientKeepsLimit ==
  LET allowed == IF limit = 0 THEN 1 ELSE limit
  IN  ~cached => /\ made <= allowed
                 /\ outcome = "answer" => chain < allowed
                 /\ outcome = "error" => chain >= allowed /\ made = allowed
=============================================================================
