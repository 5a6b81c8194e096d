------------------------------ MODULE Licence ------------------------------
(***************************************************************************)
(* The licence in force in each process: the key of the environment, else  *)
(* the one an administrator activated or a purchase installed, which is    *)
(* kept in the database.  Only the process that serves the request hears   *)
(* of an activation; another one reads the stored key when it boots.       *)
(* Without a licence the evaluation counts.                                *)
(***************************************************************************)
EXTENDS Integers, FiniteSets

CONSTANTS Hosting,     \* the server and the workers
          Server,
          LicenceKeys, \* keys that verify, unless they have expired
          EnvKeys,     \* what the environment may hold: keys, or NoKey
          NoKey,
          Requests,    \* activations, deactivations and claims, each made once
          MaxLicenceTrouble \* bound: statements that fail, restarts, expiries

ASSUME LicenceAssumption ==
    /\ Server \in Hosting
    /\ NoKey \notin LicenceKeys
    /\ EnvKeys \subseteq LicenceKeys \cup {NoKey}
    /\ MaxLicenceTrouble \in Nat

VARIABLES env,         \* options.licenceKey
          storedKey,   \* the licence store
          inForce,     \* licenceStatus and activeLicenceKey of each process
          evaluating,  \* the evaluation client of each process runs
          evaluationOn,\* the licence server says the evaluation is active
          expired,     \* keys that do not verify any more
          booting,     \* processes between init and bootstrap
          request,     \* where each request is
          licenceTrouble

licenceVars == <<env, storedKey, inForce, evaluating, evaluationOn, expired, booting,
                 request, licenceTrouble>>

Verifies(k) == k \in LicenceKeys \ expired

\* FraudPreventionPlugin.init: the environment's key, or an evaluation.
Configured == IF Verifies(env) THEN env ELSE NoKey

LicenceInit ==
    /\ env \in EnvKeys
    /\ storedKey = NoKey
    /\ expired = {}
    /\ inForce = [p \in Hosting |-> Configured]
    /\ evaluating = [p \in Hosting |-> Configured = NoKey]
    /\ evaluationOn = TRUE
    /\ booting = {}
    /\ request = [q \in Requests |-> [at |-> "new", key |-> NoKey]]
    /\ licenceTrouble = [count |-> 0, saveFailed |-> FALSE, envDropped |-> FALSE, crossed |-> FALSE]

HasPremiumAccess(p) == inForce[p] # NoKey \/ (evaluating[p] /\ evaluationOn)

Strikes == /\ licenceTrouble.count < MaxLicenceTrouble
           /\ licenceTrouble' = [licenceTrouble EXCEPT !.count = @ + 1]

-----------------------------------------------------------------------------
(* A process starts: init with what the environment holds (requests it was *)
(* serving are gone) ...                                                   *)
StartProcess(p) ==
    /\ Strikes
    /\ inForce' = [inForce EXCEPT ![p] = Configured]
    /\ evaluating' = [evaluating EXCEPT ![p] = Configured = NoKey]
    /\ booting' = booting \cup {p}
    /\ request' = [q \in Requests |->
          IF p = Server /\ request[q].at # "new" THEN [at |-> "done", key |-> NoKey] ELSE request[q]]
    /\ UNCHANGED <<env, storedKey, evaluationOn, expired>>

(* ... and the bootstrap, which looks for a stored key if that was none.   *)
Bootstrap(p) ==
    /\ p \in booting
    /\ booting' = booting \ {p}
    /\ \/ /\ inForce[p] = NoKey /\ Verifies(storedKey)
          /\ inForce' = [inForce EXCEPT ![p] = storedKey]
          /\ evaluating' = [evaluating EXCEPT ![p] = FALSE]
       \/ /\ inForce[p] # NoKey \/ ~Verifies(storedKey)
          /\ UNCHANGED <<inForce, evaluating>>
    /\ UNCHANGED <<env, storedKey, evaluationOn, expired, request, licenceTrouble>>

\* Requests under way; two that overlap may finish in either order.
Underway == {q \in Requests : request[q].at \in {"saving", "clearing"}}

Advance(q, at, key) ==
    /\ request' = [request EXCEPT ![q] = [at |-> at, key |-> key]]
    /\ licenceTrouble' = [licenceTrouble EXCEPT
          !.crossed = @ \/ (at \in {"saving", "clearing"} /\ Underway \ {q} # {})]

(* A key is activated by hand, or installed by a purchase: it is in force  *)
(* at once if it verifies ...                                              *)
Activate(q, k) ==
    /\ request[q].at = "new" /\ Server \notin booting
    /\ Verifies(k)
    /\ inForce' = [inForce EXCEPT ![Server] = k]
    /\ evaluating' = [evaluating EXCEPT ![Server] = FALSE]
    /\ Advance(q, "saving", k)
    /\ UNCHANGED <<env, storedKey, evaluationOn, expired, booting>>

(* ... and stored next.                                                    *)
SaveKey(q) ==
    /\ request[q].at = "saving"
    /\ storedKey' = request[q].key
    /\ Advance(q, "done", NoKey)
    /\ UNCHANGED <<env, inForce, evaluating, evaluationOn, expired, booting>>

SaveKeyFails(q) ==
    /\ request[q].at = "saving"
    /\ licenceTrouble.count < MaxLicenceTrouble
    /\ licenceTrouble' = [licenceTrouble EXCEPT !.count = @ + 1, !.saveFailed = TRUE]
    /\ request' = [request EXCEPT ![q] = [at |-> "done", key |-> NoKey]]
    /\ UNCHANGED <<env, storedKey, inForce, evaluating, evaluationOn, expired, booting>>

\* Mutant: the stored key is left.
ClearNothing(q) ==
    /\ request[q].at = "new" /\ Server \notin booting
    /\ Advance(q, "clearing", NoKey)
    /\ UNCHANGED <<env, storedKey, inForce, evaluating, evaluationOn, expired, booting>>

(* A deactivation clears the stored key first ...                          *)
ClearKey(q) ==
    /\ request[q].at = "new" /\ Server \notin booting
    /\ storedKey' = NoKey
    /\ Advance(q, "clearing", NoKey)
    /\ UNCHANGED <<env, inForce, evaluating, evaluationOn, expired, booting>>

(* ... and then drops what is in force, the environment's key as well, and *)
(* goes on evaluating.                                                     *)
Deactivate(q) ==
    /\ request[q].at = "clearing"
    /\ inForce' = [inForce EXCEPT ![Server] = NoKey]
    /\ evaluating' = [evaluating EXCEPT ![Server] = TRUE]
    /\ request' = [request EXCEPT ![q] = [at |-> "done", key |-> NoKey]]
    /\ licenceTrouble' = [licenceTrouble EXCEPT !.envDropped = @ \/ Configured # NoKey]
    /\ UNCHANGED <<env, storedKey, evaluationOn, expired, booting>>

(* The clock of the licence server: keys expire, the evaluation ends.      *)
Expire ==
    /\ Strikes
    /\ \/ \E k \in LicenceKeys \ expired : expired' = expired \cup {k} /\ UNCHANGED evaluationOn
       \/ evaluationOn /\ evaluationOn' = FALSE /\ UNCHANGED expired
    /\ UNCHANGED <<env, storedKey, inForce, evaluating, booting, request>>

LicenceNext ==
    \/ \E p \in Hosting : StartProcess(p) \/ Bootstrap(p)
    \/ \E q \in Requests :
          \/ \E k \in LicenceKeys : Activate(q, k)
          \/ SaveKey(q) \/ SaveKeyFails(q) \/ ClearKey(q) \/ Deactivate(q)
    \/ Expire

-----------------------------------------------------------------------------
(* A key is "applied immediately (no .env edit, no redeploy) and persisted" *)
(* (fraud-prevention.controller.ts:170-171): once no request is under way, the *)
(* server is licensed exactly if it were after a restart, and has premium  *)
(* access exactly if it had; unless a key has expired since, the save of   *)
(* one failed, two requests crossed, or a deactivation dropped the key of  *)
(* the environment.                                                        *)
SurvivesRestart ==
    LET licensedAfter == Configured # NoKey \/ Verifies(storedKey) IN
    /\ Underway = {} /\ booting = {} /\ expired = {}
    /\ ~licenceTrouble.saveFailed /\ ~licenceTrouble.crossed /\ ~licenceTrouble.envDropped
    => /\ (inForce[Server] # NoKey) = licensedAfter
       /\ HasPremiumAccess(Server) = (licensedAfter \/ evaluationOn)

=============================================================================
