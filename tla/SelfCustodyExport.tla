--------------------------- MODULE SelfCustodyExport ---------------------------
(***************************************************************************)
(* The export of a managed wallet into the custody of its owner:           *)
(* services/wallet-self-custody-export.service.ts behind its controller.   *)
(* The repository of authorizations and the key store are interfaces; what *)
(* they do is modelled from how the service uses them.                     *)
(*                                                                         *)
(* An authorization is claimed, the secret is loaded, the wallet is        *)
(* migrated, the secret is deleted from the store, the audit trail is      *)
(* written, and then the secret is handed to the owner.                    *)
(***************************************************************************)
EXTENDS Naturals

CONSTANTS
  Token,      \* authorizations, each issued once
  Request,    \* calls of exportOnce()
  NoToken,
  MaxFaults   \* bound: calls that fail or requests that die

ExportAssumption == NoToken \notin Token /\ MaxFaults \in Nat

VARIABLES
  custody,    \* "managed", "migrated", or "closed": no longer to be migrated
  key,        \* the secret is in the key store
  token,      \* [Token -> TokenState], status of the authorization
  live,       \* the tokens that have not expired
  pc,         \* [Request -> Pc]
  held,       \* [Request -> Token or NoToken], the claim of a request
  secret,     \* [Request -> BOOLEAN], the request has loaded the secret
  delivered,  \* history: answers that brought the secret to the owner
  broken,     \* history: something failed after the migration
  faults      \* history: faults so far

wallet == <<custody, key>>
local == <<pc, held, secret>>
history == <<delivered, broken, faults>>
vars == <<wallet, token, live, local, history>>

-------------------------------------------------------------------------------
TokenState == {"none", "PENDING", "CLAIMED", "CONSUMED"}
Pc == {"idle", "load", "release", "migrate", "delete", "audit"}

TypeOK ==
  /\ custody \in {"managed", "migrated", "closed"} /\ key \in BOOLEAN
  /\ token \in [Token -> TokenState] /\ live \in SUBSET Token
  /\ pc \in [Request -> Pc] /\ held \in [Request -> Token \cup {NoToken}]
  /\ secret \in [Request -> BOOLEAN]
  /\ delivered \in Nat /\ broken \in BOOLEAN /\ faults \in Nat

Init ==
  /\ custody = "managed" /\ key = TRUE
  /\ token = [t \in Token |-> "none"] /\ live = {}
  /\ pc = [r \in Request |-> "idle"] /\ held = [r \in Request |-> NoToken]
  /\ secret = [r \in Request |-> FALSE]
  /\ delivered = 0 /\ broken = FALSE /\ faults = 0

Goto(r, l) == pc' = [pc EXCEPT ![r] = l]
Mark(t, s) == token' = [token EXCEPT ![t] = s]

End(r) ==
  /\ Goto(r, "idle")
  /\ held' = [held EXCEPT ![r] = NoToken]
  /\ secret' = [secret EXCEPT ![r] = FALSE]

Fault ==
  /\ faults < MaxFaults /\ faults' = faults + 1
  /\ broken' = (broken \/ custody = "migrated")
  /\ UNCHANGED delivered

-------------------------------------------------------------------------------
\* authorize(): the wallet is looked at, and the authorization is saved later;
\* nothing binds the two but the wallet.
Authorize(t) ==
  /\ token[t] = "none"
  /\ Mark(t, "PENDING")
  /\ live' = live \cup {t}
  /\ UNCHANGED <<wallet, local, history>>

Expire(t) ==
  /\ t \in live
  /\ live' = live \ {t}
  /\ UNCHANGED <<wallet, token, local, history>>

\* External: the wallet is disabled while an authorization is out.
Close ==
  /\ custody = "managed"
  /\ custody' = "closed"
  /\ UNCHANGED <<key, token, live, local, history>>

\* External, as the service uses it: of the requests that bring a token one
\* gets it.
ClaimAuthorization(r, t) ==
  /\ pc[r] = "idle"
  /\ token[t] = "PENDING" /\ t \in live
  /\ Mark(t, "CLAIMED")
  /\ held' = [held EXCEPT ![r] = t]
  /\ Goto(r, "load")
  /\ UNCHANGED <<wallet, live, secret, history>>

LoadSecret(r) ==
  /\ pc[r] = "load" /\ key
  /\ secret' = [secret EXCEPT ![r] = TRUE]
  /\ Goto(r, "migrate")
  /\ UNCHANGED <<wallet, token, live, held, history>>

\* Seeded fault: a request goes on without the secret.
AfterNoSecretMigrate == "migrate"
AfterNoSecret == "release"

\* The store does not have the secret, or cannot be asked.
NoSecret(r) ==
  /\ pc[r] = "load"
  /\ IF key THEN Fault ELSE UNCHANGED history
  /\ Goto(r, AfterNoSecret)
  /\ UNCHANGED <<wallet, token, live, held, secret>>

\* The claim is given back; the failure is recorded and answered.
ReleaseClaim(r) ==
  /\ pc[r] = "release"
  /\ token' = [token EXCEPT ![held[r]] = IF @ = "CLAIMED" THEN "PENDING" ELSE @]
  /\ End(r)
  /\ UNCHANGED <<wallet, live, history>>

\* External, as the service uses it: the claim is consumed with the transition
\* of the wallet, or neither.
CompleteMigration(r) ==
  /\ pc[r] = "migrate"
  /\ custody = "managed" /\ token[held[r]] = "CLAIMED"
  /\ custody' = "migrated"
  /\ Mark(held[r], "CONSUMED")
  /\ Goto(r, "delete")
  /\ UNCHANGED <<key, live, held, secret, history>>

\* Seeded fault: the answer of the repository is not looked at.
AfterRefusalDelete == "delete"
AfterRefusal == "release"

MigrationRefused(r) ==
  /\ pc[r] = "migrate"
  /\ custody # "managed"
  /\ Goto(r, AfterRefusal)
  /\ UNCHANGED <<wallet, token, live, held, secret, history>>

DeleteSecret(r) ==
  /\ pc[r] = "delete"
  /\ key' = FALSE
  /\ Goto(r, "audit")
  /\ UNCHANGED <<custody, token, live, held, secret, history>>

\* The completion is on the audit trail and the secret is the answer.
Deliver(r) ==
  /\ pc[r] = "audit"
  /\ delivered' = IF secret[r] THEN delivered + 1 ELSE delivered
  /\ End(r)
  /\ UNCHANGED <<wallet, token, live, broken, faults>>

\* A call fails or the process dies; a deletion that failed may have been done.
\* No claim is given back.
Break(r) ==
  /\ pc[r] # "idle"
  /\ Fault
  /\ key' \in IF pc[r] = "delete" THEN {key, FALSE} ELSE {key}
  /\ End(r)
  /\ UNCHANGED <<custody, token, live>>

Next ==
  \/ \E t \in Token : Authorize(t) \/ Expire(t)
  \/ Close
  \/ \E r \in Request :
       \/ \E t \in Token : ClaimAuthorization(r, t)
       \/ LoadSecret(r) \/ NoSecret(r) \/ ReleaseClaim(r)
       \/ CompleteMigration(r) \/ MigrationRefused(r)
       \/ DeleteSecret(r) \/ Deliver(r) \/ Break(r)

Spec == Init /\ [][Next]_vars

-------------------------------------------------------------------------------
(* Properties.                                                              *)

\* The secret is handed out once at most, and then the wallet is migrated and
\* the store no longer has it, however many authorizations are claimed at once
\* (exportOnce).
DeliveredOnce ==
  /\ delivered <= 1
  /\ delivered = 1 => custody = "migrated" /\ ~key

\* The secret is not lost: it is in the store, or delivered, or a request has
\* it, unless something failed after the migration (exportOnce).
SecretNotLost ==
  key \/ broken \/ delivered > 0
    \/ \E r \in Request : secret[r] /\ pc[r] \in {"delete", "audit"}
===============================================================================
