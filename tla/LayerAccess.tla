---------------------------- MODULE LayerAccess -----------------------------
(***************************************************************************)
(* One tenant's access to one provider's layer:                            *)
(* SqliteTenantLayerAccessStore (packages/governance), the administrators' *)
(* routes that call it (apps/server/src/routes/layerAccessAdmin.ts) and    *)
(* the projection that locks or unlocks the layer (packages/providers).    *)
(* Rows of other tenants and providers are under other keys and never meet *)
(* these.                                                                  *)
(*                                                                         *)
(* Every call is one synchronous SQL statement but validateCredential,     *)
(* which reads the row, awaits the validator it was given for up to five   *)
(* seconds and then updates whatever row it finds.  Without a validator,   *)
(* and serverStartup.ts gives the server none, it awaits nothing and asks  *)
(* nobody.                                                                 *)
(***************************************************************************)
EXTENDS Integers

CONSTANTS
  Checks,     \* concurrent calls of validateCredential
  Secrets,    \* secrets that are submitted
  NoRow,      \* there is no row
  Forever,    \* terms without an expiry
  MaxNow      \* bound on the clock

(* What the store may write in the credential's row.                       *)
CredentialRows ==
  [secret : Secrets, status : {"pending_validation", "valid", "invalid", "revoked"}]

ASSUME LayerAssumption ==
  MaxNow \in Nat /\ Forever \notin Nat /\ NoRow \notin CredentialRows

VARIABLES
  validator,  \* the server was given a way to ask the provider
  cred,       \* the row of governance_tenant_layer_credentials
  terms,      \* the row of governance_tenant_layer_terms
  layerNow,   \* the clock
  halted,     \* the tenant or the platform is in STASIS
  checking,   \* check -> the secret it is validating, NoRow if none
  \* history, read by properties only
  overlap,    \* check -> the credential was changed since it read it
  raced,      \* a check that overlapped a change wrote its verdict after it
  accepted,   \* secrets the provider accepted in a check
  presumed,   \* secrets a check marked valid with nobody asked
  lastCred,   \* the administrators' last step on the credential ...
  lastTerms   \* ... and on the terms

layerHistory == <<overlap, raced, accepted, presumed, lastCred, lastTerms>>
layerVars == <<validator, cred, terms, layerNow, halted, checking, layerHistory>>

-----------------------------------------------------------------------------
LayerInit ==
  /\ validator \in BOOLEAN
  /\ cred = NoRow /\ terms = NoRow
  /\ layerNow = 0 /\ halted = FALSE
  /\ checking = [k \in Checks |-> NoRow]
  /\ overlap = [k \in Checks |-> FALSE]
  /\ raced = FALSE /\ accepted = {} /\ presumed = {}
  /\ lastCred = "none" /\ lastTerms = "none"

(* A step of an administrator on the credential.                           *)
Administered(step) ==
  /\ lastCred' = step
  /\ overlap' = [k \in Checks |-> checking[k] # NoRow]
  /\ UNCHANGED <<validator, terms, layerNow, halted, checking, accepted, presumed, lastTerms>>

(* submitCredential: the first secret, or a rotation.                      *)
(* Mutant of SubmitCredential: a rotation keeps the row's status.          *)
SubmitCredentialKeeping(s) ==
  /\ cred' = [secret |-> s,
              status |-> IF cred = NoRow THEN "pending_validation" ELSE cred.status]
  /\ raced' = FALSE
  /\ Administered("submit")

SubmitCredential(s) ==
  /\ cred' = [secret |-> s, status |-> "pending_validation"]
  /\ raced' = FALSE
  /\ Administered("submit")

RevokeCredential ==
  /\ cred # NoRow
  /\ cred' = [cred EXCEPT !.status = "revoked"]
  /\ raced' = FALSE
  /\ Administered("revoke")

DeleteCredential ==
  /\ cred # NoRow
  /\ cred' = NoRow
  /\ raced' = FALSE
  /\ Administered("delete")

(* validateCredential up to its await of the validator.                    *)
StartCheck(k) ==
  /\ validator
  /\ checking[k] = NoRow
  /\ cred # NoRow
  /\ cred.status # "revoked"
  /\ checking' = [checking EXCEPT ![k] = cred.secret]
  /\ overlap' = [overlap EXCEPT ![k] = FALSE]
  /\ UNCHANGED <<validator, cred, terms, layerNow, halted, raced, accepted, presumed, lastCred, lastTerms>>

(* The validator accepts, refuses or throws, or the five seconds are over  *)
(* (refused).  The update names the row by tenant and provider only.       *)
(* Mutant of WriteVerdict: the record it returns is written back as a row.      *)
WriteVerdictUpserted(k, status) ==
  cred' = [secret |-> checking[k], status |-> status]

WriteVerdict(k, status) ==
  cred' = IF cred = NoRow THEN NoRow ELSE [cred EXCEPT !.status = status]

FinishCheck(k, valid) ==
  /\ checking[k] # NoRow
  /\ WriteVerdict(k, IF valid THEN "valid" ELSE "invalid")
  /\ checking' = [checking EXCEPT ![k] = NoRow]
  /\ accepted' = IF valid THEN accepted \cup {checking[k]} ELSE accepted
  /\ raced' = (raced \/ overlap[k])
  /\ overlap' = [overlap EXCEPT ![k] = FALSE]
  /\ UNCHANGED <<validator, terms, layerNow, halted, presumed, lastCred, lastTerms>>

(* validateCredential without a validator: `valid` starts as true, and     *)
(* between the read and the update nothing is awaited.                     *)
CheckUnasked ==
  /\ ~validator
  /\ cred # NoRow
  /\ cred.status # "revoked"
  /\ cred' = [cred EXCEPT !.status = "valid"]
  /\ presumed' = presumed \cup {cred.secret}
  /\ UNCHANGED <<validator, terms, layerNow, halted, checking, overlap, raced, accepted, lastCred, lastTerms>>

(* The process dies with its checks.                                       *)
LoseChecks ==
  /\ \E k \in Checks : checking[k] # NoRow
  /\ checking' = [k \in Checks |-> NoRow]
  /\ overlap' = [k \in Checks |-> FALSE]
  /\ UNCHANGED <<validator, cred, terms, layerNow, halted, raced, accepted, presumed, lastCred, lastTerms>>

-----------------------------------------------------------------------------
(* acceptTerms may carry an expiry, even a past one; it clears revoked_at. *)
AcceptTerms(expiry) ==
  /\ terms' = [expires |-> expiry, revoked |-> FALSE]
  /\ lastTerms' = "accept"
  /\ UNCHANGED <<validator, cred, layerNow, halted, checking, overlap, raced, accepted, presumed, lastCred>>

RevokeTerms ==
  /\ terms # NoRow
  /\ terms' = [terms EXCEPT !.revoked = TRUE]
  /\ lastTerms' = "revoke"
  /\ UNCHANGED <<validator, cred, layerNow, halted, checking, overlap, raced, accepted, presumed, lastCred>>

Tick ==
  /\ layerNow < MaxNow
  /\ layerNow' = layerNow + 1
  /\ UNCHANGED <<validator, cred, terms, halted, checking, layerHistory>>

SetStasis ==
  /\ halted' = ~halted
  /\ UNCHANGED <<validator, cred, terms, layerNow, checking, layerHistory>>

-----------------------------------------------------------------------------
(* getTenantRuntimeInputs: the status of the terms is worked out when read.*)
TermsStatus ==
  IF terms = NoRow THEN "unreviewed"
  ELSE IF terms.revoked THEN "rejected"
  ELSE IF terms.expires # Forever /\ terms.expires <= layerNow THEN "expired"
  ELSE "approved"

(* resolveEffectiveAccess in live mode for an implemented, enabled and     *)
(* configured provider, as an authenticated administrator reads it.        *)
EffectiveAccess ==
  IF halted THEN "stasis"
  ELSE IF cred = NoRow THEN "unavailable"
  ELSE IF cred.status # "valid" THEN "setup_required"
  ELSE IF terms = NoRow THEN "unavailable"
  ELSE IF TermsStatus # "approved" THEN "approval_required"
  ELSE "available"

(* getDecryptedSecret                                                      *)
UsableSecret == IF cred # NoRow /\ cred.status = "valid" THEN cred.secret ELSE NoRow

LayerNext ==
  \/ \E s \in Secrets : SubmitCredential(s)
  \/ RevokeCredential
  \/ DeleteCredential
  \/ \E k \in Checks : StartCheck(k)
  \/ CheckUnasked
  \/ \E k \in Checks, valid \in BOOLEAN : FinishCheck(k, valid)
  \/ LoseChecks
  \/ \E t \in 0 .. MaxNow \cup {Forever} : AcceptTerms(t)
  \/ RevokeTerms
  \/ Tick
  \/ SetStasis

LayerSpec == LayerInit /\ [][LayerNext]_layerVars

-----------------------------------------------------------------------------
(* The rows hold the statuses of the contracts, and only those the store   *)
(* can write.                                                              *)
LayerTypeOK ==
  /\ validator \in BOOLEAN
  /\ cred = NoRow \/ cred \in CredentialRows
  /\ terms = NoRow \/ terms \in [expires : 0 .. MaxNow \cup {Forever}, revoked : BOOLEAN]
  /\ layerNow \in 0 .. MaxNow /\ halted \in BOOLEAN
  /\ checking \in [Checks -> Secrets \cup {NoRow}]

(* Unless a check overlapped a change of the credential, an unlocked layer *)
(* is justified: a check passed the stored secret itself, which the        *)
(* provider accepted if it can be asked, it was not revoked since, and     *)
(* terms in force were accepted after any revocation of them               *)
(* (submitCredential, validateCredential, acceptTerms).                    *)
UnlockJustified ==
  EffectiveAccess = "available" /\ ~raced =>
    /\ UsableSecret \in IF validator THEN accepted ELSE presumed
    /\ lastCred = "submit"
    /\ lastTerms = "accept" /\ terms.expires \notin 0 .. layerNow
    /\ ~halted

(* A deleted credential does not come back by the verdict of a check that  *)
(* was under way: validateCredential updates, it never inserts.            *)
DeletedStaysDeleted ==
  [][cred = NoRow /\ cred' # NoRow => lastCred' = "submit" /\ cred'.status # "valid"]_layerVars

(* "Immediately relocks to `setup_required` with lock reason               *)
(* `credential-revoked` upon credential revocation" (PLAN.md): after a     *)
(* revocation only a new secret may make the credential usable again.      *)
RevokedStaysLocked ==
  lastCred = "revoke" => UsableSecret = NoRow

=============================================================================
