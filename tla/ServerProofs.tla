---------------------------- MODULE ServerProofs ----------------------------
(***************************************************************************)
(* Proofs about the server's services that stand on their own, a section   *)
(* each: a tenant's access to a layer, the approval gates, the gate of the *)
(* MCP transport, the audited routes and the billable ones. They share no  *)
(* variable, so each theorem is of its own component's specification.      *)
(***************************************************************************)
EXTENDS LayerAccess, SignedApproval, ExchangeGate, AuditedRoutes, BillableRoutes,
        FiniteSetTheorems, SequenceTheorems, TLAPS

-----------------------------------------------------------------------------
(* LAYER ACCESS, for every set of concurrent checks, every set of secrets  *)
(* and any bound on the clock: a layer is unlocked only by a verdict about *)
(* the secret that is stored, unless a check overlapped a change of it.    *)

HistoryOK == overlap \in [Checks -> BOOLEAN] /\ raced \in BOOLEAN

(* A valid row holds a secret the provider accepted, or one that passed    *)
(* where it cannot be asked.                                               *)
ValidAccepted ==
  cred # NoRow /\ ~raced /\ cred.status = "valid" =>
    /\ cred.secret \in IF validator THEN accepted ELSE presumed
    /\ lastCred = "submit"

(* Checks wait only for a validator.                                       *)
CheckAsks == \A k \in Checks : checking[k] # NoRow => validator

(* A check that overlapped no change is about the stored secret.           *)
CheckCurrent ==
  \A k \in Checks : checking[k] # NoRow /\ ~overlap[k] /\ ~raced =>
    cred # NoRow /\ cred.secret = checking[k] /\ lastCred = "submit"

(* A row that is not revoked was left by a submission.                     *)
LeftBySubmit ==
  cred # NoRow /\ ~raced /\ cred.status # "revoked" => lastCred = "submit"

TermsLeft ==
  terms # NoRow => lastTerms = IF terms.revoked THEN "revoke" ELSE "accept"

(* The inductive invariant.                                                *)
LayerInv ==
  LayerTypeOK /\ HistoryOK /\ CheckAsks /\ ValidAccepted /\ CheckCurrent /\ LeftBySubmit /\ TermsLeft

-----------------------------------------------------------------------------
(* Without rows and checks there is nothing to justify.                    *)
LEMMA LayerInitially == LayerInit => LayerInv
<1> SUFFICES ASSUME LayerInit PROVE LayerInv
  OBVIOUS
<1>1. layerNow \in 0 .. MaxNow
  BY LayerAssumption DEF LayerInit
<1>2. checking \in [Checks -> Secrets \cup {NoRow}]
  BY DEF LayerInit
<1>3. validator \in BOOLEAN /\ halted \in BOOLEAN /\ raced \in BOOLEAN /\ overlap \in [Checks -> BOOLEAN]
  BY ZenonT(30) DEF LayerInit
<1>4. cred = NoRow /\ terms = NoRow
  BY DEF LayerInit
<1>5. LayerTypeOK /\ HistoryOK
  BY <1>1, <1>2, <1>3, <1>4 DEF LayerTypeOK, HistoryOK
<1>6. CheckAsks /\ ValidAccepted /\ CheckCurrent /\ LeftBySubmit /\ TermsLeft
  BY DEF LayerInit, CheckAsks, ValidAccepted, CheckCurrent, LeftBySubmit, TermsLeft
<1> QED BY <1>5, <1>6 DEF LayerInv

(* Every step of an administrator, a check or the clock preserves it.      *)
LEMMA LayerInductive ==
  ASSUME LayerInv, [LayerNext]_layerVars
  PROVE  LayerInv'
<1> USE DEF LayerInv, HistoryOK, CheckAsks, layerHistory
<1>1. ASSUME NEW s \in Secrets, SubmitCredential(s) PROVE LayerInv'
  <2>1. cred' = [secret |-> s, status |-> "pending_validation"] /\ raced' = FALSE
    BY <1>1 DEF SubmitCredential
  <2>2. /\ lastCred' = "submit" /\ overlap' = [k \in Checks |-> checking[k] # NoRow]
        /\ UNCHANGED <<validator, terms, layerNow, halted, checking, accepted, presumed, lastTerms>>
    BY <1>1 DEF SubmitCredential, Administered
  <2>3. LayerTypeOK' /\ HistoryOK' /\ CheckAsks'
    BY <2>1, <2>2 DEF LayerTypeOK, CredentialRows
  <2>4. ValidAccepted' /\ CheckCurrent' /\ LeftBySubmit' /\ TermsLeft'
    BY <2>1, <2>2 DEF ValidAccepted, CheckCurrent, LeftBySubmit, TermsLeft
  <2> QED BY <2>3, <2>4
<1>2. CASE RevokeCredential
  <2>1. cred # NoRow /\ cred' = [cred EXCEPT !.status = "revoked"] /\ raced' = FALSE
    BY <1>2 DEF RevokeCredential
  <2>2. /\ lastCred' = "revoke" /\ overlap' = [k \in Checks |-> checking[k] # NoRow]
        /\ UNCHANGED <<validator, terms, layerNow, halted, checking, accepted, presumed, lastTerms>>
    BY <1>2 DEF RevokeCredential, Administered
  <2>3. LayerTypeOK' /\ HistoryOK' /\ CheckAsks' /\ cred'.status = "revoked"
    BY <2>1, <2>2 DEF LayerTypeOK, CredentialRows
  <2>4. ValidAccepted' /\ CheckCurrent' /\ LeftBySubmit' /\ TermsLeft'
    BY <2>2, <2>3 DEF ValidAccepted, CheckCurrent, LeftBySubmit, TermsLeft
  <2> QED BY <2>3, <2>4
<1>3. CASE DeleteCredential
  <2>1. cred' = NoRow /\ raced' = FALSE
    BY <1>3 DEF DeleteCredential
  <2>2. /\ overlap' = [k \in Checks |-> checking[k] # NoRow]
        /\ UNCHANGED <<validator, terms, layerNow, halted, checking, accepted, presumed, lastTerms>>
    BY <1>3 DEF DeleteCredential, Administered
  <2>3. LayerTypeOK' /\ HistoryOK' /\ CheckAsks'
    BY <2>1, <2>2 DEF LayerTypeOK, CredentialRows
  <2>4. ValidAccepted' /\ CheckCurrent' /\ LeftBySubmit' /\ TermsLeft'
    BY <2>1, <2>2 DEF ValidAccepted, CheckCurrent, LeftBySubmit, TermsLeft
  <2> QED BY <2>3, <2>4
<1>4. ASSUME NEW k \in Checks, StartCheck(k) PROVE LayerInv'
  <2>1. /\ validator /\ cred # NoRow /\ cred.status # "revoked"
        /\ checking' = [checking EXCEPT ![k] = cred.secret]
        /\ overlap' = [overlap EXCEPT ![k] = FALSE]
        /\ UNCHANGED <<validator, cred, terms, layerNow, halted, raced, accepted, presumed, lastCred, lastTerms>>
    BY <1>4 DEF StartCheck
  <2>2. LayerTypeOK' /\ HistoryOK'
    BY <2>1 DEF LayerTypeOK, CredentialRows
  <2>3. CheckCurrent'
    BY <2>1 DEF CheckCurrent, LeftBySubmit, LayerTypeOK
  <2> QED BY <2>1, <2>2, <2>3 DEF ValidAccepted, LeftBySubmit, TermsLeft
<1>5. ASSUME NEW k \in Checks, NEW valid \in BOOLEAN, FinishCheck(k, valid) PROVE LayerInv'
  <2> DEFINE status == IF valid THEN "valid" ELSE "invalid"
  <2>1. /\ checking[k] # NoRow
        /\ cred' = IF cred = NoRow THEN NoRow ELSE [cred EXCEPT !.status = status]
        /\ checking' = [checking EXCEPT ![k] = NoRow]
        /\ accepted' = IF valid THEN accepted \cup {checking[k]} ELSE accepted
        /\ raced' = (raced \/ overlap[k])
        /\ overlap' = [overlap EXCEPT ![k] = FALSE]
        /\ UNCHANGED <<validator, terms, layerNow, halted, presumed, lastCred, lastTerms>>
    BY <1>5 DEF FinishCheck, WriteVerdict
  <2>2. LayerTypeOK' /\ HistoryOK'
    BY <2>1 DEF LayerTypeOK, CredentialRows
  <2>3. cred' # NoRow => cred # NoRow /\ cred'.secret = cred.secret /\ cred'.status = status
    BY <2>1 DEF LayerTypeOK, CredentialRows
  <2>4. CASE raced'
    BY <2>1, <2>2, <2>4 DEF ValidAccepted, CheckCurrent, LeftBySubmit, TermsLeft
  <2>5. CASE ~raced'
    <3>1. ~raced /\ ~overlap[k]
      BY <2>1, <2>5
    <3>2. cred # NoRow /\ cred.secret = checking[k] /\ lastCred = "submit"
      BY <2>1, <3>1 DEF CheckCurrent
    <3>3. ValidAccepted' /\ LeftBySubmit'
      BY <2>1, <2>3, <3>2 DEF ValidAccepted, LeftBySubmit
    <3>4. cred' # NoRow
      BY <2>1, <3>2, LayerAssumption DEF LayerTypeOK, CredentialRows
    <3>5. CheckCurrent'
      BY <2>1, <2>3, <3>1, <3>4 DEF CheckCurrent, LayerTypeOK, CredentialRows
    <3> QED BY <2>1, <2>2, <3>3, <3>5 DEF TermsLeft
  <2> QED BY <2>4, <2>5
<1>6. CASE LoseChecks
  BY <1>6 DEF LoseChecks, LayerTypeOK, ValidAccepted, CheckCurrent, LeftBySubmit, TermsLeft
<1>7. ASSUME NEW t \in 0 .. MaxNow \cup {Forever}, AcceptTerms(t) PROVE LayerInv'
  <2>1. LayerTypeOK' /\ HistoryOK' /\ TermsLeft'
    BY <1>7 DEF AcceptTerms, LayerTypeOK, TermsLeft
  <2> QED BY <1>7, <2>1 DEF AcceptTerms, ValidAccepted, CheckCurrent, LeftBySubmit
<1>8. CASE RevokeTerms
  <2>1. LayerTypeOK' /\ HistoryOK' /\ TermsLeft'
    BY <1>8 DEF RevokeTerms, LayerTypeOK, TermsLeft
  <2> QED BY <1>8, <2>1 DEF RevokeTerms, ValidAccepted, CheckCurrent, LeftBySubmit
<1>9. CASE Tick
  BY <1>9, LayerAssumption
  DEF Tick, LayerTypeOK, ValidAccepted, CheckCurrent, LeftBySubmit, TermsLeft
<1>10. CASE SetStasis
  BY <1>10 DEF SetStasis, LayerTypeOK, ValidAccepted, CheckCurrent, LeftBySubmit, TermsLeft
<1>11. CASE CheckUnasked
  <2>1. /\ ~validator /\ cred # NoRow /\ cred.status # "revoked"
        /\ cred' = [cred EXCEPT !.status = "valid"]
        /\ presumed' = presumed \cup {cred.secret}
        /\ UNCHANGED <<validator, terms, layerNow, halted, checking, overlap, raced, accepted, lastCred, lastTerms>>
    BY <1>11 DEF CheckUnasked
  <2>2. cred \in CredentialRows
    BY <2>1 DEF LayerTypeOK
  <2>3. cred' \in CredentialRows /\ cred'.secret = cred.secret /\ cred'.status = "valid"
    BY <2>1, <2>2 DEF CredentialRows
  <2>4. LayerTypeOK' /\ HistoryOK' /\ CheckAsks'
    BY <2>1, <2>3 DEF LayerTypeOK
  <2>5. ValidAccepted' /\ CheckCurrent' /\ LeftBySubmit' /\ TermsLeft'
    BY <2>1, <2>3 DEF ValidAccepted, CheckCurrent, LeftBySubmit, TermsLeft
  <2> QED BY <2>4, <2>5
<1>12. CASE UNCHANGED layerVars
  BY <1>12 DEF layerVars, LayerTypeOK, ValidAccepted, CheckCurrent, LeftBySubmit, TermsLeft
<1> QED
  BY <1>1, <1>2, <1>3, <1>4, <1>5, <1>6, <1>7, <1>8, <1>9, <1>10, <1>11, <1>12 DEF LayerNext

-----------------------------------------------------------------------------
(* The inductive invariant holds in every state of the layer.              *)
THEOREM LayerInvariant == LayerSpec => []LayerInv
<1>1. LayerInv /\ [LayerNext]_layerVars => LayerInv'
  BY LayerInductive
<1> QED BY <1>1, LayerInitially, PTL DEF LayerSpec

(* Rows, clock and checks keep their types.                                *)
THEOREM LayerTypeCorrect == LayerSpec => []LayerTypeOK
<1>1. LayerInv => LayerTypeOK
  BY DEF LayerInv
<1> QED BY <1>1, LayerInvariant, PTL

(* Whatever checks and changes interleave, an unlocked layer rests on a    *)
(* secret that a check passed, the provider's own where it can be asked,   *)
(* and on terms in force, unless a check overlapped a change               *)
(* (submitCredential, validateCredential, acceptTerms).                    *)
THEOREM LayerUnlockJustified == LayerSpec => []UnlockJustified
<1>1. ASSUME LayerInv PROVE UnlockJustified
  <2> SUFFICES ASSUME EffectiveAccess = "available", ~raced
               PROVE  /\ UsableSecret \in IF validator THEN accepted ELSE presumed
                      /\ lastCred = "submit"
                      /\ lastTerms = "accept" /\ terms.expires \notin 0 .. layerNow
                      /\ ~halted
    BY DEF UnlockJustified
  <2>1. ~halted /\ cred # NoRow /\ cred.status = "valid" /\ terms # NoRow /\ TermsStatus = "approved"
    BY DEF EffectiveAccess
  <2>2. UsableSecret \in (IF validator THEN accepted ELSE presumed) /\ lastCred = "submit"
    BY <1>1, <2>1 DEF LayerInv, ValidAccepted, UsableSecret
  <2>3. ~terms.revoked /\ ~(terms.expires # Forever /\ terms.expires <= layerNow)
    BY <2>1 DEF TermsStatus
  <2>4. lastTerms = "accept"
    BY <1>1, <2>1, <2>3 DEF LayerInv, TermsLeft
  <2>5. layerNow \in Nat /\ terms.expires \in 0 .. MaxNow \cup {Forever}
    BY <1>1, <2>1, LayerAssumption DEF LayerInv, LayerTypeOK
  <2>6. terms.expires \notin 0 .. layerNow
    BY <2>3, <2>5, LayerAssumption
  <2> QED BY <2>1, <2>2, <2>4, <2>6
<1> QED BY <1>1, LayerInvariant, PTL

(* No verdict brings a deleted row back: only a submission does.           *)
THEOREM LayerDeletedStays == LayerSpec => DeletedStaysDeleted
<1>1. ASSUME [LayerNext]_layerVars
      PROVE  [cred = NoRow /\ cred' # NoRow => lastCred' = "submit" /\ cred'.status # "valid"]_layerVars
  BY <1>1
  DEF LayerNext, layerVars, SubmitCredential, Administered, RevokeCredential, DeleteCredential,
      StartCheck, CheckUnasked, FinishCheck, WriteVerdict, LoseChecks, AcceptTerms, RevokeTerms, Tick, SetStasis
<1> QED BY <1>1, PTL DEF LayerSpec, DeletedStaysDeleted

-----------------------------------------------------------------------------
(* SIGNED APPROVAL, for every set of gates, requests and keys, every       *)
(* lifetime and skew: what is approved was signed for it and is approved   *)
(* once, and who signs promptly is heeded.                                 *)

(* Where a gate's call stands: it is of a request that was made, and while *)
(* the decision is awaited the time read before is one of the request's    *)
(* lifetime.                                                               *)
CallsKnown ==
  /\ DOMAIN gate = Gates /\ gate = [g \in Gates |-> gate[g]]
  /\ \A g \in Gates : gate[g].pc # "idle" =>
       gate[g].request \in Asked /\ askedAt[gate[g].request] # Unasked
  /\ \A g \in Gates : gate[g].pc = "deciding" =>
       /\ gate[g].now \in 0 .. LastTick
       /\ askedAt[gate[g].request] <= gate[g].now
       /\ gate[g].now < Expiry(gate[g].request)

(* A prompt signature is dated between its request and the skew after it.  *)
PromptlySigned ==
  \A e \in envelopes :
    /\ askedAt[e.request] # Unasked
    /\ e.prompt =>
         /\ askedAt[e.request] <= e.decided /\ e.decided <= askedAt[e.request] + Skew
         /\ e.decided < Expiry(e.request)

(* A request is granted as often as its nonce was consumed.                *)
GrantedConsumes == \A r \in Asked : grants[r] = IF r \in consumed THEN 1 ELSE 0

(* No request was made after now.                                          *)
AskedBefore == \A r \in Asked : askedAt[r] # Unasked => askedAt[r] <= tick

(* The inductive invariant.                                                *)
ApprovalInv ==
  /\ ApprovalTypeOK /\ CallsKnown /\ PromptlySigned /\ GrantedConsumes /\ AskedBefore
  /\ ApprovedMeansSigned /\ PromptDecisionHeeded

-----------------------------------------------------------------------------
(* No gate waits and nothing is approved at first.                         *)
LEMMA ApprovalInitial == ApprovalInit => ApprovalInv
BY ApprovalAssumption
DEF ApprovalInit, ApprovalInv, ApprovalTypeOK, CallsKnown, PromptlySigned, GrantedConsumes,
    AskedBefore, ApprovedMeansSigned, PromptDecisionHeeded, Free

(* Submitting a request dates it once and binds one gate to it.            *)
LEMMA RequestKeeps ==
  ASSUME ApprovalInv, NEW g \in Gates, NEW r \in Asked, Request(g, r)
  PROVE  ApprovalInv'
<1> USE ApprovalAssumption DEF ApprovalInv
<1>1. /\ askedAt' \in [Asked -> 0 .. LastTick \cup {Unasked}]
      /\ askedAt'[r] # Unasked /\ askedAt'[r] <= tick
      /\ \A s \in Asked : askedAt[s] # Unasked => askedAt'[s] = askedAt[s]
      /\ \A s \in Asked \ {r} : askedAt'[s] = askedAt[s]
  BY DEF Request, ApprovalTypeOK, AskedBefore
<1>2. /\ gate'[g] = IF tick >= askedAt'[r] + Lifetime
                    THEN [pc |-> "expired", request |-> r]
                    ELSE [pc |-> "deciding", request |-> r, now |-> tick]
      /\ \A h \in Gates \ {g} : gate'[h] = gate[h]
      /\ DOMAIN gate' = Gates /\ gate' = [h \in Gates |-> gate'[h]]
  BY DEF Request, CallsKnown
<1>3. UNCHANGED <<tick, envelopes, consumed, grants>>
  BY DEF Request
<1>4. ApprovalTypeOK'
  BY <1>1, <1>2, <1>3 DEF ApprovalTypeOK
<1>5. CallsKnown'
  BY <1>1, <1>2, <1>3 DEF ApprovalTypeOK, CallsKnown, Expiry
<1>6. PromptlySigned' /\ GrantedConsumes' /\ AskedBefore'
  BY <1>1, <1>3 DEF ApprovalTypeOK, PromptlySigned, GrantedConsumes, AskedBefore, Expiry
<1>7. ApprovedMeansSigned'
  BY <1>1, <1>2, <1>3 DEF ApprovalTypeOK, ApprovedMeansSigned, CallsKnown, Expiry
<1>8. PromptDecisionHeeded'
  BY <1>2 DEF PromptDecisionHeeded
<1> QED BY <1>4, <1>5, <1>6, <1>7, <1>8

(* A new envelope is dated by its signer's clock.                          *)
LEMMA SignKeeps ==
  ASSUME ApprovalInv, NEW r \in Asked, NEW k \in Keys, NEW drift \in -Skew .. Skew,
         Sign(r, k, drift)
  PROVE  ApprovalInv'
<1> USE ApprovalAssumption DEF ApprovalInv
<1>1. UNCHANGED <<tick, askedAt, consumed, gate, grants>> /\ envelopes \subseteq envelopes'
  BY DEF Sign
<1>2. askedAt[r] \in 0 .. LastTick /\ askedAt[r] <= tick /\ tick \in Int
  BY DEF Sign, ApprovalTypeOK, AskedBefore
<1>3. ApprovalTypeOK'
  BY <1>1, <1>2 DEF Sign, ApprovalTypeOK
<1>4. PromptlySigned'
  <2> DEFINE prompt == drift = 0 /\ tick <= askedAt[r] + Skew /\ tick < Expiry(r)
             signed == [request |-> r, key |-> k, decided |-> tick + drift, prompt |-> prompt]
  <2>1. envelopes' = envelopes \cup {signed}
    BY DEF Sign
  <2>2. prompt => /\ askedAt[r] <= tick + drift /\ tick + drift <= askedAt[r] + Skew
                  /\ tick + drift < Expiry(r)
    BY <1>2
  <2>3. askedAt[r] # Unasked
    BY DEF Sign
  <2>4. /\ signed.request = r /\ signed.decided = tick + drift
        /\ signed.prompt = prompt
    OBVIOUS
  <2> HIDE DEF prompt, signed
  <2> QED BY <1>1, <2>1, <2>2, <2>3, <2>4 DEF PromptlySigned, Expiry
<1>5. ApprovedMeansSigned'
  BY <1>1 DEF ApprovedMeansSigned, Expiry
<1> QED
  BY <1>1, <1>3, <1>4, <1>5
  DEF CallsKnown, GrantedConsumes, AskedBefore, PromptDecisionHeeded, Expiry

(* A verified envelope consumes the request's nonce, and one that is not   *)
(* verified was not a prompt decision on an unused request.                *)
LEMMA AnsweredKeeps ==
  ASSUME ApprovalInv, NEW g \in Gates, NEW e \in envelopes, Answered(g, e)
  PROVE  ApprovalInv'
<1> USE ApprovalAssumption DEF ApprovalInv
<1> DEFINE r == gate[g].request
           verified == Bound(e, r) /\ Timely(e, r, gate[g].now) /\ KeyAccepted(e) /\ Unconsumed(r)
<1>1. /\ r \in Asked /\ askedAt[r] \in 0 .. LastTick
      /\ gate[g].now \in 0 .. LastTick
      /\ askedAt[r] <= gate[g].now /\ gate[g].now < Expiry(r)
      /\ UNCHANGED <<tick, askedAt, envelopes>>
  BY DEF Answered, CallsKnown, ApprovalTypeOK
<1>2. CASE verified
  <2>1. /\ consumed' = consumed \cup {r}
        /\ grants' = [grants EXCEPT ![r] = @ + 1]
        /\ gate' = [gate EXCEPT ![g] = [pc |-> "approved", request |-> r, at |-> tick]]
    BY <1>2 DEF Answered
  <2>2. /\ gate'[g] = [pc |-> "approved", request |-> r, at |-> tick]
        /\ \A h \in Gates \ {g} : gate'[h] = gate[h]
        /\ DOMAIN gate' = Gates /\ gate' = [h \in Gates |-> gate'[h]]
    BY <2>1 DEF CallsKnown
  <2>3. e.request = r /\ r \notin consumed
    BY <1>2 DEF Bound, Unconsumed
  <2>4. ApprovalTypeOK' /\ GrantedConsumes'
    BY <1>1, <2>1, <2>2, <2>3 DEF ApprovalTypeOK, GrantedConsumes
  <2>5. CallsKnown'
    BY <1>1, <2>2 DEF CallsKnown, Expiry
  <2>6. /\ e.key \in DOMAIN Trusted /\ Trusted[e.key].status \in {"active", "retired"}
        /\ e.decided \in Trusted[e.key].from .. Trusted[e.key].until - 1
    BY <1>2 DEF KeyAccepted, ApprovalTypeOK
  <2>7. e.decided \in askedAt[r] - Skew .. Expiry(r) - 1
    BY <1>1, <1>2 DEF Timely, Expiry, ApprovalTypeOK
  <2>8. ApprovedMeansSigned'
    BY <1>1, <2>1, <2>2, <2>3, <2>6, <2>7 DEF ApprovedMeansSigned, Expiry
  <2>9. PromptDecisionHeeded' /\ PromptlySigned' /\ AskedBefore'
    BY <1>1, <2>2 DEF PromptDecisionHeeded, PromptlySigned, AskedBefore, Expiry
  <2> QED BY <2>4, <2>5, <2>8, <2>9
<1>3. CASE ~verified
  <2> DEFINE honest == e.request = r /\ e.prompt /\ r \notin consumed /\ KeyAccepted(e)
  <2>1. /\ gate' = [gate EXCEPT ![g] = [pc |-> "refused", request |-> r, honest |-> honest]]
        /\ UNCHANGED <<consumed, grants>>
    BY <1>3 DEF Answered
  <2>2. /\ gate'[g] = [pc |-> "refused", request |-> r, honest |-> honest]
        /\ \A h \in Gates \ {g} : gate'[h] = gate[h]
        /\ DOMAIN gate' = Gates /\ gate' = [h \in Gates |-> gate'[h]]
    BY <2>1 DEF CallsKnown
  <2>3. ~honest
    <3> SUFFICES ASSUME honest PROVE verified
      BY <1>3
    <3>1. Timely(e, r, gate[g].now)
      BY <1>1 DEF Timely, PromptlySigned, ApprovalTypeOK, Expiry
    <3>2. Bound(e, r) /\ Unconsumed(r) /\ KeyAccepted(e)
      BY DEF Bound, Unconsumed
    <3> QED BY <3>1, <3>2
  <2>4. ApprovalTypeOK' /\ GrantedConsumes'
    BY <1>1, <2>1, <2>2 DEF ApprovalTypeOK, GrantedConsumes
  <2>5. CallsKnown'
    BY <1>1, <2>2 DEF CallsKnown, Expiry
  <2>6. ApprovedMeansSigned'
    BY <1>1, <2>1, <2>2 DEF ApprovedMeansSigned, Expiry
  <2>7. PromptDecisionHeeded'
    <3>1. gate'[g].honest = honest
      BY <2>2
    <3>2. ~gate'[g].honest
      BY <2>3, <3>1, Zenon
    <3> QED BY <2>2, <3>2 DEF PromptDecisionHeeded
  <2>8. PromptlySigned' /\ AskedBefore'
    BY <1>1 DEF PromptlySigned, AskedBefore, Expiry
  <2> QED BY <2>4, <2>5, <2>6, <2>7, <2>8
<1> QED BY <1>2, <1>3

(* A denial, a crash and the clock approve nothing.                        *)
LEMMA OthersKeep ==
  ASSUME ApprovalInv,
         (\E g \in Gates : Denied(g) \/ GateCrash(g)) \/ TimePasses \/ UNCHANGED approvalVars
  PROVE  ApprovalInv'
<1> USE ApprovalAssumption DEF ApprovalInv
<1>1. ASSUME NEW g \in Gates, Denied(g) \/ GateCrash(g) PROVE ApprovalInv'
  <2>1. UNCHANGED <<tick, askedAt, envelopes, consumed, grants>>
    BY <1>1 DEF Denied, GateCrash
  <2>2. /\ \/ gate'[g] = Free
           \/ gate'[g] = [pc |-> "refused", request |-> gate[g].request, honest |-> FALSE]
              /\ gate[g].pc = "deciding"
        /\ \A h \in Gates \ {g} : gate'[h] = gate[h]
        /\ DOMAIN gate' = Gates /\ gate' = [h \in Gates |-> gate'[h]]
    BY <1>1 DEF Denied, GateCrash, CallsKnown
  <2>3. ApprovalTypeOK' /\ CallsKnown'
    BY <2>1, <2>2 DEF ApprovalTypeOK, CallsKnown, Free, Expiry
  <2>4. ApprovedMeansSigned' /\ PromptDecisionHeeded'
    BY <2>1, <2>2 DEF ApprovedMeansSigned, PromptDecisionHeeded, Free, Expiry
  <2> QED BY <2>1, <2>3, <2>4 DEF PromptlySigned, GrantedConsumes, AskedBefore, Expiry
<1>2. ASSUME TimePasses PROVE ApprovalInv'
  BY <1>2 DEF TimePasses, ApprovalTypeOK, CallsKnown, PromptlySigned, GrantedConsumes, AskedBefore,
              ApprovedMeansSigned, PromptDecisionHeeded, Expiry
<1>3. ASSUME UNCHANGED approvalVars PROVE ApprovalInv'
  BY <1>3 DEF approvalVars, ApprovalTypeOK, CallsKnown, PromptlySigned, GrantedConsumes, AskedBefore,
              ApprovedMeansSigned, PromptDecisionHeeded, Expiry
<1> QED BY <1>1, <1>2, <1>3

(* Every step of a gate, an operator or the clock preserves ApprovalInv.   *)
LEMMA ApprovalInductive == ApprovalInv /\ [ApprovalNext]_approvalVars => ApprovalInv'
BY RequestKeeps, SignKeeps, AnsweredKeeps, OthersKeep DEF ApprovalNext

(* The invariant holds in every state of the gates.                        *)
LEMMA ApprovalInvariant == ApprovalSpec => []ApprovalInv
BY ApprovalInitial, ApprovalInductive, PTL DEF ApprovalSpec

-----------------------------------------------------------------------------
(* Nonces, requests, envelopes and gates keep their types.                 *)
THEOREM ApprovalTypeCorrect == ApprovalSpec => []ApprovalTypeOK
<1>1. ApprovalInv => ApprovalTypeOK
  BY DEF ApprovalInv
<1> QED BY <1>1, ApprovalInvariant, PTL

(* However envelopes are replayed, processes crash and requests are made   *)
(* again, a request is approved at most once (consume's transaction).      *)
THEOREM ApprovalOnce == ApprovalSpec => []ApprovedOnce
<1>1. ApprovalInv => ApprovedOnce
  BY DEF ApprovalInv, GrantedConsumes, ApprovedOnce
<1> QED BY <1>1, ApprovalInvariant, PTL

(* What is approved was signed for this request with a trusted key in its  *)
(* window (validateSignedPayload, getTrustedKey).                          *)
THEOREM ApprovalSigned == ApprovalSpec => []ApprovedMeansSigned
<1>1. ApprovalInv => ApprovedMeansSigned
  BY DEF ApprovalInv
<1> QED BY <1>1, ApprovalInvariant, PTL

(* Whoever signs with a trusted key within the skew of the request is      *)
(* heeded, if the answer gets back to a gate that still waits.             *)
THEOREM ApprovalHeeded == ApprovalSpec => []PromptDecisionHeeded
<1>1. ApprovalInv => PromptDecisionHeeded
  BY DEF ApprovalInv
<1> QED BY <1>1, ApprovalInvariant, PTL

-----------------------------------------------------------------------------
(* THE EXCHANGE GATE, for every finite set of exchanges and every maximum: *)
(* no more slots are out than there are, and none comes back while the     *)
(* work it was leased for may still run.                                   *)

Leases ==
  [pc : {"new", "authorizing", "reading", "dispatched", "streaming", "answered"},
   held : BOOLEAN, aborted : BOOLEAN, sealed : BOOLEAN, finished : BOOLEAN,
   execution : {"none", "running", "done"}, tracked : BOOLEAN]

(* A lease is sealed only when its handler is through, from then on it     *)
(* tracks nothing new, and its slot is out while either still works.       *)
Sound(r) ==
  /\ r \in Leases
  /\ r.tracked => r.execution # "none"
  /\ r.pc \in {"new", "authorizing", "reading", "dispatched"} => ~r.sealed
  /\ r.pc = "streaming" => r.sealed
  /\ r.pc \in {"authorizing", "reading", "dispatched"} => r.held
  /\ r.tracked /\ r.execution = "running" => r.held

(* The inductive invariant.                                                *)
GateInv ==
  /\ closing \in {"open", "handler", "waiting", "closed"}
  /\ exchange = [x \in Exchanges |-> exchange[x]]
  /\ \A x \in Exchanges : Sound(exchange[x])
  /\ Cardinality(HeldSlots) <= Maximum
  /\ closing = "closed" => HeldSlots = {}

-----------------------------------------------------------------------------
(* No slot is out at first.                                                *)
LEMMA GateInitial == GateInit => GateInv
<1> SUFFICES ASSUME GateInit PROVE GateInv
  OBVIOUS
<1>1. HeldSlots = {}
  BY DEF GateInit, HeldSlots, Unopened
<1>2. Cardinality(HeldSlots) <= Maximum
  BY <1>1, FS_EmptySet, GateAssumption
<1>3. \A x \in Exchanges : Sound(exchange[x])
  BY DEF GateInit, Sound, Leases, Unopened
<1> QED BY <1>1, <1>2, <1>3 DEF GateInit, GateInv

(* The slots that are out can be counted.                                  *)
LEMMA SlotsFinite ==
  IsFiniteSet(HeldSlots) /\ Cardinality(HeldSlots) \in Nat
BY FS_Subset, FS_CardinalityType, GateAssumption DEF HeldSlots

(* finishIfIdle gives back no slot that is still worked under, and what is *)
(* sealed, released or aborted stays sound.                                *)
LEMMA Finishing ==
  ASSUME NEW r, Sound(r)
  PROVE  Sound(FinishIfIdle(r)) /\ (FinishIfIdle(r).held => r.held)
BY DEF FinishIfIdle, Sound, Leases

(* Aborting or answering an exchange leaves its lease sound and takes no   *)
(* slot.                                                                   *)
LEMMA Ending ==
  ASSUME NEW r, Sound(r)
  PROVE  /\ Sound(Aborted(r)) /\ (Aborted(r).held => r.held)
         /\ \A a \in BOOLEAN :
              LET s == Released([r EXCEPT !.pc = "answered", !.aborted = a])
              IN  Sound(s) /\ (s.held => r.held)
         /\ LET s == Released([r EXCEPT !.pc = "answered"]) IN Sound(s) /\ (s.held => r.held)
         /\ LET s == Sealed([r EXCEPT !.pc = "streaming"]) IN Sound(s) /\ (s.held => r.held)
<1>1. Sound(Aborted(r)) /\ (Aborted(r).held => r.held)
  <2> DEFINE s == [r EXCEPT !.aborted = TRUE, !.finished = TRUE]
  <2>1. Sound(s) /\ s.held = r.held
    BY DEF Sound, Leases
  <2>2. Aborted(r) = FinishIfIdle(s)
    BY DEF Aborted
  <2> HIDE DEF s
  <2> QED BY <2>1, <2>2, Finishing
<1>2. ASSUME NEW a \in BOOLEAN PROVE LET t == [r EXCEPT !.pc = "answered", !.aborted = a] IN Sound(Released(t)) /\ (Released(t).held => r.held)
  <2> DEFINE t == [r EXCEPT !.pc = "answered", !.aborted = a]
             s == [t EXCEPT !.sealed = TRUE, !.finished = TRUE]
  <2>1. Sound(s) /\ s.held = r.held
    BY DEF Sound, Leases
  <2>2. Released(t) = FinishIfIdle(s)
    BY DEF Released
  <2> HIDE DEF s
  <2> QED BY <2>1, <2>2, Finishing
<1>3. LET t == [r EXCEPT !.pc = "answered"] IN Sound(Released(t)) /\ (Released(t).held => r.held)
  <2> DEFINE t == [r EXCEPT !.pc = "answered"]
             s == [t EXCEPT !.sealed = TRUE, !.finished = TRUE]
  <2>1. Sound(s) /\ s.held = r.held
    BY DEF Sound, Leases
  <2>2. Released(t) = FinishIfIdle(s)
    BY DEF Released
  <2> HIDE DEF s
  <2> QED BY <2>1, <2>2, Finishing
<1>4. LET t == [r EXCEPT !.pc = "streaming"] IN Sound(Sealed(t)) /\ (Sealed(t).held => r.held)
  <2> DEFINE t == [r EXCEPT !.pc = "streaming"]
             s == [t EXCEPT !.sealed = TRUE]
  <2>1. Sound(s) /\ s.held = r.held
    BY DEF Sound, Leases
  <2>2. Sealed(t) = FinishIfIdle(s)
    BY DEF Sealed
  <2> HIDE DEF s
  <2> QED BY <2>1, <2>2, Finishing
<1> QED BY <1>1, <1>2, <1>3, <1>4

(* A step of one exchange that takes no new slot and leaves a sound lease  *)
(* keeps the invariant.                                                    *)
LEMMA StepKeeps ==
  ASSUME GateInv, NEW x \in Exchanges, NEW r, Step(x, r), Sound(r), r.held => exchange[x].held
  PROVE  GateInv'
<1>1. /\ exchange' = [y \in Exchanges |-> IF y = x THEN r ELSE exchange[y]]
      /\ closing' = closing
  BY DEF Step, GateInv
<1>2. HeldSlots' \subseteq HeldSlots
  BY <1>1 DEF HeldSlots
<1>3. Cardinality(HeldSlots') <= Cardinality(HeldSlots) /\ Cardinality(HeldSlots') \in Nat
  BY <1>2, SlotsFinite, FS_Subset, FS_CardinalityType
<1>4. Cardinality(HeldSlots)' <= Maximum
  BY <1>3, SlotsFinite, GateAssumption DEF GateInv
<1>5. \A y \in Exchanges : Sound(exchange[y])'
  BY <1>1 DEF GateInv, Sound, Leases
<1> QED BY <1>1, <1>2, <1>4, <1>5 DEF GateInv

(* acquire takes a slot only while one is free and the gate is open.       *)
LEMMA AcquireKeeps ==
  ASSUME GateInv, NEW x \in Exchanges, Acquire(x)
  PROVE  GateInv'
<1>1. Sound(exchange[x]) /\ exchange[x].pc = "new"
  BY DEF GateInv, Acquire, AtPc
<1>2. CASE closing # "open" \/ Cardinality(HeldSlots) >= Maximum
  <2> DEFINE r == [exchange[x] EXCEPT !.pc = "answered"]
  <2>1. Step(x, r)
    BY <1>2 DEF Acquire
  <2>2. Sound(r) /\ (r.held => exchange[x].held)
    BY <1>1 DEF Sound, Leases
  <2> HIDE DEF r
  <2> QED BY <2>1, <2>2, StepKeeps
<1>3. CASE ~(closing # "open" \/ Cardinality(HeldSlots) >= Maximum)
  <2> DEFINE r == [exchange[x] EXCEPT !.pc = "authorizing", !.held = TRUE]
  <2>1. closing = "open" /\ Cardinality(HeldSlots) + 1 <= Maximum /\ Step(x, r)
    BY <1>3, SlotsFinite, GateAssumption DEF Acquire
  <2>2. Sound(r)
    BY <1>1 DEF Sound, Leases
  <2>3. /\ exchange' = [y \in Exchanges |-> IF y = x THEN r ELSE exchange[y]]
        /\ closing' = closing
    BY <2>1 DEF Step, GateInv
  <2>4. HeldSlots' \subseteq HeldSlots \cup {x}
    BY <2>3 DEF HeldSlots
  <2>5. /\ IsFiniteSet(HeldSlots \cup {x})
        /\ Cardinality(HeldSlots \cup {x}) <= Cardinality(HeldSlots) + 1
        /\ Cardinality(HeldSlots \cup {x}) \in Nat
    <3>1. /\ IsFiniteSet(HeldSlots \cup {x})
          /\ Cardinality(HeldSlots \cup {x}) =
               IF x \in HeldSlots THEN Cardinality(HeldSlots) ELSE Cardinality(HeldSlots) + 1
      BY SlotsFinite, FS_AddElement
    <3> QED BY <3>1, SlotsFinite
  <2>6. Cardinality(HeldSlots') <= Cardinality(HeldSlots \cup {x}) /\ Cardinality(HeldSlots') \in Nat
    BY <2>4, <2>5, FS_Subset, FS_CardinalityType
  <2>7. Cardinality(HeldSlots)' <= Maximum
    BY <2>1, <2>5, <2>6, SlotsFinite, GateAssumption
  <2>8. \A y \in Exchanges : Sound(exchange[y])'
    BY <2>2, <2>3 DEF GateInv, Sound, Leases
  <2> QED BY <2>1, <2>3, <2>7, <2>8 DEF GateInv
<1> QED BY <1>2, <1>3

(* The handler's refusals release a lease that tracks nothing; its way on  *)
(* keeps the slot.                                                         *)
LEMMA HandlerKeeps ==
  ASSUME GateInv, NEW x \in Exchanges, NEW b \in BOOLEAN,
         Authorize(x, b) \/ ReadBody(x, b) \/ Respond(x, b) \/ EndStream(x, b)
  PROVE  GateInv'
<1>1. Sound(exchange[x])
  BY DEF GateInv
<1>2. PICK r : Step(x, r) /\ Sound(r) /\ (r.held => exchange[x].held)
  <2>1. CASE Authorize(x, b)
    <3> DEFINE r == [exchange[x] EXCEPT !.pc = "reading"]
    <3>1. Sound(r) /\ r.held = exchange[x].held
      BY <1>1, <2>1 DEF Authorize, AtPc, Sound, Leases
    <3> QED BY <1>1, <2>1, <3>1, Ending DEF Authorize
  <2>2. CASE ReadBody(x, b)
    <3> DEFINE r == [exchange[x] EXCEPT !.pc = "dispatched"]
    <3>1. Sound(r) /\ r.held = exchange[x].held
      BY <1>1, <2>2 DEF ReadBody, AtPc, Sound, Leases
    <3> QED BY <1>1, <2>2, <3>1, Ending DEF ReadBody
  <2>3. CASE Respond(x, b)
    BY <1>1, <2>3, Ending DEF Respond
  <2>4. CASE EndStream(x, b)
    <3>1. (exchange[x].aborted \/ b) \in BOOLEAN
      BY <1>1 DEF Sound, Leases
    <3> QED BY <1>1, <2>4, <3>1, Ending DEF EndStream
  <2> QED BY <2>1, <2>2, <2>3, <2>4
<1> QED BY <1>1, <1>2, StepKeeps

(* An execution is tracked only by a lease that still has its slot, and an *)
(* abort gives no slot back while the handler works.                       *)
LEMMA WorkKeeps ==
  ASSUME GateInv, NEW x \in Exchanges,
         ExecuteRequest(x) \/ EndExecution(x) \/ ClientAborts(x)
  PROVE  GateInv'
<1>1. Sound(exchange[x])
  BY DEF GateInv
<1>2. PICK r : Step(x, r) /\ Sound(r) /\ (r.held => exchange[x].held)
  <2>1. CASE ExecuteRequest(x)
    <3> DEFINE r == [exchange[x] EXCEPT !.execution = "running", !.tracked = ~exchange[x].sealed]
    <3>1. Sound(r) /\ r.held = exchange[x].held
      BY <1>1, <2>1 DEF ExecuteRequest, AtPc, Sound, Leases
    <3> QED BY <2>1, <3>1 DEF ExecuteRequest
  <2>2. CASE EndExecution(x)
    <3> DEFINE r == [exchange[x] EXCEPT !.execution = "done"]
    <3>1. Sound(r) /\ r.held = exchange[x].held
      BY <1>1 DEF Sound, Leases
    <3> QED BY <2>2, <3>1, Finishing DEF EndExecution
  <2>3. CASE ClientAborts(x)
    BY <1>1, <2>3, Ending DEF ClientAborts
  <2> QED BY <2>1, <2>2, <2>3
<1> QED BY <1>1, <1>2, StepKeeps

(* close aborts every lease and then waits until no slot is out.           *)
LEMMA CloseKeeps ==
  ASSUME GateInv, CloseBegins \/ HandlerClosed \/ CloseEnds
  PROVE  GateInv'
<1>1. CASE CloseBegins
  <2>1. /\ closing' = "handler"
        /\ \A x \in Exchanges :
             exchange'[x] = IF exchange[x].held THEN Aborted(exchange[x]) ELSE exchange[x]
        /\ exchange' = [x \in Exchanges |-> exchange'[x]]
    BY <1>1 DEF CloseBegins
  <2>2. ASSUME NEW x \in Exchanges
        PROVE  Sound(exchange'[x]) /\ (exchange'[x].held => exchange[x].held)
    <3>1. Sound(exchange[x])
      BY DEF GateInv
    <3>2. Sound(Aborted(exchange[x])) /\ (Aborted(exchange[x]).held => exchange[x].held)
      BY <3>1, Ending
    <3> QED BY <2>1, <3>1, <3>2
  <2>3. HeldSlots' \subseteq HeldSlots
    BY <2>2 DEF HeldSlots
  <2>4. Cardinality(HeldSlots') <= Cardinality(HeldSlots) /\ Cardinality(HeldSlots') \in Nat
    BY <2>3, SlotsFinite, FS_Subset, FS_CardinalityType
  <2>5. Cardinality(HeldSlots)' <= Maximum
    BY <2>4, SlotsFinite, GateAssumption DEF GateInv
  <2> QED BY <2>1, <2>2, <2>5 DEF GateInv, Sound
<1>2. CASE HandlerClosed \/ CloseEnds
  BY <1>2 DEF HandlerClosed, CloseEnds, GateInv, HeldSlots, Sound, Leases
<1> QED BY <1>1, <1>2

(* Every step of a handler, its work or close() preserves GateInv.         *)
LEMMA GateInductive == GateInv /\ [GateNext]_gateVars => GateInv'
<1> SUFFICES ASSUME GateInv, [GateNext]_gateVars PROVE GateInv'
  OBVIOUS
<1>1. CASE UNCHANGED gateVars
  BY <1>1 DEF gateVars, GateInv, HeldSlots, Sound, Leases
<1>2. CASE GateNext
  BY <1>2, AcquireKeeps, HandlerKeeps, WorkKeeps, CloseKeeps DEF GateNext, ServerSide, ClientSide
<1> QED BY <1>1, <1>2

(* The invariant holds in every state of the gate.                         *)
LEMMA GateInvariant == GateSpec => []GateInv
BY GateInitial, GateInductive, PTL DEF GateSpec

-----------------------------------------------------------------------------
(* Leases keep their types.                                                *)
THEOREM GateTypeCorrect == GateSpec => []GateTypeOK
<1>1. GateInv => GateTypeOK
  BY DEF GateInv, GateTypeOK, Sound, Leases
<1> QED BY <1>1, GateInvariant, PTL

(* Whatever order seals, aborts, responses, executions and close come in:  *)
(* the slots out stay within the maximum, none is given back under a       *)
(* handler or a tracked execution, and a closed gate has none out.         *)
THEOREM GateHoldsSlots == GateSpec => []SlotsHeldWhileWorking
<1>1. GateInv => SlotsHeldWhileWorking
  BY DEF GateInv, SlotsHeldWhileWorking, Sound
<1> QED BY <1>1, GateInvariant, PTL

-----------------------------------------------------------------------------
(* AUDITED ROUTES, for every set of calls: a row for every answer, and it  *)
(* is true.                                                                *)

(* What a call's record may hold.                                          *)
CallRecords ==
  [kind : Kinds \cup {"none"},
   pc : {"idle", "parsing", "intending", "acting", "running", "ending", "cancelling", "draining",
         "answered", "dead"},
   status : {"none", "ok", "blocked", "error", "rejected", "failed"},
   effect : {"none", "running", "done", "failed"},
   intent : BOOLEAN,
   outcomes : {<<>>, <<"ok">>, <<"blocked">>, <<"error">>},
   sinkFailed : BOOLEAN]

(* Before its action a call has no effect and no outcome, and its intent   *)
(* exactly when it is about to act.                                        *)
NotActed(r) ==
  r.pc \in {"idle", "parsing", "intending", "acting"} =>
    /\ r.effect = "none" /\ r.outcomes = <<>> /\ ~r.sinkFailed
    /\ r.intent <=> r.pc = "acting"

(* A call that has an outcome to append: "ok" is of an effect that is      *)
(* done, and a failure is of an effect only where the trail is allowed to  *)
(* say so.  A refused resume of the command line never gets here.          *)
OutcomeDue(r) ==
  r.pc \in {"ending", "cancelling"} =>
    /\ r.intent /\ r.outcomes = <<>>
    /\ r.status \in {"ok", "blocked", "error"}
    /\ IF r.status = "ok" THEN r.effect = "done"
       ELSE r.effect \in {"done", "running"} => r.sinkFailed \/ r.kind = "tool"
    /\ r.kind = "cliResume" => r.effect = "done"

(* Only a tool runs on its own, and what it is waited for has begun.       *)
ToolsRun(r) ==
  /\ r.effect = "running" \/ r.pc \in {"running", "cancelling", "draining"} => r.kind = "tool"
  /\ r.pc = "running" => r.effect = "running" /\ r.outcomes = <<>> /\ ~r.sinkFailed
  /\ r.pc = "draining" => r.sinkFailed \/ r.outcomes # <<>>

(* The two properties, of one call.                                        *)
AnswerOK(r) ==
  r.pc = "answered" /\ r.intent /\ ~r.sinkFailed =>
    IF r.kind = "cliResume" /\ r.effect # "done" THEN r.outcomes = <<>> ELSE r.outcomes # <<>>
TrailTrue(r) ==
  /\ r.effect # "none" => r.intent
  /\ r.outcomes = <<"ok">> => r.effect = "done"
  /\ r.outcomes \in {<<"blocked">>, <<"error">>} /\ r.effect \in {"done", "running"} =>
       r.sinkFailed \/ r.kind = "tool"

CallOK(r) == r \in CallRecords /\ NotActed(r) /\ OutcomeDue(r) /\ ToolsRun(r) /\ AnswerOK(r) /\ TrailTrue(r)

(* The inductive invariant: every call is well formed, whatever the others *)
(* and the governance do.                                                  *)
RoutesInv == stasis \in BOOLEAN /\ doubt \in BOOLEAN /\ call \in [Calls -> {r \in CallRecords : CallOK(r)}]

(* No outcome is not an outcome.                                           *)
LEMMA NoneIsNoOutcome == \A s : <<>> # <<s>>
<1> SUFFICES ASSUME NEW s PROVE <<>> # <<s>>
  OBVIOUS
<1>1. Len(<<>>) # Len(<<s>>)
  OBVIOUS
<1> QED BY <1>1

(* The invariant entails what is claimed of the rows and effects.          *)
LEMMA RoutesImplies == RoutesInv => RoutesTypeOK /\ OutcomeForEveryAnswer /\ OutcomesTrue
<1> SUFFICES ASSUME RoutesInv PROVE RoutesTypeOK /\ OutcomeForEveryAnswer /\ OutcomesTrue
  OBVIOUS
<1>1. ASSUME NEW c \in Calls PROVE CallOK(call[c]) /\ call[c] \in CallRecords
  BY DEF RoutesInv
<1>2. ASSUME NEW r \in CallRecords
      PROVE  /\ r.outcomes \in Seq({"ok", "blocked", "error"})
             /\ r.outcomes # <<>> <=> Len(r.outcomes) = 1
             /\ Len(r.outcomes) <= 1
  <2>1. r.outcomes \in {<<>>, <<"ok">>, <<"blocked">>, <<"error">>}
    BY DEF CallRecords
  <2>2. CASE r.outcomes = <<>>
    BY <2>2
  <2>3. ASSUME NEW s \in {"ok", "blocked", "error"}, r.outcomes = <<s>>
        PROVE  /\ r.outcomes \in Seq({"ok", "blocked", "error"})
               /\ r.outcomes # <<>> <=> Len(r.outcomes) = 1
               /\ Len(r.outcomes) <= 1
    BY <2>3, NoneIsNoOutcome
  <2>4. r.outcomes = <<>> \/ \E s \in {"ok", "blocked", "error"} : r.outcomes = <<s>>
    BY <2>1
  <2> QED BY <2>2, <2>3, <2>4
<1>3. RoutesTypeOK
  BY <1>1, <1>2 DEF RoutesTypeOK, RoutesInv, CallRecords
<1>4. OutcomeForEveryAnswer
  BY <1>1, <1>2 DEF OutcomeForEveryAnswer, OutcomeLeft, CallOK, AnswerOK, At
<1>5. OutcomesTrue
  <2> SUFFICES ASSUME NEW c \in Calls
      PROVE /\ call[c].effect # "none" => call[c].intent
            /\ \A n \in DOMAIN call[c].outcomes :
                 IF call[c].outcomes[n] = "ok" THEN call[c].effect = "done"
                 ELSE call[c].effect \in {"done", "running"} =>
                        call[c].sinkFailed \/ call[c].kind = "tool"
            /\ Len(call[c].outcomes) <= 1
    BY DEF OutcomesTrue
  <2>1. CallOK(call[c]) /\ call[c].outcomes \in {<<>>, <<"ok">>, <<"blocked">>, <<"error">>}
    BY <1>1 DEF CallRecords
  <2> QED BY <1>1, <1>2, <2>1 DEF CallOK, TrailTrue
<1> QED BY <1>3, <1>4, <1>5

(* Replacing one record by a good one keeps the invariant.                 *)
LEMMA SetKeeps ==
  ASSUME RoutesInv, NEW c \in Calls, NEW r, CallOK(r), Set(c, r),
         stasis' \in BOOLEAN, doubt' \in BOOLEAN
  PROVE  RoutesInv'
BY DEF RoutesInv, Set, CallOK

(* A call that was not made yet.                                           *)
LEMMA UnstartedOK ==
  ASSUME NEW kind \in Kinds, NEW pc \in {"parsing", "intending"}
  PROVE  CallOK([Unstarted EXCEPT !.kind = kind, !.pc = pc])
BY DEF Unstarted, CallOK, CallRecords, NotActed, OutcomeDue, ToolsRun, AnswerOK, TrailTrue, Kinds

(* A call whose effect is done has an "ok" to append.                      *)
LEMMA ActedOK ==
  ASSUME NEW c \in Calls, call[c] \in CallRecords, CallOK(call[c]), call[c].pc = "acting"
  PROVE  CallOK(Acted(c))
<1>1. PICK r : r = Acted(c) /\ r \in CallRecords
  <2>1. Acted(c) \in CallRecords
    BY DEF Acted, CallRecords
  <2> QED BY <2>1
<1>2. /\ call[c].effect = "none" /\ call[c].outcomes = <<>> /\ call[c].intent
  BY DEF CallOK, NotActed
<1>3. /\ r.pc = "ending" /\ r.status = "ok" /\ r.effect = "done"
      /\ r.outcomes = <<>> /\ r.intent
  BY <1>1, <1>2 DEF Acted, CallRecords
<1>4. NotActed(r) /\ OutcomeDue(r) /\ ToolsRun(r) /\ AnswerOK(r)
  BY <1>3 DEF NotActed, OutcomeDue, ToolsRun, AnswerOK
<1>5. TrailTrue(r)
  BY <1>3, NoneIsNoOutcome DEF TrailTrue
<1> QED BY <1>1, <1>4, <1>5 DEF CallOK

(* Nothing was called yet.                                                 *)
LEMMA RoutesInitial == RoutesInit => RoutesInv
<1>1. CallOK(Unstarted)
  BY DEF Unstarted, CallOK, CallRecords, NotActed, OutcomeDue, ToolsRun, AnswerOK, TrailTrue, Kinds
<1> QED BY <1>1 DEF RoutesInit, RoutesInv, CallOK

(* Every step of a call, a restart, a STASIS or a full disk preserves      *)
(* RoutesInv.                                                              *)
LEMMA RoutesStep == RoutesInv /\ [RoutesNext]_routeVars => RoutesInv'
<1> SUFFICES ASSUME RoutesInv, [RoutesNext]_routeVars PROVE RoutesInv'
  OBVIOUS
<1>0. stasis' \in BOOLEAN /\ doubt' \in BOOLEAN
  BY DEF RoutesInv, RoutesNext, routeVars, Governance, Begin, Die, ActResume, AnalysisParsed, Intend,
         ActCompute, ActTool, StopWaiting, End, HandlerDone
<1>1. ASSUME Governance \/ UNCHANGED routeVars PROVE RoutesInv'
  BY <1>0, <1>1 DEF RoutesInv, Governance, routeVars
<1>2. ASSUME NEW c \in Calls, Begin(c) PROVE RoutesInv'
  <2>1. \E r : Set(c, r) /\ CallOK(r)
    BY <1>2, UnstartedOK DEF Begin, ResumeBegins, AnalysisBegins, OtherBegins, Kinds
  <2> QED BY <1>0, <2>1, SetKeeps
<1>3. ASSUME NEW c \in Calls, call[c] \in CallRecords, CallOK(call[c]),
             Die(c) \/ ActResume(c) \/ (\E b \in BOOLEAN :
               AnalysisParsed(c, b) \/ Intend(c, b) \/ ActCompute(c, b) \/ ActTool(c, b) \/ StopWaiting(c, b))
      PROVE  RoutesInv'
  <2>1. CASE Die(c)
    <3>1. Set(c, [call[c] EXCEPT !.pc = "dead"]) /\ CallOK([call[c] EXCEPT !.pc = "dead"])
      BY <1>3, <2>1 DEF Die, At, CallOK, CallRecords, NotActed, OutcomeDue, ToolsRun, AnswerOK, TrailTrue
    <3> QED BY <1>0, <3>1, SetKeeps
  <2>2. CASE ActResume(c)
    <3>1. CallOK(Acted(c))
      BY <1>3, <2>2, ActedOK DEF ActResume, At
    <3>2. CallOK(Refused(c))
      BY <1>3, <2>2 DEF ActResume, Refused, At, CallOK, CallRecords, NotActed, OutcomeDue, ToolsRun, AnswerOK, TrailTrue
    <3> QED BY <1>0, <2>2, <3>1, <3>2, SetKeeps DEF ActResume
  <2>3. ASSUME NEW b \in BOOLEAN, AnalysisParsed(c, b) PROVE RoutesInv'
    <3>1. CallOK([call[c] EXCEPT !.pc = IF b THEN "intending" ELSE "answered",
                                 !.status = IF b THEN @ ELSE "rejected"])
      BY <1>3, <2>3 DEF AnalysisParsed, At, CallOK, CallRecords, NotActed, OutcomeDue, ToolsRun, AnswerOK, TrailTrue
    <3> QED BY <1>0, <2>3, <3>1, SetKeeps DEF AnalysisParsed
  <2>4. ASSUME NEW b \in BOOLEAN, Intend(c, b) PROVE RoutesInv'
    <3>1. /\ CallOK([call[c] EXCEPT !.pc = "acting", !.intent = TRUE])
          /\ CallOK([call[c] EXCEPT !.pc = "answered", !.status = "failed", !.sinkFailed = TRUE])
      BY <1>3, <2>4 DEF Intend, At, CallOK, CallRecords, NotActed, OutcomeDue, ToolsRun, AnswerOK, TrailTrue
    <3> QED BY <1>0, <2>4, <3>1, SetKeeps DEF Intend
  <2>5. ASSUME NEW b \in BOOLEAN, ActCompute(c, b) PROVE RoutesInv'
    <3>1. FailureOf(call[c].kind) \subseteq {"blocked", "error"}
      BY DEF FailureOf
    <3>2. CallOK(Acted(c))
      BY <1>3, <2>5, ActedOK DEF ActCompute, At
    <3>3. ASSUME NEW failure \in FailureOf(call[c].kind)
          PROVE  CallOK([call[c] EXCEPT !.pc = "ending", !.status = failure])
      BY <1>3, <2>5, <3>1 DEF ActCompute, At, CallOK, CallRecords, NotActed, OutcomeDue, ToolsRun, AnswerOK, TrailTrue
    <3> QED BY <1>0, <2>5, <3>2, <3>3, SetKeeps DEF ActCompute
  <2>6. ASSUME NEW b \in BOOLEAN, ActTool(c, b) PROVE RoutesInv'
    <3>1. /\ CallOK([call[c] EXCEPT !.pc = "running", !.effect = "running"])
          /\ CallOK([call[c] EXCEPT !.pc = "ending", !.status = "error"])
      BY <1>3, <2>6 DEF ActTool, At, CallOK, CallRecords, NotActed, OutcomeDue, ToolsRun, AnswerOK, TrailTrue
    <3> QED BY <1>0, <2>6, <3>1, SetKeeps DEF ActTool
  <2>7. ASSUME NEW b \in BOOLEAN, StopWaiting(c, b) PROVE RoutesInv'
    <3>1. CallOK([call[c] EXCEPT !.pc = IF b THEN "cancelling" ELSE "ending", !.status = "error"])
      BY <1>3, <2>7 DEF StopWaiting, At, CallOK, CallRecords, NotActed, OutcomeDue, ToolsRun, AnswerOK, TrailTrue
    <3> QED BY <1>0, <2>7, <3>1, SetKeeps DEF StopWaiting
  <2> QED BY <1>3, <2>1, <2>2, <2>3, <2>4, <2>5, <2>6, <2>7
<1>4. ASSUME NEW c \in Calls, call[c] \in CallRecords, CallOK(call[c]), NEW b \in BOOLEAN, End(c, b)
      PROVE  RoutesInv'
  <2> DEFINE r == call[c]
             waits == At(c, "cancelling") /\ r.effect = "running"
             recorded == [r EXCEPT !.outcomes = Append(@, r.status),
                                   !.pc = IF waits THEN "draining" ELSE "answered"]
             lost == [r EXCEPT !.sinkFailed = TRUE]
  <2>1. r.pc \in {"ending", "cancelling"} /\ r.intent /\ r.outcomes = <<>> /\ r.status \in {"ok", "blocked", "error"}
    BY <1>4 DEF End, At, CallOK, CallRecords, NotActed, OutcomeDue, ToolsRun, AnswerOK, TrailTrue
  <2>2. Append(r.outcomes, r.status) = <<r.status>>
    BY <2>1
  <2>3. CallOK([r EXCEPT !.outcomes = <<r.status>>, !.pc = IF waits THEN "draining" ELSE "answered"])
    BY <1>4, <2>1 DEF At, CallOK, CallRecords, NotActed, OutcomeDue, ToolsRun, AnswerOK, TrailTrue
  <2>4. ASSUME NEW failure \in FailureOf(r.kind), r.status = "ok"
        PROVE  CallOK([lost EXCEPT !.status = failure])
    BY <1>4, <2>1, <2>4 DEF FailureOf, At, CallOK, CallRecords, NotActed, OutcomeDue, ToolsRun, AnswerOK, TrailTrue
  <2>5. /\ waits => CallOK([lost EXCEPT !.pc = "draining", !.status = "failed"])
        /\ CallOK([lost EXCEPT !.pc = "answered", !.status = "failed"])
    BY <1>4, <2>1 DEF At, CallOK, CallRecords, NotActed, OutcomeDue, ToolsRun, AnswerOK, TrailTrue
  <2>6. \E n : Set(c, n) /\ CallOK(n)
    BY <1>4, <2>2, <2>3, <2>4, <2>5 DEF End
  <2> QED BY <1>0, <2>6, SetKeeps
<1>5. ASSUME NEW c \in Calls, call[c] \in CallRecords, CallOK(call[c]),
             NEW b \in BOOLEAN, NEW d \in BOOLEAN, HandlerDone(c, b, d)
      PROVE  RoutesInv'
  <2>1. CallOK([call[c] EXCEPT
           !.effect = IF b THEN "done" ELSE "failed",
           !.pc = IF At(c, "running") THEN "ending" ELSE IF At(c, "draining") THEN "answered" ELSE @,
           !.status = IF ~At(c, "running") THEN @ ELSE IF b /\ d THEN "ok" ELSE "error"])
    BY <1>5 DEF HandlerDone, At, CallOK, CallRecords, NotActed, OutcomeDue, ToolsRun, AnswerOK, TrailTrue
  <2> QED BY <1>0, <1>5, <2>1, SetKeeps DEF HandlerDone
<1>6. \A c \in Calls : call[c] \in CallRecords /\ CallOK(call[c])
  BY DEF RoutesInv
<1> QED BY <1>1, <1>2, <1>3, <1>4, <1>5, <1>6 DEF RoutesNext

(* The rows and effects of calls are well typed.                           *)
THEOREM RoutesTypeCorrect == RoutesSpec => []RoutesTypeOK
BY RoutesInitial, RoutesStep, RoutesImplies, PTL DEF RoutesSpec

(* A call that answered after its intent, with an audit store that worked, *)
(* left exactly one outcome (the audited routes, whichever of them, with   *)
(* tools that time out or are dropped, but for the offline resume that the *)
(* governor refuses).                                                      *)
THEOREM RoutesOutcomes == RoutesSpec => []OutcomeForEveryAnswer
BY RoutesInitial, RoutesStep, RoutesImplies, PTL DEF RoutesSpec

(* The audit trail is true of what happened: no effect without an intent   *)
(* before it, "ok" only for an effect that is done, and never two outcomes *)
(* (the audited routes).                                                   *)
THEOREM RoutesTrue == RoutesSpec => []OutcomesTrue
BY RoutesInitial, RoutesStep, RoutesImplies, PTL DEF RoutesSpec

-----------------------------------------------------------------------------
(* BILLABLE ROUTES, for every set of requests, urls and operations, and    *)
(* any clock: the cache is of the provider state there is, and charges     *)
(* match answers.                                                          *)

(* What the variables hold.  A row names its client and a key.             *)
CacheEntries == [at : Nat, sampled : Nat, epoch : Nat]
OperationRows ==
  [state : {"ABSENT", "RESERVED", "EXECUTING", "SETTLED", "REFUNDED", "IN_DOUBT", "DENIED"},
   by : {Absent} \cup ({"feed"} \X Urls) \cup ({"seed"} \X Operations), due : Nat, charged : {0, 1}]
Handlings ==
  [pc : {"new", "fetching", "settling", "approval", "reloading", "answered"},
   url : Urls \cup {Absent}, op : Operations \cup {Absent}, at : Nat, epoch : Nat,
   cached : CacheEntries \cup {Absent},
   upstream : Outcomes \cup {"none", "stale"}, answer : Answers, age : Nat]

(* What the cache may hold: what the current provider state fetched, read  *)
(* upstream no earlier than its fetch began.                               *)
EntryTrue(e) == e # Absent => e.epoch = epoch /\ e.at <= e.sampled /\ e.sampled <= instant

CacheInv ==
  /\ metered \in BOOLEAN /\ instant \in Nat /\ epoch \in Nat
  /\ cache \in [Urls -> CacheEntries \cup {Absent}]
  /\ \A u \in Urls : EntryTrue(cache[u])
  /\ handling \in [Requests -> Handlings]
  /\ \A q \in Requests : /\ handling[q].at <= instant
                         /\ handling[q].answer = "hit" => handling[q].age < Ttl

(* A request's row, if it has one, is where the handler left it or where   *)
(* the recovery took it from there.                                        *)
RowFollows(h, row) ==
  /\ h.pc = "new" => h.op = Absent
  /\ h.pc \in {"fetching", "settling"} => (h.op # Absent <=> metered)
  /\ h.pc \in {"settling", "approval", "reloading"} => h.op # Absent
  /\ h.pc = "settling" => h.upstream # "none"
  /\ h.op # Absent =>
       /\ row.state # "ABSENT"
       /\ h.pc \in {"fetching", "settling", "reloading"} => row.state \in {"EXECUTING", "IN_DOUBT"}
       /\ h.pc = "approval" => row.state \in {"RESERVED", "REFUNDED"}
       /\ h.pc # "answered" => row.charged = 0

(* AnswerMatchesCharge, of one request.                                    *)
AnswerFits(h, row) ==
  h.pc = "answered" /\ h.op # Absent =>
    /\ h.answer = "fresh" <=> row.charged = 1
    /\ h.answer \in {"error", "corrupt"} => row.state = "SETTLED"
    /\ h.answer \in {"refused", "stale"} => row.state \in {"REFUNDED", "DENIED"}
    /\ h.answer \in {"unavailable", "oversized", "lost"} =>
         row.state \in {"RESERVED", "EXECUTING", "IN_DOUBT", "REFUNDED"}
    /\ h.answer = "ambiguous" => row.state \in {"EXECUTING", "IN_DOUBT"}

Fits(h, row) == RowFollows(h, row) /\ AnswerFits(h, row)

(* No two requests have one row.                                           *)
RowsOwned == \A p, q \in Requests : handling[p].op = handling[q].op /\ handling[p].op # Absent => p = q

RowsInv ==
  /\ operation \in [Operations -> OperationRows]
  /\ \A q \in Requests : Fits(handling[q], operation[handling[q].op])
  /\ RowsOwned

BillableInv == CacheInv /\ RowsInv

(* The invariant entails what is claimed of the cache and the charges.     *)
LEMMA BillableImplies == BillableInv => CacheTruthful /\ AnswerMatchesCharge
<1> SUFFICES ASSUME BillableInv PROVE CacheTruthful /\ AnswerMatchesCharge
  OBVIOUS
<1>1. CacheTruthful
  BY DEF BillableInv, CacheInv, EntryTrue, CacheTruthful
<1>2. AnswerMatchesCharge
  BY DEF BillableInv, RowsInv, Fits, AnswerFits, AnswerMatchesCharge
<1> QED BY <1>1, <1>2

-----------------------------------------------------------------------------
(* The record of an answered request.                                      *)
Answering(r, answer) ==
  [Unserved EXCEPT !.pc = "answered", !.answer = answer, !.op = r.op,
                   !.age = IF answer = "hit" THEN r.at - r.cached.sampled ELSE 0]

(* What a handler's answer leaves of its record.                           *)
LEMMA AnsweringFields ==
  ASSUME NEW r, r.op \in Operations \cup {Absent}, NEW answer \in Answers \ {"hit"}
  PROVE  /\ Answering(r, answer) \in Handlings
         /\ Answering(r, answer).pc = "answered" /\ Answering(r, answer).answer = answer
         /\ Answering(r, answer).op = r.op /\ Answering(r, answer).at = 0
BY DEF Answering, Unserved, Handlings, Answers, Outcomes

(* One request goes on, and its row if it has one; the others stay.        *)
LEMMA RequestMoves ==
  ASSUME RowsInv, NEW q \in Requests, NEW h \in Handlings,
         handling \in [Requests -> Handlings], UNCHANGED metered,
         handling' = [handling EXCEPT ![q] = h],
         \/ /\ UNCHANGED operation
            /\ h.op \in {Absent, handling[q].op}
         \/ \E row \in OperationRows :
              /\ h.op # Absent /\ operation' = [operation EXCEPT ![h.op] = row]
              /\ h.op = handling[q].op \/ operation[h.op].state = "ABSENT",
         Fits(h, operation'[h.op])
  PROVE  RowsInv'
<1>1. operation' \in [Operations -> OperationRows]
  BY DEF RowsInv
<1>2. RowsOwned'
  BY DEF RowsInv, RowsOwned, Fits, RowFollows, Handlings
<1>3. ASSUME NEW p \in Requests PROVE Fits(handling[p], operation[handling[p].op])'
  <2>1. CASE p = q
    BY <2>1 DEF Fits, RowFollows, AnswerFits
  <2>2. CASE p # q
    <3>1. handling'[p] = handling[p] /\ Fits(handling[p], operation[handling[p].op])
      BY <2>2 DEF RowsInv
    <3>2. handling[p].op # Absent => operation'[handling[p].op] = operation[handling[p].op]
      BY <2>2, <3>1 DEF RowsInv, RowsOwned, Fits, RowFollows, Handlings
    <3> QED BY <3>1, <3>2 DEF Fits, RowFollows, AnswerFits
  <2> QED BY <2>1, <2>2
<1> QED BY <1>1, <1>2, <1>3 DEF RowsInv

(* For the cache only the request's own record matters.                    *)
LEMMA CacheKept ==
  ASSUME CacheInv, UNCHANGED <<metered, instant, epoch, cache>>,
         NEW q \in Requests, NEW h \in Handlings,
         handling' = [handling EXCEPT ![q] = h],
         h.at <= instant, h.answer = "hit" => h.age < Ttl
  PROVE  CacheInv'
BY DEF CacheInv, EntryTrue

(* Nothing is cached, reserved or handled at first.                        *)
LEMMA BillableInitial == BillableInit => BillableInv
<1> SUFFICES ASSUME BillableInit PROVE BillableInv
  OBVIOUS
<1>1. Unserved \in Handlings /\ Unserved.op = Absent /\ Unserved.pc = "new" /\ Unserved.at = 0 /\ Unserved.answer = "none"
  BY DEF Unserved, Handlings, Answers, Outcomes
<1>2. CacheInv
  BY <1>1 DEF BillableInit, CacheInv, EntryTrue
<1>3. RowsInv
  <2>1. operation \in [Operations -> OperationRows]
    BY DEF BillableInit, OperationRows
  <2>2. ASSUME NEW q \in Requests PROVE Fits(handling[q], operation[handling[q].op])
    BY <1>1 DEF BillableInit, Fits, RowFollows, AnswerFits
  <2>3. RowsOwned
    BY <1>1 DEF BillableInit, RowsOwned
  <2> QED BY <2>1, <2>2, <2>3 DEF RowsInv
<1> QED BY <1>2, <1>3 DEF BillableInv

-----------------------------------------------------------------------------
(* Opening and closing a row.                                              *)
LEMMA RowOpened ==
  ASSUME BillableInv, NEW o \in Operations, NEW by \in ({"feed"} \X Urls) \cup ({"seed"} \X Operations),
         NEW state \in {"RESERVED", "EXECUTING", "REFUNDED", "DENIED"}, OpenOperation(o, by, state)
  PROVE  \E row \in OperationRows : /\ operation' = [operation EXCEPT ![o] = row]
                                    /\ operation'[o] = row /\ row.state = state /\ row.charged = 0
<1> DEFINE row == [state |-> state, by |-> by, due |-> instant + Patience, charged |-> 0]
<1>1. instant + Patience \in Nat
  BY RoutesAssumption DEF BillableInv, CacheInv
<1>2. row \in OperationRows /\ operation' = [operation EXCEPT ![o] = row]
  BY <1>1 DEF OperationRows, OpenOperation
<1> QED BY <1>2 DEF BillableInv, RowsInv

(* Closing a row leaves a row of that state and charge, with its client's  *)
(* name.                                                                   *)
LEMMA RowClosed ==
  ASSUME BillableInv, NEW o \in Operations, NEW state \in {"SETTLED", "REFUNDED", "IN_DOUBT", "EXECUTING"},
         NEW charged \in {0, 1}, Close(o, state, charged)
  PROVE  \E row \in OperationRows : /\ operation' = [operation EXCEPT ![o] = row]
                                    /\ operation'[o] = row /\ row.state = state /\ row.charged = charged
<1> DEFINE row == [operation[o] EXCEPT !.state = state, !.charged = charged]
<1>1. operation[o] \in OperationRows
  BY DEF BillableInv, RowsInv
<1>2. row \in OperationRows /\ row.state = state /\ row.charged = charged
  BY <1>1 DEF OperationRows
<1>3. operation' = [operation EXCEPT ![o] = row]
  BY DEF Close, BillableInv, RowsInv
<1> QED BY <1>2, <1>3 DEF BillableInv, RowsInv

(* A request answers without touching the ledger, or with its row moved.   *)
LEMMA AnswersOnly ==
  ASSUME BillableInv, NEW q \in Requests, NEW r, NEW answer \in Answers \ {"hit", "none"},
         Reply(q, r, answer), UNCHANGED <<metered, instant, epoch>>,
         CacheInv' \/ UNCHANGED cache,
         r.op \in Operations \cup {Absent},
         \/ UNCHANGED operation /\ r.op \in {Absent, handling[q].op}
         \/ \E row \in OperationRows :
              /\ r.op # Absent /\ operation' = [operation EXCEPT ![r.op] = row]
              /\ r.op = handling[q].op \/ operation[r.op].state = "ABSENT",
         r.op # Absent =>
           /\ operation'[r.op].state # "ABSENT"
           /\ answer = "fresh" <=> operation'[r.op].charged = 1
           /\ answer \in {"error", "corrupt"} => operation'[r.op].state = "SETTLED"
           /\ answer \in {"refused", "stale"} => operation'[r.op].state \in {"REFUNDED", "DENIED"}
           /\ answer \in {"unavailable", "oversized", "lost"} =>
                operation'[r.op].state \in {"RESERVED", "EXECUTING", "IN_DOUBT", "REFUNDED"}
           /\ answer = "ambiguous" => operation'[r.op].state \in {"EXECUTING", "IN_DOUBT"}
  PROVE  BillableInv'
<1> DEFINE h == Answering(r, answer)
<1>0. handling' = [handling EXCEPT ![q] = h]
  BY DEF Reply, Answering
<1>1. h \in Handlings /\ h.pc = "answered" /\ h.answer = answer /\ h.op = r.op /\ h.at = 0
  BY AnsweringFields
<1> HIDE DEF h
<1>2. Fits(h, operation'[h.op])
  BY <1>1 DEF Fits, RowFollows, AnswerFits
<1>3. handling \in [Requests -> Handlings]
  BY DEF BillableInv, CacheInv
<1>4. RowsInv'
  BY <1>0, <1>1, <1>2, <1>3, RequestMoves DEF BillableInv
<1>5. CacheInv'
  <2>1. h.at <= instant /\ h.answer # "hit" /\ CacheInv
    BY <1>1 DEF BillableInv, CacheInv
  <2> QED BY <1>0, <1>1, <2>1, CacheKept
<1> QED BY <1>4, <1>5 DEF BillableInv

(* A request goes on without an answer.                                    *)
LEMMA GoesOn ==
  ASSUME BillableInv, NEW q \in Requests, NEW h \in Handlings, h.pc \notin {"new", "answered"},
         handling' = [handling EXCEPT ![q] = h], UNCHANGED <<metered, instant, epoch>>,
         CacheInv' \/ UNCHANGED cache,
         h.at <= instant, h.answer = "none",
         \/ UNCHANGED operation /\ h.op \in {Absent, handling[q].op}
         \/ \E row \in OperationRows :
              /\ h.op # Absent /\ operation' = [operation EXCEPT ![h.op] = row]
              /\ h.op = handling[q].op \/ operation[h.op].state = "ABSENT",
         RowFollows(h, operation'[h.op])
  PROVE  BillableInv'
<1>1. Fits(h, operation'[h.op])
  BY DEF Fits, AnswerFits
<1>2. handling \in [Requests -> Handlings]
  BY DEF BillableInv, CacheInv
<1>3. RowsInv'
  BY <1>1, <1>2, RequestMoves DEF BillableInv
<1>4. CacheInv'
  <2>1. CacheInv /\ h.answer # "hit"
    BY DEF BillableInv
  <2> QED BY <2>1, CacheKept
<1> QED BY <1>3, <1>4 DEF BillableInv

(* What a request captures on arrival.                                     *)
LEMMA CapturedFields ==
  ASSUME BillableInv, NEW u \in Urls, NEW o \in Operations \cup {Absent}
  PROVE  /\ Captured(u, o) \in Handlings /\ [Captured(u, o) EXCEPT !.pc = "fetching"] \in Handlings
         /\ Captured(u, o).op = o /\ Captured(u, o).at = instant /\ Captured(u, o).cached = cache[u]
         /\ Captured(u, o).answer = "none" /\ Captured(u, o).pc = "new"
BY DEF Captured, Unserved, Handlings, Answers, Outcomes, BillableInv, CacheInv

-----------------------------------------------------------------------------
(* A request is answered from the cache, or refused in the cooldown.       *)
LEMMA FeedFromCacheKeeps ==
  ASSUME BillableInv, NEW q \in Requests, NEW u \in Urls, FeedFromCache(q, u)
  PROVE  BillableInv'
<1> DEFINE c == Captured(u, Absent)
<1>0. Absent \in Operations \cup {Absent}
  OBVIOUS
<1>1. c.op = Absent /\ c.at = instant /\ c.cached = cache[u]
  BY <1>0, CapturedFields
<1>2. UNCHANGED <<metered, instant, epoch, cache, operation>>
  BY DEF FeedFromCache, providerVars
<1>3. CASE Reply(q, c, "refused") \/ Reply(q, c, "stale")
  <2> HIDE DEF c
  <2> QED BY <1>1, <1>2, <1>3, AnswersOnly DEF Answers
<1>4. CASE CacheHit(u) /\ Reply(q, c, "hit")
  <2> DEFINE e == cache[u]
             h == Answering(c, "hit")
  <2>1. /\ e \in CacheEntries /\ instant - e.at < Ttl /\ e.at <= e.sampled /\ e.sampled <= instant
        /\ instant \in Nat
    BY <1>4 DEF CacheHit, BillableInv, CacheInv, EntryTrue
  <2>2. instant - e.sampled \in Nat /\ instant - e.sampled < Ttl
    BY <2>1, RoutesAssumption DEF CacheEntries
  <2>3. /\ h \in Handlings /\ h.at = 0 /\ h.age = instant - e.sampled
        /\ h.pc = "answered" /\ h.op = Absent
    BY <1>1, <2>2 DEF Answering, Unserved, Handlings, Answers, Outcomes
  <2>4. handling' = [handling EXCEPT ![q] = h]
    BY <1>4 DEF Reply, Answering
  <2> HIDE DEF h, e
  <2>5. CacheInv'
    <3>1. CacheInv /\ h.at <= instant /\ h.age < Ttl
      BY <2>1, <2>2, <2>3 DEF BillableInv
    <3> QED BY <1>2, <2>3, <2>4, <3>1, CacheKept
  <2>6. Fits(h, operation'[h.op])
    BY <2>3 DEF Fits, RowFollows, AnswerFits
  <2>7. RowsInv'
    BY <1>2, <2>3, <2>4, <2>6, RequestMoves DEF BillableInv, CacheInv
  <2> QED BY <2>5, <2>7 DEF BillableInv
<1> QED BY <1>3, <1>4 DEF FeedFromCache

(* A metered fetch reserves its row and starts it.                         *)
LEMMA FetchMeteredKeeps ==
  ASSUME BillableInv, NEW q \in Requests, NEW u \in Urls, NEW o \in Operations, FetchMetered(q, u, o)
  PROVE  BillableInv'
<1> DEFINE c == Captured(u, o)
           nobodys == [c EXCEPT !.op = Absent]
           by == <<"feed", u>>
           n == [c EXCEPT !.pc = "fetching"]
<1>1. /\ c.op = o /\ c.at = instant /\ nobodys.op = Absent /\ o # Absent
      /\ n \in Handlings /\ n.op = o /\ n.at = instant /\ n.pc = "fetching" /\ n.answer = "none"
  BY CapturedFields, RoutesAssumption DEF Handlings
<1>2. UNCHANGED <<metered, instant, epoch, cache>> /\ metered /\ instant \in Nat
  BY DEF FetchMetered, providerVars, BillableInv, CacheInv
<1>3. by \in ({"feed"} \X Urls) \cup ({"seed"} \X Operations)
  OBVIOUS
<1>4. \/ UNCHANGED operation /\ \E a \in {"unavailable", "refused", "replayed"} : Reply(q, nobodys, a)
      \/ /\ operation[o].state = "ABSENT"
         /\ \/ OpenOperation(o, by, "DENIED") /\ \E a \in {"refused", "stale"} : Reply(q, c, a)
            \/ OpenOperation(o, by, "RESERVED") /\ Reply(q, c, "unavailable")
            \/ OpenOperation(o, by, "REFUNDED") /\ Reply(q, c, "refused")
            \/ OpenOperation(o, by, "EXECUTING") /\ handling' = [handling EXCEPT ![q] = n]
  BY DEF FetchMetered, Taken
<1> HIDE DEF c, nobodys, by, n
<1>5. ASSUME UNCHANGED operation, NEW a \in {"unavailable", "refused", "replayed"}, Reply(q, nobodys, a)
      PROVE  BillableInv'
  BY <1>1, <1>2, <1>5, AnswersOnly DEF Answers
<1>6. ASSUME operation[o].state = "ABSENT", OpenOperation(o, by, "DENIED"),
             NEW a \in {"refused", "stale"}, Reply(q, c, a)
      PROVE  BillableInv'
  BY <1>1, <1>2, <1>3, <1>6, RowOpened, AnswersOnly DEF Answers
<1>7. ASSUME operation[o].state = "ABSENT", OpenOperation(o, by, "RESERVED"), Reply(q, c, "unavailable")
      PROVE  BillableInv'
  BY <1>1, <1>2, <1>3, <1>7, RowOpened, AnswersOnly DEF Answers
<1>8. ASSUME operation[o].state = "ABSENT", OpenOperation(o, by, "REFUNDED"), Reply(q, c, "refused")
      PROVE  BillableInv'
  BY <1>1, <1>2, <1>3, <1>8, RowOpened, AnswersOnly DEF Answers
<1>9. ASSUME operation[o].state = "ABSENT", OpenOperation(o, by, "EXECUTING"),
             handling' = [handling EXCEPT ![q] = n]
      PROVE  BillableInv'
  <2>1. PICK row \in OperationRows : /\ operation' = [operation EXCEPT ![o] = row]
                                     /\ operation'[o] = row /\ row.state = "EXECUTING" /\ row.charged = 0
    BY <1>3, <1>9, RowOpened
  <2>2. RowFollows(n, operation'[n.op])
    BY <1>1, <1>2, <2>1 DEF RowFollows
  <2>3. n.at <= instant /\ n.pc \notin {"new", "answered"}
    BY <1>1, <1>2
  <2>4. \E r \in OperationRows :
          /\ n.op # Absent /\ operation' = [operation EXCEPT ![n.op] = r]
          /\ n.op = handling[q].op \/ operation[n.op].state = "ABSENT"
    BY <1>1, <1>9, <2>1
  <2> QED BY <1>1, <1>2, <1>9, <2>2, <2>3, <2>4, GoesOn
<1> QED BY <1>4, <1>5, <1>6, <1>7, <1>8, <1>9

(* markInDoubt, of a row that is being executed: whether it succeeds or    *)
(* not, the row is open and nothing is charged.                            *)
LEMMA Doubted ==
  ASSUME BillableInv, NEW o \in Operations, Doubt(o),
         operation[o].state \in {"EXECUTING", "IN_DOUBT"}, operation[o].charged = 0
  PROVE  /\ UNCHANGED operation \/ \E row \in OperationRows : operation' = [operation EXCEPT ![o] = row]
         /\ operation'[o].state \in {"EXECUTING", "IN_DOUBT"} /\ operation'[o].charged = 0
<1>1. CASE Close(o, "IN_DOUBT", 0)
  <2>1. PICK row \in OperationRows : /\ operation' = [operation EXCEPT ![o] = row]
                                     /\ operation'[o] = row /\ row.state = "IN_DOUBT" /\ row.charged = 0
    BY <1>1, RowClosed
  <2> QED BY <2>1
<1>2. CASE UNCHANGED operation
  BY <1>2
<1> QED BY <1>1, <1>2 DEF Doubt

(* What the invariant says of a request that is being served.              *)
LEMMA Serving ==
  ASSUME BillableInv, NEW q \in Requests
  PROVE  /\ handling[q] \in Handlings /\ handling[q].op \in Operations \cup {Absent}
         /\ RowFollows(handling[q], operation[handling[q].op])
         /\ handling[q].at <= instant /\ instant \in Nat /\ metered \in BOOLEAN
BY DEF BillableInv, CacheInv, RowsInv, Fits, Handlings

(* What a fetch of the current provider state stores is true of it.        *)
LEMMA StoredTrue ==
  ASSUME BillableInv, NEW q \in Requests, Attached(q), NEW stored \in Stored(q)
  PROVE  /\ stored \in [Urls -> CacheEntries \cup {Absent}]
         /\ \A u \in Urls : EntryTrue(stored[u])
<1> DEFINE held == {u \in Urls : cache[u] # Absent}
           oldest == {u \in held : \A v \in held : cache[u].at <= cache[v].at}
           out == IF Cardinality(held) >= MaxEntries THEN {{u} : u \in oldest} ELSE {{}}
<1>1. PICK S \in out, t \in handling[q].at..instant :
        stored = [u \in Urls |-> IF u = handling[q].url THEN Entry(q, t)
                                 ELSE IF u \in S THEN Absent ELSE cache[u]]
  BY DEF Stored
<1>2. /\ Entry(q, t) \in CacheEntries /\ Entry(q, t).epoch = epoch
      /\ Entry(q, t).at <= Entry(q, t).sampled /\ Entry(q, t).sampled <= instant
  BY Serving DEF Entry, CacheEntries, Handlings, Attached
<1> QED BY <1>1, <1>2 DEF BillableInv, CacheInv, EntryTrue

(* The upstream answers: the entry is of the epoch the fetch began in.     *)
LEMMA UpstreamAnswersKeeps ==
  ASSUME BillableInv, NEW q \in Requests, NEW outcome \in Outcomes, UpstreamAnswers(q, outcome)
  PROVE  BillableInv'
<1> DEFINE up == IF FallsBack(q, outcome) THEN "stale" ELSE outcome
           c == [handling[q] EXCEPT !.upstream = up]
           n == [c EXCEPT !.pc = "settling"]
<1>1. /\ handling[q].pc = "fetching" /\ UNCHANGED <<metered, instant, epoch, operation>>
      /\ metered \in BOOLEAN /\ instant \in Nat /\ handling[q] \in Handlings
  BY Serving DEF UpstreamAnswers, Standing
<1>2. up \in Outcomes \cup {"stale"} /\ up # "none"
  BY DEF Outcomes
<1>3. /\ c.op = handling[q].op /\ n.op = handling[q].op /\ n.at = handling[q].at
      /\ n \in Handlings /\ n.pc = "settling" /\ n.upstream = up
      /\ n.answer = handling[q].answer /\ n.age = handling[q].age
      /\ c.upstream = up
  BY <1>1, <1>2 DEF Handlings
<1>4. /\ cache' \in [Urls -> CacheEntries \cup {Absent}]
      /\ \A u \in Urls : EntryTrue(cache'[u])
  <2>1. CASE UNCHANGED cache
    BY <2>1 DEF BillableInv, CacheInv
  <2>2. CASE Attached(q) /\ cache' \in Stored(q)
    BY <2>2, StoredTrue
  <2> QED BY <2>1, <2>2 DEF UpstreamAnswers
<1>5. IF metered THEN handling' = [handling EXCEPT ![q] = n]
      ELSE Reply(q, c, CASE up = "stale" -> "stale"
                         [] up \in {"failed", "limited"} -> "error"
                         [] up = "corrupt" -> "corrupt"
                         [] OTHER -> "fresh")
  BY <1>3 DEF UpstreamAnswers
<1> HIDE DEF c, n, up
<1>6. CASE metered
  <2>1. handling' = [handling EXCEPT ![q] = n]
    BY <1>5, <1>6
  <2>2. n.op # Absent /\ n.at <= instant /\ RowFollows(n, operation[n.op])
    BY <1>1, <1>2, <1>3, <1>6, Serving DEF RowFollows
  <2>3. CacheInv'
    BY <1>1, <1>3, <1>4, <2>1, <2>2, Serving DEF BillableInv, CacheInv, EntryTrue
  <2>4. Fits(n, operation'[n.op])
    BY <1>1, <1>3, <2>2 DEF Fits, RowFollows, AnswerFits
  <2>5. RowsInv'
    BY <1>1, <1>3, <2>1, <2>4, RequestMoves DEF BillableInv, CacheInv
  <2> QED BY <2>3, <2>5 DEF BillableInv
<1>7. CASE ~metered
  <2>1. PICK answer \in {"stale", "error", "corrupt", "fresh"} : Reply(q, c, answer)
    BY <1>5, <1>7
  <2>2. c.op = Absent
    BY <1>1, <1>3, <1>7, Serving DEF RowFollows
  <2> DEFINE h == Answering(c, answer)
  <2>3. handling' = [handling EXCEPT ![q] = h]
    BY <2>1 DEF Reply, Answering
  <2>4. h \in Handlings /\ h.at = 0 /\ h.answer # "hit" /\ h.op = Absent /\ h.pc = "answered"
    BY <2>2, AnsweringFields DEF Answers
  <2> HIDE DEF h
  <2>5. CacheInv'
    BY <1>1, <1>4, <2>3, <2>4 DEF BillableInv, CacheInv, EntryTrue
  <2>6. Fits(h, operation'[h.op])
    BY <2>4 DEF Fits, RowFollows, AnswerFits
  <2>7. RowsInv'
    BY <1>1, <2>3, <2>4, <2>6, RequestMoves DEF BillableInv, CacheInv
  <2> QED BY <2>5, <2>7 DEF BillableInv
<1> QED BY <1>1, <1>6, <1>7

(* The fetch fails with no answer to settle.                               *)
LEMMA UpstreamFailsKeeps ==
  ASSUME BillableInv, NEW q \in Requests, UpstreamFails(q)
  PROVE  BillableInv'
<1>1. /\ handling[q].pc = "fetching" /\ UNCHANGED <<metered, instant, epoch, cache>>
      /\ handling[q].op \in Operations \cup {Absent} /\ metered \in BOOLEAN
      /\ RowFollows(handling[q], operation[handling[q].op])
  BY Serving DEF UpstreamFails, Standing, providerVars
<1>2. CASE metered
  <2>1. Doubt(handling[q].op) /\ Reply(q, handling[q], "ambiguous")
    BY <1>2 DEF UpstreamFails
  <2>2. /\ handling[q].op # Absent /\ operation[handling[q].op].state \in {"EXECUTING", "IN_DOUBT"}
        /\ operation[handling[q].op].charged = 0
    BY <1>1, <1>2 DEF RowFollows
  <2>3. /\ \/ UNCHANGED operation
           \/ \E row \in OperationRows : operation' = [operation EXCEPT ![handling[q].op] = row]
        /\ operation'[handling[q].op].state \in {"EXECUTING", "IN_DOUBT"}
        /\ operation'[handling[q].op].charged = 0
    BY <1>1, <2>1, <2>2, Doubted
  <2> QED BY <1>1, <2>1, <2>2, <2>3, AnswersOnly DEF Answers
<1>3. CASE ~metered
  <2>1. UNCHANGED operation /\ Reply(q, handling[q], "error")
    BY <1>3 DEF UpstreamFails
  <2>2. handling[q].op = Absent
    BY <1>1, <1>3 DEF RowFollows
  <2> QED BY <1>1, <2>1, <2>2, AnswersOnly DEF Answers
<1> QED BY <1>1, <1>2, <1>3

(* The row is settled or refunded by what came from upstream, or the call  *)
(* fails.                                                                  *)
LEMMA SettleKeeps ==
  ASSUME BillableInv, NEW q \in Requests, Settle(q) \/ SettleFails(q)
  PROVE  BillableInv'
<1> DEFINE o == handling[q].op
           s == Settlement(handling[q].upstream)
<1>1. /\ handling[q].pc = "settling" /\ UNCHANGED <<metered, instant, epoch, cache>>
      /\ o \in Operations /\ o # Absent /\ operation[o].state \in {"EXECUTING", "IN_DOUBT"}
      /\ operation[o].charged = 0
      /\ handling[q].upstream \in Outcomes \cup {"stale"}
  BY Serving DEF Settle, SettleFails, Standing, providerVars, RowFollows, Handlings
<1>2. CASE Settle(q)
  <2>1. /\ s.state \in {"REFUNDED", "SETTLED"} /\ s.charged \in {0, 1}
        /\ s.answer \in {"oversized", "stale", "error", "corrupt", "fresh"}
        /\ s.answer = "fresh" <=> s.charged = 1
        /\ s.answer \in {"error", "corrupt"} => s.state = "SETTLED"
        /\ s.answer \in {"stale", "oversized"} => s.state = "REFUNDED"
    BY <1>1 DEF Settlement, Outcomes
  <2>2. Close(o, s.state, s.charged) /\ Reply(q, handling[q], s.answer)
    BY <1>2 DEF Settle
  <2> HIDE DEF s
  <2>3. PICK row \in OperationRows : /\ operation' = [operation EXCEPT ![o] = row]
                                     /\ operation'[o] = row /\ row.state = s.state /\ row.charged = s.charged
    BY <1>1, <2>1, <2>2, RowClosed
  <2> QED BY <1>1, <2>1, <2>2, <2>3, AnswersOnly DEF Answers
<1>3. CASE SettleFails(q)
  <2>1. Doubt(o) /\ \E a \in {"oversized", "ambiguous"} : Reply(q, handling[q], a)
    BY <1>3 DEF SettleFails
  <2>2. /\ UNCHANGED operation \/ \E row \in OperationRows : operation' = [operation EXCEPT ![o] = row]
        /\ operation'[o].state \in {"EXECUTING", "IN_DOUBT"} /\ operation'[o].charged = 0
    BY <1>1, <2>1, Doubted
  <2> QED BY <1>1, <2>1, <2>2, AnswersOnly DEF Answers
<1> QED BY <1>2, <1>3

-----------------------------------------------------------------------------
(* The seed route reserves its row.                                        *)
LEMMA SeedReservesKeeps ==
  ASSUME BillableInv, NEW q \in Requests, NEW o \in Operations, SeedReserves(q, o)
  PROVE  BillableInv'
<1> DEFINE c == [Unserved EXCEPT !.op = o, !.at = instant]
           nobodys == [c EXCEPT !.op = Absent]
           by == <<"seed", o>>
           n == [c EXCEPT !.pc = "approval"]
<1>1. UNCHANGED <<metered, instant, epoch, cache>> /\ instant \in Nat /\ o # Absent
  BY RoutesAssumption DEF SeedReserves, providerVars, BillableInv, CacheInv
<1>2. /\ c.op = o /\ nobodys.op = Absent
      /\ n \in Handlings /\ n.op = o /\ n.at = instant /\ n.pc = "approval" /\ n.answer = "none"
  BY <1>1 DEF Unserved, Handlings, Answers, Outcomes
<1>3. by \in ({"feed"} \X Urls) \cup ({"seed"} \X Operations)
  OBVIOUS
<1>4. \/ UNCHANGED operation /\ \E a \in {"unavailable", "refused", "replayed"} : Reply(q, nobodys, a)
      \/ /\ operation[o].state = "ABSENT"
         /\ \/ OpenOperation(o, by, "DENIED") /\ Reply(q, c, "refused")
            \/ OpenOperation(o, by, "RESERVED") /\ handling' = [handling EXCEPT ![q] = n]
  BY DEF SeedReserves, Taken
<1> HIDE DEF c, nobodys, by, n
<1>5. ASSUME UNCHANGED operation, NEW a \in {"unavailable", "refused", "replayed"}, Reply(q, nobodys, a)
      PROVE  BillableInv'
  BY <1>1, <1>2, <1>5, AnswersOnly DEF Answers
<1>6. ASSUME operation[o].state = "ABSENT", OpenOperation(o, by, "DENIED"), Reply(q, c, "refused")
      PROVE  BillableInv'
  BY <1>1, <1>2, <1>3, <1>6, RowOpened, AnswersOnly DEF Answers
<1>7. ASSUME operation[o].state = "ABSENT", OpenOperation(o, by, "RESERVED"),
             handling' = [handling EXCEPT ![q] = n]
      PROVE  BillableInv'
  <2>1. PICK row \in OperationRows : /\ operation' = [operation EXCEPT ![o] = row]
                                     /\ operation'[o] = row /\ row.state = "RESERVED" /\ row.charged = 0
    BY <1>3, <1>7, RowOpened
  <2>2. RowFollows(n, operation'[n.op])
    BY <1>1, <1>2, <2>1 DEF RowFollows
  <2>3. n.at <= instant /\ n.pc \notin {"new", "answered"}
    BY <1>1, <1>2
  <2>4. \E r \in OperationRows :
          /\ n.op # Absent /\ operation' = [operation EXCEPT ![n.op] = r]
          /\ n.op = handling[q].op \/ operation[n.op].state = "ABSENT"
    BY <1>1, <1>2, <1>7, <2>1
  <2> QED BY <1>1, <1>2, <1>7, <2>2, <2>3, <2>4, GoesOn
<1> QED BY <1>4, <1>5, <1>6, <1>7

(* Refunding what was not dispatched.                                      *)
LEMMA RefundKeeps ==
  ASSUME BillableInv, NEW q \in Requests, handling[q].pc = "approval", RefundUndispatched(q),
         UNCHANGED <<metered, instant, epoch, cache>>
  PROVE  BillableInv'
<1> DEFINE o == handling[q].op
<1>1. /\ o \in Operations /\ o # Absent /\ operation[o].state \in {"RESERVED", "REFUNDED"}
      /\ operation[o].charged = 0
  BY Serving DEF RowFollows
<1>2. CASE Close(o, "REFUNDED", 0) /\ Reply(q, handling[q], "refused")
  <2>1. PICK row \in OperationRows : /\ operation' = [operation EXCEPT ![o] = row]
                                     /\ operation'[o] = row /\ row.state = "REFUNDED" /\ row.charged = 0
    BY <1>1, <1>2, RowClosed
  <2>2. operation'[o].charged = 0 /\ operation'[o].state = "REFUNDED" /\ "refused" \in Answers \ {"hit", "none"}
    BY <2>1 DEF Answers
  <2>3. o # Absent /\ operation' = [operation EXCEPT ![o] = row] /\ o = handling[q].op
    BY <1>1, <2>1
  <2>4. handling[q].op \in Operations \cup {Absent} /\ Reply(q, handling[q], "refused")
    BY <1>1, <1>2
  <2>5. \E r \in OperationRows :
          /\ handling[q].op # Absent /\ operation' = [operation EXCEPT ![handling[q].op] = r]
          /\ handling[q].op = handling[q].op \/ operation[handling[q].op].state = "ABSENT"
    BY <2>3
  <2>6. /\ operation'[handling[q].op].state = "REFUNDED"
        /\ "refused" = "fresh" <=> operation'[handling[q].op].charged = 1
    BY <2>2
  <2> QED BY <2>2, <2>4, <2>5, <2>6, AnswersOnly
<1>3. CASE UNCHANGED operation /\ Reply(q, handling[q], "unavailable")
  BY <1>1, <1>3, AnswersOnly DEF Answers
<1> QED BY <1>2, <1>3 DEF RefundUndispatched

(* The seed reload is approved, and its row started, or refused.           *)
LEMMA SeedApprovedKeeps ==
  ASSUME BillableInv, NEW q \in Requests, SeedApproved(q) \/ SeedRefused(q)
  PROVE  BillableInv'
<1> DEFINE o == handling[q].op
           n == [handling[q] EXCEPT !.pc = "reloading"]
<1>1. handling[q].pc = "approval" /\ UNCHANGED <<metered, instant, epoch, cache>>
  BY DEF SeedApproved, SeedRefused, Standing, providerVars
<1>2. CASE RefundUndispatched(q)
  BY <1>1, <1>2, RefundKeeps
<1>3. CASE Close(o, "EXECUTING", 0) /\ handling' = [handling EXCEPT ![q].pc = "reloading"]
  <2>1. o \in Operations /\ o # Absent
    BY <1>1, Serving DEF RowFollows
  <2>2. PICK row \in OperationRows : /\ operation' = [operation EXCEPT ![o] = row]
                                     /\ operation'[o] = row /\ row.state = "EXECUTING" /\ row.charged = 0
    BY <1>3, <2>1, RowClosed
  <2>3. /\ n \in Handlings /\ n.op = o /\ n.at = handling[q].at /\ n.pc = "reloading"
        /\ n.answer = handling[q].answer /\ n.age = handling[q].age
        /\ handling' = [handling EXCEPT ![q] = n]
    BY <1>3, Serving DEF Handlings, BillableInv, CacheInv
  <2> HIDE DEF n
  <2>4. Fits(n, operation'[n.op])
    BY <2>1, <2>2, <2>3 DEF Fits, RowFollows, AnswerFits
  <2>5. RowsInv'
    BY <1>1, <2>1, <2>2, <2>3, <2>4, RequestMoves DEF BillableInv, CacheInv
  <2>6. CacheInv'
    BY <1>1, <2>3, CacheKept DEF BillableInv, CacheInv
  <2> QED BY <2>5, <2>6 DEF BillableInv
<1> QED BY <1>2, <1>3 DEF SeedApproved, SeedRefused

(* The seed is reloaded and its row settled.                               *)
LEMMA SeedReloadsKeeps ==
  ASSUME BillableInv, NEW q \in Requests, SeedReloads(q)
  PROVE  BillableInv'
<1> DEFINE o == handling[q].op
<1>1. /\ handling[q].pc = "reloading" /\ UNCHANGED <<metered, instant, epoch, cache>>
      /\ o \in Operations /\ o # Absent /\ operation[o].state \in {"EXECUTING", "IN_DOUBT"}
      /\ operation[o].charged = 0
  BY Serving DEF SeedReloads, Standing, providerVars, RowFollows
<1>2. CASE Close(o, "SETTLED", 1) /\ Reply(q, handling[q], "fresh")
  <2>1. PICK row \in OperationRows : /\ operation' = [operation EXCEPT ![o] = row]
                                     /\ operation'[o] = row /\ row.state = "SETTLED" /\ row.charged = 1
    BY <1>1, <1>2, RowClosed
  <2>2. operation'[o].charged = 1 /\ operation'[o].state = "SETTLED" /\ "fresh" \in Answers \ {"hit", "none"}
    BY <2>1 DEF Answers
  <2> QED BY <1>1, <1>2, <2>1, <2>2, AnswersOnly
<1>3. CASE Doubt(o) /\ Reply(q, handling[q], "ambiguous")
  <2>1. /\ UNCHANGED operation \/ \E row \in OperationRows : operation' = [operation EXCEPT ![o] = row]
        /\ operation'[o].state \in {"EXECUTING", "IN_DOUBT"} /\ operation'[o].charged = 0
    BY <1>1, <1>3, Doubted
  <2> QED BY <1>1, <1>3, <2>1, AnswersOnly DEF Answers
<1> QED BY <1>2, <1>3 DEF SeedReloads

-----------------------------------------------------------------------------
(* The periodic recovery of all that is overdue.                           *)
LEMMA RecoverKeeps == BillableInv /\ Recover => BillableInv'
<1> SUFFICES ASSUME BillableInv, Recover PROVE BillableInv'
  OBVIOUS
<1>1. UNCHANGED <<metered, instant, epoch, cache, handling>>
  BY DEF Recover, providerVars
<1>2. CacheInv'
  BY <1>1 DEF BillableInv, CacheInv, EntryTrue
<1>3. ASSUME NEW o \in Operations
      PROVE  /\ operation'[o] \in OperationRows /\ operation'[o].charged = operation[o].charged
             /\ \/ operation'[o].state = operation[o].state
                \/ operation[o].state = "RESERVED" /\ operation'[o].state = "REFUNDED"
                \/ operation[o].state = "EXECUTING" /\ operation'[o].state = "IN_DOUBT"
  BY DEF Recover, BillableInv, RowsInv, OperationRows
<1>4. operation' \in [Operations -> OperationRows]
  BY <1>3 DEF Recover
<1>5. ASSUME NEW q \in Requests PROVE Fits(handling[q], operation[handling[q].op])'
  BY <1>1, <1>3, Serving DEF BillableInv, RowsInv, Fits, RowFollows, AnswerFits
<1>6. RowsInv'
  BY <1>1, <1>4, <1>5 DEF BillableInv, RowsInv, RowsOwned
<1> QED BY <1>2, <1>6 DEF BillableInv

(* The process dies: only the ledger is durable.                           *)
LEMMA RestartKeeps == BillableInv /\ Restart => BillableInv'
<1> SUFFICES ASSUME BillableInv, Restart PROVE BillableInv'
  OBVIOUS
<1>1. /\ UNCHANGED <<metered, instant, operation>> /\ epoch' \in Nat
      /\ cache' = [u \in Urls |-> Absent]
  <2>1. epoch \in Nat /\ epoch' = epoch + 1
    BY DEF Restart, BillableInv, CacheInv
  <2>2. epoch' \in Nat
    BY <2>1
  <2>3. UNCHANGED <<metered, instant, operation>> /\ cache' = [u \in Urls |-> Absent]
    BY DEF Restart
  <2> QED BY <2>2, <2>3
<1>2. ASSUME NEW q \in Requests
      PROVE  \/ handling'[q] = handling[q]
             \/ /\ handling[q].pc \notin {"new", "answered"}
                /\ handling'[q] \in Handlings /\ handling'[q].pc = "answered"
                /\ handling'[q].answer = "lost" /\ handling'[q].op = handling[q].op /\ handling'[q].at = 0
  BY <1>1, Serving DEF Restart, Unserved, Handlings, Answers, Outcomes
<1>3. CacheInv'
  <2>1. ASSUME NEW q \in Requests
        PROVE  /\ handling'[q] \in Handlings /\ handling'[q].at <= instant
               /\ handling'[q].answer = "hit" => handling'[q].age < Ttl
    BY <1>2, Serving DEF BillableInv, CacheInv
  <2>2. handling' \in [Requests -> Handlings]
    BY <2>1 DEF Restart
  <2>3. cache' \in [Urls -> CacheEntries \cup {Absent}] /\ \A u \in Urls : EntryTrue(cache[u])'
    BY <1>1 DEF EntryTrue
  <2> QED BY <1>1, <2>1, <2>2, <2>3 DEF BillableInv, CacheInv
<1>4. ASSUME NEW q \in Requests PROVE Fits(handling[q], operation[handling[q].op])' /\ handling'[q].op = handling[q].op
  <2>1. CASE handling'[q] = handling[q]
    BY <1>1, <2>1 DEF BillableInv, RowsInv, Fits, RowFollows, AnswerFits
  <2>2. CASE handling'[q] # handling[q]
    <3>1. /\ handling[q].pc \in {"fetching", "settling", "approval", "reloading"}
          /\ handling'[q].pc = "answered" /\ handling'[q].answer = "lost" /\ handling'[q].op = handling[q].op
      BY <1>2, <2>2, Serving DEF Handlings
    <3>2. Fits(handling'[q], operation[handling[q].op])
      BY <3>1, Serving DEF Fits, RowFollows, AnswerFits
    <3> QED BY <1>1, <3>1, <3>2 DEF Fits, RowFollows, AnswerFits
  <2> QED BY <2>1, <2>2
<1>5. RowsInv'
  BY <1>1, <1>4 DEF BillableInv, RowsInv, RowsOwned
<1> QED BY <1>3, <1>5 DEF BillableInv

(* The provider is invalidated, or time passes.                            *)
LEMMA ProviderKeeps == BillableInv /\ (Invalidate \/ Elapse \/ UNCHANGED billableVars) => BillableInv'
<1> SUFFICES ASSUME BillableInv, Invalidate \/ Elapse \/ UNCHANGED billableVars PROVE BillableInv'
  OBVIOUS
<1>1. UNCHANGED <<metered, operation, handling>> /\ instant' \in {instant, instant + 1} /\ epoch' \in Nat
  BY DEF Invalidate, Elapse, billableVars, providerVars, BillableInv, CacheInv
<1>2. RowsInv'
  BY <1>1 DEF BillableInv, RowsInv, Fits, RowFollows, AnswerFits, RowsOwned
<1>3. \/ cache' = [u \in Urls |-> Absent]
      \/ UNCHANGED <<cache, epoch>>
  BY DEF Invalidate, Elapse, billableVars, providerVars
<1>4. CacheInv'
  <2>1. metered' \in BOOLEAN /\ instant \in Nat /\ instant' \in Nat /\ instant <= instant'
    BY <1>1 DEF BillableInv, CacheInv
  <2>2. ASSUME NEW u \in Urls
        PROVE  cache'[u] \in CacheEntries \cup {Absent} /\ EntryTrue(cache[u])'
    BY <1>3, <2>1 DEF BillableInv, CacheInv, EntryTrue, CacheEntries
  <2>3. cache' \in [Urls -> CacheEntries \cup {Absent}]
    BY <1>3 DEF BillableInv, CacheInv
  <2>4. ASSUME NEW q \in Requests
        PROVE  handling'[q].at <= instant' /\ (handling'[q].answer = "hit" => handling'[q].age < Ttl)
    BY <1>1, <2>1, Serving DEF BillableInv, CacheInv, Handlings
  <2> QED BY <1>1, <2>1, <2>2, <2>3, <2>4 DEF BillableInv, CacheInv
<1> QED BY <1>2, <1>4 DEF BillableInv

(* Every step preserves BillableInv.                                       *)
LEMMA BillableStep == BillableInv /\ [BillableNext]_billableVars => BillableInv'
<1> SUFFICES ASSUME BillableInv, [BillableNext]_billableVars PROVE BillableInv'
  OBVIOUS
<1>1. ASSUME NEW q \in Requests, NEW u \in Urls, FeedRefused(q, u) PROVE BillableInv'
  <2>1. Absent \in Operations \cup {Absent}
    OBVIOUS
  <2>2. Captured(u, Absent).op = Absent
    BY <2>1, CapturedFields
  <2>3. Reply(q, Captured(u, Absent), "refused") /\ UNCHANGED <<metered, instant, epoch, cache, operation>>
    BY <1>1 DEF FeedRefused, providerVars
  <2> QED BY <2>2, <2>3, AnswersOnly DEF Answers
<1>2. ASSUME NEW q \in Requests, NEW u \in Urls, FetchUnmetered(q, u) PROVE BillableInv'
  <2> DEFINE n == [Captured(u, Absent) EXCEPT !.pc = "fetching"]
  <2>1. Absent \in Operations \cup {Absent}
    OBVIOUS
  <2>2. /\ n \in Handlings /\ n.op = Absent /\ n.at = instant /\ n.answer = "none" /\ n.pc = "fetching"
    BY <2>1, CapturedFields DEF Handlings
  <2>3. /\ handling' = [handling EXCEPT ![q] = n] /\ ~metered /\ instant \in Nat
        /\ UNCHANGED <<metered, instant, epoch, cache, operation>>
    BY <1>2, Serving DEF FetchUnmetered, providerVars
  <2> HIDE DEF n
  <2>4. RowFollows(n, operation'[n.op]) /\ n.at <= instant
    BY <2>2, <2>3 DEF RowFollows
  <2> QED BY <2>2, <2>3, <2>4, GoesOn
<1> QED BY <1>1, <1>2, FeedFromCacheKeeps, FetchMeteredKeeps, UpstreamAnswersKeeps, UpstreamFailsKeeps, SettleKeeps,
           SeedReservesKeeps, SeedApprovedKeeps, SeedReloadsKeeps, RecoverKeeps, RestartKeeps, ProviderKeeps
        DEF BillableNext, FeedStep, SeedStep

(* Cached rows were fetched since the provider was last invalidated, and a *)
(* hit was current upstream less than a TTL ago, though entries are stored *)
(* by slow answers (the now and the state the cache middleware captures).  *)
THEOREM CacheAlwaysTruthful == BillableSpec => []CacheTruthful
BY BillableInitial, BillableStep, BillableImplies, PTL DEF BillableSpec

(* An operation's money follows what its request was told, whatever        *)
(* recovery, restarts and failing ledger calls did meanwhile               *)
(* (settleBillableReservation, refundBeforeDispatch).                      *)
THEOREM ChargeAlwaysMatches == BillableSpec => []AnswerMatchesCharge
BY BillableInitial, BillableStep, BillableImplies, PTL DEF BillableSpec

-----------------------------------------------------------------------------
(* The bounds of the clock, of the provider's state and of the cache; a    *)
(* row has a client exactly if it is there; what a handler captured was an *)
(* entry of the cache.                                                     *)
HeldUrls == {u \in Urls : cache[u] # Absent}

ClockInv ==
  /\ instant \in 0..LastInstant /\ epoch \in 0..LastEpoch
  /\ cooldown \in 0..(LastInstant + RetryAfter)

RowsNamed == \A o \in Operations : operation[o].by = Absent <=> operation[o].state = "ABSENT"
CapturesTyped == \A q \in Requests : handling[q].cached \in EntryType

BillableShape ==
  /\ ClockInv
  /\ IsFiniteSet(HeldUrls) /\ Cardinality(HeldUrls) <= MaxEntries
  /\ RowsNamed /\ CapturesTyped

(* A cached entry is typed: its times have come.                           *)
LEMMA EntriesTyped ==
  ASSUME BillableInv, ClockInv, NEW u \in Urls
  PROVE  cache[u] \in EntryType
<1>1. cache[u] \in CacheEntries \cup {Absent} /\ EntryTrue(cache[u]) /\ instant \in 0..LastInstant /\ epoch \in 0..LastEpoch
  BY DEF BillableInv, CacheInv, ClockInv
<1>2. CASE cache[u] # Absent
  <2>1. PICK e \in CacheEntries : e = cache[u]
    BY <1>1, <1>2
  <2>2. e.at \in 0..LastInstant /\ e.sampled \in 0..LastInstant /\ e.epoch \in 0..LastEpoch
    BY <1>1, <1>2, <2>1, RoutesAssumption DEF EntryTrue, CacheEntries
  <2>3. e = [at |-> e.at, sampled |-> e.sampled, epoch |-> e.epoch]
    BY DEF CacheEntries
  <2> QED BY <2>1, <2>2, <2>3 DEF EntryType
<1> QED BY <1>2 DEF EntryType

(* Only an answer of the upstream, an invalidation, a restart and the clock *)
(* touch the provider's state or the clock.                                *)
LEMMA ProviderSteps ==
  ASSUME [BillableNext]_billableVars
  PROVE  \/ UNCHANGED <<instant, epoch, cooldown, cache>>
         \/ \E q \in Requests, outcome \in Outcomes : UpstreamAnswers(q, outcome)
         \/ Invalidate \/ Restart \/ Elapse
<1>1. ASSUME NEW q \in Requests, FeedStep(q)
      PROVE  UNCHANGED <<instant, providerVars>> \/ \E outcome \in Outcomes : UpstreamAnswers(q, outcome)
  <2>1. ASSUME NEW u \in Urls, FeedRefused(q, u) \/ FeedFromCache(q, u) \/ FetchUnmetered(q, u)
        PROVE  UNCHANGED <<instant, providerVars>>
    BY <2>1 DEF FeedRefused, FeedFromCache, FetchUnmetered
  <2>2. ASSUME NEW u \in Urls, NEW o \in Operations, FetchMetered(q, u, o) PROVE UNCHANGED <<instant, providerVars>>
    BY <2>2 DEF FetchMetered
  <2>3. UpstreamFails(q) => UNCHANGED <<instant, providerVars>>
    BY DEF UpstreamFails
  <2>4. Settle(q) \/ SettleFails(q) => UNCHANGED <<instant, providerVars>>
    BY DEF Settle, SettleFails
  <2> QED BY <1>1, <2>1, <2>2, <2>3, <2>4 DEF FeedStep
<1>2. ASSUME NEW q \in Requests, SeedStep(q) PROVE UNCHANGED <<instant, providerVars>>
  BY <1>2 DEF SeedStep, SeedReserves, SeedRefused, SeedApproved, SeedReloads
<1>3. Recover => UNCHANGED <<instant, providerVars>>
  BY DEF Recover
<1> QED BY <1>1, <1>2, <1>3 DEF BillableNext, billableVars, providerVars

(* Every step keeps the bounds of the clock and of the provider's state.   *)
LEMMA ClockKept ==
  ASSUME BillableInv, ClockInv, [BillableNext]_billableVars
  PROVE  ClockInv'
<1>1. instant \in 0..LastInstant /\ epoch \in 0..LastEpoch /\ LastInstant \in Nat /\ LastEpoch \in Nat /\ RetryAfter \in Nat
  BY RoutesAssumption DEF ClockInv
<1>2. CASE UNCHANGED <<instant, epoch, cooldown>>
  BY <1>2 DEF ClockInv
<1>3. ASSUME NEW q \in Requests, NEW outcome, UpstreamAnswers(q, outcome) PROVE ClockInv'
  <2>1. handling[q].at \in Nat /\ handling[q].at <= instant
    BY Serving DEF Handlings
  <2>2. UNCHANGED <<instant, epoch>> /\ cooldown' \in {cooldown, handling[q].at + RetryAfter}
    BY <1>3 DEF UpstreamAnswers
  <2> QED BY <1>1, <2>1, <2>2 DEF ClockInv
<1>4. CASE Invalidate \/ Restart
  <2>1. epoch' = epoch + 1 /\ epoch < LastEpoch /\ cooldown' = 0 /\ UNCHANGED instant
    BY <1>4 DEF Invalidate, Restart
  <2> QED BY <1>1, <2>1 DEF ClockInv
<1>5. CASE Elapse
  <2>1. instant < LastInstant /\ instant' = instant + 1 /\ UNCHANGED <<epoch, cooldown>>
    BY <1>5 DEF Elapse, providerVars
  <2> QED BY <1>1, <2>1 DEF ClockInv
<1> QED BY <1>2, <1>3, <1>4, <1>5, ProviderSteps

(* An entry is stored in place of one that goes, when there is no room.    *)
LEMMA HeldStored ==
  ASSUME IsFiniteSet(HeldUrls), Cardinality(HeldUrls) <= MaxEntries, NEW q \in Requests, cache' \in Stored(q)
  PROVE  IsFiniteSet(HeldUrls') /\ Cardinality(HeldUrls') <= MaxEntries
<1> DEFINE oldest == {u \in HeldUrls : \A v \in HeldUrls : cache[u].at <= cache[v].at}
           out == IF Cardinality(HeldUrls) >= MaxEntries THEN {{u} : u \in oldest} ELSE {{}}
<1>1. PICK S \in out, t \in handling[q].at..instant :
        cache' = [u \in Urls |-> IF u = handling[q].url THEN Entry(q, t)
                                 ELSE IF u \in S THEN Absent ELSE cache[u]]
  BY DEF Stored, HeldUrls
<1>2. HeldUrls' \subseteq (HeldUrls \ S) \cup {handling[q].url}
  BY <1>1 DEF HeldUrls
<1>3. Cardinality(HeldUrls) \in Nat /\ MaxEntries \in Nat \ {0} /\ IsFiniteSet(HeldUrls \ S)
  BY FS_CardinalityType, FS_Subset, RoutesAssumption
<1>4. Cardinality(HeldUrls \ S) + 1 <= MaxEntries
  <2>1. CASE Cardinality(HeldUrls) >= MaxEntries
    <3>1. PICK u \in HeldUrls : S = {u}
      BY <1>1, <2>1
    <3>2. Cardinality(HeldUrls \ {u}) = Cardinality(HeldUrls) - 1
      BY <3>1, FS_RemoveElement
    <3> QED BY <1>3, <3>1, <3>2
  <2>2. CASE ~(Cardinality(HeldUrls) >= MaxEntries)
    <3>1. HeldUrls \ S = HeldUrls
      BY <1>1, <2>2
    <3> QED BY <1>3, <2>2, <3>1
  <2> QED BY <2>1, <2>2
<1>5. /\ IsFiniteSet((HeldUrls \ S) \cup {handling[q].url})
      /\ Cardinality((HeldUrls \ S) \cup {handling[q].url}) <= Cardinality(HeldUrls \ S) + 1
  <2>1. CASE handling[q].url \in HeldUrls \ S
    <3>1. (HeldUrls \ S) \cup {handling[q].url} = HeldUrls \ S /\ Cardinality(HeldUrls \ S) \in Nat
      BY <1>3, <2>1, FS_CardinalityType
    <3> QED BY <1>3, <3>1
  <2>2. CASE handling[q].url \notin HeldUrls \ S
    <3>1. Cardinality(HeldUrls \ S) \in Nat
      BY <1>3, FS_CardinalityType
    <3>2. PICK T : T = HeldUrls \ S
      OBVIOUS
    <3>3. IsFiniteSet(T \cup {handling[q].url}) /\ Cardinality(T \cup {handling[q].url}) = Cardinality(T) + 1
      BY <1>3, <2>2, <3>2, FS_AddElement
    <3> QED BY <3>1, <3>2, <3>3
  <2> QED BY <2>1, <2>2
<1>6. /\ IsFiniteSet(HeldUrls') /\ Cardinality(HeldUrls') <= Cardinality((HeldUrls \ S) \cup {handling[q].url})
      /\ Cardinality(HeldUrls') \in Nat /\ Cardinality((HeldUrls \ S) \cup {handling[q].url}) \in Nat
  BY <1>2, <1>5, FS_Subset, FS_CardinalityType
<1>7. Cardinality(HeldUrls \ S) \in Nat
  BY <1>3, FS_CardinalityType
<1> QED BY <1>3, <1>4, <1>5, <1>6, <1>7

(* Every step keeps the cache within its size.                             *)
LEMMA HeldKept ==
  ASSUME BillableInv, IsFiniteSet(HeldUrls), Cardinality(HeldUrls) <= MaxEntries, [BillableNext]_billableVars
  PROVE  IsFiniteSet(HeldUrls') /\ Cardinality(HeldUrls') <= MaxEntries
<1>1. CASE UNCHANGED cache
  BY <1>1 DEF HeldUrls
<1>2. CASE cache' = [u \in Urls |-> Absent]
  <2>1. HeldUrls' = {}
    BY <1>2 DEF HeldUrls
  <2> QED BY <2>1, FS_EmptySet, RoutesAssumption
<1>3. ASSUME NEW q \in Requests, NEW outcome, UpstreamAnswers(q, outcome)
      PROVE  UNCHANGED cache \/ cache' \in Stored(q)
  BY <1>3 DEF UpstreamAnswers
<1>4. Invalidate \/ Restart => cache' = [u \in Urls |-> Absent]
  BY DEF Invalidate, Restart
<1>5. Elapse => UNCHANGED cache
  BY DEF Elapse, providerVars
<1> QED BY <1>1, <1>2, <1>3, <1>4, <1>5, HeldStored, ProviderSteps

(* A row is opened for a client and closed without forgetting it.          *)
LEMMA NamedOpened ==
  ASSUME BillableInv, RowsNamed, NEW o \in Operations,
         NEW by \in ({"feed"} \X Urls) \cup ({"seed"} \X Operations),
         NEW s \in {"RESERVED", "EXECUTING", "REFUNDED", "DENIED"}, OpenOperation(o, by, s)
  PROVE  RowsNamed'
<1>1. by # Absent
  BY RoutesAssumption
<1>2. operation \in [Operations -> OperationRows]
  BY DEF BillableInv, RowsInv
<1> QED BY <1>1, <1>2 DEF OpenOperation, RowsNamed

LEMMA NamedClosed ==
  ASSUME BillableInv, RowsNamed, NEW o, o \in Operations => operation[o].state # "ABSENT",
         NEW s \in {"SETTLED", "REFUNDED", "IN_DOUBT", "EXECUTING"}, NEW charged, Close(o, s, charged)
  PROVE  RowsNamed'
<1>1. operation \in [Operations -> OperationRows]
  BY DEF BillableInv, RowsInv
<1>2. ASSUME NEW p \in Operations PROVE operation'[p].by = Absent <=> operation'[p].state = "ABSENT"
  <2>1. CASE p = o
    <3>1. operation'[p] = [operation[p] EXCEPT !.state = s, !.charged = charged] /\ operation[p] \in OperationRows
      BY <1>1, <2>1 DEF Close
    <3>2. operation'[p].by = operation[p].by /\ operation'[p].state = s
      BY <3>1 DEF OperationRows
    <3> QED BY <2>1, <3>2 DEF RowsNamed
  <2>2. CASE p # o
    BY <1>1, <2>2 DEF Close, RowsNamed
  <2> QED BY <2>1, <2>2
<1> QED BY <1>2 DEF RowsNamed

LEMMA NamedDoubted ==
  ASSUME BillableInv, RowsNamed, NEW o, Doubt(o)
  PROVE  RowsNamed'
<1>1. CASE UNCHANGED operation
  BY <1>1 DEF RowsNamed
<1>2. CASE operation[o].state = "EXECUTING" /\ Close(o, "IN_DOUBT", 0)
  BY <1>2, NamedClosed
<1> QED BY <1>1, <1>2 DEF Doubt

LEMMA NamedRefunded ==
  ASSUME BillableInv, RowsNamed, NEW q, RefundUndispatched(q)
  PROVE  RowsNamed'
<1>1. CASE UNCHANGED operation
  BY <1>1 DEF RowsNamed
<1>2. CASE operation[handling[q].op].state \in {"RESERVED", "REFUNDED"} /\ Close(handling[q].op, "REFUNDED", 0)
  BY <1>2, NamedClosed
<1> QED BY <1>1, <1>2 DEF RefundUndispatched

LEMMA NamedRecovered ==
  ASSUME BillableInv, RowsNamed, Recover
  PROVE  RowsNamed'
<1>1. operation \in [Operations -> OperationRows]
  BY DEF BillableInv, RowsInv
<1>2. ASSUME NEW p \in Operations PROVE operation'[p].by = Absent <=> operation'[p].state = "ABSENT"
  <2>1. PICK w \in OperationRows : w = operation[p]
    BY <1>1
  <2>2. PICK s : s = IF w.state = "RESERVED" THEN "REFUNDED" ELSE IF w.state = "EXECUTING" THEN "IN_DOUBT" ELSE w.state
    OBVIOUS
  <2>3. operation'[p] = w \/ operation'[p] = [w EXCEPT !.state = s]
    BY <2>1, <2>2 DEF Recover
  <2>4. [w EXCEPT !.state = s].by = w.by /\ [w EXCEPT !.state = s].state = s
    BY DEF OperationRows
  <2>5. s = "ABSENT" <=> w.state = "ABSENT"
    BY <2>2
  <2> QED BY <2>1, <2>3, <2>4, <2>5 DEF RowsNamed
<1> QED BY <1>2 DEF RowsNamed

LEMMA NamedKept ==
  ASSUME BillableInv, RowsNamed, [BillableNext]_billableVars
  PROVE  RowsNamed'
<1>1. CASE UNCHANGED operation
  BY <1>1 DEF RowsNamed
<1>2. ASSUME NEW q \in Requests, NEW u \in Urls, NEW o \in Operations, FetchMetered(q, u, o) PROVE RowsNamed'
  <2>1. <<"feed", u>> \in ({"feed"} \X Urls) \cup ({"seed"} \X Operations)
    OBVIOUS
  <2> QED BY <1>1, <1>2, <2>1, NamedOpened DEF FetchMetered
<1>3. ASSUME NEW q \in Requests, NEW o \in Operations, SeedReserves(q, o) PROVE RowsNamed'
  <2>1. <<"seed", o>> \in ({"feed"} \X Urls) \cup ({"seed"} \X Operations)
    OBVIOUS
  <2> QED BY <1>1, <1>3, <2>1, NamedOpened DEF SeedReserves
<1>4. ASSUME NEW q \in Requests, UpstreamFails(q) \/ SettleFails(q) PROVE RowsNamed'
  BY <1>1, <1>4, NamedDoubted DEF UpstreamFails, SettleFails
<1>5. ASSUME NEW q \in Requests, Settle(q) PROVE RowsNamed'
  <2>1. PICK s, n : s \in {"SETTLED", "REFUNDED"} /\ Close(handling[q].op, s, n)
    BY <1>5 DEF Settle, Settlement
  <2> QED BY <1>5, <2>1, NamedClosed DEF Settle
<1>6. ASSUME NEW q \in Requests, SeedRefused(q) \/ SeedApproved(q) PROVE RowsNamed'
  BY <1>6, NamedRefunded, NamedClosed DEF SeedRefused, SeedApproved, Startable
<1>7. ASSUME NEW q \in Requests, SeedReloads(q) PROVE RowsNamed'
  BY <1>7, NamedDoubted, NamedClosed DEF SeedReloads
<1> QED BY <1>1, <1>2, <1>3, <1>4, <1>5, <1>6, <1>7, NamedRecovered DEF BillableNext, billableVars, FeedStep, SeedStep,
          FeedRefused, FeedFromCache, FetchUnmetered, UpstreamAnswers, Invalidate, Restart, Elapse

(* What a handler holds of the cache it held before, or reads it now.      *)
LEMMA CapturesReplied ==
  ASSUME BillableInv, CapturesTyped, NEW q \in Requests, NEW h, h.cached \in EntryType, handling' = [handling EXCEPT ![q] = h]
  PROVE  CapturesTyped'
<1>1. handling \in [Requests -> Handlings]
  BY DEF BillableInv, CacheInv
<1> QED BY <1>1 DEF CapturesTyped

LEMMA RepliesForget ==
  ASSUME BillableInv, CapturesTyped, NEW q \in Requests, NEW r, NEW reply, Reply(q, r, reply)
  PROVE  CapturesTyped'
<1>1. PICK h : h = [Unserved EXCEPT !.pc = "answered", !.answer = reply, !.op = r.op,
                      !.age = IF reply = "hit" THEN r.at - r.cached.sampled ELSE 0]
  OBVIOUS
<1>2. h.cached = Absent
  BY <1>1 DEF Unserved
<1>3. handling' = [handling EXCEPT ![q] = h]
  BY <1>1 DEF Reply
<1> QED BY <1>2, <1>3, CapturesReplied DEF EntryType

LEMMA CapturesKept ==
  ASSUME BillableInv, ClockInv, CapturesTyped, [BillableNext]_billableVars
  PROVE  CapturesTyped'
<1>0. handling \in [Requests -> Handlings]
  BY DEF BillableInv, CacheInv
<1>1. CASE UNCHANGED handling
  BY <1>1 DEF CapturesTyped
<1>2. ASSUME NEW q \in Requests, NEW u \in Urls, NEW o \in Operations \cup {Absent},
             handling' = [handling EXCEPT ![q] = [Captured(u, o) EXCEPT !.pc = "fetching"]]
      PROVE  CapturesTyped'
  <2>1. PICK h : h = [Captured(u, o) EXCEPT !.pc = "fetching"]
    OBVIOUS
  <2>2. h.cached = cache[u]
    BY <2>1 DEF Captured, Unserved
  <2> QED BY <1>2, <2>1, <2>2, EntriesTyped, CapturesReplied
<1>3. ASSUME NEW q \in Requests, NEW u \in Urls, FeedRefused(q, u) \/ FeedFromCache(q, u) PROVE CapturesTyped'
  BY <1>3, RepliesForget DEF FeedRefused, FeedFromCache
<1>4. ASSUME NEW q \in Requests, NEW u \in Urls, FetchUnmetered(q, u) PROVE CapturesTyped'
  BY <1>2, <1>4 DEF FetchUnmetered
<1>5. ASSUME NEW q \in Requests, NEW u \in Urls, NEW o \in Operations, FetchMetered(q, u, o) PROVE CapturesTyped'
  BY <1>2, <1>5, RepliesForget DEF FetchMetered
<1>6. ASSUME NEW q \in Requests, NEW outcome, UpstreamAnswers(q, outcome) PROVE CapturesTyped'
  <2>1. PICK up : up = IF FallsBack(q, outcome) THEN "stale" ELSE outcome
    OBVIOUS
  <2>2. PICK c : c = [handling[q] EXCEPT !.upstream = up]
    OBVIOUS
  <2>3. PICK n : n = [c EXCEPT !.pc = "settling"]
    OBVIOUS
  <2>4. n.cached \in EntryType
    BY <1>0, <2>2, <2>3 DEF Handlings, CapturesTyped
  <2>5. handling' = [handling EXCEPT ![q] = n] \/ \E reply : Reply(q, c, reply)
    BY <1>6, <2>1, <2>2, <2>3 DEF UpstreamAnswers
  <2> QED BY <2>4, <2>5, CapturesReplied, RepliesForget
<1>7. ASSUME NEW q \in Requests, UpstreamFails(q) \/ Settle(q) \/ SettleFails(q) \/ SeedRefused(q) \/ SeedReloads(q) PROVE CapturesTyped'
  BY <1>7, RepliesForget DEF UpstreamFails, Settle, SettleFails, SeedRefused, RefundUndispatched, SeedReloads
<1>8. ASSUME NEW q \in Requests, NEW o \in Operations, SeedReserves(q, o) PROVE CapturesTyped'
  <2>1. PICK c : c = [Unserved EXCEPT !.op = o, !.at = instant]
    OBVIOUS
  <2>2. PICK n : n = [c EXCEPT !.pc = "approval"]
    OBVIOUS
  <2>3. n.cached \in EntryType
    BY <2>1, <2>2 DEF Unserved, EntryType
  <2>4. handling' = [handling EXCEPT ![q] = n] \/ \E r, reply : Reply(q, r, reply)
    BY <1>8, <2>1, <2>2 DEF SeedReserves
  <2> QED BY <2>3, <2>4, CapturesReplied, RepliesForget
<1>9. ASSUME NEW q \in Requests, SeedApproved(q) PROVE CapturesTyped'
  <2>1. CASE handling' = [handling EXCEPT ![q].pc = "reloading"]
    BY <1>0, <2>1 DEF CapturesTyped, Handlings
  <2> QED BY <1>9, <2>1, RepliesForget DEF SeedApproved, RefundUndispatched
<1>10. ASSUME Restart PROVE CapturesTyped'
  <2>1. ASSUME NEW q \in Requests PROVE handling'[q].cached \in EntryType
    <3>1. handling'[q] = handling[q] \/ handling'[q].cached = Absent
      BY <1>10 DEF Restart, Unserved
    <3> QED BY <3>1 DEF CapturesTyped, EntryType
  <2> QED BY <2>1 DEF CapturesTyped
<1> QED BY <1>1, <1>3, <1>4, <1>5, <1>6, <1>7, <1>8, <1>9, <1>10 DEF BillableNext, billableVars, FeedStep, SeedStep,
          Recover, Invalidate, Elapse

(* The types of the billable routes, the size of the cache and the clients *)
(* of the rows among them.                                                 *)
THEOREM BillableTypeCorrect == BillableSpec => []BillableTypeOK
<1>1. BillableInit => BillableShape
  <2> SUFFICES ASSUME BillableInit PROVE BillableShape
    OBVIOUS
  <2>1. HeldUrls = {}
    BY DEF BillableInit, HeldUrls
  <2>2. IsFiniteSet(HeldUrls) /\ Cardinality(HeldUrls) <= MaxEntries
    BY <2>1, FS_EmptySet, RoutesAssumption
  <2>3. ClockInv
    BY RoutesAssumption DEF BillableInit, ClockInv
  <2> QED BY <2>2, <2>3 DEF BillableInit, BillableShape, RowsNamed, CapturesTyped, Unserved, EntryType
<1>2. BillableInv /\ BillableShape /\ [BillableNext]_billableVars => BillableShape'
  <2> SUFFICES ASSUME BillableInv, BillableShape, [BillableNext]_billableVars PROVE BillableShape'
    OBVIOUS
  <2>1. ClockInv /\ RowsNamed /\ CapturesTyped /\ IsFiniteSet(HeldUrls) /\ Cardinality(HeldUrls) <= MaxEntries
    BY DEF BillableShape
  <2>2. ClockInv' /\ RowsNamed' /\ CapturesTyped' /\ IsFiniteSet(HeldUrls') /\ Cardinality(HeldUrls') <= MaxEntries
    BY <2>1, ClockKept, HeldKept, NamedKept, CapturesKept
  <2> QED BY <2>2 DEF BillableShape
<1>3. BillableInv /\ BillableShape => BillableTypeOK
  <2> SUFFICES ASSUME BillableInv, BillableShape PROVE BillableTypeOK
    OBVIOUS
  <2>1. cache \in [Urls -> EntryType]
    BY EntriesTyped DEF BillableShape, BillableInv, CacheInv
  <2>2. \A o \in Operations : operation[o] \in OperationRows
    BY DEF BillableInv, RowsInv
  <2>3. \A q \in Requests : handling[q] \in Handlings
    BY DEF BillableInv, CacheInv
  <2>4. metered \in BOOLEAN
    BY DEF BillableInv, CacheInv
  <2> QED BY <2>1, <2>2, <2>3, <2>4 DEF BillableTypeOK, BillableShape, RowsNamed, CapturesTyped, ClockInv, HeldUrls, OperationRows, Handlings
<1> QED BY <1>1, <1>2, <1>3, BillableInitial, BillableStep, PTL DEF BillableSpec

=============================================================================
