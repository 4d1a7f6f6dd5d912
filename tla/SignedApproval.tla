--------------------------- MODULE SignedApproval ---------------------------
(***************************************************************************)
(* SignedApprovalGate (packages/governance/src/signedApproval.ts): a       *)
(* dangerous call asks a human for a signed approval and may go on once    *)
(* the gate has verified it.  Gates of several processes share the table   *)
(* of consumed nonces.  The approval service and the network between are   *)
(* external: what a human signed may come back late, to another gate, for  *)
(* another request, twice or never.                                        *)
(*                                                                         *)
(* A request's id, intent, nonce, scopes and expiry are one identity, so   *)
(* an envelope names the request it binds.  Signatures are unforgeable:    *)
(* the envelopes are those that holders of the keys signed.                *)
(***************************************************************************)
EXTENDS Integers, FiniteSets

CONSTANTS
  Gates,      \* concurrent calls of request
  Asked,      \* requests
  Keys,       \* keys that sign; an envelope names its key
  Trusted,    \* allowlisted key -> [status |-> ..., from |-> ..., until |-> ...]
  Unasked,    \* the request was not made yet
  Lifetime,   \* maxLifetimeMs, which is what the executor asks for
  Skew,       \* clockSkewMs
  LastTick,   \* bound on the clock
  MaxSigned   \* bound on the envelopes

ASSUME ApprovalAssumption ==
  /\ Lifetime \in Nat \ {0} /\ Skew \in Nat /\ LastTick \in Nat /\ MaxSigned \in Nat
  /\ Unasked \notin Int
  /\ DOMAIN Trusted \subseteq Keys
  /\ \A k \in DOMAIN Trusted :
       /\ Trusted[k].status \in {"active", "retired", "revoked"}
       /\ Trusted[k].from \in Nat /\ Trusted[k].until \in Nat

VARIABLES
  tick,       \* the verifiers' clock
  askedAt,    \* request -> its ts, or Unasked; it expires Lifetime later
  envelopes,  \* what was signed
  consumed,   \* governance_approval_nonces
  gate,       \* gate -> where its call of request stands
  grants      \* history: request -> how often it was approved

approvalVars == <<tick, askedAt, envelopes, consumed, gate, grants>>

Expiry(r) == askedAt[r] + Lifetime

Free == [pc |-> "idle"]

ApprovalInit ==
  /\ tick = 0
  /\ askedAt = [r \in Asked |-> Unasked]
  /\ envelopes = {}
  /\ consumed = {}
  /\ gate = [g \in Gates |-> Free]
  /\ grants = [r \in Asked |-> 0]

-----------------------------------------------------------------------------
(* request, up to the await of the provider: the clock is read once, here. *)
(* A request that was made before may be submitted again.                  *)
Request(g, r) ==
  /\ gate[g].pc # "deciding"
  /\ askedAt' = IF askedAt[r] = Unasked THEN [askedAt EXCEPT ![r] = tick] ELSE askedAt
  /\ gate' = [gate EXCEPT ![g] =
       IF tick >= askedAt'[r] + Lifetime
       THEN [pc |-> "expired", request |-> r]
       ELSE [pc |-> "deciding", request |-> r, now |-> tick]]
  /\ UNCHANGED <<tick, envelopes, consumed, grants>>

(* External: the holder of a key signs; its clock may be off by the skew.  *)
(* A person may sign long after being asked.                               *)
Sign(r, k, drift) ==
  /\ askedAt[r] # Unasked
  /\ Cardinality(envelopes) < MaxSigned
  /\ envelopes' = envelopes \cup {[request |-> r, key |-> k, decided |-> tick + drift,
                                   prompt |-> drift = 0 /\ tick <= askedAt[r] + Skew
                                              /\ tick < Expiry(r)]}
  /\ UNCHANGED <<tick, askedAt, consumed, gate, grants>>

(* validateSignedPayload, with the time that request read before it asked. *)
(* Mutant of Bound: the envelope may have been given for another request.  *)
BoundLoosely(e, r) == askedAt[e.request] + Lifetime >= Expiry(r)

Bound(e, r) == e.request = r

(* Mutant of Timely: the allowance for skew is forgotten.                  *)
TimelyStrictly(e, r, now) ==
  /\ e.decided >= askedAt[r]
  /\ e.decided < now
  /\ e.decided < Expiry(r) /\ now < Expiry(r)

Timely(e, r, now) ==
  /\ e.decided >= askedAt[r] - Skew
  /\ e.decided <= now + Skew
  /\ e.decided < Expiry(r) /\ now < Expiry(r)

(* getTrustedKey and validateTrustedKeyWindow                              *)
KeyAccepted(e) ==
  /\ e.key \in DOMAIN Trusted
  /\ Trusted[e.key].status # "revoked"
  /\ e.decided >= Trusted[e.key].from /\ e.decided < Trusted[e.key].until

(* consume: the nonce and the request id are taken in one transaction.     *)
(* Mutant of Unconsumed: the store is written without being looked up.          *)
FreshAlways(r) == r \in Asked

Unconsumed(r) == r \notin consumed

(* The provider answered with an envelope.                                 *)
Answered(g, e) ==
  LET r == gate[g].request
      verified == Bound(e, r) /\ Timely(e, r, gate[g].now) /\ KeyAccepted(e) /\ Unconsumed(r)
  IN /\ gate[g].pc = "deciding"
     /\ IF verified
        THEN /\ consumed' = consumed \cup {r}
             /\ grants' = [grants EXCEPT ![r] = @ + 1]
             /\ gate' = [gate EXCEPT ![g] = [pc |-> "approved", request |-> r, at |-> tick]]
        ELSE /\ gate' = [gate EXCEPT ![g] =
                  [pc |-> "refused", request |-> r,
                   honest |-> e.request = r /\ e.prompt /\ r \notin consumed /\ KeyAccepted(e)]]
             /\ UNCHANGED <<consumed, grants>>
     /\ UNCHANGED <<tick, askedAt, envelopes>>

(* The provider denies, fails or answers nonsense, or the nonce store is   *)
(* unavailable: nothing is approved.                                       *)
Denied(g) ==
  /\ gate[g].pc = "deciding"
  /\ gate' = [gate EXCEPT ![g] = [pc |-> "refused", request |-> @.request, honest |-> FALSE]]
  /\ UNCHANGED <<tick, askedAt, envelopes, consumed, grants>>

(* A process dies, possibly after it consumed the nonce and before its     *)
(* caller heard of the approval.                                           *)
GateCrash(g) ==
  /\ gate[g].pc # "idle"
  /\ gate' = [gate EXCEPT ![g] = Free]
  /\ UNCHANGED <<tick, askedAt, envelopes, consumed, grants>>

TimePasses ==
  /\ tick < LastTick
  /\ tick' = tick + 1
  /\ UNCHANGED <<askedAt, envelopes, consumed, gate, grants>>

ApprovalNext ==
  \/ \E g \in Gates, r \in Asked : Request(g, r)
  \/ \E r \in Asked, k \in Keys, drift \in -Skew .. Skew : Sign(r, k, drift)
  \/ \E g \in Gates, e \in envelopes : Answered(g, e)
  \/ \E g \in Gates : Denied(g)
  \/ \E g \in Gates : GateCrash(g)
  \/ TimePasses

ApprovalSpec == ApprovalInit /\ [][ApprovalNext]_approvalVars

-----------------------------------------------------------------------------
(* What is approved was asked and is consumed, and the clock is bounded.   *)
ApprovalTypeOK ==
  /\ tick \in 0 .. LastTick
  /\ askedAt \in [Asked -> 0 .. LastTick \cup {Unasked}]
  /\ consumed \subseteq {r \in Asked : askedAt[r] # Unasked}
  /\ \A e \in envelopes : e.request \in Asked /\ e.key \in Keys /\ e.decided \in Int
  /\ \A g \in Gates : gate[g].pc \in {"idle", "deciding", "expired", "approved", "refused"}
  /\ grants \in [Asked -> Nat]

(* A request is approved at most once, over all gates and processes, with  *)
(* replays, repeated requests and crashes (SqliteApprovalNonceStore).      *)
ApprovedOnce == \A r \in Asked : grants[r] <= 1

(* Whatever envelope comes back for whichever request, a call is approved  *)
(* only if the holder of an allowlisted, unrevoked key signed for this     *)
(* very request, within the key's window, between the request and its      *)
(* expiry up to the skew (validateSignedPayload, getTrustedKey).           *)
ApprovedMeansSigned ==
  \A g \in Gates : gate[g].pc = "approved" =>
    LET r == gate[g].request
    IN /\ r \in consumed
       /\ \E e \in envelopes :
            /\ e.request = r
            /\ e.key \in DOMAIN Trusted /\ Trusted[e.key].status \in {"active", "retired"}
            /\ e.decided \in askedAt[r] - Skew .. Expiry(r) - 1
            /\ e.decided \in Trusted[e.key].from .. Trusted[e.key].until - 1

(* A person with a right clock and a good key who signs within the skew of *)
(* the request is heeded if the answer gets back at all.  One who takes    *)
(* longer is refused: the gate compares with the time of the request.      *)
PromptDecisionHeeded ==
  \A g \in Gates : gate[g].pc = "refused" => ~gate[g].honest

(* "Expiry is strict: no grace is added after `expires_at`" (ADR 0042).    *)
ApprovedBeforeExpiry ==
  \A g \in Gates : gate[g].pc = "approved" => gate[g].at < Expiry(gate[g].request)

=============================================================================
