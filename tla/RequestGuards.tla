---------------------------- MODULE RequestGuards ----------------------------
(***************************************************************************)
(* What a request passes before its handler: the authentication and role   *)
(* policies of apps/server/src/middleware/opsAuth.ts over the identity     *)
(* contract (packages/contracts/src/identity.ts), the fixed-window limiter *)
(* of middleware/rateLimiter.ts, and behind them the voice session route   *)
(* and the collaboration upgrade that the limiter protects.                *)
(*                                                                         *)
(* A verified token is kept with its expiry and not verified again.  The   *)
(* verifier answers later; what it answers is judged by the second at      *)
(* which the request was read.                                             *)
(***************************************************************************)
EXTENDS Naturals, FiniteSets, Sequences, SequencesExt, Selections

CONSTANTS
  Setups,       \* the ways authentication may be configured
  Mounts,       \* the sets of paths that are asked for together
  Callers,      \* concurrent clients, each with one request at a time
  Tokens,       \* bearer tokens
  Claims,       \* token -> what it says and how long it holds
  MaxLifetime,  \* MAX_IDENTITY_ACCESS_TOKEN_SECONDS
  MaxTokens,    \* the cap of the token cache, 1000 in the code
  Limit,        \* requests of one window
  Window,       \* the length of a window
  MaxWindows,   \* DEFAULT_MAX_RATE_LIMITER_ENTRIES
  MaxAsks,      \* bound on the requests
  LastSecond    \* bound on the clock

Operators == {"operator", "tenant_admin", "platform_admin"}
Paths == {"voice", "upgrade", "ops", "admin", "layer-access"}

ASSUME GuardAssumption ==
  /\ {MaxLifetime, MaxAsks, LastSecond} \subseteq Nat
  /\ Setups \subseteq {"open", "required", "static", "verifier", "both"}
  /\ {MaxTokens, Limit, Window, MaxWindows} \subseteq Nat \ {0}
  /\ Mounts \subseteq SUBSET Paths
  /\ DOMAIN Claims = Tokens /\ {"none", "configured"} \cap Tokens = {}
  /\ \A t \in Tokens : {Claims[t].issued, Claims[t].from, Claims[t].until} \subseteq Nat

VARIABLES
  mounted,      \* the paths this behaviour asks for
  setup,        \* how authentication is configured
  second,       \* the clock
  known,        \* tokenCache: the tokens in the order they were set
  withdrawn,    \* tokens their issuer has revoked
  vetted,       \* history: tokens the verifier has vouched for
  request,      \* client -> its request
  asks,         \* how many requests there have been
  windows,      \* the limiter's windows in the order of its Map
  taken,        \* history: what the limiter has let through
  forgotten     \* history: clients whose window was dropped before its end

guardVars == <<mounted, setup, second, known, withdrawn, vetted, request, asks, windows, taken, forgotten>>

NoRequest == [at |-> "idle", path |-> "none", token |-> "none", tenant |-> "none",
              asked |-> 0, stage |-> 0, by |-> "none"]

GuardInit ==
  /\ setup \in Setups /\ mounted \in Mounts
  /\ second = 0
  /\ known = <<>> /\ windows = <<>> /\ taken = <<>> /\ forgotten = {}
  /\ withdrawn = {} /\ vetted = {}
  /\ request = [c \in Callers |-> NoRequest]
  /\ asks = 0

(* The policies a path is behind, in the order they are mounted.  The      *)
(* voice router's has no roles: any identity of the tenant will do.        *)
Policies(path) ==
  CASE path = "voice"        -> <<[roles |-> {}, anyRole |-> TRUE, seed |-> TRUE]>>
    [] path = "ops"          -> <<[roles |-> Operators, anyRole |-> FALSE, seed |-> FALSE]>>
    [] path = "layer-access" -> <<[roles |-> Operators, anyRole |-> FALSE, seed |-> TRUE]>>
    [] path = "admin"        -> <<[roles |-> Operators, anyRole |-> FALSE, seed |-> FALSE],
                                  [roles |-> {"platform_admin"}, anyRole |-> FALSE, seed |-> FALSE]>>
    [] OTHER                 -> <<>>

HasVerifier == setup \in {"verifier", "both"}
HasStatic == setup \in {"static", "both"}

(* The identity of the configured operations token.                        *)
LocalIdentity == [tenant |-> "local", role |-> "platform_admin"]

(* The schema an identity must satisfy whoever vouches for it.             *)
WellFormed(i) ==
  /\ i.issued < i.until /\ i.from < i.until
  /\ i.until - i.issued <= MaxLifetime
  /\ (i.actor = "ai") <=> (i.role = "ai_copilot")

IsCurrent(i, at) == i.issued <= at /\ i.from <= at /\ i.until > at

(* Tenant first, then role, as in the shared resource decision.            *)
Authorized(i, policy, tenant) ==
  /\ tenant \in {"none", i.tenant}
  /\ policy.anyRole \/ i.role \in policy.roles

Policy(c) == Policies(request[c].path)[request[c].stage]

(* The request is answered, refused or not, and the client may send another. *)
RequestOver(c) == request' = [request EXCEPT ![c] = NoRequest]

(* One policy passed: the next one, or the limiter and the handler.        *)
Pass(c, i, by, at) ==
  IF ~Authorized(i, Policy(c), request[c].tenant) THEN RequestOver(c)
  ELSE request' = [request EXCEPT
         ![c].by = by, ![c].asked = at,
         ![c].stage = IF @ < Len(Policies(request[c].path)) THEN @ + 1 ELSE @,
         ![c].at = IF request[c].stage < Len(Policies(request[c].path)) THEN "arriving" ELSE "passed"]

(* The credentials a deployment looks at: none where it verifies nobody.   *)
Presented == IF HasStatic \/ HasVerifier THEN Tokens \cup {"none", "configured"} ELSE {"none"}

Arrive(c, path, token, tenant) ==
  /\ request[c].at = "idle" /\ asks < MaxAsks
  /\ asks' = asks + 1
  /\ request' = [request EXCEPT ![c] =
       [NoRequest EXCEPT !.at = IF path = "upgrade" THEN "passed" ELSE "arriving",
                         !.path = path, !.token = token, !.tenant = tenant,
                         !.stage = 1]]
  /\ UNCHANGED <<mounted, setup, second, known, withdrawn, vetted, windows, taken, forgotten>>

(* No identity can be established without asking the verifier: anonymous   *)
(* where the deployment is open and the path allows it, refused otherwise. *)
CheckLocally(c) ==
  LET token == request[c].token IN
  /\ request[c].at = "arriving"
  /\ \/ /\ setup = "open" /\ Policy(c).seed
        /\ request' = [request EXCEPT ![c].at = "passed", ![c].by = "seed"]
     \/ /\ \/ setup = "open" /\ ~Policy(c).seed
           \/ setup = "required"
           \/ setup # "open" /\ token = "none"
        /\ RequestOver(c)
     \/ HasStatic /\ token = "configured" /\ Pass(c, LocalIdentity, "static", second)
     \/ ~HasVerifier /\ HasStatic /\ token \in Tokens /\ RequestOver(c)
  /\ UNCHANGED <<mounted, setup, second, known, withdrawn, vetted, asks, windows, taken, forgotten>>

(* A mutant: the expiry of a cached token is not compared.                 *)
CachedForever(t) == t \in ToSet(known)
Cached(t) == t \in ToSet(known) /\ second < Claims[t].until

(* The token was verified before and has not expired since.                *)
CheckCached(c) ==
  LET token == request[c].token IN
  /\ request[c].at = "arriving" /\ HasVerifier /\ token \in Tokens /\ Cached(token)
  /\ Pass(c, Claims[token], "verifier", second)
  /\ UNCHANGED <<mounted, setup, second, known, withdrawn, vetted, asks, windows, taken, forgotten>>

(* The verifier is asked; the second of the request is kept for its answer. *)
AskVerifier(c) ==
  LET token == request[c].token IN
  /\ request[c].at = "arriving" /\ HasVerifier
  /\ \/ token \in Tokens /\ ~Cached(token)
     \/ token = "configured" /\ ~HasStatic
  /\ request' = [request EXCEPT ![c].at = "verifying", ![c].asked = second]
  /\ UNCHANGED <<mounted, setup, second, known, withdrawn, vetted, asks, windows, taken, forgotten>>

(* purgeTokenCache and set: expired entries go, then the oldest while the  *)
(* cache is full; a token still in it keeps its place.                     *)
Remember(t, at) ==
  LET live == Staying(known, {i \in DOMAIN known : at < Claims[known[i]].until})
      kept == IF Len(live) < MaxTokens THEN live
              ELSE SubSeq(live, Len(live) - MaxTokens + 2, Len(live))
  IN IF t \in ToSet(kept) THEN kept ELSE Append(kept, t)

Vouched(t) == t \in Tokens /\ t \notin withdrawn /\ Claims[t].ours

(* The verifier answers with the identity of a token it has not revoked.   *)
VerifierAnswers(c) ==
  LET r == request[c] IN
  /\ r.at = "verifying" /\ Vouched(r.token)
  /\ vetted' = vetted \cup {r.token}
  /\ IF WellFormed(Claims[r.token]) /\ IsCurrent(Claims[r.token], r.asked)
     THEN /\ known' = Remember(r.token, r.asked)
          /\ Pass(c, Claims[r.token], "verifier", r.asked)
     ELSE RequestOver(c) /\ UNCHANGED known
  /\ UNCHANGED <<mounted, setup, second, withdrawn, asks, windows, taken, forgotten>>

(* The verifier answers null or fails, or vouches for another issuer's.    *)
VerifierRefuses(c) ==
  /\ request[c].at = "verifying"
  /\ RequestOver(c)
  /\ UNCHANGED <<mounted, setup, second, known, withdrawn, vetted, asks, windows, taken, forgotten>>

Over(w) == second - w.since >= Window

(* The windows with room for one more: when they are full the ended ones   *)
(* go, and then the oldest ones although they still count.                 *)
Vacate ==
  IF Len(windows) < MaxWindows THEN windows
  ELSE LET live == Staying(windows, {i \in DOMAIN windows : ~Over(windows[i])}) IN
       IF Len(live) < MaxWindows THEN live
       ELSE SubSeq(live, Len(live) - MaxWindows + 2, Len(live))

WindowOf(ws, key) == {i \in DOMAIN ws : ws[i].key = key}

(* A window that has ended is replaced where it stands in the Map.         *)
Open(key) ==
  LET ws == Vacate
      fresh == [key |-> key, count |-> 0, since |-> second]
  IN IF WindowOf(ws, key) = {} THEN Append(ws, fresh)
     ELSE [ws EXCEPT ![CHOOSE i \in WindowOf(ws, key) : TRUE] = fresh]

(* A mutant: a window ends one unit early.                                 *)
CountingShort(key) == \E i \in WindowOf(windows, key) : second - windows[i].since < Window - 1
Counting(key) == \E i \in WindowOf(windows, key) : ~Over(windows[i])

Limited(path) == path \in {"voice", "upgrade"}

(* InMemoryRateLimiter.consume, for the paths that a limiter guards.       *)
Consume(c) ==
  LET key == <<request[c].path, c>>
      ws == IF Counting(key) THEN windows ELSE Open(key)
      i == CHOOSE n \in WindowOf(ws, key) : TRUE
      admit == ws[i].count < Limit
  IN
  /\ request[c].at = "passed" /\ Limited(request[c].path)
  /\ windows' = IF admit THEN [ws EXCEPT ![i].count = @ + 1] ELSE ws
  /\ taken' = IF admit THEN Append(taken, [key |-> key, at |-> second]) ELSE taken
  /\ forgotten' = forgotten \cup
       {windows[n].key : n \in {m \in DOMAIN windows :
                                  ~Over(windows[m]) /\ WindowOf(ws, windows[m].key) = {}}}
  /\ RequestOver(c)
  /\ UNCHANGED <<mounted, setup, second, known, withdrawn, vetted, asks>>

(* A path without a limiter goes to its handler at once.                   *)
Admit(c) ==
  /\ request[c].at = "passed" /\ ~Limited(request[c].path)
  /\ RequestOver(c)
  /\ UNCHANGED <<mounted, setup, second, known, withdrawn, vetted, asks, windows, taken, forgotten>>

(* The issuer revokes a token.                                             *)
Withdraw(t) ==
  /\ t \notin withdrawn /\ HasVerifier
  /\ withdrawn' = withdrawn \cup {t}
  /\ UNCHANGED <<mounted, setup, second, known, vetted, request, asks, windows, taken, forgotten>>

SecondPasses ==
  /\ second < LastSecond
  /\ second' = second + 1
  /\ UNCHANGED <<mounted, setup, known, withdrawn, vetted, request, asks, windows, taken, forgotten>>

GuardNext ==
  \/ \E c \in Callers, p \in mounted, t \in Presented, n \in {"none", "local"} : Arrive(c, p, t, n)
  \/ \E c \in Callers : \/ CheckLocally(c) \/ CheckCached(c) \/ AskVerifier(c)
                        \/ VerifierAnswers(c) \/ VerifierRefuses(c)
                        \/ Consume(c) \/ Admit(c)
  \/ \E t \in Tokens : Withdraw(t)
  \/ SecondPasses

GuardSpec == GuardInit /\ [][GuardNext]_guardVars

GuardTypeOK ==
  /\ setup \in Setups /\ mounted \subseteq Paths /\ second \in 0..LastSecond
  /\ known \in Seq(Tokens) /\ Len(known) <= MaxTokens
  /\ withdrawn \subseteq Tokens /\ vetted \subseteq Tokens
  /\ asks \in 0..MaxAsks
  /\ request \in [Callers ->
       [at : {"idle", "arriving", "verifying", "passed"},
        path : Paths \cup {"none"}, token : Tokens \cup {"none", "configured"},
        tenant : {"none", "local", "other"}, asked : 0..LastSecond, stage : 0..2,
        by : {"none", "seed", "static", "verifier"}]]
  /\ Len(windows) <= MaxWindows
  /\ \A i \in DOMAIN windows : windows[i].count \in 1..Limit
  /\ forgotten \subseteq {"voice", "upgrade"} \X Callers

(* A request behind a policy reaches its handler only with an identity     *)
(* that the whole of its policies admits, that was current when the        *)
(* request was read and that the verifier had vouched for before it was    *)
(* revoked; without one only in an open deployment on a path that says so  *)
(* (opsAuth.ts authenticate, mountOpsAuthorization).                       *)
IdentityAdmitted ==
  \A c \in Callers : LET r == request[c] IN
    r.at = "passed" /\ r.path # "upgrade" =>
      LET i == IF r.by = "static" THEN LocalIdentity ELSE Claims[r.token]
          ps == ToSet(Policies(r.path))
      IN IF r.by = "seed" THEN setup = "open" /\ \A p \in ps : p.seed
         ELSE /\ \A p \in ps : p.anyRole \/ i.role \in p.roles
              /\ r.tenant \in {"none", i.tenant}
              /\ r.by = "static" => r.token = "configured" /\ HasStatic
              /\ r.by = "verifier" =>
                   /\ WellFormed(i) /\ i.ours
                   /\ i.issued <= r.asked /\ i.from <= r.asked /\ r.asked < i.until
                   /\ r.token \in vetted

(* The token cache never answers for a token its issuer had revoked before *)
(* it was verified, and holds each token once.                             *)
CacheVetted ==
  IsInjective(known) /\ ToSet(known) \subseteq vetted

(* However its windows fall, a client whose window was not evicted is let  *)
(* through fewer than twice Limit times in any span shorter than a window  *)
(* (rateLimiter.ts consume).                                               *)
RateBounded ==
  \A t \in 0..second : \A key \in {"voice", "upgrade"} \X Callers :
    key \notin forgotten =>
      Cardinality({i \in DOMAIN taken : taken[i].key = key /\ taken[i].at \in t..(t + Window - 1)})
        < 2 * Limit

(* What the guards promise together (opsAuth.ts, rateLimiter.ts).          *)
GuardsHold == IdentityAdmitted /\ CacheVetted /\ RateBounded
=============================================================================
