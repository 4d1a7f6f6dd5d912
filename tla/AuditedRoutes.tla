--------------------------- MODULE AuditedRoutes ----------------------------
(***************************************************************************)
(* Rule 1 of the repository: audit intent, action, audit outcome.  Every   *)
(* handler that follows it by hand, one kind of call each:                 *)
(*   "resume"    POST /ops/resume of the server (opsResume.ts)             *)
(*   "cliResume" the command line's offline resume (cli resume.ts)         *)
(*   "admin"     auditedAction of the layer access administration          *)
(*   "read"      GET /ops/layer-access                                     *)
(*   "analysis"  the economic preview, market, competition, location and   *)
(*               workforce handlers                                        *)
(*   "tool"      executeUnreserved of the shared tool executor             *)
(* (Reserved tools and reconciliation write their audit rows inside the    *)
(* ledger's transactions and belong to BudgetLedger.)  An append to the    *)
(* audit chain may throw: the chain's head is damaged or SQLite is busy.   *)
(***************************************************************************)
EXTENDS Naturals, Sequences

CONSTANT Calls

VARIABLES
  stasis,     \* the global STASIS
  doubt,      \* some operation is IN_DOUBT, so that resume refuses
  call        \* call -> its kind, where it stands, its effect and its audit rows

routeVars == <<stasis, doubt, call>>

Kinds == {"resume", "cliResume", "admin", "read", "analysis", "tool"}

Unstarted == [kind |-> "none", pc |-> "idle", status |-> "none", effect |-> "none",
              intent |-> FALSE, outcomes |-> <<>>, sinkFailed |-> FALSE]

RoutesInit ==
  /\ stasis = FALSE
  /\ doubt = FALSE
  /\ call = [c \in Calls |-> Unstarted]

At(c, pc) == call[c].pc = pc

Set(c, r) == call' = [call EXCEPT ![c] = r]

(* How a failed action is recorded.                                        *)
FailureOf(kind) == IF kind \in {"resume", "read"} THEN {"blocked"}
                   ELSE IF kind = "admin" THEN {"blocked", "error"} ELSE {"error"}

-----------------------------------------------------------------------------
(* Both resumes do nothing unless they find STASIS active.                 *)
ResumeBegins(c, kind) ==
  /\ kind \in {"resume", "cliResume"}
  /\ stasis
  /\ Set(c, [Unstarted EXCEPT !.kind = kind, !.pc = "intending"])

(* The analyses look at STASIS, at the kill switch and at the rate limit,  *)
(* and only then await the request's body and their adapters.              *)
AnalysisBegins(c) ==
  /\ ~stasis
  /\ Set(c, [Unstarted EXCEPT !.kind = "analysis", !.pc = "parsing"])

AnalysisParsed(c, valid) ==
  /\ At(c, "parsing")
  /\ Set(c, [call[c] EXCEPT !.pc = IF valid THEN "intending" ELSE "answered",
                            !.status = IF valid THEN @ ELSE "rejected"])
  /\ UNCHANGED <<stasis, doubt>>

OtherBegins(c, kind) ==
  /\ kind \in {"admin", "read", "tool"}
  /\ Set(c, [Unstarted EXCEPT !.kind = kind, !.pc = "intending"])

Begin(c) ==
  /\ At(c, "idle")
  /\ \/ \E kind \in Kinds : ResumeBegins(c, kind)
     \/ AnalysisBegins(c)
     \/ \E kind \in Kinds : OtherBegins(c, kind)
  /\ UNCHANGED <<stasis, doubt>>

(* The intent; if the append throws, every kind gives up.                  *)
Intend(c, appended) ==
  /\ At(c, "intending")
  /\ Set(c, IF appended
            THEN [call[c] EXCEPT !.pc = "acting", !.intent = TRUE]
            ELSE [call[c] EXCEPT !.pc = "answered", !.status = "failed", !.sinkFailed = TRUE])
  /\ UNCHANGED <<stasis, doubt>>

-----------------------------------------------------------------------------
Acted(c) == [call[c] EXCEPT !.pc = "ending", !.status = "ok", !.effect = "done"]

(* budgetGovernor.resume refuses while an operation is in doubt.  The      *)
(* server records that; the command line lets the error out, past its own  *)
(* outcome.                                                                *)
(* Mutant of Refused: the server's handler lets the error out as well.     *)
RefusedSilently(c) == [call[c] EXCEPT !.pc = "answered", !.status = "failed"]

Refused(c) ==
  IF call[c].kind = "cliResume"
  THEN [call[c] EXCEPT !.pc = "answered", !.status = "failed"]
  ELSE [call[c] EXCEPT !.pc = "ending", !.status = "blocked"]

ActResume(c) ==
  /\ At(c, "acting")
  /\ call[c].kind \in {"resume", "cliResume"}
  /\ stasis' = IF doubt THEN stasis ELSE FALSE
  /\ Set(c, IF doubt THEN Refused(c) ELSE Acted(c))
  /\ UNCHANGED doubt

(* The store's call, the projection or the analysis succeeds or throws.    *)
ActCompute(c, succeeds) ==
  /\ At(c, "acting")
  /\ call[c].kind \in {"admin", "read", "analysis"}
  /\ \E failure \in FailureOf(call[c].kind) :
       Set(c, IF succeeds THEN Acted(c)
              ELSE [call[c] EXCEPT !.pc = "ending", !.status = failure])
  /\ UNCHANGED <<stasis, doubt>>

(* executeUnreserved: the governor is unreadable or the caller is gone, or *)
(* the handler is started and raced against its timeout and the caller.    *)
ActTool(c, dispatched) ==
  /\ At(c, "acting")
  /\ call[c].kind = "tool"
  /\ Set(c, IF dispatched
            THEN [call[c] EXCEPT !.pc = "running", !.effect = "running"]
            ELSE [call[c] EXCEPT !.pc = "ending", !.status = "error"])
  /\ UNCHANGED <<stasis, doubt>>

(* The handler returns (its output may still be refused by the schema) or  *)
(* throws, while the executor waits or after it stopped waiting.           *)
HandlerDone(c, returns, outputValid) ==
  /\ call[c].effect = "running" /\ ~At(c, "dead")
  /\ Set(c, [call[c] EXCEPT
       !.effect = IF returns THEN "done" ELSE "failed",
       !.pc = IF At(c, "running") THEN "ending" ELSE IF At(c, "draining") THEN "answered" ELSE @,
       !.status = IF ~At(c, "running") THEN @
                  ELSE IF returns /\ outputValid THEN "ok" ELSE "error"])
  /\ UNCHANGED <<stasis, doubt>>

(* The timeout or the caller's abort wins.                                 *)
(* Mutant of StopWaiting: a handler that was started counts as a success.  *)
StopWaitingHappily(c, cancelled) ==
  /\ At(c, "running")
  /\ Set(c, [call[c] EXCEPT !.pc = IF cancelled THEN "cancelling" ELSE "ending", !.status = "ok"])
  /\ UNCHANGED <<stasis, doubt>>

StopWaiting(c, cancelled) ==
  /\ At(c, "running")
  /\ Set(c, [call[c] EXCEPT !.pc = IF cancelled THEN "cancelling" ELSE "ending", !.status = "error"])
  /\ UNCHANGED <<stasis, doubt>>

-----------------------------------------------------------------------------
(* The outcome.  In the handlers that append it inside their try block a   *)
(* throwing append of "ok" is caught like a failed action and a failure is *)
(* appended in its place.  A cancelled tool call then waits for its        *)
(* handler before it answers.                                              *)
End(c, appended) ==
  LET r == call[c]
      recorded == [r EXCEPT !.outcomes = Append(@, r.status),
                            !.pc = IF At(c, "cancelling") /\ r.effect = "running"
                                   THEN "draining" ELSE "answered"]
      lost == [r EXCEPT !.sinkFailed = TRUE]
  IN /\ At(c, "ending") \/ At(c, "cancelling")
     /\ IF appended THEN Set(c, recorded)
        ELSE IF r.kind \in {"admin", "read", "analysis"} /\ r.status = "ok"
        THEN \E failure \in FailureOf(r.kind) : Set(c, [lost EXCEPT !.status = failure])
        ELSE IF At(c, "cancelling") /\ r.effect = "running"
        THEN Set(c, [lost EXCEPT !.pc = "draining", !.status = "failed"])
        ELSE Set(c, [lost EXCEPT !.pc = "answered", !.status = "failed"])
     /\ UNCHANGED <<stasis, doubt>>

(* The process dies.  What its calls had written stays.                    *)
Die(c) ==
  /\ call[c].pc \notin {"idle", "answered", "dead"}
  /\ Set(c, [call[c] EXCEPT !.pc = "dead"])
  /\ UNCHANGED <<stasis, doubt>>

(* The ledger and the governor meanwhile: a doubt trips STASIS, a human    *)
(* reconciles it.                                                          *)
Governance ==
  /\ \/ stasis' = TRUE /\ doubt' \in {doubt, TRUE}
     \/ doubt' = FALSE /\ UNCHANGED stasis
  /\ UNCHANGED call

RoutesNext ==
  \/ Governance
  \/ \E c \in Calls :
       \/ Begin(c) \/ Die(c) \/ ActResume(c)
       \/ \E b \in BOOLEAN : \/ AnalysisParsed(c, b) \/ Intend(c, b) \/ ActCompute(c, b)
                             \/ ActTool(c, b) \/ StopWaiting(c, b) \/ End(c, b)
       \/ \E b, d \in BOOLEAN : HandlerDone(c, b, d)

RoutesSpec == RoutesInit /\ [][RoutesNext]_routeVars

-----------------------------------------------------------------------------
(* Effects and audit rows take the values that the contracts allow.        *)
RoutesTypeOK ==
  /\ stasis \in BOOLEAN /\ doubt \in BOOLEAN
  /\ \A c \in Calls :
       /\ call[c].kind \in Kinds \cup {"none"}
       /\ call[c].effect \in {"none", "running", "done", "failed"}
       /\ call[c].status \in {"none", "ok", "blocked", "error", "rejected", "failed"}
       /\ call[c].outcomes \in Seq({"ok", "blocked", "error"})

OutcomeLeft(c) ==
  At(c, "answered") /\ call[c].intent /\ ~call[c].sinkFailed => Len(call[c].outcomes) = 1

(* A call that answered after its intent, with an audit store that worked, *)
(* left exactly one outcome: served, refused, failed, timed out or         *)
(* dropped.  Nothing is said here of the command line's offline resume     *)
(* when the governor refuses it, which breaks the promise below.           *)
OutcomeForEveryAnswer ==
  \A c \in Calls :
    (call[c].kind = "cliResume" => call[c].effect = "done") => OutcomeLeft(c)

(* The audit trail is true of what happened: no effect without an intent   *)
(* before it, "ok" only for an effect that is done, and a failure recorded *)
(* for an effect that took place only if the store lost the "ok" or a      *)
(* tool's handler outlived its call or returned something unusable.        *)
OutcomesTrue ==
  \A c \in Calls :
    /\ call[c].effect # "none" => call[c].intent
    /\ \A n \in DOMAIN call[c].outcomes :
         IF call[c].outcomes[n] = "ok" THEN call[c].effect = "done"
         ELSE call[c].effect \in {"done", "running"} =>
                call[c].sinkFailed \/ call[c].kind = "tool"
    /\ Len(call[c].outcomes) <= 1

(* An outcome "MUST be called after execution, whatever the result"        *)
(* (ports.ts), the offline resume's refusal included.                      *)
OutcomeWhateverTheResult == \A c \in Calls : OutcomeLeft(c)

=============================================================================
