---------------------------- MODULE OperatorStream ----------------------------
(***************************************************************************)
(* What an operator watches: the audit stream (routes/auditStream.ts over  *)
(* the sink's listeners, governance/src/auditSink.ts) and the in-memory    *)
(* telemetry (telemetry/index.ts).                                         *)
(*                                                                         *)
(* A row is committed and published in one turn.  A stream greets, replays *)
(* the tail and only then listens, awaiting each write, so rows published  *)
(* meanwhile are not sent.  The stream library runs the handlers of an     *)
(* abort when it happens, not those that are registered afterwards.        *)
(***************************************************************************)
EXTENDS Naturals, Sequences, FiniteSets, SequencesExt

CONSTANTS
  Watchers,    \* streams
  TailSize,    \* rows that are replayed
  SpanRing, EventRing, ErrorRing,  \* capacity of the telemetry's buffers
  MaxRows      \* bound on the rows committed

ASSUME StreamAssumption ==
  /\ TailSize \in Nat \ {0} /\ MaxRows \in Nat
  /\ SpanRing \in Nat \ {0} /\ EventRing \in Nat \ {0} /\ ErrorRing \in Nat \ {0}

VARIABLES
  rows,       \* audit rows committed so far, numbered from 1
  listeners,  \* the sink's listeners
  watch,      \* stream -> where it stands, what is left to replay, what was sent
  spans, events, captured  \* the telemetry's buffers, oldest first

streamVars == <<rows, listeners, watch, spans, events, captured>>
telemetryVars == <<spans, events, captured>>

Unwatched == [pc |-> "none", replay |-> <<>>, sent |-> <<>>, since |-> 0, aborted |-> FALSE]

StreamInit ==
  /\ rows = 0 /\ listeners = {} /\ watch = [w \in Watchers |-> Unwatched]
  /\ spans = <<>> /\ events = <<>> /\ captured = <<>>

(* tail: the newest rows, back in the order they were written.             *)
(* Mutant of AuditTail: they stay newest first.                            *)
NewestFirst(n) == [k \in 1..(IF n < TailSize THEN n ELSE TailSize) |-> n + 1 - k]
AuditTail(n) == Reverse(NewestFirst(n))

OpenStream(w) ==
  /\ watch[w].pc = "none"
  /\ watch' = [watch EXCEPT ![w].pc = "greeting"]
  /\ UNCHANGED <<rows, listeners, telemetryVars>>

(* The rest of the handler once nothing is left to replay: a stream that   *)
(* was aborted before is over, but its listener stays.                     *)
Listening(s) == [s EXCEPT !.replay = <<>>, !.since = rows, !.pc = IF s.aborted THEN "over" ELSE "live"]
Proceed(w, s) ==
  IF s.replay = <<>>
  THEN watch' = [watch EXCEPT ![w] = Listening(s)] /\ listeners' = listeners \cup {w}
  ELSE watch' = [watch EXCEPT ![w] = s] /\ UNCHANGED listeners

Greeted(w) ==
  /\ watch[w].pc = "greeting"
  /\ Proceed(w, [watch[w] EXCEPT !.pc = "replaying", !.replay = AuditTail(rows)])
  /\ UNCHANGED <<rows, telemetryVars>>

(* One replayed row is written; writing to an aborted stream does nothing. *)
ReplayRow(w) ==
  LET s == watch[w] IN
  /\ s.pc = "replaying"
  /\ Proceed(w, [s EXCEPT !.sent = IF s.aborted THEN @ ELSE Append(@, Head(s.replay)),
                          !.replay = Tail(@)])
  /\ UNCHANGED <<rows, telemetryVars>>

(* publishCommitted.                                                       *)
PublishCommitted ==
  /\ rows < MaxRows /\ rows' = rows + 1
  /\ watch' = [w \in Watchers |->
       IF w \in listeners /\ ~watch[w].aborted
       THEN [watch[w] EXCEPT !.sent = Append(@, rows + 1)] ELSE watch[w]]
  /\ UNCHANGED <<listeners, telemetryVars>>

(* The client goes away.  The heartbeat loop then ends by itself.          *)
(* Mutant of Unsubscribed: nobody unsubscribes.                            *)
UnsubscribedNever(w) == listeners
Unsubscribed(w) == IF watch[w].pc = "live" THEN listeners \ {w} ELSE listeners
DropStream(w) ==
  /\ watch[w].pc \in {"greeting", "replaying", "live"} /\ ~watch[w].aborted
  /\ watch' = [watch EXCEPT ![w].aborted = TRUE, ![w].pc = IF @ = "live" THEN "over" ELSE @]
  /\ listeners' = Unsubscribed(w)
  /\ UNCHANGED <<rows, telemetryVars>>

(* The ring buffers of the telemetry.                                      *)
Pushed(ring, x, capacity) ==
  IF Len(ring) >= capacity THEN Append(Tail(ring), x) ELSE Append(ring, x)

(* withSpan, when its operation has ended: recordSpan, captureException.   *)
SpanEnds(ok) ==
  /\ spans' = Pushed(spans, IF ok THEN "ok" ELSE "error", SpanRing)
  /\ captured' = IF ok THEN captured ELSE Pushed(captured, "error", ErrorRing)
  /\ UNCHANGED <<rows, listeners, watch, events>>

TrackEvent ==
  /\ events' = Pushed(events, "event", EventRing)
  /\ UNCHANGED <<rows, listeners, watch, spans, captured>>

(* getMetrics.                                                             *)
Metrics == [total |-> Len(spans), errors |-> Cardinality({k \in DOMAIN spans : spans[k] = "error"}),
            recent |-> Len(events), captured |-> Len(captured)]

StreamNext ==
  \/ \E w \in Watchers : OpenStream(w) \/ Greeted(w) \/ ReplayRow(w) \/ DropStream(w)
  \/ PublishCommitted
  \/ \E ok \in BOOLEAN : SpanEnds(ok)
  \/ TrackEvent

StreamSpec == StreamInit /\ [][StreamNext]_streamVars

StreamTypeOK ==
  /\ rows \in 0..MaxRows /\ listeners \subseteq Watchers
  /\ \A w \in Watchers :
       /\ watch[w].pc \in {"none", "greeting", "replaying", "live", "over"}
       /\ watch[w].sent \in Seq(1..MaxRows) /\ watch[w].replay \in Seq(1..MaxRows)
-----------------------------------------------------------------------------
(* A stream sends rows in the order of the log and none twice, and from    *)
(* the moment it listens it misses none until its client goes away.        *)
NoneMissed ==
  \A w \in Watchers :
    LET s == watch[w] IN
    /\ \A j, k \in DOMAIN s.sent : j < k => s.sent[j] < s.sent[k]
    /\ s.pc = "live" => ((s.since + 1)..rows) \subseteq ToSet(s.sent)

(* Whoever listens is a live stream, or one that its client had left       *)
(* before the handler of the abort was registered.                         *)
ListenersKnown ==
  /\ {w \in Watchers : watch[w].pc = "live"} \subseteq listeners
  /\ \A w \in listeners : watch[w].pc = "live" \/ (watch[w].aborted /\ watch[w].sent = <<>>)
                          \/ (watch[w].aborted /\ Last(watch[w].sent) <= watch[w].since)

(* The buffers are bounded, and an error span that is still counted has    *)
(* its exception, as long as there are not more than exceptions are kept.  *)
TelemetryBounded ==
  /\ Metrics.total <= SpanRing /\ Metrics.recent <= EventRing
  /\ Metrics.captured >= (IF Metrics.errors < ErrorRing THEN Metrics.errors ELSE ErrorRing)

(* What an operator watches is what happened.                              *)
WatchedTrue == NoneMissed /\ ListenersKnown /\ TelemetryBounded
=============================================================================
