---------------------------- MODULE VoiceSession ----------------------------
(***************************************************************************)
(* The voice session of the web application: VoiceStore (apps/web          *)
(* stores/voice.svelte.ts), the state machine it drives (core              *)
(* voiceMachine.ts) and the adapters whose sockets it opens and drops      *)
(* (core agentAdapters.ts).                                                *)
(*                                                                         *)
(* connect() awaits a token and then a socket; meanwhile the operator may  *)
(* connect again, disconnect or type, and frames, tool results and closes  *)
(* of dropped sessions still come in.  Each handler asks whether its own   *)
(* attempt is the latest.  xstate is external: an event the current state  *)
(* does not name changes nothing.  STASIS is never sent to this machine.   *)
(***************************************************************************)
EXTENDS Naturals, FiniteSets

CONSTANTS
  MaxAttempts,  \* bound on connect()
  MaxCalls      \* bound on the tool calls the provider asks for

ASSUME VoiceAssumption == MaxAttempts \in Nat /\ MaxCalls \in Nat

Attempts == 1..MaxAttempts
ToolCalls == 1..MaxCalls
None == 0

VARIABLES
  begun,       \* connect() calls so far
  current,     \* the attempt whose number is connectionAttempt, or None
  adapter,     \* the attempt whose adapter is in use
  pending,     \* the attempt whose adapter is connecting
  link,        \* each attempt's token request, then socket
  provider,    \* each attempt's provider
  texting,     \* attempts that sendUserMessage began
  voice,       \* the machine's state
  activeTool,  \* the machine's activeTool
  running      \* tool calls being executed, with the attempt they belong to

voiceVars == <<begun, current, adapter, pending, link, provider, texting, voice, activeTool,
               running>>

VoiceInit ==
  /\ begun = 0
  /\ current = None /\ adapter = None /\ pending = None
  /\ link = [n \in Attempts |-> "none"]
  /\ provider = [n \in Attempts |-> "mock"]
  /\ texting = {}
  /\ voice = "idle" /\ activeTool = None
  /\ running = {}

Connected == {"listening", "processing", "speaking", "executing_tool"}

(* isActive                                                                *)
Active(n) == current = n /\ adapter = n

(* Mutant of Dropped: an adapter that is still connecting is left alone.   *)
DroppedWhenReady(links) == IF adapter # None THEN [links EXCEPT ![adapter] = "shut"] ELSE links

(* adapter ?? pendingAdapter is disconnected.                              *)
Dropped(links) ==
  IF adapter # None THEN [links EXCEPT ![adapter] = "shut"]
  ELSE IF pending # None THEN [links EXCEPT ![pending] = "shut"]
  ELSE links

(* A session that has just become ready; sendUserMessage goes on at once.  *)
Ready(text) == IF text THEN "processing" ELSE "listening"

-----------------------------------------------------------------------------
(* connect, from the provider's menu and the button, or by sendUserMessage *)
(* when toVoiceStatus reads idle or error, as it does during a tool call.  *)
Connect(kind, text) ==
  LET n == begun + 1
      mock == kind = "mock"
  IN /\ begun < MaxAttempts
     /\ text => voice \in {"idle", "error", "executing_tool"}
     /\ begun' = n /\ current' = n
     /\ adapter' = (IF mock THEN n ELSE None) /\ pending' = None
     /\ link' = [Dropped(link) EXCEPT ![n] = IF mock THEN "open" ELSE "fetching"]
     /\ provider' = [provider EXCEPT ![n] = kind]
     /\ texting' = IF text THEN texting \cup {n} ELSE texting
     /\ voice' = IF mock THEN Ready(text) ELSE "connecting"
     /\ activeTool' = None
     /\ UNCHANGED running

(* The token request ends, or was aborted.                                 *)
(* Mutant of Fetched: the attempt is not compared after the request.       *)
FetchedUnasked(n, ok) ==
  /\ link[n] = "fetching"
  /\ IF ok
     THEN link' = [link EXCEPT ![n] = "opening"] /\ pending' = n /\ UNCHANGED voice
     ELSE /\ link' = [link EXCEPT ![n] = "none"]
          /\ voice' = IF current = n THEN "error" ELSE voice
          /\ UNCHANGED pending
  /\ UNCHANGED <<begun, current, adapter, provider, texting, activeTool, running>>

Fetched(n, ok) ==
  /\ link[n] = "fetching"
  /\ IF ok /\ current = n
     THEN link' = [link EXCEPT ![n] = "opening"] /\ pending' = n /\ UNCHANGED voice
     ELSE /\ link' = [link EXCEPT ![n] = "none"]
          /\ voice' = IF current = n THEN "error" ELSE voice
          /\ UNCHANGED pending
  /\ UNCHANGED <<begun, current, adapter, provider, texting, activeTool, running>>

SocketOpens(n) ==
  /\ link[n] = "opening"
  /\ IF current = n /\ pending = n
     THEN /\ pending' = None /\ adapter' = n
          /\ link' = [link EXCEPT ![n] = "open"]
          /\ voice' = IF voice = "connecting" THEN Ready(n \in texting) ELSE voice
     ELSE link' = [link EXCEPT ![n] = "shut"] /\ UNCHANGED <<adapter, pending, voice>>
  /\ UNCHANGED <<begun, current, provider, texting, activeTool, running>>

(* The connection times out, fails or is refused.                          *)
SocketFails(n) ==
  /\ link[n] = "opening"
  /\ link' = [link EXCEPT ![n] = "shut"]
  /\ pending' = IF pending = n THEN None ELSE pending
  /\ voice' = IF current = n /\ voice = "connecting" THEN "error" ELSE voice
  /\ UNCHANGED <<begun, current, adapter, provider, texting, activeTool, running>>

Disconnect ==
  /\ current' = None /\ adapter' = None /\ pending' = None
  /\ link' = Dropped(link)
  /\ voice' = "idle" /\ activeTool' = None
  /\ UNCHANGED <<begun, provider, texting, running>>

(* failActiveSession                                                       *)
Fail(n) ==
  /\ current' = None /\ adapter' = None /\ pending' = None
  /\ link' = [link EXCEPT ![n] = "shut"]
  /\ voice' = "idle" /\ activeTool' = None
  /\ UNCHANGED <<begun, provider, texting>>

-----------------------------------------------------------------------------
(* Only the machine's state changes.                                       *)
Becomes(v) ==
  /\ voice' = v
  /\ UNCHANGED <<begun, current, adapter, pending, link, provider, texting, activeTool, running>>

(* sendUserMessage in a session that listens; the send itself may throw.   *)
SendText ==
  /\ voice = "listening" /\ adapter # None
  /\ \/ Becomes("processing")
     \/ Fail(adapter) /\ UNCHANGED running

BargeIn == voice \in Connected /\ Becomes("listening")

(* A frame of a socket that was open once: speech, audio, the response's   *)
(* end.                                                                    *)
Frame(n, from, to) ==
  /\ link[n] \in {"open", "shut"}
  /\ Active(n) /\ voice \in from
  /\ Becomes(to)

(* The executor runs the call whether the machine takes the event or not.  *)
ToolCall(n, c) ==
  /\ link[n] \in {"open", "shut"} /\ Active(n)
  /\ \A k \in running : k[2] < c
  /\ running' = running \cup {<<n, c>>}
  /\ IF voice \in {"processing", "speaking"} THEN voice' = "executing_tool" /\ activeTool' = c
                                             ELSE UNCHANGED <<voice, activeTool>>
  /\ UNCHANGED <<begun, current, adapter, pending, link, provider, texting>>

(* execute returns or throws; the result is submitted, which may throw.    *)
ToolEnds(k, submitted) ==
  /\ k \in running
  /\ running' = running \ {k}
  /\ IF Active(k[1]) /\ ~submitted THEN Fail(k[1])
     ELSE /\ IF Active(k[1]) /\ voice = "executing_tool"
             THEN voice' = "processing" /\ activeTool' = None
             ELSE UNCHANGED <<voice, activeTool>>
          /\ UNCHANGED <<begun, current, adapter, pending, link, provider, texting>>

(* The transport closes, fails or sends an error.                          *)
TransportLost(n) ==
  /\ link[n] = "open" /\ provider[n] # "mock" /\ Active(n)
  /\ Fail(n)
  /\ UNCHANGED running

Operator ==
  \/ \E kind \in {"mock", "openai-realtime"}, text \in BOOLEAN : Connect(kind, text)
  \/ Disconnect \/ SendText \/ BargeIn

Transport(n) ==
  \/ \E ok \in BOOLEAN : Fetched(n, ok)
  \/ SocketOpens(n) \/ SocketFails(n) \/ TransportLost(n)
  \/ Frame(n, Connected, "listening")
  \/ Frame(n, {"listening"}, "processing")
  \/ Frame(n, {"processing"}, "speaking")
  \/ Frame(n, {"processing", "speaking"}, "listening")
  \/ \E c \in ToolCalls : ToolCall(n, c)

VoiceNext ==
  \/ Operator
  \/ \E n \in Attempts : Transport(n)
  \/ \E k \in running, submitted \in BOOLEAN : ToolEnds(k, submitted)

VoiceSpec == VoiceInit /\ [][VoiceNext]_voiceVars

-----------------------------------------------------------------------------
(* The types, and that no attempt is both in use and connecting.           *)
VoiceTypeOK ==
  /\ begun \in 0..MaxAttempts
  /\ {current, adapter, pending} \subseteq 0..begun
  /\ adapter # None => pending = None
  /\ link \in [Attempts -> {"none", "fetching", "opening", "open", "shut"}]
  /\ provider \in [Attempts -> {"mock", "openai-realtime"}]
  /\ texting \subseteq 1..begun
  /\ voice \in Connected \cup {"idle", "connecting", "error"}
  /\ activeTool \in 0..MaxCalls
  /\ running \subseteq Attempts \X ToolCalls

(* However connects, disconnects and failures overlap, the only socket     *)
(* that is not closed is the one in use or the one being opened: nothing   *)
(* listens in on a session the operator left (connect, disconnect,         *)
(* failActiveSession).                                                     *)
OneVoiceSession ==
  \A n \in Attempts : link[n] \in {"opening", "open"} => n \in {adapter, pending}

(* What the machine shows is what there is: a connected state exactly      *)
(* while an adapter is in use, connecting exactly while the latest attempt *)
(* is under way, and a tool only while that call of this session runs      *)
(* (isActive, the attempt comparisons after each await).                   *)
VoiceInSync ==
  /\ voice \in Connected <=> adapter # None
  /\ adapter # None => link[adapter] = "open" /\ current = adapter
  /\ voice = "connecting" <=> current # None /\ link[current] \in {"fetching", "opening"}
  /\ voice = "executing_tool" => <<adapter, activeTool>> \in running

=============================================================================
