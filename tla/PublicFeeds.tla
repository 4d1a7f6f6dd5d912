------------------------------ MODULE PublicFeeds ------------------------------
(***************************************************************************)
(* The public feeds without a cache of their own: flights, quakes, ships,  *)
(* hotspots, bike stations, cameras, radio, launches, weather and map      *)
(* queries.  One request goes from its route of apps/server/src/routes     *)
(* through its adapter of packages/providers and, in live mode, through    *)
(* pinnedFetch of packages/security to the source and back.                *)
(*                                                                         *)
(* A record is an identifier, the place it is at and a size, which stands  *)
(* for a magnitude, for the bikes at a station, and for the agency or      *)
(* category of a catalog's entry.  While a request is under way the source *)
(* may publish again.                                                      *)
(***************************************************************************)
EXTENDS Integers, Sequences, FiniteSets

CONSTANTS
  Published,   \* publication -> the records of the source
  LastEdition, \* bound on the publications
  Recorded,    \* the records of the fixtures
  MapQueries,  \* the map queries asked
  MostSeconds  \* MAX_OVERPASS_TIMEOUT_SEC

(* Somewhere in bounds, without a position, and out of range.              *)
Somewhere == {1, 2}
Nowhere == 0
OffGlobe == 9

(* Sizes are levels from zero; the fixtures are on the globe; the default  *)
(* time limit of a map query is within bounds.                             *)
ASSUME PublicAssumption ==
  /\ LastEdition \in Nat /\ MostSeconds \in Nat \ {0}
  /\ \A r \in Recorded \cup UNION {Published[e] : e \in 0..LastEdition} : r.size \in Nat
  /\ \A r \in Recorded : r.at # OffGlobe
  /\ \A q \in MapQueries : q.seconds \in Nat /\ q.default \in 1..MostSeconds

VARIABLES
  playback,    \* whether the adapters replay fixtures: isSeedMode
  edition,     \* what the source publishes now
  inquiry,     \* the request
  agents,      \* connections opened by pinnedFetch and not closed
  quota        \* lastRateLimitRemaining of the flights

publicVars == <<playback, edition, inquiry, agents, quota>>

Batches == {"flights", "quakes", "ships", "firms", "gbfs"}
Recordings == {"cctv", "radio", "launches", "weather"}
Proxied == {"snapshot", "stream", "check"}
Boxings == [given : {"none", "half", "broken"}, of : {{}}] \cup [given : {"whole"}, of : {{1}, {2}}]

NoReply == [code |-> 0, why |-> "none", mode |-> "none", records |-> {}, time |-> 0]
NoInquiry == [feed |-> "none", box |-> [given |-> "none", of |-> {}], least |-> 0, state |-> "none",
              fetches |-> 0, pinned |-> "none", held |-> <<>>, query |-> <<>>, reply |-> NoReply]

PublicInit ==
  /\ playback \in BOOLEAN
  /\ edition = 0
  /\ inquiry = NoInquiry
  /\ agents = 0 /\ quota = -1

Ends(i, code, why, mode, records, time) ==
  inquiry' = [i EXCEPT !.state = "over",
                       !.reply = [code |-> code, why |-> why, mode |-> mode,
                                  records |-> records, time |-> time]]

(* A failed map query is the caller's error, a fixture that never leaves   *)
(* the machine an internal one, a stream that does not answer is offline.  *)
FailureCode(f) ==
  CASE f = "overpass" -> 400 [] f \in {"launches", "weather"} -> 500
    [] f = "check" -> 200 [] OTHER -> 502
Fails(i, why) == Ends(i, FailureCode(i.feed), why, "none", {}, 0)
-----------------------------------------------------------------------------
(* A box that is not whole is refused for flights and ignored elsewhere.   *)
Unboxed(i) == i.box.given # "whole"

(* Mutant of InBox: what has no position is kept.                          *)
InBoxOrNowhere(i, r) == Unboxed(i) \/ r.at \in i.box.of \cup {Nowhere}
InBox(i, r) == Unboxed(i) \/ r.at \in i.box.of

(* The schema of a source's reply refuses the whole of it for one record.  *)
RefusedReply(f, records) ==
  \E r \in records : \/ f \in {"gbfs", "ships"} /\ r.at \notin Somewhere
                     \/ f = "quakes" /\ r.at = Nowhere

(* What each adapter keeps of a reply (live) or of its fixture.            *)
KeptFlights(i, records) == {r \in records : r.at # OffGlobe /\ InBox(i, r)}
KeptQuakes(i, records) == {r \in records : r.size >= i.least /\ InBox(i, r)}

(* The live sources of ships and hotspots are sent the box and not checked. *)
KeptShips(i, records, live) == {r \in records : live \/ InBox(i, r)}
KeptHotspots(i, records, live) ==
  {r \in records : r.at # Nowhere /\ (live \/ InBox(i, r))}

(* A catalog is narrowed to an agency, or to a category, and to the box.   *)
KeptCameras(i, records) == {r \in records : (i.least # 0 => r.size = i.least) /\ InBox(i, r)}
KeptRadio(i, records) == {r \in records : (i.least # 0 => r.size = i.least) /\ InBox(i, r)}

Kept(i, records, live) ==
  CASE i.feed = "flights" -> KeptFlights(i, records)
    [] i.feed = "quakes"  -> KeptQuakes(i, records)
    [] i.feed = "ships"   -> KeptShips(i, records, live)
    [] i.feed = "firms"   -> KeptHotspots(i, records, live)
    [] i.feed = "gbfs"    -> {r \in records : InBox(i, r)}
    [] i.feed = "cctv"    -> KeptCameras(i, records)
    [] i.feed = "radio"   -> KeptRadio(i, records)
    [] OTHER              -> records

(* The schema of the answer refuses it for one record out of range.        *)
RefusedAnswer(f, kept) == f \in {"quakes", "firms"} /\ \E r \in kept : r.at = OffGlobe

(* GBFS: the stations of one reply with the bikes of the other, none for a *)
(* station the other does not name.                                        *)
Joined(stations, counts) ==
  {[id |-> r.id, at |-> r.at,
    size |-> IF \E c \in counts : c.id = r.id
             THEN (CHOOSE c \in counts : c.id = r.id).size ELSE 0] : r \in stations}

Newer(i, j) == IF i > j THEN i ELSE j

AnswerFrom(i) ==
  LET first == i.held[1]
      last == i.held[Len(i.held)]
      raw == Published[first] \cup Published[last]
      records == IF i.feed = "gbfs" THEN Joined(Published[first], Published[last])
                 ELSE Published[first]
      kept == Kept(i, records, TRUE)
  IN CASE i.feed \in Proxied \cup {"overpass"} -> Ends(i, 200, "passed_on", "live", {}, first)
       [] i.feed \in Batches /\ (RefusedReply(i.feed, raw) \/ RefusedAnswer(i.feed, kept)) ->
            Fails(i, "refused")
       [] OTHER -> Ends(i, 200, "answered", "live", kept, Newer(first, last))
-----------------------------------------------------------------------------
(* sanitizeOverpassQuery: every box of the query must be in order and      *)
(* small enough; the caller's own box, else the first of them, replaces    *)
(* them all; the query's time limit is kept within bounds.                 *)
Sanitized(q) ==
  IF q.excessive \/ (\E k \in DOMAIN q.boxes : q.boxes[k].span # "small")
     \/ (q.boxes = <<>> /\ q.own = "none")
  THEN <<>>
  ELSE <<[box |-> IF q.own # "none" THEN q.own ELSE q.boxes[1].name,
          seconds |-> CASE q.seconds = 0 -> q.default
                        [] q.seconds > MostSeconds -> MostSeconds
                        [] OTHER -> q.seconds]>>

(* Fixtures alone, and in seed mode all but the camera and radio proxies.  *)
Replayed(f) == f \in Recordings \/ (playback /\ f \notin {"snapshot", "stream"})

Begins(i) ==
  /\ inquiry = NoInquiry
  /\ inquiry' = [i EXCEPT !.state = IF Replayed(i.feed) THEN "replays" ELSE "resolves"]
  /\ UNCHANGED <<playback, edition, agents, quota>>

Refuses(i, code, why) ==
  /\ inquiry = NoInquiry
  /\ Ends(i, code, why, "none", {}, 0)
  /\ UNCHANGED <<playback, edition, agents, quota>>

(* The routes.  A box that is not whole is refused for flights only.       *)
AskFlights(b) ==
  LET i == [NoInquiry EXCEPT !.feed = "flights", !.box = b] IN
  IF b.given \in {"half", "broken"} THEN Refuses(i, 400, "box") ELSE Begins(i)

AskQuakes(b, least) == Begins([NoInquiry EXCEPT !.feed = "quakes", !.box = b, !.least = least])
AskShips(b) == Begins([NoInquiry EXCEPT !.feed = "ships", !.box = b])
AskHotspots(b) == Begins([NoInquiry EXCEPT !.feed = "firms", !.box = b])
AskStations(b) == Begins([NoInquiry EXCEPT !.feed = "gbfs", !.box = b])
AskLaunches == Begins([NoInquiry EXCEPT !.feed = "launches"])
AskWeather == Begins([NoInquiry EXCEPT !.feed = "weather"])

(* An agency is taken as it is, a category that does not parse is dropped. *)
AskCameras(b, agency) == Begins([NoInquiry EXCEPT !.feed = "cctv", !.box = b, !.least = agency])
AskRadio(b, category) ==
  Begins([NoInquiry EXCEPT !.feed = "radio", !.box = b,
                           !.least = IF category \in 1..2 THEN category ELSE 0])

(* POST /api/overpass.                                                     *)
AskMapQuery(q) ==
  LET i == [NoInquiry EXCEPT !.feed = "overpass", !.query = Sanitized(q)] IN
  IF Sanitized(q) = <<>> THEN Refuses(i, 400, "query") ELSE Begins(i)

(* A camera or a station that is not known, whose address the allowlists   *)
(* leave out, or that is fetched; in seed mode a check fetches nothing.    *)
AskSnapshot(known, allowed) ==
  LET i == [NoInquiry EXCEPT !.feed = "snapshot"] IN
  CASE ~known -> Refuses(i, 404, "unknown")
    [] known /\ ~allowed -> Refuses(i, 502, "not_allowed")
    [] OTHER -> Begins(i)

AskStream(known, allowed) ==
  LET i == [NoInquiry EXCEPT !.feed = "stream"] IN
  CASE ~known -> Refuses(i, 404, "unknown")
    [] known /\ ~allowed -> Refuses(i, 502, "not_allowed")
    [] OTHER -> Begins(i)

CheckHealth(allowed) ==
  LET i == [NoInquiry EXCEPT !.feed = "check"] IN
  IF allowed \/ playback THEN Begins(i) ELSE Refuses(i, 200, "not_allowed")

(* The fixture is filtered as a reply is; its answer always says seed.  It *)
(* may be missing or malformed; a check and a map query have none.         *)
Replay(readable) ==
  LET synthetic == inquiry.feed \in {"check", "overpass"}
      kept == IF synthetic THEN {} ELSE Kept(inquiry, Recorded, FALSE)
  IN /\ inquiry.state = "replays"
     /\ synthetic => readable
     /\ IF readable THEN Ends(inquiry, 200, "replayed", "seed", kept, 0)
        ELSE Fails(inquiry, "fixture")
     /\ UNCHANGED <<playback, edition, agents, quota>>
-----------------------------------------------------------------------------
(* resolveAndValidateHost: no address, or one that is not public, ends the *)
(* request; otherwise the connection is pinned to one of them.             *)
(* Mutant of Valid: one public address is enough.                          *)
ValidIfAny(found) == "public" \in found
Valid(found) == found = {"public"}

ResolveHost(found) ==
  /\ inquiry.state = "resolves"
  /\ IF Valid(found)
     THEN /\ \E a \in found : inquiry' = [inquiry EXCEPT !.state = "sent", !.pinned = a,
                                                        !.fetches = @ + 1]
          /\ agents' = agents + 1
     ELSE Fails(inquiry, "address") /\ UNCHANGED agents
  /\ UNCHANGED <<playback, edition, quota>>

(* No response: a timeout, a redirect, a declared length above the cap.    *)
NotFetched(why) ==
  /\ inquiry.state = "sent"
  /\ Fails(inquiry, why)
  /\ agents' = agents - 1
  /\ UNCHANGED <<playback, edition, quota>>

(* A response that is not ok: its body, if it has one, is left unread, and *)
(* the connection open.  A radio stream is passed on whatever its status.  *)
StatusNotOk(hasBody) ==
  /\ inquiry.state = "sent" /\ inquiry.feed # "stream"
  /\ Fails(inquiry, "http_error")
  /\ agents' = IF hasBody /\ inquiry.feed # "check" THEN agents ELSE agents - 1
  /\ UNCHANGED <<playback, edition, quota>>

(* The head of a response: bike stations are fetched a second time for     *)
(* their bikes before either body is read.                                 *)
HeadArrives(remaining) ==
  LET held == Append(inquiry.held, edition)
      more == inquiry.feed = "gbfs" /\ Len(held) = 1
  IN /\ inquiry.state = "sent"
     /\ inquiry' = [inquiry EXCEPT !.held = held, !.state = IF more THEN "resolves" ELSE "reads"]
     /\ quota' = IF inquiry.feed = "flights" /\ remaining >= 0 THEN remaining ELSE quota
     /\ UNCHANGED <<playback, edition, agents>>

BodyRead ==
  /\ inquiry.state = "reads"
  /\ AnswerFrom(inquiry)
  /\ agents' = agents - inquiry.fetches
  /\ UNCHANGED <<playback, edition, quota>>

(* A body above the cap closes its connection, one that breaks off does    *)
(* not; the one before it may have been read.  A stream has answered by    *)
(* then.                                                                   *)
BodyFails(tooLarge, before) ==
  /\ inquiry.state = "reads" /\ before < inquiry.fetches
  /\ IF inquiry.feed = "stream" THEN Ends(inquiry, 200, "cut_off", "live", {}, inquiry.held[1])
     ELSE Fails(inquiry, IF tooLarge THEN "too_large" ELSE "broken_off")
  /\ agents' = agents - before - (IF tooLarge THEN 1 ELSE 0)
  /\ UNCHANGED <<playback, edition, quota>>

(* Environment: the source publishes again.                                *)
Publishes ==
  /\ inquiry.state \in {"sent", "resolves", "reads"}
  /\ edition < LastEdition
  /\ edition' = edition + 1
  /\ UNCHANGED <<playback, inquiry, agents, quota>>

PublicNext ==
  \/ \E b \in Boxings : AskFlights(b) \/ AskShips(b) \/ AskHotspots(b) \/ AskStations(b)
  \/ \E b \in Boxings, least \in 0..2 : AskQuakes(b, least)
  \/ \E b \in Boxings, agency \in 0..2 : AskCameras(b, agency)
  \/ \E b \in Boxings, category \in 0..3 : AskRadio(b, category)
  \/ AskLaunches \/ AskWeather
  \/ \E q \in MapQueries : AskMapQuery(q)
  \/ \E known, allowed \in BOOLEAN : AskSnapshot(known, allowed) \/ AskStream(known, allowed)
  \/ \E allowed \in BOOLEAN : CheckHealth(allowed)
  \/ \E readable \in BOOLEAN : Replay(readable)
  \/ \E found \in SUBSET {"public", "private"} : ResolveHost(found)
  \/ \E why \in {"timeout", "redirect", "length"} : NotFetched(why)
  \/ \E hasBody \in BOOLEAN : StatusNotOk(hasBody)
  \/ \E remaining \in {-1, 5} : HeadArrives(remaining)
  \/ BodyRead
  \/ \E tooLarge \in BOOLEAN, before \in 0..1 : BodyFails(tooLarge, before)
  \/ Publishes

PublicSpec == PublicInit /\ [][PublicNext]_publicVars

PublicTypeOK ==
  /\ playback \in BOOLEAN /\ edition \in 0..LastEdition /\ agents \in 0..2 /\ quota \in -1..5
  /\ inquiry.state \in {"none", "replays", "resolves", "sent", "reads", "over"}
  /\ inquiry.fetches \in 0..2
-----------------------------------------------------------------------------
InquiryOver == inquiry.state = "over"
Says200 == InquiryOver /\ inquiry.reply.code = 200

(* A whole box is kept to, but for what the live sources of ships and      *)
(* hotspots send beside it, and so is a least magnitude; nothing is        *)
(* answered that was in no publication of the source or in the fixture.    *)
AnswersAsked ==
  Says200 => \A r \in inquiry.reply.records :
    /\ (~Unboxed(inquiry) /\ ~(inquiry.reply.mode = "live" /\ inquiry.feed \in {"ships", "firms"}))
         => r.at \in inquiry.box.of
    /\ r.at # OffGlobe
    /\ inquiry.feed = "quakes" => r.size >= inquiry.least
    /\ \E s \in Recorded \cup UNION {Published[e] : e \in 0..LastEdition} : s.id = r.id

(* Nothing that is asked for is lost: every record in bounds of what was   *)
(* fetched, and every fixture, is in an answer to a request without limits.*)
NothingLost ==
  (Says200 /\ Unboxed(inquiry) /\ inquiry.least = 0 /\ inquiry.feed \in Batches) =>
    LET of == IF inquiry.reply.mode = "seed" THEN Recorded ELSE Published[inquiry.held[1]]
    IN \A s \in of : s.at \in Somewhere => \E r \in inquiry.reply.records : r.id = s.id

(* In seed mode a feed fetches nothing (opensky.ts: zero network calls),   *)
(* what comes from a fixture says so, and what says live was fetched.      *)
ModesTrue ==
  /\ (playback /\ inquiry.feed \notin {"snapshot", "stream"}) => inquiry.fetches = 0
  /\ Says200 /\ inquiry.reply.mode = "live" => inquiry.held # <<>>
  /\ inquiry.feed \in Recordings => inquiry.reply.mode # "live" /\ inquiry.fetches = 0

(* Every connection is to an address that was found public, and one still  *)
(* open when the request is over belongs to a body that was never read to  *)
(* its end.                                                                *)
ConnectionsKept ==
  /\ inquiry.fetches > 0 => inquiry.pinned = "public"
  /\ InquiryOver => (agents > 0 =>
       \/ inquiry.reply.why \in {"http_error", "broken_off", "cut_off"}
       \/ inquiry.feed = "gbfs" /\ inquiry.fetches + Len(inquiry.held) > 1)
  /\ InquiryOver /\ inquiry.reply.why \in {"answered", "passed_on"} => agents = 0

(* A map query that is sent has a box and a time limit within bounds.      *)
QueriesBounded ==
  inquiry.feed = "overpass" /\ inquiry.fetches > 0 =>
    inquiry.query # <<>> /\ inquiry.query[1].seconds \in 1..MostSeconds

(* What the public feeds promise together.                                 *)
FeedsTrue == AnswersAsked /\ NothingLost /\ ModesTrue /\ ConnectionsKept /\ QueriesBounded
=============================================================================
