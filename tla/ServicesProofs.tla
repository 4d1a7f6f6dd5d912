---------------------------- MODULE ServicesProofs ----------------------------
(***************************************************************************)
(* The services of the platform side by side (MCServices) are each that    *)
(* service: a step of one leaves the others alone and starts them no       *)
(* other way, so what is proved of each holds of all of them together.     *)
(***************************************************************************)
EXTENDS MCServices, AuditChainProofs, ServerProofs, EdgeProofs, SourceProofs, EvidenceProofs

-----------------------------------------------------------------------------
(* A step of the services is a step of each of the server's or leaves it   *)
(* alone.                                                                  *)
LEMMA ServerSteps ==
  ASSUME [ServicesNext]_servicesVars
  PROVE  /\ [AuditChainNext]_auditChainVars
         /\ [LayerNext]_layerVars
         /\ [ApprovalNext]_approvalVars
         /\ [RoutesNext]_routeVars
         /\ [BillableNext]_billableVars
         /\ [GateNext]_gateVars
         /\ [GuardNext]_guardVars
<1>1. CASE UNCHANGED servicesVars
  BY <1>1 DEF servicesVars, serverVars
<1>2. CASE ServerNext
  BY <1>2 DEF ServerNext
<1>3. CASE UNCHANGED serverVars
  BY <1>3 DEF serverVars
<1> QED BY <1>1, <1>2, <1>3 DEF ServicesNext

(* The same of the clients.                                                *)
LEMMA ClientSteps ==
  ASSUME [ServicesNext]_servicesVars
  PROVE  /\ [CollabNext]_collabVars
         /\ [VoiceNext]_voiceVars
         /\ [FeedNext]_feedVars
<1>1. CASE UNCHANGED servicesVars
  BY <1>1 DEF servicesVars, clientVars
<1>2. CASE ClientNext
  BY <1>2 DEF ClientNext
<1>3. CASE UNCHANGED clientVars
  BY <1>3 DEF clientVars
<1> QED BY <1>1, <1>2, <1>3 DEF ServicesNext

(* The same of the data sources.                                           *)
LEMMA SourceSteps ==
  ASSUME [ServicesNext]_servicesVars
  PROVE  /\ [CatalogNext]_catalogVars
         /\ [OfficialNext]_officialVars
         /\ [EvidenceNext]_evidenceVars
         /\ [AnalysisNext]_analysisVars
         /\ [PublicNext]_publicVars
         /\ [CableNext]_cableVars
<1>1. CASE UNCHANGED servicesVars
  BY <1>1 DEF servicesVars, sourceVars
<1>2. CASE SourceNext
  BY <1>2 DEF SourceNext
<1>3. CASE UNCHANGED sourceVars
  BY <1>3 DEF sourceVars
<1> QED BY <1>1, <1>2, <1>3 DEF ServicesNext

(* The same of the audit stream and the analysis desk.                     *)
LEMMA OperatorSteps ==
  ASSUME [ServicesNext]_servicesVars
  PROVE  /\ [StreamNext]_streamVars
         /\ [DeskNext]_deskVars
<1>1. CASE UNCHANGED servicesVars
  BY <1>1 DEF servicesVars, operatorVars
<1>2. CASE OperatorNext
  BY <1>2 DEF OperatorNext
<1>3. CASE UNCHANGED operatorVars
  BY <1>3 DEF operatorVars
<1> QED BY <1>1, <1>2, <1>3 DEF ServicesNext

(* The behaviours of the services side by side are behaviours of each.     *)
THEOREM ServicesRefine ==
  ServicesSpec =>
    /\ AuditChainSpec /\ LayerSpec /\ ApprovalSpec /\ RoutesSpec /\ BillableSpec
    /\ GateSpec /\ GuardSpec /\ CollabSpec /\ VoiceSpec /\ FeedSpec
    /\ CatalogSpec /\ OfficialSpec /\ EvidenceSpec /\ AnalysisSpec /\ PublicSpec
    /\ CableSpec /\ StreamSpec /\ DeskSpec
<1>1. ServicesInit =>
        /\ AuditChainInit /\ LayerInit /\ ApprovalInit /\ RoutesInit /\ BillableInit
        /\ GateInit /\ GuardInit /\ CollabInit /\ VoiceInit /\ FeedInit
        /\ CatalogInit /\ OfficialInit /\ EvidenceInit /\ AnalysisInit /\ PublicInit
        /\ CableInit /\ StreamInit /\ DeskInit
  BY DEF ServicesInit
<1>2. [ServicesNext]_servicesVars =>
        /\ [AuditChainNext]_auditChainVars /\ [LayerNext]_layerVars /\ [ApprovalNext]_approvalVars
        /\ [RoutesNext]_routeVars /\ [BillableNext]_billableVars /\ [GateNext]_gateVars
        /\ [GuardNext]_guardVars /\ [CollabNext]_collabVars /\ [VoiceNext]_voiceVars
        /\ [FeedNext]_feedVars /\ [CatalogNext]_catalogVars /\ [OfficialNext]_officialVars
        /\ [EvidenceNext]_evidenceVars /\ [AnalysisNext]_analysisVars /\ [PublicNext]_publicVars
        /\ [CableNext]_cableVars /\ [StreamNext]_streamVars /\ [DeskNext]_deskVars
  BY ServerSteps, ClientSteps, SourceSteps, OperatorSteps
<1> QED BY <1>1, <1>2, PTL DEF ServicesSpec,
      AuditChainSpec, LayerSpec, ApprovalSpec, RoutesSpec, BillableSpec,
      GateSpec, GuardSpec, CollabSpec, VoiceSpec, FeedSpec,
      CatalogSpec, OfficialSpec, EvidenceSpec, AnalysisSpec, PublicSpec,
      CableSpec, StreamSpec, DeskSpec

-----------------------------------------------------------------------------
(* Which service moves is settled at the start.                            *)
Services ==
  {"audit chain", "layer access", "approval", "routes", "billable",
   "gate", "collaboration", "voice", "feeds", "catalog", "official", "guards",
   "evidence", "analysis", "public", "cables", "stream", "desk"}

LEMMA OneService == ServicesSpec => [](focus \in Services)
<1>1. ServicesInit => focus \in Services
  BY DEF ServicesInit, Services
<1>2. focus \in Services /\ [ServicesNext]_servicesVars => (focus \in Services)'
  BY DEF ServicesNext, servicesVars
<1> QED BY <1>1, <1>2, PTL DEF ServicesSpec

TypesHold ==
  /\ AuditTypeOK /\ LayerTypeOK /\ ApprovalTypeOK /\ RoutesTypeOK /\ BillableTypeOK /\ GateTypeOK
  /\ CollabTypeOK /\ VoiceTypeOK /\ FeedTypeOK /\ CatalogTypeOK /\ OfficialTypeOK /\ GuardTypeOK
  /\ EvidenceTypeOK /\ AnalysisTypeOK /\ PublicTypeOK /\ CableTypeOK /\ StreamTypeOK /\ DeskTypeOK

(* For any value of the constants: the state of the service that moves has *)
(* its type, whichever of the eighteen it is.                              *)
THEOREM ServicesTypeCorrect == ServicesSpec => []ServicesTypeOK
<1>1. focus \in Services /\ TypesHold => ServicesTypeOK
  BY DEF Services, TypesHold, ServicesTypeOK
<1>2. ServicesSpec => []TypesHold
  BY ServicesRefine, AuditTypeCorrect, LayerTypeCorrect, ApprovalTypeCorrect, RoutesTypeCorrect,
     BillableTypeCorrect, GateTypeCorrect, CollabTypeCorrect, VoiceTypeCorrect, FeedTypeCorrect,
     CatalogTypeCorrect, OfficialTypeCorrect, GuardTypeCorrect, EvidenceTypeCorrect, AnalysisTypeCorrect,
     PublicTypeCorrect, CableTypeCorrect, StreamTypeCorrect, DeskTypeCorrect, PTL DEF TypesHold
<1> QED BY <1>1, <1>2, OneService, PTL

(* For any value of the constants: what is answered is what it claims to   *)
(* be, whichever source answers (satellites.ts, the official and public    *)
(* feeds, the evidence providers and the analyses made of them, cables.ts, *)
(* registry.ts, auditStream.ts).                                           *)
THEOREM ServicesHonest == ServicesSpec => []SourcesHonest
BY ServicesRefine, CatalogAlwaysHonest, OfficialAlwaysHonest, EvidenceAlwaysHonest, AnalysesAlwaysSound,
   FeedsAlwaysTrue, CableAlwaysTrue, StreamAlwaysTrue, DeskAlwaysTrue, PTL DEF SourcesHonest

(* What the server's services promise, together.                           *)
ServerPromises ==
  /\ ChainIntact /\ VerdictSound /\ QuietVerdictTrue /\ UnlockJustified
  /\ ApprovedOnce /\ ApprovedMeansSigned /\ PromptDecisionHeeded
  /\ OutcomeForEveryAnswer /\ OutcomesTrue /\ AnswerMatchesCharge /\ CacheTruthful
  /\ SlotsHeldWhileWorking /\ GuardsHold

(* What its clients promise, together.                                     *)
ClientPromises == RoomConverges /\ OneVoiceSession /\ VoiceInSync /\ DrawnCurrent /\ LockedHidden

(* For any value of the constants: every promise of a service holds of all *)
(* of them side by side, a deleted layer stays deleted and the audit chain *)
(* is the log it implements (packages/governance, apps/server, apps/web).  *)
THEOREM ServicesKeepPromises ==
  ServicesSpec => [](ServerPromises /\ ClientPromises) /\ DeletedStaysDeleted /\ ImplementsAuditLog
<1>1. ServicesSpec => []ServerPromises
  BY ServicesRefine, AuditChainIntact, ValidOnlyIfIntact, QuietVerdictsTrue, LayerUnlockJustified,
     ApprovalOnce, ApprovalSigned, ApprovalHeeded, RoutesOutcomes, RoutesTrue, ChargeAlwaysMatches,
     CacheAlwaysTruthful, GateHoldsSlots, GuardsAlwaysHold, PTL DEF ServerPromises
<1>2. ServicesSpec => []ClientPromises
  BY ServicesRefine, RoomsConverge, VoiceOneSession, VoiceShowsSession, DrawnAlwaysCurrent,
     LockedAlwaysHidden, PTL DEF ClientPromises
<1>3. ServicesSpec => DeletedStaysDeleted
  BY ServicesRefine, LayerDeletedStays
<1>4. ServicesSpec => ImplementsAuditLog
  BY ServicesRefine, AuditImplementsLog
<1> QED BY <1>1, <1>2, <1>3, <1>4, PTL
=============================================================================
