------------------------ MODULE DialogueSessionProofs ------------------------
(***************************************************************************)
(* Safety of the dialogue for any number of workers, turns, decisions and  *)
(* crashes and any revision limit.  The inductive invariant adds to the    *)
(* properties of DialogueSession what a running handler carries (JobInv)   *)
(* and what a confirmation has cost so far (ClaimInv).  For one worker,    *)
(* whose handlers nobody overtakes, SerialInv adds the rest.               *)
(***************************************************************************)
EXTENDS DialogueSession, TLAPS

MessageLocations == {"append", "claim", "propose", "revise", "finishBrief",
                     "readRevision", "revision"}
ImageLocations   == {"image", "persist", "finishImage", "imageFailed"}

\* What a handler carries at each point of its code.
JobInv == \A w \in Workers :
  /\ job[w].at \in MessageLocations => job[w].arg \in Turns
  /\ job[w].at \in ImageLocations => job[w].arg \in Decisions
  /\ job[w].at \in {"finishBrief", "text", "revision", "visual"} =>
       job[w].draft # {}
  /\ job[w].at \in {"readRevision", "revision"} => brief # {} /\ text # {}

\* A confirmation is claimed by one handler, which calls the provider once.
ClaimInv ==
  /\ imageClaims \subseteq receipts
  /\ \A d \in Decisions : calls[d] \in {0, 1} /\ (calls[d] = 1 => d \in imageClaims)
  /\ \A w \in Workers : job[w].at = "image" =>
       job[w].arg \in imageClaims /\ calls[job[w].arg] = 0
  /\ \A v, w \in Workers :
       job[v].at = "image" /\ job[w].at = "image" /\ job[v].arg = job[w].arg => v = w

LEMMA InitTypeOK == Init => TypeOK
  BY DialogueAssumption DEF Init, TypeOK, Statuses, Job, Idle, Locations, Stages

\* Every step keeps the types, given what the handlers carry.
LEMMA NextTypeOK == TypeOK /\ JobInv /\ [Next]_vars => TypeOK'
<1> SUFFICES ASSUME TypeOK, JobInv, [Next]_vars PROVE TypeOK'
  OBVIOUS
<1> USE DEF TypeOK, Job, Locations, Statuses, row, observed
<1>1. ASSUME NEW w \in Workers, ClientRequest(w) PROVE TypeOK'
  <2>1. ASSUME NEW t \in Turns, ReceiveMessage(w, t) PROVE TypeOK'
    BY <2>1 DEF ReceiveMessage, Start
  <2>2. ASSUME NEW d \in Decisions, ConfirmBrief(w, d) PROVE TypeOK'
    BY <2>2 DEF ConfirmBrief, Decide, Start
  <2>3. ASSUME NEW d \in Decisions, ConfirmProductText(w, d) PROVE TypeOK'
    BY <2>3 DEF ConfirmProductText, Decide, Start
  <2>4. ASSUME NEW d \in Decisions, ConfirmImage(w, d) PROVE TypeOK'
    BY <2>4 DEF ConfirmImage, Decide, Start
  <2>5. ASSUME NEW d \in Decisions, UnsupportedDecision(w, d) PROVE TypeOK'
    BY <2>5 DEF UnsupportedDecision
  <2>6. QED
    BY <1>1, <2>1, <2>2, <2>3, <2>4, <2>5 DEF ClientRequest
<1>2. ASSUME NEW w \in Workers, HandlerStep(w) PROVE TypeOK'
  <2> USE DEF JobInv, MessageLocations, ImageLocations, GoTo, Done, Draft, Idle, StoreTurn
  <2>1. CASE MessageReplayed(w) BY <2>1 DEF MessageReplayed
  <2>2. CASE MessageForBrief(w) BY <2>2 DEF MessageForBrief
  <2>3. CASE MessageForText(w) BY <2>3 DEF MessageForText
  <2>4. CASE MessageRefused(w) BY <2>4 DEF MessageRefused
  <2>5. CASE CallBriefAgent(w) BY <2>5 DEF CallBriefAgent
  <2>6. CASE FinishBrief(w) BY <2>6 DEF FinishBrief
  <2>7. CASE FailBrief(w) BY <2>7 DEF FailBrief
  <2>8. CASE ClaimRevision(w) BY <2>8 DEF ClaimRevision
  <2>9. CASE ReadForText(w) BY <2>9 DEF ReadForText
  <2>10. CASE FinishText(w) BY <2>10, DialogueAssumption DEF FinishText
  <2>11. CASE FailText(w) BY <2>11 DEF FailText
  <2>12. CASE FailRevision(w) BY <2>12 DEF FailRevision
  <2>13. CASE ReadForVisual(w) BY <2>13 DEF ReadForVisual
  <2>14. CASE FinishVisual(w) BY <2>14 DEF FinishVisual
  <2>15. CASE FailVisual(w) BY <2>15 DEF FailVisual
  <2>16. CASE CallImageProvider(w) BY <2>16 DEF CallImageProvider
  <2>17. CASE FinishImage(w) BY <2>17 DEF FinishImage
  <2>18. CASE RecordImageFailure(w) BY <2>18 DEF RecordImageFailure
  <2>19. CASE PersistImage(w) BY <2>19 DEF PersistImage
  <2>20. QED
    BY <1>2, <2>1, <2>2, <2>3, <2>4, <2>5, <2>6, <2>7, <2>8, <2>9, <2>10, <2>11,
       <2>12, <2>13, <2>14, <2>15, <2>16, <2>17, <2>18, <2>19 DEF HandlerStep
<1>3. ASSUME NEW w \in Workers, Crash(w) PROVE TypeOK'
  BY <1>3, DialogueAssumption DEF Crash, Done, Idle, Stages
<1>4. CASE UNCHANGED vars
  BY <1>4 DEF vars
<1>5. QED
  BY <1>1, <1>2, <1>3, <1>4 DEF Next

\* What a handler carries is right after every step.
LEMMA NextJobInv ==
  TypeOK /\ JobInv /\ ConfirmableContent /\ [Next]_vars
    => JobInv'
<1> SUFFICES ASSUME TypeOK, JobInv, ConfirmableContent, [Next]_vars PROVE JobInv'
  OBVIOUS
<1> USE DEF TypeOK, Job, Locations, row, observed, GoTo, Done, Draft, Start, Idle,
     JobInv, MessageLocations, ImageLocations, ConfirmableContent
<1>1. ASSUME NEW w \in Workers, ClientRequest(w) PROVE JobInv'
  <2>1. ASSUME NEW t \in Turns, ReceiveMessage(w, t) PROVE JobInv'
    BY <2>1 DEF ReceiveMessage
  <2>2. ASSUME NEW d \in Decisions, ConfirmBrief(w, d) PROVE JobInv'
    BY <2>2 DEF ConfirmBrief, Decide
  <2>3. ASSUME NEW d \in Decisions, ConfirmProductText(w, d) PROVE JobInv'
    BY <2>3 DEF ConfirmProductText, Decide
  <2>4. ASSUME NEW d \in Decisions, ConfirmImage(w, d) PROVE JobInv'
    BY <2>4 DEF ConfirmImage, Decide
  <2>5. ASSUME NEW d \in Decisions, UnsupportedDecision(w, d) PROVE JobInv'
    BY <2>5 DEF UnsupportedDecision
  <2>6. QED
    BY <1>1, <2>1, <2>2, <2>3, <2>4, <2>5 DEF ClientRequest
<1>2. ASSUME NEW w \in Workers, HandlerStep(w) PROVE JobInv'
  <2>1. CASE MessageReplayed(w) BY <2>1 DEF MessageReplayed, StoreTurn
  <2>2. CASE MessageForBrief(w) BY <2>2 DEF MessageForBrief, StoreTurn
  <2>3. CASE MessageForText(w) BY <2>3 DEF MessageForText, StoreTurn
  <2>4. CASE MessageRefused(w) BY <2>4 DEF MessageRefused, StoreTurn
  <2>5. CASE CallBriefAgent(w)
    <3>1. PICK base \in {{}, brief} : Draft(w, "finishBrief", base \cup {job[w].arg})
      BY <2>5 DEF CallBriefAgent
    <3>2. base \cup {job[w].arg} # {}
      OBVIOUS
    <3>3. job[w].arg \in Turns
      BY <2>5 DEF CallBriefAgent
    <3>4. UNCHANGED <<brief, text>>
      BY <2>5 DEF CallBriefAgent
    <3>5. QED
      BY <3>1, <3>2, <3>3, <3>4
  <2>6. CASE FinishBrief(w) BY <2>6 DEF FinishBrief
  <2>7. CASE FailBrief(w) BY <2>7 DEF FailBrief
  <2>8. CASE ClaimRevision(w) BY <2>8 DEF ClaimRevision
  <2>9. CASE ReadForText(w) BY <2>9 DEF ReadForText
  <2>10. CASE FinishText(w) BY <2>10 DEF FinishText
  <2>11. CASE FailText(w) BY <2>11 DEF FailText
  <2>12. CASE FailRevision(w) BY <2>12 DEF FailRevision
  <2>13. CASE ReadForVisual(w) BY <2>13 DEF ReadForVisual
  <2>14. CASE FinishVisual(w) BY <2>14 DEF FinishVisual
  <2>15. CASE FailVisual(w) BY <2>15 DEF FailVisual
  <2>16. CASE CallImageProvider(w) BY <2>16 DEF CallImageProvider
  <2>17. CASE FinishImage(w) BY <2>17 DEF FinishImage
  <2>18. CASE RecordImageFailure(w) BY <2>18 DEF RecordImageFailure
  <2>19. CASE PersistImage(w) BY <2>19 DEF PersistImage
  <2>20. QED
    BY <1>2, <2>1, <2>2, <2>3, <2>4, <2>5, <2>6, <2>7, <2>8, <2>9, <2>10, <2>11,
       <2>12, <2>13, <2>14, <2>15, <2>16, <2>17, <2>18, <2>19 DEF HandlerStep
<1>3. ASSUME NEW w \in Workers, Crash(w) PROVE JobInv'
  BY <1>3, DialogueAssumption DEF Crash
<1>4. CASE UNCHANGED vars
  BY <1>4 DEF vars
<1>5. QED
  BY <1>1, <1>2, <1>3, <1>4 DEF Next

\* No column a confirmation needs is emptied, and each stage fills its own.
LEMMA NextConfirmableContent ==
  TypeOK /\ JobInv /\ ConfirmableContent /\ [Next]_vars
    => ConfirmableContent'
<1> SUFFICES ASSUME TypeOK, JobInv, ConfirmableContent, [Next]_vars PROVE ConfirmableContent'
  OBVIOUS
<1> USE DEF TypeOK, JobInv, ConfirmableContent, row, observed, Statuses
<1>1. ASSUME NEW w \in Workers, ClientRequest(w) PROVE ConfirmableContent'
  <2>1. ASSUME NEW t \in Turns, ReceiveMessage(w, t) PROVE ConfirmableContent'
    BY <2>1 DEF ReceiveMessage
  <2>2. ASSUME NEW d \in Decisions, ConfirmBrief(w, d) PROVE ConfirmableContent'
    BY <2>2 DEF ConfirmBrief, Decide
  <2>3. ASSUME NEW d \in Decisions, ConfirmProductText(w, d) PROVE ConfirmableContent'
    BY <2>3 DEF ConfirmProductText, Decide
  <2>4. ASSUME NEW d \in Decisions, ConfirmImage(w, d) PROVE ConfirmableContent'
    BY <2>4 DEF ConfirmImage, Decide
  <2>5. ASSUME NEW d \in Decisions, UnsupportedDecision(w, d) PROVE ConfirmableContent'
    BY <2>5 DEF UnsupportedDecision
  <2>6. QED
    BY <1>1, <2>1, <2>2, <2>3, <2>4, <2>5 DEF ClientRequest
<1>2. ASSUME NEW w \in Workers, HandlerStep(w) PROVE ConfirmableContent'
  <2>1. CASE MessageReplayed(w) BY <2>1 DEF MessageReplayed, StoreTurn
  <2>2. CASE MessageForBrief(w) BY <2>2 DEF MessageForBrief, StoreTurn
  <2>3. CASE MessageForText(w) BY <2>3 DEF MessageForText, StoreTurn
  <2>4. CASE MessageRefused(w) BY <2>4 DEF MessageRefused, StoreTurn
  <2>5. CASE CallBriefAgent(w) BY <2>5 DEF CallBriefAgent
  <2>6. CASE FinishBrief(w) BY <2>6 DEF FinishBrief
  <2>7. CASE FailBrief(w) BY <2>7 DEF FailBrief
  <2>8. CASE ClaimRevision(w) BY <2>8 DEF ClaimRevision
  <2>9. CASE ReadForText(w) BY <2>9 DEF ReadForText
  <2>10. CASE FinishText(w) BY <2>10 DEF FinishText
  <2>11. CASE FailText(w) BY <2>11 DEF FailText
  <2>12. CASE FailRevision(w) BY <2>12 DEF FailRevision
  <2>13. CASE ReadForVisual(w) BY <2>13 DEF ReadForVisual
  <2>14. CASE FinishVisual(w) BY <2>14 DEF FinishVisual
  <2>15. CASE FailVisual(w) BY <2>15 DEF FailVisual
  <2>16. CASE CallImageProvider(w) BY <2>16 DEF CallImageProvider
  <2>17. CASE FinishImage(w) BY <2>17 DEF FinishImage
  <2>18. CASE RecordImageFailure(w) BY <2>18 DEF RecordImageFailure
  <2>19. CASE PersistImage(w) BY <2>19 DEF PersistImage
  <2>20. QED
    BY <1>2, <2>1, <2>2, <2>3, <2>4, <2>5, <2>6, <2>7, <2>8, <2>9, <2>10, <2>11,
       <2>12, <2>13, <2>14, <2>15, <2>16, <2>17, <2>18, <2>19 DEF HandlerStep
<1>3. ASSUME NEW w \in Workers, Crash(w) PROVE ConfirmableContent'
  BY <1>3 DEF Crash
<1>4. CASE UNCHANGED vars
  BY <1>4 DEF vars
<1>5. QED
  BY <1>1, <1>2, <1>3, <1>4 DEF Next

\* A stage is entered by the handler that works for it, and left with it.
LEMMA NextNoOrphanedStage ==
  TypeOK /\ NoOrphanedStage /\ [Next]_vars
    => NoOrphanedStage'
<1> SUFFICES ASSUME TypeOK, NoOrphanedStage, [Next]_vars PROVE NoOrphanedStage'
  OBVIOUS
<1> USE DEF TypeOK, Job, Locations, row, observed, GoTo, Done, Draft, Start, Idle,
     NoOrphanedStage, Stages, LocationsOf
<1>1. ASSUME NEW w \in Workers, ClientRequest(w) PROVE NoOrphanedStage'
  <2>1. ASSUME NEW t \in Turns, ReceiveMessage(w, t) PROVE NoOrphanedStage'
    BY <2>1 DEF ReceiveMessage
  <2>2. ASSUME NEW d \in Decisions, ConfirmBrief(w, d) PROVE NoOrphanedStage'
    BY <2>2 DEF ConfirmBrief, Decide
  <2>3. ASSUME NEW d \in Decisions, ConfirmProductText(w, d) PROVE NoOrphanedStage'
    BY <2>3 DEF ConfirmProductText, Decide
  <2>4. ASSUME NEW d \in Decisions, ConfirmImage(w, d) PROVE NoOrphanedStage'
    BY <2>4 DEF ConfirmImage, Decide
  <2>5. ASSUME NEW d \in Decisions, UnsupportedDecision(w, d) PROVE NoOrphanedStage'
    BY <2>5 DEF UnsupportedDecision
  <2>6. QED
    BY <1>1, <2>1, <2>2, <2>3, <2>4, <2>5 DEF ClientRequest
<1>2. ASSUME NEW w \in Workers, HandlerStep(w) PROVE NoOrphanedStage'
  <2>1. CASE MessageReplayed(w) BY <2>1 DEF MessageReplayed, StoreTurn
  <2>2. CASE MessageForBrief(w) BY <2>2 DEF MessageForBrief, StoreTurn
  <2>3. CASE MessageForText(w) BY <2>3 DEF MessageForText, StoreTurn
  <2>4. CASE MessageRefused(w) BY <2>4 DEF MessageRefused, StoreTurn
  <2>5. CASE CallBriefAgent(w) BY <2>5 DEF CallBriefAgent
  <2>6. CASE FinishBrief(w) BY <2>6 DEF FinishBrief
  <2>7. CASE FailBrief(w) BY <2>7 DEF FailBrief
  <2>8. CASE ClaimRevision(w) BY <2>8 DEF ClaimRevision
  <2>9. CASE ReadForText(w) BY <2>9 DEF ReadForText
  <2>10. CASE FinishText(w) BY <2>10 DEF FinishText
  <2>11. CASE FailText(w) BY <2>11 DEF FailText
  <2>12. CASE FailRevision(w) BY <2>12 DEF FailRevision
  <2>13. CASE ReadForVisual(w) BY <2>13 DEF ReadForVisual
  <2>14. CASE FinishVisual(w) BY <2>14 DEF FinishVisual
  <2>15. CASE FailVisual(w) BY <2>15 DEF FailVisual
  <2>16. CASE CallImageProvider(w) BY <2>16 DEF CallImageProvider
  <2>17. CASE FinishImage(w) BY <2>17 DEF FinishImage
  <2>18. CASE RecordImageFailure(w) BY <2>18 DEF RecordImageFailure
  <2>19. CASE PersistImage(w) BY <2>19 DEF PersistImage
  <2>20. QED
    BY <1>2, <2>1, <2>2, <2>3, <2>4, <2>5, <2>6, <2>7, <2>8, <2>9, <2>10, <2>11,
       <2>12, <2>13, <2>14, <2>15, <2>16, <2>17, <2>18, <2>19 DEF HandlerStep
<1>3. ASSUME NEW w \in Workers, Crash(w) PROVE NoOrphanedStage'
  BY <1>3 DEF Crash
<1>4. CASE UNCHANGED vars
  BY <1>4 DEF vars
<1>5. QED
  BY <1>1, <1>2, <1>3, <1>4 DEF Next

\* Only ConfirmImage makes a claim, only CallImageProvider spends it.
LEMMA NextClaimInv ==
  TypeOK /\ JobInv /\ ClaimInv /\ [Next]_vars
    => ClaimInv'
<1> SUFFICES ASSUME TypeOK, JobInv, ClaimInv, [Next]_vars PROVE ClaimInv'
  OBVIOUS
<1> USE DEF TypeOK, Job, Locations, row, observed, GoTo, Done, Draft, Start, Idle,
     JobInv, ImageLocations, ClaimInv
<1>1. ASSUME NEW w \in Workers, ClientRequest(w) PROVE ClaimInv'
  <2>1. ASSUME NEW t \in Turns, ReceiveMessage(w, t) PROVE ClaimInv'
    BY <2>1 DEF ReceiveMessage
  <2>2. ASSUME NEW d \in Decisions, ConfirmBrief(w, d) PROVE ClaimInv'
    BY <2>2 DEF ConfirmBrief, Decide
  <2>3. ASSUME NEW d \in Decisions, ConfirmProductText(w, d) PROVE ClaimInv'
    BY <2>3 DEF ConfirmProductText, Decide
  <2>4. ASSUME NEW d \in Decisions, ConfirmImage(w, d) PROVE ClaimInv'
    BY <2>4 DEF ConfirmImage, Decide
  <2>5. ASSUME NEW d \in Decisions, UnsupportedDecision(w, d) PROVE ClaimInv'
    BY <2>5 DEF UnsupportedDecision
  <2>6. QED
    BY <1>1, <2>1, <2>2, <2>3, <2>4, <2>5 DEF ClientRequest
<1>2. ASSUME NEW w \in Workers, HandlerStep(w) PROVE ClaimInv'
  <2>1. CASE MessageReplayed(w) BY <2>1 DEF MessageReplayed, StoreTurn
  <2>2. CASE MessageForBrief(w) BY <2>2 DEF MessageForBrief, StoreTurn
  <2>3. CASE MessageForText(w) BY <2>3 DEF MessageForText, StoreTurn
  <2>4. CASE MessageRefused(w) BY <2>4 DEF MessageRefused, StoreTurn
  <2>5. CASE CallBriefAgent(w) BY <2>5 DEF CallBriefAgent
  <2>6. CASE FinishBrief(w) BY <2>6 DEF FinishBrief
  <2>7. CASE FailBrief(w) BY <2>7 DEF FailBrief
  <2>8. CASE ClaimRevision(w) BY <2>8 DEF ClaimRevision
  <2>9. CASE ReadForText(w) BY <2>9 DEF ReadForText
  <2>10. CASE FinishText(w) BY <2>10 DEF FinishText
  <2>11. CASE FailText(w) BY <2>11 DEF FailText
  <2>12. CASE FailRevision(w) BY <2>12 DEF FailRevision
  <2>13. CASE ReadForVisual(w) BY <2>13 DEF ReadForVisual
  <2>14. CASE FinishVisual(w) BY <2>14 DEF FinishVisual
  <2>15. CASE FailVisual(w) BY <2>15 DEF FailVisual
  <2>16. CASE CallImageProvider(w) BY <2>16 DEF CallImageProvider
  <2>17. CASE FinishImage(w) BY <2>17 DEF FinishImage
  <2>18. CASE RecordImageFailure(w) BY <2>18 DEF RecordImageFailure
  <2>19. CASE PersistImage(w) BY <2>19 DEF PersistImage
  <2>20. QED
    BY <1>2, <2>1, <2>2, <2>3, <2>4, <2>5, <2>6, <2>7, <2>8, <2>9, <2>10, <2>11,
       <2>12, <2>13, <2>14, <2>15, <2>16, <2>17, <2>18, <2>19 DEF HandlerStep
<1>3. ASSUME NEW w \in Workers, Crash(w) PROVE ClaimInv'
  BY <1>3 DEF Crash
<1>4. CASE UNCHANGED vars
  BY <1>4 DEF vars
<1>5. QED
  BY <1>1, <1>2, <1>3, <1>4 DEF Next

\* finish_image_generation, the only handler that writes a log, binds a
\* session that has none yet.
LEMMA NextOneGenerationLog ==
  TypeOK /\ JobInv /\ OneGenerationLog /\ [Next]_vars => OneGenerationLog'
<1> SUFFICES ASSUME TypeOK, JobInv, OneGenerationLog, [Next]_vars
             PROVE OneGenerationLog'
  OBVIOUS
<1>1. ASSUME NEW w \in Workers, FinishImage(w) PROVE OneGenerationLog'
  <2>1. logged = {}
    BY <1>1, DialogueAssumption DEF FinishImage, OneGenerationLog, TypeOK
  <2>2. job[w].arg # None
    BY <1>1, DialogueAssumption DEF FinishImage, JobInv, ImageLocations
  <2>3. QED
    BY <1>1, <2>1, <2>2 DEF FinishImage, OneGenerationLog
<1>2. CASE ~ \E w \in Workers : FinishImage(w)
  <2>1. logged' = logged /\ logId' = logId /\ (status' = "completed" => status = "completed")
    BY <1>2 DEF Next, vars, row, observed, ClientRequest, HandlerStep, ReceiveMessage,
      ConfirmBrief, ConfirmProductText, ConfirmImage, UnsupportedDecision, Crash,
      MessageReplayed, MessageForBrief, MessageForText, MessageRefused,
      CallBriefAgent, FinishBrief, FailBrief, ClaimRevision, ReadForText, FinishText,
      FailText, FailRevision, ReadForVisual, FinishVisual, FailVisual,
      CallImageProvider, PersistImage, RecordImageFailure
  <2>2. QED
    BY <2>1 DEF OneGenerationLog
<1>3. QED
  BY <1>1, <1>2

-----------------------------------------------------------------------------
\* The inductive invariant.
IInv == /\ TypeOK /\ JobInv /\ ClaimInv /\ NoOrphanedStage
        /\ ConfirmableContent /\ OneGenerationLog

LEMMA InitIInv == Init => IInv
  BY InitTypeOK, DialogueAssumption
  DEF Init, IInv, JobInv, ClaimInv, NoOrphanedStage, ConfirmableContent,
      OneGenerationLog, Idle, MessageLocations, ImageLocations,
      Stages

LEMMA NextIInv == IInv /\ [Next]_vars => IInv'
  BY NextTypeOK, NextJobInv, NextClaimInv, NextNoOrphanedStage,
     NextConfirmableContent, NextOneGenerationLog DEF IInv

THEOREM Invariance == Spec => []IInv
<1>1. Init => IInv
  BY InitIInv
<1>2. IInv /\ [Next]_vars => IInv'
  BY NextIInv
<1>3. QED
  BY <1>1, <1>2, PTL DEF Spec

\* Every variable keeps its type (the agent_sessions row, the receipts, the
\* handlers) under any interleaving of handlers and crashes; the revisions
\* that stale reads admit together do not exceed the limit.
THEOREM TypeCorrect == Spec => []TypeOK
<1>1. IInv => TypeOK
  BY DEF IInv
<1>2. QED
  BY <1>1, Invariance, PTL

\* No failure branch, lost race or refused transaction of any handler leaves
\* the session in a stage nobody works on; only a crash does.
THEOREM StagesHaveHandlers == Spec => []NoOrphanedStage
<1>1. IInv => NoOrphanedStage
  BY DEF IInv
<1>2. QED
  BY <1>1, Invariance, PTL

\* However many handlers race, a session never asks for the confirmation of
\* a brief, a text or a prompt package it does not have.
THEOREM ContentToConfirm == Spec => []ConfirmableContent
<1>1. IInv => ConfirmableContent
  BY DEF IInv
<1>2. QED
  BY <1>1, Invariance, PTL

\* A session is bound to at most one generation_logs row, even when late
\* handlers bring it back to an earlier stage and it is confirmed again.
THEOREM SingleGenerationLog == Spec => []OneGenerationLog
<1>1. IInv => OneGenerationLog
  BY DEF IInv
<1>2. QED
  BY <1>1, Invariance, PTL

\* The image provider is called at most once for one decision_id, and only
\* for a decision_id whose receipt is stored.
THEOREM SingleCallPerConfirmation == Spec => []OneCallPerConfirmation
<1>1. IInv => OneCallPerConfirmation
  BY DEF IInv, ClaimInv, OneCallPerConfirmation, TypeOK
<1>2. QED
  BY <1>1, Invariance, PTL
-----------------------------------------------------------------------------
(* One worker: the documented single server process.                        *)

\* Where a handler may be in a state of the session when no other can
\* overtake it.
StatesAt(at) ==
  CASE at \in {"propose", "revise", "finishBrief"} -> {"extracting_brief", "waiting_brief_confirmation"}
    [] at = "claim" -> {"waiting_text_feedback"}
    [] at \in {"readText", "readRevision", "text", "revision"} -> {"generating_product_text"}
    [] at \in {"readVisual", "visual"} -> {"building_visual_prompt"}
    [] at \in ImageLocations -> {"generating_image"}
    [] at \in {"idle", "append"} -> Statuses

\* The session is where its handler left it; a text takes in the brief from
\* the moment it is written, the package is that text, and a session whose
\* image was confirmed does not go back.
SerialInv ==
  /\ \A w \in Workers :
       /\ status \in StatesAt(job[w].at)
       /\ job[w].at \in {"text", "revision"} => brief \subseteq job[w].draft
       /\ job[w].at \in {"readRevision", "revision"} => brief \subseteq text
       /\ job[w].at = "visual" => job[w].draft = text
       /\ job[w].at = "finishImage" => job[w].arg \in files
  /\ status \in {"waiting_text_feedback", "building_visual_prompt", "waiting_image_confirmation",
                 "generating_image", "completed"} => brief \subseteq text
  /\ status \in {"waiting_image_confirmation", "generating_image", "completed"} => package = text
  /\ imageClaims # {} => status \in {"generating_image", "completed", "failed"}
  /\ \A d, e \in imageClaims : d = e
  /\ orphan # None => status = "failed"
  /\ NoImageLost

LEMMA SerialInvariance ==
  ASSUME NEW p, Workers = {p}
  PROVE  Spec => []SerialInv
<1>1. Init => SerialInv
  BY DEF Init, SerialInv, NoImageLost, StatesAt, ImageLocations, Idle, Statuses
<1>2. ASSUME IInv, SerialInv, ClientRequest(p) \/ HandlerStep(p) \/ Crash(p)
      PROVE  SerialInv'
  <2> USE <1>2 DEF IInv, TypeOK, Job, Statuses, row, observed, GoTo, Done, Draft, Start, Idle,
        SerialInv, NoImageLost, StatesAt, ImageLocations
  <2>1. CASE MessageReplayed(p) BY <2>1 DEF MessageReplayed, StoreTurn
  <2>2. CASE MessageForBrief(p) BY <2>2 DEF MessageForBrief, StoreTurn
  <2>3. CASE MessageForText(p) BY <2>3 DEF MessageForText, StoreTurn
  <2>4. CASE MessageRefused(p) BY <2>4 DEF MessageRefused, StoreTurn
  <2>5. CASE CallBriefAgent(p) BY <2>5 DEF CallBriefAgent
  <2>6. CASE FinishBrief(p) BY <2>6 DEF FinishBrief
  <2>7. CASE FailBrief(p) BY <2>7 DEF FailBrief
  <2>8. CASE ClaimRevision(p) BY <2>8 DEF ClaimRevision
  <2>9. CASE ReadForText(p) BY <2>9 DEF ReadForText
  <2>10. CASE FinishText(p) BY <2>10 DEF FinishText
  <2>11. CASE FailText(p) BY <2>11 DEF FailText
  <2>12. CASE FailRevision(p) BY <2>12 DEF FailRevision
  <2>13. CASE ReadForVisual(p) BY <2>13 DEF ReadForVisual
  <2>14. CASE FinishVisual(p) BY <2>14 DEF FinishVisual
  <2>15. CASE FailVisual(p) BY <2>15 DEF FailVisual
  <2>16. CASE CallImageProvider(p) BY <2>16 DEF CallImageProvider
  <2>17. CASE FinishImage(p) BY <2>17 DEF FinishImage
  <2>18. CASE RecordImageFailure(p)
    <3>1. status = "generating_image" /\ orphan \notin Decisions
      BY <2>18, DialogueAssumption DEF RecordImageFailure
    <3>2. /\ status' = "failed" /\ job'[p] = Idle
          /\ job[p].at = "finishImage" => orphan' = job[p].arg
          /\ UNCHANGED <<brief, text, package, logged, files, imageClaims, calls, crashes>>
      BY <2>18, <3>1 DEF RecordImageFailure
    <3>3. NoImageLost'
      <4>1. ASSUME crashes = 0, NEW d \in files PROVE d \in logged \/ d = orphan'
        <5>1. d \in logged \/ (job[p].at = "finishImage" /\ job[p].arg = d)
          BY <3>1, <4>1
        <5> QED BY <3>2, <5>1
      <4>2. orphan' \in files \cup {None}
        BY <2>18, <3>1 DEF RecordImageFailure
      <4> QED BY <3>2, <4>1, <4>2
    <3> QED BY <3>2, <3>3
  <2>19. ASSUME NEW t \in Turns, ReceiveMessage(p, t) PROVE SerialInv'
    BY <2>19 DEF ReceiveMessage
  <2>20. ASSUME NEW d \in Decisions, ConfirmBrief(p, d) PROVE SerialInv'
    BY <2>20 DEF ConfirmBrief, Decide
  <2>21. ASSUME NEW d \in Decisions, ConfirmProductText(p, d) PROVE SerialInv'
    BY <2>21 DEF ConfirmProductText, Decide
  <2>22. ASSUME NEW d \in Decisions, ConfirmImage(p, d) PROVE SerialInv'
    BY <2>22 DEF ConfirmImage, Decide
  <2>23. ASSUME NEW d \in Decisions, UnsupportedDecision(p, d) PROVE SerialInv'
    BY <2>23 DEF UnsupportedDecision
  <2>24. CASE Crash(p)
    BY <2>24, DialogueAssumption DEF Crash
  <2>25. CASE PersistImage(p)
    BY <2>25 DEF PersistImage
  <2> QED
    BY <2>1, <2>2, <2>3, <2>4, <2>5, <2>6, <2>7, <2>8, <2>9, <2>10, <2>11, <2>12, <2>13,
       <2>14, <2>15, <2>16, <2>17, <2>18, <2>19, <2>20, <2>21, <2>22, <2>23, <2>24, <2>25
    DEF HandlerStep, ClientRequest
<1>3. IInv /\ SerialInv /\ [Next]_vars => SerialInv'
  <2>1. UNCHANGED vars => (SerialInv => SerialInv')
    BY DEF vars, row, observed, SerialInv, NoImageLost
  <2> QED
    BY <1>2, <2>1 DEF Next
<1> QED
  BY <1>1, <1>3, Invariance, PTL DEF Spec

\* One server process pays for one image per session, whatever messages,
\* decisions, failures and crashes come in which order.
THEOREM OneWorkerPaysOnce ==
  ASSUME NEW p, Workers = {p}
  PROVE  Spec => []OneImageCall
<1>1. IInv /\ SerialInv => OneImageCall
  BY DEF IInv, ClaimInv, SerialInv, OneImageCall
<1> QED
  BY <1>1, Invariance, SerialInvariance, PTL

\* With one server process the image that is confirmed is that of the text
\* now stored, which takes in the brief now stored.
THEOREM OneWorkerMatches ==
  ASSUME NEW p, Workers = {p}
  PROVE  Spec => []ImageMatchesText
<1>1. SerialInv => ImageMatchesText
  BY DEF SerialInv, ImageMatchesText
<1> QED
  BY <1>1, SerialInvariance, PTL

\* With one server process an image whose file is stored is logged or kept as
\* the orphaned URL, unless the process died, and every log row and orphaned
\* URL has its file.
THEOREM OneWorkerKeepsImage ==
  ASSUME NEW p, Workers = {p}
  PROVE  Spec => []NoImageLost
<1>1. SerialInv => NoImageLost
  BY DEF SerialInv
<1> QED
  BY <1>1, SerialInvariance, PTL
=============================================================================
