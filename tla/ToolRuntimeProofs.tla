------------------------- MODULE ToolRuntimeProofs --------------------------
(***************************************************************************)
(* Budgets, approval and the image guard of one run of the agent, for any  *)
(* sets of tools, ids and arguments and any limits: whatever the model     *)
(* asks for, in whatever order.                                            *)
(*                                                                         *)
(* The budgets are tied to the ledger by counting: a call that is charged  *)
(* leaves an entry, an id has one entry, and an entry that was not refused *)
(* for a limit was charged.  What the model was told, a replay included,   *)
(* goes back to a call that ran with success; and a call that needs        *)
(* approval leaves its entry in the step that ends the run.                *)
(***************************************************************************)
EXTENDS ToolRuntime, FiniteSetTheorems, TLAPS

Charged == {entry \in ledger : entry.outcome # "limit"}

\* An answer that says ok comes from a run with valid arguments.
Grounded(call) == call.args \in ValidArgs /\ done[Pair(call)] > 0

LedgerInv ==
  /\ IsFiniteSet(ledger)
  /\ \A entry \in ledger \cup told : entry.outcome = "ok" => Grounded(entry.call)
  /\ \A p \in semantic : p[2] \in ValidArgs /\ done[p] > 0
  /\ \A t \in ReadOnly, a \in Args : done[<<t, a>>] <= 1 /\ (done[<<t, a>>] > 0 => <<t, a>> \in semantic)

RunInv ==
  /\ at # "end" => status = "running"
  /\ at # "end" => ~action
  /\ status = "pending" <=> \E entry \in ledger : entry.outcome = "approval"
  /\ ImageNotPassedOver

\* While a reply is checked or repaired the count is that of the requests made:
\* after UnexpectedModelBehavior alone it may lag behind.
CountInv ==
  /\ requests <= MaxRequests + IF unexpected THEN 1 ELSE 0
  /\ at # "end" => requests <= MaxRequests
  /\ at # "end" /\ unexpected => at = "retry"
  /\ at \in {"reply", "repair", "retry", "image"} /\ ~unexpected => usage.model = requests

Trusted == \A t \in Tools : usage.executed[t] > 0 => t \in Allowed \ (HighRisk \cup Forbidden)

IInv == TypeOK /\ BudgetsHold /\ LedgerInv /\ RunInv /\ CountInv /\ Trusted

LEMMA Limits == \A t \in Tools : MaxCallsFor(t) \in Nat
  BY RuntimeAssumption DEF MaxCallsFor, AgentDefinition, RuntimeBudget

LEMMA UsageFields ==
  TypeOK => /\ usage.total \in Nat /\ usage.model \in Nat
            /\ usage.requested \in [Tools -> Nat] /\ usage.executed \in [Tools -> Nat]
  BY DEF TypeOK, Usage

LEMMA InitIInv == Init => IInv
<1> SUFFICES ASSUME Init PROVE IInv
  OBVIOUS
<1>1. usage \in Usage /\ usage.total = 0 /\ \A t \in Tools : usage.requested[t] = 0 /\ usage.executed[t] = 0
  BY DEF Init, Usage
<1>2. TypeOK
  <2>1. calls \in Seq(Call) /\ done \in [Tools \X Args -> Nat] /\ requests \in Nat /\ malformed \in 0..1
    BY DEF Init
  <2>2. /\ ledger \subseteq Entry /\ told \subseteq Entry /\ semantic \subseteq Tools \X Args
        /\ unexpected \in BOOLEAN /\ wantsImage \in BOOLEAN /\ action \in BOOLEAN
    BY DEF Init
  <2>3. status \in Statuses /\ at \in {"model", "tools", "reply", "repair", "retry", "image", "end"}
    BY DEF Init, Statuses
  <2>4. origin \in Origins
    BY DEF Init, Origins
  <2> QED BY <1>1, <2>1, <2>2, <2>3, <2>4 DEF TypeOK
<1>3. ledger = {} /\ IsFiniteSet(ledger) /\ Cardinality(ledger) = 0 /\ Charged = {}
  BY FS_EmptySet DEF Init, Charged
<1>4. BudgetsHold
  <2>1. MaxTotal \in Nat /\ \A t \in Tools : MaxCallsFor(t) \in Nat
    BY Limits, RuntimeAssumption DEF AgentDefinition, RuntimeBudget
  <2>2. Cardinality({entry \in ledger : entry.outcome # "limit"}) = 0
    BY <1>3 DEF Charged
  <2>3. requests = 0 /\ unexpected = FALSE /\ MaxRequests \in Nat
    BY RuntimeAssumption DEF Init, AgentDefinition, RuntimeBudget
  <2> QED BY <1>1, <1>3, <2>1, <2>2, <2>3 DEF BudgetsHold
<1>5. LedgerInv
  <2>1. \A t \in ReadOnly, a \in Args : done[<<t, a>>] = 0
    BY RuntimeAssumption DEF Init
  <2> QED BY <1>3, <2>1 DEF LedgerInv, Init
<1>6. CountInv
  <2>1. at = "model" /\ requests = 0 /\ unexpected = FALSE /\ MaxRequests \in Nat
    BY RuntimeAssumption DEF Init, AgentDefinition, RuntimeBudget
  <2> QED BY <2>1 DEF CountInv
<1>7. RunInv /\ Trusted
  BY <1>1, <1>3 DEF RunInv, Trusted, ImageNotPassedOver, Init
<1> QED BY <1>2, <1>4, <1>5, <1>6, <1>7 DEF IInv

-----------------------------------------------------------------------------
(* The steps beside the executor: no call is answered.                      *)

LEMMA ReplyStep ==
  ASSUME IInv, at # "end", UNCHANGED records, TypeOK',
         usage'.total = usage.total, usage'.requested = usage.requested,
         usage'.executed = usage.executed,
         at' # "end" => status' = "running" /\ ~action', status' # "pending",
         ImageNotPassedOver', CountInv'
  PROVE  IInv'
<1>1. UNCHANGED <<ledger, semantic, told, done>> /\ status = "running"
  BY DEF records, IInv, RunInv
<1>2. BudgetsHold'
  <2>1. requests' <= MaxRequests + IF unexpected' THEN 1 ELSE 0
    BY DEF CountInv
  <2> QED BY <1>1, <2>1 DEF IInv, BudgetsHold
<1>3. LedgerInv'
  BY <1>1 DEF IInv, LedgerInv, Grounded, Pair
<1>4. RunInv'
  BY <1>1 DEF IInv, RunInv
<1>5. Trusted'
  BY DEF IInv, Trusted
<1> QED BY <1>2, <1>3, <1>4, <1>5 DEF IInv

LEMMA Limit == MaxRequests \in Nat /\ \A n \in Nat : n < MaxRequests => n + 1 <= MaxRequests
<1>1. MaxRequests \in Nat
  BY RuntimeAssumption DEF AgentDefinition, RuntimeBudget
<1> QED BY <1>1

\* At the model or at a tool no retry has begun, and one request more is within
\* the limit.
LEMMA LoopCount ==
  ASSUME IInv, at \in {"model", "tools"}
  PROVE  /\ unexpected = FALSE /\ requests \in Nat /\ requests <= MaxRequests
         /\ requests < MaxRequests => requests + 1 <= MaxRequests
  BY Limit DEF IInv, TypeOK, CountInv

\* The usage with another count of model requests.
LEMMA ModelCount ==
  ASSUME TypeOK, NEW n \in Nat
  PROVE  LET new == [usage EXCEPT !.model = n]
         IN /\ new \in Usage /\ new.total = usage.total /\ new.model = n
            /\ new.requested = usage.requested /\ new.executed = usage.executed
<1>1. usage \in Usage
  BY DEF TypeOK
<1> QED BY <1>1 DEF Usage

LEMMA LoopStep ==
  ASSUME IInv, RespondCalls \/ RespondReply \/ RespondMalformed \/ AskAgain
  PROVE  IInv'
<1>0. /\ TypeOK /\ (at # "end" => status = "running" /\ ~action) /\ usage \in Usage /\ requests \in Nat
      /\ at \in {"model", "tools"} /\ unexpected = FALSE /\ requests <= MaxRequests
      /\ requests < MaxRequests => requests + 1 <= MaxRequests
      /\ MaxRequests \in Nat /\ UNCHANGED <<run, records>>
  BY LoopCount, Limit DEF IInv, RunInv, TypeOK, RespondCalls, RespondReply, RespondMalformed, AskAgain
<1>1. UNCHANGED <<wantsImage, action, status, origin, ledger, semantic, told, done>>
  BY <1>0 DEF run, records
<1>2. ASSUME Ask PROVE requests' = requests + 1 /\ requests' \in Nat /\ requests' <= MaxRequests
  BY <1>0, <1>2 DEF Ask
<1>3. ASSUME requests' \in Nat, requests' <= MaxRequests, unexpected' = FALSE,
             at' \in {"model", "tools"} \/ (at' \in {"reply", "repair", "retry", "image"} /\ usage'.model = requests')
      PROVE  CountInv'
  BY <1>0, <1>3 DEF CountInv
<1>4. CASE RespondCalls
  <2>1. requests' \in Nat /\ requests' <= MaxRequests /\ usage' = [usage EXCEPT !.model = requests']
    BY <1>2, <1>4 DEF RespondCalls
  <2>2. calls' \in Seq(Call)
    <3>1. PICK n \in 1..MaxBatch : calls' \in [1..n -> Offered]
      BY <1>4 DEF RespondCalls
    <3>2. n \in Nat /\ Offered \subseteq Call
      BY RuntimeAssumption DEF Offered
    <3> QED BY <3>1, <3>2
  <2>3. at' = "tools" /\ UNCHANGED <<malformed, unexpected>>
    BY <1>4 DEF RespondCalls
  <2>4. TypeOK'
    BY <1>0, <1>1, <2>1, <2>2, <2>3, ModelCount DEF TypeOK
  <2> QED BY <1>0, <1>1, <1>3, <2>1, <2>3, <2>4, ModelCount, ReplyStep DEF ImageNotPassedOver
<1>5. CASE RespondReply
  <2>1. requests' \in Nat /\ requests' <= MaxRequests /\ usage' = [usage EXCEPT !.model = requests']
    BY <1>2, <1>5 DEF RespondReply
  <2>2. at' = "reply" /\ UNCHANGED <<calls, malformed, unexpected>>
    BY <1>5 DEF RespondReply
  <2>3. TypeOK'
    BY <1>0, <1>1, <2>1, <2>2, ModelCount DEF TypeOK
  <2> QED BY <1>0, <1>1, <1>3, <2>1, <2>2, <2>3, ModelCount, ReplyStep DEF ImageNotPassedOver
<1>6. CASE RespondMalformed
  <2>1. requests' \in Nat /\ requests' <= MaxRequests /\ at = "model" /\ calls' = calls
    BY <1>2, <1>6 DEF RespondMalformed
  <2>2. \/ at' = at /\ usage' = usage /\ unexpected' = unexpected /\ malformed' = 1
        \/ /\ at' = "retry" /\ unexpected' = TRUE /\ malformed' = malformed
           /\ usage' = [usage EXCEPT !.model = IF usage.model = 0 THEN 1 ELSE usage.model]
    BY <1>6 DEF RespondMalformed
  <2>3. /\ usage' \in Usage /\ usage'.total = usage.total
        /\ usage'.requested = usage.requested /\ usage'.executed = usage.executed
    <3>1. (IF usage.model = 0 THEN 1 ELSE usage.model) \in Nat
      BY <1>0 DEF Usage
    <3> QED BY <1>0, <2>2, <3>1, ModelCount
  <2>4. malformed' \in 0..1 /\ unexpected' \in BOOLEAN /\ at' \in {"model", "retry"}
    <3>1. malformed \in 0..1
      BY <1>0 DEF TypeOK
    <3>2. malformed' \in 0..1
      BY <2>2, <3>1
    <3> QED BY <1>0, <2>1, <2>2, <3>2
  <2>5. TypeOK'
    BY <1>0, <1>1, <2>1, <2>3, <2>4 DEF TypeOK
  <2>6. CountInv'
    <3>1. CASE at' = at /\ unexpected' = unexpected
      BY <1>0, <1>3, <2>1, <3>1
    <3>2. CASE at' = "retry" /\ unexpected' = TRUE
      <4>1. requests' <= MaxRequests + 1
        BY <1>0, <2>1
      <4> QED BY <2>1, <3>2, <4>1 DEF CountInv
    <3> QED BY <2>2, <3>1, <3>2
  <2> QED BY <1>0, <1>1, <2>1, <2>3, <2>4, <2>5, <2>6, ReplyStep DEF ImageNotPassedOver
<1>7. CASE AskAgain
  <2>1. UNCHANGED <<calls, usage, requests, malformed, unexpected>> /\ at' = "model"
    BY <1>7 DEF AskAgain, loop
  <2>2. TypeOK'
    BY <1>0, <1>1, <2>1 DEF TypeOK
  <2> QED BY <1>0, <1>1, <1>3, <2>1, <2>2, ReplyStep DEF ImageNotPassedOver
<1> QED BY <1>4, <1>5, <1>6, <1>7

\* The step that ends a run, but for one that waits for approval.
Ending ==
  /\ at' = "end"
  /\ \/ /\ status' \in {"no_requests", "provider_error", "unrepaired", "no_image_action"}
        /\ UNCHANGED <<action, origin>>
     \/ status' = "completed" /\ origin' = "system_fallback" /\ action' = FALSE /\ told # {}
     \/ /\ status' = "completed" /\ origin' \in {"provider", "provider_repair"} /\ action' \in BOOLEAN
        /\ wantsImage => action' \/ unexpected

LEMMA EndStep ==
  ASSUME IInv, at # "end", Ending, UNCHANGED records, UNCHANGED <<calls, wantsImage, malformed, unexpected>>,
         usage' \in Usage, usage'.total = usage.total, usage'.requested = usage.requested,
         usage'.executed = usage.executed, requests' \in Nat,
         requests' <= MaxRequests + IF unexpected THEN 1 ELSE 0
  PROVE  IInv'
<1>1. at' = "end" /\ status' \in Statuses /\ origin' \in Origins /\ action' \in BOOLEAN /\ status' # "pending"
  BY DEF Ending, IInv, TypeOK, Statuses, Origins
<1>2. TypeOK'
  BY <1>1 DEF IInv, TypeOK, records
<1>3. ImageNotPassedOver'
  BY DEF Ending, ImageNotPassedOver, records
<1>4. CountInv'
  BY <1>1 DEF CountInv
<1> QED BY <1>1, <1>2, <1>3, <1>4, ReplyStep

LEMMA LoopEndStep == ASSUME IInv, ReachLimit \/ ProviderFails PROVE IInv'
<1>1. /\ at = "model" /\ requests \in Nat /\ unexpected = FALSE /\ usage \in Usage
      /\ UNCHANGED <<calls, usage, wantsImage, malformed, unexpected, records>>
  BY LoopCount DEF IInv, TypeOK, ReachLimit, ProviderFails, loop
<1>2. requests' \in Nat /\ requests' <= MaxRequests
  BY <1>1, LoopCount DEF ReachLimit, ProviderFails, Ask, loop
<1>3. Ending
  BY DEF Ending, ReachLimit, ProviderFails, FallBack, Complete, Fail
<1>4. requests' <= MaxRequests + IF unexpected THEN 1 ELSE 0
  BY <1>1, <1>2, Limit
<1> QED BY <1>1, <1>2, <1>3, <1>4, EndStep

LEMMA CheckReplyStep == ASSUME IInv, CheckReply PROVE IInv'
<1>1. /\ TypeOK /\ at = "reply" /\ status = "running" /\ ~action /\ unexpected = FALSE
      /\ UNCHANGED <<calls, usage, wantsImage, loop, records>>
  BY DEF IInv, RunInv, CountInv, TypeOK, CheckReply
<1>2. /\ requests \in Nat /\ requests <= MaxRequests /\ usage \in Usage
      /\ UNCHANGED <<requests, malformed, unexpected>> /\ MaxRequests \in Nat
  BY <1>1, Limit DEF IInv, CountInv, TypeOK, loop
<1>3. \/ at' \in {"image", "repair", "retry"} /\ UNCHANGED <<action, status, origin>>
      \/ Ending
  BY <1>1 DEF CheckReply, Deliver, Complete, Ending
<1>4. CASE at' \in {"image", "repair", "retry"} /\ UNCHANGED <<action, status, origin>>
  <2>1. TypeOK'
    BY <1>1, <1>2, <1>4 DEF TypeOK, records
  <2>2. CountInv'
    BY <1>1, <1>2, <1>4 DEF IInv, CountInv
  <2> QED BY <1>1, <1>2, <1>4, <2>1, <2>2, ReplyStep DEF ImageNotPassedOver
<1>5. CASE Ending
  <2>1. requests' <= MaxRequests + IF unexpected THEN 1 ELSE 0
    BY <1>1, <1>2
  <2> QED BY <1>1, <1>2, <1>5, <2>1, EndStep
<1> QED BY <1>3, <1>4, <1>5

LEMMA SecondAttemptStep == ASSUME IInv, RepairReply \/ RetryReply \/ RetryImage PROVE IInv'
<1>1. /\ TypeOK /\ at \in {"repair", "retry", "image"} /\ status = "running" /\ ~action
      /\ usage \in Usage /\ requests \in Nat /\ usage.model \in Nat /\ MaxRequests \in Nat
      /\ requests <= MaxRequests /\ (unexpected = FALSE => usage.model = requests)
      /\ unexpected \in BOOLEAN /\ (unexpected => at = "retry")
      /\ UNCHANGED <<calls, wantsImage, malformed, unexpected, records>>
  BY Limit DEF IInv, RunInv, CountInv, TypeOK, Usage, RepairReply, RetryReply, RetryImage
<1>2. ASSUME NEW counts \in BOOLEAN, SecondRequest(counts)
      PROVE  /\ requests' = requests + 1 /\ usage.model < MaxRequests
             /\ usage' = IF counts THEN [usage EXCEPT !.model = usage.model + 1] ELSE usage
  BY <1>2 DEF SecondRequest
<1>3. \/ /\ at' = "image" /\ UNCHANGED <<action, status, origin>> /\ ~unexpected
         /\ SecondRequest(TRUE)
      \/ /\ Ending
         /\ (\E counts \in BOOLEAN : SecondRequest(counts)) \/ UNCHANGED <<usage, requests>>
  <2>1. Unrepaired => Ending
    BY DEF Unrepaired, FallBack, Complete, Fail, Ending
  <2>2. Fail("no_image_action") => Ending
    BY DEF Fail, Ending
  <2>3. ASSUME NEW proposes \in BOOLEAN, Deliver("provider_repair", proposes)
        PROVE  (at' = "image" /\ UNCHANGED <<action, status, origin>>) \/ Ending
    BY <2>3 DEF Deliver, Complete, Ending
  <2>4. CASE RepairReply
    BY <1>1, <2>1, <2>3, <2>4 DEF RepairReply
  <2>5. CASE RetryReply
    <3>1. ASSUME NEW proposes \in BOOLEAN, unexpected, Complete("provider_repair", proposes) PROVE Ending
      BY <3>1 DEF Complete, Ending
    <3> QED BY <1>1, <2>1, <2>3, <2>5, <3>1 DEF RetryReply
  <2>6. CASE RetryImage
    <3>1. Complete("provider_repair", TRUE) => Ending
      BY DEF Complete, Ending
    <3> QED BY <2>2, <2>6, <3>1 DEF RetryImage
  <2> QED BY <2>4, <2>5, <2>6
<1>4. ASSUME NEW counts \in BOOLEAN, SecondRequest(counts)
      PROVE  /\ usage' \in Usage /\ usage'.total = usage.total
             /\ usage'.requested = usage.requested /\ usage'.executed = usage.executed
             /\ counts => usage'.model = usage.model + 1
             /\ requests' \in Nat /\ requests' <= MaxRequests + IF unexpected THEN 1 ELSE 0
  <2>1. usage.model + 1 \in Nat /\ requests + 1 \in Nat
    BY <1>1
  <2>2. requests + 1 <= MaxRequests + IF unexpected THEN 1 ELSE 0
    <3>1. CASE unexpected = TRUE
      BY <1>1, <3>1
    <3>2. CASE unexpected = FALSE
      BY <1>1, <1>2, <1>4, <3>2
    <3> QED BY <1>1, <3>1, <3>2
  <2> QED BY <1>1, <1>2, <1>4, <2>1, <2>2, ModelCount
<1>5. CASE at' = "image" /\ UNCHANGED <<action, status, origin>> /\ ~unexpected /\ SecondRequest(TRUE)
  <2>1. /\ usage' \in Usage /\ usage'.total = usage.total
        /\ usage'.requested = usage.requested /\ usage'.executed = usage.executed
        /\ usage'.model = usage.model + 1 /\ requests' = requests + 1
        /\ requests' \in Nat /\ requests' <= MaxRequests + IF unexpected THEN 1 ELSE 0
    BY <1>2, <1>4, <1>5
  <2>2. TypeOK'
    BY <1>1, <1>5, <2>1 DEF TypeOK, records
  <2>3. usage'.model = requests' /\ requests' <= MaxRequests
    BY <1>1, <1>5, <2>1
  <2>4. CountInv'
    BY <1>1, <1>5, <2>1, <2>3 DEF CountInv
  <2> QED BY <1>1, <1>5, <2>1, <2>2, <2>4, ReplyStep DEF ImageNotPassedOver
<1>6. ASSUME Ending, NEW counts \in BOOLEAN, SecondRequest(counts) PROVE IInv'
  BY <1>1, <1>4, <1>6, EndStep
<1>7. CASE Ending /\ UNCHANGED <<usage, requests>>
  <2>1. requests <= MaxRequests + IF unexpected THEN 1 ELSE 0
    BY <1>1
  <2> QED BY <1>1, <1>7, <2>1, EndStep
<1> QED BY <1>3, <1>5, <1>6, <1>7

-----------------------------------------------------------------------------
(* The executor.                                                            *)

LEMMA NextCall ==
  ASSUME TypeOK, calls # <<>>
  PROVE  Head(calls) \in Call /\ Tail(calls) \in Seq(Call)
  BY DEF TypeOK

\* A call that is answered from the record.
LEMMA AnswerStep ==
  ASSUME IInv, at = "tools", NEW call \in Call, NEW outcome \in Outcomes,
         Tail(calls) \in Seq(Call), Tell(call, outcome), outcome = "ok" => Grounded(call),
         UNCHANGED <<at, usage, run, loop, ledger, semantic, done>>
  PROVE  IInv'
<1>1. told' = told \cup {[call |-> call, outcome |-> outcome]} /\ calls' \in Seq(Call)
  BY DEF Tell
<1>2. [call |-> call, outcome |-> outcome] \in Entry
  BY DEF Entry
<1>3. TypeOK'
  BY <1>1, <1>2 DEF IInv, TypeOK, run, loop
<1>4. BudgetsHold' /\ Trusted' /\ CountInv'
  BY DEF IInv, BudgetsHold, Trusted, CountInv, loop
<1>5. LedgerInv'
  BY <1>1 DEF IInv, LedgerInv, Grounded, Pair
<1>6. RunInv'
  BY DEF IInv, RunInv, ImageNotPassedOver, run, loop
<1> QED BY <1>3, <1>4, <1>5, <1>6 DEF IInv

\* A call that gets an entry of its own: what it is charged, what it has done
\* and whether it ends the run agree with the outcome on record.
LEMMA RecordStep ==
  ASSUME IInv, at = "tools", NEW call \in Call, NEW outcome \in Outcomes,
         Tail(calls) \in Seq(Call), Recorded(call) = {}, Record(call, outcome),
         UNCHANGED <<loop, wantsImage, action, origin>>,
         usage' \in Usage, usage'.total \in {usage.total, usage.total + 1}, usage'.total <= MaxTotal,
         outcome # "limit" => usage'.total = usage.total + 1,
         \A t \in Tools : /\ usage'.requested[t] <= MaxCallsFor(t)
                          /\ usage'.executed[t] <= usage'.requested[t]
                          /\ usage'.executed[t] > 0 => usage'.executed[t] <= MaxPerRun[t],
         Trusted',
         IF outcome = "ok"
         THEN /\ Pair(call) \notin semantic /\ call.args \in ValidArgs
              /\ done' = [done EXCEPT ![Pair(call)] = @ + 1]
         ELSE done' = done,
         IF outcome = "approval" THEN at' = "end" /\ status' = "pending" ELSE UNCHANGED <<at, status>>
  PROVE  IInv'
<1> DEFINE entry == [call |-> call, outcome |-> outcome]
<1>0. /\ TypeOK /\ IsFiniteSet(ledger) /\ usage.total \in Nat /\ status = "running"
      /\ done \in [Tools \X Args -> Nat] /\ Pair(call) \in Tools \X Args
  BY UsageFields DEF IInv, LedgerInv, RunInv, TypeOK, Call, Pair
<1>1. /\ ledger' = ledger \cup {entry} /\ entry \notin ledger /\ entry \in Entry
      /\ told' = told \cup {entry} /\ calls' \in Seq(Call)
      /\ semantic' = IF outcome = "ok" /\ call.tool \in ReadOnly THEN semantic \cup {Pair(call)} ELSE semantic
  BY DEF Record, Tell, Recorded, Entry
<1>2. /\ done' \in [Tools \X Args -> Nat] /\ \A p \in Tools \X Args : done'[p] >= done[p]
      /\ \A p \in Tools \X Args : p # Pair(call) => done'[p] = done[p]
      /\ outcome = "ok" => done'[Pair(call)] = done[Pair(call)] + 1
      /\ outcome # "ok" => done' = done
  <2>1. CASE outcome = "ok"
    <3>1. done' = [done EXCEPT ![Pair(call)] = done[Pair(call)] + 1]
      BY <2>1
    <3>2. done[Pair(call)] + 1 \in Nat /\ \A n \in Nat : n >= n /\ n + 1 >= n
      BY <1>0
    <3> QED BY <1>0, <2>1, <3>1, <3>2
  <2>2. CASE outcome # "ok"
    BY <1>0, <2>2
  <2> QED BY <2>1, <2>2
<1>3. TypeOK'
  <2>1. status' \in Statuses /\ at' \in {at, "end"}
    BY <1>0 DEF Statuses
  <2> QED BY <1>0, <1>1, <1>2, <2>1 DEF TypeOK, loop
<1>4. BudgetsHold'
  <2>1. Cardinality(ledger') = Cardinality(ledger) + 1 /\ Cardinality(ledger) \in Nat
    BY <1>0, <1>1, FS_AddElement, FS_CardinalityType
  <2>2. IsFiniteSet(Charged) /\ Cardinality(Charged) \in Nat
    BY <1>0, FS_Subset, FS_CardinalityType DEF Charged
  <2>3. Cardinality(Charged') <= usage'.total
    <3>1. Cardinality(Charged) <= usage.total
      BY DEF IInv, BudgetsHold, Charged
    <3>2. CASE outcome = "limit"
      <4>1. Charged' = Charged
        BY <1>1, <3>2 DEF Charged
      <4> QED BY <1>0, <2>2, <3>1, <4>1
    <3>3. CASE outcome # "limit"
      <4>1. Charged' = Charged \cup {entry} /\ entry \notin Charged
        BY <1>1, <3>3 DEF Charged
      <4>2. Cardinality(Charged') = Cardinality(Charged) + 1
        BY <2>2, <4>1, FS_AddElement
      <4> QED BY <1>0, <2>2, <3>1, <3>3, <4>2
    <3> QED BY <3>2, <3>3
  <2>4. usage'.total <= Cardinality(ledger')
    BY <1>0, <2>1 DEF IInv, BudgetsHold
  <2>5. requests' <= MaxRequests + IF unexpected' THEN 1 ELSE 0
    <3>1. requests <= MaxRequests + IF unexpected THEN 1 ELSE 0
      BY DEF IInv, BudgetsHold
    <3> QED BY <3>1 DEF loop
  <2> QED BY <2>3, <2>4, <2>5 DEF BudgetsHold, Charged, MaxCallsFor
<1>5. LedgerInv'
  <2>1. IsFiniteSet(ledger')
    BY <1>0, <1>1, FS_AddElement
  <2>2. \A other \in Entry : Grounded(other.call) => Grounded(other.call)'
    <3>1. \A other \in Entry : Pair(other.call) \in Tools \X Args /\ other.call.args \in Args
      BY DEF Entry, Call, Pair
    <3> QED BY <1>0, <1>2, <3>1 DEF Grounded, Pair
  <2>3. outcome = "ok" => Grounded(call)'
    BY <1>0, <1>2 DEF Grounded, Pair
  <2>4. \A other \in ledger' \cup told' : other.outcome = "ok" => Grounded(other.call)'
    <3>1. ASSUME NEW other \in ledger \cup told, other.outcome = "ok" PROVE Grounded(other.call)'
      BY <1>0, <2>2, <3>1 DEF IInv, LedgerInv, TypeOK
    <3>2. entry.call = call /\ entry.outcome = outcome
      OBVIOUS
    <3> QED BY <1>1, <2>3, <3>1, <3>2
  <2>5. \A p \in semantic' : p[2] \in ValidArgs /\ done'[p] > 0
    <3>1. \A p \in semantic : p[2] \in ValidArgs /\ done'[p] > 0
      BY <1>0, <1>2 DEF IInv, LedgerInv, TypeOK
    <3>2. outcome = "ok" => Pair(call)[2] \in ValidArgs /\ done'[Pair(call)] > 0
      BY <1>0, <1>2 DEF Pair
    <3> QED BY <1>1, <3>1, <3>2
  <2>6. ASSUME NEW t \in ReadOnly, NEW a \in Args
        PROVE  done'[<<t, a>>] <= 1 /\ (done'[<<t, a>>] > 0 => <<t, a>> \in semantic')
    <3>1. <<t, a>> \in Tools \X Args
      BY RuntimeAssumption
    <3>2. done[<<t, a>>] <= 1 /\ (done[<<t, a>>] > 0 => <<t, a>> \in semantic)
      BY DEF IInv, LedgerInv
    <3>3. CASE outcome = "ok" /\ <<t, a>> = Pair(call)
      <4>1. call.tool = t /\ <<t, a>> \notin semantic
        BY <3>3 DEF Pair
      <4>2. done[<<t, a>>] = 0
        BY <1>0, <3>1, <3>2, <4>1
      <4>3. done'[<<t, a>>] = 1
        BY <1>2, <3>3, <4>2
      <4>4. call.tool \in ReadOnly
        BY <4>1
      <4>5. <<t, a>> \in semantic'
        BY <1>1, <3>3, <4>4
      <4> QED BY <4>3, <4>5
    <3>4. CASE ~(outcome = "ok" /\ <<t, a>> = Pair(call))
      <4>1. done'[<<t, a>>] = done[<<t, a>>]
        BY <1>2, <3>1, <3>4
      <4> QED BY <1>1, <3>2, <4>1
    <3> QED BY <3>3, <3>4
  <2> QED BY <2>1, <2>4, <2>5, <2>6 DEF LedgerInv
<1>6. RunInv'
  <2>1. \A other \in ledger : other.outcome # "approval"
    BY <1>0 DEF IInv, RunInv
  <2> QED BY <1>0, <1>1, <2>1 DEF IInv, RunInv, ImageNotPassedOver
<1>7. CountInv'
  BY DEF IInv, CountInv, loop
<1> QED BY <1>3, <1>4, <1>5, <1>6, <1>7 DEF IInv

\* A charged call adds one to the total and to its tool.
LEMMA CountedUsage ==
  ASSUME TypeOK, NEW call \in Call
  PROVE  /\ Counted(call) \in Usage /\ Counted(call).total = usage.total + 1
         /\ Counted(call).requested = [usage.requested EXCEPT ![call.tool] = @ + 1]
         /\ Counted(call).executed = usage.executed
<1> DEFINE requested == [usage.requested EXCEPT ![call.tool] = @ + 1]
<1>1. usage \in Usage /\ call.tool \in Tools
  BY DEF TypeOK, Call
<1>2. requested \in [Tools -> Nat] /\ usage.total + 1 \in Nat
  BY <1>1 DEF Usage
<1>3. Counted(call) = [[usage EXCEPT !.total = usage.total + 1] EXCEPT !.requested = requested]
  BY <1>1 DEF Counted, Usage
<1> HIDE DEF requested
<1>4. [usage EXCEPT !.total = usage.total + 1] \in Usage
  BY <1>1, <1>2 DEF Usage
<1>5. Counted(call) \in Usage /\ Counted(call).requested = requested
  BY <1>2, <1>3, <1>4 DEF Usage
<1>6. Counted(call).total = usage.total + 1 /\ Counted(call).executed = usage.executed
  BY <1>1, <1>3 DEF Usage
<1> QED BY <1>5, <1>6 DEF requested

LEMMA ExecuteCallStep == ASSUME IInv, ExecuteCall PROVE IInv'
<1>1. PICK call \in Call : call = Head(calls)
  BY NextCall DEF IInv, ExecuteCall
<1>2. /\ TypeOK /\ at = "tools" /\ UNCHANGED loop /\ Tail(calls) \in Seq(Call)
      /\ call.tool \in Tools /\ call.args \in Args
  BY NextCall DEF IInv, ExecuteCall, Call
<1>3. usage.total \in Nat /\ MaxTotal \in Nat /\ usage.requested \in [Tools -> Nat] /\ usage.executed \in [Tools -> Nat]
  BY <1>2, UsageFields, RuntimeAssumption DEF AgentDefinition, RuntimeBudget
<1>4. CASE Replay(call)
  <2>1. PICK entry \in Recorded(call) :
          /\ Tell(call, IF entry.call = call THEN entry.outcome ELSE "conflict")
          /\ UNCHANGED <<at, usage, run, ledger, semantic, done>>
    BY <1>4 DEF Replay
  <2> DEFINE outcome == IF entry.call = call THEN entry.outcome ELSE "conflict"
  <2>2. entry \in ledger /\ entry.outcome \in Outcomes /\ outcome \in Outcomes
    BY <1>2, <2>1 DEF Recorded, TypeOK, Entry, Outcomes
  <2>3. outcome = "ok" => Grounded(call)
    BY <2>2 DEF IInv, LedgerInv
  <2> QED BY <1>2, <2>1, <2>2, <2>3, AnswerStep
<1>5. CASE SemanticReplay(call)
  <2>1. Grounded(call) /\ "ok" \in Outcomes
    BY <1>5 DEF SemanticReplay, IInv, LedgerInv, Grounded, Pair, Outcomes
  <2> QED BY <1>2, <1>5, <2>1, AnswerStep DEF SemanticReplay
<1>6. ASSUME Recorded(call) = {}, Pair(call) \notin semantic, RefuseOverBudget(call)
      PROVE  IInv'
  <2>1. usage' = usage /\ usage \in Usage /\ done' = done /\ UNCHANGED <<at, status, wantsImage, action, origin>>
    BY <1>2, <1>6 DEF RefuseOverBudget, run, TypeOK
  <2>2. Trusted' /\ "limit" \in Outcomes
    BY <2>1 DEF IInv, Trusted, Outcomes
  <2>3. /\ usage.total <= MaxTotal
        /\ \A t \in Tools : /\ usage.requested[t] <= MaxCallsFor(t) /\ usage.executed[t] <= usage.requested[t]
                            /\ usage.executed[t] > 0 => usage.executed[t] <= MaxPerRun[t]
    BY DEF IInv, BudgetsHold
  <2> QED BY <1>2, <1>6, <2>1, <2>2, <2>3, RecordStep DEF RefuseOverBudget
<1>7. ~OverBudget(call) => /\ usage.total + 1 <= MaxTotal
                           /\ usage.requested[call.tool] + 1 <= MaxCallsFor(call.tool)
  BY <1>2, <1>3, Limits DEF OverBudget, MaxCallsFor
<1>8. ASSUME Recorded(call) = {}, Pair(call) \notin semantic, Refuse(call)
      PROVE  IInv'
  <2>1. usage' = Counted(call) /\ done' = done /\ UNCHANGED <<wantsImage, action, origin>> /\ Record(call, Refusal(call))
    BY <1>8 DEF Refuse, run
  <2>2. Refusal(call) \in Outcomes \ {"ok"}
    BY <1>8 DEF Refuse, Refusal, Authorize, Outcomes
  <2>3. IF Refusal(call) = "approval" THEN at' = "end" /\ status' = "pending" ELSE UNCHANGED <<at, status>>
    BY <1>8 DEF Refuse, run
  <2>4. \A t \in Tools : /\ usage'.requested[t] <= MaxCallsFor(t)
                         /\ usage'.executed[t] <= usage'.requested[t]
                         /\ usage'.executed[t] > 0 => usage'.executed[t] <= MaxPerRun[t]
    <3>1. \A t \in Tools : /\ usage.requested[t] <= MaxCallsFor(t) /\ usage.executed[t] <= usage.requested[t]
                           /\ usage.executed[t] > 0 => usage.executed[t] <= MaxPerRun[t]
      BY DEF IInv, BudgetsHold
    <3>2. /\ usage'.requested = [usage.requested EXCEPT ![call.tool] = @ + 1]
          /\ usage'.executed = usage.executed /\ ~OverBudget(call)
      BY <1>2, <1>8, <2>1, CountedUsage DEF Refuse
    <3> QED BY <1>2, <1>3, <1>7, <3>1, <3>2
  <2>5. Trusted'
    BY <1>2, <2>1, CountedUsage DEF IInv, Trusted
  <2>6. usage' \in Usage /\ usage'.total = usage.total + 1 /\ usage'.total <= MaxTotal
    BY <1>2, <1>7, <1>8, <2>1, CountedUsage DEF Refuse
  <2> QED BY <1>2, <1>8, <2>1, <2>2, <2>3, <2>4, <2>5, <2>6, RecordStep
<1>9. ASSUME Recorded(call) = {}, Pair(call) \notin semantic, Dispatch(call)
      PROVE  IInv'
  <2>1. PICK outcome \in {"ok", "failed", "timeout", "bad_output"} :
          /\ Record(call, outcome)
          /\ done' = IF outcome = "ok" THEN [done EXCEPT ![Pair(call)] = @ + 1] ELSE done
    BY <1>9 DEF Dispatch
  <2>2. UNCHANGED <<at, status, wantsImage, action, origin>> /\ ~OverBudget(call) /\ outcome \in Outcomes
    BY <1>9 DEF Dispatch, run, Outcomes
  <2>3. /\ call.tool \in Registered \cap Allowed /\ call.tool \notin HighRisk \cup Forbidden
        /\ call.args \in ValidArgs /\ usage.executed[call.tool] < MaxPerRun[call.tool]
        /\ MaxPerRun[call.tool] \in Nat
    BY <1>2, <1>3, <1>9, RuntimeAssumption DEF Dispatch, Refusal, Authorize, ToolSpec
  <2>4. /\ usage' \in Usage /\ usage'.total = usage.total + 1
        /\ usage'.requested = [usage.requested EXCEPT ![call.tool] = @ + 1]
        /\ usage'.executed = [usage.executed EXCEPT ![call.tool] = @ + 1]
    <3>1. PICK counted \in Usage : counted = Counted(call)
      BY <1>2, CountedUsage
    <3>2. usage' = [counted EXCEPT !.executed[call.tool] = @ + 1]
      BY <1>9, <3>1 DEF Dispatch
    <3>3. /\ usage' = [counted EXCEPT !.executed = [counted.executed EXCEPT ![call.tool] = @ + 1]]
          /\ [counted.executed EXCEPT ![call.tool] = @ + 1] \in [Tools -> Nat]
      BY <1>2, <3>1, <3>2 DEF Usage
    <3>4. /\ usage' \in Usage /\ usage'.total = counted.total /\ usage'.requested = counted.requested
          /\ usage'.executed = [counted.executed EXCEPT ![call.tool] = @ + 1]
      BY <3>1, <3>3 DEF Usage
    <3> QED BY <1>2, <3>1, <3>4, CountedUsage
  <2>5. \A t \in Tools : /\ usage'.requested[t] <= MaxCallsFor(t)
                         /\ usage'.executed[t] <= usage'.requested[t]
                         /\ usage'.executed[t] > 0 => usage'.executed[t] <= MaxPerRun[t]
    <3>1. \A t \in Tools : /\ usage.requested[t] <= MaxCallsFor(t) /\ usage.executed[t] <= usage.requested[t]
                           /\ usage.executed[t] > 0 => usage.executed[t] <= MaxPerRun[t]
      BY DEF IInv, BudgetsHold
    <3> QED BY <1>2, <1>3, <1>7, <2>2, <2>3, <2>4, <3>1
  <2>6. Trusted'
    BY <1>2, <1>3, <2>3, <2>4 DEF IInv, Trusted
  <2>7. usage'.total <= MaxTotal
    BY <1>7, <2>2, <2>4
  <2> QED BY <1>2, <1>9, <2>1, <2>2, <2>3, <2>4, <2>5, <2>6, <2>7, RecordStep
<1> QED BY <1>1, <1>4, <1>5, <1>6, <1>8, <1>9 DEF ExecuteCall

LEMMA NextIInv == IInv /\ [Next]_vars => IInv'
<1> SUFFICES ASSUME IInv, [Next]_vars PROVE IInv'
  OBVIOUS
<1>1. CASE UNCHANGED vars
  BY <1>1 DEF vars, run, loop, records, IInv, TypeOK, BudgetsHold, LedgerInv, RunInv,
              CountInv, Trusted,
              ImageNotPassedOver, Grounded, Pair
<1> QED BY <1>1, ExecuteCallStep, LoopStep, LoopEndStep, CheckReplyStep, SecondAttemptStep DEF Next

-----------------------------------------------------------------------------
\* The invariant holds of every reachable state.
THEOREM Invariance == Spec => []IInv
BY InitIInv, NextIInv, PTL DEF Spec

\* Every reachable state of a run, its usage and its ledger is typed.
THEOREM TypeCorrect == Spec => []TypeOK
<1>1. IInv => TypeOK
  BY DEF IInv
<1> QED BY <1>1, Invariance, PTL

\* No mix of new calls, repeated ids and repeated arguments passes a budget,
\* the charge is always covered by entries of the ledger, and the requests of
\* loop, repair and retries together pass their limit at most by one, after
\* UnexpectedModelBehavior.
THEOREM WithinBudgets == Spec => []BudgetsHold
<1>1. IInv => BudgetsHold
  BY DEF IInv
<1> QED BY <1>1, Invariance, PTL

\* Nothing that needs approval, is forbidden or is not allowed runs; a run
\* waits for approval exactly when such a call is on record; and a tool is
\* shown as used only if it ran.
THEOREM ApprovalKept == Spec => []NoUnapprovedEffect
<1>1. IInv => NoUnapprovedEffect
  <2> SUFFICES ASSUME IInv, NEW t \in SafeToolEvents
               PROVE  \E a \in ValidArgs : done[<<t, a>>] > 0
    BY DEF NoUnapprovedEffect, IInv, RunInv, Trusted
  <2>1. PICK entry \in told : entry.outcome = "ok" /\ entry.call.tool = t
    BY DEF SafeToolEvents
  <2> QED BY <2>1 DEF IInv, LedgerInv, Grounded, Pair
<1> QED BY <1>1, Invariance, PTL

\* A completed run of a user who asked for an image proposes one, ends with the
\* reply of the retry that returns before the guard, or with the words of the
\* system, which stand in for the model only after it has used a tool.
THEOREM ImageGuarded == Spec => []ImageNotPassedOver
<1>1. IInv => ImageNotPassedOver
  BY DEF IInv, RunInv
<1> QED BY <1>1, Invariance, PTL

\* A read-only tool runs to success at most once with the same arguments:
\* the second call is answered from the first.
THEOREM ReadOnlyOnce == Spec => []ReadsOnce
<1>1. IInv => ReadsOnce
  BY DEF IInv, LedgerInv, ReadsOnce
<1> QED BY <1>1, Invariance, PTL
=============================================================================
