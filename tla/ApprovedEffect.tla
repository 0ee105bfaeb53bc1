--------------------------- MODULE ApprovedEffect ----------------------------
(***************************************************************************)
(* What the project promises of a human-approved action (README.md, the    *)
(* state diagram of the action life cycle and the paragraphs below it): it *)
(* takes effect at most once, only after the user's approval, and pays for *)
(* at most one provider call; what was refused or has failed has none.     *)
(***************************************************************************)
EXTENDS Naturals

CONSTANT Actions

VARIABLES
  state,    \* the status a user can see
  calls,    \* provider calls made for the action
  effects   \* what the action has changed: artifacts saved, tasks closed

vars == <<state, calls, effects>>

Init ==
  /\ state = [a \in Actions |-> "absent"]
  /\ calls = [a \in Actions |-> 0]
  /\ effects = [a \in Actions |-> {}]

Move(a, from, to) == state[a] = from /\ state' = [state EXCEPT ![a] = to]

Request(a) == Move(a, "absent", "requested") /\ UNCHANGED <<calls, effects>>
Approve(a) == Move(a, "requested", "approved") /\ UNCHANGED <<calls, effects>>
Reject(a)  == Move(a, "requested", "rejected") /\ UNCHANGED <<calls, effects>>
Claim(a)   == Move(a, "approved", "running") /\ UNCHANGED <<calls, effects>>

CallProvider(a) ==
  /\ state[a] = "running" /\ calls[a] = 0
  /\ calls' = [calls EXCEPT ![a] = 1]
  /\ UNCHANGED <<state, effects>>

TakeEffect(a) ==
  /\ effects[a] = {}
  /\ \E x \in effects'[a] : effects' = [effects EXCEPT ![a] = {x}]

\* A command without a provider is claimed and completed in one step.
Perform(a) == Move(a, "approved", "completed") /\ TakeEffect(a) /\ UNCHANGED calls
Persist(a) ==
  Move(a, "running", "completed") /\ calls[a] = 1 /\ TakeEffect(a) /\ UNCHANGED calls

Fail(a) ==
  Move(a, "running", "failed") /\ calls[a] = 1 /\ UNCHANGED <<calls, effects>>

Next == \E a \in Actions :
  \/ Request(a) \/ Approve(a) \/ Reject(a) \/ Claim(a) \/ CallProvider(a)
  \/ Perform(a) \/ Persist(a) \/ Fail(a)

Spec == Init /\ [][Next]_vars
=============================================================================
