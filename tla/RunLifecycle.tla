---------------------------- MODULE RunLifecycle ----------------------------
(***************************************************************************)
(* What the platform promises about a governed run, as a client reading    *)
(* the committed database sees it: a run appears finished, failed or       *)
(* waiting for approval; a waiting run has one pending decision; it leaves *)
(* the waiting state only after that decision, and the decision alone says *)
(* whether it may complete or must be canceled.  Platform implements this  *)
(* specification (Platform!Lifecycle).                                     *)
(***************************************************************************)
CONSTANT Run      \* run identifiers

VARIABLES
  status,         \* status[r]: the committed status of r, "NONE" before it exists
  decision        \* decision[r]: the decision on r's approval, "NONE" without one

vars == <<status, decision>>

ObservableStatus == {"NONE", "WAITING_FOR_APPROVAL", "COMPLETED", "FAILED", "CANCELED"}
ObservableDecision == {"NONE", "PENDING", "APPROVED", "REJECTED"}

TypeOK ==
  /\ status \in [Run -> ObservableStatus]
  /\ decision \in [Run -> ObservableDecision]

Init ==
  /\ status = [r \in Run |-> "NONE"]
  /\ decision = [r \in Run |-> "NONE"]

\* A request whose tools need no approval: the run shows up finished or failed.
Finish(r) ==
  /\ status[r] = "NONE"
  /\ \E s \in {"COMPLETED", "FAILED"} : status' = [status EXCEPT ![r] = s]
  /\ UNCHANGED decision

\* A request with a risky tool: the run shows up waiting on a pending approval.
Pause(r) ==
  /\ status[r] = "NONE"
  /\ status' = [status EXCEPT ![r] = "WAITING_FOR_APPROVAL"]
  /\ decision' = [decision EXCEPT ![r] = "PENDING"]

\* The operator decides, once.
Decide(r) ==
  /\ status[r] = "WAITING_FOR_APPROVAL"
  /\ decision[r] = "PENDING"
  /\ \E d \in {"APPROVED", "REJECTED"} : decision' = [decision EXCEPT ![r] = d]
  /\ UNCHANGED status

\* The run takes up the decision.
Settle(r) ==
  /\ status[r] = "WAITING_FOR_APPROVAL"
  /\ \/ /\ decision[r] = "APPROVED"
        /\ \E s \in {"COMPLETED", "FAILED"} : status' = [status EXCEPT ![r] = s]
     \/ /\ decision[r] = "REJECTED"
        /\ status' = [status EXCEPT ![r] = "CANCELED"]
  /\ UNCHANGED decision

Next == \E r \in Run : Finish(r) \/ Pause(r) \/ Decide(r) \/ Settle(r)

Spec == Init /\ [][Next]_vars

\* A decided run is eventually settled; nobody has to decide.
FairSpec == Spec /\ \A r \in Run : WF_vars(Settle(r))
=============================================================================
