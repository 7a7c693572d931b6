---------------------------- MODULE Association ----------------------------
(* What an MMS client association (mms::Conn) promises to the tasks that      *)
(* issue confirmed requests on it, without invoke identifiers, response       *)
(* slots, locks or a reader task: a request is opened only while the          *)
(* association is up, it gets one outcome and keeps it, and the association   *)
(* ends once, for one cause, which is the outcome of the requests it takes    *)
(* with it.  ClientConn implements this specification.                        *)
CONSTANTS
  Call            \* the confirmed requests that callers issue

VARIABLES
  state,          \* the lifecycle state of the association
  cause,          \* the error that ended it, "none" while it is up
  outcome         \* what has become of each request

vars == <<state, cause, outcome>>

Causes == {"closed", "aborted", "lost"}

Init ==
  /\ state = "connected"
  /\ cause = "none"
  /\ outcome = [c \in Call |-> "none"]

\* A request is accepted only while the association is up.
Open(c) ==
  /\ state = "connected"
  /\ outcome[c] = "none"
  /\ outcome' = [outcome EXCEPT ![c] = "open"]
  /\ UNCHANGED <<state, cause>>

\* A request on an association that is not up gets the cause that ended it.
Refuse(c) ==
  /\ state # "connected"
  /\ outcome[c] = "none"
  /\ outcome' = [outcome EXCEPT ![c] = cause]
  /\ UNCHANGED <<state, cause>>

\* The peer's response or service error, also while the association is closing.
Answer(c) ==
  /\ outcome[c] = "open"
  /\ \E o \in {"response", "error"} : outcome' = [outcome EXCEPT ![c] = o]
  /\ UNCHANGED <<state, cause>>

\* The request could not be sent, or its caller does not wait for it any more.
GiveUp(c) ==
  /\ outcome[c] = "open"
  /\ \E o \in {"unsent", "timeout", "dropped"} : outcome' = [outcome EXCEPT ![c] = o]
  /\ UNCHANGED <<state, cause>>

\* The end of the association fails a request with the cause.
Fail(c) ==
  /\ state = "closed"
  /\ outcome[c] = "open"
  /\ outcome' = [outcome EXCEPT ![c] = cause]
  /\ UNCHANGED <<state, cause>>

\* The association ends once: the first cause stays.
End ==
  /\ state # "closed"
  /\ IF state = "connected"
     THEN state' \in {"closing", "closed"} /\ cause' \in Causes
     ELSE state' = "closed" /\ UNCHANGED cause
  /\ UNCHANGED outcome

Next ==
  \/ \E c \in Call : Open(c) \/ Refuse(c) \/ Answer(c) \/ GiveUp(c) \/ Fail(c)
  \/ End

Spec == Init /\ [][Next]_vars
=============================================================================
