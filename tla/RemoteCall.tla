------------------------------ MODULE RemoteCall ------------------------------
(***************************************************************************)
(* What a caller of Invoke may rely on, abstractly: the method runs at     *)
(* most once for each call, and a call succeeds only if it has run to its  *)
(* end and succeeded. A call that fails may have run, may be running still *)
(* or may run later.                                                       *)
(***************************************************************************)
CONSTANT Calls

VARIABLES
  outcome,   \* per call: "new", "pending", "success" or "failure"
  work       \* per call: "none", "running", "ok" or "error"

Init == /\ outcome = [c \in Calls |-> "new"]
        /\ work = [c \in Calls |-> "none"]

Begin(c) == /\ outcome[c] = "new"
            /\ \/ outcome' = [outcome EXCEPT ![c] = "pending"]
               \/ outcome' = [outcome EXCEPT ![c] = "failure"]
            /\ UNCHANGED work

Run(c) == /\ outcome[c] # "new" /\ work[c] = "none"
          /\ work' = [work EXCEPT ![c] = "running"]
          /\ UNCHANGED outcome

Finish(c) == /\ work[c] = "running"
             /\ \/ work' = [work EXCEPT ![c] = "ok"]
                \/ work' = [work EXCEPT ![c] = "error"]
             /\ UNCHANGED outcome

Succeed(c) == /\ outcome[c] = "pending" /\ work[c] = "ok"
              /\ outcome' = [outcome EXCEPT ![c] = "success"]
              /\ UNCHANGED work

Fail(c) == /\ outcome[c] = "pending"
           /\ outcome' = [outcome EXCEPT ![c] = "failure"]
           /\ UNCHANGED work

Next == \E c \in Calls : Begin(c) \/ Run(c) \/ Finish(c) \/ Succeed(c) \/ Fail(c)

Spec == Init /\ [][Next]_<<outcome, work>>
===============================================================================
