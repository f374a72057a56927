---------------------------- MODULE SpanLifecycle -----------------------------
(***************************************************************************)
(* What every traced RPC promises of its span, whoever carries it out: the *)
(* span is started once, annotated at most once, with the tags of one      *)
(* error, and finished at most once; nothing touches it afterwards.        *)
(***************************************************************************)
EXTENDS SpanTags

VARIABLES stage, tags

Stages == {"none", "live", "annotated", "finished"}

Init == stage = "none" /\ tags = Untagged

Start == stage = "none" /\ stage' = "live" /\ UNCHANGED tags

(* The caller's side of an RPC tags its span as a client. *)
Annotate(err) ==
  /\ stage = "live"
  /\ stage' = "annotated"
  /\ tags' = SetSpanTags(LogError(tags), err, TRUE)

Finish ==
  /\ stage \in {"live", "annotated"}
  /\ stage' = "finished"
  /\ UNCHANGED tags

Next == \/ Start
        \/ \E err \in Errors \ {NoError} : Annotate(err)
        \/ Finish

Spec == Init /\ [][Next]_<<stage, tags>>

===============================================================================
