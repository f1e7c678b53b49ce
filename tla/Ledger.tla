------------------------------- MODULE Ledger -------------------------------
(***************************************************************************)
(* What a test command promises, without files, doc comments or a virtual  *)
(* machine: pipelines run one after the other, each on an empty store.     *)
(* While a pipeline is whole, a step commits its writes or leaves the store *)
(* alone; after a step that breaks it nothing is committed any more.  A    *)
(* strict command ends well only if no pipeline was broken.                *)
(***************************************************************************)
CONSTANT Empty      \* the store a pipeline starts with

VARIABLES
    strict,     \* the command looks at the results
    data,       \* the store of the pipeline
    open,       \* a pipeline is running
    broken,     \* it has been broken
    bad,        \* an earlier pipeline was broken
    verdict     \* how the command ended

vars == <<strict, data, open, broken, bad, verdict>>

Init ==
    /\ strict \in BOOLEAN
    /\ data = Empty
    /\ open = FALSE /\ broken = FALSE /\ bad = FALSE
    /\ verdict = "running"

Begin ==
    /\ verdict = "running" /\ ~open
    /\ open' = TRUE
    /\ data' = Empty
    /\ UNCHANGED <<strict, broken, bad, verdict>>

Commit ==
    /\ open /\ ~broken
    /\ DOMAIN data' = DOMAIN data
    /\ UNCHANGED <<strict, open, broken, bad, verdict>>

Break ==
    /\ open /\ ~broken
    /\ broken' = TRUE
    /\ UNCHANGED <<strict, data, open, bad, verdict>>

Finish ==
    /\ open
    /\ open' = FALSE /\ broken' = FALSE
    /\ bad' = (bad \/ broken)
    /\ UNCHANGED <<strict, data, verdict>>

Judge ==
    /\ verdict = "running" /\ ~open
    /\ verdict' = IF strict /\ bad THEN "failed" ELSE "ok"
    /\ UNCHANGED <<strict, data, open, broken, bad>>

GiveUp ==
    /\ verdict = "running" /\ ~open
    /\ verdict' \in {"error", "panic"}
    /\ UNCHANGED <<strict, data, open, broken, bad>>

Next == Begin \/ Commit \/ Break \/ Finish \/ Judge \/ GiveUp

Spec == Init /\ [][Next]_vars
=============================================================================
