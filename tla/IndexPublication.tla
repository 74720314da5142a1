-------------------------- MODULE IndexPublication --------------------------
(***************************************************************************)
(* What the index coordinator promises to the rest of the language server: *)
(* one build at a time is begun, a complete generation is published by a   *)
(* single replacement and only then announced, generations only grow, a    *)
(* failed build leaves the published generation in place, and once the     *)
(* coordinator is closed nothing visible to the client changes any more.   *)
(***************************************************************************)
EXTENDS Naturals

VARIABLES
  status,     \* what a subscriber reads; "Stored" is Building after publication
  published,  \* generation of the published snapshot, 0 when there is none
  open        \* FALSE once shutdown has returned

ivars == <<status, published, open>>

Statuses == {"Idle", "Building", "Stored", "Ready", "Failed"}

Init ==
  /\ status = "Idle"
  /\ published = 0
  /\ open = TRUE

Begin ==
  /\ open
  /\ status # "Stored"
  /\ status' = "Building"
  /\ UNCHANGED <<published, open>>

Publish ==
  /\ open
  /\ status = "Building"
  /\ published' \in Nat
  /\ published' > published
  /\ status' = "Stored"
  /\ UNCHANGED open

Announce ==
  /\ open
  /\ status = "Stored"
  /\ status' = "Ready"
  /\ UNCHANGED <<published, open>>

Fail ==
  /\ open
  /\ status = "Building"
  /\ status' = "Failed"
  /\ UNCHANGED <<published, open>>

Close ==
  /\ open
  /\ status # "Stored"
  /\ open' = FALSE
  /\ UNCHANGED <<status, published>>

Next == Begin \/ Publish \/ Announce \/ Fail \/ Close

Spec == Init /\ [][Next]_ivars
=============================================================================
