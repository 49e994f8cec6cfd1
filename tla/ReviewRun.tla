----------------------------- MODULE ReviewRun -----------------------------
(***************************************************************************)
(* What a review run promises, without how it is done: the lease on the    *)
(* original source covers every provider, nothing is published before the  *)
(* providers have stopped and the lease is given back, the private roots   *)
(* outlive both, and a result is only answered for a published review.     *)
(* Whatever fails, an answer with an error is always allowed; a lease or a *)
(* root that could not be settled is then left behind.                     *)
(***************************************************************************)
VARIABLES
  lease,      \* on the source: "none", "held" or "released"
  providers,  \* "none", "running" or "stopped"
  review,     \* "none" or "published"
  roots,      \* the private temporary roots: "none", "made" or "removed"
  answer      \* "none", "result" or "error"

vars == <<lease, providers, review, roots, answer>>

Init ==
  /\ lease = "none" /\ providers = "none" /\ review = "none"
  /\ roots = "none" /\ answer = "none"

MakeRoots ==
  /\ answer = "none" /\ roots = "none" /\ roots' = "made"
  /\ UNCHANGED <<lease, providers, review, answer>>

Acquire ==
  /\ answer = "none" /\ roots = "made" /\ lease = "none" /\ lease' = "held"
  /\ UNCHANGED <<providers, review, roots, answer>>

StartProviders ==
  /\ lease = "held" /\ providers = "none" /\ providers' = "running"
  /\ UNCHANGED <<lease, review, roots, answer>>

StopProviders ==
  /\ providers = "running" /\ providers' = "stopped"
  /\ UNCHANGED <<lease, review, roots, answer>>

Release ==
  /\ lease = "held" /\ providers # "running" /\ lease' = "released"
  /\ UNCHANGED <<providers, review, roots, answer>>

Publish ==
  /\ lease = "released" /\ providers # "running" /\ roots = "made" /\ answer = "none"
  /\ review = "none" /\ review' = "published"
  /\ UNCHANGED <<lease, providers, roots, answer>>

RemoveRoots ==
  /\ roots = "made" /\ providers # "running" /\ lease # "held" /\ roots' = "removed"
  /\ UNCHANGED <<lease, providers, review, answer>>

Answer ==
  /\ answer = "none"
  /\ \/ answer' = "error"
     \/ review = "published" /\ lease = "released" /\ roots = "removed" /\ answer' = "result"
  /\ UNCHANGED <<lease, providers, review, roots>>

Next ==
  MakeRoots \/ Acquire \/ StartProviders \/ StopProviders \/ Release \/ Publish \/ RemoveRoots \/ Answer

Spec == Init /\ [][Next]_vars
=============================================================================
