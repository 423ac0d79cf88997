----------------------------- MODULE LeasedQueue -----------------------------
(***************************************************************************)
(* What a queue with leases promises the workers that share it: a job is   *)
(* with one worker at a time unless its lease lapsed, only its holder      *)
(* settles it, a job is done only after the other side accepted it, and a  *)
(* discarded job is not handed out again.  A holder may settle its job and *)
(* not learn of it; its lease is then over and it goes on all the same.    *)
(* Jobs are numbered as they come.                                         *)
(***************************************************************************)
EXTENDS Naturals

CONSTANTS Workers, None

VARIABLES
  count,     \* jobs offered so far
  holds,     \* the job of each worker, or None
  lapsed,    \* jobs whose lease once ended with their holder still at work
  accepted,  \* jobs the other side has taken, or said so, at least once
  done, discarded

vars == <<count, holds, lapsed, accepted, done, discarded>>

Init ==
  /\ count = 0 /\ holds = [w \in Workers |-> None]
  /\ lapsed = {} /\ accepted = {} /\ done = {} /\ discarded = {}

Offer ==
  /\ count' = count + 1
  /\ UNCHANGED <<holds, lapsed, accepted, done, discarded>>

(* A job somebody else holds is handed out only when its lease has lapsed. *)
Lease(w) ==
  /\ holds[w] = None
  /\ \E i \in (1..count) \ discarded :
       /\ holds' = [holds EXCEPT ![w] = i]
       /\ lapsed' \in {lapsed, lapsed \cup {i}}
       /\ (\E v \in Workers : holds[v] = i) => i \in lapsed'
  /\ UNCHANGED <<count, accepted, done, discarded>>

Accept(w) ==
  /\ holds[w] # None
  /\ accepted' = accepted \cup {holds[w]}
  /\ UNCHANGED <<count, holds, lapsed, done, discarded>>

Release(w) ==
  /\ holds[w] # None
  /\ holds' = [holds EXCEPT ![w] = None]
  /\ UNCHANGED <<count, lapsed, accepted>>

(* The holder is told that its settlement failed, and keeps the job.       *)
Unaware(w) ==
  /\ holds[w] # None
  /\ lapsed' = lapsed \cup {holds[w]}
  /\ UNCHANGED <<count, holds, accepted>>

Complete(w) ==
  /\ holds[w] \in accepted
  /\ Release(w) \/ Unaware(w)
  /\ done' = done \cup {holds[w]}
  /\ UNCHANGED discarded

Discard(w) ==
  /\ Release(w) \/ Unaware(w)
  /\ done' = done \ {holds[w]}
  /\ discarded' = discarded \cup {holds[w]}

(* The job is open again.                                                  *)
Return(w) ==
  /\ Release(w)
  /\ done' = done \ {holds[w]}
  /\ UNCHANGED discarded

(* The worker is gone, the lease remains.                                  *)
Die(w) ==
  /\ Release(w)
  /\ UNCHANGED <<done, discarded>>

Next ==
  \/ Offer
  \/ \E w \in Workers :
       Lease(w) \/ Accept(w) \/ Complete(w) \/ Discard(w) \/ Return(w) \/ Die(w)

Spec == Init /\ [][Next]_vars
=============================================================================
