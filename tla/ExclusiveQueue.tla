--------------------------- MODULE ExclusiveQueue ---------------------------
(***************************************************************************)
(* What the job table promises to the rest of the system when its leases   *)
(* are long enough: a job is worked on by at most one worker at a time,    *)
(* only the worker that has it decides its fate, and a job that was        *)
(* settled stays settled.  There is no time, no lease and no attempt       *)
(* counter here; JobQueue, which has all three, implements this module     *)
(* under the mapping JobQueue!Abstract.                                    *)
(***************************************************************************)
CONSTANTS Workers, Jobs

VARIABLES phase,    \* phase[j]: "none", "open", "done" or "failed"
          owns      \* owns[w]: the jobs worker w is in charge of

vars == <<phase, owns>>

Settled == {"done", "failed"}

Owned == UNION {owns[w] : w \in Workers}

TypeOK == /\ phase \in [Jobs -> {"none", "open"} \cup Settled]
          /\ owns \in [Workers -> SUBSET Jobs]

Init == /\ phase = [j \in Jobs |-> "none"]
        /\ owns = [w \in Workers |-> {}]

(* A job appears. *)
Add(j) == /\ phase[j] = "none"
          /\ phase' = [phase EXCEPT ![j] = "open"]
          /\ UNCHANGED owns

(* A worker without work takes open jobs nobody is in charge of. *)
Take(w, S) == /\ owns[w] = {}
              /\ \A j \in S : phase[j] = "open"
              /\ S \cap Owned = {}
              /\ owns' = [owns EXCEPT ![w] = S]
              /\ UNCHANGED phase

(* The outcome p is recorded for a job w is in charge of: it is settled, or *)
(* left open for a retry.                                                  *)
Record(w, j, p) == /\ j \in owns[w]
                   /\ phase[j] = "open"
                   /\ phase' = [phase EXCEPT ![j] = p]

(* The worker reports one job and keeps the others. *)
Report(w, j, p) == /\ Record(w, j, p)
                   /\ owns' = [owns EXCEPT ![w] = @ \ {j}]

(* A worker dies, perhaps just after recording an outcome: what it had left *)
(* is open and nobody's.                                                   *)
Lose(w) == /\ \/ UNCHANGED phase
              \/ \E j \in Jobs, p \in Settled \cup {"open"} : Record(w, j, p)
           /\ owns' = [owns EXCEPT ![w] = {}]

Next == \/ \E j \in Jobs : Add(j)
        \/ \E w \in Workers, S \in SUBSET Jobs : Take(w, S)
        \/ \E w \in Workers, j \in Jobs, p \in Settled \cup {"open"} : Report(w, j, p)
        \/ \E w \in Workers : Lose(w)

Spec == Init /\ [][Next]_vars
=============================================================================
