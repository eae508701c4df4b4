---------------------------- MODULE ProofLedger ----------------------------
(***************************************************************************)
(* What the proof pipeline promises about replays, without durable object, *)
(* queues, leases or pollers: a replay is worked on by one open job at a   *)
(* time and handed to an external prover by one job at most; a job that    *)
(* has handed it over is never opened again; only that job can prove it.   *)
(* ProofCoordinator implements this as long as nobody cancels a job.       *)
(***************************************************************************)
CONSTANTS Jobs, Replays, ReplayOf, Nobody

\* What the theorems assume of the constants.
LedgerAssumption == ReplayOf \in [Jobs -> Replays] /\ Nobody \notin Jobs

VARIABLES
  phase, \* where each job stands
  owner  \* the job that handed a replay to a prover

Phases == {"none", "open", "proved", "failed", "forgotten"}

TypeOK ==
  /\ phase \in [Jobs -> Phases]
  /\ owner \in [Replays -> Jobs \cup {Nobody}]

Init ==
  /\ phase = [j \in Jobs |-> "none"]
  /\ owner = [r \in Replays |-> Nobody]

Completed == {j \in Jobs : phase[j] \in {"proved", "failed"}}

\* Job j moves on; completed jobs may be forgotten at the same time.
Move(j, to) ==
  \E gone \in SUBSET (Completed \ {j}) :
    phase' = [k \in Jobs |-> IF k = j THEN to ELSE IF k \in gone THEN "forgotten" ELSE phase[k]]

Idle(r) == \A k \in Jobs : ReplayOf[k] = r => phase[k] # "open"

Open(j) ==
  /\ phase[j] = "none" \/ phase[j] = "failed"
  /\ Idle(ReplayOf[j]) /\ owner[ReplayOf[j]] = Nobody
  /\ Move(j, "open")
  /\ UNCHANGED owner

HandOver(j) ==
  /\ phase[j] = "open" /\ owner[ReplayOf[j]] = Nobody
  /\ owner' = [owner EXCEPT ![ReplayOf[j]] = j]
  /\ UNCHANGED phase

Prove(j) ==
  /\ phase[j] = "open" /\ owner[ReplayOf[j]] = j
  /\ Move(j, "proved")
  /\ UNCHANGED owner

Fail(j) == phase[j] = "open" /\ Move(j, "failed") /\ UNCHANGED owner

Forget ==
  /\ \E gone \in SUBSET Completed :
       phase' = [k \in Jobs |-> IF k \in gone THEN "forgotten" ELSE phase[k]]
  /\ UNCHANGED owner

Next == (\E j \in Jobs : Open(j) \/ HandOver(j) \/ Prove(j) \/ Fail(j)) \/ Forget

Spec == Init /\ [][Next]_<<phase, owner>>
-----------------------------------------------------------------------------
\* What the ledger is for: a replay is proved by one job at most, the one that
\* handed it over.
OneProofPerReplay ==
  \A j, k \in Jobs :
    phase[j] = "proved" /\ phase[k] = "proved" /\ ReplayOf[j] = ReplayOf[k] => j = k
=============================================================================
