--------------------------- MODULE AsteroidsScore ---------------------------
(***************************************************************************)
(* The Soroban contract that mints a player's rewards                      *)
(* (kalien-contract/contracts/asteroids_score/src/lib.rs).  Seeds, best    *)
(* scores and claimed journals are temporary storage: an entry is gone     *)
(* some ledgers after it was last extended, while the age of a seed is     *)
(* counted in windows of wall-clock time, so that the two clocks of the    *)
(* chain drift against each other.                                         *)
(*                                                                         *)
(* A transaction is atomic, and one that fails changes nothing; an entry   *)
(* is extended by the contract only.  Journals that the verifier refuses   *)
(* for the configured image are never submitted.                           *)
(***************************************************************************)
EXTENDS Naturals

CONSTANTS
  Claimants,
  Seeds,       \* what the host's prng may return
  Scores,      \* the final scores a journal may carry
  TempTtl,     \* TEMP_TTL, in ledgers
  MaxSeedAge,  \* MAX_SEED_AGE_WINDOWS
  PerWindow,   \* the most ledgers that close within SEED_INTERVAL_SECONDS
  MaxWindow,   \* bound: windows
  MaxLedger    \* bound: ledgers

ASSUME ScoreAssumption ==
  /\ Scores \subseteq Nat
  /\ {TempTtl, MaxSeedAge, PerWindow, MaxWindow, MaxLedger} \subseteq Nat

\* A seed outlives the ten minutes of its window: TEMP_TTL is a day.
ASSUME TtlAssumption == PerWindow <= TempTtl

VARIABLES
  ledger,  \* the ledger sequence number
  window,  \* timestamp / SEED_INTERVAL_SECONDS
  opened,  \* the first ledger of this window
  seeds,   \* SeedById
  best,    \* BestByClaimantSeedId
  claimed, \* ClaimedJournal: until when
  paused,  \* Paused
  minted,  \* what the token contract minted for a claimant and a window
  events   \* the journals of the ScoreSubmitted events

vars == <<ledger, window, opened, seeds, best, claimed, paused, minted, events>>

Windows == 0 .. MaxWindow

\* A journal is identified by its digest; its frame count is of no consequence.
Journals == [seed_id : Windows, seed : Seeds, score : Scores, claimant : Claimants]

\* An entry of temporary storage; one that was never set ended at ledger 0.
NoSeed == [seed |-> "unset", until |-> 0]
NoBest == [score |-> 0, until |-> 0]

TypeOK ==
  /\ ledger \in Nat \ {0} /\ opened \in Nat \ {0}
  /\ window \in Windows
  /\ seeds \in [Windows -> [seed : Seeds \cup {"unset"}, until : Nat]]
  /\ best \in [Claimants -> [Windows -> [score : Nat, until : Nat]]]
  /\ claimed \in [Journals -> Nat]
  /\ paused \in BOOLEAN
  /\ minted \in [Claimants -> [Windows -> Nat]]
  /\ events \subseteq Journals

Init ==
  /\ ledger = 1 /\ window = 0 /\ opened = 1
  /\ seeds = [w \in Windows |-> NoSeed]
  /\ best = [c \in Claimants |-> [w \in Windows |-> NoBest]]
  /\ claimed = [j \in Journals |-> 0]
  /\ paused = FALSE
  /\ minted = [c \in Claimants |-> [w \in Windows |-> 0]]
  /\ events = {}
-----------------------------------------------------------------------------
Live(until) == ledger <= until

IsActiveSeed(w, s) ==
  /\ w <= window /\ window - w <= MaxSeedAge
  /\ Live(seeds[w].until) /\ seeds[w].seed = s

BestScore(c, w) == IF Live(best[c][w].until) THEN best[c][w].score ELSE 0

\* Every check of submit_score but the proof's.
MayBeSubmitted(j) ==
  /\ ~paused
  /\ IsActiveSeed(j.seed_id, j.seed)
  /\ j.score # 0
  /\ ~Live(claimed[j])
  /\ j.score > BestScore(j.claimant, j.seed_id)

MintedDelta(j) == j.score - BestScore(j.claimant, j.seed_id)

\* Mutant: the entry is set and not extended.
KeepBestBriefly(j) ==
  best' = [best EXCEPT ![j.claimant][j.seed_id] = [score |-> j.score, until |-> ledger]]
KeepBest(j) ==
  best' = [best EXCEPT ![j.claimant][j.seed_id] = [score |-> j.score, until |-> ledger + TempTtl]]

\* Mutant: the whole score is minted, not what it adds to the best one.
SubmitMintsAll(j) ==
  /\ MayBeSubmitted(j)
  /\ claimed' = [claimed EXCEPT ![j] = ledger + TempTtl]
  /\ KeepBest(j)
  /\ minted' = [minted EXCEPT ![j.claimant][j.seed_id] = @ + j.score]
  /\ events' = events \cup {j}
  /\ UNCHANGED <<ledger, window, opened, seeds, paused>>

\* submit_score, with a proof that the verifier accepts.
SubmitScore(j) ==
  /\ MayBeSubmitted(j)
  /\ claimed' = [claimed EXCEPT ![j] = ledger + TempTtl]
  /\ KeepBest(j)
  /\ minted' = [minted EXCEPT ![j.claimant][j.seed_id] = @ + MintedDelta(j)]
  /\ events' = events \cup {j}
  /\ UNCHANGED <<ledger, window, opened, seeds, paused>>

\* Mutant: the seed of the window is drawn again.
MaterializeAgain ==
  /\ \E s \in Seeds :
       seeds' = [seeds EXCEPT ![window] = [seed |-> s, until |-> ledger + TempTtl]]
  /\ UNCHANGED <<ledger, window, opened, best, claimed, paused, minted, events>>

\* current_seed, when it finds no seed for the window.
Materialize ==
  /\ ~Live(seeds[window].until)
  /\ \E s \in Seeds :
       seeds' = [seeds EXCEPT ![window] = [seed |-> s, until |-> ledger + TempTtl]]
  /\ UNCHANGED <<ledger, window, opened, best, claimed, paused, minted, events>>

SetPaused(p) ==
  /\ paused' = p
  /\ UNCHANGED <<ledger, window, opened, seeds, best, claimed, minted, events>>

\* A ledger closes: within the window, or as the first one of a later window.
CloseLedger ==
  /\ ledger < MaxLedger
  /\ ledger' = ledger + 1
  /\ \/ ledger + 1 < opened + PerWindow /\ UNCHANGED <<window, opened>>
     \/ \E w \in Windows : w > window /\ window' = w /\ opened' = ledger + 1
  /\ UNCHANGED <<seeds, best, claimed, paused, minted, events>>

Next ==
  \/ \E j \in Journals : SubmitScore(j)
  \/ Materialize
  \/ \E p \in BOOLEAN : SetPaused(p)
  \/ CloseLedger

Spec == Init /\ [][Next]_vars
-----------------------------------------------------------------------------
\* What a claimant was paid for a window is the best score submitted for it: no
\* score is paid twice, whatever entries have expired between two submissions
\* (submit_score mints the difference to a best score that may be gone).
MintedIsBestScore ==
  \A c \in Claimants, w \in Windows :
    /\ \A e \in events : e.claimant = c /\ e.seed_id = w => e.score <= minted[c][w]
    /\ minted[c][w] # 0 =>
         \E e \in events : e.claimant = c /\ e.seed_id = w /\ e.score = minted[c][w]

\* A score that was submitted shuts out every score that does not beat it, itself
\* included, for good: the seed is gone before the best score is.
BeatenIsRefused ==
  \A e \in events, j \in Journals :
    e.claimant = j.claimant /\ e.seed_id = j.seed_id /\ j.score <= e.score
      => ~MayBeSubmitted(j)

\* A window is played with one seed: current_seed draws it once, although the
\* entry that remembers it is temporary.
OneSeedPerWindow == \A e, f \in events : e.seed_id = f.seed_id => e.seed = f.seed
=============================================================================
