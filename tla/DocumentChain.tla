--------------------------- MODULE DocumentChain ---------------------------
(***************************************************************************)
(* What the document pipeline promises, with no queue, workers, claims or  *)
(* clock: every document walks the stages in order, each stage completes   *)
(* at most once, and a document only ever stops by being parked for a      *)
(* human (dead-lettered), who may put it back.  Pipeline.tla implements it.*)
(***************************************************************************)
EXTENDS Naturals

CONSTANTS Docs, NStages

VARIABLES
    done,    \* done[d]: the stages recorded as succeeded
    parked   \* the documents with a dead-lettered stage

chainVars == <<done, parked>>

Stages == 1..NStages

ChainInit ==
    /\ done = [d \in Docs |-> {}]
    /\ parked = {}

\* The next stage of the chain completes.
Advance(d) ==
    /\ d \notin parked
    /\ \E s \in Stages :
          /\ done[d] = 1..(s - 1)
          /\ done' = [done EXCEPT ![d] = 1..s]
    /\ UNCHANGED parked

\* The next stage gives up and waits for a human.
Park(d) ==
    /\ d \notin parked
    /\ \E s \in Stages : done[d] = 1..(s - 1)
    /\ parked' = parked \cup {d}
    /\ UNCHANGED done

\* A reviewer asks for the parked stage to be tried again.
Unpark(d) ==
    /\ d \in parked
    /\ parked' = parked \ {d}
    /\ UNCHANGED done

ChainNext == \E d \in Docs : Advance(d) \/ Park(d) \/ Unpark(d)

ChainSpec == ChainInit /\ [][ChainNext]_chainVars
=============================================================================
