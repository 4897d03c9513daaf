-------------------------- MODULE ShutdownContract --------------------------
(***************************************************************************)
(* What a graceful shutdown promises to the rest of the application,       *)
(* without registry, tasks, cancellation or timers: sessions join and      *)
(* leave freely; a drain fixes the sessions it answers for and ends only   *)
(* when none of them is live.  As long as no drain has ended, the sessions *)
(* it answers for include every live one.                                  *)
(***************************************************************************)
CONSTANTS
  Sessions,  \* the connections that may be served
  Drains     \* the calls of close_all

VARIABLES
  joined,    \* sessions that have ever been live
  live,      \* sessions being served
  phase,     \* "idle", "draining", "ended" or "aborted", per drain
  target     \* the sessions a drain answers for

contractVars == <<joined, live, phase, target>>

ContractInit ==
  /\ joined = {}
  /\ live = {}
  /\ phase = [d \in Drains |-> "idle"]
  /\ target = [d \in Drains |-> {}]

Join(s) ==
  /\ s \notin joined
  /\ joined' = joined \cup {s}
  /\ live' = live \cup {s}
  /\ UNCHANGED <<phase, target>>

Leave(s) ==
  /\ s \in live
  /\ live' = live \ {s}
  /\ UNCHANGED <<joined, phase, target>>

\* A drain that finds nobody to answer for ends at once.
Begin(d) ==
  /\ phase[d] = "idle"
  /\ \E T \in SUBSET joined :
       /\ (\A e \in Drains : phase[e] # "ended" \/ target[e] = {}) => live \subseteq T
       /\ target' = [target EXCEPT ![d] = T]
       /\ phase' = [phase EXCEPT ![d] = IF T = {} THEN "ended" ELSE "draining"]
  /\ UNCHANGED <<joined, live>>

End(d) ==
  /\ phase[d] = "draining"
  /\ target[d] \cap live = {}
  /\ phase' = [phase EXCEPT ![d] = "ended"]
  /\ UNCHANGED <<joined, live, target>>

\* The caller of close_all was itself cancelled.
Abort(d) ==
  /\ phase[d] = "draining"
  /\ phase' = [phase EXCEPT ![d] = "aborted"]
  /\ UNCHANGED <<joined, live, target>>

ContractNext ==
  \/ \E s \in Sessions : Join(s) \/ Leave(s)
  \/ \E d \in Drains : Begin(d) \/ End(d) \/ Abort(d)

ContractSpec == ContractInit /\ [][ContractNext]_contractVars
=============================================================================
