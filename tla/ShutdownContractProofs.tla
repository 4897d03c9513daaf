----------------------- MODULE ShutdownContractProofs -----------------------
(* What the contract of a graceful shutdown is worth to the application:   *)
(* theorems about ShutdownContract, for any number of sessions and drains. *)
EXTENDS ShutdownContract, TLAPS

-----------------------------------------------------------------------------
\* Sessions are live once, and a drain that has ended left none behind.
ContractInv ==
  /\ live \subseteq joined
  /\ phase \in [Drains -> {"idle", "draining", "ended", "aborted"}]
  /\ target \in [Drains -> SUBSET joined]
  /\ \A d \in Drains : phase[d] = "ended" => target[d] \cap live = {}

LEMMA InitContractInv == ContractInit => ContractInv
  BY DEF ContractInit, ContractInv

LEMMA NextContractInv == ContractInv /\ [ContractNext]_contractVars => ContractInv'
<1> SUFFICES ASSUME ContractInv, [ContractNext]_contractVars PROVE ContractInv'
  OBVIOUS
<1> USE DEF ContractInv
<1>1. ASSUME NEW s \in Sessions, Join(s) PROVE ContractInv'
  BY <1>1 DEF Join
<1>2. ASSUME NEW s \in Sessions, Leave(s) PROVE ContractInv'
  BY <1>2 DEF Leave
<1>3. ASSUME NEW d \in Drains, Begin(d) PROVE ContractInv'
  BY <1>3 DEF Begin
<1>4. ASSUME NEW d \in Drains, End(d) PROVE ContractInv'
  BY <1>4 DEF End
<1>5. ASSUME NEW d \in Drains, Abort(d) PROVE ContractInv'
  BY <1>5 DEF Abort
<1>6. CASE UNCHANGED contractVars
  BY <1>6 DEF contractVars
<1>. QED BY <1>1, <1>2, <1>3, <1>4, <1>5, <1>6 DEF ContractNext

LEMMA ContractInvariant == ContractSpec => []ContractInv
  BY InitContractInv, NextContractInv, PTL DEF ContractSpec

-----------------------------------------------------------------------------
\* s was live before anybody asked for a drain.
Early(s) == s \in live /\ \A d \in Drains : phase[d] = "idle"

\* While s is live every drain that was begun answers for it.
Covered(s) ==
  /\ s \in joined
  /\ s \in live => \A d \in Drains : phase[d] = "idle" \/ s \in target[d]

LEMMA NextCovered ==
  ASSUME NEW s \in Sessions, ContractInv, Covered(s), [ContractNext]_contractVars
  PROVE  Covered(s)'
<1> USE DEF Covered, ContractInv
<1>1. ASSUME NEW t \in Sessions, Join(t) \/ Leave(t) PROVE Covered(s)'
  BY <1>1 DEF Join, Leave
<1>2. ASSUME NEW d \in Drains, Begin(d) PROVE Covered(s)'
  <2>1. ASSUME s \in live PROVE s \in target'[d]
    <3>1. \A e \in Drains : phase[e] # "ended"
      BY <2>1
    <3>. QED BY <1>2, <2>1, <3>1 DEF Begin
  <2>2. \A e \in Drains \ {d} : phase'[e] = phase[e] /\ target'[e] = target[e]
    BY <1>2 DEF Begin
  <2>. QED BY <1>2, <2>1, <2>2 DEF Begin
<1>3. ASSUME NEW d \in Drains, End(d) \/ Abort(d) PROVE Covered(s)'
  BY <1>3 DEF End, Abort
<1>4. CASE UNCHANGED contractVars
  BY <1>4 DEF contractVars
<1>. QED BY <1>1, <1>2, <1>3, <1>4 DEF ContractNext

LEMMA EarlyIsCovered ==
  ASSUME NEW s \in Sessions, ContractInv, Early(s)
  PROVE  Covered(s)
  BY DEF Early, Covered, ContractInv

LEMMA CoveredIsDrained ==
  ASSUME NEW s \in Sessions, NEW d \in Drains, ContractInv, Covered(s), phase[d] = "ended"
  PROVE  s \notin live
  BY DEF Covered, ContractInv

\* A session that was live before the first drain was asked for is gone when any
\* drain has ended, and for good: that of the first caller or of a later one,
\* whichever of them abort and whoever joins meanwhile.
THEOREM DrainsEndEarlySessions ==
  \A s \in Sessions : \A d \in Drains :
    ContractSpec => [](Early(s) => [](phase[d] = "ended" => s \notin live))
<1> TAKE s \in Sessions
<1> TAKE d \in Drains
<1>1. ContractInv /\ Early(s) => Covered(s)
  BY EarlyIsCovered
<1>2. ContractInv /\ Covered(s) /\ [ContractNext]_contractVars => Covered(s)'
  BY NextCovered
<1>3. ContractInv /\ Covered(s) => (phase[d] = "ended" => s \notin live)
  BY CoveredIsDrained
<1>. QED BY <1>1, <1>2, <1>3, ContractInvariant, PTL DEF ContractSpec
=============================================================================
