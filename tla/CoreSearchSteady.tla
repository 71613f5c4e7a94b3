-------------------------- MODULE CoreSearchSteady --------------------------
(***************************************************************************)
(* The search of one core on silicon that is steady, or that follows no     *)
(* rule.  On steady silicon each regime has an edge, the deepest offset it  *)
(* survives: beyond it the load fails or the machine dies under the trial,  *)
(* and the core is charged.  Without an edge any slot may end in any way.   *)
(***************************************************************************)
EXTENDS CoreSearch

VARIABLE edge   \* the deepest offset each regime survives, or None

svars == <<vars, edge>>

\* Stock, and whatever the core runs at when the session starts, is stable.
SteadyInit ==
  /\ Init
  /\ edge = None \/ edge \in [Regimes -> core.baseline..(Max + 1)]

Steady == edge # None

SteadyFinish ==
  \E r \in Offered :
    IF core.current <= edge[r]
      THEN FinishRegime(r) \/ FinishPass(r)
      ELSE FinishFail(r) \/ (testing /\ Charge(core.current, PenaltySteps))

\* The operator takes a paused session up again.
TakeUp == paused /\ ~testing /\ Resume

SteadyNext ==
  /\ \/ Steady /\ (Dispatch \/ Anneal \/ SteadyFinish \/ TakeUp)
     \/ ~Steady /\ Next
  /\ UNCHANGED edge

\* On steady silicon the queue of slots runs, every slot ends, and a paused
\* session is resumed.
SteadySpec ==
  /\ SteadyInit /\ [][SteadyNext]_svars
  /\ WF_svars(Steady /\ (Dispatch \/ Anneal) /\ UNCHANGED edge)
  /\ WF_svars(Steady /\ SteadyFinish /\ UNCHANGED edge)
  /\ WF_svars(Steady /\ TakeUp /\ UNCHANGED edge)

-----------------------------------------------------------------------------

\* The deepest offset every regime survives and the configuration allows.
Edge == Least(Max, Shallowest({edge[r] : r \in Regimes}))

AtEdge(depth) == Steady /\ depth <= Edge /\ Edge - depth < Fine

\* A search, however its coarse steps, its retries, its jumps and its bisection
\* meet the edge, is confirmed on it: stable, and less than a fine step short
\* (engine.py:1597-1850).
SearchLandsOnEdge ==
  [][Steady /\ core.phase # "annealing" /\ core'.phase = "confirmed" => AtEdge(core'.best)]_svars

\* Annealing ends, whatever its probes do to the machine, and leaves the core on
\* the edge (docs/tuner-state-spec.md:60-78).
ComesToRest == Steady => <>[](core.phase = "confirmed" /\ AtEdge(core.best))
=============================================================================
