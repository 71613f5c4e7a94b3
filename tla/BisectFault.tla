---------------------------- MODULE BisectFault ----------------------------
(***************************************************************************)
(* A hunt on a machine.  A steady fault makes a mask fail exactly when it  *)
(* contains one of the fault's minimal sets of cores.  A minimal set of    *)
(* one core is an offset that is unstable alone, a larger one is a         *)
(* conjunction that needs all of its offsets live.  Without a minimal set   *)
(* the machine follows no rule: its answers need not agree.                *)
(***************************************************************************)
EXTENDS Bisect

CONSTANT MaxFaults  \* bound: minimal sets of one fault

ASSUME MaxFaultsAssumption == MaxFaults \in Nat

VARIABLE fault      \* the minimal sets of cores whose offsets fail together

fvars == <<hunt, clean, failed, fault>>

Reproduces(mask) == \E T \in fault : T \subseteq mask

\* Minimal sets do not contain one another, and the crash that opened the
\* hunt was a failure of the whole live vector.
FaultInit ==
  /\ Init
  /\ \/ fault = {}
     \/ /\ fault \in SUBSET {T \in CoreSets : Cardinality(T) \in 1..2}
        /\ Cardinality(fault) <= MaxFaults
        /\ \A S, T \in fault : S \subseteq T => S = T
        /\ Reproduces(hunt.candidates)

FaultNext ==
  /\ \/ Dispatch
     \/ \E reproduced \in BOOLEAN :
          /\ fault # {} => reproduced = Reproduces(hunt.inFlight)
          /\ Answer(reproduced)
  /\ UNCHANGED fault

\* The engine always dispatches the next probe and every probe is answered,
\* by its result or by the reboot it caused.
FaultSpec == FaultInit /\ [][FaultNext]_fvars /\ WF_fvars(FaultNext)

-----------------------------------------------------------------------------
(* Properties *)

\* A steady fault is always attributed: the convicted cores fail together, so
\* the verdict explains the crash (bisect.py:452-477).
VerdictExplainsFailure == fault # {} /\ Terminal(hunt) => Reproduces(hunt.found)

\* The cores that fail alone.
Lone == {c \in hunt.candidates : {c} \in fault}

\* When every fault is a single core, the hunt convicts exactly these cores; a
\* reproduced lead ends it at the one loaded core (bisect.py:8-26, 428-434).
LoneFaultsConvictedExactly ==
  /\ fault # {} /\ Terminal(hunt)
  /\ \A T \in fault : Cardinality(T) = 1
  => hunt.found = (IF LeadProbe(hunt.candidates, hunt.loaded) \subseteq Lone
                      /\ LeadProbe(hunt.candidates, hunt.loaded) # {}
                     THEN LeadProbe(hunt.candidates, hunt.loaded)
                     ELSE Lone)

\* The sets that wait to be split, without their order.
Waiting(h) == {h.pending[i] : i \in 1..Len(h.pending)}

\* The inductive invariants behind the two.  The answers of a steady fault are
\* true, so every set that waits, is being split or was convicted fails, and a
\* set whose halves ran clean fails again as a whole.
FaultTold ==
  fault # {} =>
    /\ \A M \in clean : ~Reproduces(M)
    /\ \A M \in failed : Reproduces(M)
    /\ \A W \in Waiting(hunt) \cup ({hunt.parent, hunt.found} \ {{}}) : Reproduces(W)
    /\ Terminal(hunt) => hunt.found # {}

\* When every fault is a single core, no half without a fault is pursued and
\* none with a fault is dropped, unless the loaded core ends the hunt.
LoneKept ==
  /\ fault # {}
  /\ \A T \in fault : Cardinality(T) = 1
  => LET lead == LeadProbe(hunt.candidates, hunt.loaded)
     IN  \/ hunt.stage = "lead"
         \/ Terminal(hunt) /\ lead # {} /\ lead \subseteq Lone /\ hunt.found = lead
         \/ /\ lead = {} \/ ~(lead \subseteq Lone)
            /\ hunt.found \subseteq Lone
            /\ Lone \subseteq hunt.found \cup Open(hunt)

FaultInvariant == HuntInvariant /\ fault \subseteq CoreSets /\ FaultTold /\ LoneKept
=============================================================================
