---------------------------- MODULE Attribution ----------------------------
(***************************************************************************)
(* What an attribution hunt promises its caller, without how it searches:  *)
(* suspicion only ever shrinks, a conviction comes from suspicion and is    *)
(* never withdrawn, and the verdict says whether anyone was convicted.      *)
(***************************************************************************)
EXTENDS FiniteSets

CONSTANT Cores

VARIABLES
  suspects,  \* cores that may still be convicted
  convicted, \* cores blamed for the failure
  verdict    \* "open", "culprit" or "exhausted"

avars == <<suspects, convicted, verdict>>

AInit ==
  /\ suspects \in (SUBSET Cores) \ {{}}
  /\ convicted = {}
  /\ verdict = "open"

\* Some suspects are cleared and some are convicted.
Narrow ==
  /\ verdict = "open"
  /\ suspects' \subseteq suspects
  /\ convicted \subseteq convicted'
  /\ convicted' \ convicted \subseteq suspects \ suspects'
  /\ verdict' = verdict

\* The last suspects are cleared or convicted and the verdict is given.
Conclude ==
  /\ verdict = "open"
  /\ suspects' = {}
  /\ convicted \subseteq convicted'
  /\ convicted' \ convicted \subseteq suspects
  /\ verdict' = IF convicted' # {} THEN "culprit" ELSE "exhausted"

ANext == Narrow \/ Conclude

ASpec == AInit /\ [][ANext]_avars
=============================================================================
