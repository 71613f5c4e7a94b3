------------------------------ MODULE MCBisect ------------------------------
(* The hunt on a steady fault and on a machine that follows no rule.       *)
EXTENDS BisectFault

\* The hunt as its caller sees it.
Caller == INSTANCE Attribution WITH
  suspects <- Open(hunt),
  convicted <- hunt.found,
  verdict <- IF Terminal(hunt) THEN hunt.stage ELSE "open"

\* bisect.py keeps what an attribution promises: no core returns under
\* suspicion, no conviction is withdrawn, no verdict changes (bisect.py:389-477).
ImplementsAttribution == Caller!ASpec
=============================================================================
