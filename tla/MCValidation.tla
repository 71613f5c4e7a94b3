---------------------------- MODULE MCValidation ----------------------------
(* The validation of two cores, with values for TLC. *)
EXTENDS Validation

TwoHalves == <<{1}, {2}>>

Off == [transitions |-> FALSE, spectrum |-> FALSE, memory |-> FALSE,
        soak |-> FALSE, endurance |-> FALSE]
On == [o \in DOMAIN Off |-> TRUE]
AllOrEndurance == {[On EXCEPT !.endurance = FALSE], [Off EXCEPT !.endurance = TRUE]}

TwoWorkloads == <<FALSE, TRUE>>
=============================================================================
