------------------------- MODULE MCProducerConsumer1 -------------------------
(* ProducerConsumer1 for TLC: either version of the program in one run, the *)
(* shipped one with one condition variable or the improved one with two,    *)
(* each under its fairness.                                                 *)
EXTENDS ProducerConsumer1

VARIABLE improved

allvars == <<vars, improved>>

full == IF improved THEN "cond_full" ELSE "cond"

empty == IF improved THEN "cond_empty" ELSE "cond"

Kept(step) == step /\ UNCHANGED improved

EitherFairness ==
    /\ \A p \in Producers : WF_allvars(Kept(ProducerRuns(p, full, empty)))
    /\ \A c \in Consumers : WF_allvars(Kept(ConsumerRuns(c, full, empty)))
    /\ SF_allvars(Kept(\E p \in Producers : TakesMutex(p, full)))
    /\ SF_allvars(Kept(\E c \in Consumers : TakesMutex(c, empty)))

EitherInit == Init /\ improved \in BOOLEAN

EitherFairSpec ==
    /\ EitherInit
    /\ [][Kept(IF improved THEN Next2 ELSE Next)]_allvars
    /\ EitherFairness
=============================================================================
