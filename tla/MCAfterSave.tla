---------------------------- MODULE MCAfterSave ----------------------------
(* What follows a save, on small instances: the index of SearchIndex and    *)
(* the hints of HintBus.  They share no state, so that their composition    *)
(* has nothing to show that either has not; the initial state says which    *)
(* of them runs.                                                            *)
EXTENDS SearchIndex, HintBus

VARIABLE part

MCVars == <<vars, busVars, part>>

MCInit == Init /\ BusInit /\ part \in {"index", "hints"}

IndexPart(A) == part = "index" /\ A /\ UNCHANGED <<busVars, part>>
HintsPart(A) == part = "hints" /\ A /\ UNCHANGED <<vars, part>>

MCNext == IndexPart(Next) \/ HintsPart(BusNext)

\* The fairness of Spec and of BusSpec.
MCSpec ==
    /\ MCInit /\ [][MCNext]_MCVars
    /\ WF_MCVars(IndexPart(LoopStep))
    /\ \A c \in Call : WF_MCVars(HintsPart(CallStep(c)))
    /\ \A d \in Device : WF_MCVars(HintsPart(LinkStep(d)))
=============================================================================
