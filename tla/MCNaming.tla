------------------------------ MODULE MCNaming ------------------------------
(***************************************************************************)
(* What the naming service sees of a connector, for TLC: whether it is     *)
(* advertised (Naming) and with which figures (Stat).  The two share no    *)
(* variable, and every property speaks of one of them: each is explored    *)
(* with the other at rest.                                                 *)
(***************************************************************************)
EXTENDS Naming, Stat

VARIABLE subject  \* the module that is explored

RegistrationInit == Init /\ StatInit /\ subject \in {"naming", "stat"}

\* A step of Naming, when that is the module explored.
OfNaming(A) == subject = "naming" /\ A /\ UNCHANGED <<subject, statVars>>

RegistrationNext ==
    \/ OfNaming(Next)
    \/ subject = "stat" /\ StatNext /\ UNCHANGED <<subject, vars>>

allVars == <<subject, vars, statVars>>

\* The fairness of Naming.
RegistrationSpec ==
    /\ RegistrationInit
    /\ [][RegistrationNext]_allVars
    /\ WF_allVars(OfNaming(Samples))
    /\ SF_allVars(OfNaming(Publish))
=============================================================================
