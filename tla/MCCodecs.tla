------------------------------ MODULE MCCodecs ------------------------------
(***************************************************************************)
(* The codecs at the edges of the connector, for TLC.  RouterMessage and   *)
(* TokenCodec share no variable, and every property speaks of one of them: *)
(* each is explored with the other at rest.                                *)
(***************************************************************************)
EXTENDS RouterMessage, TokenCodec

VARIABLE subject  \* the module that is explored

CodecsInit == Init /\ TokenInit /\ subject \in {"router", "token"}

CodecsNext ==
    \/ subject = "router" /\ Next /\ UNCHANGED <<subject, tokenVars>>
    \/ subject = "token" /\ TokenNext /\ UNCHANGED <<subject, vars>>

CodecsSpec == CodecsInit /\ [][CodecsNext]_<<subject, vars, tokenVars>>
=============================================================================
