---------------------------- MODULE MCWitnessGate ----------------------------
(***************************************************************************)
(* An attention case alone: the reference of two elements is never zero    *)
(* throughout, the candidate may be.                                       *)
(***************************************************************************)
EXTENDS WitnessGate

MCAttn == <<"attn">>
MCFiniteRef == {10, 12}
MCFiniteCand == {0, 10, 12}
=============================================================================
