------------------------------- MODULE MCAmqp -------------------------------
(***************************************************************************)
(* Instance of Amqp for TLC; the constants are model values.               *)
(***************************************************************************)
EXTENDS Amqp
=============================================================================
