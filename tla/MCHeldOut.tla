-------------------------------- MODULE MCHeldOut --------------------------------
(****************************************************************************)
(* A small instance of HeldOut: every pricing of two series over four weeks *)
(* of two days, with gaps, late launches and series that vanish.  The lead  *)
(* times asked for are ones a configuration file admits.                    *)
(****************************************************************************)
EXTENDS HeldOut

ConfiguredLeads == {1, 2, 3}
================================================================================
