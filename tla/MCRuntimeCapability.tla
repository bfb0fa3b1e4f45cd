------------------------ MODULE MCRuntimeCapability ------------------------
(***************************************************************************)
(* RuntimeCapability on two capabilities, one call and two hooks: enough    *)
(* for capabilities whose hooks dispose each other, a method that disposes  *)
(* its own capability, and a hook appended while the loop runs.             *)
(***************************************************************************)
EXTENDS RuntimeCapability
=============================================================================
