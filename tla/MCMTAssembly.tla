---------------------------- MODULE MCMTAssembly ----------------------------
(* Small instances of MTAssembly.                                           *)
EXTENDS MTAssembly

AllKinds == {"DEFAULT", "EIG", "CC", "NAIVE", "GRAD", "PROD"}
=============================================================================
