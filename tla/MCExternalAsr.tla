--------------------------- MODULE MCExternalAsr ---------------------------
(***************************************************************************)
(* Settings for the bounded instances of ExternalAsr.                      *)
(***************************************************************************)
EXTENDS ExternalAsr

Internal == [mode |-> "internal", host |-> ""]
NoHost   == [mode |-> "external", host |-> ""]
Name     == [mode |-> "external", host |-> "name"]
Address  == [mode |-> "external", host |-> "address"]

MCSettings == {Internal, NoHost, Name, Address}
=============================================================================
