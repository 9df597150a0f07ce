------------------------------- MODULE MCStartup -------------------------------
(* An instance of Startup for TLC: an IPv4 address, the address "::" with two *)
(* texts, a text that is no address; bytes of two bits, the default port and *)
(* one too large for two bytes.                                            *)
EXTENDS Startup, TLC

SomePton == "1.2.3.4" :> "four" @@ "::" :> "any" @@ "0::0" :> "any" @@ "host" :> None
SomeNtop == "four" :> "1.2.3.4" @@ "any" :> "::"
===============================================================================
