----------------------------- MODULE MCServers -----------------------------
(***************************************************************************)
(* Servers for two threads, or one where a server multiplies the states.   *)
(***************************************************************************)
EXTENDS Servers

MCSingle  == {"a"}
MCSeveral == {"a", "b"}

(* Two SPI controllers have channels of their own, as the ADC has.         *)
MCAhbRole == [a |-> "adc", b |-> "mem"]
MCAxiRole == [a |-> "spi"]
=============================================================================
