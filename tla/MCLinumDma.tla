----------------------------- MODULE MCLinumDma -----------------------------
(* Instance of LinumDma for TLC: one memory-to-peripheral slot (I2C TX)    *)
(* and one peripheral-to-memory slot (ADC or I2C RX).                      *)
EXTENDS LinumDma

CONSTANTS tx, rx
MCSlots == {tx, rx}
MCM2PSlots == {tx}
=============================================================================
