------------------------------ MODULE MCGpioIrq ------------------------------
(* GpioIrq for TLC.                                                        *)
EXTENDS GpioIrq
=============================================================================
