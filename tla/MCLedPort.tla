------------------------------- MODULE MCLedPort ------------------------------
(* Two of the four registers, and of the drivers one that turns its LED on and the
   one that is bound to a device; all four drivers for the run that stops early. *)
EXTENDS LedPort

MCDrivers == {"newchrled", "leddriver"}
MCAllDrivers == {"led", "newchrled", "dtsled", "leddriver"}
MCWords == << "MODER", "PUPDR" >>
=============================================================================
