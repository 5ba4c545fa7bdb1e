---------------------------- MODULE MCModemSettings ----------------------------
(* ModemSettings with every setting the chip has, and some it has not. *)
EXTENDS ModemSettings

MCSfs == 4..13
MCBws == {780, 1040, 1560, 2080, 3125, 4170, 6250, 10000, 12500, 25000, 50000, 52000}
MCCrs == 5..9
MCAirBw == {6250, 12500, 25000, 50000}
MCLens == 0..255
=============================================================================
