----------------------------- MODULE ModemSettings -----------------------------
(***************************************************************************)
(* The modem parameters: what RadioLib's driver believes they are, what    *)
(* the virtual chip has decoded from its commands, and the three copies of *)
(* the airtime formula, each of which reads its own.                       *)
(*                                                                         *)
(* A bandwidth is in units of 10 Hz.  Airtimes are in exact integers: over *)
(* the bandwidths of AirBw, on which a symbol is a whole number of         *)
(* microseconds, the floats of the code give the same.                     *)
(***************************************************************************)
EXTENDS Integers

CONSTANTS
  Sfs, Bws, Crs,   \* what the firmware asks for, the refused among it
  Preambles,       \* symbols of preamble
  FirstSf, FirstBw, FirstCr,  \* LORA_SF, LORA_BW, LORA_CR of the build
  AirBw,           \* bandwidths the airtimes are compared at
  Lens             \* lengths they are compared for

SfRange == 5..12
Words == 0..65535  \* uint16_t
CrRange == 5..8    \* 4, which RadioLib accepts too, MeshCore refuses

ASSUME SettingsAssumption ==
  /\ Sfs \subseteq Nat /\ Bws \subseteq Nat /\ Crs \subseteq Nat \ {4}
  /\ Preambles \subseteq Words /\ Lens \subseteq 0..255
  /\ AirBw \subseteq {6250, 12500, 25000, 50000}
  /\ FirstSf \in SfRange /\ FirstBw \in {6250, 12500, 25000, 50000} /\ FirstCr \in CrRange

VARIABLES
  drv,    \* SX126x: spreadingFactor, bandwidthKhz, bandwidth, codingRate and so on
  chip,   \* VirtualSX1262: sf_, bwKHz_, cr_, preambleSyms_
  up      \* std_init has returned

settings == <<drv, chip, up>>

-----------------------------------------------------------------------------
\* applyModulation's table.
Decodes(code) == CASE code = 0 -> 781 [] code = 8 -> 1042 [] code = 1 -> 1563 [] code = 9 -> 2083
                   [] code = 2 -> 3125 [] code = 10 -> 4167 [] code = 3 -> 6250
                   [] code = 4 -> 12500 [] code = 5 -> 25000 [] code = 6 -> 50000
Codes == 0..6 \cup 8..10

\* The chip: a code it does not know, or a coding rate of 0, leaves what there is.
ApplyModulation(c, sf, code, cr) ==
  [sf |-> sf, bw |-> IF code \in Codes THEN Decodes(code) ELSE c.bw,
   cr |-> IF cr # 0 THEN 4 + cr ELSE c.cr, preamble |-> c.preamble]

ModemPowerOn == [sf |-> 10, bw |-> 25000, cr |-> 5, preamble |-> 16]

\* RadioLib: half the bandwidth in kHz, and the code it stands for.
Half(bw) == (bw + 2) \div 200
Encodes == [h \in {3, 5, 7, 10, 15, 20, 31, 62, 125, 250} |->
  CASE h = 3 -> 0 [] h = 5 -> 8 [] h = 7 -> 1 [] h = 10 -> 9 [] h = 15 -> 2
    [] h = 20 -> 10 [] h = 31 -> 3 [] h = 62 -> 4 [] h = 125 -> 5 [] h = 250 -> 6]
Accepted(bw) == bw <= 51000 /\ Half(bw) \in DOMAIN Encodes

\* RadioLib takes 7.0 for 7.8: what the firmware asks for is in the table, or refused.
ASSUME NominalBws ==
  \A bw \in Bws \cup {FirstBw} : Accepted(bw) =>
    LET nominal == Decodes(Encodes[Half(bw)])
    IN 100 * (nominal - bw) <= bw /\ 100 * (bw - nominal) <= bw

\* A symbol of at least 16 ms.
SlowSymbol(sf, bw) == 2^sf * 100 >= 16 * bw

\* The driver and the chip after SetModulationParams.
Modulated(m) ==
  LET d == [m.drv EXCEPT !.ldro = SlowSymbol(m.drv.sf, m.drv.bw)]
  IN [drv |-> d, chip |-> ApplyModulation(m.chip, d.sf, d.code, d.cr)]

\* The setters: out of range they return an error and do nothing.
SetSf(m, sf) == IF sf \in SfRange THEN Modulated([m EXCEPT !.drv.sf = sf]) ELSE m

\* Mutant of SetBw: the member is set before the value is looked at.
SetBwFirst(m, bw) ==
  LET n == [m EXCEPT !.drv.bw = bw]
  IN IF Accepted(bw) THEN Modulated([n EXCEPT !.drv.code = Encodes[Half(bw)]]) ELSE n
SetBw(m, bw) ==
  IF Accepted(bw)
  THEN Modulated([m EXCEPT !.drv = [@ EXCEPT !.bw = bw, !.code = Encodes[Half(bw)]]])
  ELSE m

SetCr(m, cr) ==
  IF cr \in {4} \cup CrRange THEN Modulated([m EXCEPT !.drv.cr = cr - 4]) ELSE m

\* SetPacketParams carries the preamble.
SetPreamble(m, n) ==
  [drv |-> [m.drv EXCEPT !.preamble = n], chip |-> [m.chip EXCEPT !.preamble = n]]

-----------------------------------------------------------------------------
Both == [drv |-> drv, chip |-> chip]
Become(m) == drv' = m.drv /\ chip' = m.chip

\* The members' initialisers, before SX126x::begin.
Unset == [sf |-> 0, bw |-> 0, code |-> 0, cr |-> 0, ldro |-> FALSE, preamble |-> 0]
ModemInit == drv = Unset /\ chip = ModemPowerOn /\ up = FALSE

\* SX126x::begin: 500 kHz, SF9, until the arguments have arrived.
Fresh(preamble) == [sf |-> 9, bw |-> 50000, code |-> 6, cr |-> 3, ldro |-> FALSE,
                    preamble |-> preamble]

\* std_init, with the build's LORA_SF and so on.
Begin ==
  /\ ~up /\ up' = TRUE
  /\ \E n \in Preambles :
       LET m == SetPreamble(SetCr([Both EXCEPT !.drv = Fresh(n)], FirstCr), n)
       IN Become(SetBw(SetSf(m, FirstSf), FirstBw))

\* The firmware's setParams: the errors are not looked at.
SetParams ==
  /\ up /\ UNCHANGED up
  /\ \E sf \in Sfs, bw \in Bws, cr \in Crs : Become(SetCr(SetBw(SetSf(Both, sf), bw), cr))

\* And the preamble that goes with the spreading factor, when it has changed.
UpdatePreamble ==
  /\ up /\ UNCHANGED up
  /\ \E n \in Preambles : Become(SetPreamble(Both, n))

ModemNext == Begin \/ SetParams \/ UpdatePreamble
ModemSpec == ModemInit /\ [][ModemNext]_settings

-----------------------------------------------------------------------------
\* The airtime formulas.

Ceil(n, d) == (n + d - 1) \div d
SymbolUs(sf, bw) == (2^sf * 100000) \div bw

\* Mutant of ChipAirtime: the last, incomplete block of symbols is not sent.
ChipAirtimeFloor(c, len) ==
  LET num == 8 * len - 4 * c.sf + 44
      den == 4 * (c.sf - (IF c.sf >= 11 THEN 2 ELSE 0))
      coded == IF num > 0 THEN num \div den ELSE 0
  IN (SymbolUs(c.sf, c.bw) * (4 * c.preamble + 49 + 4 * coded * c.cr) + 2000) \div 4000
\* VirtualSX1262::estAirtimeMs: milliseconds, rounded; four times the symbols, for the 4.25.
ChipAirtime(c, len) ==
  LET num == 8 * len - 4 * c.sf + 44
      den == 4 * (c.sf - (IF c.sf >= 11 THEN 2 ELSE 0))
      coded == IF num > 0 THEN Ceil(num, den) ELSE 0
  IN (SymbolUs(c.sf, c.bw) * (4 * c.preamble + 49 + 4 * coded * c.cr) + 2000) \div 4000

\* SX126x::calculateTimeOnAir: microseconds.
LibAirtime(d, len) ==
  LET short == d.sf \in {5, 6}
      bits == 8 * len + 36 - 4 * d.sf + (IF short THEN 0 ELSE 8)
      coded == Ceil(IF bits < 0 THEN 0 ELSE bits, 4 * (d.sf - (IF d.ldro THEN 2 ELSE 0)))
  IN (SymbolUs(d.sf, d.bw)
        * ((d.preamble + 8) * 4 + (IF short THEN 25 ELSE 17) + coded * (d.cr + 4) * 4)) \div 4

PreambleFor(sf) == IF sf <= 8 THEN 32 ELSE 16

\* HostRadio::getEstAirtimeFor: milliseconds, cut.
HostAirtime(sf, bw, cr, len) ==
  LET short == sf \in {5, 6}
      bits == 8 * len + 36 - 4 * sf + (IF short THEN 0 ELSE 8)
      coded == Ceil(IF bits < 0 THEN 0 ELSE bits, 4 * (sf - (IF SlowSymbol(sf, bw) THEN 2 ELSE 0)))
  IN (SymbolUs(sf, bw) * (4 * PreambleFor(sf) + (IF short THEN 25 ELSE 17) + 32
                          + 4 * coded * (cr + 4))) \div 4000

-----------------------------------------------------------------------------
\* The settings are ones that exist; SettingsMatch is inductive together with this.
TypeOK ==
  /\ up \in BOOLEAN
  /\ chip.sf \in SfRange /\ chip.cr \in CrRange /\ chip.preamble \in Words
  /\ chip.bw \in {Decodes(code) : code \in Codes}
  /\ up => /\ drv.sf \in SfRange /\ drv.cr \in 1..4 /\ drv.ldro \in BOOLEAN
           /\ drv.code \in Codes /\ drv.bw \in Nat /\ drv.preamble \in Preambles

\* The chip is set to what the driver believes it is, whatever was asked for and refused,
\* in whatever order: otherwise a node hears, and is heard by, nobody, while everything it
\* says of itself is right.  The chip's bandwidths are rounded, by less than one per cent.
SettingsMatch ==
  up => /\ chip.sf = drv.sf /\ chip.cr = drv.cr + 4 /\ chip.preamble = drv.preamble
        /\ 100 * (chip.bw - drv.bw) <= drv.bw /\ 100 * (drv.bw - chip.bw) <= drv.bw

\* "Two copies of a formula that nothing compares are two formulas" (main.cpp:190-192), and
\* "it has to be the firmware's own formula rather than a good approximation of it"
\* (HostRadio.cpp:12-16).  The chip's airtime is the driver's, rounded where the firmware
\* cuts, as long as the two rules for low data rate optimisation agree: SF11 and SF12, and
\* a symbol of 16 ms; not for SF5 and SF6, whose other coefficients the chip's formula
\* does not have.  The stub's is the driver's to the millisecond, for every setting, with
\* the coding rate counted from 1.
SameRule == (chip.sf >= 11) = SlowSymbol(chip.sf, chip.bw)
AirtimesAgree ==
  up /\ drv.bw \in AirBw => \A len \in Lens :
    LET lib == LibAirtime(drv, len) \div 1000
    IN /\ chip.sf >= 7 /\ SameRule => ChipAirtime(chip, len) - lib \in {0, 1}
       /\ drv.preamble = PreambleFor(drv.sf) =>
            HostAirtime(drv.sf, drv.bw, drv.cr, len) = lib
=============================================================================
