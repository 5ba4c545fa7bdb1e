SPECIFICATION ModemSpec
CONSTANTS
  Sfs <- MCSfs
  Bws <- MCBws
  Crs <- MCCrs
  Preambles = {16, 32}
  FirstSf = 8
  FirstBw = 6250
  FirstCr = 5
  AirBw <- MCAirBw
  Lens <- MCLens
INVARIANTS SettingsMatch AirtimesAgree
