\* The panel against any operator, two runs that end in any way, and data that
\* comes and goes.
SPECIFICATION FairSpec
CONSTANTS
  Topics = {joints}
  Estop = Estop
  MaxRuns = 2
  MaxFailures = 1
  MaxWire = 2
INVARIANTS TypeOK OneTask HistoryTrue
PROPERTY OutageShown
