SPECIFICATION AggregationSpec
CONSTANT StatsInterval = 20
CONSTANT MicrosPerSecond = 10
CONSTANT Alphabet <- MCAlphabet
CONSTANT Runs <- MCRuns
CONSTANT Results <- MCResults
CONSTANT MaxIntervals = 3
INVARIANTS CountsConserved SummaryFaithful
CHECK_DEADLOCK FALSE
