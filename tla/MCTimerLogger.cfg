SPECIFICATION MCSpec
CONSTANTS
  kSmallBuffer = 4000
  kMaxNumericSize = 32
  g_min_log_level = 3
  TidLen = 16
  FileLengths = {13, 70}
  LineNumbers = {7}
  Errnos = {0, 104}
  Strerror = 24
  Ints <- MCInts
  Pointers <- MCPointers
  Doubles = {1, 19}
  Lengths <- MCLengths
  Times = {1000000, 1999999, 2000000}
  MaxPieces = 3
  Years <- MCYears
  Seconds = {0, 1, 59, 60, 3599, 3600, 43200, 86399}
  Files <- MCFiles
  Offsets = {28800}
  ZoneTimes <- MCZoneTimes
INVARIANTS
  DateAgrees
  UtcRoundTrip
  LocalRoundTrip
  WholeOrFixed
  WithinBuffer
  LineEnds
  NumeralForm
  TimeShown
PROPERTIES
  ClockJumpsOnlyAtTransitions
CHECK_DEADLOCK FALSE
