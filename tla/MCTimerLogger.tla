--------------------------- MODULE MCTimerLogger ----------------------------
(***************************************************************************)
(* The libraries under srcs/timer and srcs/logger.  They share no state,   *)
(* and each behaviour is one of the dates, of a time zone or of a log.     *)
(***************************************************************************)
EXTENDS LogStream, TimeZone

VARIABLE part

allVars == <<part, dateVars, zoneVars, vars>>

\* Numbers of 16 bits, the edges of their range and of each number of digits
\* included, the longest of 32 bits, and strings that fill the buffer up to
\* every one of its last bytes.
MCInts == {-32768, 32767, 2147483647} \cup {-10, -9, -1, 0, 1, 9, 10}
            \cup UNION {{p - 1, -p} : p \in {100, 10000}}
MCPointers == {0, 9, 10, 15, 16, 255, 4096, 2147483647}
MCLengths == {0, 1, 6} \cup (3890..3928)

\* The range of years that date.h gives for a Date.
MCYears == 1900..2500

\* Zones east and west of Greenwich, with summer time on one side of the year
\* or the other; one from before the epoch whose summer time ends by two hours
\* and which then changes its standard time, as another one does; their files
\* are also cut short, and one zone has no file.
Day == kSecondsPerDay
Winter(o) == [gmtOffset |-> o, isDst |-> FALSE]
Summer(o) == [gmtOffset |-> o, isDst |-> TRUE]
MCFiles ==
  { [trans |-> <<2 * Day + 3600, 4 * Day + 3600>>, local |-> <<2, 1>>,
     types |-> <<Winter(3600), Summer(7200)>>],
    [trans |-> <<2 * Day + 7 * 3600, 4 * Day + 6 * 3600>>, local |-> <<2, 1>>,
     types |-> <<Winter(-18000), Summer(-14400)>>],
    [trans |-> <<2 * Day, 3 * Day, 4 * Day>>, local |-> <<1, 2, 1>>,
     types |-> <<Winter(34200), Summer(37800)>>],
    [trans |-> <<-2 * Day, -Day, 0>>, local |-> <<2, 1, 3>>,
     types |-> <<Winter(0), Summer(7200), Winter(-1800)>>],
    [trans |-> <<2 * Day>>, local |-> <<2>>,
     types |-> <<Winter(30600), Winter(27000)>>] }

\* The half hours around every transition, and the seconds before them.
MCZoneTimes ==
  LET edges == UNION {{f.trans[i] : i \in DOMAIN f.trans} : f \in MCFiles}
  IN  UNION {{e + 1800 * k, e + 1800 * k - 1} : e \in edges, k \in -5..5}

MCInit ==
  /\ part \in {"date", "zone", "log"}
  /\ DateInit /\ ZoneInit /\ Init
  /\ part # "date" => ymd.year = 1970
  /\ part # "zone" => data = fixedZone(28800)

UseDate == part = "date" /\ DateNext /\ UNCHANGED <<part, zoneVars, vars>>
UseZone == part = "zone" /\ ZoneNext /\ UNCHANGED <<part, dateVars, vars>>
UseLog == part = "log" /\ Next /\ UNCHANGED <<part, dateVars, zoneVars>>

MCSpec == MCInit /\ [][UseDate \/ UseZone \/ UseLog]_allVars
=============================================================================
