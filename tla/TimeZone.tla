------------------------------ MODULE TimeZone ------------------------------
(***************************************************************************)
(* TimeZone (srcs/timer/time_zone.cc): local time from the transitions of  *)
(* a zone file, and back.  A broken-down time is abstracted to the second  *)
(* it denotes when it is read as UTC (gmtime_r and timegm convert one into *)
(* the other) with the tm_isdst and tm_gmtoff that came with it.           *)
(***************************************************************************)
EXTENDS Calendar, Sequences

CONSTANTS Files,     \* the contents of zone files: trans, local, types
          Offsets,   \* the offsets of the zones without a file
          ZoneTimes  \* bound: the seconds since the epoch that are converted

VARIABLES data,      \* *data_ of the zone
          whole,     \* history: what the whole file holds
          used,      \* has a time been converted?
          now,       \* the time converted last
          local,     \* toLocalTime(now)
          back       \* fromLocalTime(local)

zoneVars == <<data, whole, used, now, local, back>>

\* What a well-formed zone file holds: one local time type or more, and
\* transitions in the order of their times, before the epoch and after it, each
\* to one of the types.
LocalTimeTypes == [gmtOffset : Int, isDst : BOOLEAN]
WellFormed(f) ==
  /\ f.types \in Seq(LocalTimeTypes) /\ f.types # <<>>
  /\ f.trans \in Seq(Int)
  /\ f.local \in Seq(DOMAIN f.types) /\ Len(f.local) = Len(f.trans)
  /\ \A i, j \in DOMAIN f.trans : i < j => f.trans[i] < f.trans[j]

\* What the clock shows around a transition, before it is set and after, is
\* later than around the transitions before: they are further apart than clocks
\* are set.  findLocaltime() needs it to search by local time.
Apart(f) ==
  LET offset(i) == f.types[IF i = 0 THEN 1 ELSE f.local[i]].gmtOffset
  IN  \A i, j \in DOMAIN f.trans : i < j =>
        \A a \in {offset(i - 1), offset(i)}, b \in {offset(j - 1), offset(j)} :
          f.trans[i] + a < f.trans[j] + b

ASSUME ZoneAssumption ==
  /\ \A f \in Files : WellFormed(f) /\ Apart(f)
  /\ Offsets \subseteq Int /\ ZoneTimes \subseteq Int

-----------------------------------------------------------------------------
(* The constructors.  A file is a sequence of records, as File reads them: *)
(* the head with the counts, the times and the types of the transitions,   *)
(* the local time types, the abbreviations.                                *)

Records(f) == 2 + 2 * Len(f.trans) + Len(f.types)

TypesRead(f, size) ==
  LET n == size - 1 - 2 * Len(f.trans)
  IN  SubSeq(f.types, 1, IF n < Len(f.types) THEN n ELSE Len(f.types))

\* The local time at a transition is the one that the clock is set to.
Transition(f, i) ==
  [gmttime      |-> f.trans[i],
   localtime    |-> f.trans[i] + f.types[f.local[i]].gmtOffset,
   localtimeIdx |-> f.local[i]]

\* mutant: the transitions to the types that were read are kept
transitionsReadMut(f, size) ==
  SelectSeq([i \in DOMAIN f.trans |-> Transition(f, i)],
            LAMBDA tr : tr.localtimeIdx <= Len(TypesRead(f, size)))

\* No transition is kept before all the types have been read.
transitionsRead(f, size) ==
  IF size < Records(f) - 1 THEN <<>>
  ELSE [i \in DOMAIN f.trans |-> Transition(f, i)]

\* The read that finds the end of the file, or a bad head (size 0), throws; a
\* file that is not there is not read.  Either way what was read is kept, and
\* data_ is not reset.
readTimeZoneFile(f, size) ==
  [localtimes |-> TypesRead(f, size), transitions |-> transitionsRead(f, size)]

fixedZone(eastOfUtc) ==
  [localtimes |-> <<[gmtOffset |-> eastOfUtc, isDst |-> FALSE]>>,
   transitions |-> <<>>]

-----------------------------------------------------------------------------
\* Comp: a transition's time, in GMT or local
Key(transition, gmt) == IF gmt THEN transition.gmttime ELSE transition.localtime

\* mutant: the transition found by lower_bound is used even if it is later
findLocaltimeMut(tables, time, gmt) ==
  LET key(i) == Key(tables.transitions[i], gmt)
      n      == Len(tables.transitions)
      found  == {i \in 1..n : key(i) >= time}
      transI == CHOOSE i \in found : \A j \in found : i <= j
  IN  IF n = 0 \/ (n > 0 /\ time < key(1)) THEN tables.localtimes[1]
      ELSE IF found # {} THEN tables.localtimes[tables.transitions[transI].localtimeIdx]
      ELSE tables.localtimes[tables.transitions[n].localtimeIdx]

\* lower_bound: the first transition not earlier than the time, which is the
\* one in force only if it is at that very time; else it is the one before.
findLocaltime(tables, time, gmt) ==
  LET key(i) == Key(tables.transitions[i], gmt)
      n      == Len(tables.transitions)
      found  == {i \in 1..n : key(i) >= time}
      transI == CHOOSE i \in found : \A j \in found : i <= j
  IN  IF n = 0 \/ (n > 0 /\ time < key(1)) THEN tables.localtimes[1]
      ELSE IF found # {}
           THEN LET i == IF key(transI) # time THEN transI - 1 ELSE transI
                IN  tables.localtimes[tables.transitions[i].localtimeIdx]
      ELSE tables.localtimes[tables.transitions[n].localtimeIdx]

toLocalTime(tables, seconds) ==
  LET type == findLocaltime(tables, seconds, TRUE)
  IN  [tm |-> seconds + type.gmtOffset, tm_isdst |-> type.isDst,
       tm_gmtoff |-> type.gmtOffset]

\* tm_hour and tm_min
HourMin(tm) == (tm % kSecondsPerDay) \div 60

\* mutant: tm_isdst is not looked at
fromLocalTimeMut(tables, localTm) ==
  localTm.tm - findLocaltime(tables, localTm.tm, FALSE).gmtOffset

\* In the hour that is set back the transition says winter; a time said to be
\* of summer is then the one an hour earlier.
fromLocalTime(tables, localTm) ==
  LET offset == findLocaltime(tables, localTm.tm, FALSE).gmtOffset
      tryTm  == toLocalTime(tables, localTm.tm - offset)
      again  == /\ localTm.tm_isdst /\ ~tryTm.tm_isdst
                /\ HourMin(tryTm.tm) = HourMin(localTm.tm)
  IN  localTm.tm - (IF again THEN 3600 ELSE 0) - offset

-----------------------------------------------------------------------------
ZoneInit ==
  /\ \/ \E f \in Files : \E size \in 0..Records(f) :
          /\ data = readTimeZoneFile(f, size)
          /\ whole = readTimeZoneFile(f, Records(f))
     \/ \E o \in Offsets : data = fixedZone(o) /\ whole = fixedZone(o)
  /\ used = FALSE /\ now = 0 /\ local = <<>> /\ back = 0

\* A time is converted there and back, by a zone that has a local time type.
Convert(t) == /\ data.localtimes # <<>>
              /\ used => t > now
              /\ used' = TRUE /\ now' = t
              /\ local' = toLocalTime(data, t)
              /\ back' = fromLocalTime(data, local')
              /\ UNCHANGED <<data, whole>>

ZoneNext == \E t \in ZoneTimes : Convert(t)

ZoneSpec == ZoneInit /\ [][ZoneNext]_zoneVars
-----------------------------------------------------------------------------
(* Properties.                                                             *)

\* The transitions after which the clock will show again what it shows now.
ShownAgain == {i \in DOMAIN data.transitions :
                 /\ data.transitions[i].gmttime > now
                 /\ data.transitions[i].localtime <= local.tm}

\* fromLocalTime() inverts toLocalTime() except where the clock is about to be
\* set back.  There it gives the later of the two times that the clock shows, an
\* hour earlier when summer time ends: that is the inverse when summer time is
\* one hour, and off by the rest otherwise.
LocalRoundTrip ==
  used =>
    /\ ShownAgain = {} => back = now
    /\ \A i \in ShownAgain :
         LET type == data.localtimes[data.transitions[i].localtimeIdx]
             setBack == local.tm_gmtoff - type.gmtOffset
             summerEnds == local.tm_isdst /\ ~type.isDst
         IN  back = now + setBack - (IF summerEnds THEN 3600 ELSE 0)

\* readTimeZoneFile() swallows the exception of a file that ends too early and
\* keeps what it read; no conversion mixes that with what is missing.  It is
\* that of the whole file, or a fixed offset, the one of its first type.
WholeOrFixed ==
  used => \/ local = toLocalTime(whole, now)
          \/ /\ data.transitions = <<>>
             /\ local.tm_gmtoff = whole.localtimes[1].gmtOffset

Between(a, b) == {i \in DOMAIN data.transitions :
                    data.transitions[i].gmttime \in (a + 1)..b}

\* The local clock jumps by the change of the offset and by nothing else: two
\* times with no transition between them are as far apart in toLocalTime().
ClockJumpsOnlyAtTransitions ==
  [][used /\ Between(now, now') = {}
       => local'.tm - local.tm = now' - now]_zoneVars
=============================================================================
