----------------------------- MODULE LogStream -----------------------------
(***************************************************************************)
(* The log lines of one thread (srcs/logger): a Logger writes a header,    *)
(* the operators of LogStream put pieces into its FixedBuffer, and the     *)
(* destructor outputs the line.  Text is its length, except for integers   *)
(* and pointers, whose digits convert() and convertHex() make.  The time   *)
(* is a Timestamp; the times of day that formatTime() keeps in t_time      *)
(* between lines are abstracted to the second they show.                   *)
(***************************************************************************)
EXTENDS CppDivision, Sequences

CONSTANTS
  kSmallBuffer, kMaxNumericSize, g_min_log_level,
  TidLen,       \* the length of the thread's id
  FileLengths,  \* the lengths of the names of source files
  LineNumbers,
  Errnos,       \* the values of saved_errno_, 0 for none
  Strerror,     \* the length of their text
  Ints,         \* the integers that are logged
  Pointers,     \* the addresses that are logged
  Doubles,      \* the lengths of the doubles that are logged
  Lengths,      \* the lengths of the strings that are logged
  Times,        \* the times, in microseconds, at which lines are logged
  MaxPieces     \* bound: the pieces put into one line

VARIABLES
  open,          \* is there a Logger?
  time_,
  curr_,         \* FixedBuffer: the bytes in use
  top,           \* FixedBuffer: the bytes ever written to
  pieces,        \* how many pieces the line was given
  text,          \* the number logged last, [value, base, digits]
  t_lastSecond, t_time,
  zoned,         \* g_logTimeZone.valid()
  shown,         \* the time in the header of the line, [seconds, microseconds]
  ended          \* did the last line that was output end with a newline?

timeVars == <<time_, t_lastSecond, t_time, zoned, shown>>
vars == <<open, curr_, top, pieces, text, ended, timeVars>>

NoText == [value |-> 0, base |-> 10, digits |-> <<0>>]

Init == /\ open = FALSE /\ time_ = 0 /\ shown = [seconds |-> 0, microseconds |-> 0]
        /\ curr_ = 0 /\ top = 0 /\ pieces = 0
        /\ text = NoText /\ ended = TRUE
        /\ t_lastSecond = 0 /\ t_time = 0
        /\ zoned \in BOOLEAN

-----------------------------------------------------------------------------
(* convert() and convertHex().                                             *)

\* i, after every round of the loop that the caller has made room for.
Rests(value, base) ==
  LET i[k \in 0..kMaxNumericSize] ==
        IF k = 0 THEN value ELSE Quotient(i[k - 1], base)
  IN  i

\* do ... while (i != 0)
EndsAfter(i, n) == i[n] = 0 /\ \A k \in 1..(n - 1) : i[k] # 0
Rounds(i) == CHOOSE n \in 1..kMaxNumericSize : EndsAfter(i, n)

reverse(buf) == [k \in 1..Len(buf) |-> buf[Len(buf) + 1 - k]]

\* The remainder of a negative number is negative.
digits == <<9, 8, 7, 6, 5, 4, 3, 2, 1, 0, 1, 2, 3, 4, 5, 6, 7, 8, 9>>

\* mutant: the table without its negative half
zeroMut(lsd) == IF lsd >= 0 THEN lsd ELSE 10 + lsd

zero(lsd) == digits[lsd + 10]

Minus == -1  \* the sign, as a digit

convert(value) ==
  LET i    == Rests(value, 10)
      buf  == [k \in 1..Rounds(i) |-> zero(Remainder(i[k - 1], 10))]
      sign == IF value < 0 THEN <<Minus>> ELSE <<>>
  IN  reverse(buf \o sign)

convertHex(value) ==
  LET i == Rests(value, 16)
  IN  reverse([k \in 1..Rounds(i) |-> Remainder(i[k - 1], 16)])

\* There is room for the digits of every number, with a sign and a '\0', or
\* with "0x" and a '\0'.
ASSUME LogStreamAssumption ==
  /\ kSmallBuffer \in Nat \ {0} /\ kMaxNumericSize \in Nat
  /\ TidLen \in Nat /\ Strerror \in Nat /\ FileLengths \subseteq Nat
  /\ Lengths \subseteq Nat /\ Doubles \subseteq 0..(kMaxNumericSize - 1)
  /\ Times \subseteq Nat /\ \A t \in Times : t >= 1000000
  /\ Ints \cup Errnos \cup LineNumbers \subseteq Int /\ Pointers \subseteq Nat
  /\ \A v \in Ints \cup Errnos \cup LineNumbers :
       \E n \in 1..(kMaxNumericSize - 2) : EndsAfter(Rests(v, 10), n)
  /\ \A p \in Pointers :
       \E n \in 1..(kMaxNumericSize - 3) : EndsAfter(Rests(p, 16), n)

-----------------------------------------------------------------------------
(* Timestamp.                                                              *)

kMicroSecondsPerSecond == 1000000

secondsSinceEpoch(t) == t \div kMicroSecondsPerSecond
microseconds(t) == t % kMicroSecondsPerSecond

-----------------------------------------------------------------------------
(* FixedBuffer.  A buffer is [curr, top].                                  *)

EmptyBuffer == [curr |-> 0, top |-> 0]

remain(b) == kSmallBuffer - b.curr

Wider(a, b) == IF a > b THEN a ELSE b

\* Bytes that do not fit are discarded, all of them.
append(b, len) ==
  IF remain(b) > len
  THEN [curr |-> b.curr + len, top |-> Wider(b.top, b.curr + len)]
  ELSE b

RoomForNumber(b) == remain(b) >= kMaxNumericSize

\* mutant: the room for a number is not tested
formatNumberMut(b, len) ==
  [curr |-> b.curr + len, top |-> Wider(b.top, b.curr + len + 1)]

\* A number is written in place with a '\0' behind it.
formatNumber(b, len) ==
  IF RoomForNumber(b)
  THEN [curr |-> b.curr + len, top |-> Wider(b.top, b.curr + len + 1)]
  ELSE b

Become(b) == curr_' = b.curr /\ top' = b.top
Now == [curr |-> curr_, top |-> top]

\* What there is to be read of a number: nothing when there is no room.
Logged(b, v, base, ds) ==
  IF RoomForNumber(b) THEN [value |-> v, base |-> base, digits |-> ds] ELSE NoText

-----------------------------------------------------------------------------
(* Logger.                                                                 *)

\* mutant: the clock is thought never to go back
formatTimeMut(t) ==
  /\ IF secondsSinceEpoch(t) > t_lastSecond
     THEN t_lastSecond' = secondsSinceEpoch(t) /\ t_time' = t_lastSecond'
     ELSE UNCHANGED <<t_lastSecond, t_time>>
  /\ shown' = [seconds |-> t_time', microseconds |-> microseconds(t)]

formatTime(t) ==
  /\ IF secondsSinceEpoch(t) # t_lastSecond
     THEN t_lastSecond' = secondsSinceEpoch(t) /\ t_time' = t_lastSecond'
     ELSE UNCHANGED <<t_lastSecond, t_time>>
  /\ shown' = [seconds |-> t_time', microseconds |-> microseconds(t)]

\* "%20s:%d ", cut by the 64 bytes of buf.
formatFileAndLine(file, line) ==
  LET len == Wider(20, file) + 2 + Len(convert(line))
  IN  IF len > 63 THEN 63 ELSE len

\* The header up to ": ".
headOf(file, line) ==
  LET stamp == append(append(EmptyBuffer, 17), IF zoned THEN 8 ELSE 9)
      place == append(append(stamp, TidLen), formatFileAndLine(file, line))
  IN  append(append(place, 6), 2)

writeHeader(file, line, saved_errno_) ==
  LET head  == headOf(file, line)
      named == append(append(head, Strerror), 8)
  IN  IF saved_errno_ = 0 THEN Become(head) /\ text' = NoText
      ELSE /\ Become(append(formatNumber(named, Len(convert(saved_errno_))), 2))
           /\ text' = Logged(named, saved_errno_, 10, convert(saved_errno_))

\* LOG(level) or LOGSYS(level), which also saves errno.
Logger(level, t, file, line, saved_errno_) ==
  /\ ~open /\ level >= g_min_log_level
  /\ open' = TRUE /\ time_' = t /\ pieces' = 0
  /\ formatTime(t)
  /\ writeHeader(file, line, saved_errno_)
  /\ UNCHANGED <<zoned, ended>>

-----------------------------------------------------------------------------
(* The operators of LogStream.                                             *)

Piece == /\ open /\ pieces < MaxPieces
         /\ pieces' = pieces + 1
         /\ UNCHANGED <<open, ended, timeVars>>

putInt(v) == /\ Piece
             /\ text' = Logged(Now, v, 10, convert(v))
             /\ Become(formatNumber(Now, Len(convert(v))))

\* "0x" and the digits.
putPointer(p) == /\ Piece
                 /\ text' = Logged(Now, p, 16, convertHex(p))
                 /\ Become(formatNumber(Now, 2 + Len(convertHex(p))))

putDouble(len) == Piece /\ Become(formatNumber(Now, len)) /\ text' = NoText

\* Strings, Fmt, a bool and a char.
putString(len) == Piece /\ Become(append(Now, len)) /\ text' = NoText

\* mutant: the newline is treated like a number
newlineMut(b) == IF RoomForNumber(b) THEN append(b, 1) ELSE b

\* operator<<(char)
newline(b) == IF remain(b) >= 1 THEN append(b, 1) ELSE b

\* ~Logger(): the newline is a piece like any other.
finishLine == /\ open
              /\ open' = FALSE
              /\ Become(newline(Now))
              /\ ended' = (newline(Now) # Now)
              /\ text' = NoText
              /\ UNCHANGED <<pieces, timeVars>>

Next == \/ \E level \in 0..4, t \in Times, f \in FileLengths, n \in LineNumbers,
              e \in Errnos : Logger(level, t, f, n, e)
        \/ \E v \in Ints : putInt(v)
        \/ \E p \in Pointers : putPointer(p)
        \/ \E len \in Doubles : putDouble(len)
        \/ \E len \in Lengths : putString(len)
        \/ finishLine

Spec == Init /\ [][Next]_vars
-----------------------------------------------------------------------------
(* Properties.                                                             *)

\* No operator writes outside data_, whatever was logged before it: formatInt()
\* and the others write numbers, and a '\0', without a length to stop at.
WithinBuffer == curr_ <= top /\ top <= kSmallBuffer

\* ~Logger() loses the newline of one line only: the one that already fills
\* data_ but for the byte that append() never gives away.
LineEnds == ~open => ended \/ curr_ = kSmallBuffer - 1

Denoted(number) ==
  LET n[k \in 0..Len(number.digits)] ==
        IF k = 0 THEN 0
        ELSE IF number.digits[k] = Minus THEN n[k - 1]
        ELSE number.base * n[k - 1] + number.digits[k]
  IN  n[Len(number.digits)] * (IF Head(number.digits) = Minus THEN -1 ELSE 1)

\* convert() and convertHex() write the number in their base, without leading
\* zeros, and the most negative one too, which has no absolute value of its
\* width.
NumeralForm ==
  /\ \A i \in 2..Len(text.digits) : text.digits[i] \in 0..(text.base - 1)
  /\ Denoted(text) = text.value
  /\ Len(text.digits) > 1 => Head(text.digits) # 0

\* The time in a header is that of the line to the microsecond, although
\* formatTime() converts it only when the second has changed since the thread's
\* last line, and the clock may have been set back.
TimeShown ==
  open => shown.seconds * kMicroSecondsPerSecond + shown.microseconds = time_
=============================================================================
