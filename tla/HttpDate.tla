------------------------------ MODULE HttpDate ------------------------------
(***************************************************************************)
(* The dates of HTTP headers in libowfat: fmt_httpdate writes one,         *)
(* scan_httpdate reads the three forms that RFC 2616 knows.  Both walk     *)
(* through the text by fixed distances.  gmtime and timegm are external    *)
(* and undo each other; a time is what gmtime makes of it.                 *)
(***************************************************************************)
EXTENDS Integers, SequencesExt, FiniteSetsExt, TLC

CONSTANTS
  Times,    \* the times: [year, mon, mday, hour, min, sec]
  Behind    \* what follows a date: sequences of characters

VARIABLES
  time, form,  \* what is written, and how
  text, after,
  date         \* [used, time]: what scan_httpdate returns and sets

vars == <<time, form, text, after, date>>

Unread == [used |-> 0, time |-> "none"]

-----------------------------------------------------------------------------
Days == <<"Sun", "Mon", "Tue", "Wed", "Thu", "Fri", "Sat">>
LongDays == <<"Sunday", "Monday", "Tuesday", "Wednesday", "Thursday", "Friday", "Saturday">>
Months == <<"Jan", "Feb", "Mar", "Apr", "May", "Jun", "Jul", "Aug", "Sep", "Oct", "Nov", "Dec">>
DaysBefore == <<0, 31, 59, 90, 120, 151, 181, 212, 243, 273, 304, 334>>
Figures == <<"0", "1", "2", "3", "4", "5", "6", "7", "8", "9">>

(* A word is its letters: "Sun1", "Sun2", "Sun3". *)
Letter(word, i) == word \o ToString(i)
Letters(word, n) == [i \in 1 .. n |-> Letter(word, i)]
DayLength(d) == <<6, 6, 7, 9, 8, 6, 8>>[d]

(* The day of the week (tm_wday of gmtime), 1 for Sunday. *)
Leap(y) == y % 4 = 0 /\ (y % 100 # 0 \/ y % 400 = 0)
Weekday(t) ==
  LET past == t.year - 1
      days == 365 * past + (past \div 4) - (past \div 100) + (past \div 400) + DaysBefore[t.mon]
                + t.mday + (IF t.mon > 2 /\ Leap(t.year) THEN 1 ELSE 0)
  IN  (days % 7) + 1

fmt_2digits(n) == <<Figures[(n \div 10) + 1], Figures[(n % 10) + 1]>>
Clock(t) == fmt_2digits(t.hour) \o <<":">> \o fmt_2digits(t.min) \o <<":">> \o fmt_2digits(t.sec)
GMT == Letters("GMT", 3)

fmt_httpdate(t) ==
  Letters(Days[Weekday(t)], 3) \o <<",", " ">> \o fmt_2digits(t.mday) \o <<" ">>
    \o Letters(Months[t.mon], 3) \o <<" ">> \o fmt_2digits(t.year \div 100)
    \o fmt_2digits(t.year % 100) \o <<" ">> \o Clock(t) \o <<" ">> \o GMT

(* The forms of others: rfc850-date, with the weekday in full and a year   *)
(* of two digits, and asctime-date.                                        *)
Rfc850(t) ==
  Letters(LongDays[Weekday(t)], DayLength(Weekday(t))) \o <<",", " ">> \o fmt_2digits(t.mday)
    \o <<"-">> \o Letters(Months[t.mon], 3) \o <<"-">> \o fmt_2digits(t.year % 100)
    \o <<" ">> \o Clock(t) \o <<" ">> \o GMT
Asctime(t) ==
  Letters(Days[Weekday(t)], 3) \o <<" ">> \o Letters(Months[t.mon], 3) \o <<" ">>
    \o (IF t.mday < 10 THEN <<" ", Figures[t.mday + 1]>> ELSE fmt_2digits(t.mday))
    \o <<" ">> \o Clock(t) \o <<" ">> \o fmt_2digits(t.year \div 100) \o fmt_2digits(t.year % 100)

-----------------------------------------------------------------------------
Ch(s, i) == IF i \in DOMAIN s THEN s[i] ELSE "nul"
IsDigit(s, i) == \E d \in 1 .. 10 : Ch(s, i) = Figures[d]
(* scan_ulong at c: how many digits, and their value. *)
Count(s, c) == Max({k \in 0 .. 4 : \A j \in 0 .. k - 1 : IsDigit(s, c + j)})
Value(s, c) ==
  FoldLeft(LAMBDA n, d : 10 * n + d - 1, 0,
           [j \in 1 .. Count(s, c) |-> CHOOSE d \in 1 .. 10 : Figures[d] = s[c + j - 1]])

(* The months of which the three characters at c are one: none leaves      *)
(* tm_mon as it was, that is, anything.                                    *)
MonthAt(s, c) ==
  LET hit == {m \in 1 .. 12 : \A i \in 1 .. 3 : Ch(s, c + i - 1) = Letter(Months[m], i)}
  IN  IF hit = {} THEN 0 ELSE Min(hit)

(* parsetime at c: three numbers behind each other, then a blank. *)
ParseTime(s, c) ==
  LET m == c + Count(s, c) + 1
      e == m + Count(s, m) + 1
  IN  [ok |-> Ch(s, m - 1) = ":" /\ Ch(s, e - 1) = ":" /\ Ch(s, e + Count(s, e)) = " ",
       hour |-> Value(s, c), min |-> Value(s, m), sec |-> Value(s, e)]

(* Mutant of YearOf: the pivot year goes to the wrong century. *)
YearOfPivot(n) == IF n > 1000 THEN n ELSE IF n < 71 THEN 2000 + n ELSE 1900 + n
YearOf(n) == IF n > 1000 THEN n ELSE IF n < 70 THEN 2000 + n ELSE 1900 + n

Made(s, end, year, mon, mday, clock) ==
  IF ~clock.ok THEN Unread
  ELSE [used |-> end - 1, time |-> [year |-> year, mon |-> mon, mday |-> mday,
                                    hour |-> clock.hour, min |-> clock.min, sec |-> clock.sec]]

(* Weekday in front of a comma: day, month, year, time. *)
DayFirst(s, d) ==
  LET mon == d + Count(s, d) + 1
      year == mon + 4
      clock == year + Count(s, year) + 1
      end == clock + 9
  IN  Made(s, IF SubSeq(s, end, end + 2) = GMT THEN end + 3 ELSE end, YearOf(Value(s, year)),
           MonthAt(s, mon), Value(s, d), ParseTime(s, clock))

(* No comma: month, day, time, year. *)
MonthFirst(s) ==
  LET d == IF Ch(s, 9) = " " THEN 10 ELSE 9
      clock == d + Count(s, d) + 1
      year == clock + 9
  IN  Made(s, year + Count(s, year), Value(s, year), MonthAt(s, 5), Value(s, d), ParseTime(s, clock))

scan_httpdate(s) ==
  IF Ch(s, 4) = "," THEN DayFirst(s, 6)
  ELSE IF Ch(s, 7) = "," THEN DayFirst(s, 9)
  ELSE MonthFirst(s)

-----------------------------------------------------------------------------
Init == time = "none" /\ form = "none" /\ text = <<>> /\ after = <<>> /\ date = Unread

Write(t, rest) ==
  /\ form = "none" /\ time' = t /\ after' = rest
  /\ \/ form' = "rfc1123" /\ text' = fmt_httpdate(t)
     \/ form' = "rfc850" /\ t.year \in 1970 .. 2069 /\ text' = Rfc850(t)
     \/ form' = "asctime" /\ text' = Asctime(t)
  /\ UNCHANGED date

Read ==
  /\ form \in {"rfc1123", "rfc850", "asctime"} /\ form' = "read"
  /\ date' = scan_httpdate(text \o after)
  /\ UNCHANGED <<time, text, after>>

Next == Read \/ \E t \in Times, rest \in Behind : Write(t, rest)

Spec == Init /\ [][Next]_vars

-----------------------------------------------------------------------------
(* A date is read to its end, and as the time it was; a weekday in full    *)
(* that has not six letters is refused, and nothing else.                  *)
DatesExact ==
  form = "read" =>
    date = IF \E d \in 1 .. 7 : DayLength(d) # 6 /\ Ch(text, 1) = Letter(LongDays[d], 1)
           THEN Unread ELSE [used |-> Len(text), time |-> time]
=============================================================================
