---------------------------- MODULE StartProofs ----------------------------
(***************************************************************************)
(* Proofs about StartTime, for any lengths of minute, hour and day that    *)
(* divide each other, any offset of full hours and any bodies: cover is    *)
(* neither shortened nor lengthened by the rounding, it begins when it was *)
(* asked to or at the next full hour of the same day, and the two products *)
(* treat one body alike.                                                   *)
(***************************************************************************)
EXTENDS StartTime, TLAPS

-----------------------------------------------------------------------------
(* Division with remainder. *)

LEMMA DivMod ==
  ASSUME NEW x \in Int, NEW u \in Nat \ {0}
  PROVE  /\ x \div u \in Int /\ x % u \in Int
         /\ x = (x \div u) * u + (x % u)
         /\ 0 <= x % u /\ x % u < u
  OBVIOUS

LEMMA DivModUnique ==
  ASSUME NEW q \in Int, NEW u \in Nat \ {0}, NEW r \in Int, 0 <= r, r < u
  PROVE  (q * u + r) \div u = q /\ (q * u + r) % u = r
  OBVIOUS

Divides(u, x) == \E n \in Int : x = n * u

LEMMA DividesIsMod ==
  ASSUME NEW u \in Nat \ {0}, NEW x \in Int
  PROVE  Divides(u, x) <=> x % u = 0
<1>1. ASSUME NEW n \in Int, x = n * u  PROVE x % u = 0
  BY <1>1, DivModUnique
<1>2. ASSUME x % u = 0  PROVE Divides(u, x)
  <2>1. x = (x \div u) * u /\ x \div u \in Int
    BY <1>2, DivMod
  <2> QED BY <2>1 DEF Divides
<1> QED BY <1>1, <1>2 DEF Divides

LEMMA DividesSum ==
  ASSUME NEW u \in Nat \ {0}, NEW x \in Int, NEW y \in Int, Divides(u, x), Divides(u, y)
  PROVE  Divides(u, x + y) /\ Divides(u, x - y)
<1>1. PICK n \in Int : x = n * u
  BY DEF Divides
<1>2. PICK m \in Int : y = m * u
  BY DEF Divides
<1>3. /\ x + y = (n + m) * u /\ n + m \in Int
      /\ x - y = (n - m) * u /\ n - m \in Int
  BY <1>1, <1>2
<1>4. Divides(u, x + y)
  BY <1>3 DEF Divides
<1>5. Divides(u, x - y)
  BY <1>3 DEF Divides
<1> QED BY <1>4, <1>5

LEMMA DividesTransitive ==
  ASSUME NEW u \in Nat \ {0}, NEW x \in Int, NEW y \in Int, Divides(u, x), Divides(x, y)
  PROVE  Divides(u, y)
<1>1. PICK n \in Int : x = n * u
  BY DEF Divides
<1>2. PICK m \in Int : y = m * x
  BY DEF Divides
<1>3. y = (m * n) * u /\ m * n \in Int
  BY <1>1, <1>2
<1> QED BY <1>3 DEF Divides

LEMMA FloorFacts ==
  ASSUME NEW x \in Int, NEW u \in Nat \ {0}
  PROVE  /\ Floor(x, u) \in Int
         /\ Floor(x, u) <= x /\ x < Floor(x, u) + u
         /\ Divides(u, Floor(x, u))
         /\ Divides(u, x) => Floor(x, u) = x
<1>1. /\ x \div u \in Int /\ x % u \in Int
      /\ x = (x \div u) * u + (x % u)
      /\ 0 <= x % u /\ x % u < u
  BY DivMod
<1>2. Divides(u, Floor(x, u))
  BY <1>1 DEF Floor, Divides
<1>3. Divides(u, x) => x % u = 0
  BY DividesIsMod
<1> QED BY <1>1, <1>2, <1>3 DEF Floor

-----------------------------------------------------------------------------
(* The calendar. *)

LEMMA Units ==
  /\ Minute \in Nat \ {0} /\ Hour \in Nat \ {0} /\ Day \in Nat \ {0} /\ VnOffset \in Nat
  /\ Divides(Minute, Hour) /\ Divides(Hour, Day) /\ Divides(Minute, Day)
  /\ Divides(Hour, VnOffset) /\ Divides(Minute, VnOffset)
<1>1. /\ Minute \in Nat \ {0} /\ Hour \in Nat \ {0} /\ Day \in Nat \ {0} /\ VnOffset \in Nat
      /\ Hour % Minute = 0 /\ Day % Hour = 0 /\ VnOffset % Hour = 0
  BY TicksAssumption
<1>2. Divides(Minute, Hour) /\ Divides(Hour, Day) /\ Divides(Hour, VnOffset)
  BY <1>1, DividesIsMod
<1> QED BY <1>1, <1>2, DividesTransitive

LEMMA WholeDays ==
  ASSUME NEW n \in Int
  PROVE  n * Day \in Int /\ Divides(Day, n * Day) /\ Divides(Hour, n * Day)
         /\ Divides(Minute, n * Day)
<1> DEFINE y == n * Day
<1>1. y \in Int /\ Divides(Day, y)
  BY Units DEF Divides
<1> HIDE DEF y
<1>2. Divides(Hour, y) /\ Divides(Minute, y)
  BY <1>1, Units, DividesTransitive
<1> QED BY <1>1, <1>2 DEF y

\* Splitting a moment into a day and a time of full minutes loses nothing.
LEMMA FormatThenParse ==
  ASSUME NEW utc \in Int, Divides(Minute, utc + VnOffset)
  PROVE  /\ formatVnDate(utc) \in Int /\ formatVnTime(utc) \in Int
         /\ 0 <= formatVnTime(utc) /\ formatVnTime(utc) < Day
         /\ Divides(Minute, formatVnTime(utc))
         /\ parseVnDateTime(formatVnDate(utc), formatVnTime(utc)) = utc
<1> DEFINE x == utc + VnOffset
           r == x % Day
           q == x \div Day
<1>1. x \in Int /\ Divides(Minute, x)
  BY Units
<1>2. r \in Int /\ q \in Int /\ x = q * Day + r /\ 0 <= r /\ r < Day
  BY <1>1, Units, DivMod
<1>3. Divides(Minute, r)
  <2> HIDE DEF x, q, r
  <2>1. q * Day \in Int /\ Divides(Minute, q * Day)
    BY <1>2, WholeDays
  <2>2. Divides(Minute, x - q * Day)
    BY <1>1, <2>1, Units, DividesSum
  <2>3. r = x - q * Day
    BY <1>1, <1>2, <2>1
  <2> QED BY <2>2, <2>3
<1>4. Floor(r, Minute) = r
  BY <1>2, <1>3, Units, FloorFacts
<1>5. formatVnDate(utc) = q /\ formatVnTime(utc) = r
  BY <1>4 DEF formatVnDate, formatVnTime
<1>6. x = utc + VnOffset
  OBVIOUS
<1> HIDE DEF q, r, x
<1>7. parseVnDateTime(q, r) = utc
  BY <1>1, <1>2, <1>6, Units DEF parseVnDateTime
<1> QED BY <1>2, <1>3, <1>5, <1>7

\* A parsed moment falls on a full minute.
LEMMA ParsedIsWhole ==
  ASSUME NEW ngay \in Int, NEW gio \in Int, Divides(Minute, gio)
  PROVE  /\ parseVnDateTime(ngay, gio) \in Int
         /\ Divides(Minute, parseVnDateTime(ngay, gio) + VnOffset)
<1>1. ngay * Day \in Int /\ Divides(Minute, ngay * Day)
  BY WholeDays
<1>2. Divides(Minute, ngay * Day + gio)
  BY <1>1, Units, DividesSum
<1>3. parseVnDateTime(ngay, gio) + VnOffset = ngay * Day + gio
  BY <1>1, Units DEF parseVnDateTime
<1> QED BY <1>1, <1>2, <1>3, Units DEF parseVnDateTime

\* Shifting an end by full minutes moves it by exactly as much.
LEMMA ShiftMoves ==
  ASSUME NEW ngay \in Int, NEW gio \in Int, Divides(Minute, gio),
         NEW delta \in Int, Divides(Minute, delta)
  PROVE  LET end == shiftEndTime(ngay, gio, delta)
         IN /\ end.ngay \in Int /\ end.gio \in Int
            /\ 0 <= end.gio /\ end.gio < Day /\ Divides(Minute, end.gio)
            /\ parseVnDateTime(end.ngay, end.gio) = parseVnDateTime(ngay, gio) + delta
<1> DEFINE p == parseVnDateTime(ngay, gio)
<1>1. p \in Int /\ Divides(Minute, p + VnOffset)
  BY ParsedIsWhole
<1>2. shiftEndTime(ngay, gio, delta)
        = [ngay |-> formatVnDate(p + delta), gio |-> formatVnTime(p + delta)]
  BY DEF shiftEndTime, Parses
<1> HIDE DEF p
<1>3. Divides(Minute, (p + VnOffset) + delta)
  BY <1>1, Units, DividesSum
<1>4. (p + VnOffset) + delta = (p + delta) + VnOffset /\ p + delta \in Int
  BY <1>1, Units
<1>5. Divides(Minute, (p + delta) + VnOffset)
  BY <1>3, <1>4
<1>6. /\ formatVnDate(p + delta) \in Int /\ formatVnTime(p + delta) \in Int
      /\ 0 <= formatVnTime(p + delta) /\ formatVnTime(p + delta) < Day
      /\ Divides(Minute, formatVnTime(p + delta))
      /\ parseVnDateTime(formatVnDate(p + delta), formatVnTime(p + delta)) = p + delta
  BY <1>4, <1>5, FormatThenParse
<1> QED BY <1>2, <1>6 DEF p
-----------------------------------------------------------------------------
(* Rounding up. *)

\* Multiples of a unit that lie less than the unit apart are one.
LEMMA SameMultiple ==
  ASSUME NEW u \in Nat \ {0}, NEW x \in Int, NEW y \in Int,
         Divides(u, x), Divides(u, y), x - u < y, y < x + u
  PROVE  x = y
<1>1. PICK n \in Int : x = n * u
  BY DEF Divides
<1>2. PICK m \in Int : y = m * u
  BY DEF Divides
<1>3. (n - m) * u < u /\ (m - n) * u < u
  BY <1>1, <1>2
<1>4. n - m < 1 /\ m - n < 1
  BY <1>3
<1> QED BY <1>1, <1>2, <1>4

\* A multiple below another is at least a unit below it.
LEMMA NextMultiple ==
  ASSUME NEW u \in Nat \ {0}, NEW x \in Int, NEW y \in Int,
         Divides(u, x), Divides(u, y), x < y
  PROVE  x + u <= y
<1>1. PICK n \in Int : x = n * u
  BY DEF Divides
<1>2. PICK m \in Int : y = m * u
  BY DEF Divides
<1>3. n < m
  BY <1>1, <1>2
<1>4. (n + 1) * u <= m * u
  BY <1>3
<1> QED BY <1>1, <1>2, <1>4

\* 00:00 of the day on which t falls becomes the first full hour after t, or, when
\* that is the midnight to come, stays 00:00.
LEMMA RoundedUp ==
  ASSUME NEW ngay \in Int, NEW t \in Int,
         parseVnDateTime(ngay, 0) >= StartOfTodayVn(t),
         parseVnDateTime(ngay, 0) < StartOfTodayVn(t) + Day
  PROVE  LET gio == HourVn(NextHour(t))
             next == NextHour(t)
         IN /\ gio \in Int /\ 0 <= gio /\ gio < Day /\ Divides(Hour, gio)
            /\ next \in Int /\ t < next /\ next <= t + Hour /\ Divides(Hour, next)
            /\ parseVnDateTime(ngay, 0) = StartOfTodayVn(t)
            /\ \/ gio = 0 /\ t >= StartOfTodayVn(t) + Day - Hour
               \/ /\ parseVnDateTime(ngay, gio) = next
                  /\ StartOfTodayVn(next) = StartOfTodayVn(t)
<1> DEFINE x == t + VnOffset
           today == ngay * Day
           n == NextHour(t)
           y == n + VnOffset
           r == y % Day
<1>0. /\ x = t + VnOffset /\ y = n + VnOffset /\ n = Floor(t + Hour, Hour)
      /\ parseVnDateTime(ngay, 0) = today + 0 - VnOffset
  BY DEF parseVnDateTime, NextHour
<1>00. today \in Int /\ Divides(Day, today) /\ Divides(Hour, today)
  BY WholeDays
<1> HIDE DEF today
<1>1. /\ x \in Int /\ today \in Int /\ Divides(Day, today) /\ Divides(Hour, today)
      /\ parseVnDateTime(ngay, 0) = today - VnOffset
  BY <1>0, <1>00, Units
<1>2. StartOfTodayVn(t) = Floor(x, Day) - VnOffset
  BY DEF StartOfTodayVn
<1>3. Floor(x, Day) \in Int /\ Divides(Day, Floor(x, Day))
      /\ Floor(x, Day) <= x /\ x < Floor(x, Day) + Day
  BY <1>1, Units, FloorFacts
<1>4. Floor(x, Day) = today
  <2> HIDE DEF x, today
  <2>1. today >= Floor(x, Day) /\ today < Floor(x, Day) + Day
    BY <1>1, <1>2, <1>3, Units
  <2> QED BY <1>1, <1>3, <2>1, Units, SameMultiple
<1>5. n \in Int /\ n <= t + Hour /\ t < n /\ Divides(Hour, n)
  <2> DEFINE z == t + Hour
  <2>1. z \in Int /\ z = t + Hour /\ n = Floor(z, Hour)
    BY <1>0, Units
  <2> HIDE DEF z, n
  <2>2. n \in Int /\ n <= z /\ z < n + Hour /\ Divides(Hour, n)
    BY <2>1, Units, FloorFacts
  <2> QED BY <2>1, <2>2, Units
<1>6. y \in Int /\ Divides(Hour, y)
  <2> HIDE DEF n, y
  <2>1. n + VnOffset \in Int /\ Divides(Hour, n + VnOffset)
    BY <1>5, Units, DividesSum
  <2> QED BY <1>0, <2>1
<1>7. r \in Int /\ y \div Day \in Int /\ y = (y \div Day) * Day + r /\ 0 <= r /\ r < Day
  BY <1>6, Units, DivMod
<1>8. Divides(Hour, r)
  <2> DEFINE q == y \div Day
  <2> HIDE DEF y, r, q
  <2>1. q * Day \in Int /\ Divides(Hour, q * Day)
    BY <1>7, WholeDays DEF q
  <2>2. Divides(Hour, y - q * Day)
    BY <1>6, <2>1, Units, DividesSum
  <2> QED BY <1>6, <1>7, <2>1, <2>2 DEF q
<1>9. HourVn(n) = r
  BY <1>7, <1>8, Units, FloorFacts DEF HourVn
<1>10. x < y /\ y <= x + Hour
  BY <1>5, Units
<1>11. Divides(Hour, today + Day) /\ Divides(Hour, y - Hour) /\ Divides(Day, today + Day)
  <2>1. Hour = 1 * Hour /\ Day = 1 * Day /\ Hour \in Int /\ Day \in Int
    BY Units
  <2>2. Divides(Hour, Hour) /\ Divides(Day, Day)
    BY <2>1 DEF Divides
  <2> HIDE DEF y, today
  <2> QED BY <1>1, <1>6, <2>2, Units, DividesSum
<1> HIDE DEF x, today, n, y, r
<1>12. CASE y < today + Day
  <2> DEFINE q == y \div Day
  <2>0. q \in Int /\ y = q * Day + r
    BY <1>7
  <2>00. y \div Day = q
    OBVIOUS
  <2> HIDE DEF q
  <2>1. q * Day \in Int /\ Divides(Day, q * Day) /\ q * Day <= y /\ y < q * Day + Day
    <3>1. q * Day \in Int /\ Divides(Day, q * Day)
      BY <2>0, WholeDays
    <3> QED BY <1>6, <1>7, <2>0, <3>1, Units
  <2>2. q * Day = today
    <3> DEFINE z == q * Day
    <3>1. z \in Int /\ Divides(Day, z) /\ z <= y /\ y < z + Day
      BY <2>1
    <3> HIDE DEF z
    <3>2. today - Day < z /\ z < today + Day
      BY <1>1, <1>3, <1>4, <1>6, <1>10, <1>12, <3>1, Units
    <3>3. z = today
      BY <1>1, <3>1, <3>2, Units, SameMultiple
    <3> QED BY <3>3 DEF z
  <2>3. r = y - today
    BY <1>1, <1>6, <1>7, <2>0, <2>2
  <2>4. parseVnDateTime(ngay, r) = n
    BY <1>1, <1>5, <1>7, <2>3, Units DEF parseVnDateTime, y, today
  <2>5. StartOfTodayVn(n) = today - VnOffset
    BY <1>0, <2>2, <2>00 DEF StartOfTodayVn, Floor
  <2> QED BY <1>1, <1>2, <1>4, <1>5, <1>7, <1>8, <1>9, <2>4, <2>5 DEF n
<1>13. CASE y >= today + Day
  <2>1. y = today + Day
    <3>1. y - Hour < today + Day
      BY <1>1, <1>3, <1>4, <1>6, <1>10, Units
    <3>2. y - Hour \in Int /\ today + Day \in Int
      BY <1>1, <1>6, Units
    <3>3. (y - Hour) + Hour <= today + Day
      BY <1>11, <3>1, <3>2, Units, NextMultiple
    <3> QED BY <1>1, <1>6, <1>13, <3>3, Units
  <2>2. r = 0
    BY <1>6, <1>11, <2>1, Units, DividesIsMod DEF r
  <2>3. t >= StartOfTodayVn(t) + Day - Hour
    BY <1>1, <1>2, <1>4, <1>6, <1>10, <2>1, Units DEF x
  <2> QED BY <1>1, <1>2, <1>4, <1>5, <1>7, <1>8, <1>9, <2>2, <2>3 DEF n
<1> QED BY <1>1, <1>6, <1>12, <1>13, Units
-----------------------------------------------------------------------------
(* The transforms. *)

LEMMA Midnight == 0 \in TimesOfDay /\ Divides(Minute, 0)
<1>1. 0 = 0 * Minute /\ Minute \in Int
  BY Units
<1>2. Divides(Minute, 0)
  BY <1>1 DEF Divides
<1>3. 0 % Minute = 0
  BY <1>2, Units, DividesIsMod
<1> QED BY <1>2, <1>3, Units DEF TimesOfDay

LEMMA TimesAreWhole ==
  /\ \A g \in TimesOfDay : g \in Int /\ Divides(Minute, g)
  /\ \A g \in Int : 0 <= g /\ g < Day /\ Divides(Minute, g) => g \in TimesOfDay
<1>1. ASSUME NEW g \in TimesOfDay  PROVE g \in Int /\ Divides(Minute, g)
  BY <1>1, Units, DividesIsMod DEF TimesOfDay
<1>2. ASSUME NEW g \in Int, 0 <= g, g < Day, Divides(Minute, g)  PROVE g \in TimesOfDay
  <2>1. g % Minute = 0
    BY <1>2, Units, DividesIsMod
  <2> QED BY <1>2, <2>1, Units DEF TimesOfDay
<1> QED BY <1>1, <1>2

\* The start time either stays as it is, becomes Past, or is rounded up.
LEMMA Resolve ==
  ASSUME NEW b \in Body, NEW t \in Int
  PROVE  LET gio == resolveGioDau(b.NgayDau, b.GioDau, t)
         IN \/ gio = b.GioDau
            \/ gio = Past /\ ~AsksForToday(b, t)
            \/ /\ b.NgayDau \in Int /\ b.GioDau = 0
               /\ gio \in TimesOfDay /\ gio \in Int /\ gio # 0 /\ Divides(Minute, gio)
               /\ AsksForToday(b, t)
               /\ LET start == parseVnDateTime(b.NgayDau, gio)
                  IN /\ start \in Int /\ t < start /\ start <= t + Hour
                     /\ Divides(Hour, start)
                     /\ StartOfTodayVn(start) = StartOf(b)
<1> DEFINE ngay == b.NgayDau
           gio == HourVn(NextHour(t))
           first == parseVnDateTime(ngay, 0)
           today == StartOfTodayVn(t)
<1>1. CASE b.GioDau # 0 \/ ~Parses(ngay, 0)
  BY <1>1 DEF resolveGioDau
<1>2. ASSUME b.GioDau = 0, Parses(ngay, 0)
      PROVE  /\ resolveGioDau(ngay, b.GioDau, t)
                  = CASE first < today -> Past
                      [] first >= today + Day -> 0
                      [] OTHER -> gio
             /\ ngay \in Int
             /\ first \in Int /\ today \in Int
             /\ AsksForToday(b, t) <=> first = today
  <2>1. ngay \in Int
    BY <1>2 DEF Parses
  <2>2. first \in Int
    BY <2>1, Midnight, ParsedIsWhole
  <2>3. t + VnOffset \in Int
    BY Units
  <2>4. today \in Int
    BY <2>3, Units, FloorFacts DEF StartOfTodayVn
  <2> QED BY <1>2, <2>1, <2>2, <2>4 DEF resolveGioDau, AsksForToday, StartOf
<1>3. CASE b.GioDau = 0 /\ Parses(ngay, 0) /\ first < today
  BY <1>2, <1>3, Units
<1>4. CASE b.GioDau = 0 /\ Parses(ngay, 0) /\ first >= today + Day
  BY <1>2, <1>4, Units
<1>5. CASE b.GioDau = 0 /\ Parses(ngay, 0) /\ first >= today /\ first < today + Day
  <2>1. resolveGioDau(ngay, b.GioDau, t) = gio
    BY <1>2, <1>5, Units
  <2>2. /\ gio \in Int /\ 0 <= gio /\ gio < Day /\ Divides(Hour, gio)
        /\ NextHour(t) \in Int /\ t < NextHour(t) /\ NextHour(t) <= t + Hour
        /\ Divides(Hour, NextHour(t))
        /\ first = today
        /\ \/ gio = 0 /\ t >= today + Day - Hour
           \/ /\ parseVnDateTime(ngay, gio) = NextHour(t)
              /\ StartOfTodayVn(NextHour(t)) = today
    BY <1>2, <1>5, RoundedUp
  <2>3. Divides(Minute, gio)
    BY <2>2, Units, DividesTransitive
  <2>4. gio \in TimesOfDay
    BY <2>2, <2>3, TimesAreWhole
  <2> HIDE DEF gio, today
  <2> QED BY <1>2, <1>5, <2>1, <2>2, <2>3, <2>4 DEF StartOf
<1> QED BY <1>1, <1>2, <1>3, <1>4, <1>5, Units

\* An order for 00:00 of today that is not rounded up arrives in the day's last hour.
LEMMA LastHour ==
  ASSUME NEW b \in Body, NEW t \in Int, AsksForToday(b, t),
         resolveGioDau(b.NgayDau, b.GioDau, t) = b.GioDau
  PROVE  t >= StartOfTodayVn(t) + Day - Hour
<1> DEFINE first == parseVnDateTime(b.NgayDau, 0)
           today == StartOfTodayVn(t)
<1>1. b.GioDau = 0 /\ b.NgayDau \in Int /\ first = today
  BY DEF AsksForToday, StartOf, Parses
<1>2. first \in Int
  BY <1>1, Midnight, ParsedIsWhole
<1>3. ~(first < today) /\ ~(first >= today + Day)
  BY <1>1, <1>2, Units
<1>4. resolveGioDau(b.NgayDau, b.GioDau, t) = HourVn(NextHour(t))
  BY <1>1, <1>3 DEF resolveGioDau, Parses
<1>5. HourVn(NextHour(t)) = 0
  BY <1>1, <1>4
<1>6. \/ t >= today + Day - Hour
      \/ /\ parseVnDateTime(b.NgayDau, 0) = NextHour(t)
         /\ NextHour(t) \in Int /\ t < NextHour(t)
  <2>1. first >= today /\ first < today + Day
    BY <1>1, <1>2, Units
  <2> QED BY <1>1, <1>5, <2>1, RoundedUp
<1>7. today <= t
  <2> DEFINE x == t + VnOffset
  <2>1. x \in Int /\ x = t + VnOffset /\ today = Floor(x, Day) - VnOffset
    BY Units DEF StartOfTodayVn
  <2> HIDE DEF x, today
  <2>2. Floor(x, Day) \in Int /\ Floor(x, Day) <= x
    BY <2>1, Units, FloorFacts
  <2> QED BY <2>1, <2>2, Units
<1> QED BY <1>1, <1>2, <1>6, <1>7
\* What the start and the end of a transformed body can be.
LEMMA TransformFacts ==
  ASSUME NEW b \in Body, NEW t \in Int
  PROVE  LET d == Transform(b, t)
             gio == resolveGioDau(b.NgayDau, b.GioDau, t)
             end == shiftEndTime(b.NgayCuoi, b.GioCuoi, gio)
         IN \/ d = b
            \/ gio = b.GioDau /\ d = [b EXCEPT !.GioDau = gio]
            \/ gio = Past /\ d = [b EXCEPT !.GioDau = gio]
            \/ gio \notin {b.GioDau, Past} /\ d = CopyEnd([b EXCEPT !.GioDau = gio], end)
            \/ /\ gio \notin {b.GioDau, Past} /\ d = [b EXCEPT !.GioDau = gio]
               /\ Garbled \in {b.NgayCuoi, b.GioCuoi}
<1> DEFINE gio == resolveGioDau(b.NgayDau, b.GioDau, t)
<1>1. b = [b EXCEPT !.GioDau = b.GioDau]
  BY BodyAssumption DEF Fields
<1>2. gio # b.GioDau => gio # 0
  BY Resolve, TextAssumption
<1> HIDE DEF gio
<1>3. CASE b.product = "AUTO"
  BY <1>2, <1>3 DEF Transform, GioDauTransform, gio
<1>4. CASE b.product # "AUTO" /\ Garbled \in {b.NgayDau, b.GioDau}
  BY <1>1, <1>4 DEF Transform, NgayDauTransform
<1>5. CASE b.product # "AUTO" /\ Garbled \notin {b.NgayDau, b.GioDau}
  BY <1>5 DEF Transform, NgayDauTransform, gio
<1> QED BY <1>3, <1>4, <1>5

\* The end of cover stays a date and a time.
LEMMA EndIsDated ==
  ASSUME NEW b \in Body, NEW gio \in TimesOfDay
  PROVE  LET end == shiftEndTime(b.NgayCuoi, b.GioCuoi, gio)
         IN /\ end.ngay \in Nat \cup {Impossible, Garbled}
            /\ end.gio \in TimesOfDay \cup {Impossible, Garbled}
            /\ Garbled \in {end.ngay, end.gio} => Garbled \in {b.NgayCuoi, b.GioCuoi}
            /\ Parses(b.NgayCuoi, b.GioCuoi) =>
                 /\ Parses(end.ngay, end.gio)
                 /\ parseVnDateTime(end.ngay, end.gio) = EndOf(b) + gio
<1> DEFINE end == shiftEndTime(b.NgayCuoi, b.GioCuoi, gio)
<1>1. /\ b.NgayCuoi \in Nat \cup {Impossible, Garbled}
      /\ b.GioCuoi \in TimesOfDay \cup {Impossible, Garbled}
  BY BodyAssumption DEF Fields
<1>2. CASE ~Parses(b.NgayCuoi, b.GioCuoi)
  <2>1. end = [ngay |-> b.NgayCuoi, gio |-> b.GioCuoi]
    BY <1>2 DEF shiftEndTime
  <2> QED BY <1>1, <1>2, <2>1
<1>3. CASE Parses(b.NgayCuoi, b.GioCuoi)
  <2>1. /\ b.NgayCuoi \in Nat /\ b.GioCuoi \in TimesOfDay
        /\ b.NgayCuoi \in Int /\ b.GioCuoi \in Int
    BY <1>1, <1>3, TextAssumption DEF Parses
  <2>2. Divides(Minute, b.GioCuoi) /\ gio \in Int /\ Divides(Minute, gio)
    BY <2>1, TimesAreWhole
  <2>3. /\ end.ngay \in Int /\ end.gio \in Int
        /\ 0 <= end.gio /\ end.gio < Day /\ Divides(Minute, end.gio)
        /\ parseVnDateTime(end.ngay, end.gio) = parseVnDateTime(b.NgayCuoi, b.GioCuoi) + gio
    BY <2>1, <2>2, ShiftMoves
  <2>4. end.gio \in TimesOfDay
    BY <2>3, TimesAreWhole
  <2>5. end.ngay \in Nat
    <3> DEFINE utc == parseVnDateTime(b.NgayCuoi, b.GioCuoi) + gio
               x == utc + VnOffset
    <3>1. b.GioCuoi >= 0 /\ gio >= 0
      BY <2>1, Units DEF TimesOfDay
    <3>2. b.NgayCuoi * Day \in Nat
      BY <2>1, Units
    <3>3. x \in Nat
      BY <2>1, <2>2, <3>1, <3>2, Units DEF parseVnDateTime
    <3>4. end.ngay = x \div Day
      BY <1>3 DEF shiftEndTime, formatVnDate
    <3> HIDE DEF x
    <3>5. x \div Day \in Nat
      BY <3>3, Units
    <3> QED BY <3>4, <3>5
  <2> QED BY <1>3, <2>3, <2>4, <2>5, TextAssumption DEF Parses, EndOf
<1> QED BY <1>2, <1>3

LEMMA TransformType ==
  ASSUME NEW b \in Body, NEW t \in Int
  PROVE  Transform(b, t) \in Dto
<1> DEFINE gio == resolveGioDau(b.NgayDau, b.GioDau, t)
           end == shiftEndTime(b.NgayCuoi, b.GioCuoi, gio)
           start == [b EXCEPT !.GioDau = gio]
<1>1. b \in Fields
  BY BodyAssumption
<1>2. b \in Dto
  BY <1>1 DEF Fields, Dto
<1>3. gio \in TimesOfDay \cup {Impossible, Garbled, Past}
      /\ (gio \notin {b.GioDau, Past} => gio \in TimesOfDay)
  <2>1. \/ gio = b.GioDau
        \/ gio = Past
        \/ gio \in TimesOfDay
    BY Resolve
  <2> QED BY <1>1, <2>1 DEF Fields
<1>4. start \in Dto
  BY <1>2, <1>3 DEF Dto
<1>5. ASSUME gio \notin {b.GioDau, Past}
      PROVE  CopyEnd(start, end) \in Dto
  <2>1. /\ end.ngay \in Nat \cup {Impossible, Garbled}
        /\ end.gio \in TimesOfDay \cup {Impossible, Garbled}
    BY <1>3, <1>5, EndIsDated
  <2> HIDE DEF start, end
  <2> QED BY <1>4, <2>1 DEF Dto, CopyEnd
<1>6. \/ Transform(b, t) = b
      \/ Transform(b, t) = start
      \/ gio \notin {b.GioDau, Past} /\ Transform(b, t) = CopyEnd(start, end)
  BY TransformFacts
<1> QED BY <1>2, <1>4, <1>5, <1>6
-----------------------------------------------------------------------------
(* The pipe. *)

\* The instance stems from the body and the clock at its arrival; the verdict was
\* reached on it.  StartTypeOK alone says nothing of where dto came from.
Inv ==
  /\ StartTypeOK
  /\ step # "idle" => body \in Body /\ dto = Transform(body, arrived)
  /\ step = "accepted" => Matches(dto)
  /\ step = "rejected" => ~Valid(dto, now)

LEMMA InitInv == Init => Inv
  BY TicksAssumption DEF Init, Inv, StartTypeOK

LEMMA NextInv == Inv /\ [Next]_vars => Inv'
<1> SUFFICES ASSUME Inv, [Next]_vars  PROVE Inv'
  OBVIOUS
<1> USE DEF Inv, StartTypeOK
<1>0. Sunrise .. Sunset \subseteq Int
  BY TicksAssumption
<1>1. CASE Receive
  <2>1. PICK b \in Body : body' = b /\ dto' = Transform(b, now)
    BY <1>1 DEF Receive
  <2>2. Transform(b, now) \in Dto
    BY <1>0, TransformType
  <2> QED BY <1>1, <2>1, <2>2, BodyAssumption DEF Receive
<1>2. CASE Validate
  <2>1. step' = "accepted" => Valid(dto, now)
    BY <1>2 DEF Validate
  <2>2. step' = "rejected" => ~Valid(dto, now)
    BY <1>2 DEF Validate
  <2>3. step' \in {"accepted", "rejected"} /\ step = "transformed"
    BY <1>2 DEF Validate
  <2>4. UNCHANGED <<now, body, arrived, dto>>
    BY <1>2 DEF Validate
  <2>5. step' = "accepted" => Matches(dto)'
    BY <2>1, <2>4 DEF Valid, Matches
  <2>6. step' = "rejected" => ~Valid(dto, now)'
    BY <2>2, <2>4 DEF Valid, Matches, StartNotInPast, Parses, parseVnDateTime
  <2>7. (step # "idle" => body \in Body /\ dto = Transform(body, arrived))'
    BY <2>3, <2>4
  <2>8. StartTypeOK'
    BY <2>3, <2>4
  <2> QED BY <2>5, <2>6, <2>7, <2>8
<1>3. CASE Answer
  BY <1>3 DEF Answer
<1>4. CASE Tick
  <2>1. now' \in Sunrise .. Sunset
    BY <1>4, TicksAssumption DEF Tick
  <2>2. step \in {"idle", "transformed"} /\ UNCHANGED <<step, body, dto>>
        /\ arrived' = IF step = "idle" THEN now' ELSE arrived
    BY <1>4 DEF Tick
  <2> QED BY <2>1, <2>2
<1>5. CASE UNCHANGED vars
  <2>1. UNCHANGED <<now, step, body, arrived, dto>>
    BY <1>5 DEF vars
  <2>2. (step = "rejected" => ~Valid(dto, now))'
    BY <2>1 DEF Valid, Matches, StartNotInPast, Parses, parseVnDateTime
  <2>3. (step = "accepted" => Matches(dto))'
    BY <2>1 DEF Matches
  <2> QED BY <2>1, <2>2, <2>3
<1> QED BY <1>1, <1>2, <1>3, <1>4, <1>5 DEF Next

\* The pipe's variables keep their types, and a body always yields a well-formed
\* instance, however odd its dates.
THEOREM StartTypeCorrect == Spec => []StartTypeOK
<1>1. Spec => []Inv
  BY InitInv, NextInv, PTL DEF Spec
<1>2. Inv => StartTypeOK
  BY DEF Inv
<1> QED BY <1>1, <1>2, PTL

\* Past the patterns, the start is what was asked for, or it was rounded up.
LEMMA MatchedBody ==
  ASSUME NEW b \in Body, NEW t \in Int, Matches(Transform(b, t)),
         Parses(b.NgayDau, b.GioDau)
  PROVE  LET d == Transform(b, t)
             gio == resolveGioDau(b.NgayDau, b.GioDau, t)
             end == shiftEndTime(b.NgayCuoi, b.GioCuoi, gio)
         IN \/ /\ d.NgayDau = b.NgayDau /\ d.GioDau = b.GioDau
               /\ d.NgayCuoi = b.NgayCuoi /\ d.GioCuoi = b.GioCuoi
            \/ /\ gio \notin {b.GioDau, Past}
               /\ d.NgayDau = b.NgayDau /\ d.GioDau = gio
               /\ b.early = {} => d.NgayCuoi = end.ngay /\ d.GioCuoi = end.gio
<1> DEFINE d == Transform(b, t)
           gio == resolveGioDau(b.NgayDau, b.GioDau, t)
           end == shiftEndTime(b.NgayCuoi, b.GioCuoi, gio)
           start == [b EXCEPT !.GioDau = gio]
<1>1. b \in Fields
  BY BodyAssumption
<1>2. /\ start.NgayDau = b.NgayDau /\ start.GioDau = gio
      /\ start.NgayCuoi = b.NgayCuoi /\ start.GioCuoi = b.GioCuoi
  BY <1>1 DEF Fields
<1>3. CopyEnd(start, end).NgayDau = b.NgayDau /\ CopyEnd(start, end).GioDau = gio
  BY <1>1 DEF Fields, CopyEnd
<1>4. b.early = {} => /\ CopyEnd(start, end).NgayCuoi = end.ngay
                      /\ CopyEnd(start, end).GioCuoi = end.gio
  BY <1>1 DEF Fields, CopyEnd
<1>5. /\ d.GioDau # Past /\ Garbled \notin {d.NgayCuoi, d.GioCuoi}
  BY DEF Matches
<1>6. \/ d = b
      \/ gio = b.GioDau /\ d = start
      \/ gio = Past /\ d = start
      \/ gio \notin {b.GioDau, Past} /\ d = CopyEnd(start, end)
      \/ /\ gio \notin {b.GioDau, Past} /\ d = start
         /\ Garbled \in {b.NgayCuoi, b.GioCuoi}
  BY TransformFacts
<1> HIDE DEF d, gio, end, start
<1>7. CASE d = b
  BY <1>7 DEF d
<1>8. CASE gio = b.GioDau /\ d = start
  BY <1>2, <1>8 DEF d
<1>9. CASE gio = Past /\ d = start
  BY <1>2, <1>5, <1>9
<1>10. CASE gio \notin {b.GioDau, Past} /\ d = CopyEnd(start, end)
  BY <1>3, <1>4, <1>10 DEF d, gio, end
<1>11. CASE Garbled \in {b.NgayCuoi, b.GioCuoi} /\ d = start
  BY <1>2, <1>5, <1>11
<1> QED BY <1>6, <1>7, <1>8, <1>9, <1>10, <1>11

LEMMA InvTermIsKept == Inv => TermIsKept
<1> SUFFICES ASSUME Inv, step = "accepted", Dated(body), body.early = {}
             PROVE  /\ Dated(dto)
                    /\ EndOf(dto) - StartOf(dto) = EndOf(body) - StartOf(body)
  BY DEF TermIsKept
<1> DEFINE gio == resolveGioDau(body.NgayDau, body.GioDau, arrived)
           end == shiftEndTime(body.NgayCuoi, body.GioCuoi, gio)
<1>1. body \in Body /\ arrived \in Int /\ dto = Transform(body, arrived) /\ Matches(dto)
  BY TicksAssumption DEF Inv, StartTypeOK
<1>2. /\ Parses(body.NgayDau, body.GioDau) /\ Parses(body.NgayCuoi, body.GioCuoi)
  BY DEF Dated
<1>3. \/ /\ dto.NgayDau = body.NgayDau /\ dto.GioDau = body.GioDau
         /\ dto.NgayCuoi = body.NgayCuoi /\ dto.GioCuoi = body.GioCuoi
      \/ /\ gio \notin {body.GioDau, Past}
         /\ dto.NgayDau = body.NgayDau /\ dto.GioDau = gio
         /\ dto.NgayCuoi = end.ngay /\ dto.GioCuoi = end.gio
  BY <1>1, <1>2, MatchedBody
<1>4. CASE /\ dto.NgayDau = body.NgayDau /\ dto.GioDau = body.GioDau
           /\ dto.NgayCuoi = body.NgayCuoi /\ dto.GioCuoi = body.GioCuoi
  BY <1>2, <1>4 DEF Dated, StartOf, EndOf
<1>5. CASE /\ gio \notin {body.GioDau, Past}
           /\ dto.NgayDau = body.NgayDau /\ dto.GioDau = gio
           /\ dto.NgayCuoi = end.ngay /\ dto.GioCuoi = end.gio
  <2>1. gio \in TimesOfDay /\ gio \in Int /\ body.GioDau = 0 /\ body.NgayDau \in Int
    BY <1>1, <1>5, Resolve
  <2>2. /\ Parses(end.ngay, end.gio)
        /\ parseVnDateTime(end.ngay, end.gio) = EndOf(body) + gio
    BY <1>1, <1>2, <2>1, EndIsDated
  <2> HIDE DEF gio, end
  <2>3. Dated(dto)
    BY <1>5, <2>1, <2>2 DEF Dated, Parses
  <2>4. EndOf(dto) = EndOf(body) + gio
    BY <1>5, <2>2 DEF EndOf
  <2>5. StartOf(dto) = StartOf(body) + gio /\ StartOf(body) \in Int
    BY <1>5, <2>1, Units DEF StartOf, parseVnDateTime
  <2>6. EndOf(body) \in Int
    BY <1>2, Units DEF EndOf, parseVnDateTime, Parses
  <2> QED BY <2>1, <2>3, <2>4, <2>5, <2>6
<1> QED BY <1>3, <1>4, <1>5

\* Rounding the start never costs or gives a minute of cover, for any calendar units
\* and every body that names the end after the start.
THEOREM TermKept == Spec => []TermIsKept
  BY InitInv, NextInv, InvTermIsKept, PTL DEF Spec

LEMMA InvBeginsAsAsked == Inv => BeginsAsAsked
<1> SUFFICES ASSUME Inv, step = "accepted", Parses(body.NgayDau, body.GioDau)
             PROVE  \/ StartOf(dto) = StartOf(body)
                    \/ /\ AsksForToday(body, arrived)
                       /\ StartOfTodayVn(StartOf(dto)) = StartOf(body)
                       /\ arrived < StartOf(dto) /\ StartOf(dto) <= arrived + Hour
                       /\ StartOf(dto) % Hour = 0
  BY DEF BeginsAsAsked
<1> DEFINE gio == resolveGioDau(body.NgayDau, body.GioDau, arrived)
<1>1. body \in Body /\ arrived \in Int /\ dto = Transform(body, arrived) /\ Matches(dto)
  BY TicksAssumption DEF Inv, StartTypeOK
<1>2. /\ dto.NgayDau = body.NgayDau
      /\ \/ dto.GioDau = body.GioDau
         \/ gio \notin {body.GioDau, Past} /\ dto.GioDau = gio
  BY <1>1, MatchedBody
<1>3. CASE dto.GioDau = body.GioDau
  BY <1>2, <1>3 DEF StartOf
<1>4. CASE gio \notin {body.GioDau, Past} /\ dto.GioDau = gio
  <2> DEFINE start == parseVnDateTime(body.NgayDau, gio)
  <2>1. /\ AsksForToday(body, arrived)
        /\ start \in Int /\ arrived < start /\ start <= arrived + Hour
        /\ Divides(Hour, start) /\ StartOfTodayVn(start) = StartOf(body)
    BY <1>1, <1>4, Resolve
  <2>2. StartOf(dto) = start
    BY <1>2, <1>4 DEF StartOf
  <2> HIDE DEF start
  <2>3. start % Hour = 0
    BY <2>1, Units, DividesIsMod
  <2> QED BY <2>1, <2>2, <2>3
<1> QED BY <1>2, <1>3, <1>4

\* An accepted order begins when it was asked to, or at the first full hour of the
\* same day in Vietnam.
THEOREM BeginsWhenAsked == Spec => []BeginsAsAsked
  BY InitInv, NextInv, InvBeginsAsAsked, PTL DEF Spec

LEMMA InvTodayIsNotPast == Inv => TodayIsNotPast
<1> SUFFICES ASSUME Inv, step = "rejected", AsksForToday(body, arrived), body.rest,
                    Garbled \notin {body.NgayCuoi, body.GioCuoi}
             PROVE  \/ arrived >= StartOfTodayVn(arrived) + Day - Hour
                    \/ \E hour \in arrived + 1 .. now - 1 : hour % Hour = 0
  BY DEF TodayIsNotPast
<1> DEFINE gio == resolveGioDau(body.NgayDau, body.GioDau, arrived)
           end == shiftEndTime(body.NgayCuoi, body.GioCuoi, gio)
           start == [body EXCEPT !.GioDau = gio]
<1>1. /\ body \in Body /\ arrived \in Int /\ now \in Int
      /\ dto = Transform(body, arrived) /\ ~Valid(dto, now)
  BY TicksAssumption DEF Inv, StartTypeOK
<1>2. body \in Fields /\ body.NgayDau \in Int /\ body.GioDau = 0
  BY <1>1, BodyAssumption DEF AsksForToday, Parses
<1>3. CASE gio = body.GioDau
  BY <1>1, <1>3, LastHour
<1>4. CASE gio # body.GioDau
  <2>1. /\ gio \in TimesOfDay /\ gio \in Int
        /\ parseVnDateTime(body.NgayDau, gio) \in Int
        /\ arrived < parseVnDateTime(body.NgayDau, gio)
        /\ Divides(Hour, parseVnDateTime(body.NgayDau, gio))
    BY <1>1, <1>4, Resolve
  <2>2. gio # Past
    BY <2>1, TextAssumption
  <2>3. Garbled \notin {end.ngay, end.gio}
    BY <1>1, <2>1, EndIsDated
  <2>4. dto = CopyEnd(start, end)
    <3>1. body.NgayDau # Garbled /\ body.GioDau # Garbled
      BY <1>2, TextAssumption
    <3> HIDE DEF end
    <3>2. CASE body.product = "AUTO"
      BY <1>1, <1>2, <1>4, <2>2, <3>2 DEF Transform, GioDauTransform, end
    <3>3. CASE body.product # "AUTO"
      BY <1>1, <1>4, <2>2, <3>1, <3>3 DEF Transform, NgayDauTransform, end
    <3> QED BY <3>2, <3>3
  <2> HIDE DEF gio, end
  <2>5. /\ dto.NgayDau = body.NgayDau /\ dto.GioDau = gio /\ dto.rest = body.rest
        /\ dto.NgayCuoi \in {body.NgayCuoi, end.ngay}
        /\ dto.GioCuoi \in {body.GioCuoi, end.gio}
    BY <1>2, <2>4 DEF Fields, CopyEnd
  <2>6. Matches(dto)
    BY <1>2, <2>1, <2>2, <2>3, <2>5, TextAssumption DEF Matches
  <2>7. ~StartNotInPast(dto, now)
    BY <1>1, <2>5, <2>6 DEF Valid
  <2> DEFINE first == parseVnDateTime(body.NgayDau, gio)
  <2>8. ~(first >= now)
    BY <2>5, <2>7 DEF StartNotInPast
  <2>9. first \in Int /\ arrived < first /\ first % Hour = 0
    BY <2>1, Units, DividesIsMod
  <2> HIDE DEF first
  <2>10. first \in arrived + 1 .. now - 1
    BY <1>1, <2>8, <2>9
  <2> QED BY <2>9, <2>10
<1> QED BY <1>3, <1>4

\* No sound order for 00:00 of today is turned away except in the day's last hour or
\* when a full hour passes in the pipe.
THEOREM TodayAccepted == Spec => []TodayIsNotPast
  BY InitInv, NextInv, InvTodayIsNotPast, PTL DEF Spec

LEMMA TransformsAgree ==
  ASSUME NEW b \in Body, NEW t \in Int
  PROVE  GioDauTransform(b, t) = NgayDauTransform(b, t)
<1> DEFINE gio == resolveGioDau(b.NgayDau, b.GioDau, t)
           end == shiftEndTime(b.NgayCuoi, b.GioCuoi, gio)
           start == [b EXCEPT !.GioDau = gio]
<1>1. b \in Fields
  BY BodyAssumption
<1>2. gio # b.GioDau => gio # 0
  BY Resolve, TextAssumption
<1>3. Garbled \in {b.NgayDau, b.GioDau} => gio = b.GioDau
  <2>1. CASE b.GioDau = Garbled
    BY <2>1, Midnight, TextAssumption DEF resolveGioDau
  <2>2. CASE b.NgayDau = Garbled
    BY <2>2, TextAssumption DEF resolveGioDau, Parses
  <2> QED BY <2>1, <2>2
<1>4. Garbled \in {b.NgayCuoi, b.GioCuoi} => CopyEnd(start, end) = start
  <2> SUFFICES ASSUME Garbled \in {b.NgayCuoi, b.GioCuoi}
               PROVE  CopyEnd(start, end) = start
    OBVIOUS
  <2>1. ~Parses(b.NgayCuoi, b.GioCuoi)
    BY TextAssumption DEF Parses
  <2>2. end.ngay = b.NgayCuoi /\ end.gio = b.GioCuoi
    BY <2>1 DEF shiftEndTime
  <2> HIDE DEF end, gio
  <2> QED BY <1>1, <2>2 DEF Fields, CopyEnd
<1>5. GioDauTransform(b, t) = IF gio \notin {b.GioDau, Past} THEN CopyEnd(start, end) ELSE start
  BY <1>2 DEF GioDauTransform
<1>6. NgayDauTransform(b, t) = IF gio \notin {b.GioDau, Past} THEN CopyEnd(start, end) ELSE start
  <2> HIDE DEF gio
  <2>1. CASE Garbled \in {b.NgayDau, b.GioDau}
    BY <1>3, <2>1 DEF NgayDauTransform
  <2>2. CASE Garbled \notin {b.NgayDau, b.GioDau}
    BY <1>4, <2>2 DEF NgayDauTransform, gio
  <2> QED BY <2>1, <2>2
<1> QED BY <1>5, <1>6

\* A car order and a motorbike order with the same dates get the same cover.
THEOREM ProductsTreatedAlike == Spec => []ProductsAgree
<1>1. Inv => ProductsAgree
  <2>1. Inv /\ step # "idle" => body \in Body /\ arrived \in Int
    BY TicksAssumption DEF Inv, StartTypeOK
  <2> QED BY <2>1, TransformsAgree DEF ProductsAgree
<1> QED BY <1>1, InitInv, NextInv, PTL DEF Spec
=============================================================================
