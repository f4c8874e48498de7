----------------------------- MODULE StartTime -----------------------------
(***************************************************************************)
(* When the cover of an order begins and ends: the transforms and          *)
(* constraints of CreateOrderDto (car, AUTO) and CreateOrderMotoDto        *)
(* (motorbike, MOTO), as ValidationPipe runs them on one request body.     *)
(*                                                                         *)
(* class-transformer copies the fields of a body in the order in which the *)
(* JSON names them.  The transform of the start time writes the shifted    *)
(* end into the SOURCE object, so an end field that was copied before (one *)
(* of `early') keeps the value the partner sent.                           *)
(*                                                                         *)
(* Instants are UTC ticks.  A date is the number of a day in Vietnam, a    *)
(* time of day its ticks since midnight, a multiple of Minute: the         *)
(* calendar itself is Date's business, all that counts here is whether a   *)
(* day exists.  Impossible is text of the right form that names no day or  *)
(* time (31/02/2026, 25:99), Garbled is text of another form.  Requests    *)
(* share nothing but the clock, so one at a time is enough.                *)
(***************************************************************************)
EXTENDS Integers

CONSTANTS
  Minute, Hour, Day,             \* in ticks
  VnOffset,                      \* Vietnam's clock minus UTC
  Body,                          \* the bodies partners send
  Impossible, Garbled, Past,     \* see above; Past is the text 'past'
  NoBody,
  Sunrise, Sunset,               \* bounds of the clock
  Lag                            \* ticks the pipe may take, at most

ASSUME TicksAssumption ==
  /\ {Minute, Hour, Day} \subseteq Nat \ {0}
  /\ Hour % Minute = 0 /\ Day % Hour = 0
  /\ VnOffset \in Nat /\ VnOffset % Hour = 0
  /\ {Sunrise, Sunset, Lag} \subseteq Nat

ASSUME TextAssumption ==
  /\ Impossible \notin Int /\ Garbled \notin Int /\ Past \notin Int
  /\ Impossible # Garbled /\ Past \notin {Impossible, Garbled}

\* "HH:mm"
TimesOfDay == {t \in 0 .. Day - 1 : t % Minute = 0}

Fields ==
  [product : {"AUTO", "MOTO"},
   NgayDau : Nat \cup {Impossible, Garbled},
   GioDau : TimesOfDay \cup {Impossible, Garbled},
   NgayCuoi : Nat \cup {Impossible, Garbled},
   GioCuoi : TimesOfDay \cup {Impossible, Garbled},
   early : SUBSET {"NgayCuoi", "GioCuoi"},   \* end fields the JSON names first
   rest : BOOLEAN]                           \* are all other fields valid?

\* What validate gets to see.
Dto ==
  [product : {"AUTO", "MOTO"},
   NgayDau : Nat \cup {Impossible, Garbled},
   GioDau : TimesOfDay \cup {Impossible, Garbled, Past},
   NgayCuoi : Nat \cup {Impossible, Garbled},
   GioCuoi : TimesOfDay \cup {Impossible, Garbled},
   early : SUBSET {"NgayCuoi", "GioCuoi"},
   rest : BOOLEAN]

\* A motorbike order has its end in one field, ngay_cuoi.
ASSUME BodyAssumption ==
  /\ Body \subseteq Fields
  /\ \A b \in Body : b.product = "MOTO" => b.early \in {{}, {"NgayCuoi", "GioCuoi"}}
  /\ NoBody \notin Body

VARIABLES
  now,        \* Date.now()
  step,       \* idle, transformed, accepted or rejected
  body,       \* what the partner sent
  arrived,    \* when the pipe looked at it
  dto         \* what the transform made of it

vars == <<now, step, body, arrived, dto>>

-----------------------------------------------------------------------------
(* start-not-in-past.validator.ts *)

\* parseVnDateTime does not return null.
Parses(ngay, gio) == ngay \in Int /\ gio \in Int
parseVnDateTime(ngay, gio) == ngay * Day + gio - VnOffset

\* The last multiple of `unit' up to x.
Floor(x, unit) == (x \div unit) * unit

\* Fault: the date is read off UTC.
formatVnDateInUtc(utc) == utc \div Day

formatVnDate(utc) == (utc + VnOffset) \div Day
formatVnTime(utc) == Floor((utc + VnOffset) % Day, Minute)

StartOfTodayVn(t) == Floor(t + VnOffset, Day) - VnOffset

\* Faults: the last full hour; t itself when it is a full hour.
NextHourFloored(t) == Floor(t, Hour)
NextHourOrNow(t) == Floor(t + Hour - 1, Hour)

\* ceil((t + 1) / Hour) full hours: the next full hour, never t itself.
NextHour(t) == Floor(t + Hour, Hour)

\* Fault: the hour after 23 is called 24.
HourVnUnwrapped(t) == Floor(((t - 1 + VnOffset) % Day) + 1, Hour)

HourVn(t) == Floor((t + VnOffset) % Day, Hour)

resolveGioDau(ngay, gio, t) ==
  CASE gio # 0 \/ ~Parses(ngay, 0) -> gio
    [] OTHER ->
       CASE parseVnDateTime(ngay, 0) < StartOfTodayVn(t) -> Past
         [] parseVnDateTime(ngay, 0) >= StartOfTodayVn(t) + Day -> 0
         [] OTHER -> HourVn(NextHour(t))

\* A term that cannot be parsed is left alone.
shiftEndTime(ngay, gio, delta) ==
  IF Parses(ngay, gio)
  THEN [ngay |-> formatVnDate(parseVnDateTime(ngay, gio) + delta),
        gio  |-> formatVnTime(parseVnDateTime(ngay, gio) + delta)]
  ELSE [ngay |-> ngay, gio |-> gio]

-----------------------------------------------------------------------------
(* The transforms of the two DTOs. *)

\* The end as the instance gets it once the source says `end'.
CopyEnd(b, end) ==
  [b EXCEPT !.NgayCuoi = IF "NgayCuoi" \in b.early THEN @ ELSE end.ngay,
            !.GioCuoi  = IF "GioCuoi" \in b.early THEN @ ELSE end.gio]

GioDauTransform(b, t) ==
  LET resolved == resolveGioDau(b.NgayDau, b.GioDau, t)
      start == [b EXCEPT !.GioDau = resolved]
  IN IF resolved \notin {b.GioDau, Past, 0}
     THEN CopyEnd(start, shiftEndTime(b.NgayCuoi, b.GioCuoi, resolved))
     ELSE start

\* Fault: the end of a motorbike order stays where it was.
NgayDauTransformUnshifted(b, t) ==
  [b EXCEPT !.GioDau = IF Garbled \in {b.NgayDau, b.GioDau} THEN b.GioDau
                       ELSE resolveGioDau(b.NgayDau, b.GioDau, t)]

\* ngay_dau and ngay_cuoi are tested as a whole: neither half may be garbled.
NgayDauTransform(b, t) ==
  LET resolved == IF Garbled \in {b.NgayDau, b.GioDau} THEN b.GioDau
                  ELSE resolveGioDau(b.NgayDau, b.GioDau, t)
      start == [b EXCEPT !.GioDau = resolved]
  IN IF resolved \notin {b.GioDau, Past} /\ Garbled \notin {b.NgayCuoi, b.GioCuoi}
     THEN CopyEnd(start, shiftEndTime(b.NgayCuoi, b.GioCuoi, resolved))
     ELSE start

Transform(b, t) ==
  IF b.product = "AUTO" THEN GioDauTransform(b, t) ELSE NgayDauTransform(b, t)

\* @Matches: the text has the form of a date or time, whatever it names.
Matches(d) ==
  /\ Garbled \notin {d.NgayDau, d.GioDau, d.NgayCuoi, d.GioCuoi}
  /\ d.GioDau # Past

\* @StartNotInPast; a start that names no instant is let through.
StartNotInPast(d, t) ==
  Parses(d.NgayDau, d.GioDau) => parseVnDateTime(d.NgayDau, d.GioDau) >= t

Valid(d, t) == Matches(d) /\ StartNotInPast(d, t) /\ d.rest

-----------------------------------------------------------------------------
Init ==
  /\ now \in Sunrise .. Sunset
  /\ step = "idle"
  /\ body = NoBody /\ arrived = now /\ dto = NoBody

\* ValidationPipe: plainToInstance ...
Receive ==
  /\ step = "idle"
  /\ step' = "transformed"
  /\ \E b \in Body : body' = b /\ dto' = Transform(b, now)
  /\ arrived' = now
  /\ UNCHANGED now

\* ... and validate, with a clock read of its own.
Validate ==
  /\ step = "transformed"
  /\ step' = IF Valid(dto, now) THEN "accepted" ELSE "rejected"
  /\ UNCHANGED <<now, body, arrived, dto>>

Answer ==
  /\ step \in {"accepted", "rejected"}
  /\ step' = "idle"
  /\ body' = NoBody /\ arrived' = now /\ dto' = NoBody
  /\ UNCHANGED now

Tick ==
  /\ now < Sunset
  /\ step = "transformed" => now < arrived + Lag
  /\ step \in {"idle", "transformed"}
  /\ now' = now + 1
  /\ arrived' = IF step = "idle" THEN now' ELSE arrived
  /\ UNCHANGED <<step, body, dto>>

Next == Receive \/ Validate \/ Answer \/ Tick

Spec == Init /\ [][Next]_vars

-----------------------------------------------------------------------------
StartOf(d) == parseVnDateTime(d.NgayDau, d.GioDau)
EndOf(d) == parseVnDateTime(d.NgayCuoi, d.GioCuoi)
Dated(d) == Parses(d.NgayDau, d.GioDau) /\ Parses(d.NgayCuoi, d.GioCuoi)

\* The partner asks for cover from 00:00 of the day on which the request arrives.
AsksForToday(b, t) ==
  Parses(b.NgayDau, b.GioDau) /\ b.GioDau = 0 /\ StartOf(b) = StartOfTodayVn(t)

\* Every variable has its type.
StartTypeOK ==
  /\ now \in Sunrise .. Sunset /\ arrived \in Sunrise .. Sunset
  /\ step \in {"idle", "transformed", "accepted", "rejected"}
  /\ body \in Body \cup {NoBody}
  /\ step = "idle" <=> body = NoBody
  /\ step # "idle" => dto \in Dto

\* An accepted order whose start was rounded up is covered exactly as long as the
\* partner asked, across midnights too, if its body names the end after the start.
TermIsKept ==
  step = "accepted" /\ Dated(body) /\ body.early = {}
    => /\ Dated(dto)
       /\ EndOf(dto) - StartOf(dto) = EndOf(body) - StartOf(body)

\* An accepted order begins when it was asked to; only one asked to begin at 00:00
\* of the day it arrives on begins later: that same day in Vietnam, at the first
\* full hour after it arrived.
BeginsAsAsked ==
  step = "accepted" /\ Parses(body.NgayDau, body.GioDau) =>
    \/ StartOf(dto) = StartOf(body)
    \/ /\ AsksForToday(body, arrived)
       /\ StartOfTodayVn(StartOf(dto)) = StartOf(body)
       /\ arrived < StartOf(dto) /\ StartOf(dto) <= arrived + Hour
       /\ StartOf(dto) % Hour = 0

\* A sound order for 00:00 of today is turned away only if it arrives in the last
\* hour of the day, or if a full hour passes while it is in the pipe.
TodayIsNotPast ==
  (/\ step = "rejected" /\ AsksForToday(body, arrived)
   /\ body.rest /\ Garbled \notin {body.NgayCuoi, body.GioCuoi})
    => \/ arrived >= StartOfTodayVn(arrived) + Day - Hour
       \/ \E hour \in arrived + 1 .. now - 1 : hour % Hour = 0

\* One body means the same cover as a car order and as a motorbike order.
ProductsAgree ==
  step # "idle" /\ body.early \in {{}, {"NgayCuoi", "GioCuoi"}} =>
    GioDauTransform(body, arrived) = NgayDauTransform(body, arrived)

\* The comment on shiftEndTime: start and end move by the same delta.  It fails for
\* bodies that name NgayCuoi before GioDau, as the documented examples do.
TermIsAlwaysKept ==
  step = "accepted" /\ Dated(body)
    => EndOf(dto) - StartOf(dto) = EndOf(body) - StartOf(body)
=============================================================================
