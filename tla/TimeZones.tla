----------------------------- MODULE TimeZones ------------------------------
(***************************************************************************)
(* The table of time zones of the settings page (common/time.js), and the  *)
(* zone that is picked for an offset from UTC.                             *)
(***************************************************************************)
LOCAL INSTANCE Integers
LOCAL INSTANCE Sequences

Abs(n) == IF n < 0 THEN -n ELSE n
Sign(n) == IF n < 0 THEN -1 ELSE IF n > 0 THEN 1 ELSE 0
Clamp(value, min, max) == IF value > max THEN max ELSE IF value < min THEN min ELSE value

\* The texts: a sign, which a zero hour has not, and the hours and minutes.
formatUTCOffset(hours, minutes) ==
    [west |-> hours < 0, hours |-> Abs(hours), minutes |-> Abs(minutes)]

\* The hours and minutes of the table, in its order.
TimeZones ==
    << <<12,45>>, <<14,0>>, <<12,0>>, <<12,0>>, <<10,0>>, <<10,0>>, <<9,30>>, <<9,0>>,
       <<8,30>>, <<8,0>>, <<8,0>>, <<7,0>>, <<7,30>>, <<6,0>>, <<5,45>>, <<5,30>>, <<5,0>>,
       <<4,30>>, <<4,0>>, <<3,30>>, <<3,0>>, <<2,0>>, <<1,0>>, <<0,0>>, <<0,0>>, <<-1,0>>,
       <<-2,30>>, <<-3,0>>, <<-4,0>>, <<-5,0>>, <<-6,0>>, <<-7,0>>, <<-8,0>>, <<-9,30>>,
       <<-10,0>>, <<-10,0>> >>

Zones == DOMAIN TimeZones
OffsetText(z) == formatUTCOffset(TimeZones[z][1], TimeZones[z][2])

\* A variant that rounds the signed offset down.
FloorOffset(o) ==
    formatUTCOffset(Clamp(o \div 3600, -23, 23), Clamp((o % 3600) \div 60, 0, 59))

\* What pickTimeZoneFromOffset looks for.
DescribeOffset(o) ==
    LET hours == Sign(o) * Clamp(Abs(o) \div 3600, 0, 23)
    IN  formatUTCOffset(hours, Clamp((Abs(o) - Abs(hours) * 3600) \div 60, 0, 59))

Candidates(o) == LET text == DescribeOffset(o) IN {z \in Zones : OffsetText(z) = text}

\* The first zone with that text, or the first of the table.
pickTimeZoneFromOffset(o) ==
    IF Candidates(o) = {} THEN 1
    ELSE CHOOSE z \in Candidates(o) : \A y \in Candidates(o) : z <= y

\* How far east of UTC a zone of the table is, in seconds.
East(z) == LET tz == TimeZones[z]
           IN  (IF tz[1] < 0 THEN -1 ELSE 1) * (Abs(tz[1]) * 3600 + tz[2] * 60)

=============================================================================
