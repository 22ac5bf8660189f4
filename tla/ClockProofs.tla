---------------------------- MODULE ClockProofs ----------------------------
(***************************************************************************)
(* What read_rtc reads is one moment, and what it computes from it is the  *)
(* time seven hours ahead, for every moment a call may begin at and any    *)
(* number of updates below 60 falling anywhere between the reads.          *)
(***************************************************************************)
EXTENDS Clock, TLAPS

-----------------------------------------------------------------------------
(* The conversions, with the modes as parameters.                          *)

Byte(b, v) == IF b THEN ToBcd(v) ELSE v
HourByte(b, t, h) ==
    IF t THEN Byte(b, h)
    ELSE Byte(b, IF h % 12 = 0 THEN 12 ELSE h % 12) + (IF h >= 12 THEN 128 ELSE 0)
Enc(b, t, m) == [x \in Registers |-> IF x = 3 THEN HourByte(b, t, m[3]) ELSE Byte(b, m[x])]

\* Encoded as a function of the mode and the moment.
LEMMA EncodedIsEnc == \A m : Encoded(m) = Enc(bcd, h24, m)
BY DEF Encoded, Enc, StoredHour, HourByte, Stored, Byte

\* A digit pair is packed into a byte and unpacked again.
LEMMA BcdRoundTrip ==
    ASSUME NEW v \in 0 .. 99
    PROVE  /\ ToBcd(v) \in 0 .. 153
           /\ (ToBcd(v) % 16) + 10 * (ToBcd(v) \div 16) = v
<1> DEFINE q == v \div 10
           r == v % 10
<1>1. q \in 0 .. 9 /\ r \in 0 .. 9 /\ v = 10 * q + r
    OBVIOUS
<1>2. ToBcd(v) = 16 * q + r
    BY DEF ToBcd
<1> HIDE DEF q, r
<1> QED BY <1>1, <1>2

\* read_rtc's conversion undoes the RTC's BCD coding.
LEMMA ByteRoundTrip ==
    ASSUME NEW v \in 0 .. 99
    PROVE  /\ Byte(bcd, v) \in 0 .. 153
           /\ FromBcd(Byte(bcd, v)) = v
<1>1. CASE bcd
    BY <1>1, BcdRoundTrip DEF Byte, FromBcd
<1>2. CASE ~bcd
    BY <1>2 DEF Byte, FromBcd
<1> QED BY <1>1, <1>2

\* Different seconds are stored as different bytes.
LEMMA ByteInjective ==
    ASSUME NEW v \in 0 .. 99, NEW w \in 0 .. 99, Byte(bcd, v) = Byte(bcd, w)
    PROVE  v = w
BY ByteRoundTrip

\* The hour comes back from its register, but for 12 AM and 12 PM.
LEMMA HourRoundTrip ==
    ASSUME NEW h \in 0 .. 23
    PROVE  /\ HourByte(bcd, h24, h) \in 0 .. 255
           /\ HourOf(HourByte(bcd, h24, h)) =
                  IF ~h24 /\ h % 12 = 0 THEN (h + 12) % 24 ELSE h
<1> DEFINE k == IF h % 12 = 0 THEN 12 ELSE h % 12
<1>1. k \in 1 .. 12
    OBVIOUS
<1>2. h % 12 = 0 <=> h \in {0, 12}
    OBVIOUS
<1>3. h >= 12 /\ h # 12 => h = k + 12
    OBVIOUS
<1>4. h < 12 /\ h # 0 => h = k
    OBVIOUS
<1>5. (h = 0 \/ h = 12) => k = 12
    OBVIOUS
<1>6. \A v \in 0 .. 23 : /\ Byte(bcd, v) \in 0 .. 35
                         /\ FromBcd(Byte(bcd, v)) = v
  <2> TAKE v \in 0 .. 23
  <2>1. ToBcd(v) \in 0 .. 35
    BY DEF ToBcd
  <2> QED BY <2>1, ByteRoundTrip DEF Byte
<1>7. CASE h24
    BY <1>6, <1>7 DEF HourByte, HourOf
<1>8. CASE ~h24 /\ h < 12
  <2>1. HourByte(bcd, h24, h) = Byte(bcd, k)
    BY <1>1, <1>6, <1>8 DEF HourByte
  <2> HIDE DEF k
  <2>2. HourOf(Byte(bcd, k)) = k
    BY <1>1, <1>6, <1>8 DEF HourOf
  <2> QED BY <1>1, <1>2, <1>4, <1>5, <1>6, <1>8, <2>1, <2>2
<1>9. CASE ~h24 /\ h >= 12
  <2>1. HourByte(bcd, h24, h) = Byte(bcd, k) + 128
    BY <1>9 DEF HourByte
  <2> HIDE DEF k
  <2>2. (Byte(bcd, k) + 128) % 128 = Byte(bcd, k)
    BY <1>1, <1>6
  <2>3. HourOf(Byte(bcd, k) + 128) = (k + 12) % 24
    BY <1>1, <1>6, <1>9, <2>2 DEF HourOf
  <2> QED BY <1>1, <1>2, <1>3, <1>5, <1>6, <1>9, <2>1, <2>3
<1> QED BY <1>7, <1>8, <1>9
-----------------------------------------------------------------------------
(* The calendar.                                                           *)

\* A month has 28 to 31 days.
LEMMA DaysInRange == \A m, y : DaysIn(m, y) \in 28 .. 31
BY DEF DaysIn

\* The ranges of a moment's six parts.
LEMMA MomentType ==
    ASSUME NEW m \in Moments
    PROVE  /\ m[1] \in 0 .. 59 /\ m[2] \in 0 .. 59 /\ m[3] \in 0 .. 23
           /\ m[4] \in 1 .. 31 /\ m[5] \in 1 .. 12 /\ m[6] \in 0 .. 99
           /\ m[4] <= DaysIn(m[5], FullYear(m[6]))
           /\ m = <<m[1], m[2], m[3], m[4], m[5], m[6]>>
BY DEF Moments

\* read_rtc takes a year for one of this century or the next.
LEMMA FullYearType == \A y \in 0 .. 99 : FullYear(y) \in 2000 .. 2199
BY ClockAssumption DEF FullYear

\* What NextMoment does, field by field.
LEMMA NextMomentType ==
    ASSUME NEW m \in Moments
    PROVE  /\ NextMoment(m) \in Moments
           /\ NextMoment(m)[1] = (m[1] + 1) % 60
           /\ NextMoment(m)[1] # 0 => \A x \in 2 .. 6 : NextMoment(m)[x] = m[x]
<1> DEFINE d == <<m[4], m[5], FullYear(m[6])>>
           day == NextDay(d)
           n == NextMoment(m)
<1>1. /\ m[1] \in 0 .. 59 /\ m[2] \in 0 .. 59 /\ m[3] \in 0 .. 23
      /\ m[4] \in 1 .. 31 /\ m[5] \in 1 .. 12 /\ m[6] \in 0 .. 99
      /\ m[4] <= DaysIn(m[5], FullYear(m[6]))
      /\ m = <<m[1], m[2], m[3], m[4], m[5], m[6]>>
    BY MomentType
<1>2. CASE m[1] < 59
  <2>1. n = [m EXCEPT ![1] = @ + 1]
    BY <1>2 DEF NextMoment
  <2>2. n = <<m[1] + 1, m[2], m[3], m[4], m[5], m[6]>>
    BY <1>1, <2>1
  <2> QED BY <1>1, <1>2, <2>2 DEF Moments
<1>3. CASE m[1] = 59 /\ m[2] < 59
  <2>1. n = [m EXCEPT ![1] = 0, ![2] = @ + 1]
    BY <1>3 DEF NextMoment
  <2>2. n = <<0, m[2] + 1, m[3], m[4], m[5], m[6]>>
    BY <1>1, <2>1
  <2> QED BY <1>1, <1>3, <2>2 DEF Moments
<1>4. CASE m[1] = 59 /\ m[2] = 59 /\ m[3] < 23
  <2>1. n = [m EXCEPT ![1] = 0, ![2] = 0, ![3] = @ + 1]
    BY <1>4 DEF NextMoment
  <2>2. n = <<0, 0, m[3] + 1, m[4], m[5], m[6]>>
    BY <1>1, <2>1
  <2> QED BY <1>1, <1>4, <2>2 DEF Moments
<1>5. CASE m[1] = 59 /\ m[2] = 59 /\ m[3] = 23
  <2>1. n = <<0, 0, 0, day[1], day[2], day[3] % 100>>
    BY <1>5 DEF NextMoment
  <2>2. FullYear(m[6]) \in 2000 .. 2199
    BY <1>1, FullYearType, SMTT(40)
  <2>3. d[1] = m[4] /\ d[2] = m[5] /\ d[3] = FullYear(m[6])
    OBVIOUS
  <2>4. \/ d[1] < DaysIn(d[2], d[3]) /\ day = <<d[1] + 1, d[2], d[3]>>
        \/ day = <<1, d[2] + 1, d[3]>> /\ d[2] < 12
        \/ day = <<1, 1, d[3] + 1>>
    BY <1>1, <2>3, DaysInRange DEF NextDay
  <2> HIDE DEF d, day, n
  <2>5. \A y \in 2000 .. 2200 : y % 100 \in 0 .. 99
    OBVIOUS
  <2>6. /\ day[1] \in 1 .. 31 /\ day[2] \in 1 .. 12 /\ day[3] \in 2000 .. 2200
        /\ day[1] <= DaysIn(day[2], FullYear(day[3] % 100))
    <3>1. CASE d[1] < DaysIn(d[2], d[3]) /\ day = <<d[1] + 1, d[2], d[3]>>
      <4>1. FullYear(d[3] % 100) = d[3]
        BY <1>1, <2>2, <2>3, ClockAssumption DEF FullYear
      <4> QED BY <1>1, <2>2, <2>3, <3>1, <4>1, DaysInRange
    <3>2. CASE day = <<1, d[2] + 1, d[3]>> /\ d[2] < 12
      BY <1>1, <2>2, <2>3, <3>2, DaysInRange
    <3>3. CASE day = <<1, 1, d[3] + 1>>
      BY <1>1, <2>2, <2>3, <3>3, DaysInRange
    <3> QED BY <2>4, <3>1, <3>2, <3>3
  <2>7. n \in Moments /\ n[1] = 0
    BY <2>1, <2>5, <2>6 DEF Moments
  <2> QED BY <1>5, <2>7 DEF n
<1> QED BY <1>1, <1>2, <1>3, <1>4, <1>5

\* The chain of tests in read_rtc is the calendar's next day.
LEMMA DayAfterIsNextDay ==
    ASSUME NEW m \in Moments
    PROVE  LET d == <<m[4], m[5], FullYear(m[6])>> IN DayAfter(d) = NextDay(d)
<1> DEFINE d == <<m[4], m[5], FullYear(m[6])>>
<1>1. /\ d[1] \in 1 .. 31 /\ d[2] \in 1 .. 12 /\ d[3] \in Int
      /\ d[1] <= DaysIn(d[2], d[3])
  <2>1. /\ m[4] \in 1 .. 31 /\ m[5] \in 1 .. 12 /\ m[6] \in 0 .. 99
        /\ m[4] <= DaysIn(m[5], FullYear(m[6]))
    BY MomentType
  <2>2. FullYear(m[6]) \in 2000 .. 2199
    BY <2>1, FullYearType, SMTT(40)
  <2>3. d[1] = m[4] /\ d[2] = m[5] /\ d[3] = FullYear(m[6])
    OBVIOUS
  <2> HIDE DEF d
  <2> QED BY <2>1, <2>2, <2>3
<1> HIDE DEF d
<1>2. /\ d[2] \in {4, 6, 9, 11} => DaysIn(d[2], d[3]) = 30
      /\ d[2] = 2 => DaysIn(d[2], d[3]) = IF IsLeap(d[3]) THEN 29 ELSE 28
      /\ d[2] \in {1, 3, 5, 7, 8, 10, 12} => DaysIn(d[2], d[3]) = 31
    BY DEF DaysIn
<1>3. DayAfter(d) = NextDay(d)
    BY <1>1, <1>2 DEF DayAfter, NextDay
<1> QED BY <1>3 DEF d
-----------------------------------------------------------------------------
(* The inductive invariant. h lists the moments from the start of the call *)
(* to the one the RTC shows next, e what each looks like in the registers. *)

Codes(b, t, h) == [k \in Nat |-> Enc(b, t, h[k])]

\* Only a second that is 0 changes the minute and what is above it.
Carries(h, n) ==
    /\ \A k \in 0 .. n : h[k][1] = (h[0][1] + k) % 60
    /\ \A j, k \in 0 .. n :
          j <= k /\ (\A c \in j + 1 .. k : h[c][1] # 0)
              => \A x \in 2 .. 6 : h[j][x] = h[k][x]

History(h) ==
    /\ h[ticks] = now /\ h[ticks + 1] = NextMoment(now)
    /\ \A k \in 0 .. ticks : h[k] \in seen
    /\ Carries(h, ticks + 1)

\* The newest moment any register shows, and the one register x shows.
Latest == IF uip THEN ticks + 1 ELSE ticks
Version(x) == IF uip /\ x <= updated THEN ticks + 1 ELSE ticks

\* The first n registers of r were read from the moments lo .. hi. The RTC
\* goes through its registers in the order they are read, so a reading falls
\* behind the moment of its second by one update at most.
Reading(e, r, n, lo, hi) ==
    n >= 1 => \E a \in lo .. hi :
                 /\ r[1] = e[a][1]
                 /\ \A x \in 2 .. n : \E b \in lo .. hi : b >= a - 1 /\ r[x] = e[b][x]

\* Between two readings there is a moment w that ends the one and begins the
\* other: read_rtc waits until no update is in progress.
Readings(e) ==
    /\ pc = "wait" /\ last # <<>> => Reading(e, last, 6, 0, Latest)
    /\ pc = "read" =>
          \E w \in 0 .. ticks :
              /\ last # <<>> => Reading(e, last, 6, 0, w)
              /\ Reading(e, current, next_register - 1, w, Latest)

OneHistory ==
    \E h \in [Nat -> Moments] :
        /\ History(h)
        /\ \A x \in Registers : registers[x] = Codes(bcd, h24, h)[Version(x)][x]
        /\ Readings(Codes(bcd, h24, h))

Times == (0 .. 23) \X (0 .. 59) \X (0 .. 59)

Types ==
    /\ TypeOK
    /\ bcd \in BOOLEAN /\ h24 \in BOOLEAN /\ uip \in BOOLEAN
    /\ now \in Moments /\ seen \subseteq Moments
    /\ uip => ticks < MaxTicks
    /\ pc = "answer" => local[1] \in 0 .. 59 /\ local[2] \in 0 .. 59 /\ local[3] \in 0 .. 23
    /\ pc = "print" => answer \in Times

IInv == Types /\ OneHistory /\ ReadingIsOneMoment /\ LocalIsWib
-----------------------------------------------------------------------------
\* Registers are bytes.
LEMMA EncType ==
    ASSUME NEW m \in Moments
    PROVE  Enc(bcd, h24, m) \in [Registers -> 0 .. 255]
<1>1. \A x \in Registers \ {3} : m[x] \in 0 .. 99
    BY MomentType DEF Registers
<1>2. \A v \in 0 .. 99 : Byte(bcd, v) \in 0 .. 255
  <2> TAKE v \in 0 .. 99
  <2>1. Byte(bcd, v) \in 0 .. 153
    BY ByteRoundTrip
  <2> QED BY <2>1
<1>3. HourByte(bcd, h24, m[3]) \in 0 .. 255
    BY MomentType, HourRoundTrip
<1> QED BY <1>1, <1>2, <1>3, ZenonT(60) DEF Enc

\* The seconds of two moments less than a minute apart differ.
LEMMA SecondsDiffer ==
    ASSUME NEW s \in 0 .. 59, NEW j \in 0 .. 60, NEW k \in 0 .. 60, j <= k, k - j <= 59,
           (s + j) % 60 = (s + k) % 60
    PROVE  j = k
OBVIOUS

\* One more moment at the end of a history.
LEMMA CarriesOn ==
    ASSUME NEW h \in [Nat -> Moments], NEW n \in Nat, Carries(h, n)
    PROVE  Carries([h EXCEPT ![n + 1] = NextMoment(h[n])], n + 1)
<1> DEFINE g == [h EXCEPT ![n + 1] = NextMoment(h[n])]
<1>1. g[n + 1] = NextMoment(h[n]) /\ \A k \in 0 .. n : g[k] = h[k]
    OBVIOUS
<1>2. h[n] \in Moments /\ h[0] \in Moments
    OBVIOUS
<1>3. /\ g[n + 1][1] = (h[n][1] + 1) % 60
      /\ g[n + 1][1] # 0 => \A x \in 2 .. 6 : g[n + 1][x] = h[n][x]
    BY <1>1, <1>2, NextMomentType
<1>4. h[n][1] = (h[0][1] + n) % 60 /\ h[0][1] \in 0 .. 59
    BY <1>2, MomentType DEF Carries
<1> HIDE DEF g
<1>5. (((h[0][1] + n) % 60) + 1) % 60 = (h[0][1] + (n + 1)) % 60
    BY <1>4
<1>6. \A k \in 0 .. n + 1 : g[k][1] = (g[0][1] + k) % 60
  <2> TAKE k \in 0 .. n + 1
  <2>1. g[0] = h[0]
    BY <1>1
  <2>2. CASE k <= n
    BY <1>1, <2>1, <2>2 DEF Carries
  <2>3. CASE k = n + 1
    BY <1>3, <1>4, <1>5, <2>1, <2>3
  <2> QED BY <2>2, <2>3
<1>7. ASSUME NEW j \in 0 .. n + 1, NEW k \in 0 .. n + 1, j <= k,
             \A c \in j + 1 .. k : g[c][1] # 0, NEW x \in 2 .. 6
      PROVE  g[j][x] = g[k][x]
  <2>1. CASE k <= n
    BY <1>1, <1>7, <2>1, SMTT(40) DEF Carries
  <2>2. CASE j = n + 1
    BY <1>7, <2>2
  <2>3. CASE k = n + 1 /\ j <= n
    <3>1. g[n + 1][1] # 0
      BY <1>7, <2>3
    <3>2. \A c \in j + 1 .. n : h[c][1] # 0
      BY <1>1, <1>7, <2>3
    <3>3. h[j][x] = h[n][x]
      BY <2>3, <3>2 DEF Carries
    <3> QED BY <1>1, <1>3, <2>3, <3>1, <3>3
  <2> QED BY <2>1, <2>2, <2>3
<1>8. Carries(g, n + 1)
    BY <1>6, <1>7 DEF Carries
<1> QED BY <1>8 DEF g

\* Two readings that agree are the registers of the moment between them. A
\* reading torn by a carry into that moment is unlike the one after it.
LEMMA Agreeing ==
    ASSUME NEW h \in [Nat -> Moments], Types, History(h), NEW w \in 0 .. ticks,
           Reading(Codes(bcd, h24, h), current, 6, 0, w),
           Reading(Codes(bcd, h24, h), current, 6, w, Latest)
    PROVE  current = Enc(bcd, h24, h[w])
<1> DEFINE e == Codes(bcd, h24, h)
           s == h[0][1]
<1>1. /\ ticks \in 0 .. MaxTicks /\ MaxTicks \in 0 .. 59
      /\ Latest \in ticks .. ticks + 1 /\ Latest <= 59
      /\ current \in [Registers -> 0 .. 255]
    BY ClockAssumption, SMTT(40) DEF Types, TypeOK, Latest
<1>2. /\ \A k \in Nat : h[k] \in Moments /\ h[k][1] \in 0 .. 59
      /\ s \in 0 .. 59
      /\ \A k \in 0 .. ticks + 1 : h[k][1] = (s + k) % 60
      /\ \A j, k \in 0 .. ticks + 1 :
            j <= k /\ (\A c \in j + 1 .. k : h[c][1] # 0)
                => \A x \in 2 .. 6 : h[j][x] = h[k][x]
    BY MomentType DEF History, Carries
<1>3. \A k \in Nat, x \in Registers :
          e[k][x] = IF x = 3 THEN HourByte(bcd, h24, h[k][3]) ELSE Byte(bcd, h[k][x])
    BY DEF Codes, Enc
<1>4. PICK a \in 0 .. w :
          /\ current[1] = e[a][1]
          /\ \A x \in 2 .. 6 : \E b \in 0 .. w : b >= a - 1 /\ current[x] = e[b][x]
    BY DEF Reading
<1>5. PICK a2 \in w .. Latest :
          /\ current[1] = e[a2][1]
          /\ \A x \in 2 .. 6 : \E b \in w .. Latest : b >= a2 - 1 /\ current[x] = e[b][x]
    BY DEF Reading
<1> HIDE DEF e, s
<1>6. a = w /\ a2 = w
  <2>0. a \in 0 .. 60 /\ a2 \in 0 .. 60 /\ a <= a2 /\ a2 - a <= 59
    BY <1>1
  <2>1. Byte(bcd, h[a][1]) = Byte(bcd, h[a2][1])
    <3>1. 1 \in Registers /\ 1 # 3
      BY DEF Registers
    <3>2. \A k \in Nat : e[k][1] = Byte(bcd, h[k][1])
      BY <1>3, <3>1
    <3>3. a \in Nat /\ a2 \in Nat
      BY <2>0
    <3>4. e[a][1] = e[a2][1]
      BY <1>4, <1>5
    <3> QED BY <3>2, <3>3, <3>4
  <2>2. h[a][1] = h[a2][1]
    <3>1. h[a][1] \in 0 .. 99 /\ h[a2][1] \in 0 .. 99
      BY <1>2, <2>0
    <3> QED BY <2>1, <3>1, ByteInjective
  <2>3. (s + a) % 60 = (s + a2) % 60
    BY <1>1, <1>2, <2>2
  <2>4. a = a2
    BY <1>2, <2>0, <2>3, SecondsDiffer
  <2> QED BY <1>1, <2>4
<1>7. ASSUME NEW x \in 2 .. 6 PROVE current[x] = e[w][x]
  <2>1. PICK b \in 0 .. w : b >= w - 1 /\ current[x] = e[b][x]
    BY <1>4, <1>6
  <2>2. PICK b2 \in w .. Latest : current[x] = e[b2][x]
    BY <1>5
  <2>3. CASE h[w][1] # 0
    <3>1. \A c \in b + 1 .. w : h[c][1] # 0
      BY <1>1, <2>1, <2>3
    <3>2. h[b][x] = h[w][x]
      BY <1>1, <1>2, <2>1, <3>1
    <3> QED BY <1>1, <1>3, <2>1, <3>2 DEF Registers
  <2>4. CASE h[w][1] = 0
    <3>1. \A c \in w + 1 .. b2 : h[c][1] # 0
      <4> SUFFICES ASSUME NEW c \in w + 1 .. b2, h[c][1] = 0 PROVE FALSE
        OBVIOUS
      <4>1. (s + w) % 60 = (s + c) % 60
        BY <1>1, <1>2, <2>4
      <4>2. w \in 0 .. 60 /\ c \in 0 .. 60 /\ w <= c /\ c - w <= 59
        BY <1>1
      <4>3. w = c
        BY <1>2, <4>1, <4>2, SecondsDiffer
      <4> QED BY <1>1, <4>3
    <3>2. h[w][x] = h[b2][x]
      <4>1. w \in 0 .. ticks + 1 /\ b2 \in 0 .. ticks + 1 /\ w <= b2
        BY <1>1
      <4> QED BY <1>2, <3>1, <4>1
    <3> QED BY <1>1, <1>3, <2>2, <3>2 DEF Registers
  <2> QED BY <2>3, <2>4
<1>8. \A x \in Registers : current[x] = e[w][x]
    BY <1>4, <1>6, <1>7 DEF Registers
<1> QED BY <1>1, <1>8 DEF e, Codes, Enc
-----------------------------------------------------------------------------
(* The steps.                                                              *)

\* A reading stays one when more moments are shown.
LEMMA ReadingWider ==
    ASSUME NEW e, NEW f, NEW r, NEW n \in Int, NEW lo \in Int, NEW hi \in Int,
           NEW lo2 \in Int, NEW hi2 \in Int, lo2 <= lo, hi <= hi2,
           \A k \in lo .. hi : f[k] = e[k], Reading(e, r, n, lo, hi)
    PROVE  Reading(f, r, n, lo2, hi2)
<1> SUFFICES ASSUME n >= 1
             PROVE  \E a \in lo2 .. hi2 :
                       /\ r[1] = f[a][1]
                       /\ \A x \in 2 .. n : \E b \in lo2 .. hi2 : b >= a - 1 /\ r[x] = f[b][x]
    BY DEF Reading
<1>1. PICK a \in lo .. hi :
          /\ r[1] = e[a][1]
          /\ \A x \in 2 .. n : \E b \in lo .. hi : b >= a - 1 /\ r[x] = e[b][x]
    BY DEF Reading
<1>2. a \in lo2 .. hi2 /\ r[1] = f[a][1]
    BY <1>1
<1>3. ASSUME NEW x \in 2 .. n
      PROVE  \E b \in lo2 .. hi2 : b >= a - 1 /\ r[x] = f[b][x]
  <2>1. PICK b \in lo .. hi : b >= a - 1 /\ r[x] = e[b][x]
    BY <1>1
  <2> QED BY <2>1
<1> QED BY <1>2, <1>3

\* What the conversions make of the registers of m.
LEMMA Converted ==
    ASSUME NEW m \in Moments, current = Enc(bcd, h24, m)
    PROVE  /\ \A x \in {1, 2, 4, 5, 6} : FromBcd(current[x]) = m[x]
           /\ HourOf(current[3]) = IF ~h24 /\ m[3] % 12 = 0 THEN (m[3] + 12) % 24 ELSE m[3]
<1>1. ASSUME NEW x \in {1, 2, 4, 5, 6} PROVE FromBcd(current[x]) = m[x]
  <2>1. current[x] = Byte(bcd, m[x]) /\ m[x] \in 0 .. 99
    BY MomentType DEF Enc, Registers
  <2> QED BY <2>1, ByteRoundTrip
<1>2. current[3] = HourByte(bcd, h24, m[3]) /\ m[3] \in 0 .. 23
    BY MomentType DEF Enc, Registers
<1> QED BY <1>1, <1>2, HourRoundTrip

\* A time of day and a date in one tuple.
LEMMA TimeAndDate ==
    ASSUME NEW a \in Int, NEW b \in Int, NEW c \in Int, NEW d \in Seq(Int)
    PROVE  LET t == <<a, b, c>> \o d IN t[1] = a /\ t[2] = b /\ t[3] = c
OBVIOUS

\* A call begins with registers of one moment.
LEMMA InitIInv == Init => IInv
<1> SUFFICES ASSUME Init PROVE IInv
    OBVIOUS
<1>1. now \in Moments /\ bcd \in BOOLEAN /\ h24 \in BOOLEAN
    BY ClockAssumption DEF Init
<1>2. registers = Enc(bcd, h24, now)
    BY EncodedIsEnc DEF Init
<1>3. Types
  <2>1. registers \in [Registers -> 0 .. 255]
    BY <1>1, <1>2, EncType
  <2>2. current \in [Registers -> 0 .. 255] /\ 0 \in 0 .. MaxTicks
    BY ClockAssumption DEF Init
  <2>3. TypeOK
    BY <2>1, <2>2 DEF Init, TypeOK
  <2> QED BY <1>1, <2>3 DEF Init, Types
<1>4. OneHistory
  <2> DEFINE g == [k \in Nat |-> now]
             h == [g EXCEPT ![1] = NextMoment(g[0])]
  <2>1. Carries(g, 0) /\ g \in [Nat -> Moments]
    BY <1>1, MomentType DEF Carries
  <2>2. Carries(h, 1)
    BY <2>1, CarriesOn, 0 + 1 = 1
  <2>3. h \in [Nat -> Moments] /\ h[0] = now /\ h[1] = NextMoment(now)
    BY <1>1, NextMomentType
  <2> HIDE DEF g, h
  <2>4. History(h)
    BY <2>2, <2>3 DEF Init, History
  <2>5. \A x \in Registers : registers[x] = Codes(bcd, h24, h)[Version(x)][x]
    BY <1>2, <2>3 DEF Init, Version, Codes
  <2>6. Readings(Codes(bcd, h24, h))
    BY DEF Init, Readings
  <2> QED BY <2>3, <2>4, <2>5, <2>6 DEF OneHistory
<1> QED BY <1>3, <1>4 DEF IInv, Init, ReadingIsOneMoment, LocalIsWib

\* A step keeps the modes.
LEMMA ModesKept == [Next]_vars => bcd' = bcd /\ h24' = h24
BY DEF Next, vars, modes, RTC, Caller, Done, read_rtc, UpdateBegin, UpdateRegister, UpdateEnd,
       WaitForUpdate, ReadRegister, Compare, Convert, Answer, PrintTime

\* Every step keeps the ranges.
LEMMA NextTypes == IInv /\ [Next]_vars => Types'
<1> SUFFICES ASSUME IInv, [Next]_vars PROVE Types'
    OBVIOUS
<1> USE DEF Types, TypeOK, Times, modes, rtc, call
<1>0. Types /\ ReadingIsOneMoment
    BY DEF IInv
<1>1. NextMoment(now) \in Moments
    BY <1>0, NextMomentType
<1>2. CASE UpdateBegin
    BY <1>0, <1>2, SMTT(40) DEF UpdateBegin
<1>3. CASE UpdateRegister
  <2>1. Encoded(NextMoment(now)) \in [Registers -> 0 .. 255]
    BY <1>1, EncType, EncodedIsEnc
  <2>2. updated + 1 \in Registers
    BY <1>0, <1>3 DEF UpdateRegister, Registers
  <2>3. registers' \in [Registers -> 0 .. 255]
    <3>1. Encoded(NextMoment(now))[updated + 1] \in 0 .. 255
      BY <2>1, <2>2
    <3>2. registers' = [registers EXCEPT ![updated + 1] = Encoded(NextMoment(now))[updated + 1]]
      BY <1>3 DEF UpdateRegister
    <3> QED BY <1>0, <2>2, <3>1, <3>2
  <2> QED BY <1>0, <1>3, <2>3, SMTT(40) DEF UpdateRegister
<1>4. CASE UpdateEnd
  <2>1. seen' \subseteq Moments /\ now' \in Moments
    BY <1>0, <1>1, <1>4 DEF UpdateEnd
  <2>2. ticks' \in 0 .. MaxTicks
    BY <1>0, <1>4, ClockAssumption DEF UpdateEnd
  <2> QED BY <1>0, <1>4, <2>1, <2>2, ZenonT(60) DEF UpdateEnd
<1>5. CASE WaitForUpdate
    BY <1>0, <1>5 DEF WaitForUpdate
<1>6. CASE ReadRegister
  <2>1. current' \in [Registers -> 0 .. 255]
    <3>1. next_register \in Registers
      BY <1>0, <1>6 DEF ReadRegister, Registers
    <3>2. current' = [current EXCEPT ![next_register] = registers[next_register]]
      BY <1>6 DEF ReadRegister
    <3>3. registers[next_register] \in 0 .. 255
      BY <1>0, <3>1
    <3>4. current \in [Registers -> 0 .. 255]
      BY <1>0
    <3> QED BY <3>1, <3>2, <3>3, <3>4
  <2> QED BY <1>0, <1>6, <2>1 DEF ReadRegister
<1>7. CASE Compare
    BY <1>0, <1>7, SMTT(40) DEF Compare
<1>8. CASE Convert
  <2>1. PICK m \in seen : current = Encoded(m)
    BY <1>0, <1>8 DEF ReadingIsOneMoment, Convert
  <2>2. m \in Moments /\ current = Enc(bcd, h24, m)
    BY <1>0, <2>1, EncodedIsEnc
  <2> DEFINE hour == HourOf(current[3]) + 7
             day == <<FromBcd(current[4]), FromBcd(current[5]), FullYear(FromBcd(current[6]))>>
             date == IF hour >= 24 THEN DayAfter(day) ELSE day
             hr == IF hour >= 24 THEN hour - 24 ELSE hour
  <2>3. FromBcd(current[1]) \in 0 .. 59 /\ FromBcd(current[2]) \in 0 .. 59
    BY <2>2, Converted, MomentType
  <2>4. HourOf(current[3]) \in 0 .. 23
    <3>1. m[3] \in 0 .. 23
      BY <2>2, MomentType
    <3>2. (m[3] + 12) % 24 \in 0 .. 23
      BY <3>1
    <3> QED BY <2>2, <3>1, <3>2, Converted
  <2>5. hr \in 0 .. 23
    BY <2>4, SMTT(40)
  <2>6. date \in Seq(Int)
    <3>1. FromBcd(current[4]) \in Int /\ FromBcd(current[5]) \in Int /\ FullYear(FromBcd(current[6])) \in Int
      BY <2>2, Converted, MomentType, FullYearType, SMTT(40)
    <3>2. day \in Seq(Int) /\ day[1] \in Int /\ day[2] \in Int /\ day[3] \in Int
      BY <3>1
    <3> HIDE DEF day
    <3>3. DayAfter(day) \in Seq(Int)
      BY <3>2, SMTT(40) DEF DayAfter
    <3> QED BY <3>2, <3>3, SMTT(40)
  <2>7. local' = <<FromBcd(current[1]), FromBcd(current[2]), hr>> \o date
    BY <1>8 DEF Convert
  <2> HIDE DEF hr, date
  <2>8. local'[1] \in 0 .. 59 /\ local'[2] \in 0 .. 59 /\ local'[3] \in 0 .. 23
    BY <2>3, <2>5, <2>6, <2>7, TimeAndDate
  <2> QED BY <1>0, <1>8, <2>8, SMTT(40) DEF Convert
<1>9. CASE Answer
  <2>1. answer' \in Times
    BY <1>0, <1>9 DEF Answer
  <2> QED BY <1>0, <1>9, <2>1 DEF Answer
<1>10. CASE PrintTime
  <2>1. answer \in Times
    BY <1>0, <1>10 DEF PrintTime
  <2>2. printed' = <<answer[1] + 7, answer[2], answer[3]>>
    BY <1>10, <2>1 DEF PrintTime
  <2>3. printed' \in (7 .. 30) \X (0 .. 59) \X (0 .. 59)
    BY <2>1, <2>2
  <2> QED BY <1>0, <1>10, <2>3 DEF PrintTime
<1>11. CASE UNCHANGED vars
    BY <1>0, <1>11, SMTT(40) DEF vars
<1> QED BY <1>2, <1>3, <1>4, <1>5, <1>6, <1>7, <1>8, <1>9, <1>10, <1>11
        DEF Next, RTC, Caller, read_rtc, Done

\* Every step has a history: UpdateEnd adds the next moment to it, the others
\* keep it.
LEMMA NextOneHistory == IInv /\ [Next]_vars => OneHistory'
<1> SUFFICES ASSUME IInv, [Next]_vars PROVE OneHistory'
    OBVIOUS
<1>1. /\ Types /\ Types' /\ OneHistory
      /\ bcd' = bcd /\ h24' = h24
    BY NextTypes, ModesKept DEF IInv
<1>2. /\ ticks \in Nat /\ updated \in 0 .. 6 /\ uip \in BOOLEAN /\ now \in Moments
      /\ next_register \in 1 .. 7 /\ registers \in [Registers -> 0 .. 255]
      /\ current \in [Registers -> 0 .. 255] /\ Latest \in Int /\ ticks' \in Nat
      /\ ticks <= Latest
  <2>1. /\ ticks \in 0 .. MaxTicks /\ updated \in 0 .. 6 /\ uip \in BOOLEAN /\ now \in Moments
        /\ next_register \in 1 .. 7 /\ registers \in [Registers -> 0 .. 255]
        /\ current \in [Registers -> 0 .. 255]
    BY <1>1, Zenon DEF Types, TypeOK
  <2>2. ticks' \in 0 .. MaxTicks
    BY <1>1, Zenon DEF Types, TypeOK
  <2>3. MaxTicks \in Nat
    BY ClockAssumption
  <2>4. ticks \in Nat /\ ticks' \in Nat
    BY <2>1, <2>2, <2>3
  <2>5. Latest \in Int /\ ticks <= Latest
    BY <2>1, <2>4 DEF Latest
  <2> QED BY <2>1, <2>4, <2>5
<1>3. PICK h \in [Nat -> Moments] :
          /\ History(h)
          /\ \A x \in Registers : registers[x] = Codes(bcd, h24, h)[Version(x)][x]
          /\ Readings(Codes(bcd, h24, h))
    BY <1>1 DEF OneHistory
<1>e. PICK e : e = Codes(bcd, h24, h)
    OBVIOUS
<1>4. \A k \in Nat : e[k] = Enc(bcd, h24, h[k])
    BY <1>e DEF Codes
<1>5. \A x \in Registers : registers[x] = e[Version(x)][x]
    BY <1>3, <1>e
<1>6. Readings(e)
    BY <1>3, <1>e
\* What is left to show when the history stays.
<1>7. ASSUME History(h)', \A x \in Registers : registers'[x] = e[Version(x)'][x], Readings(e)'
      PROVE  OneHistory'
  <2>1. Codes(bcd', h24', h) = e
    BY <1>1, <1>e
  <2> QED BY <1>7, <2>1 DEF OneHistory
<1>8. ASSUME UNCHANGED <<now, ticks, seen>> PROVE History(h)'
    BY <1>3, <1>8 DEF History
<1>9. ASSUME UNCHANGED rtc
      PROVE  /\ History(h)' /\ Latest' = Latest
             /\ \A x \in Registers : registers'[x] = e[Version(x)'][x]
    BY <1>5, <1>8, <1>9 DEF rtc, Version, Latest
<1>10. CASE UpdateBegin
  <2>1. Latest' = Latest + 1 /\ Latest = ticks
    BY <1>10 DEF UpdateBegin, Latest
  <2>2. \A x \in Registers : registers'[x] = e[Version(x)'][x]
    BY <1>5, <1>10 DEF UpdateBegin, Version, Registers
  <2>3. Readings(e)'
    <3>1. /\ pc = "wait" /\ last # <<>> => Reading(e, last, 6, 0, Latest)
          /\ pc = "read" => \E w \in 0 .. ticks :
                 /\ last # <<>> => Reading(e, last, 6, 0, w)
                 /\ Reading(e, current, next_register - 1, w, Latest)
      BY <1>6 DEF Readings
    <3>2. Reading(e, last, 6, 0, Latest) => Reading(e, last, 6, 0, Latest')
      BY <1>2, <2>1, ReadingWider
    <3>3. \A w \in 0 .. ticks :
              Reading(e, current, next_register - 1, w, Latest)
                  => Reading(e, current, next_register - 1, w, Latest')
      BY <1>2, <2>1, ReadingWider
    <3>4. UNCHANGED <<pc, last, current, next_register, ticks>>
      BY <1>10 DEF UpdateBegin, call
    <3> QED BY <3>1, <3>2, <3>3, <3>4 DEF Readings
  <2> QED BY <1>7, <1>8, <1>10, <2>2, <2>3 DEF UpdateBegin
<1>11. CASE UpdateRegister
  <2>1. Latest' = Latest /\ UNCHANGED <<uip, ticks, call>> /\ uip
    BY <1>11 DEF UpdateRegister, Latest
  <2>2. registers' = [registers EXCEPT ![updated + 1] = e[ticks + 1][updated + 1]]
    <3>1. h[ticks + 1] = NextMoment(now)
      BY <1>3 DEF History
    <3>2. e[ticks + 1] = Encoded(NextMoment(now))
      BY <1>2, <1>4, <3>1, EncodedIsEnc
    <3> QED BY <1>11, <3>2 DEF UpdateRegister
  <2>3. \A x \in Registers : registers'[x] = e[Version(x)'][x]
    <3> TAKE x \in Registers
    <3>1. updated' = updated + 1 /\ updated + 1 \in Registers
      BY <1>2, <1>11 DEF UpdateRegister, Registers
    <3>2. CASE x = updated + 1
      BY <1>2, <2>1, <2>2, <3>1, <3>2 DEF Version, Registers
    <3>3. CASE x # updated + 1
      <4>1. Version(x)' = Version(x)
        BY <1>2, <2>1, <3>1, <3>3 DEF Version, Registers
      <4>2. registers'[x] = registers[x]
        BY <1>2, <2>2, <3>1, <3>3
      <4> QED BY <1>5, <4>1, <4>2
    <3> QED BY <3>2, <3>3
  <2>4. Readings(e)'
    BY <1>6, <2>1 DEF Readings, call
  <2> QED BY <1>7, <1>8, <1>11, <2>3, <2>4 DEF UpdateRegister
<1>12. CASE UpdateEnd
  <2>g. PICK g : g = [h EXCEPT ![ticks + 2] = NextMoment(NextMoment(now))]
    OBVIOUS
  <2>f. PICK f : f = Codes(bcd, h24, g)
    OBVIOUS
  <2>1. /\ uip /\ uip' = FALSE /\ updated = 6 /\ ticks' = ticks + 1 /\ now' = NextMoment(now)
        /\ seen' = seen \cup {now'} /\ UNCHANGED <<registers, call>>
    BY <1>12 DEF UpdateEnd
  <2>2. NextMoment(now) \in Moments /\ NextMoment(NextMoment(now)) \in Moments
    BY <1>2, NextMomentType
  <2>3. g \in [Nat -> Moments] /\ \A k \in 0 .. ticks + 1 : g[k] = h[k]
    BY <1>2, <2>2, <2>g
  <2>4. g[ticks + 2] = NextMoment(NextMoment(now))
    BY <1>2, <2>g
  <2>5. Carries(g, ticks + 2)
    <3>1. ticks + 1 \in Nat /\ (ticks + 1) + 1 = ticks + 2
      BY <1>2
    <3>2. h[ticks + 1] = NextMoment(now) /\ Carries(h, ticks + 1)
      BY <1>3 DEF History
    <3> QED BY <2>g, <3>1, <3>2, CarriesOn
  <2>6. \A k \in 0 .. ticks + 1 : f[k] = e[k]
    BY <1>2, <1>4, <2>3, <2>f DEF Codes
  <2>7. History(g)'
    <3>1. h[ticks + 1] = now' /\ \A k \in 0 .. ticks : h[k] \in seen
      BY <1>3, <2>1 DEF History
    <3>2. g[ticks + 1] = now' /\ g[(ticks + 1) + 1] = NextMoment(now')
      BY <1>2, <2>1, <2>3, <2>4, <3>1
    <3>3. \A k \in 0 .. ticks + 1 : g[k] \in seen'
      BY <1>2, <2>1, <2>3, <3>1
    <3>4. (ticks + 1) + 1 = ticks + 2
      BY <1>2
    <3> QED BY <2>1, <2>5, <3>2, <3>3, <3>4 DEF History
  <2>8. \A x \in Registers : registers'[x] = f[Version(x)'][x]
    <3> TAKE x \in Registers
    <3>1. Version(x) = ticks + 1 /\ Version(x)' = ticks + 1
      BY <1>2, <2>1 DEF Version, Registers
    <3>2. f[ticks + 1] = e[ticks + 1]
      BY <1>2, <2>6
    <3> QED BY <1>5, <2>1, <3>1, <3>2
  <2>9. Readings(f)'
    <3>1. Latest = ticks + 1 /\ Latest' = ticks + 1
      BY <2>1 DEF Latest
    <3>2. /\ pc = "wait" /\ last # <<>> => Reading(e, last, 6, 0, ticks + 1)
          /\ pc = "read" => \E w \in 0 .. ticks :
                 /\ last # <<>> => Reading(e, last, 6, 0, w)
                 /\ Reading(e, current, next_register - 1, w, ticks + 1)
      BY <1>6, <3>1 DEF Readings
    <3>3. Reading(e, last, 6, 0, ticks + 1) => Reading(f, last, 6, 0, ticks + 1)
      BY <1>2, <2>6, ReadingWider
    <3>4. ASSUME NEW w \in 0 .. ticks
          PROVE  /\ Reading(e, last, 6, 0, w) => Reading(f, last, 6, 0, w)
                 /\ Reading(e, current, next_register - 1, w, ticks + 1)
                        => Reading(f, current, next_register - 1, w, ticks + 1)
      <4>1. /\ w \in Int /\ 0 <= w /\ w <= ticks + 1 /\ next_register - 1 \in Int /\ ticks + 1 \in Int
            /\ \A k \in 0 .. w : f[k] = e[k]
            /\ \A k \in w .. ticks + 1 : f[k] = e[k]
        BY <1>2, <2>6
      <4> QED BY <4>1, ReadingWider
    <3>5. UNCHANGED <<pc, last, current, next_register>> /\ \A w \in 0 .. ticks : w \in 0 .. ticks'
      BY <1>2, <2>1 DEF call
    <3> QED BY <3>1, <3>2, <3>3, <3>4, <3>5 DEF Readings
  <2>10. Codes(bcd', h24', g) = f
    BY <1>1, <2>f
  <2> QED BY <2>3, <2>7, <2>8, <2>9, <2>10 DEF OneHistory
<1>13. CASE WaitForUpdate
  <2>1. /\ pc = "wait" /\ pc' = "read" /\ ~uip /\ next_register' = 1
        /\ UNCHANGED rtc /\ UNCHANGED <<current, last>>
    BY <1>13 DEF WaitForUpdate, get_update_in_progress_flag
  <2>2. Latest = ticks /\ ticks' = ticks
    BY <2>1 DEF Latest, rtc
  <2>3. last # <<>> => Reading(e, last, 6, 0, ticks)
    BY <1>6, <2>1, <2>2 DEF Readings
  <2>4. Reading(e, current, 1 - 1, ticks, Latest)
    BY DEF Reading
  <2>5. Readings(e)'
    BY <1>2, <1>9, <2>1, <2>2, <2>3, <2>4 DEF Readings
  <2> QED BY <1>7, <1>9, <2>1, <2>5
<1>14. CASE ReadRegister
  <2> DEFINE r == next_register
  <2>1. /\ pc = "read" /\ pc' = "read" /\ r \in Registers /\ r' = r + 1
        /\ current' = [current EXCEPT ![r] = registers[r]]
        /\ UNCHANGED rtc /\ UNCHANGED last
    BY <1>2, <1>14 DEF ReadRegister, Registers
  <2>2. PICK w \in 0 .. ticks :
           /\ last # <<>> => Reading(e, last, 6, 0, w)
           /\ Reading(e, current, r - 1, w, Latest)
    BY <1>6, <2>1 DEF Readings
  <2>3. Version(r) \in w .. Latest /\ Latest \in Version(r) .. Version(r) + 1 /\ w \in Int
    BY <1>2 DEF Version, Latest
  <2>4. current'[r] = e[Version(r)][r] /\ \A x \in Registers \ {r} : current'[x] = current[x]
    BY <1>2, <1>5, <2>1
  <2>5. Reading(e, current', r, w, Latest)
    <3>1. CASE r = 1
      BY <2>3, <2>4, <3>1 DEF Reading
    <3>2. CASE r > 1
      <4>1. PICK a \in w .. Latest :
                /\ current[1] = e[a][1]
                /\ \A x \in 2 .. r - 1 : \E b \in w .. Latest : b >= a - 1 /\ current[x] = e[b][x]
        BY <1>2, <2>2, <3>2 DEF Reading
      <4>2. current'[1] = e[a][1]
        BY <2>4, <3>2, <4>1 DEF Registers
      <4>3. ASSUME NEW x \in 2 .. r
            PROVE  \E b \in w .. Latest : b >= a - 1 /\ current'[x] = e[b][x]
        <5>1. CASE x = r
          <6>1. Version(r) >= a - 1
            BY <1>2, <2>3
          <6> QED BY <2>3, <2>4, <5>1, <6>1
        <5>2. CASE x # r
          <6>1. x \in 2 .. r - 1 /\ x \in Registers \ {r}
            BY <1>2, <2>1, <5>2 DEF Registers
          <6> QED BY <2>4, <4>1, <6>1
        <5> QED BY <5>1, <5>2
      <4> QED BY <4>2, <4>3 DEF Reading
    <3> QED BY <2>1, <3>1, <3>2 DEF Registers
  <2>6. Readings(e)'
    <3>1. r' - 1 = r /\ Latest' = Latest /\ ticks' = ticks
      BY <1>2, <1>9, <2>1 DEF rtc
    <3> QED BY <2>1, <2>2, <2>5, <3>1 DEF Readings
  <2> QED BY <1>7, <1>9, <2>1, <2>6
<1>15. CASE Compare
  <2>1. /\ pc = "read" /\ next_register = 7 /\ UNCHANGED rtc
        /\ \/ pc' = "convert"
           \/ pc' = "wait" /\ last' = current
    BY <1>2, <1>15 DEF Compare, LastReading
  <2>2. Reading(e, current, 6, 0, Latest)
    <3>1. PICK w \in 0 .. ticks : Reading(e, current, 7 - 1, w, Latest)
      BY <1>6, <2>1 DEF Readings
    <3> QED BY <1>2, <3>1, ReadingWider
  <2>3. Readings(e)'
    BY <1>9, <2>1, <2>2 DEF Readings
  <2> QED BY <1>7, <1>9, <2>1, <2>3
<1>16. CASE Convert \/ Answer \/ PrintTime
  <2>1. UNCHANGED rtc /\ pc' \notin {"wait", "read"}
    BY <1>16 DEF Convert, Answer, PrintTime
  <2>2. Readings(e)'
    BY <2>1 DEF Readings
  <2> QED BY <1>7, <1>9, <2>1, <2>2
<1>17. CASE UNCHANGED vars
  <2>1. UNCHANGED rtc /\ UNCHANGED call
    BY <1>17 DEF vars
  <2>2. Readings(e)'
    BY <1>6, <1>9, <2>1 DEF Readings, call, rtc
  <2> QED BY <1>7, <1>9, <2>1, <2>2
<1> QED BY <1>10, <1>11, <1>12, <1>13, <1>14, <1>15, <1>16, <1>17
        DEF Next, RTC, Caller, read_rtc, Done

\* The end of the do-while is reached with one moment only.
LEMMA NextReading == IInv /\ [Next]_vars => ReadingIsOneMoment'
<1> SUFFICES ASSUME IInv, [Next]_vars PROVE ReadingIsOneMoment'
    OBVIOUS
<1>1. /\ Types /\ OneHistory /\ ReadingIsOneMoment
      /\ bcd' = bcd /\ h24' = h24
    BY ModesKept DEF IInv
<1>2. \A m : Encoded(m)' = Enc(bcd, h24, m)
    BY <1>1 DEF Encoded, Enc, StoredHour, HourByte, Stored, Byte
<1>3. CASE Compare /\ pc' = "convert"
  <2>1. /\ pc = "read" /\ next_register = 7 /\ current = last
        /\ current' = current /\ seen' = seen
    BY <1>1, <1>3 DEF Compare, SameTwice, Types, TypeOK, rtc
  <2>2. current \in [Registers -> 0 .. 255]
    BY <1>1 DEF Types, TypeOK
  <2>3. last # <<>>
    <3>1. 1 \in DOMAIN current
      BY <2>2 DEF Registers
    <3>2. 1 \notin DOMAIN <<>>
      OBVIOUS
    <3> QED BY <2>1, <3>1, <3>2
  <2>4. PICK h \in [Nat -> Moments] : History(h) /\ Readings(Codes(bcd, h24, h))
    BY <1>1 DEF OneHistory
  <2>5. PICK w \in 0 .. ticks :
            /\ Reading(Codes(bcd, h24, h), current, 6, 0, w)
            /\ Reading(Codes(bcd, h24, h), current, 7 - 1, w, Latest)
    BY <2>1, <2>3, <2>4 DEF Readings
  <2>6. current = Enc(bcd, h24, h[w])
    BY <1>1, <2>4, <2>5, Agreeing
  <2>7. h[w] \in seen
    BY <2>4, <2>5 DEF History
  <2> QED BY <1>2, <2>1, <2>6, <2>7 DEF ReadingIsOneMoment
<1>4. ASSUME current' = current, seen \subseteq seen',
             pc' \in {"convert", "answer", "print", "done"} =>
                 pc \in {"convert", "answer", "print", "done"}
      PROVE  ReadingIsOneMoment'
    BY <1>1, <1>2, <1>4, EncodedIsEnc DEF ReadingIsOneMoment
<1>5. CASE WaitForUpdate \/ ReadRegister \/ (Compare /\ pc' # "convert")
  <2>1. pc' \in {"wait", "read"}
    BY <1>5 DEF WaitForUpdate, ReadRegister, Compare
  <2> QED BY <2>1 DEF ReadingIsOneMoment
<1>6. CASE RTC
    BY <1>4, <1>6 DEF RTC, UpdateBegin, UpdateRegister, UpdateEnd, call
<1>7. CASE Convert \/ Answer \/ PrintTime
    BY <1>4, <1>7 DEF Convert, Answer, PrintTime, rtc
<1>8. CASE UNCHANGED vars
    BY <1>4, <1>8 DEF vars, rtc, call
<1> QED BY <1>3, <1>5, <1>6, <1>7, <1>8 DEF Next, Caller, read_rtc, Done

\* The answer is the time read, moved to GMT+7.
LEMMA NextLocal == IInv /\ [Next]_vars => LocalIsWib'
<1> SUFFICES ASSUME IInv, [Next]_vars PROVE LocalIsWib'
    OBVIOUS
<1>1. /\ Types /\ ReadingIsOneMoment /\ LocalIsWib
      /\ bcd' = bcd /\ h24' = h24
    BY ModesKept DEF IInv
<1>2. ASSUME local' = local, seen \subseteq seen' PROVE LocalIsWib'
    BY <1>1, <1>2 DEF LocalIsWib
<1>3. CASE Convert
  <2>1. PICK m \in seen : current = Encoded(m)
    BY <1>1, <1>3 DEF ReadingIsOneMoment, Convert
  <2>2. m \in Moments /\ current = Enc(bcd, h24, m) /\ seen' = seen
    BY <1>1, <1>3, <2>1, EncodedIsEnc DEF Types, Convert, rtc
  <2> DEFINE hour == HourOf(current[3]) + 7
             day == <<m[4], m[5], FullYear(m[6])>>
             date == IF hour >= 24 THEN NextDay(day) ELSE day
             wrong == [m EXCEPT ![3] = (@ + 12) % 24]
  <2>3. /\ \A x \in {1, 2, 4, 5, 6} : FromBcd(current[x]) = m[x]
        /\ HourOf(current[3]) = IF ~h24 /\ m[3] % 12 = 0 THEN (m[3] + 12) % 24 ELSE m[3]
        /\ m[3] \in 0 .. 23
    BY <2>2, Converted, MomentType
  <2>4. DayAfter(day) = NextDay(day)
    BY <2>2, DayAfterIsNextDay
  <2>5. local' = <<m[1], m[2], IF hour >= 24 THEN hour - 24 ELSE hour>> \o date
    BY <1>3, <2>3, <2>4 DEF Convert
  <2>6. ASSUME NEW h \in 0 .. 23, HourOf(current[3]) = h
        PROVE  local' = <<m[1], m[2], (h + 7) % 24>> \o (IF h + 7 >= 24 THEN NextDay(day) ELSE day)
    <3>1. (IF hour >= 24 THEN hour - 24 ELSE hour) = (h + 7) % 24
      BY <2>6
    <3>2. date = IF h + 7 >= 24 THEN NextDay(day) ELSE day
      BY <2>6
    <3> HIDE DEF date, day, hour
    <3> QED BY <2>5, <3>1, <3>2
  <2>7. CASE HourOf(current[3]) = m[3]
    <3>1. local' = Wib(m)
      BY <2>3, <2>6, <2>7 DEF Wib
    <3> QED BY <2>2, <3>1 DEF LocalIsWib
  <2>8. CASE ~h24 /\ m[3] % 12 = 0 /\ HourOf(current[3]) = (m[3] + 12) % 24
    <3>1. /\ wrong[1] = m[1] /\ wrong[2] = m[2] /\ wrong[3] = (m[3] + 12) % 24
          /\ wrong[4] = m[4] /\ wrong[5] = m[5] /\ wrong[6] = m[6]
      BY <2>2, MomentType
    <3>2. (m[3] + 12) % 24 \in 0 .. 23
      BY <2>3
    <3> HIDE DEF wrong
    <3>3. local' = <<wrong[1], wrong[2], (wrong[3] + 7) % 24>>
                       \o (IF wrong[3] + 7 >= 24 THEN NextDay(<<wrong[4], wrong[5], FullYear(wrong[6])>>)
                           ELSE <<wrong[4], wrong[5], FullYear(wrong[6])>>)
      BY <2>6, <2>8, <3>1, <3>2
    <3>4. local' = Wib(wrong)
      BY <3>3 DEF Wib
    <3> QED BY <1>1, <2>2, <2>8, <3>4 DEF LocalIsWib, wrong
  <2> QED BY <2>3, <2>7, <2>8
<1>4. CASE RTC
    BY <1>2, <1>4 DEF RTC, UpdateBegin, UpdateRegister, UpdateEnd, call
<1>5. CASE WaitForUpdate \/ ReadRegister \/ Compare \/ Answer \/ PrintTime
    BY <1>2, <1>5 DEF WaitForUpdate, ReadRegister, Compare, Answer, PrintTime, rtc
<1>6. CASE UNCHANGED vars
    BY <1>2, <1>6 DEF vars, rtc, call
<1> QED BY <1>3, <1>4, <1>5, <1>6 DEF Next, Caller, read_rtc, Done

\* The invariant of one call of read_rtc, system call 17 and clock.
LEMMA AlwaysIInv == Spec => []IInv
<1>1. IInv /\ [Next]_vars => IInv'
    BY NextTypes, NextOneHistory, NextReading, NextLocal DEF IInv
<1> QED BY <1>1, InitIInv, PTL DEF Spec

\* The variables of read_rtc stay bytes, system call 17 answers with a time of
\* day and clock() prints an hour from 7 to 30, whenever the call begins.
THEOREM TypeCorrect == Spec => []TypeOK
<1>1. IInv => TypeOK
    BY DEF IInv, Types
<1> QED BY <1>1, AlwaysIInv, PTL

\* The do-while of read_rtc works: however the updates of a call shorter than
\* a minute fall between its reads, the two readings that end it are those of
\* one moment the RTC showed during the call.
THEOREM ReadingNeverTorn == Spec => []ReadingIsOneMoment
<1>1. IInv => ReadingIsOneMoment
    BY DEF IInv
<1> QED BY <1>1, AlwaysIInv, PTL

\* From every date read_rtc computes the time and date seven hours ahead, in
\* each mode of the RTC, but for 12 AM and 12 PM of the 12-hour mode.
THEOREM LocalTimeRight == Spec => []LocalIsWib
<1>1. IInv => LocalIsWib
    BY DEF IInv
<1> QED BY <1>1, AlwaysIInv, PTL
=============================================================================
