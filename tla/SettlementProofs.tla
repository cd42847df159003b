-------------------------- MODULE SettlementProofs --------------------------
(***************************************************************************)
(* For any length of an hour, any lag and sizes, any number of requests and *)
(* faults, as long as the worker is not down while hours go by: no hour is  *)
(* charged twice as an hour when each is settled before time goes on, and   *)
(* what has run is paid, but for the lag at its end, unless Incus failed,   *)
(* requests overlapped or a pass moved a new period back.                   *)
(***************************************************************************)
EXTENDS Settlement, TLAPS

\* A worker that is down settles nothing while hours go by.
Punctual == "downtime" \notin Failures

\* The row, and the copies of it that a handler and a pass hold.
Copies == {row} \cup (IF api = Idle THEN {} ELSE {api.ws}) \cup (IF wk = Idle THEN {} ELSE {wk.ws})

\* The hour a period began in is settled before Lag ticks of the next have gone by.
InTime(p) == p # NoPeriod => p <= now /\ now <= HourFloor(p) + HourLen + Lag
PeriodsInTime == \A w \in Copies : InTime(w.period)

\* The unique key, and that a charge is made when its time is over.
KeysApart == \A c, d \in ledger : c.kind = d.kind /\ c.key = d.key => c = d
KeysPast == \A c \in ledger : c.key + (IF c.kind = "hour" THEN HourLen ELSE 1) <= now

\* What a handler and a pass have loaded, at this tick.
HandlerAgrees ==
    /\ api.pc = "on" => api.ws.state = "starting"
    /\ api.pc = "off" => /\ api.ws.state = "stopping"
                         /\ row.period \in {NoPeriod, api.ws.period} \/ HourFloor(row.period) = HourFloor(now)
    /\ api.pc = "resize" => api.ws.state = "on" /\ api.size # api.ws.size /\ api.period = now
PassAgrees ==
    /\ wk.pc = "settle" => HourDue(wk.ws)
    /\ wk.pc = "stop" => wk.ws.state = "on"

-----------------------------------------------------------------------------
(* As long as each hour is settled before time goes on, a period is an hour  *)
(* old only when it began with one.                                          *)
Prompt == "lag" \notin mishaps
Whole(p) == HourFloor(p) = p
Fresh(p) == p # NoPeriod /\ now - p >= HourLen => Whole(p)
HoursWhole ==
    /\ \A w \in Copies : Fresh(w.period)
    /\ \A c \in ledger : c.kind = "hour" => Whole(c.key)

-----------------------------------------------------------------------------
(* As long as nothing has gone wrong but a death or a delay of settlement,   *)
(* row and machine agree and the books of the present run are open.          *)
Calm == mishaps \subseteq {"settle", "lag"}

RowAgrees ==
    /\ row.state # "error"
    /\ row.state = "stopping" => api.pc = "off"
    /\ row.state = "on" => machine # 0
    /\ machine # 0 => row.state \in {"on", "stopping", "resetting"} /\ row.period # NoPeriod
    /\ api.pc = "on" => machine = 0
    /\ api.pc \in {"on", "off"} => row.size = api.ws.size
    /\ api.pc = "resize" => row.state \in {"on", "off"}

\* Part-hours charged begin before k.
Partials(k) == \A c \in ledger : c.kind = "partial" => c.key < k
Low(p) == p = now \/ p < HourFloor(now)
PartialsAgree ==
    /\ row.period # NoPeriod => Partials(HourFloor(row.period) + HourLen)
    /\ wk.pc = "settle" /\ wk.ws.period # NoPeriod =>
          /\ Partials(HourFloor(now)) /\ Low(row.period)
          /\ api.pc = "off" => Low(api.ws.period)

\* No more than n has run without being paid, beyond the lag at each end.
Owes(n) == ran <= paid + Lag * ends + n

\* All is paid, and no time passes before a run begins or its size changes.
Square == Owes(0) /\ (machine = 0 \/ api.pc \in {"resize", "off"} \/ row.state = "resetting")

\* A run of size m owes what it ran since its period began, whose keys are free ...
Unpaid(p) == \A c \in ledger : c.kind = "hour" => c.key # p /\ c.key # HourFloor(p)
OwesAll(m, p) == Owes(m * (now - p)) /\ Unpaid(p)

\* ... or since the end of its first hour, which is paid while the row does not say so.
OwesRest(m, p) ==
    LET due == HourFloor(p) + HourLen IN due <= now /\ Owes(m * (now - due))

\* What a pass and a handler have loaded of it is as old as the run, or it has only begun.
PassKnows ==
    wk # Idle =>
        row.period = now \/ (wk.ws.state = "on" /\ wk.ws.period = row.period /\ wk.ws.size = row.size)
HandlerKnows == api.pc = "off" => api.ws.period = row.period \/ now - row.period <= Lag

Running ==
    /\ machine # 0 /\ machine = row.size /\ row.state \in {"on", "stopping"} /\ api.pc # "resize"
    /\ Partials(row.period)
    /\ OwesAll(machine, row.period) \/ OwesRest(machine, row.period)
    /\ PassKnows /\ HandlerKnows

Books == Square \/ Running

CalmInv == RowAgrees /\ PartialsAgree /\ Books
Timely == PeriodsInTime /\ KeysApart /\ KeysPast /\ HandlerAgrees /\ PassAgrees
IInv == TypeOK /\ Timely /\ (Prompt => HoursWhole) /\ (Calm => CalmInv)

-----------------------------------------------------------------------------
(* Hours.                                                                    *)

LEMMA Bounds == HourLen \in Nat /\ HourLen > 0 /\ Lag \in Nat /\ Lag < HourLen /\ MaxTime \in Nat
  BY SettlementAssumption

\* An hour's number.
LEMMA HourNumber ==
    ASSUME NEW t \in Nat
    PROVE  \E q \in Nat : HourFloor(t) = HourLen * q /\ t \in HourLen * q .. HourLen * q + HourLen - 1
  <1>1. t = HourLen * (t \div HourLen) + (t % HourLen) /\ t \div HourLen \in Nat
    BY Bounds
  <1>2. t % HourLen \in 0 .. HourLen - 1
    BY Bounds
  <1>3. PICK q \in Nat : q = t \div HourLen
    BY <1>1
  <1>4. PICK h \in Nat : h = HourLen * q
    BY Bounds
  <1>5. HourFloor(t) = h /\ t \in h .. h + HourLen - 1
    BY <1>1, <1>2, <1>3, <1>4, Bounds DEF HourFloor
  <1> QED
    BY <1>3, <1>4, <1>5

LEMMA NumberFloor ==
    ASSUME NEW q \in Nat, NEW r \in 0 .. HourLen - 1
    PROVE  HourFloor(HourLen * q + r) = HourLen * q
  <1>1. (HourLen * q + r) % HourLen = r
    BY Bounds
  <1>2. PICK h \in Nat : h = HourLen * q
    BY Bounds
  <1> QED
    BY <1>1, <1>2, Bounds DEF HourFloor

\* The hour of a tick begins at most HourLen - 1 ticks before it, with a tick of its own.
LEMMA HourOf ==
    ASSUME NEW t \in Nat
    PROVE  /\ HourFloor(t) \in Nat /\ HourFloor(t) <= t /\ t < HourFloor(t) + HourLen
           /\ Whole(HourFloor(t)) /\ HourFloor(t + HourLen) = HourFloor(t) + HourLen
  <1>1. PICK q \in Nat : HourFloor(t) = HourLen * q /\ t \in HourLen * q .. HourLen * q + HourLen - 1
    BY HourNumber
  <1>2. PICK h \in Nat : h = HourLen * q
    BY Bounds
  <1>3. HourFloor(h) = h
    <2>1. 0 \in 0 .. HourLen - 1
      BY Bounds
    <2>2. HourFloor(HourLen * q + 0) = HourLen * q
      BY <2>1, NumberFloor
    <2>3. HourLen * q + 0 = h
      BY <1>2
    <2> QED
      BY <1>2, <2>2, <2>3
  <1>4. HourLen * (q + 1) = h + HourLen
    BY <1>2, Bounds
  <1>5. PICK r \in 0 .. HourLen - 1 : t = h + r
    <2>1. t - h \in 0 .. HourLen - 1
      BY <1>1, <1>2, Bounds
    <2> QED
      BY <2>1
  <1>6. HourFloor(HourLen * (q + 1) + r) = HourLen * (q + 1)
    BY NumberFloor
  <1>7. HourFloor(t + HourLen) = h + HourLen
    <2>1. t + HourLen = h + HourLen + r
      BY <1>5, Bounds
    <2> QED
      BY <2>1, <1>4, <1>6
  <1> QED
    BY <1>1, <1>2, <1>3, <1>5, <1>7, Bounds DEF Whole

\* An earlier hour is at least an hour earlier.
LEMMA HourStep ==
    ASSUME NEW s \in Nat, NEW t \in Nat, HourFloor(s) < HourFloor(t)
    PROVE  HourFloor(s) + HourLen <= HourFloor(t)
  <1>1. PICK a \in Nat : HourFloor(s) = HourLen * a
    BY HourNumber
  <1>2. PICK b \in Nat : HourFloor(t) = HourLen * b
    BY HourNumber
  <1>3. a + 1 <= b
    BY <1>1, <1>2, Bounds
  <1>4. HourLen * (a + 1) <= HourLen * b
    BY <1>3, Bounds
  <1>5. HourLen * (a + 1) = HourLen * a + HourLen
    BY Bounds
  <1> QED
    BY <1>1, <1>2, <1>4, <1>5

LEMMA FirstHour == HourFloor(0) = 0
  BY HourOf

-----------------------------------------------------------------------------
(* What rows, copies and charges are.                                        *)

LEMMA SaveRow ==
    ASSUME row \in Row, NEW copy \in Row, NEW new \in Row, Save(copy, new)
    PROVE  /\ row' \in Row
           /\ row'.state = IF new.state = copy.state THEN row.state ELSE new.state
           /\ row'.size = IF new.size = copy.size THEN row.size ELSE new.size
           /\ row'.period = IF new.period = copy.period THEN row.period ELSE new.period
  BY DEF Save, Row

LEMMA BeginRow ==
    ASSUME row \in Row, NEW copy \in Row, NEW new \in Row, Begin(copy, new)
    PROVE  /\ row' \in Row
           /\ row'.state = IF new.state = copy.state THEN row.state ELSE new.state
           /\ row'.size = IF new.size = copy.size THEN row.size ELSE new.size
           /\ row'.period = new.period
  BY DEF Begin, Row

LEMMA HandlerType ==
    ASSUME TypeOK, api # Idle
    PROVE  /\ api.pc \in {"on", "off", "resize"} /\ api.ws \in Row
           /\ api.pc = "resize" => api.size \in Sizes /\ api.period \in 0 .. MaxTime
  BY DEF TypeOK

LEMMA PassType ==
    ASSUME TypeOK, wk # Idle
    PROVE  wk.pc \in {"settle", "stop"} /\ wk.ws \in Row
  BY DEF TypeOK

LEMMA CopiesType == ASSUME TypeOK PROVE Copies \subseteq Row
  BY HandlerType, PassType DEF Copies, TypeOK

LEMMA PeriodType == ASSUME NEW ws \in Row PROVE ws.period = NoPeriod \/ ws.period \in 0 .. MaxTime
  BY DEF Row

LEMMA NowType == ASSUME TypeOK PROVE now \in Nat /\ now \in 0 .. MaxTime /\ HourFloor(now) \in 0 .. MaxTime
  BY Bounds, HourOf DEF TypeOK

\* The charges there may be after one of a kind and key is posted.
Charged(kind, key) == \A c \in ledger' : c \in ledger \/ (c.kind = kind /\ c.key = key)
Free(kind, key) == \A c \in ledger : ~(c.kind = kind /\ c.key = key)

LEMMA Posted ==
    ASSUME TypeOK, KeysApart, NEW kind \in {"hour", "partial"}, NEW key \in 0 .. MaxTime,
           NEW ticks \in 1 .. HourLen, NEW rate \in {0} \cup Sizes, Post(kind, key, ticks, rate)
    PROVE  /\ ledger' \subseteq Charge /\ KeysApart' /\ Charged(kind, key)
           /\ paid' \in Nat /\ paid <= paid'
           /\ Free(kind, key) => paid' = paid + ticks * rate
  <1> DEFINE c == [kind |-> kind, key |-> key, ticks |-> ticks, rate |-> rate]
  <1>1. c \in Charge /\ c.kind = kind /\ c.key = key
    BY DEF Charge
  <1>2. ticks * rate \in Nat
    BY SettlementAssumption
  <1>3. ledger \subseteq Charge /\ paid \in Nat
    BY DEF TypeOK
  <1>4. CASE ~ Free(kind, key)
    <2>1. UNCHANGED <<ledger, paid>>
      BY <1>4 DEF Post, Free
    <2> QED
      BY <2>1, <1>3, <1>4 DEF KeysApart, Charged
  <1>5. CASE Free(kind, key)
    <2>1. ledger' = ledger \cup {c} /\ paid' = paid + ticks * rate
      BY <1>5 DEF Post, Free
    <2> HIDE DEF c
    <2>2. paid' \in Nat /\ paid <= paid'
      <3>1. PICK n \in Nat : n = ticks * rate
        BY <1>2
      <3> QED
        BY <2>1, <3>1, <1>3
    <2>3. KeysApart'
      BY <1>1, <1>5, <2>1 DEF KeysApart, Free
    <2> QED
      BY <1>1, <1>3, <2>1, <2>2, <2>3 DEF Charged
  <1> QED
    BY <1>4, <1>5

\* The part-hour of a copy: nothing, a charge in part or a whole one, by its age.
LEMMA Elapsed ==
    ASSUME TypeOK, KeysApart, KeysPast, now' = now,
           NEW ws \in Row, InTime(ws.period), SettleElapsed(ws)
    PROVE  /\ ledger' \subseteq Charge /\ KeysApart' /\ KeysPast' /\ paid' \in Nat /\ paid <= paid'
           /\ \A c \in ledger' : c \in ledger \/
                 /\ c.key = ws.period /\ ws.period # NoPeriod /\ ws.period < now
                 /\ c.kind = "hour" => now - ws.period >= HourLen
           /\ ws.period # NoPeriod =>
                 LET age == now - ws.period IN
                 /\ age > 0 /\ age < HourLen /\ Free("partial", ws.period) => paid' = paid + age * ws.size
                 /\ age >= HourLen /\ Free("hour", ws.period) => paid' = paid + HourLen * ws.size
  <1> DEFINE age == now - ws.period
  <1>1. now \in Nat /\ HourLen \in Nat /\ HourLen > 0 /\ ws.size \in Sizes /\ paid \in Nat
        /\ ledger \subseteq Charge
    BY NowType, Bounds DEF Row, TypeOK
  <1>2. CASE ws.period = NoPeriod \/ age = 0
    <2>1. UNCHANGED <<ledger, paid>>
      <3>1. CASE ws.period = NoPeriod
        BY <3>1, <1>1 DEF SettleElapsed
      <3>2. CASE ws.period # NoPeriod
        BY <3>2, <1>2, <1>1 DEF SettleElapsed
      <3> QED
        BY <3>1, <3>2
    <2> QED
      BY <1>1, <1>2, <2>1 DEF KeysApart, KeysPast
  <1>3. CASE ws.period # NoPeriod /\ age # 0
    <2>1. ws.period \in 0 .. MaxTime /\ ws.period < now /\ age \in Nat /\ age > 0
      BY <1>1, <1>3, PeriodType DEF InTime
    <2>2. CASE age < HourLen
      <3>1. age \in 1 .. HourLen /\ age # HourLen /\ age # 0
        BY <1>1, <2>1, <2>2
      <3>2. Post("partial", ws.period, age, ws.size)
        BY <1>3, <2>2, <3>1 DEF SettleElapsed
      <3> HIDE DEF age
      <3>3. /\ ledger' \subseteq Charge /\ KeysApart' /\ Charged("partial", ws.period)
            /\ paid' \in Nat /\ paid <= paid'
            /\ Free("partial", ws.period) => paid' = paid + age * ws.size
        BY <3>1, <3>2, <2>1, <1>1, Posted
      <3>4. KeysPast'
        <4>1. SUFFICES ASSUME NEW c \in ledger'
                       PROVE  c.key + (IF c.kind = "hour" THEN HourLen ELSE 1) <= now
          BY DEF KeysPast
        <4>2. CASE c \in ledger
          BY <4>2 DEF KeysPast
        <4>3. CASE c.kind = "partial" /\ c.key = ws.period
          BY <4>3, <2>1, <1>1
        <4> QED
          BY <4>2, <4>3, <3>3 DEF Charged
      <3>5. ASSUME NEW c \in ledger'
            PROVE  c \in ledger \/ (c.key = ws.period /\ c.kind = "partial")
        BY <3>3 DEF Charged
      <3> USE DEF age
      <3>6. ~(age >= HourLen)
        BY <1>1, <2>1, <2>2
      <3> QED
        <4>1. \A c \in ledger' : c \in ledger \/
                 /\ c.key = ws.period /\ ws.period # NoPeriod /\ ws.period < now
                 /\ c.kind = "hour" => now - ws.period >= HourLen
          <5>1. SUFFICES ASSUME NEW c \in ledger', c \notin ledger
                         PROVE  /\ c.key = ws.period /\ ws.period # NoPeriod /\ ws.period < now
                                /\ c.kind # "hour"
            OBVIOUS
          <5>2. c.key = ws.period /\ c.kind = "partial"
            BY <3>5, <5>1
          <5> QED
            BY <5>2, <2>1, <1>3
        <4>2. LET a == now - ws.period IN
              /\ a > 0 /\ a < HourLen /\ Free("partial", ws.period) => paid' = paid + a * ws.size
              /\ a >= HourLen /\ Free("hour", ws.period) => paid' = paid + HourLen * ws.size
          BY <3>3, <3>6
        <4> HIDE DEF age
        <4> QED
          BY <3>3, <3>4, <4>1, <4>2
    <2>3. CASE age >= HourLen
      <3>1. Post("hour", ws.period, HourLen, ws.size)
        BY <1>3, <2>3, <1>1, <2>1 DEF SettleElapsed
      <3>2. HourLen \in 1 .. HourLen
        BY <1>1
      <3>3. /\ ledger' \subseteq Charge /\ KeysApart' /\ Charged("hour", ws.period)
            /\ paid' \in Nat /\ paid <= paid'
            /\ Free("hour", ws.period) => paid' = paid + HourLen * ws.size
        BY <3>1, <3>2, <2>1, <1>1, Posted
      <3>4. KeysPast'
        <4>1. SUFFICES ASSUME NEW c \in ledger'
                       PROVE  c.key + (IF c.kind = "hour" THEN HourLen ELSE 1) <= now
          BY DEF KeysPast
        <4>2. CASE c \in ledger
          BY <4>2 DEF KeysPast
        <4>3. CASE c.kind = "hour" /\ c.key = ws.period
          BY <4>3, <2>1, <2>3, <1>1
        <4> QED
          BY <4>2, <4>3, <3>3 DEF Charged
      <3>5. ASSUME NEW c \in ledger'
            PROVE  c \in ledger \/ (c.key = ws.period /\ c.kind = "hour")
        BY <3>3 DEF Charged
      <3>6. ~(age < HourLen)
        BY <1>1, <2>1, <2>3
      <3> QED
        <4>1. \A c \in ledger' : c \in ledger \/
                 /\ c.key = ws.period /\ ws.period # NoPeriod /\ ws.period < now
                 /\ c.kind = "hour" => now - ws.period >= HourLen
          <5>1. SUFFICES ASSUME NEW c \in ledger', c \notin ledger
                         PROVE  /\ c.key = ws.period /\ ws.period # NoPeriod /\ ws.period < now
                                /\ now - ws.period >= HourLen
            OBVIOUS
          <5>2. c.key = ws.period
            BY <3>5, <5>1
          <5> QED
            BY <5>2, <2>1, <2>3, <1>3
        <4>2. LET a == now - ws.period IN
              /\ a > 0 /\ a < HourLen /\ Free("partial", ws.period) => paid' = paid + a * ws.size
              /\ a >= HourLen /\ Free("hour", ws.period) => paid' = paid + HourLen * ws.size
          BY <3>3, <3>6
        <4> HIDE DEF age
        <4> QED
          BY <3>3, <3>4, <4>1, <4>2
    <2> QED
      BY <2>1, <2>2, <2>3, <1>1
  <1> QED
    BY <1>2, <1>3

-----------------------------------------------------------------------------
(* Steps of no time.                                                         *)

Known(p) == p \in {NoPeriod, now, HourFloor(now)} \/ \E w \in Copies : p = w.period
HourKeysWhole == \A c \in ledger : c.kind = "hour" => Whole(c.key)

LEMMA KnownHolds ==
    ASSUME TypeOK, NEW p, Known(p)
    PROVE  /\ PeriodsInTime => InTime(p)
           /\ (\A w \in Copies : Fresh(w.period)) => Fresh(p)
  <1>1. now \in Nat /\ HourFloor(now) \in Nat /\ HourFloor(now) <= now /\ now < HourFloor(now) + HourLen
        /\ Whole(HourFloor(now)) /\ HourLen \in Nat /\ HourLen > 0 /\ Lag \in Nat
    BY NowType, HourOf, Bounds
  <1>2. CASE p = NoPeriod
    BY <1>2 DEF InTime, Fresh
  <1>3. CASE p = now
    BY <1>1, <1>3 DEF InTime, Fresh
  <1>4. CASE p = HourFloor(now)
    BY <1>1, <1>4 DEF InTime, Fresh, Whole
  <1>5. CASE \E w \in Copies : p = w.period
    BY <1>5 DEF PeriodsInTime
  <1> QED
    BY <1>2, <1>3, <1>4, <1>5 DEF Known

LEMMA PeriodsKept ==
    ASSUME TypeOK, PeriodsInTime, now' = now, Known(row'.period),
           api' = Idle \/ Known(api'.ws.period), wk' = Idle \/ Known(wk'.ws.period)
    PROVE  /\ PeriodsInTime'
           /\ (\A w \in Copies : Fresh(w.period)) => (\A w \in Copies : Fresh(w.period))'
  <1>1. \A w \in Copies' : Known(w.period)
    BY DEF Copies
  <1>2. \A w \in Copies' : InTime(w.period)
    BY <1>1, KnownHolds
  <1>3. (\A w \in Copies : Fresh(w.period)) => \A w \in Copies' : Fresh(w.period)
    BY <1>1, KnownHolds
  <1> QED
    BY <1>2, <1>3 DEF PeriodsInTime, InTime, Fresh

\* A step that takes no time moves periods only to now, to the hour, or nowhere.
LEMMA StepTimely ==
    ASSUME IInv, now' = now, mishaps \subseteq mishaps',
           KeysApart', KeysPast', Prompt => HourKeysWhole',
           row'.period \in {row.period, NoPeriod, now, HourFloor(now)},
           \/ api' \in {api, Idle}
           \/ row'.period = row.period /\ api'.ws.period = row.period /\ HandlerAgrees',
           wk' \in {wk, Idle} \/ (wk'.ws = row /\ PassAgrees')
    PROVE  Timely' /\ (Prompt' => HoursWhole')
  <1>1. TypeOK /\ Timely /\ (Prompt => HoursWhole)
    BY DEF IInv
  <1>2. \A w \in Copies : Known(w.period)
    BY DEF Known
  <1>3. row \in Copies /\ (api # Idle => api.ws \in Copies) /\ (wk # Idle => wk.ws \in Copies)
    BY DEF Copies
  <1>4. Known(row'.period)
    BY <1>2, <1>3 DEF Known
  <1>5. api' = Idle \/ Known(api'.ws.period)
    BY <1>2, <1>3
  <1>6. wk' = Idle \/ Known(wk'.ws.period)
    BY <1>2, <1>3
  <1>7. PeriodsInTime' /\ ((\A w \in Copies : Fresh(w.period)) => (\A w \in Copies : Fresh(w.period))')
    BY <1>1, <1>4, <1>5, <1>6, PeriodsKept DEF Timely
  <1>8. HandlerAgrees'
    <2>1. CASE api' = Idle
      BY <2>1 DEF HandlerAgrees, Idle
    <2>2. CASE api' = api
      <3>1. HourFloor(HourFloor(now)) = HourFloor(now) /\ now' = now /\ HandlerAgrees
        BY <1>1, NowType, HourOf DEF Whole, Timely
      <3>2. HourFloor(now)' = HourFloor(now)
        BY <3>1 DEF HourFloor
      <3>3. api.pc = "off" => row'.period \in {NoPeriod, api.ws.period} \/ HourFloor(row'.period) = HourFloor(now)
        BY <3>1 DEF HandlerAgrees
      <3>4. HourFloor(row'.period) = HourFloor(row.period)'
        BY DEF HourFloor
      <3> QED
        BY <2>2, <3>1, <3>2, <3>3, <3>4 DEF HandlerAgrees
    <2> QED
      BY <2>1, <2>2
  <1>9. PassAgrees'
    <2>1. CASE wk' = Idle
      BY <2>1 DEF PassAgrees, Idle
    <2>2. CASE wk' = wk
      BY <1>1, <2>2 DEF PassAgrees, Timely, HourDue, Start, HourFloor
    <2> QED
      BY <2>1, <2>2
  <1>10. Prompt' => Prompt
    BY DEF Prompt
  <1> QED
    BY <1>1, <1>7, <1>8, <1>9, <1>10 DEF Timely, HoursWhole, HourKeysWhole

\* No charge, no harm to the keys.
LEMMA LedgerKept ==
    ASSUME IInv, now' = now, ledger' = ledger
    PROVE  KeysApart' /\ KeysPast' /\ (Prompt => HourKeysWhole')
  BY DEF IInv, Timely, KeysApart, KeysPast, HoursWhole, HourKeysWhole, Whole, HourFloor

\* A part-hour is a whole one only when it began with one.
LEMMA ElapsedKeys ==
    ASSUME IInv, now' = now, NEW ws \in Copies, SettleElapsed(ws)
    PROVE  KeysApart' /\ KeysPast' /\ (Prompt => HourKeysWhole')
           /\ ledger' \subseteq Charge /\ paid' \in Nat /\ paid <= paid'
  <1>1. TypeOK /\ KeysApart /\ KeysPast /\ ws \in Row /\ InTime(ws.period)
    BY CopiesType DEF IInv, Timely, PeriodsInTime
  <1>2. /\ ledger' \subseteq Charge /\ KeysApart' /\ KeysPast' /\ paid' \in Nat /\ paid <= paid'
        /\ \A c \in ledger' : c \in ledger \/
              /\ c.key = ws.period /\ ws.period # NoPeriod /\ ws.period < now
              /\ c.kind = "hour" => now - ws.period >= HourLen
    BY <1>1, Elapsed
  <1>3. ASSUME Prompt, NEW c \in ledger', c.kind = "hour" PROVE Whole(c.key)
    <2>1. HoursWhole
      BY <1>3 DEF IInv
    <2>2. CASE c \in ledger
      BY <1>3, <2>1, <2>2 DEF HoursWhole
    <2>3. CASE c.key = ws.period /\ ws.period # NoPeriod /\ now - ws.period >= HourLen
      BY <2>1, <2>3 DEF HoursWhole, Fresh
    <2> QED
      BY <1>2, <1>3, <2>2, <2>3
  <1> QED
    BY <1>2, <1>3 DEF HourKeysWhole, Whole, HourFloor

\* What holds in every behaviour of a punctual worker.
Ordered == TypeOK /\ Timely /\ (Prompt => HoursWhole)

Marks ==
    /\ mishaps \subseteq mishaps' /\ mishaps' \subseteq Faults \cup {"lag", "overlap", "rewind"}
    /\ faults' \in 0 .. MaxFaults

LEMMA NothingMarked == ASSUME TypeOK, NoFault PROVE Marks
  BY DEF TypeOK, NoFault, Marks

LEMMA FaultMarked ==
    ASSUME TypeOK, NEW kind \in Faults, Fault(kind)
    PROVE  Marks /\ kind \in mishaps'
  BY SettlementAssumption DEF TypeOK, Fault, Note, Marks

LEMMA Endings == ASSUME TypeOK PROVE machine \in Nat /\ ends + machine \in Nat /\ ends <= ends + machine
  BY SettlementAssumption DEF TypeOK

LEMMA Asked == ASSUME TypeOK, Ask PROVE requests' \in 0 .. MaxRequests
  BY SettlementAssumption DEF TypeOK, Ask

LEMMA StepOrdered ==
    ASSUME IInv, now' = now, ran' = ran, row' \in Row, machine' \in {0} \cup Sizes,
           ledger' \subseteq Charge, paid' \in Nat, ends' \in Nat, Marks, requests' \in 0 .. MaxRequests,
           KeysApart', KeysPast', Prompt => HourKeysWhole',
           row'.period \in {row.period, NoPeriod, now, HourFloor(now)},
           \/ api' \in {api, Idle}
           \/ /\ api' \in [pc : {"on", "off"}, ws : Row]
                 \/ api' \in [pc : {"resize"}, ws : Row, size : Sizes, period : 0 .. MaxTime]
              /\ row'.period = row.period /\ api'.ws.period = row.period /\ HandlerAgrees',
           wk' \in {wk, Idle} \/ (wk' \in [pc : {"settle", "stop"}, ws : Row] /\ wk'.ws = row /\ PassAgrees')
    PROVE  Ordered'
  <1>1. TypeOK'
    BY DEF IInv, TypeOK, Marks
  <1>2. Timely' /\ (Prompt' => HoursWhole')
    BY StepTimely DEF Marks
  <1> QED
    BY <1>1, <1>2 DEF Ordered

-----------------------------------------------------------------------------
(* Each step keeps what holds in every behaviour.                            *)

LEMMA PowerOnOrdered == ASSUME IInv, PowerOn PROVE Ordered'
  <1>1. TypeOK /\ row \in Row
    BY DEF IInv, TypeOK
  <1>2. row' \in Row /\ row'.period = row.period /\ row'.state = "starting"
    BY <1>1 DEF PowerOn, Row, States
  <1>3. api' \in [pc : {"on", "off"}, ws : Row] /\ api'.ws = row' /\ api'.pc = "on"
    BY <1>2 DEF PowerOn
  <1>4. HandlerAgrees'
    BY <1>2, <1>3 DEF HandlerAgrees
  <1>5. /\ UNCHANGED <<now, machine, ledger, paid, ran, ends, wk, mishaps, faults>>
        /\ requests' \in 0 .. MaxRequests
    BY <1>1, Asked DEF PowerOn
  <1>6. Marks
    BY <1>1, <1>5, NothingMarked DEF NoFault
  <1>7. KeysApart' /\ KeysPast' /\ (Prompt => HourKeysWhole')
    BY <1>5, LedgerKept
  <1> QED
    BY <1>1, <1>2, <1>3, <1>4, <1>5, <1>6, <1>7, StepOrdered DEF TypeOK

LEMMA PowerOffOrdered == ASSUME IInv, PowerOff PROVE Ordered'
  <1>1. TypeOK /\ row \in Row
    BY DEF IInv, TypeOK
  <1>2. row' \in Row /\ row'.period = row.period /\ row'.state = "stopping"
    BY <1>1 DEF PowerOff, Row, States
  <1>3. api' \in [pc : {"on", "off"}, ws : Row] /\ api'.ws = row' /\ api'.pc = "off"
    BY <1>2 DEF PowerOff
  <1>4. HandlerAgrees'
    BY <1>2, <1>3 DEF HandlerAgrees
  <1>5. /\ UNCHANGED <<now, machine, ledger, paid, ran, ends, wk, mishaps, faults>>
        /\ requests' \in 0 .. MaxRequests
    BY <1>1, Asked DEF PowerOff
  <1>6. Marks
    BY <1>1, <1>5, NothingMarked DEF NoFault
  <1>7. KeysApart' /\ KeysPast' /\ (Prompt => HourKeysWhole')
    BY <1>5, LedgerKept
  <1> QED
    BY <1>1, <1>2, <1>3, <1>4, <1>5, <1>6, <1>7, StepOrdered DEF TypeOK

\* The row that a run begins with, or that its refusal leaves.
LEMMA StartedRow ==
    ASSUME IInv, PowerOnEnds
    PROVE  /\ row' \in Row /\ row'.period \in {row.period, now} /\ row'.size = row.size
           /\ machine' \in {0} \cup Sizes /\ Marks
           /\ \/ machine' = api.ws.size /\ row'.period = now
                 /\ row'.state = (IF api.ws.state = "on" THEN row.state ELSE "on")
              \/ "incus" \in mishaps'
  <1>1. TypeOK /\ row \in Row /\ api # Idle /\ now \in 0 .. MaxTime
    BY NowType DEF IInv, TypeOK, PowerOnEnds, Idle
  <1>2. api.ws \in Row
    BY <1>1, HandlerType
  <1>3. CASE machine' = api.ws.size /\ NoFault
             /\ Begin(api.ws, [api.ws EXCEPT !.state = "on", !.period = now])
    <2> DEFINE new == [api.ws EXCEPT !.state = "on", !.period = now]
    <2>1. new \in Row /\ new.state = "on" /\ new.period = now /\ new.size = api.ws.size
      BY <1>1, <1>2 DEF Row, States
    <2> HIDE DEF new
    <2>2. Begin(api.ws, new)
      BY <1>3 DEF new
    <2>3. row' \in Row /\ row'.period = now /\ row'.size = row.size
          /\ row'.state = (IF api.ws.state = "on" THEN row.state ELSE "on")
      BY <1>1, <1>2, <2>1, <2>2, BeginRow
    <2>4. machine' \in {0} \cup Sizes
      BY <1>2, <1>3 DEF Row
    <2> QED
      BY <1>1, <1>3, <2>3, <2>4, NothingMarked
  <1>4. CASE Fault("incus") /\ machine' \in {machine, api.ws.size}
             /\ Save(api.ws, [api.ws EXCEPT !.state = "error"])
    <2> DEFINE new == [api.ws EXCEPT !.state = "error"]
    <2>1. new \in Row /\ new.period = api.ws.period /\ new.size = api.ws.size
      BY <1>2 DEF Row, States
    <2> HIDE DEF new
    <2>2. row' \in Row /\ row'.period = row.period /\ row'.size = row.size
      <3>1. Save(api.ws, new)
        BY <1>4 DEF new
      <3> QED
        BY <1>1, <1>2, <2>1, <3>1, SaveRow
    <2>3. machine' \in {0} \cup Sizes
      BY <1>1, <1>2, <1>4 DEF Row, TypeOK
    <2>4. "incus" \in Faults
      BY DEF Faults
    <2> QED
      BY <1>1, <1>4, <2>2, <2>3, <2>4, FaultMarked
  <1> QED
    BY <1>3, <1>4 DEF PowerOnEnds

LEMMA PowerOnEndsOrdered == ASSUME IInv, PowerOnEnds PROVE Ordered'
  <1>1. TypeOK
    BY DEF IInv
  <1>2. row' \in Row /\ row'.period \in {row.period, now} /\ machine' \in {0} \cup Sizes /\ Marks
    BY StartedRow
  <1>3. UNCHANGED <<now, ledger, paid, ran, ends, wk, requests>> /\ api' = Idle
    BY DEF PowerOnEnds
  <1>4. KeysApart' /\ KeysPast' /\ (Prompt => HourKeysWhole')
    BY <1>3, LedgerKept
  <1> QED
    BY <1>1, <1>2, <1>3, <1>4, StepOrdered DEF TypeOK

\* The row that a stop leaves: a copy's state and period are given up.
GivenUp(copy) ==
    /\ row'.state = (IF copy.state = "off" THEN row.state ELSE "off")
    /\ row'.period = (IF copy.period = NoPeriod THEN row.period ELSE NoPeriod)

LEMMA GivenUpRow ==
    ASSUME row \in Row, NEW copy \in Row, Save(copy, [copy EXCEPT !.state = "off", !.period = NoPeriod])
    PROVE  row' \in Row /\ row'.size = row.size /\ GivenUp(copy) /\ row'.period \in {row.period, NoPeriod}
  <1> DEFINE new == [copy EXCEPT !.state = "off", !.period = NoPeriod]
  <1>1. new \in Row /\ new.state = "off" /\ new.period = NoPeriod /\ new.size = copy.size
    BY DEF Row, States
  <1> HIDE DEF new
  <1>2. Save(copy, new)
    BY DEF new
  <1>3. /\ row' \in Row
        /\ row'.state = IF new.state = copy.state THEN row.state ELSE new.state
        /\ row'.size = IF new.size = copy.size THEN row.size ELSE new.size
        /\ row'.period = IF new.period = copy.period THEN row.period ELSE new.period
    BY <1>1, <1>2, SaveRow
  <1> QED
    BY <1>1, <1>3 DEF GivenUp

LEMMA StoppedRow ==
    ASSUME IInv, PowerOffEnds
    PROVE  /\ row' \in Row /\ row'.size = row.size /\ row'.period \in {row.period, NoPeriod}
           /\ machine' \in {0} \cup Sizes /\ Marks /\ api.ws \in Row /\ api.ws \in Copies
           /\ \/ machine' = 0 /\ SettleElapsed(api.ws) /\ ends' = ends + machine
                 /\ (GivenUp(api.ws) \/ "api" \in mishaps')
              \/ "incus" \in mishaps' /\ UNCHANGED <<ledger, paid, ends>>
  <1>1. TypeOK /\ row \in Row /\ api # Idle
    BY DEF IInv, TypeOK, PowerOffEnds, Idle
  <1>2. api.ws \in Row /\ api.ws \in Copies
    BY <1>1, HandlerType DEF Copies
  <1>3. CASE /\ machine' = 0 /\ SettleElapsed(api.ws) /\ ends' = ends + machine
             /\ \/ Save(api.ws, [api.ws EXCEPT !.state = "off", !.period = NoPeriod]) /\ NoFault
                \/ Fault("api") /\ UNCHANGED row
    <2>1. CASE Save(api.ws, [api.ws EXCEPT !.state = "off", !.period = NoPeriod]) /\ NoFault
      BY <1>1, <1>2, <1>3, <2>1, GivenUpRow, NothingMarked
    <2>2. CASE Fault("api") /\ UNCHANGED row
      <3>1. "api" \in Faults
        BY DEF Faults
      <3> QED
        BY <1>1, <1>2, <1>3, <2>2, <3>1, FaultMarked
    <2> QED
      BY <1>3, <2>1, <2>2
  <1>4. CASE /\ Fault("incus") /\ machine' \in {0, machine} /\ UNCHANGED <<ledger, paid, ends>>
             /\ Save(api.ws, [api.ws EXCEPT !.state = "error"])
    <2> DEFINE new == [api.ws EXCEPT !.state = "error"]
    <2>1. new \in Row /\ new.period = api.ws.period /\ new.size = api.ws.size
      BY <1>2 DEF Row, States
    <2> HIDE DEF new
    <2>2. row' \in Row /\ row'.period = row.period /\ row'.size = row.size
      <3>1. Save(api.ws, new)
        BY <1>4 DEF new
      <3> QED
        BY <1>1, <1>2, <2>1, <3>1, SaveRow
    <2>3. machine' \in {0} \cup Sizes /\ "incus" \in Faults
      BY <1>1, <1>4 DEF TypeOK, Faults
    <2> QED
      BY <1>1, <1>2, <1>4, <2>2, <2>3, FaultMarked
  <1> QED
    BY <1>3, <1>4 DEF PowerOffEnds

LEMMA PowerOffEndsOrdered == ASSUME IInv, PowerOffEnds PROVE Ordered'
  <1>1. TypeOK
    BY DEF IInv
  <1>2. /\ row' \in Row /\ row'.period \in {row.period, NoPeriod} /\ machine' \in {0} \cup Sizes /\ Marks
        /\ api.ws \in Copies
    BY StoppedRow
  <1>5. \/ SettleElapsed(api.ws) /\ ends' = ends + machine
        \/ UNCHANGED <<ledger, paid, ends>>
    BY DEF PowerOffEnds
  <1>3. UNCHANGED <<now, ran, wk, requests>> /\ api' = Idle
    BY DEF PowerOffEnds
  <1>4. /\ KeysApart' /\ KeysPast' /\ (Prompt => HourKeysWhole')
        /\ ledger' \subseteq Charge /\ paid' \in Nat /\ ends' \in Nat
    BY <1>1, <1>2, <1>5, <1>3, ElapsedKeys, LedgerKept, Endings DEF TypeOK
  <1> QED
    BY <1>1, <1>2, <1>3, <1>4, StepOrdered DEF TypeOK

LEMMA ResizeOrdered == ASSUME IInv, Resize PROVE Ordered'
  <1>1. TypeOK /\ row \in Row /\ now \in 0 .. MaxTime /\ row \in Copies
    BY NowType DEF IInv, TypeOK, Copies
  <1>2. PICK size \in Sizes \ {row.size} : api' = [pc |-> "resize", ws |-> row, size |-> size, period |-> now]
    BY DEF Resize
  <1>3. api' \in [pc : {"resize"}, ws : Row, size : Sizes, period : 0 .. MaxTime]
    BY <1>1, <1>2
  <1>4. /\ UNCHANGED <<now, row, machine, ran, wk, mishaps, faults>> /\ row.state = "on"
        /\ SettleElapsed(row) /\ ends' = ends + machine /\ requests' \in 0 .. MaxRequests
    BY <1>1, Asked DEF Resize
  <1>5. HandlerAgrees' /\ api'.ws.period = row.period
    BY <1>2, <1>4 DEF HandlerAgrees
  <1>6. Marks
    BY <1>1, <1>4, NothingMarked DEF NoFault
  <1>7. KeysApart' /\ KeysPast' /\ (Prompt => HourKeysWhole') /\ ledger' \subseteq Charge /\ paid' \in Nat
    BY <1>1, <1>4, ElapsedKeys
  <1>8. ends' \in Nat
    BY <1>1, <1>4, Endings
  <1> QED
    BY <1>1, <1>3, <1>4, <1>5, <1>6, <1>7, <1>8, StepOrdered DEF TypeOK

\* The row with its new size and period.
LEMMA ResizedRow ==
    ASSUME IInv, ResizeEnds
    PROVE  /\ row' \in Row /\ row'.period \in {row.period, now}
           /\ machine' \in {0} \cup Sizes /\ Marks
           /\ \/ machine' = (IF machine = 0 THEN 0 ELSE api.size) /\ row'.period = now
                 /\ row'.size = api.size /\ row'.state = row.state
              \/ "resize" \in mishaps'
  <1>1. TypeOK /\ row \in Row /\ api # Idle /\ api.pc = "resize" /\ now \in 0 .. MaxTime
    BY NowType DEF IInv, TypeOK, ResizeEnds, Idle
  <1>2. api.ws \in Row /\ api.size \in Sizes /\ api.size # api.ws.size /\ api.period = now
    BY <1>1, HandlerType DEF IInv, Timely, HandlerAgrees
  <1>3. CASE /\ machine' = (IF machine = 0 THEN 0 ELSE api.size) /\ NoFault
             /\ Begin(api.ws, [api.ws EXCEPT !.size = api.size, !.period = api.period])
    <2> DEFINE new == [api.ws EXCEPT !.size = api.size, !.period = api.period]
    <2>1. new \in Row /\ new.state = api.ws.state /\ new.period = now /\ new.size = api.size
      BY <1>1, <1>2 DEF Row
    <2> HIDE DEF new
    <2>2. Begin(api.ws, new)
      BY <1>3 DEF new
    <2>3. row' \in Row /\ row'.period = now /\ row'.size = api.size /\ row'.state = row.state
      BY <1>1, <1>2, <2>1, <2>2, BeginRow
    <2> QED
      BY <1>1, <1>2, <1>3, <2>3, NothingMarked
  <1>4. CASE Fault("resize") /\ UNCHANGED <<row, machine>>
    <2>1. "resize" \in Faults
      BY DEF Faults
    <2> QED
      BY <1>1, <1>4, <2>1, FaultMarked DEF TypeOK
  <1> QED
    BY <1>3, <1>4 DEF ResizeEnds

LEMMA ResizeEndsOrdered == ASSUME IInv, ResizeEnds PROVE Ordered'
  <1>1. TypeOK
    BY DEF IInv
  <1>2. row' \in Row /\ row'.period \in {row.period, now} /\ machine' \in {0} \cup Sizes /\ Marks
    BY ResizedRow
  <1>3. UNCHANGED <<now, ledger, paid, ran, ends, wk, requests>> /\ api' = Idle
    BY DEF ResizeEnds
  <1>4. KeysApart' /\ KeysPast' /\ (Prompt => HourKeysWhole')
    BY <1>3, LedgerKept
  <1> QED
    BY <1>1, <1>2, <1>3, <1>4, StepOrdered DEF TypeOK

LEMMA ResizeStoppedOrdered == ASSUME IInv, ResizeStopped PROVE Ordered'
  <1>1. TypeOK /\ row \in Row
    BY DEF IInv, TypeOK
  <1>2. PICK size \in Sizes \ {row.size} : row' = [row EXCEPT !.size = size]
    BY DEF ResizeStopped
  <1>3. row' \in Row /\ row'.period = row.period
    BY <1>1, <1>2 DEF Row
  <1>4. /\ UNCHANGED <<now, machine, ledger, paid, ran, ends, api, wk, faults>>
        /\ requests' \in 0 .. MaxRequests /\ Note(IF api = Idle THEN {} ELSE {"overlap"})
    BY <1>1, Asked DEF ResizeStopped
  <1>5. Marks
    BY <1>1, <1>4 DEF TypeOK, Note, Marks
  <1>6. KeysApart' /\ KeysPast' /\ (Prompt => HourKeysWhole')
    BY <1>4, LedgerKept
  <1> QED
    BY <1>1, <1>3, <1>4, <1>5, <1>6, StepOrdered DEF TypeOK

LEMMA ResetOrdered == ASSUME IInv, Reset PROVE Ordered'
  <1>1. TypeOK /\ row \in Row /\ row \in Copies
    BY DEF IInv, TypeOK, Copies
  <1>2. row' \in Row /\ row'.period = row.period /\ Marks
    <2>1. CASE row' = [row EXCEPT !.state = "resetting"] /\ NoFault
      BY <1>1, <2>1, NothingMarked DEF Row, States
    <2>2. CASE Fault("api") /\ UNCHANGED row
      BY <1>1, <2>2, FaultMarked DEF Faults
    <2> QED
      BY <2>1, <2>2 DEF Reset
  <1>3. /\ UNCHANGED <<now, machine, ran, api, wk>> /\ ends' = ends + machine /\ requests' \in 0 .. MaxRequests
        /\ SettleElapsed(row) \/ UNCHANGED <<ledger, paid>>
    BY <1>1, Asked DEF Reset
  <1>4. KeysApart' /\ KeysPast' /\ (Prompt => HourKeysWhole') /\ ledger' \subseteq Charge /\ paid' \in Nat
    BY <1>1, <1>3, ElapsedKeys, LedgerKept DEF TypeOK
  <1>5. ends' \in Nat
    BY <1>1, <1>3, Endings
  <1> QED
    BY <1>1, <1>2, <1>3, <1>4, <1>5, StepOrdered DEF TypeOK

LEMMA LoadOrdered ==
    ASSUME IInv, NEW pass \in {"settle", "stop"}, Load(pass)
    PROVE  Ordered'
  <1>1. TypeOK /\ row \in Row
    BY DEF IInv, TypeOK
  <1>2. wk' \in [pc : {"settle", "stop"}, ws : Row] /\ wk'.ws = row /\ wk'.pc = pass
    BY <1>1 DEF Load
  <1>3. UNCHANGED <<now, row, machine, ledger, paid, ran, ends, api, mishaps, faults>>
    BY DEF Load
  <1>4. requests' \in 0 .. MaxRequests
    <2>1. requests' = requests \/ Ask
      BY DEF Load
    <2> QED
      BY <2>1, <1>1, Asked DEF TypeOK
  <1>5. PassAgrees'
    <2>1. pass = "settle" => HourDue(row)
      BY DEF Load
    <2>2. pass = "stop" => row.state = "on"
      BY DEF Load
    <2>3. HourDue(row) => HourDue(row)'
      BY <1>3 DEF HourDue, Start, HourFloor
    <2>4. HourDue(row)' => HourDue(wk.ws)'
      BY <1>2, <1>3 DEF HourDue, Start, HourFloor
    <2> QED
      BY <1>2, <1>3, <2>1, <2>2, <2>3, <2>4 DEF PassAgrees
  <1>6. Marks
    BY <1>1, <1>3, NothingMarked DEF NoFault
  <1>7. KeysApart' /\ KeysPast' /\ (Prompt => HourKeysWhole')
    BY <1>3, LedgerKept
  <1> QED
    BY <1>1, <1>2, <1>3, <1>4, <1>5, <1>6, <1>7, StepOrdered DEF TypeOK

\* The hour a pass charges is over; the next one begins within the lag.
LEMMA DueHour ==
    ASSUME TypeOK, NEW ws \in Row, InTime(ws.period), HourDue(ws)
    PROVE  /\ Start(ws) \in 0 .. MaxTime /\ Whole(Start(ws)) /\ Start(ws) + HourLen <= HourFloor(now)
           /\ ws.period # HourFloor(now) /\ ws.period # now
           /\ ws.period # NoPeriod =>
                 /\ Start(ws) = HourFloor(ws.period) /\ HourFloor(ws.period) + HourLen = HourFloor(now)
                 /\ ws.period < HourFloor(now) /\ now - HourFloor(now) <= Lag
  <1>1. now \in Nat /\ HourFloor(now) \in 0 .. MaxTime /\ HourFloor(now) <= now /\ Whole(HourFloor(now))
        /\ now < HourFloor(now) + HourLen
    BY NowType, HourOf
  <1>2. CASE ws.period = NoPeriod
    <2>1. Start(ws) = 0 /\ HourFloor(0) < HourFloor(now)
      BY <1>2, FirstHour DEF Start, HourDue
    <2>2. HourFloor(0) + HourLen <= HourFloor(now)
      BY <1>1, <2>1, HourStep
    <2> QED
      BY <1>1, <1>2, <2>1, <2>2, FirstHour, Bounds DEF Whole, NoPeriod
  <1>3. CASE ws.period # NoPeriod
    <2>1. PICK p \in 0 .. MaxTime : p = ws.period
      BY <1>3, PeriodType
    <2>2. Start(ws) = HourFloor(p) /\ HourFloor(p) < HourFloor(now)
      BY <1>3, <2>1 DEF Start, HourDue
    <2>3. HourFloor(p) \in Nat /\ HourFloor(p) <= p /\ p < HourFloor(p) + HourLen /\ Whole(HourFloor(p))
          /\ HourFloor(p + HourLen) = HourFloor(p) + HourLen
      BY <2>1, HourOf, Bounds
    <2>4. HourFloor(p) + HourLen <= HourFloor(now)
      BY <1>1, <2>1, <2>2, HourStep, Bounds
    <2>5. now <= HourFloor(p) + HourLen + Lag
      BY <1>3, <2>1 DEF InTime
    <2>6. ~(HourFloor(p) + HourLen < HourFloor(now))
      <3>1. SUFFICES ASSUME HourFloor(p + HourLen) < HourFloor(now) PROVE FALSE
        BY <2>3
      <3>2. HourFloor(p + HourLen) + HourLen <= HourFloor(now)
        BY <3>1, <1>1, <2>1, HourStep, Bounds
      <3> QED
        BY <3>2, <2>3, <2>5, <1>1, Bounds
    <2> QED
      BY <1>1, <1>3, <2>1, <2>2, <2>3, <2>4, <2>5, <2>6, Bounds
  <1> QED
    BY <1>2, <1>3

\* What settle_once posts, and the three ways it ends.
LEMMA SettledRow ==
    ASSUME IInv, Settle
    PROVE  LET ws == wk.ws IN
           /\ ws \in Row /\ ws \in Copies /\ InTime(ws.period) /\ HourDue(ws)
           /\ Post("hour", Start(ws), HourLen, IF ws.state = "on" THEN ws.size ELSE 0)
           /\ row' \in Row /\ row'.size = row.size /\ machine' \in {0} \cup Sizes /\ ends' \in Nat /\ Marks
           /\ \/ UNCHANGED <<row, machine, ends>>
              \/ /\ row'.period = HourFloor(now)
                 /\ ws.period = NoPeriod /\ row.period # NoPeriod => "rewind" \in mishaps'
                 /\ \/ row'.state = row.state /\ UNCHANGED <<machine, ends>>
                    \/ ws.state = "on" /\ row'.state = "off" /\ machine' = 0 /\ ends' = ends + machine
  <1> DEFINE ws == wk.ws
             rate == IF ws.state = "on" THEN ws.size ELSE 0
             new == [ws EXCEPT !.period = HourFloor(now)]
             off == [new EXCEPT !.state = "off"]
  <1>1. TypeOK /\ row \in Row /\ wk # Idle /\ wk.pc = "settle" /\ HourFloor(now) \in 0 .. MaxTime
    BY NowType DEF IInv, TypeOK, Settle, Idle
  <1>2. ws \in Row /\ ws \in Copies
    BY <1>1, PassType DEF Copies
  <1>3. HourDue(ws) /\ InTime(ws.period)
    BY <1>1, <1>2 DEF IInv, Timely, PassAgrees, PeriodsInTime
  <1>4. Post("hour", Start(ws), HourLen, rate)
    BY DEF Settle
  <1>5. ws.period # HourFloor(now)
    <2> HIDE DEF ws
    <2> QED
      BY <1>1, <1>2, <1>3, DueHour
  <1>6. new \in Row /\ new.state = ws.state /\ new.size = ws.size /\ new.period = HourFloor(now)
        /\ off \in Row /\ off.state = "off" /\ off.size = ws.size /\ off.period = HourFloor(now)
    BY <1>1, <1>2 DEF Row, States
  <1>7. CASE Fault("settle") /\ UNCHANGED <<row, machine, ends>>
    <2>1. Marks
      BY <1>1, <1>7, FaultMarked DEF Faults
    <2> QED
      BY <1>1, <1>2, <1>3, <1>4, <1>7, <2>1 DEF TypeOK
  <1>8. CASE /\ UNCHANGED faults /\ Note(IF ws.period = NoPeriod /\ row.period # NoPeriod THEN {"rewind"} ELSE {})
             /\ \/ Save(ws, new) /\ UNCHANGED <<machine, ends>>
                \/ /\ ws.state = "on" /\ machine' = 0 /\ ends' = ends + machine
                   /\ Save(ws, off)
    <2>1. Marks /\ (ws.period = NoPeriod /\ row.period # NoPeriod => "rewind" \in mishaps')
      BY <1>1, <1>8 DEF Note, Marks, TypeOK
    <2> HIDE DEF new, off
    <2>2. CASE Save(ws, new) /\ UNCHANGED <<machine, ends>>
      <3>1. row' \in Row /\ row'.state = row.state /\ row'.size = row.size /\ row'.period = HourFloor(now)
        BY <1>1, <1>2, <1>5, <1>6, <2>2, SaveRow
      <3> QED
        BY <1>1, <1>2, <1>3, <1>4, <2>1, <2>2, <3>1 DEF TypeOK
    <2>3. CASE ws.state = "on" /\ machine' = 0 /\ ends' = ends + machine /\ Save(ws, off)
      <3>1. row' \in Row /\ row'.state = "off" /\ row'.size = row.size /\ row'.period = HourFloor(now)
        BY <1>1, <1>2, <1>5, <1>6, <2>3, SaveRow
      <3>2. ends' \in Nat
        BY <1>1, <2>3, Endings
      <3> QED
        BY <1>1, <1>2, <1>3, <1>4, <2>1, <2>3, <3>1, <3>2
    <2> QED
      BY <1>8, <2>2, <2>3
  <1> QED
    BY <1>7, <1>8 DEF Settle

\* ... and what that does to the ledger.
LEMMA HourPosted ==
    ASSUME IInv, now' = now, NEW ws \in Copies, HourDue(ws),
           Post("hour", Start(ws), HourLen, IF ws.state = "on" THEN ws.size ELSE 0)
    PROVE  /\ KeysApart' /\ KeysPast' /\ (Prompt => HourKeysWhole')
           /\ ledger' \subseteq Charge /\ paid' \in Nat /\ paid <= paid'
           /\ Charged("hour", Start(ws))
           /\ Free("hour", Start(ws)) /\ ws.state = "on" => paid' = paid + HourLen * ws.size
  <1>1. TypeOK /\ KeysApart /\ KeysPast /\ ws \in Row /\ InTime(ws.period)
    BY CopiesType DEF IInv, Timely, PeriodsInTime
  <1>2. Start(ws) \in 0 .. MaxTime /\ Whole(Start(ws)) /\ Start(ws) + HourLen <= HourFloor(now)
    BY <1>1, DueHour
  <1>3. HourFloor(now) <= now /\ now \in Nat /\ HourFloor(now) \in Nat /\ HourLen \in 1 .. HourLen
    BY <1>1, NowType, HourOf, Bounds
  <1>4. PICK rate \in {0} \cup Sizes : rate = IF ws.state = "on" THEN ws.size ELSE 0
    BY <1>1 DEF Row
  <1>5. /\ ledger' \subseteq Charge /\ KeysApart' /\ Charged("hour", Start(ws))
        /\ paid' \in Nat /\ paid <= paid'
        /\ Free("hour", Start(ws)) => paid' = paid + HourLen * rate
    BY <1>1, <1>2, <1>3, <1>4, Posted
  <1>6. KeysPast'
    <2>1. SUFFICES ASSUME NEW c \in ledger'
                   PROVE  c.key + (IF c.kind = "hour" THEN HourLen ELSE 1) <= now
      BY DEF KeysPast
    <2>2. CASE c \in ledger
      BY <1>1, <2>2 DEF KeysPast
    <2>3. CASE c.kind = "hour" /\ c.key = Start(ws)
      BY <2>3, <1>2, <1>3, Bounds
    <2> QED
      BY <1>5, <2>2, <2>3 DEF Charged
  <1>7. Prompt => HourKeysWhole'
    <2>1. SUFFICES ASSUME Prompt, NEW c \in ledger', c.kind = "hour" PROVE Whole(c.key)
      BY DEF HourKeysWhole, Whole, HourFloor
    <2>2. CASE c \in ledger
      BY <2>1, <2>2 DEF IInv, HoursWhole
    <2>3. CASE c.key = Start(ws)
      BY <1>2, <2>3
    <2> QED
      BY <1>5, <2>2, <2>3 DEF Charged
  <1> QED
    BY <1>4, <1>5, <1>6, <1>7

LEMMA SettleOrdered == ASSUME IInv, Settle PROVE Ordered'
  <1>1. TypeOK
    BY DEF IInv
  <1> DEFINE ws == wk.ws
  <1>2. /\ ws \in Copies /\ HourDue(ws)
        /\ Post("hour", Start(ws), HourLen, IF ws.state = "on" THEN ws.size ELSE 0)
        /\ row' \in Row /\ machine' \in {0} \cup Sizes /\ ends' \in Nat /\ Marks
    BY SettledRow
  <1>3. row'.period \in {row.period, HourFloor(now)}
    BY SettledRow
  <1>4. UNCHANGED <<now, ran, api, requests>> /\ wk' = Idle
    BY DEF Settle
  <1>5. KeysApart' /\ KeysPast' /\ (Prompt => HourKeysWhole') /\ ledger' \subseteq Charge /\ paid' \in Nat
    <2> HIDE DEF ws
    <2> QED
      BY <1>2, <1>4, HourPosted
  <1> QED
    BY <1>1, <1>2, <1>3, <1>4, <1>5, StepOrdered DEF TypeOK

\* What a stop by the worker leaves.
LEMMA StopRunRow ==
    ASSUME IInv, StopRun
    PROVE  /\ row' \in Row /\ row'.size = row.size /\ row'.period \in {row.period, NoPeriod}
           /\ machine' \in {0} \cup Sizes /\ Marks /\ wk.ws \in Row /\ wk.ws \in Copies
           /\ \/ machine' = 0 /\ SettleElapsed(wk.ws) /\ ends' = ends + machine
                 /\ (GivenUp(wk.ws) \/ "worker" \in mishaps')
              \/ "incus" \in mishaps' /\ UNCHANGED <<ledger, paid, ends>>
  <1>1. TypeOK /\ row \in Row /\ wk # Idle
    BY DEF IInv, TypeOK, StopRun, Idle
  <1>2. wk.ws \in Row /\ wk.ws \in Copies
    BY <1>1, PassType DEF Copies
  <1>3. CASE /\ machine' = 0 /\ SettleElapsed(wk.ws) /\ ends' = ends + machine
             /\ \/ Save(wk.ws, [wk.ws EXCEPT !.state = "off", !.period = NoPeriod]) /\ NoFault
                \/ Fault("worker") /\ UNCHANGED row
    <2>1. CASE Save(wk.ws, [wk.ws EXCEPT !.state = "off", !.period = NoPeriod]) /\ NoFault
      BY <1>1, <1>2, <1>3, <2>1, GivenUpRow, NothingMarked
    <2>2. CASE Fault("worker") /\ UNCHANGED row
      <3>1. "worker" \in Faults
        BY DEF Faults
      <3> QED
        BY <1>1, <1>2, <1>3, <2>2, <3>1, FaultMarked
    <2> QED
      BY <1>3, <2>1, <2>2
  <1>4. CASE Fault("incus") /\ UNCHANGED <<row, machine, ledger, paid, ends>>
    <2>1. "incus" \in Faults
      BY DEF Faults
    <2> QED
      BY <1>1, <1>2, <1>4, <2>1, FaultMarked DEF TypeOK
  <1> QED
    BY <1>3, <1>4 DEF StopRun

LEMMA StopRunOrdered == ASSUME IInv, StopRun PROVE Ordered'
  <1>1. TypeOK
    BY DEF IInv
  <1>2. /\ row' \in Row /\ row'.period \in {row.period, NoPeriod} /\ machine' \in {0} \cup Sizes /\ Marks
        /\ wk.ws \in Copies
    BY StopRunRow
  <1>3. \/ SettleElapsed(wk.ws) /\ ends' = ends + machine
        \/ UNCHANGED <<ledger, paid, ends>>
    BY DEF StopRun
  <1>4. UNCHANGED <<now, ran, api, requests>> /\ wk' = Idle
    BY DEF StopRun
  <1>5. /\ KeysApart' /\ KeysPast' /\ (Prompt => HourKeysWhole')
        /\ ledger' \subseteq Charge /\ paid' \in Nat /\ ends' \in Nat
    BY <1>1, <1>2, <1>3, <1>4, ElapsedKeys, LedgerKept, Endings DEF TypeOK
  <1> QED
    BY <1>1, <1>2, <1>4, <1>5, StepOrdered DEF TypeOK

\* The other passes, and a reboot, move neither the books nor the copies.
LEMMA QuietOrdered ==
    ASSUME IInv, UNCHANGED <<now, ledger, paid, ran, ends, api, wk, requests>>,
           row' \in Row, machine' \in {0} \cup Sizes, Marks, row'.period \in {row.period, NoPeriod, now}
    PROVE  Ordered'
  <1>1. TypeOK
    BY DEF IInv
  <1>2. KeysApart' /\ KeysPast' /\ (Prompt => HourKeysWhole')
    BY LedgerKept
  <1> QED
    BY <1>1, <1>2, StepOrdered DEF TypeOK

LEMMA RebuiltOrdered == ASSUME IInv, Rebuilt PROVE Ordered'
  <1>1. TypeOK /\ row \in Row
    BY DEF IInv, TypeOK
  <1>2. CASE machine' = 0 /\ NoFault /\ row' = [row EXCEPT !.state = "off", !.period = NoPeriod]
    <2>1. row' \in Row /\ row'.period = NoPeriod /\ Marks
      BY <1>1, <1>2, NothingMarked DEF Row, States
    <2> QED
      BY <1>2, <2>1, QuietOrdered DEF Rebuilt
  <1>3. CASE Fault("incus") /\ machine' \in {0, machine, row.size} /\ row' = [row EXCEPT !.state = "error"]
    <2>1. row' \in Row /\ row'.period = row.period /\ Marks
      BY <1>1, <1>3, FaultMarked DEF Row, States, Faults
    <2>2. machine' \in {0} \cup Sizes
      BY <1>1, <1>3 DEF Row, TypeOK
    <2> QED
      BY <2>1, <2>2, QuietOrdered DEF Rebuilt
  <1> QED
    BY <1>2, <1>3 DEF Rebuilt

LEMMA ArchiveOrdered == ASSUME IInv, Archive PROVE Ordered'
  <1>1. TypeOK /\ row \in Row
    BY DEF IInv, TypeOK
  <1>2. row' \in Row /\ row'.period = row.period /\ Marks
    BY <1>1, FaultMarked DEF Archive, Row, States, Faults
  <1>3. machine' \in {0} \cup Sizes /\ UNCHANGED <<now, ledger, paid, ran, ends, api, wk, requests>>
    BY <1>1 DEF Archive, TypeOK
  <1> QED
    BY <1>2, <1>3, QuietOrdered

LEMMA AdoptedRow ==
    ASSUME IInv, Adopt
    PROVE  /\ row' \in Row /\ row'.size = row.size
           /\ machine = 0 => row'.state = "off" /\ row'.period = NoPeriod
           /\ machine # 0 => row'.state = "on" /\ row'.period = (IF row.period = NoPeriod THEN now ELSE row.period)
  <1>1. TypeOK /\ row \in Row /\ now \in 0 .. MaxTime
    BY NowType DEF IInv, TypeOK
  <1> QED
    BY <1>1 DEF Adopt, Row, States

LEMMA AdoptOrdered == ASSUME IInv, Adopt PROVE Ordered'
  <1>1. TypeOK
    BY DEF IInv
  <1>2. row' \in Row /\ row'.period \in {row.period, NoPeriod, now}
    BY AdoptedRow
  <1>3. /\ UNCHANGED <<now, machine, ledger, paid, ran, ends, api, wk, requests>> /\ NoFault
    BY DEF Adopt, NoFault
  <1>4. Marks
    BY <1>1, <1>3, NothingMarked
  <1> QED
    BY <1>1, <1>2, <1>3, <1>4, QuietOrdered DEF TypeOK

LEMMA StopStrayOrdered == ASSUME IInv, StopStray PROVE Ordered'
  <1>1. TypeOK /\ row \in Row
    BY DEF IInv, TypeOK
  <1>2. row' \in Row /\ row'.period = NoPeriod
    BY <1>1 DEF StopStray, Row
  <1>3. UNCHANGED <<now, ledger, paid, ran, ends, api, wk, requests>> /\ machine' = 0 /\ NoFault
    BY DEF StopStray, NoFault
  <1>4. Marks
    BY <1>1, <1>3, NothingMarked
  <1> QED
    BY <1>2, <1>3, <1>4, QuietOrdered

LEMMA RestoreOrdered == ASSUME IInv, Restore PROVE Ordered'
  <1>1. TypeOK /\ row \in Row
    BY DEF IInv, TypeOK
  <1>2. row' \in Row /\ row'.period = row.period /\ machine' \in {0} \cup Sizes
    BY <1>1 DEF Restore, Row, States, TypeOK
  <1>3. UNCHANGED <<now, ledger, paid, ran, ends, api, wk, requests>> /\ NoFault
    BY DEF Restore, NoFault
  <1>4. Marks
    BY <1>1, <1>3, NothingMarked
  <1> QED
    BY <1>2, <1>3, <1>4, QuietOrdered

LEMMA RebootOrdered == ASSUME IInv, Reboot PROVE Ordered'
  <1>1. TypeOK /\ row \in Row
    BY DEF IInv, TypeOK
  <1>2. Marks
    BY <1>1, FaultMarked DEF Reboot, Faults
  <1>3. UNCHANGED <<now, row, ledger, paid, ran, ends, api, wk, requests>> /\ machine' = 0
    BY DEF Reboot
  <1> QED
    BY <1>1, <1>2, <1>3, QuietOrdered

\* A tick passes: only if nothing is in flight, no row in between, and an hour that
\* is due not due for long.
LEMMA QuietTick ==
    ASSUME IInv, Punctual, Tick
    PROVE  /\ now' = now + 1 /\ now' \in 0 .. MaxTime /\ ran' = ran + machine
           /\ api = Idle /\ wk = Idle /\ Copies' = {row} /\ row \in Copies
           /\ row.state \in {"on", "off"}
           /\ row.state = "on" => machine # 0
           /\ HourDue(row) => now - HourFloor(now) < Lag
           /\ Prompt' => ~HourDue(row)
           /\ UNCHANGED <<row, machine, ledger, paid, ends, api, wk, requests, faults>>
           /\ mishaps \subseteq mishaps' /\ mishaps' \subseteq mishaps \cup {"lag"}
  <1>1. TypeOK /\ row.state \in States /\ now \in Nat /\ HourFloor(now) \in Nat
    BY NowType DEF IInv, TypeOK, Row
  <1>2. ~PassDue
    BY DEF Tick, Punctual
  <1>3. UNCHANGED <<row, machine, ledger, paid, ends, api, wk, requests, faults>> /\ now' = now + 1
        /\ api = Idle /\ wk = Idle /\ now < MaxTime /\ ran' = ran + machine
    BY DEF Tick
  <1>4. HourDue(row) => now - HourFloor(now) < Lag
    BY <1>1, <1>2, Bounds DEF PassDue
  <1>5. row.state \in {"on", "off"} /\ (row.state = "on" => machine # 0)
    BY <1>1, <1>2 DEF PassDue, States
  <1>6. Note(IF HourDue(row) THEN {"lag"} ELSE {})
    BY DEF Tick
  <1>7. Prompt' => ~HourDue(row)
    BY <1>6 DEF Note, Prompt
  <1>8. mishaps \subseteq mishaps' /\ mishaps' \subseteq mishaps \cup {"lag"}
    BY <1>6 DEF Note
  <1>9. Copies' = {row} /\ row \in Copies
    BY <1>3 DEF Copies
  <1> QED
    BY <1>1, <1>3, <1>4, <1>5, <1>7, <1>8, <1>9, Bounds

\* The period grows older by a tick, and stays in time.
LEMMA PeriodAges ==
    ASSUME TypeOK, now' = now + 1, NEW ws \in Row, ws.state \in {"on", "off"}, InTime(ws.period),
           HourDue(ws) => now - HourFloor(now) < Lag
    PROVE  /\ InTime(ws.period)'
           /\ ~HourDue(ws) => Fresh(ws.period)'
  <1>1. now \in Nat /\ HourFloor(now) \in Nat /\ HourFloor(now) <= now /\ now < HourFloor(now) + HourLen
    BY NowType, HourOf
  <1>2. CASE ws.period = NoPeriod
    BY <1>2 DEF InTime, Fresh
  <1>3. CASE ws.period # NoPeriod
    <2>1. PICK p \in Nat : p = ws.period
      BY <1>3, PeriodType, Bounds
    <2>2. HourFloor(p) \in Nat /\ HourFloor(p) <= p /\ p < HourFloor(p) + HourLen
      BY HourOf
    <2>3. HourDue(ws) <=> HourFloor(p) < HourFloor(now)
      BY <1>3, <2>1 DEF HourDue, Start
    <2>4. p <= now /\ now <= HourFloor(p) + HourLen + Lag
      BY <1>3, <2>1 DEF InTime
    <2>5. CASE HourDue(ws)
      <3>1. HourFloor(p) + HourLen = HourFloor(now)
        BY <2>1, <2>5, <1>3, DueHour
      <3>2. p <= now + 1 /\ now + 1 <= HourFloor(p) + HourLen + Lag
        BY <1>1, <2>2, <2>4, <2>5, <3>1, Bounds
      <3>3. InTime(p)'
        BY <3>2 DEF InTime, HourFloor
      <3> QED
        BY <2>1, <2>5, <3>3 DEF InTime, HourFloor
    <2>6. CASE ~HourDue(ws)
      <3>1. HourFloor(now) <= HourFloor(p)
        BY <1>1, <2>2, <2>3, <2>6
      <3>2. p <= now + 1 /\ now + 1 <= HourFloor(p) + HourLen + Lag
        BY <1>1, <2>2, <2>4, <3>1, Bounds
      <3>3. (now + 1) - p >= HourLen => HourFloor(p) = p
        BY <1>1, <2>2, <2>4, <3>1, Bounds
      <3>4. InTime(p)' /\ Fresh(p)'
        BY <3>2, <3>3 DEF InTime, Fresh, Whole, HourFloor
      <3> QED
        BY <2>1, <3>4 DEF InTime, Fresh, Whole, HourFloor
    <2> QED
      BY <2>5, <2>6
  <1> QED
    BY <1>2, <1>3

LEMMA TickOrdered == ASSUME IInv, Punctual, Tick PROVE Ordered'
  <1>1. TypeOK /\ Timely /\ row \in Row /\ now \in Nat
    BY NowType DEF IInv, TypeOK
  <1>2. /\ now' = now + 1 /\ now' \in 0 .. MaxTime /\ ran' = ran + machine
        /\ api = Idle /\ wk = Idle /\ Copies' = {row} /\ row \in Copies
        /\ row.state \in {"on", "off"}
        /\ HourDue(row) => now - HourFloor(now) < Lag
        /\ Prompt' => ~HourDue(row)
        /\ UNCHANGED <<row, machine, ledger, paid, ends, api, wk, requests, faults>>
        /\ mishaps \subseteq mishaps' /\ mishaps' \subseteq mishaps \cup {"lag"}
    BY QuietTick
  <1>3. TypeOK'
    <2>1. ran' \in Nat
      BY <1>1, <1>2, Endings DEF TypeOK
    <2> QED
      BY <1>1, <1>2, <2>1 DEF TypeOK
  <1>4. InTime(row.period)' /\ (~HourDue(row) => Fresh(row.period)')
    BY <1>1, <1>2, PeriodAges DEF Timely, PeriodsInTime
  <1>5. PeriodsInTime'
    BY <1>2, <1>4 DEF PeriodsInTime
  <1>6. KeysApart'
    BY <1>1, <1>2 DEF Timely, KeysApart
  <1>7. KeysPast'
    <2>1. SUFFICES ASSUME NEW c \in ledger
                   PROVE  c.key + (IF c.kind = "hour" THEN HourLen ELSE 1) <= now + 1
      BY <1>2 DEF KeysPast
    <2>2. c.key + (IF c.kind = "hour" THEN HourLen ELSE 1) <= now /\ c.key \in Nat
      BY <1>1, Bounds DEF Timely, KeysPast, TypeOK, Charge
    <2> QED
      BY <1>1, <2>2, Bounds
  <1>8. HandlerAgrees' /\ PassAgrees'
    BY <1>2 DEF HandlerAgrees, PassAgrees, Idle
  <1>9. Prompt' => HoursWhole'
    <2>1. SUFFICES ASSUME Prompt' PROVE HoursWhole'
      OBVIOUS
    <2>2. Prompt
      BY <1>2, <2>1 DEF Prompt
    <2>3. Fresh(row.period)'
      BY <1>2, <1>4, <2>1
    <2>4. \A c \in ledger' : c.kind = "hour" => Whole(c.key)
      BY <1>2, <2>2 DEF IInv, HoursWhole
    <2> QED
      BY <1>2, <2>3, <2>4 DEF HoursWhole, Whole, HourFloor
  <1> QED
    BY <1>3, <1>5, <1>6, <1>7, <1>8, <1>9 DEF Ordered, Timely

-----------------------------------------------------------------------------
(* The books.                                                                *)

LEMMA CalmBefore == ASSUME mishaps \subseteq mishaps', Calm' PROVE Calm
  BY DEF Calm

LEMMA LagOfEnds ==
    ASSUME TypeOK
    PROVE  /\ machine \in Nat /\ Lag * ends \in Nat /\ Lag * machine \in Nat
           /\ Lag * (ends + machine) = Lag * ends + Lag * machine
  <1>1. machine \in Nat /\ ends \in Nat /\ Lag \in Nat
    BY Endings, Bounds DEF TypeOK
  <1>2. PICK m \in Nat, e \in Nat, l \in Nat : m = machine /\ e = ends /\ l = Lag
    BY <1>1
  <1>3. l * e \in Nat /\ l * m \in Nat /\ l * (e + m) = l * e + l * m
    OBVIOUS
  <1> QED
    BY <1>2, <1>3

LEMMA Multiples ==
    ASSUME NEW m \in Nat, NEW a \in Nat, NEW b \in Nat
    PROVE  /\ m * a \in Nat /\ m * (a + b) = m * a + m * b /\ m * a = a * m
           /\ a <= b => m * a <= m * b
  OBVIOUS

\* What is owed does not grow when more is paid.
LEMMA OwesLess ==
    ASSUME TypeOK, ran' = ran, paid' \in Nat, paid <= paid', ends' = ends, NEW n \in Int, Owes(n)
    PROVE  Owes(n)'
  <1>1. paid \in Nat /\ ran \in Nat /\ Lag * ends \in Nat
    BY LagOfEnds DEF TypeOK
  <1> QED
    BY <1>1 DEF Owes

\* A run that ends is forgiven the lag.
LEMMA OwesForgiven ==
    ASSUME TypeOK, ran' = ran, paid' \in Nat, ends' = ends + machine,
           NEW n \in Int, Owes(n), n <= Lag * machine + (paid' - paid)
    PROVE  Owes(0)'
  <1>1. paid \in Nat /\ ran \in Nat /\ Lag * ends \in Nat /\ Lag * machine \in Nat
        /\ Lag * (ends + machine) = Lag * ends + Lag * machine
    BY LagOfEnds DEF TypeOK
  <1>2. PICK l \in Nat, f \in Nat : l = Lag * ends /\ f = Lag * machine
    BY <1>1
  <1>3. ran <= paid + l + n
    BY <1>2 DEF Owes
  <1>4. ran <= paid' + (l + f) + 0
    BY <1>1, <1>2, <1>3
  <1> QED
    BY <1>1, <1>2, <1>4 DEF Owes

LEMMA WithinLag ==
    ASSUME TypeOK, ran' = ran, paid' \in Nat, paid <= paid', ends' = ends + machine,
           NEW n \in Nat, Owes(n), n <= machine * Lag
    PROVE  Owes(0)'
  <1>1. PICK f \in Nat : f = Lag * machine
    BY LagOfEnds
  <1>2. f = machine * Lag
    BY <1>1, LagOfEnds, Bounds, Multiples
  <1>3. n <= f + (paid' - paid)
    <2>1. PICK x \in Nat, y \in Nat : x = paid /\ y = paid'
      BY DEF TypeOK
    <2>2. x <= y /\ n <= f
      BY <1>2, <2>1
    <2>3. n <= f + (y - x)
      BY <2>2
    <2> QED
      BY <2>1, <2>3
  <1> QED
    BY <1>1, <1>3, OwesForgiven

\* A run that ends with its copy's part-hour, or within the lag of its period, is paid.
LEMMA RunEnds ==
    ASSUME IInv, Calm, now' = now, ran' = ran, ends' = ends + machine,
           NEW ws \in Copies, SettleElapsed(ws),
           Running => (ws.period = row.period /\ ws.size = row.size) \/ now - row.period <= Lag
    PROVE  Owes(0)' /\ paid' \in Nat /\ paid <= paid'
  <1>1. TypeOK /\ KeysApart /\ KeysPast /\ ws \in Row /\ InTime(ws.period) /\ Books /\ RowAgrees
        /\ row \in Row /\ InTime(row.period)
    BY CopiesType DEF IInv, CalmInv, Timely, PeriodsInTime, Copies
  <1>2. /\ paid' \in Nat /\ paid <= paid'
        /\ ws.period # NoPeriod =>
              LET age == now - ws.period IN
              /\ age > 0 /\ age < HourLen /\ Free("partial", ws.period) => paid' = paid + age * ws.size
              /\ age >= HourLen /\ Free("hour", ws.period) => paid' = paid + HourLen * ws.size
    BY <1>1, Elapsed
  <1>3. machine \in Nat /\ Lag * machine \in Nat /\ paid \in Nat /\ now \in Nat /\ Lag \in Nat
        /\ HourLen \in Nat /\ HourLen > 0 /\ Lag * machine = machine * Lag
    BY <1>1, LagOfEnds, NowType, Bounds, Multiples DEF TypeOK
  <1>4. CASE Square
    <2>1. Owes(0) /\ 0 <= machine * Lag
      BY <1>3, <1>4 DEF Square
    <2> QED
      BY <1>1, <1>2, <2>1, WithinLag
  <1>5. CASE Running
    <2>1. row.period # NoPeriod /\ row.period <= now /\ now <= HourFloor(row.period) + HourLen + Lag
      BY <1>1, <1>5 DEF Running, RowAgrees, InTime
    <2>2. PICK p \in Nat : p = row.period
      BY <1>1, <2>1, PeriodType, Bounds
    <2>3. PICK age \in Nat : age = now - p
      BY <1>3, <2>1, <2>2
    <2>4. PICK h \in Nat : h = HourFloor(p) /\ h <= p /\ p < h + HourLen /\ now <= h + HourLen + Lag
      BY <2>1, <2>2, HourOf
    <2>5. CASE OwesRest(machine, p)
      <3>1. h + HourLen <= now /\ Owes(machine * (now - (h + HourLen)))
        BY <2>4, <2>5 DEF OwesRest
      <3>2. PICK r \in Nat : r = now - (h + HourLen)
        BY <1>3, <2>4, <3>1
      <3>3. r <= Lag
        BY <1>3, <2>4, <3>2
      <3>4. machine * r \in Nat /\ machine * r <= machine * Lag
        BY <1>3, <3>3, Multiples
      <3>5. PICK n \in Nat : n = machine * r
        BY <3>4
      <3>6. Owes(n) /\ n <= machine * Lag
        BY <3>1, <3>2, <3>4, <3>5
      <3> QED
        BY <1>1, <1>2, <3>6, WithinLag
    <2>6. CASE OwesAll(machine, p)
      <3>1. Owes(machine * age) /\ machine * age \in Nat
        BY <1>3, <2>3, <2>6, Multiples DEF OwesAll
      <3>2. CASE age <= Lag
        <4>1. machine * age <= machine * Lag
          BY <1>3, <3>2, Multiples
        <4>2. PICK n \in Nat : n = machine * age
          BY <3>1
        <4>3. Owes(n) /\ n <= machine * Lag
          BY <3>1, <4>1, <4>2
        <4> QED
          BY <1>1, <1>2, <4>3, WithinLag
      <3>3. CASE ~(age <= Lag)
        <4>1. ws.period = p /\ ws.size = machine
          BY <1>5, <2>2, <2>3, <3>3 DEF Running
        <4>2. p # NoPeriod /\ age > 0
          BY <1>3, <2>2, <2>1, <3>3
        <4>3. CASE age < HourLen
          <5>1. Free("partial", p)
            BY <1>1, <1>5, <2>2, <2>4 DEF Running, Partials, Free, TypeOK, Charge
          <5>2. paid' = paid + age * machine
            BY <1>2, <2>3, <4>1, <4>2, <4>3, <5>1
          <5>3. machine * age <= Lag * machine + (paid' - paid)
            BY <1>3, <3>1, <5>2, Multiples
          <5> QED
            BY <1>1, <1>2, <3>1, <5>3, OwesForgiven
        <4>4. CASE age >= HourLen
          <5>1. Free("hour", p)
            BY <2>6 DEF OwesAll, Unpaid, Free
          <5>2. paid' = paid + HourLen * machine
            BY <1>2, <2>3, <4>1, <4>2, <4>4, <5>1
          <5>3. PICK r \in Nat : age = HourLen + r
            <6>1. age - HourLen \in Nat
              BY <1>3, <4>4
            <6> QED
              BY <6>1, <1>3
          <5>4. r <= Lag
            BY <1>3, <2>3, <2>4, <5>3
          <5>5. machine * age = machine * HourLen + machine * r /\ machine * r <= machine * Lag
                /\ machine * HourLen = HourLen * machine /\ machine * HourLen \in Nat /\ machine * r \in Nat
            BY <1>3, <5>3, <5>4, Multiples
          <5>6. machine * age <= Lag * machine + (paid' - paid)
            BY <1>3, <5>2, <5>5
          <5> QED
            BY <1>1, <1>2, <3>1, <5>6, OwesForgiven
        <4> QED
          BY <1>3, <4>3, <4>4
      <3> QED
        BY <3>2, <3>3
    <2> QED
      BY <1>5, <2>2, <2>5, <2>6 DEF Running
  <1> QED
    BY <1>1, <1>2, <1>4, <1>5 DEF Books

-----------------------------------------------------------------------------
(* As long as all is calm: row and machine agree.                            *)

LEMMA CalmHolds ==
    ASSUME IInv, Ordered', Calm', mishaps \subseteq mishaps'
    PROVE  Calm /\ RowAgrees /\ PartialsAgree /\ Books
  BY CalmBefore DEF IInv, CalmInv

\* A charge in part that a step adds began when the row's period did, or when the
\* one did that the row gives up.
Ends(k) ==
    /\ k < now
    /\ k = row.period \/ (row'.period = NoPeriod /\ (wk' = Idle \/ (api.pc = "off" /\ k = api.ws.period)))

LEMMA PartialsKept ==
    ASSUME IInv, PartialsAgree, Ordered', now' = now,
           row'.period \in {row.period, NoPeriod, now} \/ (wk' = Idle /\ row'.period = HourFloor(now)),
           wk' \in {wk, Idle},
           api' \in {api, Idle} \/ api'.pc # "off" \/ api'.ws.period = row.period,
           \A c \in ledger' : c.kind = "partial" => c \in ledger \/ Ends(c.key)
    PROVE  PartialsAgree'
  <1>1. TypeOK /\ now \in Nat /\ HourFloor(now) \in Nat /\ HourFloor(now) <= now /\ now < HourFloor(now) + HourLen
        /\ HourFloor(HourFloor(now)) = HourFloor(now) /\ HourFloor(now)' = HourFloor(now)
    BY NowType, HourOf DEF IInv, Whole, HourFloor
  <1>2. ledger' \subseteq Charge /\ row \in Row /\ row' \in Row /\ HourLen \in Nat /\ HourLen > 0
    BY Bounds DEF Ordered, IInv, TypeOK
  <1>3. ASSUME NEW c \in ledger', c.kind = "partial" PROVE c.key < now /\ c.key \in Nat
    BY <1>1, <1>2, <1>3 DEF Ordered, Timely, KeysPast, Charge
  <1>4. ASSUME row'.period # NoPeriod, NEW c \in ledger', c.kind = "partial"
        PROVE  c.key < HourFloor(row'.period) + HourLen
    <2>1. CASE row'.period \in {now, HourFloor(now)}
      BY <1>1, <1>2, <1>3, <1>4, <2>1
    <2>2. CASE row'.period = row.period
      <3>1. PICK p \in Nat : p = row.period
        BY <1>2, <1>4, <2>2, PeriodType, Bounds
      <3>2. p < HourFloor(p) + HourLen
        BY <3>1, HourOf
      <3>3. c \in ledger => c.key < HourFloor(p) + HourLen
        BY <1>4, <2>2, <3>1 DEF PartialsAgree, Partials
      <3>4. c \notin ledger => c.key = p
        BY <1>4, <2>2, <3>1 DEF Ends
      <3> QED
        BY <2>2, <3>1, <3>2, <3>3, <3>4
    <2> QED
      BY <1>4, <2>1, <2>2
  <1>5. ASSUME wk'.pc = "settle", wk'.ws.period # NoPeriod
        PROVE  /\ Partials(HourFloor(now))' /\ Low(row'.period)
               /\ api'.pc = "off" => Low(api'.ws.period)
    <2>1. wk' # Idle /\ wk' = wk
      BY <1>5 DEF Idle
    <2>2. Partials(HourFloor(now)) /\ Low(row.period) /\ (api.pc = "off" => Low(api.ws.period))
      BY <1>5, <2>1 DEF PartialsAgree
    <2>3. Low(row'.period)
      BY <1>1, <2>1, <2>2 DEF Low, NoPeriod
    <2>4. api'.pc = "off" => Low(api'.ws.period)
      BY <2>2 DEF Idle
    <2>5. ASSUME NEW c \in ledger', c.kind = "partial" PROVE c.key < HourFloor(now)
      <3>1. c \in ledger => c.key < HourFloor(now)
        BY <2>2, <2>5 DEF Partials
      <3>2. c \notin ledger => Low(c.key) /\ c.key < now
        BY <2>1, <2>2, <2>5 DEF Ends
      <3> QED
        BY <1>1, <3>1, <3>2 DEF Low
    <2> QED
      BY <1>1, <2>3, <2>4, <2>5 DEF Partials
  <1>6. ASSUME NEW p PROVE Low(p) <=> Low(p)'
    BY <1>1 DEF Low
  <1>7. HourFloor(row.period)' = HourFloor(row'.period)
    BY DEF HourFloor
  <1>8. row'.period # NoPeriod => Partials(HourFloor(row.period) + HourLen)'
    BY <1>4, <1>7 DEF Partials
  <1>9. Low(row'.period) => Low(row.period)'
    BY <1>1 DEF Low
  <1>10. Low(api'.ws.period) => Low(api.ws.period)'
    BY <1>1 DEF Low
  <1> QED
    BY <1>5, <1>8, <1>9, <1>10 DEF PartialsAgree

\* A part-hour that is charged.
LEMMA EndsOfElapsed ==
    ASSUME IInv, now' = now, NEW ws \in Copies, SettleElapsed(ws),
           \/ ws.period = row.period
           \/ GivenUp(ws) /\ (wk' = Idle \/ (api.pc = "off" /\ ws = api.ws))
    PROVE  \A c \in ledger' : c.kind = "partial" => c \in ledger \/ Ends(c.key)
  <1>1. TypeOK /\ KeysApart /\ KeysPast /\ ws \in Row /\ InTime(ws.period)
    BY CopiesType DEF IInv, Timely, PeriodsInTime
  <1>2. \A c \in ledger' : c \in ledger \/ (c.key = ws.period /\ ws.period # NoPeriod /\ ws.period < now)
    BY <1>1, Elapsed
  <1> QED
    BY <1>2 DEF Ends, GivenUp

-----------------------------------------------------------------------------
(* ... and the books are square, or those of the run.                        *)

\* What a step that charges nothing leaves owed.
LEMMA OwesSame ==
    ASSUME UNCHANGED <<ran, paid, ends>>, NEW n
    PROVE  Owes(n)' <=> Owes(n)
  BY DEF Owes

LEMMA RunGoesOn ==
    ASSUME Running, UNCHANGED <<now, machine, ledger, paid, ran, ends>>,
           row'.period = row.period, row'.size = row.size, row'.state \in {"on", "stopping"},
           api'.pc # "resize", PassKnows', HandlerKnows'
    PROVE  Running'
  <1>1. Partials(row.period)' /\ (Unpaid(row.period) => Unpaid(row.period)')
    BY DEF Running, Partials, Unpaid, HourFloor
  <1>2. OwesAll(machine, row.period) => OwesAll(machine, row.period)'
    BY <1>1 DEF OwesAll, Owes
  <1>3. OwesRest(machine, row.period) => OwesRest(machine, row.period)'
    BY DEF OwesRest, Owes, HourFloor
  <1> QED
    BY <1>1, <1>2, <1>3 DEF Running

\* A run whose period begins now owes nothing yet, and no key of it is taken.
LEMMA NewRun ==
    ASSUME Ordered', now' = now, row'.period = now, Owes(0)',
           machine' # 0, machine' = row'.size, row'.state \in {"on", "stopping"},
           api'.pc # "resize"
    PROVE  Running'
  <1>1. now \in Nat /\ HourFloor(now) \in Nat /\ HourFloor(now) <= now /\ now < HourFloor(now) + HourLen
    <2>1. now' \in Nat
      BY Bounds DEF Ordered, TypeOK
    <2> QED
      BY <2>1, HourOf
  <1>2. machine' \in Nat /\ ledger' \subseteq Charge /\ HourLen \in Nat /\ HourLen > 0
    BY Bounds, SettlementAssumption DEF Ordered, TypeOK
  <1>3. Partials(row.period)'
    BY <1>1, <1>2 DEF Partials, Ordered, Timely, KeysPast, Charge
  <1>4. Unpaid(row.period)'
    BY <1>1, <1>2 DEF Unpaid, Ordered, Timely, KeysPast, Charge, HourFloor
  <1>5. Owes(machine * (now - row.period))'
    <2>1. PICK m \in Nat, t \in Nat : m = machine' /\ t = now
      BY <1>1, <1>2
    <2>2. m * (t - t) = 0
      OBVIOUS
    <2>3. machine' * (now' - row'.period) = 0
      BY <2>1, <2>2
    <2> QED
      BY <2>3 DEF Owes
  <1>6. PassKnows' /\ HandlerKnows'
    BY <1>1, Bounds DEF PassKnows, HandlerKnows
  <1> QED
    BY <1>3, <1>4, <1>5, <1>6 DEF Running, OwesAll

-----------------------------------------------------------------------------
(* Each step keeps a calm machine's books.                                   *)

LEMMA PowerOnCalm == ASSUME IInv, PowerOn, Ordered', Calm' PROVE CalmInv'
  <1>1. UNCHANGED <<now, machine, ledger, paid, ran, ends, wk, mishaps, faults>>
    BY DEF PowerOn
  <1>2. Calm /\ RowAgrees /\ PartialsAgree /\ Books /\ row \in Row
    BY <1>1, CalmHolds DEF IInv, TypeOK
  <1>3. /\ row.state \in {"off", "error"} /\ api'.pc = "on" /\ api'.ws = row'
        /\ row'.state = "starting" /\ row'.size = row.size /\ row'.period = row.period
    BY <1>2 DEF PowerOn, Row
  <1>4. machine = 0 /\ RowAgrees'
    BY <1>1, <1>2, <1>3 DEF RowAgrees
  <1>5. PartialsAgree'
    BY <1>1, <1>2, <1>3, PartialsKept
  <1>6. Books'
    BY <1>1, <1>2, <1>4, OwesSame DEF Books, Square, Running
  <1> QED
    BY <1>4, <1>5, <1>6 DEF CalmInv

LEMMA PowerOnEndsCalm == ASSUME IInv, PowerOnEnds, Ordered', Calm' PROVE CalmInv'
  <1>1. UNCHANGED <<now, ledger, paid, ran, ends, wk, requests>> /\ api' = Idle /\ api.pc = "on" /\ api # Idle
    BY DEF PowerOnEnds, Idle
  <1>2. /\ row' \in Row /\ row'.size = row.size /\ mishaps \subseteq mishaps'
        /\ machine' = api.ws.size /\ row'.period = now
        /\ row'.state = (IF api.ws.state = "on" THEN row.state ELSE "on")
    BY StartedRow DEF Calm, Marks
  <1>3. Calm /\ RowAgrees /\ PartialsAgree /\ Books /\ TypeOK /\ api.ws \in Row /\ api.ws.state = "starting"
    BY <1>1, <1>2, CalmHolds, HandlerType DEF IInv, Timely, HandlerAgrees
  <1>4. row'.state = "on" /\ machine = 0 /\ machine' = row'.size /\ machine' # 0 /\ now \in Nat
    BY <1>1, <1>2, <1>3, NowType, SettlementAssumption DEF RowAgrees, Row
  <1>5. RowAgrees'
    BY <1>1, <1>2, <1>4 DEF RowAgrees, Idle, NoPeriod
  <1>6. PartialsAgree'
    BY <1>1, <1>2, <1>3, PartialsKept
  <1>7. Owes(0)'
    BY <1>1, <1>3, <1>4, OwesSame DEF Books, Square, Running
  <1>8. Running'
    BY <1>1, <1>2, <1>4, <1>7, NewRun DEF Idle
  <1> QED
    BY <1>5, <1>6, <1>8 DEF CalmInv, Books

LEMMA PowerOffCalm == ASSUME IInv, PowerOff, Ordered', Calm' PROVE CalmInv'
  <1>1. UNCHANGED <<now, machine, ledger, paid, ran, ends, wk, mishaps, faults>> /\ api = Idle
    BY DEF PowerOff
  <1>2. Calm /\ RowAgrees /\ PartialsAgree /\ Books /\ row \in Row
    BY <1>1, CalmHolds DEF IInv, TypeOK
  <1>3. /\ row.state # "off" /\ api'.pc = "off" /\ api'.ws = row'
        /\ row'.state = "stopping" /\ row'.size = row.size /\ row'.period = row.period
    BY <1>2 DEF PowerOff, Row
  <1>4. RowAgrees'
    BY <1>1, <1>2, <1>3 DEF RowAgrees
  <1>5. PartialsAgree'
    BY <1>1, <1>2, <1>3, PartialsKept
  <1>6. ASSUME Square PROVE Books'
    BY <1>1, <1>3, <1>6, OwesSame DEF Books, Square
  <1>7. ASSUME Running PROVE Books'
    <2>1. PassKnows' /\ HandlerKnows'
      BY <1>1, <1>3, <1>7 DEF Running, PassKnows, HandlerKnows
    <2> QED
      BY <1>1, <1>3, <1>7, <2>1, RunGoesOn DEF Books
  <1> QED
    <2>1. Square \/ Running
      BY <1>2 DEF Books
    <2> QED
      BY <2>1, <1>4, <1>5, <1>6, <1>7 DEF CalmInv

LEMMA PowerOffEndsCalm == ASSUME IInv, PowerOffEnds, Ordered', Calm' PROVE CalmInv'
  <1>1. UNCHANGED <<now, ran, wk, requests>> /\ api' = Idle /\ api.pc = "off" /\ api # Idle
    BY DEF PowerOffEnds, Idle
  <1>2. /\ row'.size = row.size /\ row'.period \in {row.period, NoPeriod} /\ mishaps \subseteq mishaps'
        /\ api.ws \in Copies /\ machine' = 0 /\ SettleElapsed(api.ws) /\ ends' = ends + machine
        /\ GivenUp(api.ws)
    BY StoppedRow DEF Calm, Marks
  <1>3. Calm /\ RowAgrees /\ PartialsAgree /\ Books /\ api.ws.state = "stopping"
    BY <1>1, <1>2, CalmHolds DEF IInv, Timely, HandlerAgrees
  <1>4. row'.state = "off"
    BY <1>3, <1>2 DEF GivenUp
  <1>5. RowAgrees'
    BY <1>1, <1>2, <1>4 DEF RowAgrees, Idle
  <1>6. \A c \in ledger' : c.kind = "partial" => c \in ledger \/ Ends(c.key)
    BY <1>1, <1>2, EndsOfElapsed
  <1>7. PartialsAgree'
    BY <1>1, <1>2, <1>3, <1>6, PartialsKept
  <1>8. Owes(0)'
    <2>1. Running => (api.ws.period = row.period /\ api.ws.size = row.size) \/ now - row.period <= Lag
      BY <1>1, <1>3 DEF Running, HandlerKnows, RowAgrees
    <2> QED
      BY <1>1, <1>2, <1>3, <2>1, RunEnds
  <1> QED
    BY <1>2, <1>5, <1>7, <1>8 DEF CalmInv, Books, Square

LEMMA ResizeCalm == ASSUME IInv, Resize, Ordered', Calm' PROVE CalmInv'
  <1>1. /\ UNCHANGED <<now, row, machine, ran, wk, mishaps, faults>> /\ api = Idle /\ row.state = "on"
        /\ api'.pc = "resize" /\ api'.ws = row /\ SettleElapsed(row) /\ ends' = ends + machine
    BY DEF Resize
  <1>2. Calm /\ RowAgrees /\ PartialsAgree /\ Books /\ row \in Copies
    BY <1>1, CalmHolds DEF Copies
  <1>3. RowAgrees'
    BY <1>1, <1>2 DEF RowAgrees
  <1>4. \A c \in ledger' : c.kind = "partial" => c \in ledger \/ Ends(c.key)
    BY <1>1, <1>2, EndsOfElapsed
  <1>5. PartialsAgree'
    BY <1>1, <1>2, <1>4, PartialsKept
  <1>6. Owes(0)'
    BY <1>1, <1>2, RunEnds
  <1> QED
    BY <1>1, <1>3, <1>5, <1>6 DEF CalmInv, Books, Square

LEMMA ResizeEndsCalm == ASSUME IInv, ResizeEnds, Ordered', Calm' PROVE CalmInv'
  <1>1. UNCHANGED <<now, ledger, paid, ran, ends, wk, requests>> /\ api' = Idle /\ api.pc = "resize" /\ api # Idle
    BY DEF ResizeEnds, Idle
  <1>2. /\ row' \in Row /\ mishaps \subseteq mishaps' /\ machine' = (IF machine = 0 THEN 0 ELSE api.size)
        /\ row'.period = now /\ row'.size = api.size /\ row'.state = row.state
    BY ResizedRow DEF Calm, Marks
  <1>3. Calm /\ RowAgrees /\ PartialsAgree /\ Books /\ now \in Nat /\ api.size # 0
    BY <1>1, <1>2, CalmHolds, NowType, HandlerType, SettlementAssumption DEF IInv
  <1>4. RowAgrees'
    BY <1>1, <1>2, <1>3 DEF RowAgrees, Idle, NoPeriod
  <1>5. PartialsAgree'
    BY <1>1, <1>2, <1>3, PartialsKept
  <1>6. Owes(0)'
    BY <1>1, <1>3, OwesSame DEF Books, Square, Running
  <1>7. machine # 0 => Running'
    <2>1. machine # 0 => row'.state \in {"on", "stopping"} /\ machine' = row'.size /\ machine' # 0
      BY <1>1, <1>2, <1>3 DEF RowAgrees
    <2> QED
      BY <1>1, <1>2, <1>6, <2>1, NewRun DEF Idle
  <1> QED
    BY <1>2, <1>4, <1>5, <1>6, <1>7 DEF CalmInv, Books, Square

LEMMA ResizeStoppedCalm == ASSUME IInv, ResizeStopped, Ordered', Calm' PROVE CalmInv'
  <1>1. /\ UNCHANGED <<now, machine, ledger, paid, ran, ends, api, wk, faults>> /\ row.state # "on"
        /\ Note(IF api = Idle THEN {} ELSE {"overlap"})
    BY DEF ResizeStopped
  <1>2. api = Idle /\ mishaps \subseteq mishaps'
    BY <1>1 DEF Note, Calm
  <1>3. Calm /\ RowAgrees /\ PartialsAgree /\ Books /\ row \in Row
    BY <1>2, CalmHolds DEF IInv, TypeOK
  <1>4. row'.state = row.state /\ row'.period = row.period
    BY <1>3 DEF ResizeStopped, Row
  <1>5. RowAgrees'
    BY <1>1, <1>2, <1>3, <1>4 DEF RowAgrees, Idle
  <1>6. PartialsAgree'
    BY <1>1, <1>3, <1>4, PartialsKept
  <1>7. Square
    BY <1>1, <1>2, <1>3 DEF Books, Running, RowAgrees, Idle
  <1> QED
    BY <1>1, <1>4, <1>5, <1>6, <1>7, OwesSame DEF CalmInv, Books, Square

LEMMA ResetCalm == ASSUME IInv, Reset, Ordered', Calm' PROVE CalmInv'
  <1>1. /\ UNCHANGED <<now, machine, ran, api, wk>> /\ api = Idle /\ ends' = ends + machine
        /\ row.state \in {"on", "off", "error"}
        /\ IF row.state = "on" THEN SettleElapsed(row) ELSE UNCHANGED <<ledger, paid>>
    BY DEF Reset
  <1>2. row' = [row EXCEPT !.state = "resetting"] /\ mishaps' = mishaps
    BY DEF Reset, Fault, Note, NoFault, Calm
  <1>3. Calm /\ RowAgrees /\ PartialsAgree /\ Books /\ row \in Copies /\ row \in Row /\ TypeOK
    BY <1>2, CalmHolds DEF Copies, IInv, TypeOK
  <1>4. row'.state = "resetting" /\ row'.period = row.period /\ row'.size = row.size
    BY <1>2, <1>3 DEF Row
  <1>5. RowAgrees'
    BY <1>1, <1>3, <1>4 DEF RowAgrees, Idle
  <1>6. \A c \in ledger' : c.kind = "partial" => c \in ledger \/ Ends(c.key)
    BY <1>1, <1>3, EndsOfElapsed
  <1>7. PartialsAgree'
    BY <1>1, <1>3, <1>4, <1>6, PartialsKept
  <1>8. Owes(0)'
    <2>1. CASE row.state = "on"
      BY <1>1, <1>3, <2>1, RunEnds
    <2>2. CASE row.state # "on"
      <3>1. machine = 0 /\ Owes(0) /\ UNCHANGED <<ran, paid>>
        BY <1>1, <1>3, <2>2 DEF RowAgrees, Books, Square, Running
      <3>2. ends' = ends
        BY <1>1, <1>3, <3>1 DEF TypeOK
      <3> QED
        BY <3>1, <3>2, OwesSame
    <2> QED
      BY <2>1, <2>2
  <1> QED
    BY <1>4, <1>5, <1>7, <1>8 DEF CalmInv, Books, Square

LEMMA LoadCalm ==
    ASSUME IInv, NEW pass \in {"settle", "stop"}, Load(pass), Ordered', Calm'
    PROVE  CalmInv'
  <1>1. /\ UNCHANGED <<now, row, machine, ledger, paid, ran, ends, api, mishaps, faults>>
        /\ wk'.pc = pass /\ wk'.ws = row /\ (pass = "settle" => HourDue(row)) /\ (pass = "stop" => row.state = "on")
    BY DEF Load
  <1>2. Calm /\ RowAgrees /\ PartialsAgree /\ Books /\ row \in Row /\ TypeOK /\ HandlerAgrees /\ InTime(row.period)
    BY <1>1, CalmHolds DEF IInv, TypeOK, Timely, PeriodsInTime, Copies
  <1>3. RowAgrees'
    BY <1>1, <1>2 DEF RowAgrees
  <1>4. ASSUME pass = "settle", row.period # NoPeriod
        PROVE  Partials(HourFloor(now)) /\ Low(row.period) /\ (api.pc = "off" => Low(api.ws.period))
    <2>1. HourFloor(row.period) + HourLen = HourFloor(now) /\ row.period < HourFloor(now)
      BY <1>1, <1>2, <1>4, DueHour
    <2>2. HourFloor(row.period) # HourFloor(now)
      <3>1. HourFloor(now) \in Nat /\ HourFloor(row.period) \in Nat
        BY <1>2, <1>4, NowType, PeriodType, HourOf, Bounds
      <3> QED
        BY <2>1, <3>1, Bounds
    <2>3. api.pc = "off" => row.period = api.ws.period
      BY <1>2, <1>4, <2>2 DEF HandlerAgrees
    <2> QED
      BY <1>2, <1>4, <2>1, <2>3 DEF PartialsAgree, Low
  <1>5. HourFloor(now)' = HourFloor(now) /\ HourFloor(row.period)' = HourFloor(row.period)
    BY <1>1 DEF HourFloor
  <1>6. PartialsAgree'
    BY <1>1, <1>2, <1>4, <1>5 DEF PartialsAgree, Partials, Low
  <1>7. ASSUME Square PROVE Books'
    BY <1>1, <1>7, OwesSame DEF Books, Square
  <1>8. ASSUME Running PROVE Books'
    <2>1. row.state = "on"
      BY <1>1, <1>2, <1>8 DEF Running, HourDue
    <2>2. PassKnows' /\ HandlerKnows'
      BY <1>1, <1>8, <2>1 DEF Running, PassKnows, HandlerKnows
    <2> QED
      BY <1>1, <1>8, <2>2, RunGoesOn DEF Books, Running
  <1> QED
    <2>1. Square \/ Running
      BY <1>2 DEF Books
    <2> QED
      BY <2>1, <1>3, <1>6, <1>7, <1>8 DEF CalmInv

\* What is owed after the hour of a copy of the run is posted.
LEMMA HourPaid ==
    ASSUME IInv, Running, now' = now, ran' = ran, NEW ws \in Copies, HourDue(ws), ws.period # NoPeriod,
           Post("hour", Start(ws), HourLen, IF ws.state = "on" THEN ws.size ELSE 0),
           row.period = now \/ (ws.state = "on" /\ ws.period = row.period /\ ws.size = row.size)
    PROVE  Owes((paid' - paid) + machine * (now - HourFloor(now)))
  <1>1. /\ TypeOK /\ ws \in Row /\ InTime(ws.period)
        /\ paid' \in Nat /\ paid <= paid'
        /\ Free("hour", Start(ws)) /\ ws.state = "on" => paid' = paid + HourLen * ws.size
    BY CopiesType, HourPosted DEF IInv, Timely, PeriodsInTime
  <1>2. PICK m \in Nat, t \in Nat, f \in Nat, x \in Nat, y \in Nat, e \in Nat, r \in Nat :
            /\ m = machine /\ t = now /\ f = HourFloor(now) /\ x = paid /\ y = paid' /\ e = Lag * ends /\ r = ran
    <2>1. /\ machine \in Nat /\ now \in Nat /\ HourFloor(now) \in Nat /\ paid \in Nat /\ paid' \in Nat
          /\ Lag * ends \in Nat /\ ran \in Nat
      BY <1>1, NowType, HourOf, LagOfEnds DEF TypeOK
    <2> QED
      BY <2>1
  <1>3. f <= t /\ x <= y
    BY <1>1, <1>2, NowType, HourOf
  <1>4. PICK a \in Nat : a = t - f
    BY <1>3
  <1>5. m * a \in Nat
    BY <1>4, Multiples
  <1>6. CASE row.period = now
    <2>1. ~OwesRest(machine, row.period)
      <3>1. ~(HourFloor(now) + HourLen <= now)
        BY <1>1, NowType, HourOf, Bounds
      <3> QED
        BY <1>6, <3>1 DEF OwesRest
    <2>2. Owes(m * (t - t))
      BY <1>2, <1>6, <2>1 DEF Running, OwesAll
    <2>3. m * (t - t) = 0
      OBVIOUS
    <2>4. r <= x + e + 0
      BY <1>2, <2>2, <2>3 DEF Owes
    <2>5. r <= x + e + ((y - x) + m * a)
      BY <1>3, <1>5, <2>4
    <2> QED
      BY <1>2, <1>4, <2>5 DEF Owes
  <1>7. CASE ws.state = "on" /\ ws.period = row.period /\ ws.size = row.size
    <2>1. PICK p \in Nat, h \in Nat : p = row.period /\ h = HourFloor(p) /\ h <= p
      <3>1. row.period \in Nat
        BY <1>1, <1>7, PeriodType, Bounds
      <3> QED
        BY <3>1, HourOf
    <2>2. Start(ws) = h /\ h + HourLen = f /\ p < f /\ HourLen \in Nat
      BY <1>1, <1>2, <1>7, <2>1, DueHour, Bounds
    <2>3. CASE OwesRest(machine, row.period)
      <3>1. Owes(m * (t - f))
        BY <1>2, <2>1, <2>2, <2>3 DEF OwesRest
      <3>2. r <= x + e + m * a
        BY <1>2, <1>4, <3>1 DEF Owes
      <3>3. r <= x + e + ((y - x) + m * a)
        BY <1>3, <1>5, <3>2
      <3> QED
        BY <1>2, <1>4, <3>3 DEF Owes
    <2>4. CASE OwesAll(machine, row.period)
      <3>1. Free("hour", h)
        BY <2>1, <2>4 DEF OwesAll, Unpaid, Free
      <3>2. y = x + HourLen * m
        BY <1>1, <1>2, <1>7, <2>2, <3>1 DEF Running
      <3>3. PICK b \in Nat : b = t - p
        BY <1>3, <2>2
      <3>4. r <= x + e + m * b
        BY <1>2, <2>1, <2>4, <3>3 DEF OwesAll, Owes
      <3>5. b <= HourLen + a
        BY <1>4, <2>1, <2>2, <3>3
      <3>6. m * b \in Nat /\ m * b <= m * (HourLen + a) /\ m * (HourLen + a) = m * HourLen + m * a
            /\ m * HourLen = HourLen * m /\ m * HourLen \in Nat
        BY <2>2, <3>5, Multiples
      <3>7. r <= x + e + ((y - x) + m * a)
        BY <1>5, <3>2, <3>4, <3>6
      <3> QED
        BY <1>2, <1>4, <3>7 DEF Owes
    <2> QED
      BY <2>3, <2>4 DEF Running
  <1> QED
    BY <1>6, <1>7

\* A run paid up to this hour, and a row that says so.
LEMMA HourBegins ==
    ASSUME IInv, Ordered', UNCHANGED <<now, ran, ends, machine>>, row'.period = HourFloor(now),
           Owes((paid' - paid) + machine * (now - HourFloor(now)))
    PROVE  OwesAll(machine, row.period)'
  <1>1. TypeOK /\ now \in Nat /\ HourFloor(now) \in Nat /\ HourFloor(now) <= now /\ now < HourFloor(now) + HourLen
        /\ HourFloor(HourFloor(now)) = HourFloor(now) /\ HourLen \in Nat
    BY NowType, HourOf, Bounds DEF IInv, Whole
  <1>2. Unpaid(row.period)'
    <2>1. ASSUME NEW c \in ledger', c.kind = "hour" PROVE c.key # HourFloor(now)
      <3>1. c.key + HourLen <= now /\ c.key \in Nat
        BY <2>1, <1>1, Bounds DEF Ordered, Timely, KeysPast, TypeOK, Charge
      <3> QED
        BY <1>1, <3>1
    <2>2. HourFloor(row.period)' = HourFloor(now)
      BY <1>1 DEF HourFloor
    <2> QED
      BY <2>1, <2>2 DEF Unpaid
  <1>3. Owes(machine * (now - row.period))'
    <2>1. /\ machine \in Nat /\ paid \in Nat /\ paid' \in Nat /\ Lag * ends \in Nat /\ ran \in Nat
          /\ now - HourFloor(now) \in Nat
      BY <1>1, LagOfEnds DEF TypeOK, Ordered
    <2>2. PICK a \in Nat, x \in Nat, y \in Nat, e \in Nat, r \in Nat, m \in Nat :
              a = now - HourFloor(now) /\ x = paid /\ y = paid' /\ e = Lag * ends /\ r = ran /\ m = machine
      BY <2>1
    <2>3. m * a \in Nat
      BY Multiples
    <2>4. r <= x + e + ((y - x) + m * a)
      BY <2>2 DEF Owes
    <2>5. r <= y + e + m * a
      BY <2>3, <2>4
    <2>6. ran' = r /\ paid' = y /\ Lag * ends' = e /\ machine' * (now' - row'.period) = m * a
      BY <2>2
    <2> QED
      BY <2>5, <2>6 DEF Owes
  <1> QED
    BY <1>2, <1>3 DEF OwesAll

\* A copy with a period of an hour due was loaded before a part of this one was charged.
LEMMA SettleCalm == ASSUME IInv, Settle, Ordered', Calm' PROVE CalmInv'
  <1> DEFINE ws == wk.ws
  <1>1. UNCHANGED <<now, ran, api, requests>> /\ wk' = Idle /\ wk # Idle /\ wk.pc = "settle"
    BY DEF Settle, Idle
  <1>2. /\ ws \in Row /\ ws \in Copies /\ InTime(ws.period) /\ HourDue(ws)
        /\ Post("hour", Start(ws), HourLen, IF ws.state = "on" THEN ws.size ELSE 0)
        /\ row'.size = row.size /\ mishaps \subseteq mishaps'
    BY SettledRow DEF Marks
  <1>3. \/ UNCHANGED <<row, machine, ends>>
        \/ /\ row'.period = HourFloor(now)
           /\ ws.period = NoPeriod => row.period = NoPeriod
           /\ \/ row'.state = row.state /\ UNCHANGED <<machine, ends>>
              \/ ws.state = "on" /\ row'.state = "off" /\ machine' = 0 /\ ends' = ends + machine
    BY SettledRow DEF Calm
  <1> HIDE DEF ws
  <1>4. /\ Calm /\ RowAgrees /\ PartialsAgree /\ Books /\ TypeOK /\ now \in Nat
        /\ HourFloor(now) \in Nat /\ HourFloor(now)' = HourFloor(now)
    BY <1>1, <1>2, CalmHolds, NowType, HourOf DEF IInv, HourFloor
  <1>5. paid' \in Nat /\ paid <= paid' /\ Charged("hour", Start(ws))
    BY <1>1, <1>2, HourPosted
  <1>6. RowAgrees'
    BY <1>1, <1>2, <1>3, <1>4 DEF RowAgrees, NoPeriod
  <1>7. PartialsAgree'
    <2>1. \A c \in ledger' : c.kind = "partial" => c \in ledger \/ Ends(c.key)
      BY <1>5 DEF Charged
    <2>2. row'.period \in {row.period, NoPeriod, now} \/ (wk' = Idle /\ row'.period = HourFloor(now))
      BY <1>1, <1>3
    <2> QED
      BY <1>1, <1>4, <2>1, <2>2, PartialsKept
  <1>8. ASSUME Square PROVE Books'
    <2>1. Owes(0)'
      <3>1. ends' = ends \/ ends' = ends + machine
        BY <1>3
      <3>2. 0 <= machine * Lag
        BY <1>4, LagOfEnds, Bounds, Multiples
      <3> QED
        BY <1>1, <1>4, <1>5, <1>8, <3>1, <3>2, OwesLess, WithinLag DEF Square
    <2> QED
      BY <1>1, <1>3, <1>8, <2>1 DEF Books, Square
  <1>9. ASSUME Running PROVE Books'
    <2>1. row.period # NoPeriod /\ (row.period = now \/ (ws.state = "on" /\ ws.period = row.period /\ ws.size = row.size))
      BY <1>1, <1>4, <1>9 DEF Running, RowAgrees, PassKnows, ws
    <2>2. ASSUME ws.period # NoPeriod
          PROVE  Owes((paid' - paid) + machine * (now - HourFloor(now)))
      BY <1>1, <1>2, <1>9, <2>1, <2>2, HourPaid
    <2>3. ASSUME ws.period # NoPeriod
          PROVE  now - HourFloor(now) <= Lag /\ Partials(HourFloor(now))
      <3>1. wk.ws.period # NoPeriod
        BY <2>3 DEF ws
      <3> QED
        BY <1>1, <1>2, <1>4, <2>3, <3>1, DueHour DEF PartialsAgree
    <2>4. CASE UNCHANGED <<row, machine, ends>>
      <3>1. ASSUME row.period = now PROVE Running'
        <4>1. ~OwesRest(machine, row.period)
          <5>1. ~(HourFloor(now) + HourLen <= now)
            BY <1>4, HourOf, Bounds
          <5> QED
            BY <3>1, <5>1 DEF OwesRest
        <4>2. Owes(machine * (now - now))
          BY <1>9, <3>1, <4>1 DEF Running, OwesAll
        <4>3. machine * (now - now) = 0
          <5>1. PICK m \in Nat, t \in Nat : m = machine /\ t = now
            BY <1>4, LagOfEnds
          <5>2. m * (t - t) = 0
            OBVIOUS
          <5> QED
            BY <5>1, <5>2
        <4>4. Owes(0)
          BY <4>2, <4>3
        <4>5. Owes(0)'
          BY <1>1, <1>4, <1>5, <2>4, <4>4, OwesLess
        <4> QED
          BY <1>1, <1>9, <2>4, <3>1, <4>5, NewRun DEF Running
      <3>2. ASSUME ws.state = "on", ws.period = row.period PROVE Running'
        <4>1. HourFloor(row.period) + HourLen = HourFloor(now) /\ HourFloor(now) <= now
          BY <1>2, <1>4, <2>1, <3>2, DueHour, HourOf
        <4>2. HourFloor(row.period)' = HourFloor(row.period)
          BY <1>1, <2>4 DEF HourFloor
        <4>3. OwesRest(machine, row.period)'
          <5>1. Owes((paid' - paid) + machine * (now - HourFloor(now)))
            BY <2>1, <2>2, <3>2
          <5>2. Owes(machine * (now - HourFloor(now)))'
            <6>1. /\ machine \in Nat /\ paid \in Nat /\ Lag * ends \in Nat /\ ran \in Nat
                  /\ now - HourFloor(now) \in Nat
              BY <1>4, <4>1, LagOfEnds DEF TypeOK
            <6>2. PICK a \in Nat, x \in Nat, y \in Nat, e \in Nat, r \in Nat, m \in Nat :
                      a = now - HourFloor(now) /\ x = paid /\ y = paid' /\ e = Lag * ends /\ r = ran /\ m = machine
              BY <1>5, <6>1
            <6>3. m * a \in Nat
              BY Multiples
            <6>4. r <= x + e + ((y - x) + m * a)
              BY <5>1, <6>2 DEF Owes
            <6>5. r <= y + e + m * a
              BY <6>3, <6>4
            <6>6. ran' = r /\ paid' = y /\ Lag * ends' = e /\ machine' * (now' - HourFloor(now)') = m * a
              BY <1>1, <1>4, <2>4, <6>2
            <6> QED
              BY <6>5, <6>6 DEF Owes
          <5> QED
            BY <1>1, <4>1, <4>2, <5>2, <1>4 DEF OwesRest
        <4>4. Partials(row.period)'
          BY <1>5, <1>9, <2>4 DEF Running, Partials, Charged
        <4>5. PassKnows' /\ HandlerKnows'
          BY <1>1, <1>9, <2>4 DEF Running, PassKnows, HandlerKnows
        <4> QED
          BY <1>1, <1>9, <2>4, <4>3, <4>4, <4>5 DEF Running
      <3> QED
        BY <2>1, <3>1, <3>2 DEF Books
    <2>5. CASE row'.period = HourFloor(now) /\ ws.period # NoPeriod
               /\ row'.state = row.state /\ UNCHANGED <<machine, ends>>
      <3>1. OwesAll(machine, row.period)'
        BY <1>1, <2>2, <2>5, HourBegins
      <3>2. Partials(row.period)'
        BY <1>5, <2>3, <2>5 DEF Partials, Charged
      <3>3. PassKnows' /\ HandlerKnows'
        BY <1>1, <2>3, <2>5 DEF PassKnows, HandlerKnows
      <3> QED
        BY <1>1, <1>2, <1>9, <2>5, <3>1, <3>2, <3>3 DEF Running, Books
    <2>6. CASE ws.period # NoPeriod /\ row'.state = "off" /\ machine' = 0 /\ ends' = ends + machine
      <3>1. PICK a \in Nat, f \in Nat, m \in Nat, l \in Nat, x \in Nat, y \in Nat :
                /\ a = now - HourFloor(now) /\ f = Lag * machine /\ m = machine /\ l = Lag
                /\ x = paid /\ y = paid'
        <4>1. /\ now - HourFloor(now) \in Nat /\ Lag * machine \in Nat /\ machine \in Nat /\ Lag \in Nat
              /\ paid \in Nat
          BY <1>4, LagOfEnds, HourOf, Bounds DEF TypeOK
        <4> QED
          BY <1>5, <4>1
      <3>2. m * a <= m * l /\ m * a \in Nat /\ f = m * l
        <4>1. a <= l
          BY <2>3, <2>6, <3>1
        <4>2. f = l * m
          BY <3>1
        <4> QED
          BY <4>1, <4>2, Multiples
      <3>3. PICK n \in Int : n = (y - x) + m * a
        BY <3>2
      <3>4. n <= f + (y - x)
        BY <3>1, <3>2, <3>3
      <3>5. Owes(n)
        BY <2>2, <2>6, <3>1, <3>3
      <3>6. n <= Lag * machine + (paid' - paid)
        BY <3>1, <3>4
      <3>7. Owes(0)'
        BY <1>1, <1>4, <1>5, <2>6, <3>5, <3>6, OwesForgiven
      <3> QED
        BY <2>6, <3>7 DEF Books, Square
    <2> QED
      BY <1>3, <2>1, <2>4, <2>5, <2>6
  <1> QED
    BY <1>4, <1>6, <1>7, <1>8, <1>9 DEF CalmInv, Books

LEMMA StopRunCalm == ASSUME IInv, StopRun, Ordered', Calm' PROVE CalmInv'
  <1>1. UNCHANGED <<now, ran, api, requests>> /\ wk' = Idle /\ wk # Idle /\ wk.pc = "stop"
    BY DEF StopRun, Idle
  <1>2. /\ row'.size = row.size /\ row'.period \in {row.period, NoPeriod} /\ mishaps \subseteq mishaps'
        /\ wk.ws \in Copies /\ machine' = 0 /\ SettleElapsed(wk.ws) /\ ends' = ends + machine
        /\ GivenUp(wk.ws)
    BY StopRunRow DEF Calm, Marks
  <1>3. Calm /\ RowAgrees /\ PartialsAgree /\ Books /\ wk.ws.state = "on" /\ now \in Nat
    BY <1>1, <1>2, CalmHolds, NowType DEF IInv, Timely, PassAgrees
  <1>4. row'.state = "off"
    BY <1>3, <1>2 DEF GivenUp
  <1>5. RowAgrees'
    BY <1>1, <1>2, <1>3, <1>4 DEF RowAgrees
  <1>6. \A c \in ledger' : c.kind = "partial" => c \in ledger \/ Ends(c.key)
    BY <1>1, <1>2, EndsOfElapsed
  <1>7. PartialsAgree'
    BY <1>1, <1>2, <1>3, <1>6, PartialsKept
  <1>8. Owes(0)'
    <2>1. Running => (wk.ws.period = row.period /\ wk.ws.size = row.size) \/ now - row.period <= Lag
      BY <1>1, <1>3, Bounds DEF Running, PassKnows
    <2> QED
      BY <1>1, <1>2, <1>3, <2>1, RunEnds
  <1> QED
    BY <1>2, <1>5, <1>7, <1>8 DEF CalmInv, Books, Square

LEMMA RebuiltCalm == ASSUME IInv, Rebuilt, Ordered', Calm' PROVE CalmInv'
  <1>1. UNCHANGED <<now, ledger, paid, ran, ends, api, wk, requests>> /\ row.state = "resetting"
    BY DEF Rebuilt
  <1>2. machine' = 0 /\ row' = [row EXCEPT !.state = "off", !.period = NoPeriod] /\ mishaps' = mishaps
    BY DEF Rebuilt, Fault, Note, NoFault, Calm
  <1>3. Calm /\ RowAgrees /\ PartialsAgree /\ Books /\ row \in Row
    BY <1>2, CalmHolds DEF IInv, TypeOK
  <1>4. row'.state = "off" /\ row'.period = NoPeriod /\ row'.size = row.size
    BY <1>2, <1>3 DEF Row
  <1>5. RowAgrees'
    BY <1>1, <1>2, <1>3, <1>4 DEF RowAgrees
  <1>6. PartialsAgree'
    BY <1>1, <1>3, <1>4, PartialsKept
  <1> QED
    BY <1>1, <1>2, <1>3, <1>5, <1>6, OwesSame DEF CalmInv, Books, Square, Running

LEMMA AdoptCalm == ASSUME IInv, Adopt, Ordered', Calm' PROVE CalmInv'
  <1>1. /\ UNCHANGED <<now, machine, ledger, paid, ran, ends, api, wk, requests, mishaps, faults>>
        /\ row.state \in {"error", "starting", "stopping"} /\ wk = Idle
    BY DEF Adopt
  <1>2. Calm /\ RowAgrees /\ PartialsAgree /\ Books
    BY <1>1, CalmHolds
  <1>3. /\ row'.size = row.size
        /\ machine = 0 => row'.state = "off" /\ row'.period = NoPeriod
        /\ machine # 0 => row'.state = "on" /\ row'.period = row.period
    BY <1>2, AdoptedRow DEF RowAgrees
  <1>4. RowAgrees'
    BY <1>1, <1>2, <1>3 DEF RowAgrees
  <1>5. PartialsAgree'
    BY <1>1, <1>2, <1>3, PartialsKept
  <1>6. ASSUME Square PROVE Books'
    BY <1>1, <1>2, <1>6, OwesSame DEF Books, Square, RowAgrees
  <1>7. ASSUME Running PROVE Books'
    <2>1. PassKnows' /\ HandlerKnows'
      BY <1>1, <1>3, <1>7 DEF Running, PassKnows, HandlerKnows
    <2> QED
      BY <1>1, <1>3, <1>7, <2>1, RunGoesOn DEF Books, Running
  <1> QED
    <2>1. Square \/ Running
      BY <1>2 DEF Books
    <2> QED
      BY <2>1, <1>4, <1>5, <1>6, <1>7 DEF CalmInv

\* These do not happen while row and machine agree, or are not calm.
LEMMA OthersCalm ==
    ASSUME IInv, Archive \/ StopStray \/ Restore \/ Reboot, Calm'
    PROVE  FALSE
  <1>1. mishaps \subseteq mishaps'
    BY DEF Archive, StopStray, Restore, Reboot, Fault, Note
  <1>2. RowAgrees
    BY <1>1, CalmBefore DEF IInv, CalmInv
  <1> QED
    BY <1>2 DEF Archive, StopStray, Restore, Reboot, Fault, Note, Calm, RowAgrees

LEMMA TickCalm == ASSUME IInv, Punctual, Tick, Ordered', Calm' PROVE CalmInv'
  <1>1. /\ now' = now + 1 /\ ran' = ran + machine /\ api = Idle /\ wk = Idle
        /\ row.state \in {"on", "off"} /\ (row.state = "on" => machine # 0)
        /\ UNCHANGED <<row, machine, ledger, paid, ends, api, wk, requests, faults>>
        /\ mishaps \subseteq mishaps'
    BY QuietTick
  <1>2. Calm /\ RowAgrees /\ PartialsAgree /\ Books /\ TypeOK /\ now \in Nat /\ InTime(row.period) /\ row \in Row
    BY <1>1, CalmHolds, NowType DEF IInv, TypeOK, Timely, PeriodsInTime, Copies
  <1>3. RowAgrees'
    BY <1>1, <1>2 DEF RowAgrees
  <1>4. PartialsAgree'
    BY <1>1, <1>2 DEF PartialsAgree, Partials, HourFloor, Idle
  <1>5. ASSUME Square PROVE Books'
    <2>1. machine = 0 /\ ran \in Nat
      BY <1>1, <1>2, <1>5 DEF Square, Idle, TypeOK
    <2>2. ran' = ran
      BY <1>1, <2>1
    <2> QED
      BY <1>1, <1>5, <2>1, <2>2, OwesSame DEF Books, Square
  <1>6. ASSUME NEW s \in Nat, s <= now, Owes(machine * (now - s))
        PROVE  Owes(machine * (now - s))'
    <2>1. /\ machine \in Nat /\ paid \in Nat /\ Lag * ends \in Nat /\ ran \in Nat /\ now - s \in Nat
      BY <1>2, <1>6, LagOfEnds DEF TypeOK
    <2>2. PICK a \in Nat, x \in Nat, e \in Nat, r \in Nat, m \in Nat :
              a = now - s /\ x = paid /\ e = Lag * ends /\ r = ran /\ m = machine
      BY <2>1
    <2>3. m * a \in Nat /\ m * (a + 1) = m * a + m
      BY Multiples
    <2>4. r <= x + e + m * a
      BY <1>6, <2>2 DEF Owes
    <2>5. r + m <= x + e + m * (a + 1)
      BY <2>3, <2>4
    <2>6. ran' = r + m /\ paid' = x /\ Lag * ends' = e /\ now' - s = a + 1 /\ machine' = m
      BY <1>1, <1>2, <2>2
    <2> QED
      BY <2>5, <2>6 DEF Owes
  <1>7. ASSUME Running PROVE Running'
    <2>1. PICK p \in Nat : p = row.period /\ p <= now /\ HourFloor(p) + HourLen \in Nat
      <3>1. row.period \in Nat /\ row.period <= now
        BY <1>2, <1>7, PeriodType, Bounds DEF Running, RowAgrees, InTime
      <3> QED
        BY <3>1, HourOf, Bounds
    <2>2. Partials(row.period)' /\ (Unpaid(row.period) => Unpaid(row.period)') /\ HourFloor(p)' = HourFloor(p)
      BY <1>1, <1>7 DEF Running, Partials, Unpaid, HourFloor
    <2>3. OwesAll(machine, row.period) => OwesAll(machine, row.period)'
      <3>1. Owes(machine * (now - p)) => Owes(machine * (now - p))'
        BY <1>6, <2>1
      <3> QED
        BY <1>1, <2>1, <2>2, <3>1 DEF OwesAll
    <2>4. OwesRest(machine, row.period) => OwesRest(machine, row.period)'
      <3>1. PICK due \in Nat : due = HourFloor(p) + HourLen
        BY <2>1
      <3>2. due <= now /\ Owes(machine * (now - due)) => due <= now' /\ Owes(machine * (now - due))'
        BY <1>1, <1>2, <1>6
      <3>3. HourFloor(row.period) = HourFloor(p) /\ HourFloor(row.period)' = HourFloor(p)
        BY <1>1, <2>1 DEF HourFloor
      <3> QED
        BY <3>1, <3>2, <3>3 DEF OwesRest
    <2>5. PassKnows' /\ HandlerKnows'
      BY <1>1 DEF PassKnows, HandlerKnows, Idle
    <2> QED
      BY <1>1, <1>7, <2>2, <2>3, <2>4, <2>5 DEF Running
  <1> QED
    BY <1>2, <1>3, <1>4, <1>5, <1>7 DEF CalmInv, Books

-----------------------------------------------------------------------------
LEMMA InitInv == Init => IInv
  <1> SUFFICES ASSUME Init PROVE IInv
    OBVIOUS
  <1>1. /\ now = 0 /\ row \in Row /\ row.state = "off" /\ row.period = NoPeriod /\ machine = 0
        /\ ledger = {} /\ paid = 0 /\ ran = 0 /\ ends = 0 /\ api = Idle /\ wk = Idle /\ mishaps = {}
        /\ requests = 0 /\ faults = 0
    BY DEF Init, Row, States
  <1>2. TypeOK
    BY <1>1, SettlementAssumption DEF TypeOK
  <1>3. Copies = {row}
    BY <1>1 DEF Copies
  <1>4. Timely
    BY <1>1, <1>3 DEF Timely, PeriodsInTime, InTime, KeysApart, KeysPast, HandlerAgrees, PassAgrees, Idle
  <1>5. HoursWhole
    BY <1>1, <1>3 DEF HoursWhole, Fresh
  <1>6. Owes(0)
    BY <1>1, Bounds DEF Owes
  <1>7. CalmInv
    BY <1>1, <1>6 DEF CalmInv, RowAgrees, PartialsAgree, Books, Square, Idle
  <1> QED
    BY <1>2, <1>4, <1>5, <1>7 DEF IInv

\* What is ordered, and calm where it is calm, is the invariant.
LEMMA NextOrdered == ASSUME IInv, Punctual, Next PROVE Ordered'
  <1>1. ASSUME Handle PROVE Ordered'
    BY <1>1, PowerOnOrdered, PowerOnEndsOrdered, PowerOffOrdered, PowerOffEndsOrdered, ResizeOrdered,
       ResizeEndsOrdered, ResizeStoppedOrdered, ResetOrdered DEF Handle
  <1>2. ASSUME Work PROVE Ordered'
    BY <1>2, LoadOrdered, SettleOrdered, StopRunOrdered, RebuiltOrdered, ArchiveOrdered, AdoptOrdered,
       StopStrayOrdered, RestoreOrdered DEF Work
  <1> QED
    BY <1>1, <1>2, RebootOrdered, TickOrdered DEF Next

LEMMA NextInv == ASSUME IInv, Punctual, [Next]_vars PROVE IInv'
  <1>1. CASE Next
    <2>1. Ordered'
      BY <1>1, NextOrdered
    <2>2. ASSUME Calm' PROVE CalmInv'
      <3>1. ASSUME Handle PROVE CalmInv'
        BY <2>1, <2>2, <3>1, PowerOnCalm, PowerOnEndsCalm, PowerOffCalm, PowerOffEndsCalm, ResizeCalm,
           ResizeEndsCalm, ResizeStoppedCalm, ResetCalm DEF Handle
      <3>2. ASSUME Work PROVE CalmInv'
        BY <2>1, <2>2, <3>2, LoadCalm, SettleCalm, StopRunCalm, RebuiltCalm, AdoptCalm, OthersCalm DEF Work
      <3> QED
        BY <1>1, <2>1, <2>2, <3>1, <3>2, OthersCalm, TickCalm DEF Next
    <2> QED
      BY <2>1, <2>2 DEF IInv, Ordered
  <1>2. CASE UNCHANGED vars
    <2>1. /\ now' = now /\ row' = row /\ machine' = machine /\ ledger' = ledger /\ paid' = paid /\ ran' = ran
          /\ ends' = ends /\ api' = api /\ wk' = wk /\ mishaps' = mishaps
          /\ requests' = requests /\ faults' = faults
      BY <1>2 DEF vars
    <2>2. Copies' = Copies /\ HourFloor(now)' = HourFloor(now)
      BY <2>1 DEF Copies, HourFloor
    <2>3. TypeOK' /\ Timely' /\ (Prompt => HoursWhole)'
      BY <2>1, <2>2 DEF IInv, TypeOK, Timely, PeriodsInTime, InTime, KeysApart, KeysPast, HandlerAgrees,
         PassAgrees, Prompt, HoursWhole, Whole, Fresh, HourFloor, HourDue, Start
    <2>4. (Calm => CalmInv)'
      <3>1. Calm' => Calm
        BY <2>1 DEF Calm
      <3>2. RowAgrees => RowAgrees'
        BY <2>1 DEF RowAgrees
      <3>3. PartialsAgree => PartialsAgree'
        BY <2>1 DEF PartialsAgree, Partials, Low, HourFloor
      <3>4. Square => Square'
        BY <2>1 DEF Square, Owes
      <3>5. Running => Running'
        <4>1. ASSUME Running PROVE PassKnows' /\ HandlerKnows'
          BY <2>1, <4>1 DEF Running, PassKnows, HandlerKnows
        <4> QED
          BY <2>1, <4>1, RunGoesOn DEF Running
      <3> QED
        BY <3>1, <3>2, <3>3, <3>4, <3>5 DEF IInv, CalmInv, Books
    <2> QED
      BY <2>3, <2>4 DEF IInv
  <1> QED
    BY <1>1, <1>2

LEMMA Invariance == ASSUME Punctual PROVE Spec => []IInv
  <1>1. IInv /\ [Next]_vars => IInv'
    BY NextInv
  <1> QED
    BY <1>1, InitInv, PTL DEF Spec

\* Of two charges of an hour that begin in the same hour, there is one: both keys are
\* that hour's beginning (Start(ws), settle_once; period_start, settle_elapsed).
LEMMA HoursFromInv == ASSUME IInv PROVE PromptHoursChargedOnce
  <1>1. SUFFICES ASSUME Prompt, NEW c \in ledger, NEW d \in ledger, c.kind = "hour", d.kind = "hour",
                        HourFloor(c.key) = HourFloor(d.key)
                 PROVE  c = d
    BY DEF PromptHoursChargedOnce, HoursChargedOnce, Prompt
  <1>2. Whole(c.key) /\ Whole(d.key)
    BY <1>1 DEF IInv, HoursWhole
  <1> QED
    BY <1>1, <1>2 DEF IInv, Timely, KeysApart, Whole

LEMMA BilledFromInv == ASSUME IInv PROVE OrderlyRunsAreBilled
  <1>1. SUFFICES ASSUME Calm, Ended PROVE paid + ends * Lag >= ran
    BY DEF OrderlyRunsAreBilled, RunsAreBilled, Calm
  <1>2. Owes(0)
    BY <1>1 DEF IInv, CalmInv, Books, Square, Running, Ended
  <1>3. PICK x \in Nat, e \in Nat, r \in Nat, l \in Nat : x = paid /\ e = ends /\ r = ran /\ l = Lag
    BY Bounds DEF IInv, TypeOK
  <1>4. l * e = e * l /\ e * l \in Nat
    OBVIOUS
  <1>5. r <= x + l * e + 0
    BY <1>2, <1>3 DEF Owes
  <1>6. x + e * l >= r
    BY <1>4, <1>5
  <1> QED
    BY <1>3, <1>6

\* However passes, handlers and a worker that dies between its two commits interleave,
\* no hour is charged twice as a whole hour, as long as each is settled before time
\* goes on: the unique key of transactions (settle_once, settle_elapsed).
THEOREM HoursOnce == Punctual => (Spec => []PromptHoursChargedOnce)
  <1> SUFFICES ASSUME Punctual PROVE Spec => []PromptHoursChargedOnce
    OBVIOUS
  <1>1. Spec => []IInv
    BY Invariance
  <1>2. IInv => PromptHoursChargedOnce
    BY HoursFromInv
  <1> QED
    BY <1>1, <1>2, PTL

\* Once a machine is off, what it ran has been paid but for the lag of settlement at
\* each end of a run or a size, unless Incus, the API or a reboot failed it, two
\* requests overlapped or a pass moved a new period back.
THEOREM RunsArePaid == Punctual => (Spec => []OrderlyRunsAreBilled)
  <1> SUFFICES ASSUME Punctual PROVE Spec => []OrderlyRunsAreBilled
    OBVIOUS
  <1>1. Spec => []IInv
    BY Invariance
  <1>2. IInv => OrderlyRunsAreBilled
    BY BilledFromInv
  <1> QED
    BY <1>1, <1>2, PTL

\* The clock, the row and its copies, the ledger and the histories keep their types.
THEOREM Typing == Punctual => (Spec => []TypeOK)
  <1> SUFFICES ASSUME Punctual PROVE Spec => []TypeOK
    OBVIOUS
  <1>1. Spec => []IInv
    BY Invariance
  <1>2. IInv => TypeOK
    BY DEF IInv
  <1> QED
    BY <1>1, <1>2, PTL
=============================================================================
