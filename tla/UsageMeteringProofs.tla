------------------------- MODULE UsageMeteringProofs -------------------------
(***************************************************************************)
(* What calculate_usage_hours makes of usage events, proved for every      *)
(* price, length of a month, log and sequence of calls.                    *)
(*                                                                         *)
(* The invariant MeteringInv says what the log knows: it is in the order   *)
(* of time, and as long as every event was stored and told the truth, the  *)
(* ticks the container ran are those the log has it running.  What the     *)
(* loop over the events computes is then a statement about one log, proved *)
(* by induction on its prefixes.                                           *)
(*                                                                         *)
(* That the estimate never drops compares two logs: what the meter shows   *)
(* after one event more is what one more turn of the loop makes of it.     *)
(***************************************************************************)
EXTENDS UsageMetering, NaturalsInduction, WellFoundedInduction,
        FiniteSetTheorems, SequenceTheorems, TLAPS

-----------------------------------------------------------------------------
(* Logs *)

(* A log in the order of time that ends by now.                            *)
LogUntil(l, n) ==
  /\ l \in Seq(Event)
  /\ \A i, j \in DOMAIN l : i < j => l[i].at <= l[j].at
  /\ \A i \in DOMAIN l : l[i].at <= n

(* The i-th event is the last one at time t.                               *)
InEffect(l, i, t) == l[i].at <= t /\ (i < Len(l) => t < l[i + 1].at)

(* By the log, the container runs from t to t+1.                           *)
RunsBy(l, t) == \E i \in DOMAIN l : l[i].type = "start" /\ InEffect(l, i, t)

(* Each recorded stop stopped something, each start started something.     *)
StopsStop(l) ==
  \A i \in DOMAIN l : l[i].type = "stop" => i > 1 /\ l[i - 1].type = "start"
StartsStart(l) ==
  \A i \in DOMAIN l : l[i].type = "start" => i = 1 \/ l[i - 1].type = "stop"

LastType(l, type) == l # <<>> /\ l[Len(l)].type = type

(* Months are periods of natural numbers.                                  *)
LEMMA TimeFacts ==
  /\ MonthTicks \in Nat \ {0} /\ TicksPerSecond \in Nat \ {0}
  /\ EndOfTime \in Nat
<1>1. {TicksPerSecond, SecondsPerHour, MonthTicks, Months} \subseteq Nat \ {0}
  BY MeteringAssumption
<1>2. QED BY <1>1 DEF EndOfTime

(* What it is to append an event.                                          *)
LEMMA AppendFacts ==
  ASSUME NEW l \in Seq(Event), NEW e \in Event
  PROVE  /\ l \o <<e>> \in Seq(Event)
         /\ Len(l) \in Nat /\ DOMAIN l = 1..Len(l)
         /\ Len(l \o <<e>>) = Len(l) + 1
         /\ DOMAIN (l \o <<e>>) = 1..(Len(l) + 1)
         /\ \A i \in 1..Len(l) : (l \o <<e>>)[i] = l[i]
         /\ (l \o <<e>>)[Len(l) + 1] = e
         /\ l \o <<>> = l
  OBVIOUS

(* An event is a record of a type, a time, a name and a plan.              *)
LEMMA EventFacts ==
  ASSUME NEW e \in Event
  PROVE  e.type \in {"start", "stop"} /\ e.at \in 0..EndOfTime /\ e.at \in Nat
<1>1. e.type \in {"start", "stop"} /\ e.at \in 0..EndOfTime  BY DEF Event
<1>2. QED BY <1>1, TimeFacts

(* Logs grow at their end, with events of the present.                     *)
LEMMA LogGrows ==
  ASSUME NEW n \in Nat, NEW l, LogUntil(l, n), NEW e \in Event, e.at = n
  PROVE  LogUntil(l \o <<e>>, n)
<1> DEFINE k == l \o <<e>>
<1>1. /\ k \in Seq(Event) /\ DOMAIN k = 1..(Len(l) + 1) /\ Len(l) \in Nat
      /\ DOMAIN l = 1..Len(l)
      /\ \A i \in 1..Len(l) : k[i] = l[i]
      /\ k[Len(l) + 1] = e
  BY AppendFacts DEF LogUntil
<1> HIDE DEF k
<1>2. \A i \in DOMAIN k : k[i].at <= n
  BY <1>1 DEF LogUntil
<1>3. ASSUME NEW i \in DOMAIN k, NEW j \in DOMAIN k, i < j
      PROVE  k[i].at <= k[j].at
  <2>1. CASE j = Len(l) + 1  BY <2>1, <1>1, <1>2
  <2>2. CASE j # Len(l) + 1
    <3>1. i \in DOMAIN l /\ j \in DOMAIN l  BY <2>2, <1>1, <1>3
    <3>2. k[i] = l[i] /\ k[j] = l[j]  BY <3>1, <1>1
    <3>3. QED BY <3>1, <3>2, <1>3 DEF LogUntil
  <2>3. QED BY <2>1, <2>2
<1>4. QED BY <1>1, <1>2, <1>3 DEF LogUntil, k

(* An event of the present changes nothing of the past.                    *)
LEMMA PastStays ==
  ASSUME NEW n \in Nat, NEW l, LogUntil(l, n), NEW e \in Event, e.at = n,
         NEW t \in 0..(n - 1)
  PROVE  RunsBy(l \o <<e>>, t) <=> RunsBy(l, t)
<1> DEFINE k == l \o <<e>>
<1>1. /\ DOMAIN k = 1..(Len(l) + 1) /\ Len(l) \in Nat /\ DOMAIN l = 1..Len(l)
      /\ Len(k) = Len(l) + 1
      /\ \A i \in 1..Len(l) : k[i] = l[i]
      /\ k[Len(l) + 1] = e
  BY AppendFacts DEF LogUntil
<1> HIDE DEF k
<1>2. \A i \in DOMAIN l : InEffect(k, i, t) <=> InEffect(l, i, t)
  <2>1. TAKE i \in DOMAIN l
  <2>2. k[i] = l[i] /\ i + 1 \in DOMAIN k /\ i < Len(k)  BY <1>1
  <2>3. CASE i = Len(l)
    <3>1. k[i + 1] = e /\ t < k[i + 1].at  BY <2>3, <1>1
    <3>2. QED BY <3>1, <2>2, <2>3, <1>1 DEF InEffect
  <2>4. CASE i # Len(l)
    <3>1. k[i + 1] = l[i + 1] /\ i < Len(l)  BY <2>4, <1>1
    <3>2. QED BY <3>1, <2>2 DEF InEffect
  <2>5. QED BY <2>3, <2>4
<1>3. ~InEffect(k, Len(l) + 1, t)
  BY <1>1 DEF InEffect
<1>4. \A i \in DOMAIN k : i \in DOMAIN l \/ i = Len(l) + 1
  BY <1>1
<1>5. DOMAIN l \subseteq DOMAIN k /\ \A i \in DOMAIN l : k[i] = l[i]
  BY <1>1
<1>6. RunsBy(k, t) <=> RunsBy(l, t)
  BY <1>2, <1>3, <1>4, <1>5 DEF RunsBy
<1>7. QED BY <1>6 DEF k

(* From its last event on, the log has the container in the state that     *)
(* event says.                                                             *)
LEMMA PresentIsLast ==
  ASSUME NEW n \in Nat, NEW l, LogUntil(l, n)
  PROVE  RunsBy(l, n) <=> LastType(l, "start")
<1>1. Len(l) \in Nat /\ DOMAIN l = 1..Len(l) /\ (l = <<>> <=> Len(l) = 0)
  BY DEF LogUntil
<1>2. ASSUME NEW i \in DOMAIN l
      PROVE  InEffect(l, i, n) <=> i = Len(l)
  <2>1. l[i].at <= n  BY DEF LogUntil
  <2>2. CASE i < Len(l)
    <3>1. i + 1 \in DOMAIN l  BY <2>2, <1>1
    <3>2. l[i + 1].at <= n /\ l[i + 1] \in Event  BY <3>1 DEF LogUntil
    <3>3. ~(n < l[i + 1].at)  BY <3>2, EventFacts
    <3>4. QED BY <3>3, <2>2 DEF InEffect
  <2>3. CASE i = Len(l)  BY <2>1, <2>3, <1>1 DEF InEffect
  <2>4. QED BY <2>2, <2>3, <1>1
<1>3. l # <<>> => Len(l) \in DOMAIN l  BY <1>1
<1>4. l = <<>> => DOMAIN l = {}  BY <1>1
<1>5. QED BY <1>2, <1>3, <1>4 DEF RunsBy, LastType

(* A stop recorded after a start, and a start recorded after none or a     *)
(* stop, keep the order of stops and starts.                               *)
LEMMA StopRecorded ==
  ASSUME NEW l \in Seq(Event), NEW e \in Event, e.type = "stop"
  PROVE  /\ LastType(l, "start") /\ StopsStop(l) => StopsStop(l \o <<e>>)
         /\ StartsStart(l) => StartsStart(l \o <<e>>)
         /\ LastType(l \o <<e>>, "stop")
<1> DEFINE k == l \o <<e>>
<1>1. /\ k \in Seq(Event) /\ DOMAIN k = 1..(Len(l) + 1) /\ Len(l) \in Nat
      /\ DOMAIN l = 1..Len(l) /\ Len(k) = Len(l) + 1
      /\ \A i \in 1..Len(l) : k[i] = l[i]
      /\ k[Len(l) + 1] = e
  BY AppendFacts
<1>2. k # <<>>  BY <1>1
<1>3. LastType(l, "start") => Len(l) \in 1..Len(l)  BY <1>1 DEF LastType
<1> HIDE DEF k
<1>4. LastType(k, "stop")  BY <1>1, <1>2 DEF LastType
<1>5. ASSUME LastType(l, "start"), StopsStop(l), NEW i \in DOMAIN k, k[i].type = "stop"
      PROVE  i > 1 /\ k[i - 1].type = "start"
  <2>1. CASE i = Len(l) + 1
    <3>1. k[Len(l)].type = "start"  BY <1>5, <1>3, <1>1 DEF LastType
    <3>2. QED BY <3>1, <2>1, <1>3, <1>5, <1>1
  <2>2. CASE i # Len(l) + 1
    <3>1. i \in DOMAIN l /\ k[i] = l[i]  BY <2>2, <1>1
    <3>2. i > 1 /\ l[i - 1].type = "start"  BY <3>1, <1>5 DEF StopsStop
    <3>3. k[i - 1] = l[i - 1]  BY <3>1, <3>2, <1>1
    <3>4. QED BY <3>2, <3>3
  <2>3. QED BY <2>1, <2>2
<1>6. ASSUME StartsStart(l), NEW i \in DOMAIN k, k[i].type = "start"
      PROVE  i = 1 \/ k[i - 1].type = "stop"
  <2>1. i \in DOMAIN l /\ k[i] = l[i]  BY <1>1, <1>6
  <2>2. i = 1 \/ k[i - 1] = l[i - 1]  BY <2>1, <1>1
  <2>3. QED BY <2>1, <2>2, <1>6 DEF StartsStart
<1>7. QED BY <1>4, <1>5, <1>6 DEF StopsStop, StartsStart, k

LEMMA StartRecorded ==
  ASSUME NEW l \in Seq(Event), NEW e \in Event, e.type = "start"
  PROVE  /\ StopsStop(l) => StopsStop(l \o <<e>>)
         /\ (l = <<>> \/ LastType(l, "stop")) /\ StartsStart(l)
              => StartsStart(l \o <<e>>)
         /\ LastType(l \o <<e>>, "start")
<1> DEFINE k == l \o <<e>>
<1>1. /\ k \in Seq(Event) /\ DOMAIN k = 1..(Len(l) + 1) /\ Len(l) \in Nat
      /\ DOMAIN l = 1..Len(l) /\ Len(k) = Len(l) + 1
      /\ \A i \in 1..Len(l) : k[i] = l[i]
      /\ k[Len(l) + 1] = e
  BY AppendFacts
<1>2. k # <<>>  BY <1>1
<1>3. l = <<>> => Len(l) = 0  OBVIOUS
<1>4. l # <<>> => Len(l) \in 1..Len(l)  BY <1>1
<1> HIDE DEF k
<1>5. LastType(k, "start")  BY <1>1, <1>2 DEF LastType
<1>6. ASSUME StopsStop(l), NEW i \in DOMAIN k, k[i].type = "stop"
      PROVE  i > 1 /\ k[i - 1].type = "start"
  <2>1. i \in DOMAIN l /\ k[i] = l[i]  BY <1>1, <1>6
  <2>2. i > 1 /\ l[i - 1].type = "start"  BY <2>1, <1>6 DEF StopsStop
  <2>3. k[i - 1] = l[i - 1]  BY <2>1, <2>2, <1>1
  <2>4. QED BY <2>2, <2>3
<1>7. ASSUME l = <<>> \/ LastType(l, "stop"), StartsStart(l),
             NEW i \in DOMAIN k, k[i].type = "start"
      PROVE  i = 1 \/ k[i - 1].type = "stop"
  <2>1. CASE i = Len(l) + 1
    <3>1. CASE l = <<>>  BY <3>1, <2>1, <1>3
    <3>2. CASE l # <<>>
      <4>1. l[Len(l)].type = "stop" /\ k[Len(l)] = l[Len(l)]
        BY <3>2, <1>7, <1>4, <1>1 DEF LastType
      <4>2. QED BY <4>1, <2>1, <1>1
    <3>3. QED BY <3>1, <3>2
  <2>2. CASE i # Len(l) + 1
    <3>1. i \in DOMAIN l /\ k[i] = l[i]  BY <2>2, <1>1
    <3>2. i = 1 \/ k[i - 1] = l[i - 1]  BY <3>1, <1>1
    <3>3. QED BY <3>1, <3>2, <1>7 DEF StartsStart
  <2>3. QED BY <2>1, <2>2
<1>8. QED BY <1>5, <1>6, <1>7 DEF StopsStop, StartsStart, k

-----------------------------------------------------------------------------
(* The invariant *)

(* Every event was stored, and the container was in the state it says.     *)
Faithful == lost = 0 /\ odd \subseteq {"startedTwice"}

LogTellsState ==
  /\ container \in {"absent", "unprovisioned"} => log = <<>>
  /\ container = "running" => LastType(log, "start")
  /\ container \in {"exited", "removed"} => LastType(log, "stop")

RanOnce == \A r, s \in ran : r[1] = s[1] => r = s
RanAsLogged == \A t \in 0..(now - 1) : (\E r \in ran : r[1] = t) <=> RunsBy(log, t)

StateTypes ==
  /\ now \in 0..EndOfTime
  /\ container \in Containers
  /\ name \in Names /\ plan \in Plans \cup {NoPlan}
  /\ lost \in 0..MaxLost /\ odd \subseteq Oddities
RanTypes ==
  /\ ran \subseteq (0..EndOfTime - 1) \X (Plans \cup {NoPlan})
  /\ \A r \in ran : r[1] < now
LogTypes == LogUntil(log, now) /\ Len(log) <= MaxEvents

LogIsFaithful ==
  /\ Faithful => LogTellsState /\ StopsStop(log) /\ RanAsLogged
  /\ Regular => StartsStart(log)

MeteringInv ==
  /\ StateTypes /\ RanTypes /\ RanOnce
  /\ LogTypes
  /\ LogIsFaithful

LEMMA TypesFollow == MeteringInv => TypeOK
<1>1. ASSUME MeteringInv
      PROVE  \A i, j \in 1..Len(log) : i < j => log[i].at <= log[j].at
  BY <1>1 DEF MeteringInv, LogTypes, LogUntil
<1>2. ASSUME MeteringInv
      PROVE  log \in Seq(Event) /\ Len(log) <= MaxEvents
  BY <1>2 DEF MeteringInv, LogTypes, LogUntil
<1>3. QED BY <1>1, <1>2 DEF MeteringInv, TypeOK, StateTypes, RanTypes

LEMMA InitMetering == Init => MeteringInv
<1> SUFFICES ASSUME Init PROVE MeteringInv  OBVIOUS
<1>1. StateTypes
  BY MeteringAssumption, TimeFacts DEF Init, StateTypes, Containers
<1>2. RanTypes /\ RanOnce  BY DEF Init, RanTypes, RanOnce
<1>3. LogTypes
  BY MeteringAssumption DEF Init, LogTypes, LogUntil
<1>4. log = <<>> /\ DOMAIN log = {} /\ 0..(now - 1) = {}  BY DEF Init
<1>5. LogIsFaithful
  BY <1>4 DEF Init, LogIsFaithful, LogTellsState, StopsStop, StartsStart, RanAsLogged
<1>6. QED BY <1>1, <1>2, <1>3, <1>5 DEF MeteringInv

(* A new event is an event of the present.                                 *)
LEMMA NewEventFacts ==
  ASSUME StateTypes, NEW type \in {"start", "stop"}, NEW p \in Plans \cup {NoPlan}
  PROVE  /\ NewEvent(type, p) \in Event
         /\ NewEvent(type, p).type = type
         /\ NewEvent(type, p).at = now
  BY DEF StateTypes, NewEvent, Event

(* An event that is recorded extends the log, or is lost.                  *)
LEMMA RecordStep ==
  ASSUME MeteringInv, NEW e \in Event, e.at = now, Record(e)
  PROVE  /\ lost' \in 0..MaxLost
         /\ LogUntil(log', now) /\ Len(log') <= MaxEvents
         /\ lost' = 0 => lost = 0 /\ log' = log \o <<e>>
         /\ \A t \in 0..(now - 1) : RunsBy(log', t) <=> RunsBy(log, t)
<1>1. LogUntil(log, now) /\ now \in Nat /\ lost \in 0..MaxLost /\ MaxLost \in Nat
  BY MeteringAssumption, TimeFacts DEF MeteringInv, LogTypes, StateTypes
<1>2. PICK rows \in Inserted(e) : Insert(rows, 1)  BY DEF Record
<1>3. CASE rows = <<>>
  <2>1. lost' = lost + 1 /\ log' = log /\ lost' <= MaxLost
    BY <1>2, <1>3, <1>1 DEF Insert, LogUntil
  <2>2. QED BY <2>1, <1>1, <1>2 DEF Insert
<1>4. CASE rows = <<e>>
  <2>1. Len(<<e>>) = 1 OBVIOUS
  <2>2. lost' = lost /\ log' = log \o <<e>>
    BY <1>2, <1>4, <1>1, <2>1 DEF Insert
  <2>3. LogUntil(log', now)  BY <2>2, <1>1, LogGrows
  <2>4. \A t \in 0..(now - 1) : RunsBy(log', t) <=> RunsBy(log, t)
    BY <2>2, <1>1, PastStays
  <2>5. QED BY <2>2, <2>3, <2>4, <1>1, <1>2 DEF Insert
<1>5. QED BY <1>2, <1>3, <1>4 DEF Inserted

(* scale_database records two events.                                      *)
LEMMA RecordTwoStep ==
  ASSUME MeteringInv, NEW e \in Event, e.at = now, NEW f \in Event, f.at = now,
         \E s \in Inserted(e), t \in Inserted(f) : Insert(s \o t, 2)
  PROVE  /\ lost' \in 0..MaxLost
         /\ LogUntil(log', now) /\ Len(log') <= MaxEvents
         /\ lost' = 0 => lost = 0 /\ log' = (log \o <<e>>) \o <<f>>
         /\ \A t \in 0..(now - 1) : RunsBy(log', t) <=> RunsBy(log, t)
<1>1. LogUntil(log, now) /\ now \in Nat /\ lost \in 0..MaxLost /\ MaxLost \in Nat
  BY MeteringAssumption, TimeFacts DEF MeteringInv, LogTypes, StateTypes
<1>2. PICK s \in Inserted(e), t \in Inserted(f) : Insert(s \o t, 2)  OBVIOUS
<1>3. \A g \in Event : g.at = now => LogUntil(log \o <<g>>, now)
  BY <1>1, LogGrows
<1>4. \A g \in Event, u \in 0..(now - 1) :
        g.at = now => (RunsBy(log \o <<g>>, u) <=> RunsBy(log, u))
  BY <1>1, PastStays
<1>5. CASE s = <<>> /\ t = <<>>
  <2>1. log' = log /\ lost' = lost + 2
    BY <1>5, <1>2, <1>1 DEF Insert, LogUntil
  <2>2. QED BY <2>1, <1>1, <1>2 DEF Insert
<1>6. CASE s = <<e>> /\ t = <<>>
  <2>1. s \o t = <<e>> /\ Len(<<e>>) = 1  BY <1>6
  <2>2. log' = log \o <<e>> /\ lost' = lost + 1
    BY <2>1, <1>2, <1>1 DEF Insert
  <2>3. QED BY <2>2, <1>1, <1>2, <1>3, <1>4 DEF Insert
<1>7. CASE s = <<>> /\ t = <<f>>
  <2>1. s \o t = <<f>> /\ Len(<<f>>) = 1  BY <1>7
  <2>2. log' = log \o <<f>> /\ lost' = lost + 1
    BY <2>1, <1>2, <1>1 DEF Insert
  <2>3. QED BY <2>2, <1>1, <1>2, <1>3, <1>4 DEF Insert
<1>8. CASE s = <<e>> /\ t = <<f>>
  <2>1. Len(s \o t) = 2 /\ <<e>> \in Seq(Event) /\ <<f>> \in Seq(Event)  BY <1>8
  <2>2. log \o (s \o t) = (log \o <<e>>) \o <<f>>
    BY <1>8, <2>1, <1>1, ConcatAssociative DEF LogUntil
  <2>3. log' = log \o (s \o t) /\ lost' = lost + (2 - Len(s \o t))
    BY <1>2 DEF Insert
  <2>4. lost' = lost  BY <2>1, <2>3, <1>1
  <2>5. log' = (log \o <<e>>) \o <<f>>  BY <2>2, <2>3, Zenon
  <2>6. LogUntil(log \o <<e>>, now)  BY <1>3
  <2>7. LogUntil(log', now)  BY <2>5, <2>6, <1>1, LogGrows
  <2>8. \A u \in 0..(now - 1) : RunsBy(log', u) <=> RunsBy(log \o <<e>>, u)
    BY <2>5, <2>6, <1>1, PastStays
  <2>9. QED BY <2>4, <2>5, <2>7, <2>8, <1>4, <1>1, <1>2 DEF Insert
<1>9. QED BY <1>2, <1>5, <1>6, <1>7, <1>8 DEF Inserted

(* What calls do to odd: it grows, and a faithful history stays one only   *)
(* when the container was in the right state.                              *)
LEMMA OddityStep ==
  ASSUME StateTypes, NEW what \in Oddities, NEW happens \in BOOLEAN, Oddity(what, happens)
  PROVE  /\ odd \subseteq odd' /\ odd' \subseteq Oddities
         /\ happens => what \in odd'
  BY DEF StateTypes, Oddity

(* The parts of the invariant about the past, when only the log moves.     *)
LEMMA PastKept ==
  ASSUME MeteringInv, UNCHANGED <<now, ran>>, lost' \in 0..MaxLost,
         odd \subseteq odd' /\ odd' \subseteq Oddities,
         lost' = 0 => lost = 0,
         LogUntil(log', now) /\ Len(log') <= MaxEvents,
         \A t \in 0..(now - 1) : RunsBy(log', t) <=> RunsBy(log, t),
         container' \in Containers /\ name' \in Names /\ plan' \in Plans \cup {NoPlan}
  PROVE  /\ StateTypes' /\ RanTypes' /\ RanOnce' /\ LogTypes'
         /\ Faithful' => Faithful /\ RanAsLogged'
         /\ Regular' => Regular
<1>1. StateTypes' BY DEF MeteringInv, StateTypes
<1>2. RanTypes' /\ RanOnce' BY DEF MeteringInv, RanTypes, RanOnce
<1>3. LogTypes' BY DEF LogTypes
<1>4. (Faithful' => Faithful) /\ (Regular' => Regular)  BY DEF Faithful, Regular
<1>5. Faithful => RanAsLogged  BY DEF MeteringInv, LogIsFaithful
<1>6. RanAsLogged => RanAsLogged'
  BY DEF RanAsLogged
<1>7. QED BY <1>1, <1>2, <1>3, <1>4, <1>5, <1>6

(* A regular history is a faithful one.                                    *)
LEMMA RegularIsFaithful == (Regular => Faithful) /\ (Regular' => Faithful')
  BY DEF Regular, Faithful

LEMMA InsertRowInv ==
  ASSUME MeteringInv, InsertRow
  PROVE  MeteringInv'
<1> USE DEF InsertRow
<1>1. StateTypes' BY DEF MeteringInv, StateTypes, Containers
<1>2. RanTypes' /\ RanOnce' /\ LogTypes'
  BY DEF MeteringInv, RanTypes, RanOnce, LogTypes
<1>3. LogIsFaithful'
  BY DEF MeteringInv, LogIsFaithful, Faithful, Regular, LogTellsState, RanAsLogged
<1>4. QED BY <1>1, <1>2, <1>3 DEF MeteringInv

LEMMA RenameInv ==
  ASSUME MeteringInv, NEW n \in Names, Rename(n)
  PROVE  MeteringInv'
<1> USE DEF Rename
<1>1. StateTypes' BY DEF MeteringInv, StateTypes
<1>2. RanTypes' /\ RanOnce' /\ LogTypes'
  BY DEF MeteringInv, RanTypes, RanOnce, LogTypes
<1>3. LogIsFaithful'
  BY DEF MeteringInv, LogIsFaithful, Faithful, Regular, LogTellsState, RanAsLogged
<1>4. QED BY <1>1, <1>2, <1>3 DEF MeteringInv

(* A restart of a stopped container is one the log does not know of.       *)
LEMMA RestartInv ==
  ASSUME MeteringInv, Restart
  PROVE  MeteringInv'
<1> USE DEF Restart
<1>1. StateTypes  BY DEF MeteringInv
<1>2. "restartedStopped" \in Oddities /\ (container = "exited") \in BOOLEAN
  BY DEF Oddities
<1>3. /\ odd \subseteq odd' /\ odd' \subseteq Oddities
      /\ container = "exited" => "restartedStopped" \in odd'
  BY <1>1, <1>2, OddityStep
<1>4. StateTypes' BY <1>3 DEF MeteringInv, StateTypes, Containers
<1>5. RanTypes' /\ RanOnce' /\ LogTypes'
  BY DEF MeteringInv, RanTypes, RanOnce, LogTypes
<1>6. ASSUME Faithful'
      PROVE  LogTellsState' /\ StopsStop(log)' /\ RanAsLogged'
  <2>1. Faithful /\ container = "running"
    BY <1>3, <1>6 DEF Faithful, HasContainer
  <2>2. LogTellsState /\ StopsStop(log) /\ RanAsLogged
    BY <2>1 DEF MeteringInv, LogIsFaithful
  <2>3. QED BY <2>1, <2>2 DEF LogTellsState, RanAsLogged
<1>7. Regular' => StartsStart(log)'
  BY <1>3 DEF MeteringInv, LogIsFaithful, Regular
<1>8. QED BY <1>4, <1>5, <1>6, <1>7 DEF MeteringInv, LogIsFaithful

(* Calls that record a stop: stop and delete.                              *)
LEMMA StopInv ==
  ASSUME MeteringInv, UNCHANGED <<now, name, plan, ran>>,
         NEW what \in Oddities, what # "startedTwice", Oddity(what, container # "running"),
         container' \in {"exited", "removed"},
         Record(NewEvent("stop", plan))
  PROVE  MeteringInv'
<1> DEFINE e == NewEvent("stop", plan)
<1>1. StateTypes  BY DEF MeteringInv
<1>2. e \in Event /\ e.type = "stop" /\ e.at = now
  BY <1>1, NewEventFacts DEF StateTypes
<1> HIDE DEF e
<1>3. Record(e)  BY DEF e
<1>4. /\ lost' \in 0..MaxLost
      /\ LogUntil(log', now) /\ Len(log') <= MaxEvents
      /\ lost' = 0 => lost = 0 /\ log' = log \o <<e>>
      /\ \A t \in 0..(now - 1) : RunsBy(log', t) <=> RunsBy(log, t)
  BY <1>2, <1>3, RecordStep
<1>5. (container # "running") \in BOOLEAN  OBVIOUS
<1>6. /\ odd \subseteq odd' /\ odd' \subseteq Oddities
      /\ container # "running" => what \in odd'
  BY <1>1, <1>5, OddityStep
<1>7. container' \in Containers /\ name' \in Names /\ plan' \in Plans \cup {NoPlan}
  BY <1>1 DEF StateTypes, Containers
<1>8. /\ StateTypes' /\ RanTypes' /\ RanOnce' /\ LogTypes'
      /\ Faithful' => Faithful /\ RanAsLogged'
      /\ Regular' => Regular
  BY <1>4, <1>6, <1>7, PastKept
<1>9. log \in Seq(Event)  BY DEF MeteringInv, LogTypes, LogUntil
<1>10. ASSUME Faithful'
       PROVE  /\ container = "running" /\ log' = log \o <<e>>
              /\ LogTellsState /\ StopsStop(log)
  <2>1. Faithful /\ lost' = 0 /\ what \notin odd'  BY <1>8, <1>10 DEF Faithful
  <2>2. QED BY <2>1, <1>4, <1>6 DEF MeteringInv, LogIsFaithful
<1>11. ASSUME Faithful'
       PROVE  LogTellsState' /\ StopsStop(log')
  <2>1. LastType(log, "start")  BY <1>10, <1>11 DEF LogTellsState
  <2>2. StopsStop(log') /\ LastType(log', "stop")
    BY <2>1, <1>10, <1>11, <1>2, <1>9, StopRecorded
  <2>3. QED BY <2>2 DEF LogTellsState
<1>12. ASSUME Regular'
       PROVE  StartsStart(log')
  <2>1. Regular /\ Faithful'  BY <1>8, <1>12, RegularIsFaithful
  <2>2. StartsStart(log)  BY <2>1 DEF MeteringInv, LogIsFaithful
  <2>3. QED BY <2>1, <2>2, <1>10, <1>2, <1>9, StopRecorded
<1>13. LogIsFaithful'
  BY <1>8, <1>11, <1>12 DEF LogIsFaithful
<1>14. QED BY <1>8, <1>13 DEF MeteringInv

(* Calls that record a start; only a regular one had no other before it.   *)
LEMMA StartInv ==
  ASSUME MeteringInv, UNCHANGED <<now, name, plan, ran>>,
         odd \subseteq odd' /\ odd' \subseteq Oddities,
         container' = "running",
         container \in {"unprovisioned", "exited"} \/ (container = "running" /\ odd' # {}),
         Record(NewEvent("start", plan))
  PROVE  MeteringInv'
<1> DEFINE e == NewEvent("start", plan)
<1>1. StateTypes  BY DEF MeteringInv
<1>2. e \in Event /\ e.type = "start" /\ e.at = now
  BY <1>1, NewEventFacts DEF StateTypes
<1> HIDE DEF e
<1>3. Record(e)  BY DEF e
<1>4. /\ lost' \in 0..MaxLost
      /\ LogUntil(log', now) /\ Len(log') <= MaxEvents
      /\ lost' = 0 => lost = 0 /\ log' = log \o <<e>>
      /\ \A t \in 0..(now - 1) : RunsBy(log', t) <=> RunsBy(log, t)
  BY <1>2, <1>3, RecordStep
<1>5. container' \in Containers /\ name' \in Names /\ plan' \in Plans \cup {NoPlan}
  BY <1>1 DEF StateTypes, Containers
<1>6. /\ StateTypes' /\ RanTypes' /\ RanOnce' /\ LogTypes'
      /\ Faithful' => Faithful /\ RanAsLogged'
      /\ Regular' => Regular
  BY <1>4, <1>5, PastKept
<1>7. log \in Seq(Event)  BY DEF MeteringInv, LogTypes, LogUntil
<1>8. ASSUME Faithful'
      PROVE  log' = log \o <<e>> /\ LogTellsState /\ StopsStop(log)
  BY <1>8, <1>6, <1>4 DEF Faithful, MeteringInv, LogIsFaithful
<1>9. ASSUME Faithful'
      PROVE  LogTellsState' /\ StopsStop(log')
  <2>1. StopsStop(log') /\ LastType(log', "start")
    BY <1>8, <1>9, <1>2, <1>7, StartRecorded
  <2>2. QED BY <2>1 DEF LogTellsState
<1>10. ASSUME Regular'
       PROVE  StartsStart(log')
  <2>1. Regular /\ Faithful' /\ container \in {"unprovisioned", "exited"}
    BY <1>6, <1>10, RegularIsFaithful DEF Regular
  <2>2. log = <<>> \/ LastType(log, "stop")
    BY <2>1, <1>8 DEF LogTellsState
  <2>3. StartsStart(log)  BY <2>1 DEF MeteringInv, LogIsFaithful
  <2>4. QED BY <2>1, <2>2, <2>3, <1>8, <1>2, <1>7, StartRecorded
<1>11. LogIsFaithful'
  BY <1>6, <1>9, <1>10 DEF LogIsFaithful
<1>12. QED BY <1>6, <1>11 DEF MeteringInv

(* scale_database of a running container stops it and starts it.           *)
LEMMA ScaleInv ==
  ASSUME MeteringInv, NEW p \in Plans, Scale(p)
  PROVE  MeteringInv'
<1> DEFINE e == NewEvent("stop", plan)
           f == NewEvent("start", p)
<1>1. StateTypes  BY DEF MeteringInv
<1>2. /\ e \in Event /\ e.type = "stop" /\ e.at = now
      /\ f \in Event /\ f.type = "start" /\ f.at = now
  BY <1>1, NewEventFacts DEF StateTypes
<1>3. \E s \in Inserted(e), t \in Inserted(f) : Insert(s \o t, 2)  BY DEF Scale
<1> HIDE DEF e, f
<1>4. /\ lost' \in 0..MaxLost
      /\ LogUntil(log', now) /\ Len(log') <= MaxEvents
      /\ lost' = 0 => lost = 0 /\ log' = (log \o <<e>>) \o <<f>>
      /\ \A t \in 0..(now - 1) : RunsBy(log', t) <=> RunsBy(log, t)
  BY <1>2, <1>3, RecordTwoStep
<1>5. "scaledStopped" \in Oddities /\ (container = "exited") \in BOOLEAN
  BY DEF Oddities
<1>6. /\ odd \subseteq odd' /\ odd' \subseteq Oddities
      /\ container = "exited" => "scaledStopped" \in odd'
  BY <1>1, <1>5, OddityStep DEF Scale
<1>7. container' \in Containers /\ name' \in Names /\ plan' \in Plans \cup {NoPlan}
  BY <1>1 DEF StateTypes, Scale
<1>8. UNCHANGED <<now, ran>>  BY DEF Scale
<1>9. /\ StateTypes' /\ RanTypes' /\ RanOnce' /\ LogTypes'
      /\ Faithful' => Faithful /\ RanAsLogged'
      /\ Regular' => Regular
  BY <1>4, <1>6, <1>7, <1>8, PastKept
<1>10. log \in Seq(Event)  BY DEF MeteringInv, LogTypes, LogUntil
<1>11. log \o <<e>> \in Seq(Event)  BY <1>2, <1>10
<1>12. ASSUME Faithful'
       PROVE  /\ container = "running" /\ log' = (log \o <<e>>) \o <<f>>
              /\ LastType(log, "start") /\ StopsStop(log)
  <2>1. Faithful /\ lost' = 0 /\ container = "running"
    BY <1>6, <1>9, <1>12 DEF Faithful, Scale, HasContainer
  <2>2. QED BY <2>1, <1>4 DEF MeteringInv, LogIsFaithful, LogTellsState
<1>13. ASSUME Faithful'
       PROVE  StopsStop(log \o <<e>>) /\ LastType(log \o <<e>>, "stop")
  BY <1>12, <1>13, <1>2, <1>10, StopRecorded
<1>14. ASSUME Faithful'
       PROVE  LogTellsState' /\ StopsStop(log')
  <2>1. StopsStop(log') /\ LastType(log', "start")
    BY <1>12, <1>13, <1>14, <1>2, <1>11, StartRecorded
  <2>2. container' = "running"  BY <1>12, <1>14 DEF Scale
  <2>3. QED BY <2>1, <2>2 DEF LogTellsState
<1>15. ASSUME Regular'
       PROVE  StartsStart(log')
  <2>1. Regular /\ Faithful'  BY <1>9, <1>15, RegularIsFaithful
  <2>2. StartsStart(log)  BY <2>1 DEF MeteringInv, LogIsFaithful
  <2>3. StartsStart(log \o <<e>>)  BY <2>2, <1>2, <1>10, StopRecorded
  <2>4. QED BY <2>1, <2>3, <1>12, <1>13, <1>2, <1>11, StartRecorded
<1>16. LogIsFaithful'
  BY <1>9, <1>14, <1>15 DEF LogIsFaithful
<1>17. QED BY <1>9, <1>16 DEF MeteringInv

(* A tick is run when the container runs, which is what the log's last     *)
(* event says.                                                             *)
LEMMA TickInv ==
  ASSUME MeteringInv, Tick
  PROVE  MeteringInv'
<1>1. /\ now \in Nat /\ now + 1 \in 0..EndOfTime /\ now \in 0..(EndOfTime - 1)
      /\ now' = now + 1
  BY TimeFacts DEF MeteringInv, StateTypes, Tick
<1>2. StateTypes'  BY <1>1 DEF MeteringInv, StateTypes, Tick
<1>3. RanTypes'
  <2>1. ran \subseteq (0..EndOfTime - 1) \X (Plans \cup {NoPlan}) /\ \A r \in ran : r[1] < now
    BY DEF MeteringInv, RanTypes
  <2>2. \A r \in ran : r[1] < now'  BY <2>1, <1>1
  <2>3. <<now, plan>> \in (0..EndOfTime - 1) \X (Plans \cup {NoPlan}) /\ <<now, plan>>[1] < now'
    BY <1>1 DEF MeteringInv, StateTypes
  <2>4. QED BY <2>1, <2>2, <2>3 DEF RanTypes, Tick
<1>4. RanOnce'
  <2>1. \A r \in ran : r[1] # now  BY <1>1 DEF MeteringInv, RanTypes
  <2>2. <<now, plan>>[1] = now  OBVIOUS
  <2>3. QED BY <2>1, <2>2 DEF MeteringInv, RanOnce, Tick
<1>5. LogUntil(log, now)  BY DEF MeteringInv, LogTypes
<1>6. LogUntil(log, now + 1)
  <2>1. \A i \in DOMAIN log : log[i].at <= now + 1
    <3>1. TAKE i \in DOMAIN log
    <3>2. log[i] \in Event /\ log[i].at <= now  BY <1>5 DEF LogUntil
    <3>3. QED BY <3>2, <1>1, EventFacts
  <2>2. QED BY <2>1, <1>5 DEF LogUntil
<1>7. LogTypes'  BY <1>1, <1>6 DEF MeteringInv, LogTypes, Tick
<1>8. ASSUME Faithful'
      PROVE  LogTellsState' /\ StopsStop(log)' /\ RanAsLogged'
  <2>1. Faithful  BY <1>8 DEF Faithful, Tick
  <2>2. LogTellsState /\ StopsStop(log) /\ RanAsLogged
    BY <2>1 DEF MeteringInv, LogIsFaithful
  <2>3. container = "running" <=> LastType(log, "start")
    BY <2>2 DEF LogTellsState, LastType, MeteringInv, StateTypes, Containers
  <2>4. container = "running" <=> RunsBy(log, now)
    BY <2>3, <1>1, <1>5, PresentIsLast
  <2>5. (\E r \in ran' : r[1] = now) <=> container = "running"
    <3>1. \A r \in ran : r[1] # now  BY <1>1 DEF MeteringInv, RanTypes
    <3>2. <<now, plan>>[1] = now  OBVIOUS
    <3>3. QED BY <3>1, <3>2 DEF Tick
  <2>6. \A t \in 0..(now - 1) : (\E r \in ran' : r[1] = t) <=> (\E r \in ran : r[1] = t)
    <3>1. \A t \in 0..(now - 1) : <<now, plan>>[1] # t  BY <1>1
    <3>2. QED BY <3>1 DEF Tick
  <2>7. \A t \in 0..(now' - 1) : t \in 0..(now - 1) \/ t = now  BY <1>1
  <2>8. RanAsLogged'
    BY <2>2, <2>4, <2>5, <2>6, <2>7 DEF RanAsLogged, Tick
  <2>9. QED BY <2>2, <2>8 DEF LogTellsState, Tick
<1>9. Regular' => StartsStart(log)'
  BY DEF MeteringInv, LogIsFaithful, Regular, Tick
<1>10. QED BY <1>2, <1>3, <1>4, <1>7, <1>8, <1>9 DEF MeteringInv, LogIsFaithful

LEMMA MeteringStep == MeteringInv /\ [Next]_vars => MeteringInv'
<1> SUFFICES ASSUME MeteringInv, [Next]_vars PROVE MeteringInv'  OBVIOUS
<1>1. CASE InsertRow  BY <1>1, InsertRowInv
<1>2. CASE Provisioned
  <2>1. odd' = odd /\ odd \subseteq Oddities
    BY <1>2 DEF Provisioned, MeteringInv, StateTypes
  <2>2. QED BY <2>1, <1>2, StartInv DEF Provisioned
<1>3. CASE Start
  <2>1. StateTypes /\ "startedTwice" \in Oddities /\ (container = "running") \in BOOLEAN
    BY DEF MeteringInv, Oddities
  <2>2. /\ odd \subseteq odd' /\ odd' \subseteq Oddities
        /\ container = "running" => "startedTwice" \in odd'
    BY <2>1, <1>3, OddityStep DEF Start
  <2>3. QED BY <2>2, <1>3, StartInv DEF Start, HasContainer
<1>4. CASE Stop
  <2>1. container # "running" <=> container = "exited"  BY <1>4 DEF Stop, HasContainer
  <2>2. "stoppedTwice" \in Oddities  BY DEF Oddities
  <2>3. Oddity("stoppedTwice", container # "running")
    BY <2>1, <1>4 DEF Stop, Oddity
  <2>4. QED BY <2>2, <2>3, <1>4, StopInv DEF Stop
<1>5. CASE Restart  BY <1>5, RestartInv
<1>6. CASE Delete
  <2>1. "removedIdle" \in Oddities  BY DEF Oddities
  <2>2. QED BY <2>1, <1>6, StopInv DEF Delete
<1>7. CASE Tick  BY <1>7, TickInv
<1>8. CASE \E n \in Names : Rename(n)  BY <1>8, RenameInv
<1>9. CASE \E p \in Plans : Scale(p)  BY <1>9, ScaleInv
<1>10. CASE UNCHANGED vars
  BY <1>10 DEF vars, MeteringInv, StateTypes, RanTypes, RanOnce, LogTypes, LogIsFaithful,
               Faithful, Regular, LogTellsState, RanAsLogged
<1>11. QED BY <1>1, <1>2, <1>3, <1>4, <1>5, <1>6, <1>7, <1>8, <1>9, <1>10 DEF Next

LEMMA MeteringInvariance == Spec => []MeteringInv
  BY InitMetering, MeteringStep, PTL DEF Spec

(* The columns of a database and its events are of their types, the log is *)
(* in the order of time and no longer than its bound.                      *)
THEOREM TypeCorrect == Spec => []TypeOK
  BY MeteringInvariance, TypesFollow, PTL

-----------------------------------------------------------------------------
(* Induction on the natural numbers, from the order on them being well     *)
(* founded, and the arithmetic of truncated seconds                        *)

LEMMA LeastNatural ==
  ASSUME NEW S, S \subseteq Nat, S # {}
  PROVE  \E n \in S : \A m \in S : n <= m
<1> DEFINE R == {p \in Nat \X Nat : p[1] < p[2]}
<1>1. IsWellFoundedOn(R, Nat)
  BY NatLessThanWellFounded, SMT DEF OpToRel
<1>2. \E x \in S : \A y \in S : <<y, x>> \notin R
  BY <1>1, WFMin
<1>3. PICK x \in S : \A y \in S : <<y, x>> \notin R  BY <1>2
<1>4. ASSUME NEW y \in S PROVE x <= y
  <2>1. <<y, x>> \in Nat \X Nat /\ <<y, x>>[1] = y /\ <<y, x>>[2] = x  OBVIOUS
  <2>2. ~(y < x)  BY <2>1, <1>3
  <2>3. QED BY <2>2
<1>5. QED BY <1>4

(* A property of 0 that is handed on from n to n + 1 up to N holds up to N.*)
LEMMA HandedOn ==
  ASSUME NEW N \in Nat, NEW T, 0 \in T,
         \A n \in 0..(N - 1) : n \in T => n + 1 \in T
  PROVE  0..N \subseteq T
<1> SUFFICES ASSUME (0..N) \ T # {} PROVE FALSE  OBVIOUS
<1>1. (0..N) \ T \subseteq Nat  OBVIOUS
<1>2. PICK n \in (0..N) \ T : \A m \in (0..N) \ T : n <= m  BY <1>1, LeastNatural
<1>3. n # 0  BY <1>2
<1>4. n - 1 \in 0..(N - 1) /\ n - 1 \in 0..N  BY <1>2, <1>3
<1>5. n - 1 \in T  BY <1>2, <1>4
<1>6. QED BY <1>2, <1>4, <1>5

(* num_seconds() is the quotient: it truncates less than a second.         *)
LEMMA WholeSeconds ==
  ASSUME NEW a \in Nat
  PROVE  /\ NumSeconds(a) \in Nat
         /\ NumSeconds(a) * TicksPerSecond \in Nat
         /\ NumSeconds(a) * TicksPerSecond <= a
         /\ a < NumSeconds(a) * TicksPerSecond + TicksPerSecond
  BY TimeFacts, SMT DEF NumSeconds

LEMMA NoSeconds == NumSeconds(0) = 0
<1>1. NumSeconds(0) \in Nat /\ NumSeconds(0) * TicksPerSecond <= 0
  BY WholeSeconds
<1>2. QED BY <1>1, TimeFacts

LEMMA Quotients ==
  ASSUME NEW T \in Nat \ {0}, NEW x \in Nat, NEW y \in Nat, x * T < y * T + T
  PROVE  x <= y
<1> SUFFICES ASSUME x >= y + 1 PROVE FALSE  OBVIOUS
<1>1. PICK d \in Nat : x = y + 1 + d  
  <2>1. x - (y + 1) \in Nat /\ x = y + 1 + (x - (y + 1))  OBVIOUS
  <2>2. QED BY <2>1
<1>2. x * T = y * T + T + d * T  BY <1>1
<1>3. d * T \in Nat /\ y * T \in Nat  OBVIOUS
<1>4. QED BY <1>2, <1>3

LEMMA SecondsGrow ==
  ASSUME NEW a \in Nat, NEW b \in Nat, a <= b
  PROVE  NumSeconds(a) <= NumSeconds(b)
<1>1. /\ NumSeconds(a) \in Nat /\ NumSeconds(a) * TicksPerSecond \in Nat
      /\ NumSeconds(a) * TicksPerSecond <= a
      /\ NumSeconds(b) \in Nat /\ NumSeconds(b) * TicksPerSecond \in Nat
      /\ b < NumSeconds(b) * TicksPerSecond + TicksPerSecond
  BY WholeSeconds
<1>2. NumSeconds(a) * TicksPerSecond < NumSeconds(b) * TicksPerSecond + TicksPerSecond
  BY <1>1, TimeFacts
<1>3. QED BY <1>1, <1>2, TimeFacts, Quotients

(* Two intervals apart count no more than both together.                   *)
LEMMA SecondsAdd ==
  ASSUME NEW a \in Nat, NEW b \in Nat
  PROVE  NumSeconds(a) + NumSeconds(b) <= NumSeconds(a + b)
<1> DEFINE s == NumSeconds(a)
           t == NumSeconds(b)
           u == NumSeconds(a + b)
<1>1. /\ s \in Nat /\ t \in Nat /\ u \in Nat /\ a + b \in Nat
      /\ s * TicksPerSecond <= a /\ t * TicksPerSecond <= b
      /\ a + b < u * TicksPerSecond + TicksPerSecond
      /\ s * TicksPerSecond \in Nat /\ t * TicksPerSecond \in Nat
      /\ u * TicksPerSecond \in Nat
  BY WholeSeconds
<1> HIDE DEF s, t, u
<1>2. (s + t) * TicksPerSecond = s * TicksPerSecond + t * TicksPerSecond
  BY <1>1, TimeFacts
<1>3. (s + t) * TicksPerSecond < u * TicksPerSecond + TicksPerSecond
  BY <1>1, <1>2, TimeFacts
<1>4. s + t <= u  BY <1>1, <1>3, TimeFacts, Quotients
<1>5. QED BY <1>4 DEF s, t, u

-----------------------------------------------------------------------------
(* The loop over the events *)

(* The loop over the events of a log l.                                    *)
MeteringOf(l, events, since) ==
  LET meter[i \in 0..Len(l)] ==
        IF i = 0 THEN [total |-> 0, since |-> since]
        ELSE IF i \in events THEN Meter(meter[i - 1], l[i]) ELSE meter[i - 1]
  IN meter

(* The body of the loop, for the i-th position of the log.                 *)
MeterAt(m, l, events, i) == IF i \in events THEN Meter(m, l[i]) ELSE m

IsMetering(g, l, events, since) ==
  g = [i \in 0..Len(l) |->
         IF i = 0 THEN [total |-> 0, since |-> since]
         ELSE IF i \in events THEN Meter(g[i - 1], l[i]) ELSE g[i - 1]]

(* The meter is well defined: position by position, it is what the loop    *)
(* makes of the meter before.                                              *)
LEMMA MeterDefined ==
  ASSUME NEW l, Len(l) \in Nat, NEW events, NEW since
  PROVE  \E g : IsMetering(g, l, events, since)
<1> DEFINE base == [total |-> 0, since |-> since]
           Is(g, n) == g = [i \in 0..n |->
                              IF i = 0 THEN base ELSE MeterAt(g[i - 1], l, events, i)]
           T == {n \in Nat : \E g : Is(g, n)}
<1>1. 0 \in T
  <2>1. Is([i \in 0..0 |-> base], 0)  OBVIOUS
  <2>2. QED BY <2>1
<1>2. ASSUME NEW n \in 0..(Len(l) - 1), n \in T
      PROVE  n + 1 \in T
  <2>1. PICK g : Is(g, n)  BY <1>2
  <2> DEFINE h == [i \in 0..(n + 1) |-> IF i <= n THEN g[i] ELSE MeterAt(g[n], l, events, n + 1)]
  <2>2. n \in Nat /\ n + 1 \in Nat /\ 0..n \subseteq 0..(n + 1)  OBVIOUS
  <2>3. \A i \in 0..n : h[i] = g[i]  BY <2>2
  <2>4. g[0] = base /\ \A i \in 1..n : g[i] = MeterAt(g[i - 1], l, events, i)
    BY <2>1, <2>2
  <2>5. h[n + 1] = MeterAt(g[n], l, events, n + 1)  BY <2>2
  <2> HIDE DEF base
  <2>6. ASSUME NEW i \in 0..(n + 1)
        PROVE  h[i] = IF i = 0 THEN base ELSE MeterAt(h[i - 1], l, events, i)
    <3>1. CASE i = 0  BY <3>1, <2>2, <2>3, <2>4
    <3>2. CASE i \in 1..n
      <4>1. i - 1 \in 0..n /\ i \in 0..n /\ i # 0  BY <3>2, <2>2
      <4>2. h[i - 1] = g[i - 1] /\ h[i] = g[i]  BY <4>1, <2>3
      <4>3. QED BY <4>1, <4>2, <3>2, <2>4
    <3>3. CASE i = n + 1
      <4>1. h[i - 1] = g[n]  BY <3>3, <2>2, <2>3
      <4>2. i # 0 BY <3>3, <2>2
      <4>3. QED BY <4>1, <4>2, <3>3, <2>5
    <3>4. QED BY <3>1, <3>2, <3>3, <2>2
  <2>7. h = [i \in 0..(n + 1) |-> h[i]]  OBVIOUS
  <2> HIDE DEF h
  <2>8. h = [i \in 0..(n + 1) |-> IF i = 0 THEN base ELSE MeterAt(h[i - 1], l, events, i)]
    BY <2>6, <2>7
  <2>9. QED BY <2>8, <2>2
<1>3. 0..Len(l) \subseteq T
  <2> HIDE DEF T
  <2>1. QED BY <1>1, <1>2, HandedOn
<1>4. PICK g : Is(g, Len(l))  BY <1>3
<1>5. IsMetering(g, l, events, since)  BY <1>4 DEF MeterAt, IsMetering
<1>6. QED BY <1>5

LEMMA MeterOfSteps ==
  ASSUME NEW l, Len(l) \in Nat, NEW events, NEW since
  PROVE  /\ MeteringOf(l, events, since)[0] = [total |-> 0, since |-> since]
         /\ \A i \in 1..Len(l) :
              MeteringOf(l, events, since)[i] =
                IF i \in events THEN Meter(MeteringOf(l, events, since)[i - 1], l[i])
                ELSE MeteringOf(l, events, since)[i - 1]
<1> DEFINE base == [total |-> 0, since |-> since]
           g == MeteringOf(l, events, since)
<1>1. \E f : IsMetering(f, l, events, since)  BY MeterDefined
<1>2. IsMetering(g, l, events, since)
  BY <1>1, Zenon DEF MeteringOf, IsMetering
<1> HIDE DEF g
<1>3. g[0] = base /\ \A i \in 1..Len(l) :
        g[i] = IF i \in events THEN Meter(g[i - 1], l[i]) ELSE g[i - 1]
  <2>1. 0 \in 0..Len(l) /\ \A i \in 1..Len(l) : i \in 0..Len(l) /\ i # 0
    OBVIOUS
  <2>2. QED BY <2>1, <1>2 DEF IsMetering
<1>4. QED BY <1>3 DEF g

LEMMA MeterSteps ==
  ASSUME Len(log) \in Nat, NEW events, NEW since
  PROVE  /\ Metering(events, since)[0] = [total |-> 0, since |-> since]
         /\ \A i \in 1..Len(log) :
              Metering(events, since)[i] =
                IF i \in events THEN Meter(Metering(events, since)[i - 1], log[i])
                ELSE Metering(events, since)[i - 1]
<1>1. Metering(events, since) = MeteringOf(log, events, since)
  BY DEF Metering, MeteringOf
<1>2. QED BY <1>1, MeterOfSteps

(* The first and the last position of some in the log.                     *)
LEMMA Extremes ==
  ASSUME NEW N \in Nat, NEW S, S \subseteq 1..N, S # {}
  PROVE  /\ Min(S) \in S /\ \A x \in S : Min(S) <= x
         /\ Max(S) \in S /\ \A x \in S : x <= Max(S)
<1>1. \E n \in S : \A m \in S : n <= m
  <2>1. S \subseteq Nat  OBVIOUS
  <2>2. QED BY <2>1, LeastNatural
<1>2. Min(S) \in S /\ \A x \in S : Min(S) <= x
  BY <1>1 DEF Min
<1>3. \E n \in S : \A m \in S : m <= n
  <2> DEFINE R == {x \in Nat : N - x \in S}
  <2>1. R \subseteq Nat  OBVIOUS
  <2>2. \A y \in S : N - y \in R
    <3>1. TAKE y \in S
    <3>2. y \in 1..N  OBVIOUS
    <3>3. N - y \in Nat /\ N - (N - y) = y  BY <3>2
    <3>4. QED BY <3>3
  <2>3. R # {}  BY <2>2
  <2>4. PICK x \in R : \A m \in R : x <= m
    <3> HIDE DEF R
    <3>1. QED BY <2>1, <2>3, LeastNatural
  <2>5. N - x \in S /\ x \in Nat  OBVIOUS
  <2>6. ASSUME NEW y \in S PROVE y <= N - x
    <3>1. x <= N - y  BY <2>2, <2>4
    <3>2. y \in 1..N  OBVIOUS
    <3>3. QED BY <3>1, <3>2, <2>5
  <2>7. QED BY <2>5, <2>6
<1>4. Max(S) \in S /\ \A x \in S : x <= Max(S)
  BY <1>3 DEF Max
<1>5. QED BY <1>2, <1>4

(* What the selected events are, and that they are in the order of time.   *)
LEMMA SelectedEvents ==
  ASSUME NEW n \in Nat, LogUntil(log, n), NEW from \in Nat, NEW to \in Nat
  PROVE  /\ Len(log) \in Nat /\ DOMAIN log = 1..Len(log)
         /\ UsageEvents(from, to) \subseteq 1..Len(log)
         /\ \A i \in UsageEvents(from, to) : log[i].at \in from..to
         /\ \A i \in 1..Len(log) : log[i].at \in Nat /\ log[i].type \in {"start", "stop"}
         /\ \A i, j \in 1..Len(log) : i <= j => log[i].at <= log[j].at
<1>1. Len(log) \in Nat /\ DOMAIN log = 1..Len(log) /\ log \in Seq(Event)
  BY DEF LogUntil
<1>2. \A i \in 1..Len(log) : log[i] \in Event  BY <1>1
<1>3. \A i \in 1..Len(log) : log[i].at \in Nat /\ log[i].type \in {"start", "stop"}
  BY <1>2, EventFacts
<1>4. \A i \in UsageEvents(from, to) : i \in 1..Len(log) /\ log[i].at \in from..to
  BY <1>1, <1>3 DEF UsageEvents
<1>5. ASSUME NEW i \in 1..Len(log), NEW j \in 1..Len(log), i <= j
      PROVE  log[i].at <= log[j].at
  <2>1. CASE i = j  BY <2>1, <1>3
  <2>2. CASE i < j  BY <2>2, <1>1 DEF LogUntil
  <2>3. QED BY <2>1, <2>2, <1>5
<1>6. QED BY <1>1, <1>3, <1>4, <1>5

(* What the loop has counted fits into the time up to y, and no event that *)
(* is still to come lies before y.                                         *)
CountedUntil(m, from, to, events, i, y) ==
  /\ y \in from..to
  /\ m.total \in 0..NumSeconds(y - from)
  /\ m.since \in {NotRunning, y}
  /\ \A j \in events : i < j => y <= log[j].at

(* One event more.                                                         *)
LEMMA CountOn ==
  ASSUME NEW from \in Nat, NEW to \in Nat, NEW events, NEW i \in Nat, i + 1 \in events,
         \A j \in events : j \in Nat /\ log[j].at \in from..to,
         \A j \in events : i + 1 <= j => log[i + 1].at <= log[j].at,
         NEW m, NEW y, CountedUntil(m, from, to, events, i, y)
  PROVE  CountedUntil(Meter(m, log[i + 1]), from, to, events, i + 1, log[i + 1].at)
<1> DEFINE at == log[i + 1].at
           k == Meter(m, log[i + 1])
<1>1. y \in from..to /\ y \in Nat /\ at \in from..to /\ at \in Nat /\ y <= at
  BY DEF CountedUntil
<1>2. y - from \in Nat /\ at - y \in Nat /\ at - from \in Nat
      /\ (y - from) + (at - y) = at - from
  BY <1>1
<1> HIDE DEF at
<1>3. /\ NumSeconds(y - from) \in Nat /\ NumSeconds(at - y) \in Nat
      /\ NumSeconds(at - from) \in Nat
      /\ NumSeconds(y - from) <= NumSeconds(at - from)
      /\ NumSeconds(y - from) + NumSeconds(at - y) <= NumSeconds(at - from)
  <2>1. y - from <= at - from  BY <1>1
  <2>2. NumSeconds(y - from) <= NumSeconds(at - from)  BY <1>2, <2>1, SecondsGrow
  <2>3. NumSeconds(y - from) + NumSeconds(at - y) <= NumSeconds(at - from)
    BY <1>2, SecondsAdd
  <2>4. QED BY <1>2, <2>2, <2>3, WholeSeconds
<1>4. m.total \in 0..NumSeconds(y - from) /\ m.since \in {NotRunning, y}
  BY DEF CountedUntil
<1>5. \A j \in events : i + 1 < j => at <= log[j].at
  BY DEF at
<1>6. CASE log[i + 1].type = "start"
  <2>1. k.total = m.total /\ k.since = at  BY <1>6 DEF Meter, at
  <2>2. QED BY <2>1, <1>1, <1>3, <1>4, <1>5 DEF CountedUntil, at
<1>7. CASE log[i + 1].type # "start" /\ m.since = NotRunning
  <2>1. k = m  BY <1>7 DEF Meter
  <2>2. QED BY <2>1, <1>7, <1>1, <1>3, <1>4, <1>5 DEF CountedUntil, at
<1>8. CASE log[i + 1].type # "start" /\ m.since # NotRunning
  <2>1. k.total = m.total + NumSeconds(at - y) /\ k.since = NotRunning
    BY <1>8, <1>4 DEF Meter, at
  <2>2. QED BY <2>1, <1>1, <1>3, <1>4, <1>5 DEF CountedUntil, at
<1>9. QED BY <1>6, <1>7, <1>8

LEMMA LoopCounts ==
  ASSUME NEW n \in Nat, LogUntil(log, n), NEW from \in Nat, NEW to \in Nat, from <= to,
         NEW since \in {NotRunning, from}
  PROVE  \E y : CountedUntil(Metering(UsageEvents(from, to), since)[Len(log)],
                             from, to, UsageEvents(from, to), Len(log), y)
<1> DEFINE E == UsageEvents(from, to)
           g == Metering(E, since)
           T == {i \in 0..Len(log) : \E y : CountedUntil(g[i], from, to, E, i, y)}
<1>1. /\ Len(log) \in Nat
      /\ E \subseteq 1..Len(log)
      /\ \A i \in E : log[i].at \in from..to
      /\ \A i, j \in 1..Len(log) : i <= j => log[i].at <= log[j].at
  BY SelectedEvents
<1>2. /\ g[0] = [total |-> 0, since |-> since]
      /\ \A i \in 1..Len(log) :
           g[i] = IF i \in E THEN Meter(g[i - 1], log[i]) ELSE g[i - 1]
  BY <1>1, MeterSteps
<1> HIDE DEF E, g
<1>3. 0 \in T
  <2>1. g[0].total = 0 /\ g[0].since = since  BY <1>2
  <2>2. from - from = 0 /\ from \in from..to  OBVIOUS
  <2>3. CountedUntil(g[0], from, to, E, 0, from)
    BY <2>1, <2>2, <1>1, NoSeconds DEF CountedUntil
  <2>4. QED BY <2>3, <1>1
<1>4. ASSUME NEW i \in 0..(Len(log) - 1), i \in T
      PROVE  i + 1 \in T
  <2>1. i \in Nat /\ i + 1 \in 1..Len(log) /\ i + 1 \in 0..Len(log) /\ (i + 1) - 1 = i
    BY <1>1
  <2>2. PICK y : CountedUntil(g[i], from, to, E, i, y)  BY <1>4
  <2>3. CASE i + 1 \in E
    <3>1. g[i + 1] = Meter(g[i], log[i + 1])  BY <2>1, <2>3, <1>2
    <3>2. \A j \in E : j \in Nat /\ log[j].at \in from..to  BY <1>1
    <3>3. \A j \in E : i + 1 <= j => log[i + 1].at <= log[j].at  BY <1>1, <2>1
    <3>4. CountedUntil(Meter(g[i], log[i + 1]), from, to, E, i + 1, log[i + 1].at)
      BY <2>1, <2>2, <2>3, <3>2, <3>3, CountOn
    <3>5. QED BY <3>1, <3>4, <2>1
  <2>4. CASE i + 1 \notin E
    <3>1. g[i + 1] = g[i]  BY <2>1, <2>4, <1>2
    <3>2. CountedUntil(g[i + 1], from, to, E, i + 1, y)
      BY <3>1, <2>1, <2>2, <1>1 DEF CountedUntil
    <3>3. QED BY <3>2, <2>1
  <2>5. QED BY <2>3, <2>4
<1>5. Len(log) \in T
  <2> HIDE DEF T
  <2>1. 0..Len(log) \subseteq T  BY <1>1, <1>3, <1>4, HandedOn
  <2>2. QED BY <2>1, <1>1
<1>6. \E y : CountedUntil(g[Len(log)], from, to, E, Len(log), y)  BY <1>5
<1>7. QED BY <1>6 DEF g, E

(* Whatever the log, the hours of a period fit into it.                    *)
LEMMA UsageFits ==
  ASSUME NEW n \in Nat, LogUntil(log, n), NEW from \in Nat, NEW to \in Nat, from <= to
  PROVE  UsageSeconds(from, to) \in 0..NumSeconds(to - from)
<1> DEFINE E == UsageEvents(from, to)
<1>1. to - from \in Nat /\ NumSeconds(to - from) \in Nat  BY WholeSeconds
<1>2. CASE E = {}
  <2>1. UsageSeconds(from, to) = UsageWithoutEvents(from, to)
    BY <1>2 DEF UsageSeconds
  <2>2. UsageWithoutEvents(from, to) \in {0, NumSeconds(to - from)}
    BY DEF UsageWithoutEvents
  <2>3. QED BY <2>1, <2>2, <1>1
<1>3. CASE E # {}
  <2> DEFINE since == IF log[Min(E)].type = "stop" THEN from ELSE NotRunning
             m == Metering(E, since)[Len(log)]
  <2>1. UsageSeconds(from, to) = Reading(m, to)
    BY <1>3 DEF UsageSeconds, UsageWithEvents
  <2>2. since \in {NotRunning, from}  OBVIOUS
  <2> HIDE DEF since
  <2>3. PICK y : CountedUntil(m, from, to, E, Len(log), y)
    BY <2>2, LoopCounts
  <2> HIDE DEF m, E
  <2>4. y \in from..to /\ m.total \in 0..NumSeconds(y - from) /\ m.since \in {NotRunning, y}
    BY <2>3 DEF CountedUntil
  <2>5. y - from \in Nat /\ to - y \in Nat /\ (y - from) + (to - y) = to - from
        /\ y - from <= to - from
    BY <2>4
  <2>6. /\ NumSeconds(y - from) \in Nat /\ NumSeconds(to - y) \in Nat
        /\ NumSeconds(y - from) + NumSeconds(to - y) <= NumSeconds(to - from)
        /\ NumSeconds(y - from) <= NumSeconds(to - from)
    <3>1. NumSeconds(y - from) + NumSeconds(to - y) <= NumSeconds(to - from)
      BY <2>5, SecondsAdd
    <3>2. QED BY <3>1, <2>5, <1>1, SecondsGrow, WholeSeconds
  <2>7. CASE m.since = NotRunning
    <3>1. Reading(m, to) = m.total + 0  BY <2>7 DEF Reading
    <3>2. QED BY <3>1, <2>1, <2>4, <2>6, <1>1
  <2>8. CASE m.since # NotRunning
    <3>1. Reading(m, to) = m.total + NumSeconds(to - y)  BY <2>8, <2>4 DEF Reading
    <3>2. QED BY <3>1, <2>1, <2>4, <2>6, <1>1
  <2>9. QED BY <2>7, <2>8
<1>4. QED BY <1>2, <1>3

(* The periods that are read: closed months, and the current one so far.   *)
LEMMA Periods ==
  ASSUME now \in Nat
  PROVE  /\ \A p \in Readable : /\ p.from \in Nat /\ p.to \in Nat
                                /\ p.from <= p.to /\ p.to <= now
         /\ \A p \in ClosedMonths : p \in Readable /\ p.from < p.to
<1> DEFINE q == now \div MonthTicks
<1>1. q \in Nat /\ q * MonthTicks \in Nat /\ q * MonthTicks <= now
  BY TimeFacts
<1> HIDE DEF q
<1>2. ASSUME NEW p \in ClosedMonths
      PROVE  p.from \in Nat /\ p.to \in Nat /\ p.from < p.to /\ p.to <= now
  <2>1. PICK m \in 0..(q - 1) :
          p = [from |-> m * MonthTicks, to |-> (m + 1) * MonthTicks]
    BY DEF ClosedMonths, q
  <2>2. m \in Nat /\ q - (m + 1) \in Nat  BY <1>1
  <2>3. /\ m * MonthTicks \in Nat /\ (q - (m + 1)) * MonthTicks \in Nat
        /\ (m + 1) * MonthTicks = m * MonthTicks + MonthTicks
        /\ q * MonthTicks = (m + 1) * MonthTicks + (q - (m + 1)) * MonthTicks
    BY <2>2, <1>1, TimeFacts
  <2>4. p.from = m * MonthTicks /\ p.to = (m + 1) * MonthTicks  BY <2>1
  <2>5. QED BY <2>3, <2>4, <1>1, TimeFacts
<1>3. MonthStart(now) = q * MonthTicks  BY DEF MonthStart, q
<1>4. \A p \in Readable : p \in ClosedMonths \/ p = [from |-> MonthStart(now), to |-> now]
  BY DEF Readable
<1>5. \A p \in Readable : p \in ClosedMonths \/ (p.from = MonthStart(now) /\ p.to = now)
  BY <1>4
<1>6. ClosedMonths \subseteq Readable  BY DEF Readable
<1>7. QED BY <1>1, <1>2, <1>3, <1>5, <1>6

LEMMA UsageWithinFollows == MeteringInv => UsageWithinPeriod
<1> SUFFICES ASSUME MeteringInv, NEW p \in Readable
             PROVE  Usage(p) >= 0 /\ Usage(p) <= NumSeconds(p.to - p.from)
  BY DEF UsageWithinPeriod
<1>1. now \in Nat /\ LogUntil(log, now)
  BY TimeFacts DEF MeteringInv, StateTypes, LogTypes
<1>2. p.from \in Nat /\ p.to \in Nat /\ p.from <= p.to  BY <1>1, Periods
<1>3. Usage(p) \in 0..NumSeconds(p.to - p.from)
  BY <1>1, <1>2, UsageFits DEF Usage
<1>4. p.to - p.from \in Nat BY <1>2
<1>5. NumSeconds(p.to - p.from) \in Nat  BY <1>4, WholeSeconds
<1>6. QED BY <1>3, <1>5

(* Whatever calls were made, whatever events were lost and whatever states *)
(* the container was in: calculate_usage_hours counts no instant twice and *)
(* none outside of the period.                                             *)
THEOREM UsageFitsPeriod == Spec => []UsageWithinPeriod
  BY MeteringInvariance, UsageWithinFollows, PTL

-----------------------------------------------------------------------------
(* What the log says between its events *)

(* From an event to the next, the container is in the state it says.       *)
LEMMA EventDecides ==
  ASSUME NEW n \in Nat, LogUntil(log, n), NEW i \in 1..Len(log), NEW t \in Nat,
         InEffect(log, i, t)
  PROVE  RunsBy(log, t) <=> log[i].type = "start"
<1>1. /\ Len(log) \in Nat /\ DOMAIN log = 1..Len(log)
      /\ \A j \in 1..Len(log) : log[j].at \in Nat
      /\ \A j, k \in 1..Len(log) : j <= k => log[j].at <= log[k].at
  BY SelectedEvents, TimeFacts
<1>2. ASSUME NEW j \in 1..Len(log), InEffect(log, j, t)
      PROVE  j = i
  <2>1. CASE j < i
    <3>1. j + 1 \in 1..Len(log) /\ j < Len(log) /\ j + 1 <= i  BY <2>1, <1>1
    <3>2. t < log[j + 1].at /\ log[j + 1].at <= log[i].at /\ log[i].at <= t
      BY <3>1, <1>1, <1>2 DEF InEffect
    <3>3. log[j + 1].at \in Nat /\ log[i].at \in Nat  BY <3>1, <1>1
    <3>4. QED BY <3>2, <3>3
  <2>2. CASE i < j
    <3>1. i + 1 \in 1..Len(log) /\ i < Len(log) /\ i + 1 <= j  BY <2>2, <1>1
    <3>2. t < log[i + 1].at /\ log[i + 1].at <= log[j].at /\ log[j].at <= t
      BY <3>1, <1>1, <1>2 DEF InEffect
    <3>3. log[i + 1].at \in Nat /\ log[j].at \in Nat  BY <3>1, <1>1
    <3>4. QED BY <3>2, <3>3
  <2>3. QED BY <2>1, <2>2, <1>1
<1>3. QED BY <1>1, <1>2 DEF RunsBy

(* A selected event decides until the next selected one, or the end.       *)
LEMMA SelectedDecides ==
  ASSUME NEW n \in Nat, LogUntil(log, n), NEW from \in Nat, NEW to \in Nat,
         NEW i \in UsageEvents(from, to), NEW t \in log[i].at..(to - 1),
         \A j \in UsageEvents(from, to) : i < j => t < log[j].at
  PROVE  RunsBy(log, t) <=> log[i].type = "start"
<1>1. /\ Len(log) \in Nat /\ DOMAIN log = 1..Len(log) /\ i \in 1..Len(log)
      /\ log[i].at \in from..to
      /\ \A j \in 1..Len(log) : log[j].at \in Nat
      /\ \A j, k \in 1..Len(log) : j <= k => log[j].at <= log[k].at
  BY SelectedEvents
<1>2. t \in Nat /\ log[i].at <= t /\ t < to  BY <1>1
<1>3. ASSUME i < Len(log)
      PROVE  t < log[i + 1].at
  <2>1. i + 1 \in 1..Len(log) /\ i < i + 1  BY <1>1, <1>3
  <2>2. log[i].at <= log[i + 1].at /\ log[i + 1].at \in Nat  BY <2>1, <1>1
  <2>3. CASE log[i + 1].at <= to
    <3>1. i + 1 \in UsageEvents(from, to)  BY <2>1, <2>2, <2>3, <1>1 DEF UsageEvents
    <3>2. QED BY <3>1, <2>1
  <2>4. CASE ~(log[i + 1].at <= to)  BY <2>2, <2>4, <1>2
  <2>5. QED BY <2>3, <2>4
<1>4. InEffect(log, i, t)  BY <1>2, <1>3 DEF InEffect
<1>5. QED BY <1>1, <1>2, <1>4, EventDecides

(* Before the first event of the period, the one before it decides.        *)
LEMMA FirstDecides ==
  ASSUME NEW n \in Nat, LogUntil(log, n), NEW from \in Nat, NEW to \in Nat,
         UsageEvents(from, to) # {}, NEW t \in from..(to - 1),
         \A j \in UsageEvents(from, to) : t < log[j].at
  PROVE  LET first == Min(UsageEvents(from, to))
         IN RunsBy(log, t) <=> first > 1 /\ log[first - 1].type = "start"
<1> DEFINE E == UsageEvents(from, to)
           f == Min(E)
<1>1. /\ Len(log) \in Nat /\ DOMAIN log = 1..Len(log) /\ E \subseteq 1..Len(log)
      /\ \A j \in E : log[j].at \in from..to
      /\ \A j \in 1..Len(log) : log[j].at \in Nat
      /\ \A j, k \in 1..Len(log) : j <= k => log[j].at <= log[k].at
  BY SelectedEvents
<1>2. f \in E /\ \A j \in E : f <= j  BY <1>1, Extremes
<1>3. f \in 1..Len(log) /\ t < log[f].at /\ log[f].at \in from..to /\ t \in Nat
  BY <1>1, <1>2
<1> HIDE DEF f
<1>4. CASE f = 1
  <2>1. \A j \in 1..Len(log) : log[f].at <= log[j].at  BY <1>4, <1>1, <1>3
  <2>2. \A j \in 1..Len(log) : ~InEffect(log, j, t)
    BY <2>1, <1>1, <1>3 DEF InEffect
  <2>3. ~RunsBy(log, t)  BY <2>2, <1>1 DEF RunsBy
  <2>4. QED BY <2>3, <1>4 DEF f
<1>5. CASE f # 1
  <2>1. f - 1 \in 1..Len(log) /\ f - 1 < f /\ (f - 1) + 1 = f /\ f > 1  BY <1>3, <1>5
  <2>2. log[f - 1].at <= log[f].at /\ log[f - 1].at \in Nat
    <3>1. \A j \in 1..Len(log) : j <= f => log[j].at <= log[f].at
      BY <1>1, <1>3
    <3>2. \A j \in 1..Len(log) : log[j].at \in Nat
      BY <1>1
    <3>3. f - 1 <= f
      BY <2>1, <1>3
    <3>4. QED
      BY <2>1, <3>1, <3>2, <3>3
  <2>3. f - 1 \notin E  BY <2>1, <1>2
  <2>4. log[f - 1].at < from
    BY <2>1, <2>2, <2>3, <1>1, <1>3 DEF UsageEvents
  <2>5. InEffect(log, f - 1, t)
    BY <2>1, <2>2, <2>4, <1>3 DEF InEffect
  <2>6. RunsBy(log, t) <=> log[f - 1].type = "start"
    BY <2>1, <2>5, <1>3, EventDecides
  <2>7. QED BY <2>1, <2>6 DEF f
<1>6. QED BY <1>4, <1>5

(* In a period without events the last one before it decides.              *)
LEMMA PriorDecides ==
  ASSUME NEW n \in Nat, LogUntil(log, n), NEW from \in Nat, NEW to \in Nat,
         UsageEvents(from, to) = {}, NEW t \in from..(to - 1)
  PROVE  LET prior == UsageEvents(0, from)
         IN RunsBy(log, t) <=> prior # {} /\ log[Max(prior)].type = "start"
<1> DEFINE E == UsageEvents(0, from)
           k == Max(E)
<1>1. /\ Len(log) \in Nat /\ DOMAIN log = 1..Len(log) /\ E \subseteq 1..Len(log)
      /\ \A j \in E : log[j].at \in 0..from
      /\ \A j \in 1..Len(log) : log[j].at \in Nat
      /\ \A i, j \in 1..Len(log) : i <= j => log[i].at <= log[j].at
  BY SelectedEvents
<1>2. t \in Nat /\ from <= t /\ t < to  OBVIOUS
<1>3. \A j \in 1..Len(log) : log[j].at < from \/ to < log[j].at
  BY <1>1 DEF UsageEvents
<1>4. \A j \in 1..Len(log) : log[j].at < from => j \in E
  BY <1>1 DEF UsageEvents
<1>5. CASE E = {}
  <2>1. \A j \in 1..Len(log) : t < log[j].at  BY <1>1, <1>2, <1>3, <1>4, <1>5
  <2>2. ~RunsBy(log, t)  BY <2>1, <1>1, <1>2 DEF RunsBy, InEffect
  <2>3. QED BY <2>2, <1>5
<1>6. CASE E # {}
  <2>1. k \in E /\ \A j \in E : j <= k  BY <1>1, <1>6, Extremes
  <2>2. k \in 1..Len(log) /\ log[k].at \in 0..from  BY <2>1, <1>1
  <2> HIDE DEF k
  <2>3. ASSUME k < Len(log) PROVE t < log[k + 1].at
    <3>1. k + 1 \in 1..Len(log) /\ ~(k + 1 <= k)  BY <2>2, <2>3, <1>1
    <3>2. k + 1 \notin E  BY <3>1, <2>1
    <3>3. to < log[k + 1].at /\ log[k + 1].at \in Nat  BY <3>1, <3>2, <1>1, <1>3, <1>4
    <3>4. QED BY <3>3, <1>2
  <2>4. InEffect(log, k, t)
    BY <2>2, <2>3, <1>2 DEF InEffect
  <2>5. RunsBy(log, t) <=> log[k].type = "start"
    BY <2>2, <2>4, <1>2, EventDecides
  <2>6. QED BY <2>5, <1>6 DEF k
<1>7. QED BY <1>5, <1>6

(* From y until the next event: the meter runs only while the container    *)
(* does, and does when it does.                                            *)
Until(t, events, i) == \A j \in events : i < j => t < log[j].at
RunsFrom(m, events, i, y, to) ==
  m.since # NotRunning => \A t \in y..(to - 1) : Until(t, events, i) => RunsBy(log, t)
StandsFrom(m, events, i, y, to) ==
  m.since = NotRunning => \A t \in y..(to - 1) : Until(t, events, i) => ~RunsBy(log, t)

(* How the loop sees an event, and that it knows the container's state     *)
(* from then on.                                                           *)
LEMMA AfterEvent ==
  ASSUME NEW n \in Nat, LogUntil(log, n), NEW from \in Nat, NEW to \in Nat,
         NEW i \in UsageEvents(from, to), NEW m
  PROVE  LET k == Meter(m, log[i])
         IN /\ log[i].type = "start" => k.since = log[i].at /\ k.total = m.total
            /\ log[i].type = "stop" /\ m.since = NotRunning => k = m
            /\ log[i].type = "stop" /\ m.since # NotRunning
                 => k.since = NotRunning /\ k.total = m.total + NumSeconds(log[i].at - m.since)
            /\ k.since = NotRunning <=> log[i].type = "stop"
            /\ RunsFrom(k, UsageEvents(from, to), i, log[i].at, to)
            /\ StandsFrom(k, UsageEvents(from, to), i, log[i].at, to)
<1> DEFINE k == Meter(m, log[i])
<1>1. /\ i \in 1..Len(log) /\ log[i].at \in Nat /\ log[i].type \in {"start", "stop"}
  BY SelectedEvents
<1>2. log[i].at # NotRunning  BY <1>1 DEF NotRunning
<1>3. log[i].type = "start" => k.since = log[i].at /\ k.total = m.total
  BY DEF Meter
<1>4. log[i].type = "stop" /\ m.since = NotRunning => k = m
  BY DEF Meter
<1>5. log[i].type = "stop" /\ m.since # NotRunning
        => k.since = NotRunning /\ k.total = m.total + NumSeconds(log[i].at - m.since)
  BY DEF Meter
<1> HIDE DEF k
<1>6. k.since = NotRunning <=> log[i].type = "stop"
  BY <1>1, <1>2, <1>3, <1>4, <1>5
<1>7. \A t \in log[i].at..(to - 1) :
        Until(t, UsageEvents(from, to), i) => (RunsBy(log, t) <=> log[i].type = "start")
  BY SelectedDecides DEF Until
<1>8. RunsFrom(k, UsageEvents(from, to), i, log[i].at, to)
  BY <1>1, <1>6, <1>7 DEF RunsFrom
<1>9. StandsFrom(k, UsageEvents(from, to), i, log[i].at, to)
  BY <1>1, <1>6, <1>7 DEF StandsFrom
<1>10. QED BY <1>3, <1>4, <1>5, <1>6, <1>8, <1>9 DEF k

-----------------------------------------------------------------------------
(* A period in which the container did not run *)

StandsBy(from, to) == \A t \in from..(to - 1) : ~RunsBy(log, t)

(* The loop has counted nothing, and would run only if the container did.  *)
CountsNothing(m, from, to, events, i, y) ==
  /\ y \in from..to
  /\ m.total = 0 /\ m.since \in {NotRunning, y}
  /\ \A j \in events : i < j => y <= log[j].at
  /\ RunsFrom(m, events, i, y, to)

(* The meter runs from the beginning when it does by the log.              *)
LEMMA CarriedOver ==
  ASSUME NEW n \in Nat, LogUntil(log, n), NEW from \in Nat, NEW to \in Nat,
         UsageEvents(from, to) # {}, StopsStop(log),
         NEW m, m.since = IF log[Min(UsageEvents(from, to))].type = "stop"
                          THEN from ELSE NotRunning
  PROVE  /\ RunsFrom(m, UsageEvents(from, to), 0, from, to)
         /\ StartsStart(log) => StandsFrom(m, UsageEvents(from, to), 0, from, to)
<1> DEFINE E == UsageEvents(from, to)
           f == Min(E)
<1>1. /\ Len(log) \in Nat /\ DOMAIN log = 1..Len(log) /\ E \subseteq 1..Len(log)
      /\ \A i \in 1..Len(log) : log[i].type \in {"start", "stop"}
  BY SelectedEvents
<1>2. f \in 1..Len(log)  BY <1>1, Extremes
<1>3. \A j \in E : 0 < j  BY <1>1
<1>4. ASSUME NEW t \in from..(to - 1), Until(t, E, 0)
      PROVE  RunsBy(log, t) <=> f > 1 /\ log[f - 1].type = "start"
  <2>1. \A j \in E : t < log[j].at  BY <1>3, <1>4 DEF Until
  <2>2. QED BY <2>1, FirstDecides
<1>5. from # NotRunning  BY DEF NotRunning
<1>6. m.since = IF log[f].type = "stop" THEN from ELSE NotRunning  OBVIOUS
<1> HIDE DEF f, E
<1>7. log[f].type = "stop" => f > 1 /\ log[f - 1].type = "start"
  BY <1>1, <1>2 DEF StopsStop
<1>8. StartsStart(log) /\ log[f].type = "start" => ~(f > 1 /\ log[f - 1].type = "start")
  BY <1>1, <1>2 DEF StartsStart
<1>9. m.since # NotRunning => log[f].type = "stop"  BY <1>6
<1>10. m.since = NotRunning => log[f].type = "start"  BY <1>1, <1>2, <1>5, <1>6
<1>11. RunsFrom(m, E, 0, from, to)  BY <1>4, <1>7, <1>9 DEF RunsFrom
<1>12. StartsStart(log) => StandsFrom(m, E, 0, from, to)
  BY <1>4, <1>8, <1>10 DEF StandsFrom
<1>13. QED BY <1>11, <1>12 DEF E

LEMMA NothingToCount ==
  ASSUME NEW n \in Nat, LogUntil(log, n), NEW from \in Nat, NEW to \in Nat,
         StandsBy(from, to), NEW i \in Nat, i + 1 \in UsageEvents(from, to),
         NEW m, NEW y, CountsNothing(m, from, to, UsageEvents(from, to), i, y)
  PROVE  CountsNothing(Meter(m, log[i + 1]), from, to, UsageEvents(from, to),
                       i + 1, log[i + 1].at)
<1> DEFINE E == UsageEvents(from, to)
           k == Meter(m, log[i + 1])
           at == log[i + 1].at
<1>1. /\ Len(log) \in Nat /\ E \subseteq 1..Len(log)
      /\ \A j \in E : log[j].at \in from..to
      /\ \A j \in 1..Len(log) : log[j].type \in {"start", "stop"}
      /\ \A j, l \in 1..Len(log) : j <= l => log[j].at <= log[l].at
  BY SelectedEvents
<1>2. /\ log[i + 1].type = "start" => k.since = at /\ k.total = m.total
      /\ log[i + 1].type = "stop" /\ m.since = NotRunning => k = m
      /\ log[i + 1].type = "stop" /\ m.since # NotRunning
           => k.since = NotRunning /\ k.total = m.total + NumSeconds(at - m.since)
      /\ RunsFrom(k, E, i + 1, at, to)
  BY AfterEvent
<1>3. /\ y \in from..to /\ m.total = 0 /\ m.since \in {NotRunning, y}
      /\ y <= at /\ at \in from..to
      /\ RunsFrom(m, E, i, y, to)
  BY <1>1 DEF CountsNothing
<1>4. \A j \in E : i < j => at <= log[j].at  BY <1>1
<1> HIDE DEF k, at
<1>5. \A j \in E : i + 1 < j => at <= log[j].at  BY <1>4, <1>1
<1>6. ASSUME m.since # NotRunning
      PROVE  y = at
  <2>1. SUFFICES ASSUME y < at PROVE FALSE  BY <1>3
  <2>2. y \in y..(to - 1) /\ y \in from..(to - 1)  BY <2>1, <1>3
  <2>3. Until(y, E, i)
    <3>1. ASSUME NEW j \in E, i < j PROVE y < log[j].at
      <4>1. log[j].at \in from..to /\ at <= log[j].at  BY <3>1, <1>1, <1>4
      <4>2. QED BY <4>1, <1>3, <2>1
    <3>2. QED BY <3>1 DEF Until
  <2>4. RunsBy(log, y)  BY <1>3, <1>6, <2>2, <2>3 DEF RunsFrom
  <2>5. QED BY <2>2, <2>4 DEF StandsBy
<1>7. m.since # NotRunning => at - m.since = 0  BY <1>3, <1>6
<1>8. k.total = 0 /\ k.since \in {NotRunning, at}
  <2>1. CASE log[i + 1].type = "start"  BY <2>1, <1>2, <1>3
  <2>2. CASE log[i + 1].type = "stop" /\ m.since = NotRunning  BY <2>2, <1>2, <1>3
  <2>3. CASE log[i + 1].type = "stop" /\ m.since # NotRunning
    <3>1. at - m.since = 0  BY <2>3, <1>7
    <3>2. NumSeconds(at - m.since) = 0  BY <3>1, NoSeconds, Zenon
    <3>3. QED BY <3>2, <2>3, <1>2, <1>3
  <2>4. i + 1 \in 1..Len(log)  BY <1>1
  <2>5. QED BY <2>1, <2>2, <2>3, <2>4, <1>1
<1>9. CountsNothing(k, from, to, E, i + 1, at)
  BY <1>2, <1>3, <1>5, <1>8 DEF CountsNothing
<1>10. QED BY <1>9 DEF k, at

LEMMA LoopCountsNothing ==
  ASSUME NEW n \in Nat, LogUntil(log, n), NEW from \in Nat, NEW to \in Nat, from <= to,
         StandsBy(from, to), StopsStop(log), UsageEvents(from, to) # {},
         NEW since, since = IF log[Min(UsageEvents(from, to))].type = "stop"
                            THEN from ELSE NotRunning
  PROVE  \E y : CountsNothing(Metering(UsageEvents(from, to), since)[Len(log)],
                              from, to, UsageEvents(from, to), Len(log), y)
<1> DEFINE E == UsageEvents(from, to)
           g == Metering(E, since)
           T == {i \in 0..Len(log) : \E y : CountsNothing(g[i], from, to, E, i, y)}
<1>1. /\ Len(log) \in Nat
      /\ E \subseteq 1..Len(log)
      /\ \A i \in E : log[i].at \in from..to
  BY SelectedEvents
<1>2. /\ g[0] = [total |-> 0, since |-> since]
      /\ \A i \in 1..Len(log) :
           g[i] = IF i \in E THEN Meter(g[i - 1], log[i]) ELSE g[i - 1]
  BY <1>1, MeterSteps
<1> HIDE DEF g
<1>3. 0 \in T
  <2>1. g[0].total = 0 /\ g[0].since = since  BY <1>2
  <2>2. RunsFrom(g[0], E, 0, from, to)  BY <2>1, CarriedOver
  <2>3. since \in {NotRunning, from} /\ from \in from..to  OBVIOUS
  <2>4. CountsNothing(g[0], from, to, E, 0, from)
    BY <2>1, <2>2, <2>3, <1>1 DEF CountsNothing
  <2>5. QED BY <2>4, <1>1
<1>4. ASSUME NEW i \in 0..(Len(log) - 1), i \in T
      PROVE  i + 1 \in T
  <2>1. i \in Nat /\ i + 1 \in 1..Len(log) /\ i + 1 \in 0..Len(log) /\ (i + 1) - 1 = i
    BY <1>1
  <2>2. PICK y : CountsNothing(g[i], from, to, E, i, y)  BY <1>4
  <2>3. CASE i + 1 \in E
    <3>1. g[i + 1] = Meter(g[i], log[i + 1])  BY <2>1, <2>3, <1>2
    <3>2. CountsNothing(Meter(g[i], log[i + 1]), from, to, E, i + 1, log[i + 1].at)
      BY <2>1, <2>2, <2>3, NothingToCount
    <3>3. QED BY <3>1, <3>2, <2>1
  <2>4. CASE i + 1 \notin E
    <3>1. g[i + 1] = g[i]  BY <2>1, <2>4, <1>2
    <3>2. \A j \in E : i < j <=> i + 1 < j  BY <2>1, <2>4, <1>1
    <3> HIDE DEF E
    <3>3. CountsNothing(g[i + 1], from, to, E, i + 1, y)
      BY <3>1, <3>2, <2>2 DEF CountsNothing, RunsFrom, Until
    <3>4. QED BY <3>3, <2>1
  <2>5. QED BY <2>3, <2>4
<1>5. Len(log) \in T
  <2> HIDE DEF T
  <2>1. 0..Len(log) \subseteq T  BY <1>1, <1>3, <1>4, HandedOn
  <2>2. QED BY <2>1, <1>1
<1>6. QED BY <1>5 DEF g

LEMMA IdleUsage ==
  ASSUME NEW n \in Nat, LogUntil(log, n), NEW from \in Nat, NEW to \in Nat, from < to,
         StandsBy(from, to), StopsStop(log)
  PROVE  UsageSeconds(from, to) = 0
<1> DEFINE E == UsageEvents(from, to)
<1>1. from \in from..(to - 1) /\ from <= to  OBVIOUS
<1>2. CASE E = {}
  <2>1. ~RunsBy(log, from)  BY <1>1 DEF StandsBy
  <2>2. ~(UsageEvents(0, from) # {} /\ log[Max(UsageEvents(0, from))].type = "start")
    BY <2>1, <1>1, <1>2, PriorDecides
  <2>3. QED BY <2>2, <1>2 DEF UsageSeconds, UsageWithoutEvents
<1>3. CASE E # {}
  <2> DEFINE since == IF log[Min(E)].type = "stop" THEN from ELSE NotRunning
             m == Metering(E, since)[Len(log)]
  <2>1. UsageSeconds(from, to) = Reading(m, to)
    BY <1>3 DEF UsageSeconds, UsageWithEvents
  <2>2. PICK y : CountsNothing(m, from, to, E, Len(log), y)
    BY <1>1, <1>3, LoopCountsNothing
  <2>3. Len(log) \in Nat /\ E \subseteq 1..Len(log)  BY SelectedEvents
  <2> HIDE DEF m, E
  <2>4. /\ y \in from..to /\ m.total = 0 /\ m.since \in {NotRunning, y}
        /\ RunsFrom(m, E, Len(log), y, to)
    BY <2>2 DEF CountsNothing
  <2>5. CASE m.since = NotRunning
    BY <2>1, <2>4, <2>5 DEF Reading
  <2>6. CASE m.since # NotRunning
    <3>1. y = to
      <4>1. SUFFICES ASSUME y < to PROVE FALSE  BY <2>4
      <4>2. y \in y..(to - 1) /\ y \in from..(to - 1)  BY <4>1, <2>4
      <4>3. Until(y, E, Len(log))  BY <2>3 DEF Until
      <4>4. RunsBy(log, y)  BY <4>2, <4>3, <2>4, <2>6 DEF RunsFrom
      <4>5. QED BY <4>2, <4>4 DEF StandsBy
    <3>2. to - m.since = 0  BY <3>1, <2>4, <2>6
    <3>3. QED BY <3>2, <2>1, <2>4, <2>6, NoSeconds DEF Reading
  <2>7. QED BY <2>5, <2>6
<1>4. QED BY <1>2, <1>3

(* A period the container did not run in is one it does not run in by the  *)
(* log.                                                                    *)
LEMMA IdleByTheLog ==
  ASSUME MeteringInv, Faithful, NEW p, p.from \in Nat, p.to \in Nat, p.to <= now,
         RanIn(p) = {}
  PROVE  StandsBy(p.from, p.to)
<1>1. now \in Nat /\ RanAsLogged
  BY TimeFacts DEF MeteringInv, StateTypes, LogIsFaithful
<1>2. ASSUME NEW t \in p.from..(p.to - 1)
      PROVE  ~RunsBy(log, t)
  <2>1. t \in 0..(now - 1)  BY <1>1
  <2>2. \A r \in ran : r[1] # t  BY DEF RanIn, Ticks
  <2>3. QED BY <2>1, <2>2, <1>1 DEF RanAsLogged
<1>3. QED BY <1>2 DEF StandsBy

LEMMA IdleFollows == MeteringInv => IdleMonthIsFree
<1> SUFFICES ASSUME MeteringInv, odd \subseteq {"startedTwice"}, lost = 0,
                    NEW p \in ClosedMonths, RanIn(p) = {}
             PROVE  LineItems(p.from, p.to) = {}
  BY DEF IdleMonthIsFree
<1>1. Faithful  BY DEF Faithful
<1>2. now \in Nat /\ LogUntil(log, now) /\ StopsStop(log)
  BY <1>1, TimeFacts DEF MeteringInv, StateTypes, LogTypes, LogIsFaithful
<1>3. p.from \in Nat /\ p.to \in Nat /\ p.from < p.to /\ p.to <= now
  BY <1>2, Periods
<1>4. StandsBy(p.from, p.to)  BY <1>1, <1>3, IdleByTheLog
<1>5. UsageSeconds(p.from, p.to) = 0  BY <1>2, <1>3, <1>4, IdleUsage
<1>6. QED BY <1>5 DEF LineItems

(* A month the container never ran in is not charged, whatever events lie  *)
(* on its ends, as long as each stop in the log stopped something.         *)
THEOREM IdleIsFree == Spec => []IdleMonthIsFree
  BY MeteringInvariance, IdleFollows, PTL

-----------------------------------------------------------------------------
(* A regular history: what is counted, and what ran *)

(* The ticks from the beginning of the period to y that ran by the log.    *)
RunTicks(from, y) == {t \in from..(y - 1) : RunsBy(log, t)}

LEMMA TicksAreFinite ==
  ASSUME NEW from \in Nat, NEW y \in Nat
  PROVE  IsFiniteSet(RunTicks(from, y)) /\ Cardinality(RunTicks(from, y)) \in Nat
<1>1. IsFiniteSet(from..(y - 1))  BY FS_Interval
<1>2. RunTicks(from, y) \in SUBSET (from..(y - 1))  BY DEF RunTicks
<1>3. QED BY <1>1, <1>2, FS_Subset, FS_CardinalityType

LEMMA MoreTicks ==
  ASSUME NEW from \in Nat, NEW y \in Nat, NEW z \in Nat, from <= y, y <= z
  PROVE  /\ (\A t \in y..(z - 1) : RunsBy(log, t))
              => Cardinality(RunTicks(from, z)) = Cardinality(RunTicks(from, y)) + (z - y)
         /\ (\A t \in y..(z - 1) : ~RunsBy(log, t))
              => Cardinality(RunTicks(from, z)) = Cardinality(RunTicks(from, y))
<1>1. ASSUME \A t \in y..(z - 1) : RunsBy(log, t)
      PROVE  Cardinality(RunTicks(from, z)) = Cardinality(RunTicks(from, y)) + (z - y)
  <2>1. RunTicks(from, z) = RunTicks(from, y) \cup (y..(z - 1))
    BY <1>1 DEF RunTicks
  <2>2. RunTicks(from, y) \cap (y..(z - 1)) = {}
    BY DEF RunTicks
  <2>3. IsFiniteSet(RunTicks(from, y)) /\ Cardinality(RunTicks(from, y)) \in Nat
    BY TicksAreFinite
  <2>4. IsFiniteSet(y..(z - 1)) /\ Cardinality(y..(z - 1)) = z - y
    <3>1. y \in Int /\ z - 1 \in Int  OBVIOUS
    <3>2. IsFiniteSet(y..(z - 1))  BY <3>1, FS_Interval
    <3>3. Cardinality(y..(z - 1)) = IF y > z - 1 THEN 0 ELSE (z - 1) - y + 1
      BY <3>1, FS_Interval
    <3>4. QED BY <3>2, <3>3
  <2>5. Cardinality(RunTicks(from, y) \cup (y..(z - 1)))
          = Cardinality(RunTicks(from, y)) + Cardinality(y..(z - 1))
              - Cardinality(RunTicks(from, y) \cap (y..(z - 1)))
    BY <2>3, <2>4, FS_Union
  <2>6. Cardinality(RunTicks(from, y) \cap (y..(z - 1))) = 0
    BY <2>2, FS_EmptySet
  <2>7. QED BY <2>1, <2>3, <2>4, <2>5, <2>6
<1>2. ASSUME \A t \in y..(z - 1) : ~RunsBy(log, t)
      PROVE  Cardinality(RunTicks(from, z)) = Cardinality(RunTicks(from, y))
  <2>1. RunTicks(from, z) = RunTicks(from, y)
    BY <1>2 DEF RunTicks
  <2>2. QED BY <2>1
<1>3. QED BY <1>1, <1>2

(* The seconds of one interval miss less than a second of its ticks.       *)
LEMMA TruncatedPart ==
  ASSUME NEW c \in Nat, NEW s \in Nat, NEW d \in Nat, NEW b \in Nat,
         c - s * TicksPerSecond \in 0..(TicksPerSecond - 1) * b
  PROVE  /\ (c + d) - (s + NumSeconds(d)) * TicksPerSecond
              \in 0..(TicksPerSecond - 1) * (b + 1)
         /\ c - s * TicksPerSecond \in 0..(TicksPerSecond - 1) * (b + 1)
<1> DEFINE T == TicksPerSecond
           q == NumSeconds(d)
<1>1. T \in Nat \ {0} /\ q \in Nat /\ q * T \in Nat /\ q * T <= d /\ d < q * T + T
  BY TimeFacts, WholeSeconds
<1> HIDE DEF q, T
<1>2. (s + q) * T = s * T + q * T /\ s * T \in Nat
  BY <1>1
<1>3. (T - 1) * (b + 1) = (T - 1) * b + (T - 1) /\ (T - 1) * b \in Nat
  <2>1. T - 1 \in Nat  BY <1>1
  <2>2. QED BY <2>1
<1>4. c - s * T \in 0..(T - 1) * b  BY DEF T
<1>5. (c + d) - (s + q) * T = (c - s * T) + (d - q * T)
  BY <1>1, <1>2
<1>6. d - q * T \in 0..(T - 1)  BY <1>1
<1>7. (c + d) - (s + q) * T \in 0..((T - 1) * b + (T - 1))
  BY <1>1, <1>2, <1>3, <1>4, <1>5, <1>6
<1>8. c - s * T \in 0..((T - 1) * b + (T - 1))
  BY <1>1, <1>2, <1>3, <1>4
<1>9. QED BY <1>3, <1>7, <1>8 DEF T, q

Seen(events, i) == {j \in events : j <= i}

(* The next selected event is a stop exactly when the meter runs.          *)
NextIsOther(m, events, i) ==
  \A j \in events : i < j /\ (\A k \in events : i < k => j <= k)
     => (log[j].type = "stop" <=> m.since # NotRunning)

(* Up to y the loop has counted what ran, but for less than a second for   *)
(* each event, and it runs on as the container does.                       *)
Follows(m, from, to, events, i, y) ==
  /\ y \in from..to
  /\ m.total \in Nat /\ m.since \in {NotRunning, y}
  /\ \A j \in events : i < j => y <= log[j].at
  /\ RunsFrom(m, events, i, y, to) /\ StandsFrom(m, events, i, y, to)
  /\ NextIsOther(m, events, i)
  /\ Cardinality(RunTicks(from, y)) - m.total * TicksPerSecond
       \in 0..(TicksPerSecond - 1) * Cardinality(Seen(events, i))

LEMMA SeenEvents ==
  ASSUME NEW N \in Nat, NEW events, events \subseteq 1..N, NEW i \in Nat
  PROVE  /\ IsFiniteSet(Seen(events, i)) /\ Cardinality(Seen(events, i)) \in Nat
         /\ Seen(events, 0) = {} /\ Seen(events, N) = events
<1>1. \A j \in events : j \in Int /\ 1 <= j /\ j <= N
  OBVIOUS
<1>2. IsFiniteSet(Seen(events, i)) /\ Cardinality(Seen(events, i)) \in Nat
  <2>1. IsFiniteSet(1..N)  BY FS_Interval
  <2>2. Seen(events, i) \in SUBSET (1..N)  BY DEF Seen
  <2>3. QED BY <2>1, <2>2, FS_Subset, FS_CardinalityType
<1>3. Seen(events, 0) = {} /\ Seen(events, N) = events
  <2>1. \A j \in events : ~(j <= 0) /\ j <= N  BY <1>1
  <2>2. QED BY <2>1, Zenon DEF Seen
<1>4. QED BY <1>2, <1>3

LEMMA SeenSame ==
  ASSUME NEW N \in Nat, NEW events, events \subseteq 1..N, NEW i \in Nat,
         i + 1 \notin events
  PROVE  Seen(events, i + 1) = Seen(events, i)
<1>1. \A j \in events : j <= i + 1 <=> j <= i
  OBVIOUS
<1>2. QED BY <1>1, Zenon DEF Seen

LEMMA SeenNext ==
  ASSUME NEW N \in Nat, NEW events, events \subseteq 1..N, NEW i \in Nat,
         i + 1 \in events
  PROVE  Cardinality(Seen(events, i + 1)) = Cardinality(Seen(events, i)) + 1
<1>1. \A j \in events : j <= i + 1 <=> j <= i \/ j = i + 1
  OBVIOUS
<1>2. ~(i + 1 <= i) /\ i + 1 <= i + 1  OBVIOUS
<1>3. Seen(events, i + 1) = Seen(events, i) \cup {i + 1}
  BY <1>1, <1>2, Zenon DEF Seen
<1>4. i + 1 \notin Seen(events, i)
  BY <1>2, Zenon DEF Seen
<1>5. IsFiniteSet(Seen(events, i))  BY SeenEvents
<1>6. QED BY <1>3, <1>4, <1>5, FS_AddElement

(* In a log in which stops and starts alternate, the event after the i-th  *)
(* is of the other type.                                                   *)
LEMMA Alternation ==
  ASSUME NEW n \in Nat, LogUntil(log, n), NEW from \in Nat, NEW to \in Nat,
         StopsStop(log), StartsStart(log),
         NEW i \in UsageEvents(from, to), NEW m,
         m.since = NotRunning <=> log[i].type = "stop"
  PROVE  NextIsOther(m, UsageEvents(from, to), i)
<1> DEFINE E == UsageEvents(from, to)
<1>1. /\ Len(log) \in Nat /\ DOMAIN log = 1..Len(log) /\ E \subseteq 1..Len(log)
      /\ \A j \in E : log[j].at \in from..to
      /\ \A j \in 1..Len(log) : log[j].at \in Nat /\ log[j].type \in {"start", "stop"}
      /\ \A j, k \in 1..Len(log) : j <= k => log[j].at <= log[k].at
  BY SelectedEvents
<1>2. ASSUME NEW j \in E, i < j, \A k \in E : i < k => j <= k
      PROVE  log[j].type = "stop" <=> m.since # NotRunning
  <2>1. j - 1 = i
    <3>1. SUFFICES ASSUME i < j - 1 PROVE FALSE  BY <1>1, <1>2
    <3>2. j - 1 \in 1..Len(log) /\ i \in 1..Len(log) /\ j \in 1..Len(log)  BY <3>1, <1>1
    <3>3. log[i].at <= log[j - 1].at /\ log[j - 1].at <= log[j].at
      BY <3>1, <3>2, <1>1
    <3>4. log[i].at \in from..to /\ log[j].at \in from..to /\ log[j - 1].at \in Nat
      BY <3>2, <1>1
    <3>5. j - 1 \in E  BY <3>2, <3>3, <3>4, <1>1 DEF UsageEvents
    <3>6. QED BY <3>1, <3>5, <1>2, <1>1
  <2>2. i \in 1..Len(log) /\ j \in 1..Len(log) /\ j > 1  BY <2>1, <1>1
  <2>3. log[j].type = "stop" => log[i].type = "start"
    BY <2>1, <2>2, <1>1 DEF StopsStop
  <2>4. log[j].type = "start" => log[i].type = "stop"
    <3>1. log[j].type = "start" => j = 1 \/ log[j - 1].type = "stop"
      BY <2>2, <1>1 DEF StartsStart
    <3>2. QED BY <3>1, <2>1, <2>2
  <2>5. QED BY <2>2, <2>3, <2>4, <1>1
<1>3. QED BY <1>2 DEF NextIsOther

LEMMA FollowsOn ==
  ASSUME NEW n \in Nat, LogUntil(log, n), NEW from \in Nat, NEW to \in Nat,
         StopsStop(log), StartsStart(log),
         NEW i \in Nat, i + 1 \in UsageEvents(from, to),
         NEW m, NEW y, Follows(m, from, to, UsageEvents(from, to), i, y)
  PROVE  Follows(Meter(m, log[i + 1]), from, to, UsageEvents(from, to),
                 i + 1, log[i + 1].at)
<1> DEFINE E == UsageEvents(from, to)
           k == Meter(m, log[i + 1])
           at == log[i + 1].at
           c == Cardinality(RunTicks(from, y))
           b == Cardinality(Seen(E, i))
<1>1. /\ Len(log) \in Nat /\ E \subseteq 1..Len(log)
      /\ \A j \in E : log[j].at \in from..to
      /\ \A j \in 1..Len(log) : log[j].type \in {"start", "stop"}
      /\ \A j, l \in 1..Len(log) : j <= l => log[j].at <= log[l].at
  BY SelectedEvents
<1>2. /\ log[i + 1].type = "start" => k.since = at /\ k.total = m.total
      /\ log[i + 1].type = "stop" /\ m.since = NotRunning => k = m
      /\ log[i + 1].type = "stop" /\ m.since # NotRunning
           => k.since = NotRunning /\ k.total = m.total + NumSeconds(at - m.since)
      /\ k.since = NotRunning <=> log[i + 1].type = "stop"
      /\ RunsFrom(k, E, i + 1, at, to)
      /\ StandsFrom(k, E, i + 1, at, to)
  BY AfterEvent
<1>3. /\ y \in from..to /\ m.total \in Nat /\ m.since \in {NotRunning, y}
      /\ y <= at /\ at \in from..to
      /\ RunsFrom(m, E, i, y, to) /\ StandsFrom(m, E, i, y, to)
      /\ c - m.total * TicksPerSecond \in 0..(TicksPerSecond - 1) * b
  BY <1>1 DEF Follows
<1>4. \A j \in E : i < j => at <= log[j].at  BY <1>1
<1>5. \A j \in E : i + 1 < j => at <= log[j].at  BY <1>1
<1>6. log[i + 1].type = "stop" <=> m.since # NotRunning
  <2>1. i < i + 1 /\ \A l \in E : i < l => i + 1 <= l  BY <1>1
  <2>2. QED BY <2>1 DEF Follows, NextIsOther
<1>7. NextIsOther(k, E, i + 1)
  BY <1>2, Alternation
<1> HIDE DEF k, at, E
<1>8. \A t \in y..(at - 1) : t \in y..(to - 1) /\ Until(t, E, i)
  <2>1. ASSUME NEW t \in y..(at - 1)
        PROVE  t \in y..(to - 1) /\ Until(t, E, i)
    <3>1. t \in y..(to - 1)  BY <1>3
    <3>2. ASSUME NEW j \in E, i < j PROVE t < log[j].at
      <4>1. log[j].at \in from..to /\ at <= log[j].at  BY <3>2, <1>1, <1>4
      <4>2. QED BY <4>1, <1>3
    <3>3. QED BY <3>1, <3>2 DEF Until
  <2>2. QED BY <2>1
<1>9. /\ c \in Nat /\ b \in Nat
      /\ Cardinality(Seen(E, i + 1)) = b + 1
      /\ y \in Nat /\ at \in Nat /\ at - y \in Nat /\ from <= y
  <2>1. y \in Nat /\ at \in Nat /\ at - y \in Nat /\ from <= y  BY <1>3
  <2>2. c \in Nat  BY <2>1, TicksAreFinite
  <2>3. i + 1 \in E  BY DEF E
  <2>4. Cardinality(Seen(E, i)) \in Nat
        /\ Cardinality(Seen(E, i + 1)) = Cardinality(Seen(E, i)) + 1
    <3>1. Len(log) \in Nat /\ E \subseteq 1..Len(log)  BY <1>1
    <3>2. Cardinality(Seen(E, i)) \in Nat  BY <3>1, SeenEvents
    <3>3. Cardinality(Seen(E, i + 1)) = Cardinality(Seen(E, i)) + 1
      BY <3>1, <2>3, SeenNext
    <3>4. QED BY <3>2, <3>3
  <2>5. QED BY <2>1, <2>2, <2>4
<1>10. /\ (c + (at - y)) - (m.total + NumSeconds(at - y)) * TicksPerSecond
            \in 0..(TicksPerSecond - 1) * (b + 1)
       /\ c - m.total * TicksPerSecond \in 0..(TicksPerSecond - 1) * (b + 1)
  <2> HIDE DEF c, b
  <2>1. QED BY <1>3, <1>9, TruncatedPart
<1>11. CASE log[i + 1].type = "stop"
  <2>1. m.since = y /\ m.since # NotRunning  BY <1>3, <1>6, <1>11
  <2>2. k.since = NotRunning /\ k.total = m.total + NumSeconds(at - y)
    BY <2>1, <1>2, <1>11
  <2>3. \A t \in y..(at - 1) : RunsBy(log, t)
    BY <2>1, <1>3, <1>8 DEF RunsFrom
  <2>4. Cardinality(RunTicks(from, at)) = c + (at - y)
    BY <2>3, <1>3, <1>9, MoreTicks
  <2>5. NumSeconds(at - y) \in Nat  BY <1>9, WholeSeconds
  <2>6. Cardinality(RunTicks(from, at)) - k.total * TicksPerSecond
          \in 0..(TicksPerSecond - 1) * Cardinality(Seen(E, i + 1))
    BY <2>2, <2>4, <1>9, <1>10
  <2>7. k.total \in Nat  BY <2>2, <2>5, <1>3
  <2>8. QED BY <2>2, <2>6, <2>7, <1>2, <1>3, <1>5, <1>7 DEF Follows, k, at, E
<1>12. CASE log[i + 1].type # "stop"
  <2>1. i + 1 \in 1..Len(log)  BY <1>1 DEF E
  <2>2. log[i + 1].type = "start" /\ m.since = NotRunning
    BY <2>1, <1>1, <1>6, <1>12
  <2>3. k.since = at /\ k.total = m.total  BY <2>2, <1>2
  <2>4. \A t \in y..(at - 1) : ~RunsBy(log, t)
    BY <2>2, <1>3, <1>8 DEF StandsFrom
  <2>5. Cardinality(RunTicks(from, at)) = c
    BY <2>4, <1>3, <1>9, MoreTicks
  <2>6. Cardinality(RunTicks(from, at)) - k.total * TicksPerSecond
          \in 0..(TicksPerSecond - 1) * Cardinality(Seen(E, i + 1))
    BY <2>3, <2>5, <1>9, <1>10
  <2>7. QED BY <2>3, <2>6, <1>2, <1>3, <1>5, <1>7 DEF Follows, k, at, E
<1>13. QED BY <1>11, <1>12

LEMMA LoopFollows ==
  ASSUME NEW n \in Nat, LogUntil(log, n), NEW from \in Nat, NEW to \in Nat, from <= to,
         StopsStop(log), StartsStart(log), UsageEvents(from, to) # {},
         NEW since, since = IF log[Min(UsageEvents(from, to))].type = "stop"
                            THEN from ELSE NotRunning
  PROVE  \E y : Follows(Metering(UsageEvents(from, to), since)[Len(log)],
                        from, to, UsageEvents(from, to), Len(log), y)
<1> DEFINE E == UsageEvents(from, to)
           g == Metering(E, since)
           T == {i \in 0..Len(log) : \E y : Follows(g[i], from, to, E, i, y)}
<1>1. /\ Len(log) \in Nat
      /\ E \subseteq 1..Len(log)
      /\ \A i \in E : log[i].at \in from..to
  BY SelectedEvents
<1>2. /\ g[0] = [total |-> 0, since |-> since]
      /\ \A i \in 1..Len(log) :
           g[i] = IF i \in E THEN Meter(g[i - 1], log[i]) ELSE g[i - 1]
  BY <1>1, MeterSteps
<1> HIDE DEF g
<1>3. 0 \in T
  <2>1. g[0].total = 0 /\ g[0].since = since  BY <1>2
  <2>2. RunsFrom(g[0], E, 0, from, to) /\ StandsFrom(g[0], E, 0, from, to)
    BY <2>1, CarriedOver
  <2>3. since \in {NotRunning, from} /\ from \in from..to  OBVIOUS
  <2>4. NextIsOther(g[0], E, 0)
    <3>1. Min(E) \in E /\ \A j \in E : Min(E) <= j  BY <1>1, Extremes
    <3>2. \A j \in E : (\A k \in E : 0 < k => j <= k) => j = Min(E)
      BY <3>1, <1>1
    <3>3. from # NotRunning  BY DEF NotRunning
    <3>4. QED BY <3>2, <3>3, <2>1 DEF NextIsOther
  <2>5. Cardinality(RunTicks(from, from)) - g[0].total * TicksPerSecond
          \in 0..(TicksPerSecond - 1) * Cardinality(Seen(E, 0))
    <3>1. RunTicks(from, from) = {}  BY DEF RunTicks
    <3>2. Cardinality(RunTicks(from, from)) = 0  BY <3>1, FS_EmptySet
    <3>3. Seen(E, 0) = {}  BY <1>1, SeenEvents
    <3>4. Cardinality(Seen(E, 0)) = 0  BY <3>3, FS_EmptySet
    <3>5. QED BY <3>2, <3>4, <2>1, TimeFacts
  <2>6. Follows(g[0], from, to, E, 0, from)
    BY <2>1, <2>2, <2>3, <2>4, <2>5, <1>1 DEF Follows
  <2>7. QED BY <2>6, <1>1
<1>4. ASSUME NEW i \in 0..(Len(log) - 1), i \in T
      PROVE  i + 1 \in T
  <2>1. i \in Nat /\ i + 1 \in 1..Len(log) /\ i + 1 \in 0..Len(log) /\ (i + 1) - 1 = i
    BY <1>1
  <2>2. PICK y : Follows(g[i], from, to, E, i, y)  BY <1>4
  <2>3. CASE i + 1 \in E
    <3>1. g[i + 1] = Meter(g[i], log[i + 1])  BY <2>1, <2>3, <1>2
    <3>2. Follows(Meter(g[i], log[i + 1]), from, to, E, i + 1, log[i + 1].at)
      BY <2>1, <2>2, <2>3, FollowsOn
    <3>3. QED BY <3>1, <3>2, <2>1
  <2>4. CASE i + 1 \notin E
    <3>1. g[i + 1] = g[i]  BY <2>1, <2>4, <1>2
    <3>2. \A j \in E : i < j <=> i + 1 < j  BY <2>1, <2>4, <1>1
    <3>3. Seen(E, i + 1) = Seen(E, i)  BY <2>1, <2>4, <1>1, SeenSame
    <3> HIDE DEF E
    <3>4. Follows(g[i + 1], from, to, E, i + 1, y)
      BY <3>1, <3>2, <3>3, <2>2 DEF Follows, RunsFrom, StandsFrom, NextIsOther, Until
    <3>5. QED BY <3>4, <2>1
  <2>5. QED BY <2>3, <2>4
<1>5. Len(log) \in T
  <2> HIDE DEF T
  <2>1. 0..Len(log) \subseteq T  BY <1>1, <1>3, <1>4, HandedOn
  <2>2. QED BY <2>1, <1>1
<1>6. QED BY <1>5 DEF g

(* What is charged for is what ran by the log.                             *)
LEMMA ExactUsage ==
  ASSUME NEW n \in Nat, LogUntil(log, n), NEW from \in Nat, NEW to \in Nat, from <= to,
         StopsStop(log), StartsStart(log)
  PROVE  Cardinality(RunTicks(from, to)) - UsageSeconds(from, to) * TicksPerSecond
           \in 0..(TicksPerSecond - 1) * (Cardinality(UsageEvents(from, to)) + 1)
<1> DEFINE E == UsageEvents(from, to)
<1>1. Len(log) \in Nat /\ E \subseteq 1..Len(log)  BY SelectedEvents
<1>2. CASE E = {}
  <2> DEFINE runs == UsageEvents(0, from) # {}
                       /\ log[Max(UsageEvents(0, from))].type = "start"
  <2>1. \A t \in from..(to - 1) : RunsBy(log, t) <=> runs
    BY <1>2, PriorDecides
  <2>2. UsageSeconds(from, to) = IF runs THEN NumSeconds(to - from) ELSE 0
    BY <1>2 DEF UsageSeconds, UsageWithoutEvents
  <2> HIDE DEF runs
  <2>3. Cardinality(RunTicks(from, to)) = IF runs THEN to - from ELSE 0
    <3>1. RunTicks(from, from) = {}  BY DEF RunTicks
    <3>2. Cardinality(RunTicks(from, from)) = 0  BY <3>1, FS_EmptySet
    <3>3. runs => Cardinality(RunTicks(from, to)) = 0 + (to - from)
      BY <3>2, <2>1, MoreTicks
    <3>4. ~runs => Cardinality(RunTicks(from, to)) = 0
      BY <3>2, <2>1, MoreTicks
    <3>5. QED BY <3>3, <3>4
  <2>4. Cardinality(E) = 0  BY <1>2, FS_EmptySet
  <2>5. to - from \in Nat /\ 0 - 0 * TicksPerSecond \in 0..(TicksPerSecond - 1) * 0
    BY TimeFacts
  <2>6. /\ (0 + (to - from)) - (0 + NumSeconds(to - from)) * TicksPerSecond
             \in 0..(TicksPerSecond - 1) * (0 + 1)
        /\ 0 - 0 * TicksPerSecond \in 0..(TicksPerSecond - 1) * (0 + 1)
    BY <2>5, TruncatedPart
  <2>7. NumSeconds(to - from) \in Nat  BY <2>5, WholeSeconds
  <2>8. 0 + (to - from) = to - from /\ 0 + NumSeconds(to - from) = NumSeconds(to - from)
    BY <2>7
  <2>9. CASE runs  BY <2>2, <2>3, <2>4, <2>6, <2>8, <2>9
  <2>10. CASE ~runs  BY <2>2, <2>3, <2>4, <2>6, <2>10
  <2>11. QED BY <2>9, <2>10
<1>3. CASE E # {}
  <2> DEFINE since == IF log[Min(E)].type = "stop" THEN from ELSE NotRunning
             m == Metering(E, since)[Len(log)]
  <2>1. UsageSeconds(from, to) = Reading(m, to)
    BY <1>3 DEF UsageSeconds, UsageWithEvents
  <2>2. PICK y : Follows(m, from, to, E, Len(log), y)
    BY <1>3, LoopFollows
  <2>3. Seen(E, Len(log)) = E /\ Cardinality(E) \in Nat
    BY <1>1, SeenEvents
  <2> HIDE DEF m, E
  <2> DEFINE c == Cardinality(RunTicks(from, y))
             b == Cardinality(E)
  <2>4. /\ y \in from..to /\ m.total \in Nat /\ m.since \in {NotRunning, y}
        /\ RunsFrom(m, E, Len(log), y, to) /\ StandsFrom(m, E, Len(log), y, to)
        /\ c - m.total * TicksPerSecond \in 0..(TicksPerSecond - 1) * b
    BY <2>2, <2>3 DEF Follows
  <2>5. y \in Nat /\ to - y \in Nat /\ from <= y /\ y <= to  BY <2>4
  <2>6. \A t \in y..(to - 1) : Until(t, E, Len(log))
    BY <1>1 DEF Until
  <2>7. c \in Nat  BY <2>5, TicksAreFinite
  <2>8. /\ (c + (to - y)) - (m.total + NumSeconds(to - y)) * TicksPerSecond
             \in 0..(TicksPerSecond - 1) * (b + 1)
        /\ c - m.total * TicksPerSecond \in 0..(TicksPerSecond - 1) * (b + 1)
    <3> HIDE DEF c, b
    <3>1. b \in Nat  BY <2>3 DEF b
    <3>2. QED BY <3>1, <2>4, <2>5, <2>7, TruncatedPart
  <2>9. CASE m.since = NotRunning
    <3>1. \A t \in y..(to - 1) : ~RunsBy(log, t)  BY <2>4, <2>6, <2>9 DEF StandsFrom
    <3>2. Cardinality(RunTicks(from, to)) = c  BY <3>1, <2>5, MoreTicks
    <3>3. Reading(m, to) = m.total  BY <2>4, <2>9 DEF Reading
    <3>4. QED BY <3>2, <3>3, <2>1, <2>8 DEF E
  <2>10. CASE m.since # NotRunning
    <3>1. \A t \in y..(to - 1) : RunsBy(log, t)  BY <2>4, <2>6, <2>10 DEF RunsFrom
    <3>2. Cardinality(RunTicks(from, to)) = c + (to - y)  BY <3>1, <2>5, MoreTicks
    <3>3. Reading(m, to) = m.total + NumSeconds(to - y)  BY <2>4, <2>10 DEF Reading
    <3>4. QED BY <3>2, <3>3, <2>1, <2>8 DEF E
  <2>11. QED BY <2>9, <2>10
<1>4. QED BY <1>2, <1>3

(* The ticks of a period that ran are those that ran by the log.           *)
LEMMA RanByTheLog ==
  ASSUME MeteringInv, Faithful, NEW p, p.from \in Nat, p.to \in Nat, p.to <= now
  PROVE  Cardinality(RanIn(p)) = Cardinality(RunTicks(p.from, p.to))
<1> DEFINE S == RanIn(p)
           R == RunTicks(p.from, p.to)
           f == [r \in S |-> r[1]]
<1>1. now \in Nat /\ RanAsLogged /\ RanOnce
  BY TimeFacts DEF MeteringInv, StateTypes, LogIsFaithful
<1>2. \A t \in p.from..(p.to - 1) : t \in 0..(now - 1)  BY <1>1
<1>3. \A r \in S : r \in ran /\ r[1] \in p.from..(p.to - 1)
  BY DEF RanIn, Ticks
<1>4. \A r \in S : r[1] \in R
  <2>1. TAKE r \in S
  <2>2. r[1] \in 0..(now - 1) /\ r \in ran  BY <1>2, <1>3
  <2>3. RunsBy(log, r[1])  BY <2>2, <1>1 DEF RanAsLogged
  <2>4. QED BY <2>3, <1>3 DEF RunTicks
<1>5. \A t \in R : \E r \in S : r[1] = t
  <2>1. TAKE t \in R
  <2>2. t \in p.from..(p.to - 1) /\ RunsBy(log, t)  BY DEF RunTicks
  <2>3. \E r \in ran : r[1] = t  BY <2>2, <1>1, <1>2 DEF RanAsLogged
  <2>4. QED BY <2>2, <2>3 DEF RanIn, Ticks
<1>6. \A r, s \in S : r[1] = s[1] => r = s
  BY <1>1, <1>3 DEF RanOnce
<1> HIDE DEF S, R
<1>7. f \in [S -> R]  BY <1>4
<1>8. f \in Injection(S, R)
  BY <1>6, <1>7 DEF Injection, IsInjective
<1>9. f \in Surjection(S, R)
  BY <1>5, <1>7 DEF Surjection
<1>10. IsFiniteSet(R)  BY TicksAreFinite DEF R
<1>11. Cardinality(S) = Cardinality(R)
  <2> HIDE DEF f
  <2>1. QED BY <1>8, <1>9, <1>10, FS_Injection
<1>12. QED BY <1>11 DEF S, R

LEMMA ExactFollows == MeteringInv => ExactWhenRegular
<1> SUFFICES ASSUME MeteringInv, Regular, NEW p \in Readable
             PROVE  Exact(p)
  BY DEF ExactWhenRegular
<1>1. Faithful  BY RegularIsFaithful
<1>2. now \in Nat /\ LogUntil(log, now) /\ StopsStop(log) /\ StartsStart(log)
  BY <1>1, TimeFacts DEF MeteringInv, StateTypes, LogTypes, LogIsFaithful
<1>3. p.from \in Nat /\ p.to \in Nat /\ p.from <= p.to /\ p.to <= now
  BY <1>2, Periods
<1> DEFINE missing == Cardinality(RunTicks(p.from, p.to)) - Usage(p) * TicksPerSecond
           bound == (TicksPerSecond - 1) * (Cardinality(UsageEvents(p.from, p.to)) + 1)
<1>4. missing \in 0..bound
  BY <1>2, <1>3, ExactUsage DEF Usage
<1>5. Cardinality(RanIn(p)) = Cardinality(RunTicks(p.from, p.to))
  BY <1>1, <1>3, RanByTheLog
<1> HIDE DEF missing, bound
<1>6. missing >= 0 /\ missing <= bound  BY <1>4
<1>7. QED BY <1>5, <1>6 DEF Exact, missing, bound

(* When each call found the container as its event says, the hours of      *)
(* every month, and of the current one so far, are the hours it ran, but   *)
(* for less than a second for each interval.                               *)
THEOREM RegularIsExact == Spec => []ExactWhenRegular
  BY MeteringInvariance, ExactFollows, PTL

-----------------------------------------------------------------------------
(* The page with the current usage, computed from any log                  *)

EventsOf(l, from, to) == {i \in DOMAIN l : from <= l[i].at /\ l[i].at <= to}

FirstSince(l, events, from) ==
  IF l[Min(events)].type = "stop" THEN from ELSE NotRunning

UsageOf(l, from, to) ==
  LET events == EventsOf(l, from, to)
      prior  == EventsOf(l, 0, from)
  IN IF events = {}
     THEN IF prior # {} /\ l[Max(prior)].type = "start" THEN NumSeconds(to - from) ELSE 0
     ELSE Reading(MeteringOf(l, events, FirstSince(l, events, from))[Len(l)], to)

TotalOf(seconds, items) ==
  MapThenSumSet(LAMBDA item : CalculateAmount(seconds, item.plan), items)

(* The sum of a finite set, along which CHOOSE takes the elements.         *)
Some(s) == CHOOSE x \in s : TRUE

IsSum(f, u, D) ==
  f = [s \in D |-> IF s = {} THEN 0
                   ELSE CalculateAmount(u, Some(s).plan) + f[s \ {Some(s)}]]

LEMMA TotalUnfold ==
  ASSUME NEW u, NEW S
  PROVE  TotalOf(u, S) = (CHOOSE f : IsSum(f, u, SUBSET S))[S]
  BY Zenon DEF TotalOf, MapThenSumSet, MapThenFoldSet, IsSum, Some

(* Subsets of a finite set with no more than so many elements.             *)
UpTo(S, n) == {s \in SUBSET S : Cardinality(s) <= n}

(* A set without one of its elements has one less.                         *)
LEMMA SmallerSubsets ==
  ASSUME NEW S, IsFiniteSet(S), NEW n \in Nat
  PROVE  /\ \A s \in UpTo(S, n) : s # {} => s \ {Some(s)} \in UpTo(S, n)
         /\ \A s \in UpTo(S, n + 1) : s # {} => /\ Some(s) \in s
                                              /\ s \ {Some(s)} \in UpTo(S, n)
         /\ UpTo(S, n) \subseteq UpTo(S, n + 1)
         /\ UpTo(S, 0) = {{}}
         /\ UpTo(S, Cardinality(S)) = SUBSET S
<1>1. \A s \in SUBSET S : IsFiniteSet(s) /\ Cardinality(s) \in Nat
                          /\ Cardinality(s) <= Cardinality(S)
  BY FS_Subset, FS_CardinalityType
<1>2. ASSUME NEW s \in SUBSET S, s # {}
      PROVE  /\ Some(s) \in s /\ s \ {Some(s)} \in SUBSET S
             /\ Cardinality(s \ {Some(s)}) = Cardinality(s) - 1
  <2>1. Some(s) \in s  BY <1>2 DEF Some
  <2>2. QED BY <2>1, <1>1, FS_RemoveElement
<1>3. UpTo(S, 0) = {{}}
  <2>1. ASSUME NEW s \in SUBSET S, Cardinality(s) <= 0 PROVE s = {}
    <3>1. Cardinality(s) = 0 /\ IsFiniteSet(s)  BY <2>1, <1>1
    <3>2. QED BY <3>1, FS_EmptySet
  <2>2. Cardinality({}) = 0 /\ {} \in SUBSET S  BY FS_EmptySet
  <2>3. QED BY <2>1, <2>2 DEF UpTo
<1>4. \A s \in UpTo(S, n) : s \in SUBSET S /\ Cardinality(s) <= n  BY DEF UpTo
<1>5. \A s \in UpTo(S, n + 1) : s \in SUBSET S /\ Cardinality(s) <= n + 1  BY DEF UpTo
<1>6. \A s \in UpTo(S, n) : s # {} => s \ {Some(s)} \in UpTo(S, n)
  <2>1. SUFFICES ASSUME NEW s \in UpTo(S, n), s # {}
                 PROVE  s \ {Some(s)} \in SUBSET S /\ Cardinality(s \ {Some(s)}) <= n
    BY DEF UpTo
  <2>2. QED BY <2>1, <1>1, <1>2, <1>4
<1>7. \A s \in UpTo(S, n + 1) : s # {} => Some(s) \in s /\ s \ {Some(s)} \in UpTo(S, n)
  <2>1. SUFFICES ASSUME NEW s \in UpTo(S, n + 1), s # {}
                 PROVE  /\ Some(s) \in s
                        /\ s \ {Some(s)} \in SUBSET S /\ Cardinality(s \ {Some(s)}) <= n
    BY DEF UpTo
  <2>2. QED BY <2>1, <1>1, <1>2, <1>5
<1>8. UpTo(S, n) \subseteq UpTo(S, n + 1)  BY <1>1 DEF UpTo
<1>9. UpTo(S, Cardinality(S)) = SUBSET S  BY <1>1 DEF UpTo
<1>10. QED BY <1>3, <1>6, <1>7, <1>8, <1>9

(* The sum over a finite set is well defined.                              *)
LEMMA SumDefined ==
  ASSUME NEW u, NEW S, IsFiniteSet(S)
  PROVE  \E g : IsSum(g, u, SUBSET S)
<1> DEFINE amount(s) == CalculateAmount(u, Some(s).plan)
           T == {n \in Nat : \E g : IsSum(g, u, UpTo(S, n))}
<1>1. 0 \in T
  <2> DEFINE g == [s \in UpTo(S, 0) |-> 0]
  <2>1. UpTo(S, 0) = {{}}  BY SmallerSubsets
  <2>2. IsSum(g, u, UpTo(S, 0))  BY <2>1 DEF IsSum
  <2>3. QED BY <2>2
<1>2. ASSUME NEW n \in 0..(Cardinality(S) - 1), n \in T
      PROVE  n + 1 \in T
  <2>1. PICK g : IsSum(g, u, UpTo(S, n))  BY <1>2
  <2> DEFINE h == [s \in UpTo(S, n + 1) |->
                     IF s = {} THEN 0 ELSE amount(s) + g[s \ {Some(s)}]]
  <2>2. /\ \A s \in UpTo(S, n) : s # {} => s \ {Some(s)} \in UpTo(S, n)
        /\ \A s \in UpTo(S, n + 1) : s # {} => s \ {Some(s)} \in UpTo(S, n)
        /\ UpTo(S, n) \subseteq UpTo(S, n + 1)
    <3>1. n \in Nat  OBVIOUS
    <3>2. QED BY <3>1, SmallerSubsets
  <2>3. \A s \in UpTo(S, n) :
          g[s] = IF s = {} THEN 0 ELSE amount(s) + g[s \ {Some(s)}]
    BY <2>1 DEF IsSum
  <2> HIDE DEF amount
  <2>4. \A s \in UpTo(S, n) : h[s] = g[s]  BY <2>2, <2>3
  <2>5. \A s \in UpTo(S, n + 1) :
          h[s] = IF s = {} THEN 0 ELSE amount(s) + h[s \ {Some(s)}]
    BY <2>2, <2>4
  <2>6. h = [s \in UpTo(S, n + 1) |-> h[s]]  OBVIOUS
  <2> HIDE DEF h
  <2>7. h = [s \in UpTo(S, n + 1) |->
               IF s = {} THEN 0 ELSE amount(s) + h[s \ {Some(s)}]]
    BY <2>5, <2>6
  <2>8. IsSum(h, u, UpTo(S, n + 1))  BY <2>7 DEF IsSum, amount
  <2>9. n + 1 \in Nat  OBVIOUS
  <2>10. QED BY <2>8, <2>9
<1>3. Cardinality(S) \in Nat  BY FS_CardinalityType
<1>4. Cardinality(S) \in T
  <2> HIDE DEF T
  <2>1. 0..Cardinality(S) \subseteq T  BY <1>1, <1>2, <1>3, HandedOn
  <2>2. QED BY <2>1, <1>3
<1>5. UpTo(S, Cardinality(S)) = SUBSET S  BY <1>3, SmallerSubsets
<1>6. QED BY <1>4, <1>5

(* A total is a natural number, no less than any amount in it.             *)
LEMMA TotalCovers ==
  ASSUME NEW u, NEW S, IsFiniteSet(S),
         \A x \in S : CalculateAmount(u, x.plan) \in Nat
  PROVE  /\ TotalOf(u, S) \in Nat
         /\ \A x \in S : CalculateAmount(u, x.plan) <= TotalOf(u, S)
         /\ S = {} => TotalOf(u, S) = 0
<1> DEFINE amount(x) == CalculateAmount(u, x.plan)
           g == CHOOSE f : IsSum(f, u, SUBSET S)
           Covers(s) == g[s] \in Nat /\ \A x \in s : amount(x) <= g[s]
           T == {n \in Nat : \A s \in UpTo(S, n) : Covers(s)}
<1>1. IsSum(g, u, SUBSET S)  BY SumDefined
<1>2. TotalOf(u, S) = g[S]  BY TotalUnfold
<1> HIDE DEF g
<1>3. \A s \in SUBSET S :
        g[s] = IF s = {} THEN 0 ELSE amount(Some(s)) + g[s \ {Some(s)}]
  BY <1>1 DEF IsSum
<1> HIDE DEF amount
<1>4. \A x \in S : amount(x) \in Nat  BY DEF amount
<1>5. 0 \in T
  <2>1. UpTo(S, 0) = {{}}  BY SmallerSubsets
  <2>2. g[{}] = 0  BY <1>3
  <2>3. Covers({})  BY <2>2
  <2> HIDE DEF Covers
  <2>4. QED BY <2>1, <2>3
<1>6. ASSUME NEW n \in 0..(Cardinality(S) - 1), n \in T
      PROVE  n + 1 \in T
  <2>1. n \in Nat /\ n + 1 \in Nat  OBVIOUS
  <2>2. ASSUME NEW s \in UpTo(S, n + 1)
        PROVE  Covers(s)
    <3>1. s \in SUBSET S  BY DEF UpTo
    <3>2. CASE s = {}
      <4>1. g[s] = 0  BY <3>2, <3>1, <1>3
      <4>2. QED BY <4>1, <3>2
    <3>3. CASE s # {}
      <4> DEFINE r == s \ {Some(s)}
      <4>1. Some(s) \in s /\ r \in UpTo(S, n)  BY <3>3, <2>1, SmallerSubsets
      <4>2. g[r] \in Nat /\ \A x \in r : amount(x) <= g[r]  BY <4>1, <1>6
      <4>3. g[s] = amount(Some(s)) + g[r]  BY <3>1, <3>3, <1>3
      <4>4. amount(Some(s)) \in Nat  BY <4>1, <3>1, <1>4
      <4>5. ASSUME NEW x \in s PROVE amount(x) <= g[s]
        <5>1. amount(x) \in Nat  BY <3>1, <1>4
        <5>2. CASE x = Some(s)  BY <5>2, <4>2, <4>3, <4>4
        <5>3. CASE x # Some(s)
          <6>1. amount(x) <= g[r]  BY <5>3, <4>2
          <6>2. QED BY <6>1, <5>1, <4>2, <4>3, <4>4
        <5>4. QED BY <5>2, <5>3
      <4>6. g[s] \in Nat  BY <4>2, <4>3, <4>4
      <4>7. QED BY <4>5, <4>6, Zenon
    <3>4. QED BY <3>2, <3>3
  <2> HIDE DEF Covers
  <2>3. QED BY <2>1, <2>2
<1>7. Cardinality(S) \in Nat  BY FS_CardinalityType
<1>8. Cardinality(S) \in T
  <2> HIDE DEF T
  <2>1. 0..Cardinality(S) \subseteq T  BY <1>5, <1>6, <1>7, HandedOn
  <2>2. QED BY <2>1, <1>7
<1>9. S \in UpTo(S, Cardinality(S))  BY <1>7 DEF UpTo
<1>10. g[S] \in Nat /\ \A x \in S : amount(x) <= g[S]  BY <1>8, <1>9
<1>11. S = {} => g[S] = 0  BY <1>3
<1>12. QED BY <1>2, <1>10, <1>11 DEF amount

-----------------------------------------------------------------------------
(* Division by the seconds of an hour does not fall when what is divided   *)
(* grows.                                                                  *)
LEMMA DividedGrows ==
  ASSUME NEW D \in Nat \ {0}, NEW a \in Nat, NEW b \in Nat, a <= b
  PROVE  a \div D \in Nat /\ a \div D <= b \div D
<1> DEFINE q == a \div D
           r == b \div D
<1>1. /\ q \in Nat /\ q * D \in Nat /\ q * D <= a
      /\ r \in Nat /\ r * D \in Nat /\ b < r * D + D
  BY SMT
<1> HIDE DEF q, r
<1>2. q * D < r * D + D  BY <1>1
<1>3. q <= r  BY <1>1, <1>2, Quotients
<1>4. QED BY <1>1, <1>3 DEF q, r

(* The minimum of two.                                                     *)
LEMMA SmallerOf ==
  ASSUME NEW a \in Nat, NEW b \in Nat
  PROVE  Min({a, b}) = IF a <= b THEN a ELSE b
<1>1. \E n \in {a, b} : \A m \in {a, b} : n <= m  OBVIOUS
<1>2. Min({a, b}) \in {a, b} /\ \A m \in {a, b} : Min({a, b}) <= m
  BY <1>1 DEF Min
<1>3. QED BY <1>2

(* An amount is a natural number that grows with the seconds, from 0.      *)
LEMMA AmountGrows ==
  ASSUME NEW s \in Nat, NEW t \in Nat, s <= t, NEW p \in Plans \cup {NoPlan}
  PROVE  /\ CalculateAmount(s, p) \in Nat
         /\ CalculateAmount(s, p) <= CalculateAmount(t, p)
         /\ CalculateAmount(0, p) = 0
<1>1. CASE p = NoPlan  BY <1>1 DEF CalculateAmount
<1>2. CASE p # NoPlan
  <2> DEFINE h == HourlyPrice[p]
             c == MonthlyPrice[p]
             a == s * h + SecondsPerHour - 1
             b == t * h + SecondsPerHour - 1
             z == 0 * h + SecondsPerHour - 1
  <2>1. h \in Nat /\ c \in Nat /\ SecondsPerHour \in Nat \ {0}
    <3>1. SecondsPerHour \in {TicksPerSecond, SecondsPerHour, MonthTicks, Months}  OBVIOUS
    <3>2. QED BY <3>1, <1>2, MeteringAssumption
  <2>2. /\ CalculateAmount(s, p) = Min({a \div SecondsPerHour, c})
        /\ CalculateAmount(t, p) = Min({b \div SecondsPerHour, c})
        /\ CalculateAmount(0, p) = Min({z \div SecondsPerHour, c})
    BY <1>2 DEF CalculateAmount
  <2> HIDE DEF h, c
  <2>3. s * h \in Nat /\ t * h \in Nat /\ s * h <= t * h
    <3>1. t - s \in Nat  OBVIOUS
    <3>2. (t - s) * h \in Nat /\ s * h \in Nat /\ t * h \in Nat  BY <3>1, <2>1
    <3>3. t * h = s * h + (t - s) * h  BY <2>1
    <3>4. QED BY <3>2, <3>3
  <2>4. a \in Nat /\ b \in Nat /\ a <= b /\ z \in Nat /\ z = SecondsPerHour - 1
    BY <2>1, <2>3
  <2> HIDE DEF a, b, z
  <2>5. /\ a \div SecondsPerHour \in Nat /\ b \div SecondsPerHour \in Nat
        /\ a \div SecondsPerHour <= b \div SecondsPerHour
    BY <2>1, <2>4, DividedGrows
  <2>6. z \div SecondsPerHour = 0  BY <2>1, <2>4, SMT
  <2> DEFINE d == a \div SecondsPerHour
             e == b \div SecondsPerHour
  <2> HIDE DEF d, e
  <2>7. d \in Nat /\ e \in Nat /\ d <= e  BY <2>5 DEF d, e
  <2>8. Min({d, c}) \in Nat /\ Min({d, c}) <= Min({e, c})
    <3>1. /\ Min({d, c}) = IF d <= c THEN d ELSE c
          /\ Min({e, c}) = IF e <= c THEN e ELSE c
      BY <2>1, <2>7, SmallerOf
    <3>2. QED BY <3>1, <2>1, <2>7
  <2>9. Min({0, c}) = 0  BY <2>1, SmallerOf
  <2>10. QED BY <2>2, <2>6, <2>8, <2>9 DEF d, e
<1>3. QED BY <1>1, <1>2

-----------------------------------------------------------------------------
(* The meter of a log, read at some time                                   *)

(* Times of events of a log until n, in their order.                       *)
LEMMA EventsOfLog ==
  ASSUME NEW n \in Nat, NEW l, LogUntil(l, n), NEW from \in Nat, NEW to \in Nat
  PROVE  /\ Len(l) \in Nat /\ DOMAIN l = 1..Len(l)
         /\ (l = <<>> <=> Len(l) = 0)
         /\ EventsOf(l, from, to) \subseteq 1..Len(l)
         /\ \A i \in EventsOf(l, from, to) : l[i].at \in from..to
         /\ \A i \in 1..Len(l) : /\ l[i].at \in 0..n
                                  /\ l[i].type \in {"start", "stop"}
         /\ \A i, j \in 1..Len(l) : i <= j => l[i].at <= l[j].at
<1>1. Len(l) \in Nat /\ DOMAIN l = 1..Len(l) /\ l \in Seq(Event)
      /\ (l = <<>> <=> Len(l) = 0)
  BY DEF LogUntil
<1>2. \A i \in 1..Len(l) : l[i] \in Event  BY <1>1
<1>3. \A i \in 1..Len(l) : l[i].at \in Nat /\ l[i].type \in {"start", "stop"}
  BY <1>2, EventFacts
<1>4. \A i \in EventsOf(l, from, to) : i \in 1..Len(l) /\ l[i].at \in from..to
  BY <1>1, <1>3 DEF EventsOf
<1>5. \A i \in 1..Len(l) : l[i].at \in 0..n
  BY <1>1, <1>3 DEF LogUntil
<1>6. ASSUME NEW i \in 1..Len(l), NEW j \in 1..Len(l), i <= j
      PROVE  l[i].at <= l[j].at
  <2>1. CASE i = j  BY <2>1, <1>3
  <2>2. CASE i < j  BY <2>2, <1>1 DEF LogUntil
  <2>3. QED BY <2>1, <2>2, <1>6
<1>7. QED BY <1>1, <1>3, <1>4, <1>5, <1>6

(* What the meter of the log shows at n: since when the container runs,    *)
(* and what it had counted by then.                                        *)
Shown(l, from, n) ==
  LET events == EventsOf(l, from, n)
  IN IF events = {}
     THEN [total |-> 0, since |-> IF LastType(l, "start") THEN from ELSE NotRunning]
     ELSE MeteringOf(l, events, FirstSince(l, events, from))[Len(l)]

(* When there are events in the period, the last of the log is one.        *)
LEMMA LastIsSelected ==
  ASSUME NEW n \in Nat, NEW l, LogUntil(l, n), NEW from \in 0..n
  PROVE  LET events == EventsOf(l, from, n)
         IN /\ events # {} => /\ Len(l) \in events /\ Len(l) \in 1..Len(l)
                              /\ l # <<>>
                              /\ l[Len(l)].at \in from..n
            /\ events = {} => /\ EventsOf(l, 0, from) = 1..Len(l)
                              /\ l # <<>> => Max(1..Len(l)) = Len(l)
<1> DEFINE E == EventsOf(l, from, n)
<1>1. /\ Len(l) \in Nat /\ DOMAIN l = 1..Len(l) /\ (l = <<>> <=> Len(l) = 0)
      /\ E \subseteq 1..Len(l)
      /\ \A i \in E : l[i].at \in from..n
      /\ \A i \in 1..Len(l) : l[i].at \in 0..n
      /\ \A i, j \in 1..Len(l) : i <= j => l[i].at <= l[j].at
  BY EventsOfLog
<1>2. ASSUME E # {}
      PROVE  Len(l) \in E /\ Len(l) \in 1..Len(l) /\ l # <<>> /\ l[Len(l)].at \in from..n
  <2>1. PICK i \in E : TRUE  BY <1>2
  <2>2. i \in 1..Len(l) /\ l[i].at \in from..n  BY <1>1
  <2>3. Len(l) \in 1..Len(l) /\ l # <<>>  BY <2>2, <1>1
  <2>4. l[i].at <= l[Len(l)].at /\ l[Len(l)].at \in 0..n  BY <2>2, <2>3, <1>1
  <2>5. l[Len(l)].at \in from..n  BY <2>2, <2>4
  <2>6. Len(l) \in E  BY <2>3, <2>5, <1>1 DEF EventsOf
  <2>7. QED BY <2>3, <2>5, <2>6
<1>3. ASSUME E = {}
      PROVE  EventsOf(l, 0, from) = 1..Len(l)
  <2>1. ASSUME NEW i \in 1..Len(l)
        PROVE  l[i].at \in 0..n /\ l[i].at <= from
    <3>1. l[i].at \in 0..n  BY <1>1
    <3>2. i \notin E  BY <1>3
    <3>3. ~(from <= l[i].at)  BY <3>1, <3>2, <1>1 DEF EventsOf
    <3>4. QED BY <3>1, <3>3
  <2>2. QED BY <2>1, <1>1 DEF EventsOf
<1>4. ASSUME l # <<>>
      PROVE  Max(1..Len(l)) = Len(l)
  <2>1. 1..Len(l) # {} /\ Len(l) \in 1..Len(l)  BY <1>1, <1>4
  <2>2. Max(1..Len(l)) \in 1..Len(l) /\ \A x \in 1..Len(l) : x <= Max(1..Len(l))
    BY <2>1, <1>1, Extremes
  <2>3. QED BY <2>1, <2>2, <1>1
<1>5. QED BY <1>2, <1>3, <1>4

(* The usage of a period that ends now is the reading of that meter, which *)
(* runs when the last event says so.                                       *)
LEMMA ShownIsUsage ==
  ASSUME NEW n \in Nat, NEW l, LogUntil(l, n), NEW from \in 0..n
  PROVE  /\ UsageOf(l, from, n) = Reading(Shown(l, from, n), n)
         /\ LastType(l, "start") => Shown(l, from, n).since \in from..n
         /\ ~LastType(l, "start") => Shown(l, from, n).since = NotRunning
<1> DEFINE E == EventsOf(l, from, n)
           m == Shown(l, from, n)
<1>1. /\ Len(l) \in Nat /\ (l = <<>> <=> Len(l) = 0)
      /\ \A i \in 1..Len(l) : l[i].type \in {"start", "stop"}
  BY EventsOfLog
<1>2. from # NotRunning /\ from \in from..n  BY DEF NotRunning
<1>3. CASE E = {}
  <2>1. m.total = 0 /\ m.since = IF LastType(l, "start") THEN from ELSE NotRunning
    BY <1>3 DEF Shown
  <2>2. LET prior == EventsOf(l, 0, from)
        IN prior # {} /\ l[Max(prior)].type = "start" <=> LastType(l, "start")
    <3>1. EventsOf(l, 0, from) = 1..Len(l)  BY <1>3, LastIsSelected
    <3>2. CASE l = <<>>  BY <3>1, <3>2, <1>1 DEF LastType
    <3>3. CASE l # <<>>
      <4>1. Max(1..Len(l)) = Len(l)  BY <1>3, <3>3, LastIsSelected
      <4>2. 1..Len(l) # {}  BY <1>1, <3>3
      <4>3. QED BY <4>1, <4>2, <3>1, <3>3 DEF LastType
    <3>4. QED BY <3>2, <3>3
  <2>3. UsageOf(l, from, n) = IF LastType(l, "start") THEN NumSeconds(n - from) ELSE 0
    BY <1>3, <2>2 DEF UsageOf
  <2>4. n - from \in Nat  OBVIOUS
  <2>5. NumSeconds(n - from) \in Nat  BY <2>4, WholeSeconds
  <2> HIDE DEF m
  <2>6. Reading(m, n) = IF LastType(l, "start") THEN NumSeconds(n - from) ELSE 0
    BY <2>1, <2>5, <1>2 DEF Reading
  <2>7. QED BY <2>1, <2>3, <2>6, <1>2 DEF m
<1>4. CASE E # {}
  <2> DEFINE since == FirstSince(l, E, from)
             g == MeteringOf(l, E, since)
  <2>1. m = g[Len(l)]  BY <1>4 DEF Shown
  <2>2. UsageOf(l, from, n) = Reading(m, n)
    BY <2>1, <1>4 DEF UsageOf
  <2>3. Len(l) \in E /\ Len(l) \in 1..Len(l) /\ l # <<>> /\ l[Len(l)].at \in from..n
    BY <1>4, LastIsSelected
  <2>4. m = Meter(g[Len(l) - 1], l[Len(l)])
    <3>1. /\ g[0] = [total |-> 0, since |-> since]
          /\ \A i \in 1..Len(l) : g[i] = IF i \in E THEN Meter(g[i - 1], l[i]) ELSE g[i - 1]
      <4> HIDE DEF E, since
      <4>1. Len(l) \in Nat  BY <1>1
      <4>2. QED BY <4>1, MeterOfSteps
    <3> HIDE DEF m, g, E
    <3>2. QED BY <3>1, <2>1, <2>3
  <2>5. l[Len(l)].type = "start" => m.since = l[Len(l)].at  BY <2>4 DEF Meter
  <2>6. l[Len(l)].type = "stop" => m.since = NotRunning  BY <2>4 DEF Meter
  <2> HIDE DEF m
  <2>7. l[Len(l)].type \in {"start", "stop"}  BY <2>3, <1>1
  <2>8. QED BY <2>2, <2>3, <2>5, <2>6, <2>7 DEF LastType, m
<1>5. QED BY <1>3, <1>4

(* The clock does not change what is shown.                                *)
LEMMA ShownStays ==
  ASSUME NEW n \in Nat, NEW l, LogUntil(l, n), NEW from \in 0..n
  PROVE  /\ EventsOf(l, from, n + 1) = EventsOf(l, from, n)
         /\ Shown(l, from, n + 1) = Shown(l, from, n)
         /\ LogUntil(l, n + 1)
<1>1. /\ DOMAIN l = 1..Len(l) /\ \A i \in 1..Len(l) : l[i].at \in 0..n
  BY EventsOfLog
<1>2. EventsOf(l, from, n + 1) = EventsOf(l, from, n)  BY <1>1 DEF EventsOf
<1>3. LogUntil(l, n + 1)  BY <1>1 DEF LogUntil
<1>4. QED BY <1>2, <1>3 DEF Shown

(* The meter sees a new event of the present as the loop sees an event.    *)
LEMMA ShownFollows ==
  ASSUME NEW n \in Nat, NEW l, LogUntil(l, n), NEW from \in 0..n,
         NEW e \in Event, e.at = n,
         e.type = "stop" <=> LastType(l, "start")
  PROVE  Shown(l \o <<e>>, from, n) = Meter(Shown(l, from, n), e)
<1> DEFINE k == l \o <<e>>
           E == EventsOf(l, from, n)
           F == EventsOf(k, from, n)
<1>1. /\ k \in Seq(Event) /\ DOMAIN k = 1..(Len(l) + 1) /\ Len(l) \in Nat
      /\ DOMAIN l = 1..Len(l) /\ Len(k) = Len(l) + 1
      /\ \A i \in 1..Len(l) : k[i] = l[i]
      /\ k[Len(l) + 1] = e
  BY AppendFacts DEF LogUntil
<1>2. E \subseteq 1..Len(l)  BY EventsOfLog
<1>3. e.type \in {"start", "stop"}  BY EventFacts
<1> HIDE DEF k
<1>4. F = E \cup {Len(l) + 1}
  <2>1. \A i \in 1..Len(l) : i \in F <=> i \in E  BY <1>1 DEF EventsOf
  <2>2. Len(l) + 1 \in F  BY <1>1 DEF EventsOf
  <2>3. F \subseteq 1..(Len(l) + 1)  BY <1>1 DEF EventsOf
  <2>4. QED BY <2>1, <2>2, <2>3, <1>1, <1>2
<1> HIDE DEF F
<1>5. F # {} /\ F \subseteq 1..(Len(l) + 1)  BY <1>4, <1>2, <1>1
<1>6. Min(F) \in F /\ \A x \in F : Min(F) <= x  <2>1. Len(l) + 1 \in Nat  BY <1>1
  <2>2. QED BY <2>1, <1>5, Extremes
<1> DEFINE since == FirstSince(k, F, from)
           h == MeteringOf(k, F, since)
<1>7. Shown(k, from, n) = h[Len(l) + 1]  BY <1>5, <1>1 DEF Shown, F
<1>8. /\ h[0] = [total |-> 0, since |-> since]
      /\ \A i \in 1..(Len(l) + 1) :
           h[i] = IF i \in F THEN Meter(h[i - 1], k[i]) ELSE h[i - 1]
  <2>1. Len(k) \in Nat  BY <1>1
  <2>2. QED BY <2>1, <1>1, MeterOfSteps
<1> HIDE DEF h
<1>9. h[Len(l) + 1] = Meter(h[Len(l)], e)
  <2>1. Len(l) + 1 \in 1..(Len(l) + 1) /\ (Len(l) + 1) - 1 = Len(l)  BY <1>1
  <2>2. QED BY <2>1, <1>8, <1>4, <1>1
<1>10. h[Len(l)] = Shown(l, from, n)
  <2>1. CASE E = {}
    <3>1. F = {Len(l) + 1} /\ Min(F) = Len(l) + 1  BY <2>1, <1>4, <1>6
    <3>2. since = IF LastType(l, "start") THEN from ELSE NotRunning
      BY <3>1, <1>1, <1>3 DEF FirstSince
    <3> HIDE DEF since
    <3> DEFINE T == {i \in 0..Len(l) : h[i] = h[0]}
    <3>3. 0 \in T  BY <1>1
    <3>4. ASSUME NEW i \in 0..(Len(l) - 1), i \in T
          PROVE  i + 1 \in T
      <4>1. i + 1 \in 1..(Len(l) + 1) /\ i + 1 \notin F /\ (i + 1) - 1 = i
            /\ i + 1 \in 0..Len(l)
        BY <3>1, <1>1
      <4>2. h[i + 1] = h[i]  BY <4>1, <1>8
      <4>3. QED BY <4>1, <4>2, <3>4
    <3>5. Len(l) \in T
      <4> HIDE DEF T
      <4>1. 0..Len(l) \subseteq T  BY <1>1, <3>3, <3>4, HandedOn
      <4>2. QED BY <4>1, <1>1
    <3>6. h[Len(l)] = [total |-> 0, since |-> since]  BY <3>5, <1>8
    <3>7. QED BY <3>6, <3>2, <2>1 DEF Shown
  <2>2. CASE E # {}
    <3> DEFINE g == MeteringOf(l, E, FirstSince(l, E, from))
               T == {i \in 0..Len(l) : h[i] = g[i]}
    <3>1. Shown(l, from, n) = g[Len(l)]  BY <2>2 DEF Shown
    <3>2. /\ g[0] = [total |-> 0, since |-> FirstSince(l, E, from)]
          /\ \A i \in 1..Len(l) :
               g[i] = IF i \in E THEN Meter(g[i - 1], l[i]) ELSE g[i - 1]
      BY <1>1, MeterOfSteps
    <3>3. Min(E) \in E /\ \A x \in E : Min(E) <= x  BY <2>2, <1>1, <1>2, Extremes
    <3>4. Min(F) = Min(E)
      <4>1. Min(E) \in F /\ Min(E) \in 1..Len(l)  BY <3>3, <1>2, <1>4
      <4>2. Min(F) <= Min(E)  BY <4>1, <1>6
      <4>3. Min(F) \in 1..(Len(l) + 1) /\ Min(F) # Len(l) + 1
        <5>1. Min(F) \in 1..(Len(l) + 1)  BY <1>5, <1>6
        <5>2. Min(E) \in 1..Len(l) /\ Len(l) \in Nat  BY <4>1, <1>1
        <5>3. QED BY <5>1, <5>2, <4>2
      <4>4. Min(F) \in E  BY <4>3, <1>4, <1>6
      <4>5. Min(E) <= Min(F)  BY <4>4, <3>3
      <4>6. QED BY <4>1, <4>2, <4>3, <4>5, <1>1
    <3>5. since = FirstSince(l, E, from)
      <4>1. k[Min(E)] = l[Min(E)]  BY <3>3, <1>1, <1>2
      <4>2. QED BY <4>1, <3>4 DEF FirstSince
    <3> HIDE DEF g, since
    <3>6. 0 \in T  BY <3>2, <3>5, <1>1, <1>8
    <3>7. ASSUME NEW i \in 0..(Len(l) - 1), i \in T
          PROVE  i + 1 \in T
      <4>1. i + 1 \in 1..(Len(l) + 1) /\ i + 1 \in 1..Len(l) /\ (i + 1) - 1 = i
            /\ i + 1 \in 0..Len(l) /\ i + 1 # Len(l) + 1
        BY <1>1
      <4>2. i + 1 \in F <=> i + 1 \in E  BY <4>1, <1>4
      <4>3. k[i + 1] = l[i + 1]  BY <4>1, <1>1
      <4>4. h[i + 1] = IF i + 1 \in E THEN Meter(h[i], l[i + 1]) ELSE h[i]
        BY <4>1, <4>2, <4>3, <1>8
      <4>5. g[i + 1] = IF i + 1 \in E THEN Meter(g[i], l[i + 1]) ELSE g[i]
        BY <4>1, <3>2
      <4>6. h[i] = g[i]  BY <3>7
      <4>7. QED BY <4>1, <4>4, <4>5, <4>6
    <3>8. Len(l) \in T
      <4> HIDE DEF T
      <4>1. 0..Len(l) \subseteq T  BY <1>1, <3>6, <3>7, HandedOn
      <4>2. QED BY <4>1, <1>1
    <3>9. QED BY <3>1, <3>8 DEF g
  <2>3. QED BY <2>1, <2>2
<1>11. QED BY <1>7, <1>9, <1>10 DEF k

(* An event that says what the container does turns the meter on or off,   *)
(* and leaves what it shows.                                               *)
LEMMA UsageKept ==
  ASSUME NEW n \in Nat, NEW l, LogUntil(l, n), NEW from \in 0..n,
         Shown(l, from, n).total \in Nat,
         NEW e \in Event, e.at = n,
         e.type = "stop" <=> LastType(l, "start")
  PROVE  /\ LogUntil(l \o <<e>>, n)
         /\ Shown(l \o <<e>>, from, n).total \in Nat
         /\ UsageOf(l \o <<e>>, from, n) = UsageOf(l, from, n)
<1> DEFINE k == l \o <<e>>
           m == Shown(l, from, n)
           x == Meter(m, e)
<1>1. LogUntil(k, n)  BY LogGrows
<1>2. Shown(k, from, n) = x  BY ShownFollows
<1>3. /\ UsageOf(l, from, n) = Reading(m, n)
      /\ LastType(l, "start") => m.since \in from..n
      /\ ~LastType(l, "start") => m.since = NotRunning
  BY ShownIsUsage
<1>4. UsageOf(k, from, n) = Reading(x, n)
  BY <1>1, <1>2, ShownIsUsage
<1>5. n # NotRunning /\ \A t \in from..n : t # NotRunning  BY DEF NotRunning
<1>6. e.type \in {"start", "stop"}  BY EventFacts
<1> HIDE DEF k, m
<1>7. m.total \in Nat  BY DEF m
<1>8. CASE e.type = "start"
  <2>1. m.since = NotRunning  BY <1>8, <1>3
  <2>2. x.since = n /\ x.total = m.total  BY <1>8 DEF Meter
  <2> HIDE DEF x
  <2>3. Reading(m, n) = m.total + 0  BY <2>1 DEF Reading
  <2>4. n - x.since = 0  BY <2>2
  <2>5. NumSeconds(n - x.since) = 0  BY <2>4, NoSeconds, Zenon
  <2>6. Reading(x, n) = m.total + 0  BY <2>2, <2>5, <1>5 DEF Reading
  <2>7. QED BY <2>2, <2>3, <2>6, <1>1, <1>2, <1>3, <1>4, <1>7 DEF k
<1>9. CASE e.type = "stop"
  <2>1. m.since \in from..n /\ m.since # NotRunning  BY <1>9, <1>3, <1>5
  <2>2. x.since = NotRunning /\ x.total = m.total + NumSeconds(n - m.since)
    BY <1>9, <2>1 DEF Meter
  <2> HIDE DEF x
  <2>3. n - m.since \in Nat  BY <2>1
  <2>4. NumSeconds(n - m.since) \in Nat  BY <2>3, WholeSeconds
  <2>5. Reading(m, n) = m.total + NumSeconds(n - m.since)  BY <2>1 DEF Reading
  <2>6. Reading(x, n) = x.total + 0  BY <2>2 DEF Reading
  <2>7. x.total \in Nat /\ Reading(x, n) = Reading(m, n)
    BY <2>2, <2>4, <2>5, <2>6, <1>7
  <2>8. QED BY <2>7, <1>1, <1>2, <1>3, <1>4 DEF k
<1>10. QED BY <1>6, <1>8, <1>9

(* As time goes by the usage grows, while the container runs.              *)
LEMMA UsageGoesOn ==
  ASSUME NEW n \in Nat, NEW l, LogUntil(l, n), NEW from \in 0..n,
         Shown(l, from, n).total \in Nat
  PROVE  /\ UsageOf(l, from, n) \in Nat
         /\ UsageOf(l, from, n + 1) \in Nat
         /\ UsageOf(l, from, n) <= UsageOf(l, from, n + 1)
         /\ ~LastType(l, "start") => UsageOf(l, from, n + 1) = UsageOf(l, from, n)
<1> DEFINE m == Shown(l, from, n)
<1>1. /\ UsageOf(l, from, n) = Reading(m, n)
      /\ LastType(l, "start") => m.since \in from..n
      /\ ~LastType(l, "start") => m.since = NotRunning
  BY ShownIsUsage
<1>2. LogUntil(l, n + 1) /\ Shown(l, from, n + 1) = m  BY ShownStays
<1>3. UsageOf(l, from, n + 1) = Reading(m, n + 1)
  <2>1. n + 1 \in Nat /\ from \in 0..(n + 1)  OBVIOUS
  <2>2. UsageOf(l, from, n + 1) = Reading(Shown(l, from, n + 1), n + 1)
    BY <1>2, <2>1, ShownIsUsage
  <2>3. QED BY <2>2, <1>2
<1> HIDE DEF m
<1>4. m.total \in Nat  BY DEF m
<1>5. CASE LastType(l, "start")
  <2>1. m.since \in from..n /\ m.since # NotRunning  BY <1>5, <1>1 DEF NotRunning
  <2>2. n - m.since \in Nat /\ (n + 1) - m.since \in Nat
        /\ n - m.since <= (n + 1) - m.since
    BY <2>1
  <2>3. /\ NumSeconds(n - m.since) \in Nat /\ NumSeconds((n + 1) - m.since) \in Nat
        /\ NumSeconds(n - m.since) <= NumSeconds((n + 1) - m.since)
    <3>1. NumSeconds(n - m.since) <= NumSeconds((n + 1) - m.since)
      BY <2>2, SecondsGrow
    <3>2. QED BY <3>1, <2>2, WholeSeconds
  <2>4. /\ Reading(m, n) = m.total + NumSeconds(n - m.since)
        /\ Reading(m, n + 1) = m.total + NumSeconds((n + 1) - m.since)
    BY <2>1 DEF Reading
  <2>5. QED BY <2>3, <2>4, <1>1, <1>3, <1>4, <1>5
<1>6. CASE ~LastType(l, "start")
  <2>1. m.since = NotRunning  BY <1>6, <1>1
  <2>2. Reading(m, n) = m.total + 0 /\ Reading(m, n + 1) = m.total + 0
    BY <2>1 DEF Reading
  <2>3. QED BY <2>2, <1>1, <1>3, <1>4
<1>7. QED BY <1>5, <1>6

-----------------------------------------------------------------------------
(* What the usage page shows, from a log, a container and a plan           *)

EntriesOf(l, from, to) ==
  {[name |-> l[i].name, plan |-> l[i].plan] : i \in EventsOf(l, from, to)}

ItemsOf(l, from, to) ==
  IF UsageOf(l, from, to) > 0 THEN EntriesOf(l, from, to) ELSE {}

EstimateOf(l, c, p, from, to) ==
  IF c = "removed" THEN TotalOf(UsageOf(l, from, to), ItemsOf(l, from, to))
  ELSE CalculateAmount(UsageOf(l, from, to), p)

(* These are the computations of billing.rs before a step and after it.    *)
LEMMA UsageIsOfLog ==
  /\ UsageSeconds(MonthStart(now), now) = UsageOf(log, MonthStart(now), now)
  /\ UsageSeconds(MonthStart(now), now)' = UsageOf(log', MonthStart(now'), now')
<1>1. UsageSeconds(MonthStart(now), now) = UsageOf(log, MonthStart(now), now)
  BY DEF UsageSeconds, UsageOf, UsageEvents, EventsOf, UsageWithoutEvents,
         UsageWithEvents, Metering, MeteringOf, FirstSince
<1>2. UsageSeconds(MonthStart(now), now)' = UsageOf(log', MonthStart(now'), now')
  BY DEF UsageSeconds, UsageOf, UsageEvents, EventsOf, UsageWithoutEvents,
         UsageWithEvents, Metering, MeteringOf, FirstSince, MonthStart
<1>3. QED BY <1>1, <1>2

LEMMA ItemsAreOfLog ==
  /\ LineItems(MonthStart(now), now) = ItemsOf(log, MonthStart(now), now)
  /\ LineItems(MonthStart(now), now)' = ItemsOf(log', MonthStart(now'), now')
<1>1. LineItems(MonthStart(now), now) = ItemsOf(log, MonthStart(now), now)
  BY UsageIsOfLog DEF LineItems, ItemsOf, UsageEntries, EntriesOf, UsageEvents, EventsOf
<1>2. UsageEntries(MonthStart(now), now)' = EntriesOf(log', MonthStart(now'), now')
  BY DEF UsageEntries, EntriesOf, UsageEvents, EventsOf, MonthStart
<1>3. LineItems(MonthStart(now), now)' = ItemsOf(log', MonthStart(now'), now')
  BY <1>2, UsageIsOfLog DEF LineItems, ItemsOf
<1>4. QED BY <1>1, <1>3

LEMMA TotalIsOfItems ==
  /\ InvoiceTotal(MonthStart(now), now)
       = TotalOf(UsageSeconds(MonthStart(now), now), LineItems(MonthStart(now), now))
  /\ InvoiceTotal(MonthStart(now), now)'
       = TotalOf(UsageSeconds(MonthStart(now), now)', LineItems(MonthStart(now), now)')
<1>1. InvoiceTotal(MonthStart(now), now)
        = TotalOf(UsageSeconds(MonthStart(now), now), LineItems(MonthStart(now), now))
  BY DEF InvoiceTotal, TotalOf
<1>2. InvoiceTotal(MonthStart(now), now)'
        = TotalOf(UsageSeconds(MonthStart(now), now)', LineItems(MonthStart(now), now)')
  BY Zenon DEF InvoiceTotal, TotalOf, MapThenSumSet, MapThenFoldSet
<1>3. QED BY <1>1, <1>2

LEMMA EstimateIsOfLog ==
  /\ CurrentUsage(MonthStart(now))
       = EstimateOf(log, container, plan, MonthStart(now), now)
  /\ CurrentUsage(MonthStart(now))'
       = EstimateOf(log', container', plan', MonthStart(now'), now')
<1>1. CurrentUsage(MonthStart(now))
        = EstimateOf(log, container, plan, MonthStart(now), now)
  BY UsageIsOfLog, ItemsAreOfLog, TotalIsOfItems DEF CurrentUsage, EstimateOf
<1>2. CurrentUsage(MonthStart(now))'
        = IF container' = "removed" THEN InvoiceTotal(MonthStart(now), now)'
          ELSE CalculateAmount(UsageSeconds(MonthStart(now), now)', plan')
  BY DEF CurrentUsage
<1>3. CurrentUsage(MonthStart(now))'
        = EstimateOf(log', container', plan', MonthStart(now'), now')
  BY <1>2, UsageIsOfLog, ItemsAreOfLog, TotalIsOfItems DEF EstimateOf
<1>4. QED BY <1>1, <1>3

(* An estimate is a natural number; once the database is removed it has    *)
(* the amount of each plan of the period's events.                         *)
LEMMA EstimateCovers ==
  ASSUME NEW n \in Nat, NEW l, LogUntil(l, n), NEW from \in Nat, NEW to \in Nat,
         UsageOf(l, from, to) \in Nat, NEW c, NEW p \in Plans \cup {NoPlan}
  PROVE  /\ EstimateOf(l, c, p, from, to) \in Nat
         /\ \A i \in EventsOf(l, from, to) :
              CalculateAmount(UsageOf(l, from, to), l[i].plan)
                <= EstimateOf(l, "removed", p, from, to)
<1> DEFINE u == UsageOf(l, from, to)
           E == EventsOf(l, from, to)
           S == ItemsOf(l, from, to)
<1>1. Len(l) \in Nat /\ E \subseteq 1..Len(l) /\ DOMAIN l = 1..Len(l)
  BY EventsOfLog
<1>2. IsFiniteSet(E)
  <2>1. IsFiniteSet(1..Len(l))  BY <1>1, FS_Interval
  <2>2. QED BY <2>1, <1>1, FS_Subset
<1>3. IsFiniteSet(EntriesOf(l, from, to))
  <2> DEFINE T == EntriesOf(l, from, to)
             f == [i \in E |-> [name |-> l[i].name, plan |-> l[i].plan]]
  <2>1. f \in [E -> T] /\ \A t \in T : \E i \in E : f[i] = t
    BY DEF EntriesOf
  <2>2. f \in Surjection(E, T)  BY <2>1 DEF Surjection
  <2> HIDE DEF f, T
  <2>3. IsFiniteSet(T)  BY <2>2, <1>2, FS_Surjection
  <2>4. QED BY <2>3 DEF T
<1>4. IsFiniteSet(S)  BY <1>3, FS_EmptySet DEF ItemsOf
<1>5. \A i \in E : l[i].plan \in Plans \cup {NoPlan}
  <2>1. \A i \in E : l[i] \in Event  BY <1>1 DEF LogUntil
  <2>2. QED BY <2>1 DEF Event
<1>6. \A x \in EntriesOf(l, from, to) : x.plan \in Plans \cup {NoPlan}
  BY <1>5 DEF EntriesOf
<1> HIDE DEF u
<1>7. u \in Nat  BY DEF u
<1>8. \A q \in Plans \cup {NoPlan} : /\ CalculateAmount(u, q) \in Nat
                                    /\ CalculateAmount(0, q) = 0
  BY <1>7, AmountGrows
<1>9. \A x \in S : CalculateAmount(u, x.plan) \in Nat
  <2>1. S \subseteq EntriesOf(l, from, to)  BY DEF ItemsOf
  <2>2. QED BY <2>1, <1>6, <1>8
<1>10. /\ TotalOf(u, S) \in Nat
       /\ \A x \in S : CalculateAmount(u, x.plan) <= TotalOf(u, S)
  <2> HIDE DEF S
  <2>1. QED BY <1>4, <1>9, TotalCovers
<1>11. EstimateOf(l, c, p, from, to) \in Nat
  BY <1>8, <1>10 DEF EstimateOf, u
<1>12. EstimateOf(l, "removed", p, from, to) = TotalOf(u, S)
  BY DEF EstimateOf, u
<1>13. ASSUME NEW i \in E
       PROVE  CalculateAmount(u, l[i].plan) <= TotalOf(u, S)
  <2>1. CASE u = 0
    <3>1. CalculateAmount(u, l[i].plan) = 0  BY <2>1, <1>5, <1>8
    <3>2. QED BY <3>1, <1>10
  <2>2. CASE u # 0
    <3> DEFINE x == [name |-> l[i].name, plan |-> l[i].plan]
    <3>1. x \in EntriesOf(l, from, to)  BY DEF EntriesOf
    <3>2. u > 0  BY <2>2, <1>7
    <3>3. x \in S  BY <3>1, <3>2 DEF ItemsOf, u
    <3>4. CalculateAmount(u, x.plan) <= TotalOf(u, S)
      <4> HIDE DEF x, S
      <4>1. QED BY <3>3, <1>10
    <3>5. x.plan = l[i].plan  OBVIOUS
    <3>6. QED BY <3>4, <3>5
  <2>3. QED BY <2>1, <2>2
<1>14. QED BY <1>11, <1>12, <1>13 DEF u

(* What the meter shows for the current month.                             *)
LEMMA ThisMonth ==
  ASSUME MeteringInv
  PROVE  /\ now \in Nat /\ MonthStart(now) \in 0..now /\ LogUntil(log, now)
         /\ Shown(log, MonthStart(now), now).total \in Nat
<1>1. now \in Nat /\ LogUntil(log, now)
  BY TimeFacts DEF MeteringInv, StateTypes, LogTypes
<1> DEFINE r == [from |-> MonthStart(now), to |-> now]
<1>2. r \in Readable  BY DEF Readable
<1>3. r.from \in Nat /\ r.to \in Nat /\ r.from <= r.to
  <2> HIDE DEF r
  <2>1. QED BY <1>1, <1>2, Periods
<1>4. MonthStart(now) \in 0..now  BY <1>1, <1>3
<1> DEFINE from == MonthStart(now)
           E == EventsOf(log, from, now)
<1> HIDE DEF from
<1>5. CASE E = {}  BY <1>1, <1>4, <1>5 DEF Shown, from
<1>6. CASE E # {}
  <2> DEFINE since == FirstSince(log, E, from)
             g == Metering(UsageEvents(from, now), since)
  <2>1. E = UsageEvents(from, now)  BY DEF EventsOf, UsageEvents
  <2>2. since \in {NotRunning, from}  BY DEF FirstSince
  <2> HIDE DEF since
  <2>3. from \in Nat /\ from <= now  BY <1>1, <1>4 DEF from
  <2>4. PICK y : CountedUntil(g[Len(log)], from, now, UsageEvents(from, now), Len(log), y)
    BY <2>2, <2>3, <1>1, LoopCounts
  <2>5. g[Len(log)].total \in 0..NumSeconds(y - from) /\ y - from \in Nat
    BY <2>3, <2>4, <1>1 DEF CountedUntil
  <2>6. g[Len(log)].total \in Nat
    <3>1. NumSeconds(y - from) \in Nat  BY <2>5, WholeSeconds
    <3>2. QED BY <3>1, <2>5
  <2>7. g = MeteringOf(log, E, since)  BY <2>1 DEF Metering, MeteringOf
  <2>8. Shown(log, from, now) = MeteringOf(log, E, since)[Len(log)]
    BY <1>6 DEF Shown, since
  <2>9. QED BY <2>6, <2>7, <2>8, <1>1, <1>4 DEF from
<1>7. QED BY <1>5, <1>6

(* Recording e on a database whose container the event tells about.        *)
Recorded(e) == e \in Event /\ e.at = now /\ (e.type = "stop" <=> LastType(log, "start"))

(* The steps of a regular history, as far as an estimate is concerned.     *)
Unmetered == log' = log /\ now' = now /\ container' # "removed" /\ container # "removed"
Stood     == log' = log /\ now' = now /\ container' = container
Passed    == log' = log /\ now' = now + 1 /\ container' = container
Metered(e) ==
  /\ Recorded(e) /\ log' = log \o <<e>> /\ now' = now
  /\ container # "removed"
  /\ container' = "removed" => e.plan = plan
Rescaled(e, f) ==
  /\ Recorded(e) /\ e.type = "stop"
  /\ f \in Event /\ f.at = now /\ f.type = "start"
  /\ log' = (log \o <<e>>) \o <<f>> /\ now' = now
  /\ container # "removed" /\ container' = container

(* Each step of a regular history is one of these.                         *)
LEMMA RegularSteps ==
  ASSUME MeteringInv, [Next]_vars, Regular', plan' = plan
  PROVE  /\ Regular
         /\ \/ Unmetered \/ Stood \/ Passed
            \/ \E e : Metered(e)
            \/ \E e, f : Rescaled(e, f)
<1>1. /\ StateTypes /\ log \in Seq(Event)
      /\ lost \in Nat
  <2>1. StateTypes /\ log \in Seq(Event)
    BY DEF MeteringInv, LogTypes, LogUntil
  <2>2. QED BY <2>1, MeteringAssumption DEF StateTypes
<1>2. Regular => LogTellsState
  BY RegularIsFaithful DEF MeteringInv, LogIsFaithful
<1>3. odd' = {} /\ lost' = 0  BY DEF Regular
<1>4. plan \in Plans \cup {NoPlan}  BY <1>1 DEF StateTypes
<1> DEFINE stop == NewEvent("stop", plan)
           start == NewEvent("start", plan)
<1>5. /\ stop \in Event /\ stop.type = "stop" /\ stop.at = now /\ stop.plan = plan
      /\ start \in Event /\ start.type = "start" /\ start.at = now /\ start.plan = plan
  BY <1>1, <1>4, NewEventFacts DEF NewEvent
<1> HIDE DEF stop, start
<1>6. LastType(log, "stop") => ~LastType(log, "start")  BY DEF LastType
<1>7. log = <<>> => ~LastType(log, "start")  BY DEF LastType
<1>8. ASSUME NEW e \in Event, e.at = now, Record(e)
      PROVE  lost = 0 /\ log' = log \o <<e>>
  BY <1>3, <1>8, RecordStep
<1>9. ASSUME NEW what \in Oddities, NEW happens \in BOOLEAN, Oddity(what, happens)
      PROVE  odd = {} /\ ~happens
  BY <1>1, <1>3, <1>9, OddityStep
<1>10. CASE InsertRow
  BY <1>10, <1>3 DEF InsertRow, Unmetered, Regular
<1>11. CASE Provisioned
  <2>1. Record(start) /\ odd' = odd /\ now' = now
        /\ container = "unprovisioned" /\ container' = "running"
    BY <1>11 DEF Provisioned, start
  <2>2. lost = 0 /\ log' = log \o <<start>>  BY <2>1, <1>5, <1>8
  <2>3. Regular  BY <2>1, <2>2, <1>3 DEF Regular
  <2>4. ~LastType(log, "start")  BY <2>1, <2>3, <1>2, <1>7 DEF LogTellsState
  <2>5. Metered(start)  BY <2>1, <2>2, <2>4, <1>5 DEF Metered, Recorded
  <2>6. QED BY <2>3, <2>5
<1>12. CASE Start
  <2>1. Record(start) /\ now' = now
        /\ container \in {"running", "exited"} /\ container' = "running"
        /\ Oddity("startedTwice", container = "running")
    BY <1>12 DEF Start, start, HasContainer
  <2>2. lost = 0 /\ log' = log \o <<start>>  BY <2>1, <1>5, <1>8
  <2>3. odd = {} /\ container = "exited"
    <3>1. "startedTwice" \in Oddities /\ (container = "running") \in BOOLEAN  BY DEF Oddities
    <3>2. odd = {} /\ ~(container = "running")  BY <2>1, <3>1, <1>9
    <3>3. QED BY <3>2, <2>1
  <2>4. Regular  BY <2>2, <2>3 DEF Regular
  <2>5. ~LastType(log, "start")  BY <2>3, <2>4, <1>2, <1>6 DEF LogTellsState
  <2>6. Metered(start)  BY <2>1, <2>2, <2>3, <2>5, <1>5 DEF Metered, Recorded
  <2>7. QED BY <2>4, <2>6
<1>13. CASE Stop
  <2>1. Record(stop) /\ now' = now
        /\ container \in {"running", "exited"} /\ container' = "exited"
        /\ Oddity("stoppedTwice", container = "exited")
    BY <1>13 DEF Stop, stop, HasContainer
  <2>2. lost = 0 /\ log' = log \o <<stop>>  BY <2>1, <1>5, <1>8
  <2>3. odd = {} /\ container = "running"
    <3>1. "stoppedTwice" \in Oddities /\ (container = "exited") \in BOOLEAN  BY DEF Oddities
    <3>2. odd = {} /\ ~(container = "exited")  BY <2>1, <3>1, <1>9
    <3>3. QED BY <3>2, <2>1
  <2>4. Regular  BY <2>2, <2>3 DEF Regular
  <2>5. LastType(log, "start")  BY <2>3, <2>4, <1>2 DEF LogTellsState
  <2>6. Metered(stop)  BY <2>1, <2>2, <2>3, <2>5, <1>5 DEF Metered, Recorded
  <2>7. QED BY <2>4, <2>6
<1>14. CASE Restart
  <2>1. /\ container \in {"running", "exited"} /\ container' = "running"
        /\ Oddity("restartedStopped", container = "exited")
        /\ log' = log /\ now' = now /\ lost' = lost
    BY <1>14 DEF Restart, HasContainer
  <2>2. odd = {}
    <3>1. "restartedStopped" \in Oddities /\ (container = "exited") \in BOOLEAN  BY DEF Oddities
    <3>2. QED BY <2>1, <3>1, <1>9
  <2>3. QED BY <2>1, <2>2, <1>3 DEF Unmetered, Regular
<1>15. CASE Delete
  <2>1. Record(stop) /\ now' = now
        /\ container \in {"unprovisioned", "running", "exited"}
        /\ container' = "removed"
        /\ Oddity("removedIdle", container # "running")
    BY <1>15 DEF Delete, stop
  <2>2. lost = 0 /\ log' = log \o <<stop>>  BY <2>1, <1>5, <1>8
  <2>3. odd = {} /\ container = "running"
    <3>1. "removedIdle" \in Oddities /\ (container # "running") \in BOOLEAN  BY DEF Oddities
    <3>2. odd = {} /\ ~(container # "running")  BY <2>1, <3>1, <1>9
    <3>3. QED BY <3>2
  <2>4. Regular  BY <2>2, <2>3 DEF Regular
  <2>5. LastType(log, "start")  BY <2>3, <2>4, <1>2 DEF LogTellsState
  <2>6. Metered(stop)  BY <2>1, <2>2, <2>3, <2>5, <1>5 DEF Metered, Recorded
  <2>7. QED BY <2>4, <2>6
<1>16. CASE Tick
  BY <1>16, <1>3 DEF Tick, Passed, Regular
<1>17. ASSUME NEW n \in Names, Rename(n)
       PROVE  Regular /\ Stood
  BY <1>17, <1>3 DEF Rename, Stood, Regular
<1>18. ASSUME NEW p \in Plans, Scale(p)
       PROVE  Regular /\ \E e, f : Rescaled(e, f)
  <2>1. p = plan  BY <1>18 DEF Scale
  <2>2. /\ \E s \in Inserted(stop), t \in Inserted(start) : Insert(s \o t, 2)
        /\ now' = now /\ container' = container
        /\ container \in {"running", "exited"}
        /\ Oddity("scaledStopped", container = "exited")
    BY <2>1, <1>18 DEF Scale, HasContainer, stop, start
  <2>3. lost = 0 /\ log' = (log \o <<stop>>) \o <<start>>
    BY <2>2, <1>3, <1>5, RecordTwoStep
  <2>4. odd = {} /\ container = "running"
    <3>1. "scaledStopped" \in Oddities /\ (container = "exited") \in BOOLEAN  BY DEF Oddities
    <3>2. odd = {} /\ ~(container = "exited")  BY <2>2, <3>1, <1>9
    <3>3. QED BY <3>2, <2>2
  <2>5. Regular  BY <2>3, <2>4 DEF Regular
  <2>6. LastType(log, "start")  BY <2>4, <2>5, <1>2 DEF LogTellsState
  <2>7. Rescaled(stop, start)  BY <2>2, <2>3, <2>4, <2>6, <1>5 DEF Rescaled, Recorded
  <2>8. QED BY <2>5, <2>7
<1>19. CASE UNCHANGED vars
  BY <1>19, <1>3 DEF vars, Stood, Regular
<1>20. QED
  BY <1>10, <1>11, <1>12, <1>13, <1>14, <1>15, <1>16, <1>17, <1>18, <1>19 DEF Next

(* None of them lowers the estimate.                                       *)
LEMMA EstimateStep ==
  ASSUME MeteringInv, [Next]_vars, Regular', plan' = plan,
         MonthStart(now') = MonthStart(now)
  PROVE  CurrentUsage(MonthStart(now))' >= CurrentUsage(MonthStart(now))
<1>1. /\ now \in Nat /\ MonthStart(now) \in 0..now /\ LogUntil(log, now)
      /\ Shown(log, MonthStart(now), now).total \in Nat
  BY ThisMonth
<1>2. plan \in Plans \cup {NoPlan}  BY DEF MeteringInv, StateTypes
<1>3. PICK from : from = MonthStart(now)  OBVIOUS
<1> DEFINE u == UsageOf(log, from, now)
           v == UsageOf(log', from, now')
<1>4. SUFFICES EstimateOf(log', container', plan, from, now')
                 >= EstimateOf(log, container, plan, from, now)
  BY <1>3, EstimateIsOfLog
<1>5. /\ u \in Nat /\ UsageOf(log, from, now + 1) \in Nat
      /\ u <= UsageOf(log, from, now + 1)
      /\ ~LastType(log, "start") => UsageOf(log, from, now + 1) = u
  BY <1>1, <1>3, UsageGoesOn
<1>6. /\ EstimateOf(log, container, plan, from, now) \in Nat
      /\ EstimateOf(log, container, plan, from, now)
           >= EstimateOf(log, container, plan, from, now)
  <2>1. from \in Nat /\ UsageOf(log, from, now) \in Nat  BY <1>1, <1>3, <1>5
  <2>2. EstimateOf(log, container, plan, from, now) \in Nat
    BY <2>1, <1>1, <1>2, EstimateCovers
  <2>3. QED BY <2>2
<1>7. /\ Regular
      /\ \/ Unmetered \/ Stood \/ Passed
         \/ \E e : Metered(e)
         \/ \E e, f : Rescaled(e, f)
  BY RegularSteps
<1>8. ASSUME v \in Nat, u <= v, container # "removed", container' # "removed"
      PROVE  EstimateOf(log', container', plan, from, now')
               >= EstimateOf(log, container, plan, from, now)
  <2>1. /\ EstimateOf(log', container', plan, from, now') = CalculateAmount(v, plan)
        /\ EstimateOf(log, container, plan, from, now) = CalculateAmount(u, plan)
    BY <1>8 DEF EstimateOf
  <2> HIDE DEF u, v
  <2>2. u \in Nat  BY <1>5 DEF u
  <2>3. /\ CalculateAmount(u, plan) \in Nat
        /\ CalculateAmount(u, plan) <= CalculateAmount(v, plan)
    BY <1>2, <1>8, <2>2, AmountGrows
  <2>4. CalculateAmount(v, plan) \in Nat  BY <1>2, <1>8, AmountGrows
  <2>5. QED BY <2>1, <2>3, <2>4
<1>9. CASE Unmetered
  <2>1. v = u  BY <1>9 DEF Unmetered
  <2>2. QED BY <2>1, <1>5, <1>8, <1>9 DEF Unmetered
<1>10. CASE Stood
  <2>1. log' = log /\ now' = now /\ container' = container  BY <1>10 DEF Stood
  <2>2. EstimateOf(log', container', plan, from, now')
          = EstimateOf(log, container, plan, from, now)
    BY <2>1
  <2>3. QED BY <2>2, <1>6
<1>11. CASE Passed
  <2>1. log' = log /\ now' = now + 1 /\ container' = container  BY <1>11 DEF Passed
  <2>2. CASE container # "removed"
    <3>1. v = UsageOf(log, from, now + 1)  BY <2>1
    <3>2. QED BY <3>1, <2>1, <2>2, <1>5, <1>8
  <2>3. CASE container = "removed"
    <3>1. LastType(log, "stop")
      BY <1>7, <2>3, RegularIsFaithful DEF MeteringInv, LogIsFaithful, LogTellsState
    <3>2. ~LastType(log, "start")  BY <3>1 DEF LastType
    <3>3. UsageOf(log, from, now + 1) = UsageOf(log, from, now)  BY <3>2, <1>5
    <3>4. EventsOf(log, from, now + 1) = EventsOf(log, from, now)
      BY <1>1, <1>3, ShownStays
    <3>5. EstimateOf(log, container, plan, from, now + 1)
            = EstimateOf(log, container, plan, from, now)
      BY <2>3, <3>3, <3>4, Zenon DEF EstimateOf, ItemsOf, EntriesOf
    <3>6. EstimateOf(log', container', plan, from, now')
            = EstimateOf(log, container, plan, from, now + 1)
      BY <2>1
    <3>7. QED BY <3>5, <3>6, <1>6
  <2>4. QED BY <2>2, <2>3
<1>12. ASSUME NEW e, Metered(e)
       PROVE  EstimateOf(log', container', plan, from, now')
                >= EstimateOf(log, container, plan, from, now)
  <2>1. /\ e \in Event /\ e.at = now /\ (e.type = "stop" <=> LastType(log, "start"))
        /\ log' = log \o <<e>> /\ now' = now
        /\ container # "removed"
        /\ container' = "removed" => e.plan = plan
    BY <1>12 DEF Metered, Recorded
  <2>2. /\ LogUntil(log \o <<e>>, now)
        /\ UsageOf(log \o <<e>>, from, now) = UsageOf(log, from, now)
    BY <2>1, <1>1, <1>3, UsageKept
  <2>3. v = u  BY <2>1, <2>2
  <2>4. CASE container' # "removed"
    <3>1. v \in Nat /\ u <= v
      <4> HIDE DEF u, v
      <4>1. u \in Nat  BY <1>5 DEF u
      <4>2. QED BY <4>1, <2>3
    <3>2. QED BY <3>1, <2>1, <2>4, <1>8
  <2>5. CASE container' = "removed"
    <3> DEFINE k == log \o <<e>>
               i == Len(log) + 1
    <3>1. i \in DOMAIN k /\ k[i] = e
      <4>1. Len(log) \in Nat /\ DOMAIN k = 1..(Len(log) + 1) /\ k[Len(log) + 1] = e
        BY <2>1, <1>1, AppendFacts DEF LogUntil
      <4>2. QED BY <4>1
    <3>2. k[i].at = now /\ k[i].plan = plan  BY <2>1, <2>5, <3>1
    <3> HIDE DEF k, i
    <3>3. i \in EventsOf(k, from, now)
      BY <1>1, <1>3, <3>1, <3>2 DEF EventsOf
    <3>4. LogUntil(k, now) /\ UsageOf(k, from, now) = u  BY <2>2 DEF k
    <3>5. from \in Nat /\ UsageOf(k, from, now) \in Nat  BY <3>4, <1>1, <1>3, <1>5
    <3>6. CalculateAmount(UsageOf(k, from, now), k[i].plan)
            <= EstimateOf(k, "removed", plan, from, now)
      BY <3>3, <3>4, <3>5, <1>1, <1>2, EstimateCovers
    <3>7. EstimateOf(log, container, plan, from, now) = CalculateAmount(u, plan)
      BY <2>1 DEF EstimateOf
    <3>8. EstimateOf(log', container', plan, from, now')
            = EstimateOf(k, "removed", plan, from, now)
      BY <2>1, <2>5 DEF k
    <3>9. EstimateOf(k, "removed", plan, from, now) \in Nat
      BY <3>4, <3>5, <1>1, <1>2, EstimateCovers
    <3> HIDE DEF u
    <3>10. EstimateOf(log, container, plan, from, now)
             <= EstimateOf(k, "removed", plan, from, now)
      BY <3>2, <3>4, <3>6, <3>7
    <3>11. QED BY <3>8, <3>9, <3>10, <1>6
  <2>6. QED BY <2>4, <2>5
<1>13. ASSUME NEW e, NEW f, Rescaled(e, f)
       PROVE  EstimateOf(log', container', plan, from, now')
                >= EstimateOf(log, container, plan, from, now)
  <2>1. /\ e \in Event /\ e.at = now /\ (e.type = "stop" <=> LastType(log, "start"))
        /\ e.type = "stop"
        /\ f \in Event /\ f.at = now /\ f.type = "start"
        /\ log' = (log \o <<e>>) \o <<f>> /\ now' = now
        /\ container # "removed" /\ container' # "removed"
    BY <1>13 DEF Rescaled, Recorded
  <2>2. /\ LogUntil(log \o <<e>>, now)
        /\ Shown(log \o <<e>>, from, now).total \in Nat
        /\ UsageOf(log \o <<e>>, from, now) = u
    BY <2>1, <1>1, <1>3, UsageKept
  <2>3. ~LastType(log \o <<e>>, "start")
    <3>1. log \in Seq(Event)  BY <1>1 DEF LogUntil
    <3>2. LastType(log \o <<e>>, "stop")  BY <3>1, <2>1, StopRecorded
    <3>3. QED BY <3>2 DEF LastType
  <2>4. UsageOf((log \o <<e>>) \o <<f>>, from, now) = UsageOf(log \o <<e>>, from, now)
    <3> DEFINE k == log \o <<e>>
    <3>1. ~LastType(k, "start") /\ LogUntil(k, now) /\ Shown(k, from, now).total \in Nat
      BY <2>2, <2>3
    <3> HIDE DEF k
    <3>2. f.type = "stop" <=> LastType(k, "start")  BY <3>1, <2>1
    <3>3. UsageOf(k \o <<f>>, from, now) = UsageOf(k, from, now)
      BY <3>1, <3>2, <2>1, <1>1, <1>3, UsageKept
    <3>4. QED BY <3>3 DEF k
  <2>5. v = u  BY <2>1, <2>2, <2>4
  <2>6. v \in Nat /\ u <= v
    <3> HIDE DEF u, v
    <3>1. u \in Nat  BY <1>5 DEF u
    <3>2. QED BY <3>1, <2>5
  <2>7. QED BY <2>1, <2>6, <1>8
<1>14. QED BY <1>7, <1>9, <1>10, <1>11, <1>12, <1>13

(* What get_current_usage shows for the current month never shrinks before *)
(* the month ends, in a history of calls that find the container as their  *)
(* events say and while the plan stays: neither a call, nor the clock, nor *)
(* the removal, after which it is the total of an invoice, lowers it.      *)
THEOREM EstimateGrows == Spec => EstimateNeverDrops
<1> DEFINE Kept ==
      /\ Regular' /\ plan' = plan
      /\ MonthStart(now') = MonthStart(now)
      => CurrentUsage(MonthStart(now))' >= CurrentUsage(MonthStart(now))
<1>1. MeteringInv /\ [Next]_vars => [Kept]_vars
  BY EstimateStep
<1>2. Spec => [][Kept]_vars
  <2> HIDE DEF Kept
  <2>1. QED BY <1>1, MeteringInvariance, PTL DEF Spec
<1>3. QED BY <1>2 DEF EstimateNeverDrops
=============================================================================
