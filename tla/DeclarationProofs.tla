--------------------------- MODULE DeclarationProofs ---------------------------
(***************************************************************************)
(* Proofs about what a program declares and the package then holds it to:  *)
(* the partitions of a station by the day of the month and the tokens of   *)
(* its phases (segments.py), and the transforms of an application          *)
(* (transform.py).  They hold for every ttl, any span of years, any number *)
(* of objects at any number of addresses, and any program of transforms.   *)
(***************************************************************************)
EXTENDS DayPartitions, PhaseTokens, GraphAssembly, TLAPS

-------------------------------------------------------------------------------
(* Partitions by the day of the month *)

\* What the age of the record is, by the month it was written in; two months
\* back or more, the whole previous month lies between.
Dated ==
    day # 0 =>
        /\ months = 0 => day <= today.d /\ age = today.d - day
        /\ months = 1 => /\ day <= PreviousLength(today)
                         /\ age = today.d + PreviousLength(today) - day
        /\ months = 2 => age >= today.d + PreviousLength(today)

IInv == DatesOK /\ Dated

-------------------------------------------------------------------------------

\* A month has 28 to 31 days.
LEMMA MonthFacts ==
    ASSUME NEW y \in Int, NEW m \in 1..12
    PROVE  MonthLength(y, m) \in 28..31 /\ MonthLength(y, 12) = 31
<1>1. CASE m = 2
  BY <1>1 DEF MonthLength
<1>2. CASE m \in {4, 6, 9, 11}
  BY <1>2 DEF MonthLength
<1>3. CASE m \notin {2, 4, 6, 9, 11}
  BY <1>3 DEF MonthLength
<1> QED
  BY <1>1, <1>2, <1>3

\* The next day is in the same month, or it is the first and the month that
\* ends is the one before it.
LEMMA DayAfterFacts ==
    ASSUME NEW d \in [y : Nat, m : 1..12, d : 1..31], d.d <= MonthLength(d.y, d.m),
           NEW e, e = DayAfter(d)
    PROVE  /\ e.m \in 1..12 /\ e.d \in 1..31 /\ e.d <= MonthLength(e.y, e.m)
           /\ e = [y |-> e.y, m |-> e.m, d |-> e.d]
           /\ \/ e.d = d.d + 1 /\ PreviousLength(e) = PreviousLength(d)
              \/ e.d = 1 /\ PreviousLength(e) = d.d
<1>1. CASE d.d < MonthLength(d.y, d.m)
  <2>1. e = [y |-> d.y, m |-> d.m, d |-> d.d + 1]
    BY <1>1 DEF DayAfter
  <2>2. MonthLength(d.y, d.m) \in 28..31
    BY MonthFacts
  <2> QED
    BY <1>1, <2>1, <2>2 DEF PreviousLength
<1>2. CASE d.d = MonthLength(d.y, d.m) /\ d.m < 12
  <2>1. e = [y |-> d.y, m |-> d.m + 1, d |-> 1]
    BY <1>2 DEF DayAfter
  <2>2. MonthLength(d.y, d.m + 1) \in 28..31
    BY <1>2, MonthFacts
  <2>3. PreviousLength(e) = d.d
    BY <1>2, <2>1 DEF PreviousLength
  <2> QED
    BY <1>2, <2>1, <2>2, <2>3
<1>3. CASE d.d = MonthLength(d.y, d.m) /\ d.m = 12
  <2>1. e = [y |-> d.y + 1, m |-> 1, d |-> 1]
    BY <1>3 DEF DayAfter
  <2>2. MonthLength(d.y + 1, 1) \in 28..31
    BY MonthFacts
  <2>3. PreviousLength(e) = d.d
    BY <1>3, <2>1 DEF PreviousLength
  <2> QED
    BY <1>3, <2>1, <2>2, <2>3
<1>4. d.d < MonthLength(d.y, d.m) \/ d.d = MonthLength(d.y, d.m)
  BY MonthFacts
<1> QED
  BY <1>1, <1>2, <1>3, <1>4

\* Today is a date.
LEMMA TodayFacts ==
    ASSUME DatesOK
    PROVE  /\ today \in [y : Nat, m : 1..12, d : 1..31]
           /\ today.d <= MonthLength(today.y, today.m)
BY CalendarAssumption DEF DatesOK

\* The previous month of a date has 28 to 31 days.
LEMMA PreviousFacts ==
    ASSUME DatesOK
    PROVE  PreviousLength(today) \in 28..31
<1>1. today.y \in Nat /\ today.m \in 1..12
  BY TodayFacts
<1>2. CASE today.m = 1
  <2>1. MonthLength(today.y - 1, 12) \in 28..31
    BY <1>1, MonthFacts
  <2> QED
    BY <1>2, <2>1 DEF PreviousLength
<1>3. CASE today.m # 1
  <2>1. MonthLength(today.y, today.m - 1) \in 28..31
    BY <1>1, <1>3, MonthFacts
  <2> QED
    BY <1>3, <2>1 DEF PreviousLength
<1> QED
  BY <1>2, <1>3

LEMMA IInvInit == DayInit => IInv
<1> SUFFICES ASSUME DayInit PROVE IInv
  OBVIOUS
<1>1. PICK y \in Years : today = [y |-> y, m |-> 1, d |-> 1]
  BY DEF DayInit
<1>2. MonthLength(y, 1) \in 28..31
  BY <1>1, MonthFacts, CalendarAssumption
<1> QED
  BY <1>1, <1>2, CalendarAssumption DEF DayInit, IInv, DatesOK, Dated

LEMMA IInvNext == IInv /\ [DayNext]_dayVars => IInv'
<1> SUFFICES ASSUME IInv, [DayNext]_dayVars PROVE IInv'
  OBVIOUS
<1>1. CASE WriteRecord
  <2>1. DatesOK'
    BY <1>1, CalendarAssumption DEF WriteRecord, PartitionFor, IInv, DatesOK
  <2>2. today' = today /\ day' = today.d /\ age' = 0 /\ months' = 0
    BY <1>1 DEF WriteRecord, PartitionFor
  <2>3. Dated'
    BY <2>2 DEF IInv, DatesOK, Dated
  <2> QED
    BY <2>1, <2>3 DEF IInv
<1>2. CASE Tomorrow
  <2> DEFINE e == DayAfter(today)
  <2>1. /\ today \in [y : Nat, m : 1..12, d : 1..31]
        /\ today.d <= MonthLength(today.y, today.m)
    BY TodayFacts DEF IInv
  <2>2. /\ e.m \in 1..12 /\ e.d \in 1..31 /\ e.d <= MonthLength(e.y, e.m)
        /\ e = [y |-> e.y, m |-> e.m, d |-> e.d]
        /\ \/ e.d = today.d + 1 /\ PreviousLength(e) = PreviousLength(today)
           \/ e.d = 1 /\ PreviousLength(e) = today.d
    BY <2>1, DayAfterFacts
  <2>3. today' = e /\ e.y \in Years
    BY <1>2 DEF Tomorrow
  <2> HIDE DEF e
  <2>4. DatesOK'
    BY <1>2, <2>2, <2>3, CalendarAssumption DEF Tomorrow, IInv, DatesOK
  <2>5. PreviousLength(today)' = PreviousLength(e)
    BY <2>3 DEF PreviousLength
  <2>6. PreviousLength(today) \in 28..31
    BY PreviousFacts DEF IInv
  <2>7. Dated'
    <3> SUFFICES ASSUME day # 0
                 PROVE  /\ months' = 0 => day <= e.d /\ age' = e.d - day
                        /\ months' = 1 => /\ day <= PreviousLength(e)
                                          /\ age' = e.d + PreviousLength(e) - day
                        /\ months' = 2 => age' >= e.d + PreviousLength(e)
      BY <1>2, <2>3, <2>5 DEF Tomorrow, Dated
    <3>1. CASE e.d = today.d + 1 /\ PreviousLength(e) = PreviousLength(today)
      BY <1>2, <2>3, <2>6, <3>1 DEF Tomorrow, IInv, DatesOK, Dated
    <3>2. CASE e.d = 1 /\ PreviousLength(e) = today.d
      BY <1>2, <2>3, <2>6, <3>2 DEF Tomorrow, IInv, DatesOK, Dated
    <3> QED
      BY <2>2, <3>1, <3>2
  <2> QED
    BY <2>4, <2>7 DEF IInv
<1>3. CASE CalendarEnds \/ UNCHANGED dayVars
  BY <1>3 DEF CalendarEnds, dayVars, IInv, DatesOK, Dated, PreviousLength
<1> QED
  BY <1>1, <1>2, <1>3 DEF DayNext

LEMMA IInvInvariant == DaySpec => []IInv
BY IInvInit, IInvNext, PTL DEF DaySpec

-------------------------------------------------------------------------------

\* The calendar and the partition stay well typed: today is always a date.
THEOREM CalendarKept == DaySpec => []DatesOK
<1>1. IInv => DatesOK
  BY DEF IInv
<1> QED
  BY <1>1, IInvInvariant, PTL

\* is_expired never reports the partition of a record that is no older than
\* ttl_days, whatever ttl_days a station declares (segments.py).
THEOREM FreshNeverExpired == DaySpec => []FreshKept
<1>1. IInv => FreshKept
  <2> SUFFICES ASSUME IInv, day # 0, age <= ttl PROVE ~IsExpired(day)
    BY DEF FreshKept
  <2>1. PreviousLength(today) \in 28..31
    BY PreviousFacts DEF IInv
  <2>2. ttl \in Nat
    BY TtlAssumption DEF IInv, DatesOK
  <2> QED
    BY <2>1, <2>2 DEF IInv, DatesOK, Dated, IsExpired
<1> QED
  BY <1>1, IInvInvariant, PTL

\* is_expired reports the partition of an older record, up to the 27th day.
THEOREM StaleIsReported == DaySpec => []StaleReported
<1>1. IInv => StaleReported
  <2> SUFFICES ASSUME IInv, day # 0, ttl < age, age <= 27 PROVE IsExpired(day)
    BY DEF StaleReported
  <2>1. PreviousLength(today) \in 28..31
    BY PreviousFacts DEF IInv
  <2>2. ttl \in Nat
    BY TtlAssumption DEF IInv, DatesOK
  <2> QED
    BY <2>1, <2>2 DEF IInv, DatesOK, Dated, IsExpired
<1> QED
  BY <1>1, IInvInvariant, PTL

-------------------------------------------------------------------------------
(* Tokens of phases *)

PhaseObjects == [names : SUBSET PhaseNames, owner : Addresses, serial : Nat]

TokensTyped ==
    /\ made \in Nat
    /\ inst \in [Addresses -> PhaseObjects \cup {Nothing}]
    /\ \A t \in tokens : t.by \in Nat /\ t.by <= made

\* No two objects are one, and a token that an object has made, and that object
\* as long as it is alive, agree.
Authentic ==
    /\ \A a \in Alive : inst[a].serial <= made
    /\ \A a, b \in Alive : inst[a].serial = inst[b].serial => a = b
    /\ \A t \in tokens, a \in Alive :
          inst[a].serial = t.by => t.owner = inst[a].owner /\ t.name \in inst[a].names

TInv == TokensTyped /\ Authentic

\* A new object is none of the old ones, and no token is its.
LEMMA MakeKeeps ==
    ASSUME TInv, NEW a \in Addresses, NEW names \in SUBSET PhaseNames, NEW owner \in Addresses,
           Make(a, names, owner)
    PROVE  TInv'
<1> DEFINE new == [names |-> names, owner |-> owner, serial |-> made + 1]
<1>1. /\ made \in Nat /\ inst \in [Addresses -> PhaseObjects \cup {Nothing}]
      /\ made' = made + 1 /\ tokens' = tokens /\ inst' = [inst EXCEPT ![a] = new]
  BY DEF TInv, TokensTyped, Make
<1>2. new \in PhaseObjects /\ new.serial = made + 1
  BY <1>1 DEF PhaseObjects
<1> HIDE DEF new
<1>3. inst'[a] = new /\ \A b \in Addresses \ {a} : inst'[b] = inst[b]
  BY <1>1
<1>4. Alive' \subseteq Alive \cup {a} /\ \A b \in Alive' \ {a} : b \in Alive
  BY <1>3 DEF Alive
<1>5. \A b \in Alive : inst[b].serial \in Nat /\ inst[b].serial <= made
  BY <1>1 DEF TInv, Authentic, Alive, PhaseObjects
<1>6. TokensTyped'
  BY <1>1, <1>2 DEF TInv, TokensTyped
<1>7. \A b \in Alive' : inst'[b].serial = IF b = a THEN made + 1 ELSE inst[b].serial
  BY <1>2, <1>3 DEF Alive
<1>8. \A b, c \in Alive' : inst'[b].serial = inst'[c].serial => b = c
  BY <1>1, <1>4, <1>5, <1>7 DEF TInv, Authentic
<1>9. ASSUME NEW t \in tokens, NEW b \in Alive', inst'[b].serial = t.by
      PROVE  t.owner = inst'[b].owner /\ t.name \in inst'[b].names
  <2>1. t.by \in Nat /\ t.by <= made
    BY DEF TInv, TokensTyped
  <2>2. b # a
    BY <1>1, <1>7, <1>9, <2>1
  <2> QED
    BY <1>3, <1>4, <1>9, <2>2 DEF TInv, Authentic, Alive
<1>10. \A b \in Alive' : inst'[b].serial <= made'
  BY <1>1, <1>4, <1>5, <1>7
<1> QED
  BY <1>1, <1>6, <1>8, <1>9, <1>10 DEF TInv, Authentic

LEMMA TokensNextKeeps ==
    ASSUME TInv, [TokensNext]_tokenVars
    PROVE  TInv'
<1>0. inst \in [Addresses -> PhaseObjects \cup {Nothing}] /\ made \in Nat
  BY DEF TInv, TokensTyped
<1>1. ASSUME NEW a \in Addresses, NEW names \in SUBSET PhaseNames, Declare(a, names)
      PROVE  TInv'
  BY <1>1, MakeKeeps DEF Declare
<1>2. ASSUME NEW a \in Addresses, NEW b \in Addresses, Copy(a, b)
      PROVE  TInv'
  <2>1. inst[a] \in PhaseObjects
    BY <1>0, <1>2 DEF Copy, Alive
  <2>2. inst[a].names \in SUBSET PhaseNames /\ inst[a].owner \in Addresses
    BY <2>1 DEF PhaseObjects
  <2> QED
    BY <1>2, <2>2, MakeKeeps DEF Copy
<1>3. ASSUME NEW a \in Addresses, Collect(a)
      PROVE  TInv'
  <2>1. /\ inst' = [inst EXCEPT ![a] = Nothing]
        /\ UNCHANGED <<tokens, made>>
    BY <1>3 DEF Collect
  <2>2. Alive' \subseteq Alive /\ \A b \in Alive' : inst'[b] = inst[b]
    BY <1>0, <2>1 DEF Alive
  <2>3. TokensTyped'
    BY <1>0, <2>1 DEF TInv, TokensTyped
  <2> QED
    BY <2>1, <2>2, <2>3 DEF TInv, Authentic
<1>4. ASSUME NEW a \in Addresses, NEW n \in PhaseNames, Ref(a, n)
      PROVE  TInv'
  <2> DEFINE new == [name |-> n, owner |-> inst[a].owner, by |-> inst[a].serial]
  <2>1. /\ a \in Alive /\ n \in inst[a].names /\ tokens' = tokens \cup {new}
        /\ UNCHANGED <<inst, made>> /\ Alive' = Alive
    BY <1>4 DEF Ref, Alive
  <2>2. inst[a].serial \in Nat /\ inst[a].serial <= made
    BY <1>0, <2>1 DEF TInv, Authentic, Alive, PhaseObjects
  <2>3. new.by = inst[a].serial /\ new.owner = inst[a].owner /\ new.name = n
    OBVIOUS
  <2> HIDE DEF new
  <2>4. TokensTyped'
    BY <1>0, <2>1, <2>2, <2>3 DEF TInv, TokensTyped
  <2>5. ASSUME NEW b \in Alive, inst[b].serial = new.by
        PROVE  new.owner = inst[b].owner /\ new.name \in inst[b].names
    BY <2>1, <2>3, <2>5 DEF TInv, Authentic
  <2>6. Authentic'
    BY <2>1, <2>5 DEF TInv, Authentic
  <2> QED
    BY <2>4, <2>6 DEF TInv
<1>5. CASE UNCHANGED tokenVars
  BY <1>5 DEF tokenVars, TInv, TokensTyped, Authentic, Alive
<1> QED
  BY <1>1, <1>2, <1>3, <1>4, <1>5 DEF TokensNext, AllMade

\* A token is good for the object that made it and for no other that is alive,
\* however objects are made, copied and collected and addresses used again,
\* as long as the object is alive and no copy: require compares addresses,
\* which no two of them share (segments.py).
THEOREM TokensApart == TokensInit /\ [][TokensNext]_tokenVars => []TokensKeptApart
<1>1. TokensInit => TInv
  BY DEF TokensInit, TInv, TokensTyped, Authentic, Alive
<1>2. TInv /\ [TokensNext]_tokenVars => TInv'
  BY TokensNextKeeps
<1>3. TInv => TokensKeptApart
  BY DEF TInv, Authentic, TokensKeptApart, Require
<1> QED
  BY <1>1, <1>2, <1>3, PTL

-------------------------------------------------------------------------------
(* The registry and the builder *)

\* GraphTyped, with what it leaves out: the entries of the registry bear their names
GTyped ==
    /\ registry \in [Names -> TransformSpec \cup {None}]
    /\ attached \in [Functions -> TransformSpec \cup {None}]
    /\ stations \in [StationNames -> Decls \cup {None}]
    /\ chosen \in Seq(TransformSpec) /\ Len(chosen) <= MaxChosen
    /\ cleared \in BOOLEAN
    /\ \A f \in Functions : attached[f] # None => attached[f].func = f
    /\ \A n \in Names : registry[n] # None => registry[n].name = n

\* A specification is the one registered under its name.
Registered(spec) == registry[spec.name] = spec

\* Whatever a function carries and whatever a builder or an application has
\* taken is registered.
GKnown ==
    /\ ~cleared => /\ \A f \in Functions : attached[f] # None => Registered(attached[f])
                   /\ \A i \in DOMAIN chosen : Registered(chosen[i])
                   /\ app # None => \A i \in DOMAIN app.transforms : Registered(app.transforms[i])
    /\ app # None => \A i \in DOMAIN app.transforms : app.transforms[i] \in TransformSpec

GInv == GTyped /\ GKnown

\* The registry only grows but for clear_registry, so that what is registered
\* stays so.
LEMMA RegistryGrows ==
    ASSUME GTyped, NEW f \in Functions, NEW from \in Decls, NEW to \in Decls,
           NEW n \in Names, Decorate(f, from, to, n)
    PROVE  /\ GTyped'
           /\ \A spec \in TransformSpec : Registered(spec) => Registered(spec)'
           /\ \A g \in Functions : \/ attached'[g] = attached[g]
                                   \/ attached'[g] # None /\ Registered(attached[g])'
<1> DEFINE new == [name |-> n, func |-> f, from |-> from, to |-> to]
<1>1. new \in TransformSpec /\ new.name = n /\ new.func = f /\ new # None
  BY WiringAssumption DEF TransformSpec
<1>2. /\ registry[n] = None /\ registry' = [registry EXCEPT ![n] = new]
      /\ attached' = IF f \in Bare THEN attached ELSE [attached EXCEPT ![f] = new]
      /\ UNCHANGED <<stations, chosen, cleared>>
  BY DEF Decorate
<1> HIDE DEF new
<1>3. registry'[n] = new /\ \A m \in Names \ {n} : registry'[m] = registry[m]
  BY <1>2 DEF GTyped
<1>4. \A g \in Functions : attached'[g] = attached[g] \/ (g = f /\ attached'[g] = new)
  BY <1>2 DEF GTyped
<1>5. GTyped'
  BY <1>1, <1>2, <1>3, <1>4 DEF GTyped
<1>6. ASSUME NEW spec \in TransformSpec, Registered(spec) PROVE Registered(spec)'
  <2>1. spec.name \in Names /\ spec # None
    BY WiringAssumption DEF TransformSpec
  <2> QED
    BY <1>2, <1>3, <1>6, <2>1 DEF Registered
<1>7. registry'[new.name] = new
  BY <1>1, <1>3
<1>8. ASSUME NEW g \in Functions, attached'[g] # attached[g]
      PROVE  attached'[g] # None /\ Registered(attached[g])'
  <2>1. attached'[g] = new
    BY <1>4, <1>8
  <2> QED
    BY <1>1, <1>7, <2>1 DEF Registered
<1> QED
  BY <1>5, <1>6, <1>8

\* A builder takes on a registered specification.
LEMMA ChooseKeeps ==
    ASSUME GInv, NEW spec \in TransformSpec, AddTransform(spec),
           ~cleared => Registered(spec)
    PROVE  GInv'
<1>1. /\ chosen' = Append(chosen, spec) /\ Len(chosen) < MaxChosen
      /\ UNCHANGED <<registry, attached, stations, app, cleared>>
  BY DEF AddTransform
<1>2. /\ chosen' \in Seq(TransformSpec) /\ Len(chosen') <= MaxChosen
      /\ \A i \in DOMAIN chosen' : chosen'[i] = spec \/ (i \in DOMAIN chosen /\ chosen'[i] = chosen[i])
  BY <1>1, WiringAssumption DEF GInv, GTyped
<1>3. GTyped'
  BY <1>1, <1>2 DEF GInv, GTyped
<1> QED
  BY <1>1, <1>2, <1>3 DEF GInv, GKnown, Registered

LEMMA GNext ==
    ASSUME GInv, [GraphNext]_graphVars
    PROVE  GInv'
<1>1. ASSUME NEW w \in Wirings, NEW n \in Names, Decorate(w[1], w[2], w[3], n)
      PROVE  GInv'
  <2>1. w[1] \in Functions /\ w[2] \in Decls /\ w[3] \in Decls
    BY WiringAssumption
  <2>2. /\ GTyped'
        /\ \A spec \in TransformSpec : Registered(spec) => Registered(spec)'
        /\ \A g \in Functions : \/ attached'[g] = attached[g]
                                \/ attached'[g] # None /\ Registered(attached[g])'
    BY <1>1, <2>1, RegistryGrows DEF GInv
  <2>3. UNCHANGED <<chosen, app, cleared>>
    BY <1>1 DEF Decorate
  <2>4. ASSUME ~cleared, NEW g \in Functions, attached'[g] # None PROVE Registered(attached[g])'
    <3>1. CASE attached'[g] = attached[g]
      <4>1. attached[g] \in TransformSpec /\ Registered(attached[g])
        BY <2>4, <3>1 DEF GInv, GKnown, GTyped
      <4> QED
        BY <2>2, <3>1, <4>1 DEF Registered
    <3> QED
      BY <2>2, <3>1
  <2>5. ASSUME ~cleared, NEW i \in DOMAIN chosen PROVE Registered(chosen[i])'
    BY <2>2, <2>3, <2>5 DEF GInv, GKnown, GTyped, Registered
  <2>6. ASSUME ~cleared, app # None, NEW i \in DOMAIN app.transforms
        PROVE  Registered(app.transforms[i])'
    BY <2>2, <2>3, <2>6 DEF GInv, GKnown, Registered
  <2> QED
    BY <2>2, <2>3, <2>4, <2>5, <2>6 DEF GInv, GKnown
<1>2. ASSUME ClearRegistry PROVE GInv'
  <2>1. /\ registry' = EmptyRegistry /\ cleared' = TRUE
        /\ UNCHANGED <<attached, stations, chosen, app>>
    BY <1>2 DEF ClearRegistry
  <2> QED
    BY <2>1 DEF GInv, GTyped, GKnown, EmptyRegistry
<1>3. ASSUME Build PROVE GInv'
  <2>1. /\ app' = [stations |-> stations, transforms |-> chosen]
        /\ UNCHANGED <<registry, attached, stations, chosen, cleared>>
    BY <1>3 DEF Build
  <2>2. app'.stations = stations /\ app'.transforms = chosen
    BY <2>1
  <2> QED
    BY <2>1, <2>2 DEF GInv, GTyped, GKnown, Registered
<1>4. ASSUME NewBuilder PROVE GInv'
  <2>1. /\ stations' = NoStations /\ chosen' = <<>>
        /\ UNCHANGED <<registry, attached, app, cleared>>
    BY <1>4 DEF NewBuilder
  <2>2. stations' \in [StationNames -> Decls \cup {None}]
    BY <2>1 DEF NoStations
  <2>3. chosen' \in Seq(TransformSpec) /\ Len(chosen') = 0 /\ DOMAIN chosen' = {}
    BY <2>1
  <2> QED
    BY <2>1, <2>2, <2>3, WiringAssumption DEF GInv, GTyped, GKnown, Registered
<1>5. ASSUME NEW d \in Decls, WithStation(d) PROVE GInv'
  <2>1. /\ stations' = [stations EXCEPT ![d.name] = d]
        /\ UNCHANGED <<registry, attached, chosen, app, cleared>>
    BY <1>5 DEF WithStation
  <2> QED
    BY <2>1 DEF GInv, GTyped, GKnown, Registered
<1>6. ASSUME NEW n \in Names, registry[n] # None, AddTransform(registry[n]) PROVE GInv'
  <2>1. registry[n] \in TransformSpec /\ Registered(registry[n])
    BY <1>6 DEF GInv, GTyped, Registered
  <2> QED
    BY <1>6, <2>1, ChooseKeeps
<1>7. ASSUME NEW f \in Functions, attached[f] # None, AddTransform(attached[f]) PROVE GInv'
  <2>1. attached[f] \in TransformSpec /\ (~cleared => Registered(attached[f]))
    BY <1>7 DEF GInv, GTyped, GKnown
  <2> QED
    BY <1>7, <2>1, ChooseKeeps
<1>8. CASE UNCHANGED graphVars
  BY <1>8 DEF graphVars, GInv, GTyped, GKnown, Registered
<1> QED
  BY <1>1, <1>2, <1>3, <1>4, <1>5, <1>6, <1>7, <1>8 DEF GraphNext, WithNamed, WithFunction

LEMMA GInvariant == GraphSpec => []GInv
<1>1. GraphInit => GInv
  <2> SUFFICES ASSUME GraphInit PROVE GInv
    OBVIOUS
  <2>1. chosen \in Seq(TransformSpec) /\ Len(chosen) = 0 /\ DOMAIN chosen = {}
    BY DEF GraphInit
  <2>2. /\ registry \in [Names -> TransformSpec \cup {None}] /\ \A n \in Names : registry[n] = None
        /\ attached \in [Functions -> TransformSpec \cup {None}]
        /\ \A f \in Functions : attached[f] = None
        /\ stations \in [StationNames -> Decls \cup {None}]
        /\ app = None /\ cleared \in BOOLEAN
    BY DEF GraphInit, EmptyRegistry, NoStations
  <2>3. GTyped
    BY <2>1, <2>2, WiringAssumption DEF GTyped
  <2>4. DOMAIN chosen = {}
    BY <2>1
  <2>5. GKnown
    BY <2>2, <2>4 DEF GKnown
  <2> QED
    BY <2>3, <2>5 DEF GInv
<1>2. GInv /\ [GraphNext]_graphVars => GInv'
  BY GNext
<1> QED
  BY <1>1, <1>2, PTL DEF GraphSpec

\* The registry, what functions carry and what builders have stay well typed,
\* and a function carries no other function's transform (transform.py).
THEOREM AssemblyTyped == GraphSpec => []GraphTyped
<1>1. GInv => GraphTyped
  BY DEF GInv, GTyped, GraphTyped
<1> QED
  BY <1>1, GInvariant, PTL

\* Each transform of an application is the one that is registered under its
\* name, whether the builder took it by name or by function and whatever was
\* decorated since, for any program that does not clear the registry.
THEOREM AppRegistered == GraphSpec => []AppIsRegistered
<1>1. GInv => AppIsRegistered
  BY DEF GInv, GKnown, Registered, Transforms, AppIsRegistered
<1> QED
  BY <1>1, GInvariant, PTL
===============================================================================
