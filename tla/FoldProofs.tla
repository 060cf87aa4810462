------------------------------ MODULE FoldProofs ------------------------------
(***************************************************************************)
(* Proofs about Fold, for any set of records whose stamps have one digit   *)
(* or two: what last_write_wins_fold keeps is a matter of the records it   *)
(* was given and of nothing else.                                          *)
(***************************************************************************)
EXTENDS Fold, TLAPS

-------------------------------------------------------------------------------
(* Texts of digits *)

Short == {<<>>} \cup {<<a>> : a \in 0..9} \cup {<<a, b>> : a \in 0..9, b \in 0..9}

\* The place of a text among those of up to two digits: a text comes before its
\* extensions, and those before the next digit.
Rank(s) == IF s = <<>> THEN 0 ELSE IF Len(s) = 1 THEN 11 * s[1] + 1 ELSE 11 * s[1] + s[2] + 2

LEMMA Stamps ==
    ASSUME NEW r \in Records
    PROVE  /\ Stamp(r) \in Short
           /\ Stamp(r) # <<>> => /\ r.version \in 0..99
                                 /\ r.version < 10 => Stamp(r) = <<r.version>>
                                 /\ r.version >= 10 =>
                                        Stamp(r) = <<r.version \div 10, r.version % 10>>
<1>1. CASE r.version \in {Missing, Null}
  BY <1>1 DEF Stamp, Short
<1>2. CASE r.version \notin {Missing, Null}
  <2>1. r.version \in 0..99 /\ Stamp(r) = Digits(r.version)
    BY <1>2, RecordAssumption DEF Stamp
  <2>2. CASE r.version < 10
    <3>1. Stamp(r) = <<r.version>> /\ r.version \in 0..9
      BY <2>1, <2>2 DEF Digits
    <3> QED
      BY <2>1, <2>2, <3>1 DEF Short
  <2>3. CASE ~(r.version < 10)
    <3>1. /\ Stamp(r) = <<r.version \div 10, r.version % 10>>
          /\ r.version \div 10 \in 0..9 /\ r.version % 10 \in 0..9
      BY <2>1, <2>3 DEF Digits
    <3> QED
      BY <2>1, <2>3, <3>1 DEF Short
  <2> QED
    BY <2>2, <2>3
<1> QED
  BY <1>1, <1>2

LEMMA RankOf ==
    /\ Rank(<<>>) = 0
    /\ \A a \in 0..9 : Rank(<<a>>) = 11 * a + 1
    /\ \A a, b \in 0..9 : Rank(<<a, b>>) = 11 * a + b + 2
BY DEF Rank

\* What a text of up to two digits is
LEMMA Texts ==
    /\ Len(<<>>) = 0 /\ DOMAIN <<>> = {}
    /\ \A a \in 0..9 : Len(<<a>>) = 1 /\ DOMAIN <<a>> = {1} /\ <<a>>[1] = a
    /\ \A a, b \in 0..9 : /\ Len(<<a, b>>) = 2 /\ DOMAIN <<a, b>> = {1, 2}
                          /\ <<a, b>>[1] = a /\ <<a, b>>[2] = b
<1>1. \A a \in 0..9 : Len(<<a>>) = 1 /\ DOMAIN <<a>> = {1} /\ <<a>>[1] = a
  OBVIOUS
<1>2. \A a, b \in 0..9 : /\ Len(<<a, b>>) = 2 /\ DOMAIN <<a, b>> = {1, 2}
                         /\ <<a, b>>[1] = a /\ <<a, b>>[2] = b
  OBVIOUS
<1> QED
  BY <1>1, <1>2

LEMMA Shapes ==
    ASSUME NEW s \in Short
    PROVE  s = <<>> \/ (\E a \in 0..9 : s = <<a>>) \/ (\E a, b \in 0..9 : s = <<a, b>>)
BY DEF Short

LEMMA Forms ==
    ASSUME NEW s \in Short
    PROVE  /\ Len(s) \in {0, 1, 2}
           /\ Len(s) = 0 => DOMAIN s = {} /\ Rank(s) = 0
           /\ Len(s) = 1 => DOMAIN s = {1} /\ s[1] \in 0..9 /\ Rank(s) = 11 * s[1] + 1
           /\ Len(s) = 2 => /\ DOMAIN s = {1, 2} /\ s[1] \in 0..9 /\ s[2] \in 0..9
                            /\ Rank(s) = 11 * s[1] + s[2] + 2
<1> DEFINE Formed(t) ==
        /\ Len(t) \in {0, 1, 2}
        /\ Len(t) = 0 => DOMAIN t = {} /\ Rank(t) = 0
        /\ Len(t) = 1 => DOMAIN t = {1} /\ t[1] \in 0..9 /\ Rank(t) = 11 * t[1] + 1
        /\ Len(t) = 2 => /\ DOMAIN t = {1, 2} /\ t[1] \in 0..9 /\ t[2] \in 0..9
                         /\ Rank(t) = 11 * t[1] + t[2] + 2
<1>1. Formed(<<>>)
  BY Texts, RankOf
<1>2. ASSUME NEW a \in 0..9 PROVE Formed(<<a>>)
  <2>1. /\ Len(<<a>>) = 1 /\ DOMAIN <<a>> = {1} /\ <<a>>[1] = a
        /\ Rank(<<a>>) = 11 * a + 1
    BY Texts, RankOf
  <2> QED
    BY <2>1
<1>3. ASSUME NEW a \in 0..9, NEW b \in 0..9 PROVE Formed(<<a, b>>)
  <2>1. /\ Len(<<a, b>>) = 2 /\ DOMAIN <<a, b>> = {1, 2} /\ <<a, b>>[1] = a /\ <<a, b>>[2] = b
        /\ Rank(<<a, b>>) = 11 * a + b + 2
    BY Texts, RankOf
  <2> QED
    BY <2>1
<1>4. s = <<>> \/ (\E a \in 0..9 : s = <<a>>) \/ (\E a, b \in 0..9 : s = <<a, b>>)
  BY Shapes
<1> HIDE DEF Formed
<1>5. Formed(s)
  BY <1>1, <1>2, <1>3, <1>4
<1> QED
  BY <1>5 DEF Formed

\* Two texts of one length with the same digits are one.
LEMMA SameDigits ==
    ASSUME NEW s \in Short, NEW t \in Short, Len(s) = Len(t), \A n \in DOMAIN s : s[n] = t[n]
    PROVE  s = t
<1>1. CASE s = <<>>
  <2>1. Len(s) = 0
    BY <1>1
  <2>2. \A a, b \in 0..9 : Len(<<a>>) # 0 /\ Len(<<a, b>>) # 0
    BY Texts
  <2> QED
    BY <1>1, <2>1, <2>2 DEF Short
<1>2. ASSUME NEW a \in 0..9, s = <<a>> PROVE s = t
  <2>1. Len(s) = 1 /\ 1 \in DOMAIN s /\ s[1] = a
    BY <1>2, Texts
  <2>2. PICK b \in 0..9 : t = <<b>>
    <3>1. \A c, d \in 0..9 : Len(<<c, d>>) # 1
      BY Texts
    <3>6. Len(<<>>) # 1
      BY Texts
    <3>2. t = <<>> \/ (\E c \in 0..9 : t = <<c>>) \/ (\E c, d \in 0..9 : t = <<c, d>>)
      BY Shapes
    <3>3. Len(t) = 1
      BY <2>1
    <3>4. t # <<>>
      BY <3>6, <3>3, Zenon
    <3>5. ASSUME NEW c \in 0..9, NEW d \in 0..9 PROVE t # <<c, d>>
      <4>1. Len(<<c, d>>) # 1
        BY <3>1
      <4> QED
        BY <3>3, <4>1, Zenon
    <3> QED
      BY <3>2, <3>4, <3>5, Zenon
  <2>3. t[1] = b
    BY <2>2, Texts
  <2> QED
    BY <1>2, <2>1, <2>2, <2>3
<1>3. ASSUME NEW a \in 0..9, NEW b \in 0..9, s = <<a, b>> PROVE s = t
  <2>1. Len(s) = 2 /\ 1 \in DOMAIN s /\ 2 \in DOMAIN s /\ s[1] = a /\ s[2] = b
    BY <1>3, Texts
  <2>2. PICK c \in 0..9, d \in 0..9 : t = <<c, d>>
    <3>1. \A c \in 0..9 : Len(<<c>>) # 2
      BY Texts
    <3>6. Len(<<>>) # 2
      BY Texts
    <3>2. t = <<>> \/ (\E c \in 0..9 : t = <<c>>) \/ (\E c, d \in 0..9 : t = <<c, d>>)
      BY Shapes
    <3>3. Len(t) = 2
      BY <2>1
    <3>4. t # <<>>
      BY <3>6, <3>3, Zenon
    <3>5. ASSUME NEW c \in 0..9 PROVE t # <<c>>
      <4>1. Len(<<c>>) # 2
        BY <3>1
      <4> QED
        BY <3>3, <4>1, Zenon
    <3> QED
      BY <3>2, <3>4, <3>5, Zenon
  <2>3. t[1] = c /\ t[2] = d
    BY <2>2, Texts
  <2> QED
    BY <1>3, <2>1, <2>2, <2>3
<1> QED
  BY <1>1, <1>2, <1>3 DEF Short

\* Python's order of two such texts
LEMMA Orders ==
    ASSUME NEW s \in Short, NEW t \in Short
    PROVE  /\ Len(s) = 0 => TextLeq(s, t)
           /\ Len(s) # 0 /\ Len(t) = 0 => ~TextLeq(s, t)
           /\ Len(s) = 1 /\ Len(t) # 0 => (TextLeq(s, t) <=> s[1] <= t[1])
           /\ Len(s) = 2 /\ Len(t) = 1 => (TextLeq(s, t) <=> s[1] < t[1])
           /\ Len(s) = 2 /\ Len(t) = 2 =>
                 (TextLeq(s, t) <=> s[1] < t[1] \/ (s[1] = t[1] /\ s[2] <= t[2]))
<1> DEFINE Below(n) == s[n] < t[n] /\ \A m \in 1..(n - 1) : s[m] = t[m]
           Before == \E n \in DOMAIN s \cap DOMAIN t : Below(n)
           Within == Len(s) <= Len(t) /\ \A n \in DOMAIN s : s[n] = t[n]
<1>1. TextLeq(s, t) <=> Before \/ Within
  BY DEF TextLeq
<1>2. Below(1) <=> s[1] < t[1]
  <2>1. 1..(1 - 1) = {}
    OBVIOUS
  <2> QED
    BY <2>1
<1>3. Below(2) <=> s[2] < t[2] /\ s[1] = t[1]
  <2>1. 1..(2 - 1) = {1}
    OBVIOUS
  <2> QED
    BY <2>1
<1> HIDE DEF Below
<1>4. CASE Len(s) = 0
  <2>1. DOMAIN s = {} /\ Len(t) \in Nat
    BY <1>4, Forms
  <2> QED
    BY <1>1, <1>4, <2>1
<1>5. CASE Len(s) # 0 /\ Len(t) = 0
  <2>1. DOMAIN t = {} /\ Len(s) \in 1..2
    BY <1>5, Forms
  <2> QED
    BY <1>1, <1>5, <2>1
<1>6. CASE Len(s) = 1 /\ Len(t) # 0
  <2>1. DOMAIN s = {1} /\ 1 \in DOMAIN t /\ Len(t) \in 1..2 /\ s[1] \in Int /\ t[1] \in Int
    BY <1>6, Forms
  <2>2. (Before <=> Below(1)) /\ (Within <=> s[1] = t[1])
    BY <1>6, <2>1
  <2> QED
    BY <1>1, <1>2, <1>6, <2>1, <2>2
<1>7. CASE Len(s) = 2 /\ Len(t) = 1
  <2>1. DOMAIN s = {1, 2} /\ DOMAIN t = {1} /\ s[1] \in Int /\ t[1] \in Int
    BY <1>7, Forms
  <2>2. (Before <=> Below(1)) /\ ~Within
    BY <1>7, <2>1
  <2> QED
    BY <1>1, <1>2, <1>7, <2>1, <2>2
<1>8. CASE Len(s) = 2 /\ Len(t) = 2
  <2>1. /\ DOMAIN s = {1, 2} /\ DOMAIN t = {1, 2}
        /\ s[1] \in Int /\ t[1] \in Int /\ s[2] \in Int /\ t[2] \in Int
    BY <1>8, Forms
  <2>2. (Before <=> Below(1) \/ Below(2)) /\ (Within <=> s[1] = t[1] /\ s[2] = t[2])
    BY <1>8, <2>1
  <2> QED
    BY <1>1, <1>2, <1>3, <1>8, <2>1, <2>2
<1> QED
  BY <1>4, <1>5, <1>6, <1>7, <1>8

LEMMA Arithmetic ==
    ASSUME NEW a \in 0..9, NEW b \in 0..9, NEW c \in 0..9, NEW d \in 0..9
    PROVE  /\ 11 * a + 1 <= 11 * b + 1 <=> a <= b
           /\ 11 * a + 1 <= 11 * b + d + 2 <=> a <= b
           /\ 11 * a + 1 # 11 * b + d + 2
           /\ 11 * a + c + 2 <= 11 * b + 1 <=> a < b
           /\ 11 * a + c + 2 <= 11 * b + d + 2 <=> a < b \/ (a = b /\ c <= d)
           /\ 11 * a + c + 2 = 11 * b + d + 2 <=> a = b /\ c = d
<1>1. 11 * a + 1 <= 11 * b + 1 <=> a <= b
  OBVIOUS
<1>2. 11 * a + 1 <= 11 * b + d + 2 <=> a <= b
  OBVIOUS
<1>3. 11 * a + 1 # 11 * b + d + 2
  OBVIOUS
<1>4. 11 * a + c + 2 <= 11 * b + 1 <=> a < b
  OBVIOUS
<1>5. 11 * a + c + 2 <= 11 * b + d + 2 <=> a < b \/ (a = b /\ c <= d)
  OBVIOUS
<1>6. 11 * a + c + 2 = 11 * b + d + 2 <=> a = b /\ c = d
  OBVIOUS
<1> QED
  BY <1>1, <1>2, <1>3, <1>4, <1>5, <1>6

LEMMA Ranks ==
    ASSUME NEW s \in Short
    PROVE  Rank(s) \in Nat /\ (Len(s) # 0 => Rank(s) > 0)
<1>1. CASE Len(s) = 0
  <2>1. Rank(s) = 0
    BY <1>1, Forms
  <2> QED
    BY <1>1, <2>1
<1>2. CASE Len(s) = 1
  <2>1. s[1] \in 0..9 /\ Rank(s) = 11 * s[1] + 1
    BY <1>2, Forms
  <2>2. \A a \in 0..9 : 11 * a + 1 \in Nat /\ 11 * a + 1 > 0
    OBVIOUS
  <2> HIDE DEF Rank
  <2> QED
    BY <2>1, <2>2
<1>3. CASE Len(s) = 2
  <2>1. s[1] \in 0..9 /\ s[2] \in 0..9 /\ Rank(s) = 11 * s[1] + s[2] + 2
    BY <1>3, Forms
  <2>2. \A a, b \in 0..9 : 11 * a + b + 2 \in Nat /\ 11 * a + b + 2 > 0
    OBVIOUS
  <2>3. 11 * s[1] + s[2] + 2 \in Nat /\ 11 * s[1] + s[2] + 2 > 0
    BY <2>1, <2>2, Zenon
  <2> QED
    BY <2>1, <2>3, Zenon
<1> QED
  BY <1>1, <1>2, <1>3, Forms

\* It is that of their ranks.
LEMMA TextOrder ==
    ASSUME NEW s \in Short, NEW t \in Short
    PROVE  /\ Rank(s) \in Nat /\ Rank(t) \in Nat
           /\ TextLeq(s, t) <=> Rank(s) <= Rank(t)
           /\ Rank(s) = Rank(t) => s = t
<1>1. /\ Len(s) = 0 => TextLeq(s, t)
      /\ Len(s) # 0 /\ Len(t) = 0 => ~TextLeq(s, t)
      /\ Len(s) = 1 /\ Len(t) # 0 => (TextLeq(s, t) <=> s[1] <= t[1])
      /\ Len(s) = 2 /\ Len(t) = 1 => (TextLeq(s, t) <=> s[1] < t[1])
      /\ Len(s) = 2 /\ Len(t) = 2 =>
            (TextLeq(s, t) <=> s[1] < t[1] \/ (s[1] = t[1] /\ s[2] <= t[2]))
  BY Orders
<1>2. /\ Len(s) \in {0, 1, 2} /\ Len(t) \in {0, 1, 2}
      /\ Len(s) = 0 => Rank(s) = 0
      /\ Len(s) = 1 => s[1] \in 0..9 /\ Rank(s) = 11 * s[1] + 1
      /\ Len(s) = 2 => s[1] \in 0..9 /\ s[2] \in 0..9 /\ Rank(s) = 11 * s[1] + s[2] + 2
      /\ Len(t) = 0 => Rank(t) = 0
      /\ Len(t) = 1 => t[1] \in 0..9 /\ Rank(t) = 11 * t[1] + 1
      /\ Len(t) = 2 => t[1] \in 0..9 /\ t[2] \in 0..9 /\ Rank(t) = 11 * t[1] + t[2] + 2
  BY Forms
<1>3. /\ Len(s) = 0 /\ Len(t) = 0 => s = t
      /\ Len(s) = 1 /\ Len(t) = 1 /\ s[1] = t[1] => s = t
      /\ Len(s) = 2 /\ Len(t) = 2 /\ s[1] = t[1] /\ s[2] = t[2] => s = t
  <2>1. ASSUME Len(s) = 0, Len(t) = 0 PROVE s = t
    <3>1. DOMAIN s = {}
      BY <2>1, Forms
    <3> QED
      BY <2>1, <3>1, SameDigits
  <2>2. ASSUME Len(s) = 1, Len(t) = 1, s[1] = t[1] PROVE s = t
    <3>1. DOMAIN s = {1}
      BY <2>2, Forms
    <3> QED
      BY <2>2, <3>1, SameDigits
  <2>3. ASSUME Len(s) = 2, Len(t) = 2, s[1] = t[1], s[2] = t[2] PROVE s = t
    <3>1. DOMAIN s = {1, 2}
      BY <2>3, Forms
    <3> QED
      BY <2>3, <3>1, SameDigits
  <2> QED
    BY <2>1, <2>2, <2>3
<1>0. Rank(s) \in Nat /\ Rank(t) \in Nat /\ (Len(s) # 0 => Rank(s) > 0) /\ (Len(t) # 0 => Rank(t) > 0)
  BY Ranks
<1>4. CASE Len(s) = 0
  <2>1. TextLeq(s, t) /\ Rank(s) = 0
    BY <1>1, <1>2, <1>4
  <2>2. Rank(s) = Rank(t) => s = t
    BY <1>0, <1>3, <1>4, <2>1
  <2>3. Rank(s) <= Rank(t)
    BY <1>0, <2>1
  <2> QED
    BY <1>0, <2>1, <2>2, <2>3
<1>5. CASE Len(s) # 0 /\ Len(t) = 0
  <2>1. ~TextLeq(s, t) /\ Rank(t) = 0
    BY <1>1, <1>2, <1>5
  <2>2. Rank(s) > Rank(t)
    BY <1>0, <1>5, <2>1
  <2> QED
    BY <1>0, <2>1, <2>2
<1>6. CASE Len(s) = 1 /\ Len(t) = 1
  BY <1>1, <1>2, <1>3, <1>6
<1>7. CASE Len(s) = 1 /\ Len(t) = 2
  <2>1. s[1] \in 0..9 /\ t[1] \in 0..9 /\ t[2] \in 0..9
    BY <1>2, <1>7
  <2>2. /\ 11 * s[1] + 1 <= 11 * t[1] + t[2] + 2 <=> s[1] <= t[1]
        /\ 11 * s[1] + 1 # 11 * t[1] + t[2] + 2
    BY <2>1, Arithmetic
  <2> QED
    BY <1>1, <1>2, <1>7, <2>1, <2>2
<1>8. CASE Len(s) = 2 /\ Len(t) = 1
  <2>1. s[1] \in 0..9 /\ t[1] \in 0..9 /\ s[2] \in 0..9
    BY <1>2, <1>8
  <2>2. /\ 11 * s[1] + s[2] + 2 <= 11 * t[1] + 1 <=> s[1] < t[1]
        /\ 11 * t[1] + 1 # 11 * s[1] + s[2] + 2
    BY <2>1, Arithmetic
  <2> QED
    BY <1>1, <1>2, <1>8, <2>1, <2>2
<1>9. CASE Len(s) = 2 /\ Len(t) = 2
  <2>1. s[1] \in 0..9 /\ t[1] \in 0..9 /\ s[2] \in 0..9 /\ t[2] \in 0..9
    BY <1>2, <1>9
  <2> DEFINE Agree(a, b, c, d) ==
                 /\ 11 * a + c + 2 <= 11 * b + d + 2 <=> a < b \/ (a = b /\ c <= d)
                 /\ 11 * a + c + 2 = 11 * b + d + 2 <=> a = b /\ c = d
  <2>0. \A a, b, c, d \in 0..9 : Agree(a, b, c, d)
    BY Arithmetic
  <2> HIDE DEF Agree
  <2>7. Agree(s[1], t[1], s[2], t[2])
    BY <2>0, <2>1
  <2>2. /\ 11 * s[1] + s[2] + 2 <= 11 * t[1] + t[2] + 2
              <=> s[1] < t[1] \/ (s[1] = t[1] /\ s[2] <= t[2])
        /\ 11 * s[1] + s[2] + 2 = 11 * t[1] + t[2] + 2 <=> s[1] = t[1] /\ s[2] = t[2]
    BY <2>7 DEF Agree
  <2>3. Rank(s) = 11 * s[1] + s[2] + 2 /\ Rank(t) = 11 * t[1] + t[2] + 2
    BY <1>2, <1>9
  <2>4. TextLeq(s, t) <=> s[1] < t[1] \/ (s[1] = t[1] /\ s[2] <= t[2])
    BY <1>1, <1>9
  <2>5. TextLeq(s, t) <=> Rank(s) <= Rank(t)
    BY <2>2, <2>3, <2>4
  <2>6. Rank(s) = Rank(t) => s = t
    BY <1>3, <1>9, <2>2, <2>3
  <2> QED
    BY <1>0, <2>5, <2>6
<1> QED
  BY <1>2, <1>4, <1>5, <1>6, <1>7, <1>8, <1>9

-------------------------------------------------------------------------------
(* The order of records *)

\* r is kept of r and q: what the fold decides, and what Winner asks for
Beats(r, q) ==
    \/ Stamp(q) # Stamp(r) /\ TextLeq(Stamp(q), Stamp(r))
    \/ Stamp(q) = Stamp(r) /\ q.body <= r.body

Level(r) == Rank(Stamp(r))

LEMMA Levels ==
    ASSUME NEW r \in Records, NEW q \in Records
    PROVE  /\ Level(r) \in Nat /\ Level(q) \in Nat /\ r.body \in Int /\ q.body \in Int
           /\ Beats(r, q) <=> Level(q) < Level(r) \/ (Level(q) = Level(r) /\ q.body <= r.body)
           /\ Supersedes(r, q) <=> Beats(r, q)
           /\ Level(r) = Level(q) => Stamp(r) = Stamp(q)
<1>1. Stamp(r) \in Short /\ Stamp(q) \in Short
  BY Stamps
<1>2. r.body \in Int /\ q.body \in Int
  BY RecordAssumption
<1>3. /\ Level(r) \in Nat /\ Level(q) \in Nat
      /\ TextLeq(Stamp(q), Stamp(r)) <=> Level(q) <= Level(r)
      /\ Level(r) = Level(q) => Stamp(r) = Stamp(q)
  BY <1>1, TextOrder DEF Level
<1>4. Stamp(r) = Stamp(q) => Level(r) = Level(q)
  BY DEF Level
<1>5. Beats(r, q) <=> Level(q) < Level(r) \/ (Level(q) = Level(r) /\ q.body <= r.body)
  BY <1>2, <1>3, <1>4 DEF Beats
<1>6. Supersedes(r, q) <=> Beats(r, q)
  BY <1>2, <1>3, <1>4 DEF Beats, Supersedes
<1> QED
  BY <1>2, <1>3, <1>5, <1>6

\* It is a total order of the records of a key.
LEMMA BeatsOrders ==
    ASSUME NEW p \in Records, NEW r \in Records, NEW q \in Records
    PROVE  /\ Beats(r, r)
           /\ Beats(r, q) \/ Beats(q, r)
           /\ Beats(p, r) /\ Beats(r, q) => Beats(p, q)
           /\ Key(r) = Key(q) /\ Beats(r, q) /\ Beats(q, r) => r = q
<1>1. /\ Level(p) \in Nat /\ Level(r) \in Nat /\ Level(q) \in Nat
      /\ p.body \in Int /\ r.body \in Int /\ q.body \in Int
  BY Levels
<1>2. /\ Beats(r, r) <=> Level(r) < Level(r) \/ (Level(r) = Level(r) /\ r.body <= r.body)
      /\ Beats(r, q) <=> Level(q) < Level(r) \/ (Level(q) = Level(r) /\ q.body <= r.body)
      /\ Beats(q, r) <=> Level(r) < Level(q) \/ (Level(r) = Level(q) /\ r.body <= q.body)
      /\ Beats(p, r) <=> Level(r) < Level(p) \/ (Level(r) = Level(p) /\ r.body <= p.body)
      /\ Beats(p, q) <=> Level(q) < Level(p) \/ (Level(q) = Level(p) /\ q.body <= p.body)
  BY Levels
<1>3. ASSUME Key(r) = Key(q), Beats(r, q), Beats(q, r) PROVE r = q
  <2>1. Level(r) = Level(q) /\ r.body = q.body
    BY <1>1, <1>2, <1>3
  <2>2. Stamp(r) = Stamp(q)
    BY <2>1, Levels
  <2> QED
    BY <1>3, <2>1, <2>2, RecordAssumption
<1> QED
  BY <1>1, <1>2, <1>3

-------------------------------------------------------------------------------
(* What is kept of a set of records *)

Rivals(R, k) == {r \in R : Key(r) = k}

\* x is what R leaves under k
IsKept(x, R, k) ==
    IF Rivals(R, k) = {} THEN x = NoRecord
    ELSE x \in Rivals(R, k) /\ \A q \in Rivals(R, k) : Beats(x, q)

LEMMA KeptWins ==
    ASSUME NEW R, R \subseteq Records, NEW k, NEW x, IsKept(x, R, k)
    PROVE  x = Winner(R, k)
<1>1. Winner(R, k) = IF Rivals(R, k) = {} THEN NoRecord
                     ELSE CHOOSE r \in Rivals(R, k) : \A q \in Rivals(R, k) : Beats(r, q)
  BY DEF Winner, Rivals, Beats
<1>2. CASE Rivals(R, k) = {}
  BY <1>1, <1>2 DEF IsKept
<1>3. CASE Rivals(R, k) # {}
  <2> DEFINE Greatest(r) == \A q \in Rivals(R, k) : Beats(r, q)
             w == CHOOSE r \in Rivals(R, k) : Greatest(r)
  <2>1. x \in Rivals(R, k) /\ Greatest(x)
    BY <1>3 DEF IsKept
  <2>2. w \in Rivals(R, k) /\ Greatest(w)
    BY <2>1
  <2>3. Winner(R, k) = w
    BY <1>1, <1>3
  <2>4. Beats(x, w) /\ Beats(w, x)
    BY <2>1, <2>2
  <2> HIDE DEF Greatest, w
  <2>5. x \in Records /\ w \in Records /\ Key(x) = Key(w)
    BY <2>1, <2>2 DEF Rivals
  <2> QED
    BY <2>3, <2>4, <2>5, BeatsOrders
<1> QED
  BY <1>2, <1>3

\* One more record, read for the first time or again: of it and the one kept so
\* far the loop keeps the right one.
LEMMA KeepsRight ==
    ASSUME NEW R, R \subseteq Records, NEW r \in Records, NEW x,
           IsKept(x, R, Key(r))
    PROVE  IsKept(IF x = NoRecord \/ Supersedes(r, x) THEN r ELSE x, R \cup {r}, Key(r))
<1> DEFINE k == Key(r)
<1>1. Rivals(R \cup {r}, k) = Rivals(R, k) \cup {r}
  BY DEF Rivals
<1>2. Rivals(R, k) \subseteq Records /\ r \in Rivals(R \cup {r}, k)
  BY DEF Rivals
<1>3. CASE Rivals(R, k) = {}
  <2>1. x = NoRecord /\ Beats(r, r)
    BY <1>3, BeatsOrders DEF IsKept
  <2> QED
    BY <1>1, <1>3, <2>1 DEF IsKept
<1>4. CASE Rivals(R, k) # {}
  <2>1. x \in Records /\ x # NoRecord /\ x \in Rivals(R, k) /\ \A q \in Rivals(R, k) : Beats(x, q)
    BY <1>2, <1>4, RecordAssumption DEF IsKept
  <2>2. Supersedes(r, x) <=> Beats(r, x)
    BY <2>1, Levels
  <2>3. CASE Beats(r, x)
    <3>1. ASSUME NEW q \in Rivals(R, k) PROVE Beats(r, q)
      BY <1>2, <2>1, <2>3, BeatsOrders
    <3>2. Beats(r, r)
      BY BeatsOrders
    <3> QED
      BY <1>1, <1>2, <2>2, <2>3, <3>1, <3>2 DEF IsKept
  <2>4. CASE ~Beats(r, x)
    <3>1. Beats(x, r)
      BY <2>1, <2>4, BeatsOrders
    <3> QED
      BY <1>1, <1>2, <2>1, <2>2, <2>4, <3>1 DEF IsKept
  <2> QED
    BY <2>3, <2>4
<1> QED
  BY <1>3, <1>4

-------------------------------------------------------------------------------
(* The fold *)

FoldInv ==
    /\ FoldTyped
    /\ input \subseteq Records /\ folded \subseteq Records
    /\ \A k \in Keys :
          /\ running => IsKept(best[k], input, k)
          /\ IsKept(merged[k], folded, k)

LEMMA FoldInitially ==
    ASSUME FoldInit
    PROVE  FoldInv
<1>1. FoldTyped
  BY DEF FoldInit, NoneKept, FoldTyped
<1>2. \A k \in Keys : Rivals(folded, k) = {} /\ merged[k] = NoRecord
  BY DEF FoldInit, NoneKept, Rivals
<1>3. \A k \in Keys : IsKept(merged[k], folded, k)
  BY <1>2 DEF IsKept
<1> QED
  BY <1>1, <1>3 DEF FoldInv, FoldInit

LEMMA FoldTakes ==
    ASSUME FoldInv, NEW r \in Records, Take(r)
    PROVE  FoldInv'
<1>1. Key(r) \in Keys
  BY DEF Keys
<1>2. running /\ UNCHANGED <<merged, running, folded>> /\ input' = input \cup {r}
  BY DEF Take
<1> DEFINE kept == IF best[Key(r)] = NoRecord \/ Supersedes(r, best[Key(r)])
                   THEN r ELSE best[Key(r)]
<1>3. best \in [Keys -> Records \cup {NoRecord}]
  BY DEF FoldInv, FoldTyped
<1>4. best' = [best EXCEPT ![Key(r)] = kept]
  BY <1>1, <1>3 DEF Take
<1>5. IsKept(best[Key(r)], input, Key(r)) /\ input \subseteq Records
  BY <1>1, <1>2 DEF FoldInv
<1>6. IsKept(kept, input', Key(r))
  BY <1>2, <1>5, KeepsRight
<1>7. kept \in Records \cup {NoRecord} /\ (kept # NoRecord => Key(kept) = Key(r))
  BY <1>1, <1>3 DEF FoldInv, FoldTyped
<1> HIDE DEF kept
<1>8. /\ best' \in [Keys -> Records \cup {NoRecord}]
      /\ best'[Key(r)] = kept
      /\ \A k \in Keys \ {Key(r)} : best'[k] = best[k]
  BY <1>1, <1>3, <1>4, <1>7
<1>9. FoldTyped'
  BY <1>2, <1>7, <1>8 DEF FoldInv, FoldTyped
<1>10. ASSUME NEW k \in Keys PROVE IsKept(best'[k], input', k)
  <2>1. CASE k = Key(r)
    BY <1>6, <1>8, <2>1
  <2>2. CASE k # Key(r)
    <3>1. Rivals(input', k) = Rivals(input, k)
      BY <1>2, <2>2 DEF Rivals
    <3>2. IsKept(best[k], input, k)
      BY <1>2 DEF FoldInv
    <3> QED
      BY <1>8, <2>2, <3>1, <3>2 DEF IsKept
  <2> QED
    BY <2>1, <2>2
<1>11. \A k \in Keys : IsKept(merged[k], folded, k)'
  BY <1>2 DEF FoldInv, IsKept, Rivals
<1> QED
  BY <1>2, <1>5, <1>9, <1>10, <1>11 DEF FoldInv

LEMMA FoldSteps ==
    ASSUME FoldInv, [FoldNext]_foldVars
    PROVE  FoldInv'
<1>1. CASE Begin
  BY <1>1 DEF Begin, FoldInv, FoldTyped, IsKept, Rivals
<1>2. CASE Commit
  BY <1>2 DEF Commit, Stop, FoldInv, FoldTyped, NoneKept, IsKept, Rivals
<1>3. CASE CutShort
  BY <1>3 DEF CutShort, Stop, FoldInv, FoldTyped, NoneKept, IsKept, Rivals
<1>4. CASE \E r \in Records : Take(r)
  BY <1>4, FoldTakes
<1>5. CASE UNCHANGED foldVars
  BY <1>5 DEF foldVars, FoldInv, FoldTyped, IsKept, Rivals
<1> QED
  BY <1>1, <1>2, <1>3, <1>4, <1>5 DEF FoldNext

LEMMA FoldHolds == FoldSpec => []FoldInv
<1>1. FoldInit => FoldInv
  BY FoldInitially
<1>2. FoldInv /\ [FoldNext]_foldVars => FoldInv'
  BY FoldSteps
<1> QED
  BY <1>1, <1>2, PTL DEF FoldSpec

\* What the fold keeps under a key is a record of that key, in the running fold
\* and in the committed generation, and a running fold has seen all that the
\* generation comes from.
THEOREM FoldTypeCorrect == FoldSpec => []FoldTyped
<1>1. FoldInv => FoldTyped
  BY DEF FoldInv
<1> QED
  BY <1>1, FoldHolds, PTL

\* C7: whatever the records, the order, the batches and the cycles they are read
\* in, and whichever cycles crash, the fold keeps under each key the one record
\* of the set it has seen that no other exceeds (last_write_wins_fold).
THEOREM FoldOfTheSet == FoldSpec => []FoldIsOfTheSet
<1>1. ASSUME FoldInv PROVE FoldIsOfTheSet
  <2>1. ASSUME NEW k \in Keys, running PROVE best[k] = Winner(input, k)
    <3>1. input \subseteq Records /\ IsKept(best[k], input, k)
      BY <1>1, <2>1 DEF FoldInv
    <3> QED
      BY <1>1, <3>1, KeptWins
  <2>2. ASSUME NEW k \in Keys PROVE merged[k] = Winner(folded, k)
    <3>1. folded \subseteq Records /\ IsKept(merged[k], folded, k)
      BY <1>1 DEF FoldInv
    <3> QED
      BY <1>1, <3>1, KeptWins
  <2> QED
    BY <2>1, <2>2 DEF FoldIsOfTheSet
<1>2. FoldInv => FoldIsOfTheSet
  BY <1>1
<1> QED
  BY <1>2, FoldHolds, PTL

\* The place of the text of a number
LEMMA LevelOf ==
    ASSUME NEW r \in Records, Stamp(r) # <<>>
    PROVE  /\ r.version \in 0..99
           /\ r.version < 10 => Level(r) = 11 * r.version + 1 /\ Len(Stamp(r)) = 1
           /\ r.version >= 10 =>
                 \E a, b \in 0..9 : /\ r.version = 10 * a + b
                                    /\ Level(r) = 11 * a + b + 2
                                    /\ Len(Stamp(r)) = 2
<1>1. /\ r.version \in 0..99
      /\ r.version < 10 => Stamp(r) = <<r.version>>
      /\ r.version >= 10 => Stamp(r) = <<r.version \div 10, r.version % 10>>
  BY Stamps
<1>2. CASE r.version < 10
  <2>1. r.version \in 0..9 /\ Stamp(r) = <<r.version>>
    <3>1. \A n \in 0..99 : n < 10 => n \in 0..9
      OBVIOUS
    <3>2. Stamp(r) = <<r.version>>
      BY <1>1, <1>2, Zenon
    <3> QED
      BY <1>1, <1>2, <3>1, <3>2, Zenon
  <2>2. Rank(<<r.version>>) = 11 * r.version + 1
    BY <2>1, RankOf
  <2>3. Len(<<r.version>>) = 1
    BY <2>1, Texts
  <2> QED
    BY <1>1, <1>2, <2>1, <2>2, <2>3 DEF Level
<1>3. CASE r.version >= 10
  <2> DEFINE a == r.version \div 10
             b == r.version % 10
  <2>1. a \in 0..9 /\ b \in 0..9 /\ r.version = 10 * a + b
    <3>1. \A n \in 0..99 : n >= 10 => /\ n \div 10 \in 0..9 /\ n % 10 \in 0..9
                                      /\ n = 10 * (n \div 10) + (n % 10)
      OBVIOUS
    <3> QED
      BY <1>1, <1>3, <3>1, Zenon
  <2>2. Stamp(r) = <<a, b>>
    BY <1>1, <1>3, Zenon
  <2> HIDE DEF a, b
  <2>3. Rank(<<a, b>>) = 11 * a + b + 2
    BY <2>1, RankOf
  <2>4. Len(<<a, b>>) = 2
    BY <2>1, Texts
  <2>5. Level(r) = 11 * a + b + 2 /\ Len(Stamp(r)) = 2
    BY <2>2, <2>3, <2>4 DEF Level
  <2> QED
    BY <1>1, <1>3, <2>1, <2>5
<1> QED
  BY <1>1, <1>2, <1>3

\* Of stamps of one length the one of the greater version comes later.
LEMMA LaterIsGreater ==
    ASSUME NEW r \in Records, NEW q \in Records,
           Len(Stamp(r)) = Len(Stamp(q)), Stamp(r) # <<>>, Stamp(q) # <<>>,
           Level(r) <= Level(q)
    PROVE  r.version <= q.version
<1>1. r.version \in 0..99 /\ q.version \in 0..99
  BY LevelOf
<1>2. /\ r.version < 10 => Len(Stamp(r)) = 1
      /\ r.version >= 10 => Len(Stamp(r)) = 2
  BY LevelOf
<1>3. /\ q.version < 10 => Len(Stamp(q)) = 1
      /\ q.version >= 10 => Len(Stamp(q)) = 2
  BY LevelOf
<1>4. (r.version < 10 \/ r.version >= 10) /\ (q.version < 10 \/ q.version >= 10)
  <2>1. \A n \in 0..99 : n < 10 \/ n >= 10
    OBVIOUS
  <2> QED
    BY <1>1, <2>1, Zenon
<1>0. 1 # 2
  OBVIOUS
<1>5. CASE r.version < 10
  <2>1. Level(r) = 11 * r.version + 1
    BY <1>5, LevelOf
  <2>2. q.version < 10
    BY <1>0, <1>2, <1>3, <1>4, <1>5, Zenon
  <2>3. Level(q) = 11 * q.version + 1
    BY <2>2, LevelOf
  <2>4. \A m, n \in 0..99 : 11 * m + 1 <= 11 * n + 1 => m <= n
    OBVIOUS
  <2>5. 11 * r.version + 1 <= 11 * q.version + 1
    BY <2>1, <2>3, Zenon
  <2> QED
    BY <1>1, <2>4, <2>5, Zenon
<1>6. CASE r.version >= 10
  <2>1. PICK a \in 0..9, b \in 0..9 : r.version = 10 * a + b /\ Level(r) = 11 * a + b + 2
    BY <1>6, LevelOf
  <2>2. q.version >= 10
    BY <1>0, <1>2, <1>3, <1>4, <1>6, Zenon
  <2>3. PICK c \in 0..9, d \in 0..9 : q.version = 10 * c + d /\ Level(q) = 11 * c + d + 2
    BY <2>2, LevelOf
  <2>4. 11 * a + b + 2 <= 11 * c + d + 2
    BY <2>1, <2>3, Zenon
  <2>5. 10 * a + b <= 10 * c + d
    BY <2>4
  <2> QED
    BY <2>1, <2>3, <2>5, Zenon
<1> QED
  BY <1>4, <1>5, <1>6

\* The committed record of a key has the greatest version of all that were
\* folded, as long as the versions of the key are written in one number of
\* digits (_ver, which compares them as texts).
THEOREM LatestIsKept == FoldSpec => []LatestKept
<1>1. ASSUME FoldInv PROVE LatestKept
  <2> DEFINE kin(r) == {q \in folded : Key(q) = Key(r)}
  <2>1. ASSUME NEW r \in folded,
               \A q \in kin(r) : Stamp(q) # <<>> /\ Len(Stamp(q)) = Len(Stamp(r))
        PROVE  merged[Key(r)].version >= r.version
    <3> DEFINE w == merged[Key(r)]
    <3>1. r \in Records /\ r \in kin(r) /\ Key(r) \in Keys /\ r \in Rivals(folded, Key(r))
      BY <1>1 DEF FoldInv, Keys, Rivals
    <3>2. w \in Rivals(folded, Key(r)) /\ Beats(w, r)
      BY <1>1, <3>1 DEF FoldInv, IsKept
    <3>3. w \in Records /\ w \in kin(r)
      BY <1>1, <3>2 DEF FoldInv, Rivals
    <3>4. Level(r) <= Level(w)
      BY <1>1, <3>1, <3>2, <3>3, Levels
    <3>5. Stamp(r) # <<>> /\ Stamp(w) # <<>> /\ Len(Stamp(r)) = Len(Stamp(w))
      BY <2>1, <3>1, <3>3
    <3> HIDE DEF w
    <3>6. r.version <= w.version
      BY <3>1, <3>3, <3>4, <3>5, LaterIsGreater
    <3>7. r.version \in 0..99
      BY <3>1, <3>5, LevelOf
    <3>8. w.version \in 0..99
      BY <3>3, <3>5, LevelOf
    <3> QED
      BY <3>6, <3>7, <3>8 DEF w
  <2> QED
    BY <2>1 DEF LatestKept
<1>2. FoldInv => LatestKept
  BY <1>1
<1> QED
  BY <1>2, FoldHolds, PTL
===============================================================================
