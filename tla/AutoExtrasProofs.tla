-------------------------- MODULE AutoExtrasProofs --------------------------
(***************************************************************************)
(* The list of tokens has no duplicates, keeps those that are used most and *)
(* survives restarts, and what is collected are the stretches of one path, *)
(* for any inputs, dictionaries, alphabets and sizes of the lists.         *)
(***************************************************************************)
EXTENDS AutoExtras, FiniteSetTheorems, FunctionTheorems, SequenceTheorems,
        WellFoundedInduction, NaturalsInduction, TLAPS

Token == [data : Seq(Byte), hit_cnt : Nat]

\* The tokens of a list.
Tokens(l) == {l[k].data : k \in DOMAIN l}

\* No two tokens of the list are the same, in whatever case.
Distinct(l) == \A j, k \in DOMAIN l : SameNoCase(l[j].data, l[k].data) => j = k

\* Beyond the top, the list is in order of use.
ByUse(l) ==
  \A j, k \in DOMAIN l : j < k /\ k \notin Top(l) => l[j].hit_cnt >= l[k].hit_cnt

\* Of a length that is collected.
Fitting(mem) == Len(mem) \in MIN_AUTO_EXTRA .. MAX_AUTO_EXTRA

---------------------------------------------------------------------------
\* A set of natural numbers has a least member, and Min() finds it.
LEMMA MinOf ==
  ASSUME NEW T \in SUBSET Nat, T # {}
  PROVE  Min(T) \in T /\ \A y \in T : Min(T) <= y
<1> DEFINE R == {ss \in Nat \X Nat : ss[1] < ss[2]}
<1>1. IsWellFoundedOn(R, Nat)
  BY NatLessThanWellFounded DEF OpToRel
<1>2. PICK x \in T : \A y \in T : ~(<<y, x>> \in R)
  BY <1>1, WFMin
<1>3. ASSUME NEW y \in T, ~(x <= y) PROVE FALSE
  <2>1. <<y, x>> \in Nat \X Nat /\ y < x
    BY <1>3
  <2>2. <<y, x>> \in R
    BY <2>1
  <2> QED
    BY <1>2, <2>2
<1> QED
  BY <1>3 DEF Min

\* The tokens that are used are the first of the list.
LEMMA TopIs ==
  ASSUME NEW n \in Nat
  PROVE  /\ Min({USE_AUTO_EXTRAS, n}) \in Nat
         /\ Min({USE_AUTO_EXTRAS, n}) <= n /\ Min({USE_AUTO_EXTRAS, n}) <= USE_AUTO_EXTRAS
         /\ Min({USE_AUTO_EXTRAS, n}) \in {USE_AUTO_EXTRAS, n}
<1>1. USE_AUTO_EXTRAS \in Nat
  BY AutoExtrasAssumption
<1> QED
  BY <1>1, MinOf

\* The places that are used.
LEMMA TopWithin ==
  ASSUME NEW l, Len(l) \in Nat, NEW i \in Top(l)
  PROVE  i \in 1 .. Len(l) /\ i <= USE_AUTO_EXTRAS
<1>1. USE_AUTO_EXTRAS \in Nat
  BY AutoExtrasAssumption
<1> DEFINE top == Min({USE_AUTO_EXTRAS, Len(l)})
<1>2. top \in Nat /\ top <= Len(l) /\ top <= USE_AUTO_EXTRAS
  BY TopIs
<1>3. i \in 1 .. top
  BY DEF Top
<1> HIDE DEF top
<1> QED
  BY <1>1, <1>2, <1>3

\* The comparison does not depend on the order of the two.
LEMMA SameSymmetric ==
  ASSUME NEW s \in Seq(Byte), NEW t \in Seq(Byte)
  PROVE  SameNoCase(s, t) <=> SameNoCase(t, s)
<1>1. ASSUME NEW a \in Seq(Byte), NEW b \in Seq(Byte), SameNoCase(a, b)
      PROVE  SameNoCase(b, a)
  <2>1. DOMAIN a = DOMAIN b
    BY <1>1, LenProperties DEF SameNoCase
  <2> QED
    BY <1>1, <2>1, Zenon DEF SameNoCase
<1> QED
  BY <1>1

\* qsort() rearranges the list, and afterwards all but its top is in order (1863-1873).
LEMMA SortedIs ==
  ASSUME NEW l \in Seq(Token), NEW m \in Sorted(l)
  PROVE  /\ m \in Seq(Token) /\ Len(m) = Len(l) /\ ByUse(m)
         /\ Tokens(m) = Tokens(l)
         /\ Distinct(l) => Distinct(m)
<1>1. PICK p \in Bijection(DOMAIN l, DOMAIN l) : m = [k \in DOMAIN l |-> l[p[k]]]
  BY DEF Sorted
<1>2. DOMAIN l = 1 .. Len(l) /\ Len(l) \in Nat /\ \A k \in DOMAIN l : l[k] \in Token
  OBVIOUS
<1>3. /\ p \in [DOMAIN l -> DOMAIN l]
      /\ \A a, b \in DOMAIN l : p[a] = p[b] => a = b
      /\ \A t \in DOMAIN l : \E a \in DOMAIN l : p[a] = t
  BY DEF Bijection, Injection, Surjection, IsInjective
<1>4. m \in [1 .. Len(l) -> Token]
  BY <1>1, <1>2, <1>3
<1>5. m \in Seq(Token) /\ Len(m) = Len(l) /\ DOMAIN m = DOMAIN l
  BY <1>2, <1>4, SeqDef
<1>6. Top(m) = Top(l)
  BY <1>5 DEF Top
<1>7. ByUse(m)
  <2>1. \A j, k \in DOMAIN l : j < k /\ k \notin Top(l) => m[j].hit_cnt >= m[k].hit_cnt
    BY DEF Sorted
  <2> QED
    BY <1>5, <1>6, <2>1 DEF ByUse
<1>8. Tokens(m) = Tokens(l)
  <2>1. \A k \in DOMAIN l : m[k].data = l[p[k]].data /\ p[k] \in DOMAIN l
    BY <1>1, <1>3
  <2>2. \A k \in DOMAIN l : \E a \in DOMAIN l : m[a].data = l[k].data
    BY <1>3, <2>1
  <2>3. Tokens(m) \subseteq Tokens(l)
    <3> SUFFICES ASSUME NEW k \in DOMAIN m PROVE m[k].data \in Tokens(l)
      BY Zenon DEF Tokens
    <3> QED BY <1>5, <2>1, Zenon DEF Tokens
  <2>4. Tokens(l) \subseteq Tokens(m)
    BY <1>5, <2>2, Zenon DEF Tokens
  <2> QED
    BY <2>3, <2>4
<1>9. Distinct(l) => Distinct(m)
  <2> SUFFICES ASSUME Distinct(l), NEW j \in DOMAIN l, NEW k \in DOMAIN l,
                      SameNoCase(m[j].data, m[k].data)
               PROVE  j = k
    BY <1>5 DEF Distinct
  <2>1. SameNoCase(l[p[j]].data, l[p[k]].data) /\ p[j] \in DOMAIN l /\ p[k] \in DOMAIN l
    BY <1>1, <1>3
  <2> QED
    BY <1>3, <2>1 DEF Distinct
<1> QED
  BY <1>5, <1>7, <1>8, <1>9

---------------------------------------------------------------------------
\* What maybe_add_auto() is given is listed afterwards, unless it is rejected, and nothing
\* else is new (1774-1875).
LEMMA AddedIs ==
  ASSUME NEW l \in Seq(Token), Len(l) <= MAX_AUTO_EXTRAS, ByUse(l), Distinct(l),
         NEW mem \in Seq(Byte), NEW m \in maybe_add_auto(l, mem)
  PROVE  /\ m \in Seq(Token) /\ ByUse(m) /\ Distinct(m)
         /\ Len(l) <= Len(m) /\ Len(m) <= MAX_AUTO_EXTRAS
         /\ Rejected(mem) => m = l
         /\ ~Rejected(mem) => m # << >>
         /\ Tokens(m) \subseteq Tokens(l) \cup {mem}
         /\ Len(l) < MAX_AUTO_EXTRAS =>
              Tokens(l) \subseteq Tokens(m) /\ Len(m) <= Len(l) + 1
         /\ Len(l) < MAX_AUTO_EXTRAS /\ ~Rejected(mem) /\ Known(l, mem) = {} =>
              mem \in Tokens(m)
         /\ \A k \in DOMAIN l : l[k].data \notin Tokens(m) =>
              \A j \in 1 .. MAX_AUTO_EXTRAS \div 2 :
                j \in DOMAIN l /\ l[j].data \in Tokens(m) /\ l[j].hit_cnt >= l[k].hit_cnt
<1>1. /\ DOMAIN l = 1 .. Len(l) /\ Len(l) \in Nat
      /\ \A k \in DOMAIN l : l[k] \in Token /\ l[k].data \in Seq(Byte)
      /\ MAX_AUTO_EXTRAS \in Nat \ {0}
  <2>1. \A t \in Token : t.data \in Seq(Byte)
    BY DEF Token
  <2> QED BY <2>1, AutoExtrasAssumption, ElementOfSeq
<1> \A k \in DOMAIN l : l[k].data \in Tokens(l)
  BY Zenon DEF Tokens
<1>2. CASE Rejected(mem)
  BY <1>2 DEF maybe_add_auto
<1>3. CASE ~Rejected(mem) /\ Known(l, mem) # {}
  <2> DEFINE i == Min(Known(l, mem))
             hit == [l EXCEPT ![i].hit_cnt = @ + 1]
  <2>1. i \in DOMAIN l
    <3>1. Known(l, mem) \in SUBSET Nat /\ Known(l, mem) \subseteq DOMAIN l
      BY <1>1 DEF Known
    <3> QED BY <1>3, <3>1, MinOf
  <2> HIDE DEF i
  <2>2. /\ hit \in Seq(Token) /\ Len(hit) = Len(l) /\ DOMAIN hit = DOMAIN l
        /\ \A k \in DOMAIN l : hit[k].data = l[k].data
    <3>1. [l[i] EXCEPT !.hit_cnt = @ + 1] \in Token
      <4>1. ASSUME NEW t \in Token
            PROVE  [t EXCEPT !.hit_cnt = t.hit_cnt + 1] \in Token
        <5>1. t.hit_cnt + 1 \in Nat
          BY DEF Token
        <5> QED BY <5>1, Zenon DEF Token
      <4> QED BY <1>1, <2>1, <4>1
    <3>2. hit = [l EXCEPT ![i] = [l[i] EXCEPT !.hit_cnt = @ + 1]]
      OBVIOUS
    <3>3. hit \in Seq(Token) /\ Len(hit) = Len(l)
      BY <2>1, <3>1, <3>2, ExceptSeq
    <3>4. \A k \in DOMAIN l : hit[k].data = l[k].data
      BY <1>1, <2>1 DEF Token
    <3> QED BY <3>3, <3>4
  <2>3. m \in Sorted(hit)
    BY <1>3 DEF maybe_add_auto, i
  <2> HIDE DEF hit
  <2>4. Distinct(hit) /\ Tokens(hit) = Tokens(l)
    BY <2>2, Zenon DEF Distinct, Tokens
  <2>5. m # << >>
    BY <1>1, <2>1, <2>2, <2>3, SortedIs
  <2> QED
    BY <1>3, <2>2, <2>3, <2>4, <2>5, SortedIs
<1>4. CASE ~Rejected(mem) /\ Known(l, mem) = {} /\ Len(l) < MAX_AUTO_EXTRAS
  <2> DEFINE more == Append(l, New(mem))
  <2>1. New(mem) \in Token /\ New(mem).data = mem
    BY DEF New, Token
  <2>2. /\ more \in Seq(Token) /\ Len(more) = Len(l) + 1
        /\ \A k \in DOMAIN l : more[k] = l[k]
        /\ more[Len(l) + 1] = New(mem) /\ DOMAIN more = DOMAIN l \cup {Len(l) + 1}
    BY <1>1, <2>1, AppendProperties
  <2>3. m \in Sorted(more)
    BY <1>4 DEF maybe_add_auto
  <2> HIDE DEF more
  <2>4. \A k \in DOMAIN l : ~SameNoCase(l[k].data, mem) /\ ~SameNoCase(mem, l[k].data)
    BY <1>1, <1>4, SameSymmetric DEF Known
  <2>5. Distinct(more)
    BY <2>1, <2>2, <2>4, Zenon DEF Distinct
  <2>6. Tokens(more) = Tokens(l) \cup {mem}
    <3>1. mem \in Tokens(more) /\ Tokens(l) \subseteq Tokens(more)
      BY <2>1, <2>2, Zenon DEF Tokens
    <3>2. Tokens(more) \subseteq Tokens(l) \cup {mem}
      BY <2>1, <2>2, Zenon DEF Tokens
    <3> QED BY <3>1, <3>2
  <2>7. m # << >>
    BY <1>1, <2>2, <2>3, SortedIs
  <2> QED
    BY <1>1, <1>4, <2>2, <2>3, <2>5, <2>6, <2>7, SortedIs
<1>5. CASE ~Rejected(mem) /\ Known(l, mem) = {} /\ ~(Len(l) < MAX_AUTO_EXTRAS)
  <2>1. PICK i \in BottomHalf : m \in Sorted([l EXCEPT ![i] = New(mem)])
    BY <1>5 DEF maybe_add_auto
  <2> DEFINE other == [l EXCEPT ![i] = New(mem)]
  <2>2. i \in DOMAIN l
    BY <1>1, <1>5 DEF BottomHalf
  <2>3. New(mem) \in Token /\ New(mem).data = mem
    BY DEF New, Token
  <2>4. /\ other \in Seq(Token) /\ Len(other) = Len(l) /\ DOMAIN other = DOMAIN l
        /\ \A k \in DOMAIN l : other[k] = IF k = i THEN New(mem) ELSE l[k]
    BY <2>2, <2>3, ExceptSeq
  <2>5. m \in Sorted(other)
    BY <2>1
  <2> HIDE DEF other
  <2>6. \A k \in DOMAIN l : ~SameNoCase(l[k].data, mem) /\ ~SameNoCase(mem, l[k].data)
    BY <1>1, <1>5, SameSymmetric DEF Known
  <2>7. Distinct(other)
    <3> SUFFICES ASSUME NEW j \in DOMAIN l, NEW k \in DOMAIN l,
                        SameNoCase(other[j].data, other[k].data)
                 PROVE  j = k
      BY <2>4 DEF Distinct
    <3>1. CASE j # i /\ k # i
      <4>1. other[j] = l[j] /\ other[k] = l[k]
        BY <2>4, <3>1
      <4> QED BY <4>1 DEF Distinct
    <3>2. CASE j = i /\ k # i
      <4>1. other[j].data = mem /\ other[k] = l[k]
        BY <2>3, <2>4, <3>2
      <4> QED BY <2>6, <4>1
    <3>3. CASE j # i /\ k = i
      <4>1. other[j] = l[j] /\ other[k].data = mem
        BY <2>3, <2>4, <3>3
      <4> QED BY <2>6, <4>1
    <3> QED BY <3>1, <3>2, <3>3
  <2>8. Tokens(other) \subseteq Tokens(l) \cup {mem}
    BY <2>3, <2>4, Zenon DEF Tokens
  <2>9. m # << >>
    BY <1>1, <2>2, <2>4, <2>5, SortedIs
  <2>10. \A k \in DOMAIN l : k # i => l[k].data \in Tokens(m)
    <3>1. Tokens(m) = Tokens(other)
      BY <2>4, <2>5, SortedIs
    <3>2. \A k \in DOMAIN l : k # i => other[k].data = l[k].data
      BY <2>4
    <3> QED BY <2>4, <3>1, <3>2, Zenon DEF Tokens
  <2>11. /\ \A j \in 1 .. MAX_AUTO_EXTRAS \div 2 : j \in DOMAIN l /\ j < i
         /\ i > USE_AUTO_EXTRAS
    BY <1>1, <1>5, AutoExtrasAssumption DEF BottomHalf
  <2>12. i \notin Top(l)
    BY <1>1, <2>11, TopWithin, AutoExtrasAssumption
  <2>13. \A j \in 1 .. MAX_AUTO_EXTRAS \div 2 : l[j].hit_cnt >= l[i].hit_cnt
    BY <2>2, <2>11, <2>12 DEF ByUse
  <2>14. ASSUME NEW k \in DOMAIN l, l[k].data \notin Tokens(m),
                NEW j \in 1 .. MAX_AUTO_EXTRAS \div 2
         PROVE  j \in DOMAIN l /\ l[j].data \in Tokens(m) /\ l[j].hit_cnt >= l[k].hit_cnt
    <3>1. k = i
      BY <2>10, <2>14
    <3>2. j \in DOMAIN l /\ j # i
      BY <1>1, <2>2, <2>11
    <3> QED BY <2>10, <2>13, <3>1, <3>2
  <2>15. Len(m) = Len(l) /\ m \in Seq(Token) /\ ByUse(m) /\ Distinct(m)
         /\ Tokens(m) = Tokens(other)
    BY <2>4, <2>5, <2>7, SortedIs
  <2> QED
    BY <1>1, <1>5, <2>8, <2>9, <2>14, <2>15
<1> QED
  BY <1>2, <1>3, <1>4, <1>5

---------------------------------------------------------------------------
\* Sorted by length.
Ordered(l) == \A j, k \in DOMAIN l : j < k => Len(l[j]) <= Len(l[k])

\* What load_extras() leaves is in order (1742-1757).
LEMMA LoadedIs ==
  ASSUME NEW dict \in Dictionaries, NEW l \in load_extras(dict)
  PROVE  l \in Seq(Seq(Byte)) /\ Ordered(l)
<1> DEFINE n == Cardinality(WantedItems(dict))
<1>1. dict.items \in Seq([data : Seq(Byte), level : Nat, form : STRING])
  BY AutoExtrasAssumption
<1>2. \A k \in DOMAIN dict.items : dict.items[k].data \in Seq(Byte)
  <2> DEFINE Item == [data : Seq(Byte), level : Nat, form : STRING]
             items == dict.items
  <2>1. items \in Seq(Item)
    BY <1>1
  <2> HIDE DEF Item, items
  <2>2. \A k \in DOMAIN items : items[k] \in Item
    BY <2>1, ElementOfSeq, LenProperties
  <2> QED BY <2>2 DEF Item, items
<1>3. n \in Nat
  <2>1. IsFiniteSet(DOMAIN dict.items)
    BY <1>1, LenProperties, FS_Interval
  <2>2. WantedItems(dict) \subseteq DOMAIN dict.items
    BY DEF WantedItems
  <2> QED BY <2>1, <2>2, FS_Subset, FS_CardinalityType
<1>4. PICK p \in Bijection(1 .. n, WantedItems(dict)) :
        l = [k \in 1 .. n |-> dict.items[p[k]].data]
  BY DEF load_extras, Readings
<1>5. p \in [1 .. n -> WantedItems(dict)]
  BY DEF Bijection, Injection
<1>6. \A k \in 1 .. n : dict.items[p[k]].data \in Seq(Byte)
  BY <1>2, <1>5 DEF WantedItems
<1>7. l \in [1 .. n -> Seq(Byte)]
  BY <1>4, <1>6
<1> QED
  BY <1>3, <1>7, SeqDef DEF load_extras, Ordered

\* The search finds every token of the length that it is given: the short cuts are safe as long
\* as the list is sorted (1811-1819).
LEMMA SearchFinds ==
  ASSUME extras \in Seq(Seq(Byte)), Ordered(extras), NEW mem \in Seq(Byte),
         NEW k \in DOMAIN extras, SameNoCase(extras[k], mem)
  PROVE  InExtras(mem)
<1> DEFINE long == {i \in DOMAIN extras : Len(extras[i]) >= Len(mem)} \cup {Len(extras) + 1}
           from == Min(long)
<1>1. /\ DOMAIN extras = 1 .. Len(extras) /\ Len(extras) \in Nat /\ Len(mem) \in Nat
      /\ \A i \in DOMAIN extras : Len(extras[i]) \in Nat
  BY LenProperties, ElementOfSeq
<1>2. Len(extras[k]) = Len(mem)
  BY DEF SameNoCase
<1>3. long \in SUBSET Nat /\ k \in long
  BY <1>1, <1>2
<1>4. from \in long /\ from <= k
  BY <1>3, MinOf
<1> HIDE DEF from
<1>5. from \in DOMAIN extras /\ Len(extras[from]) >= Len(mem)
  BY <1>1, <1>3, <1>4
<1>6. \A j \in from .. k : Len(extras[j]) = Len(mem)
  <2> SUFFICES ASSUME NEW j \in from .. k PROVE Len(extras[j]) = Len(mem)
    OBVIOUS
  <2>1. j \in DOMAIN extras
    BY <1>1, <1>5
  <2>2. Len(extras[from]) <= Len(extras[j])
    <3>1. CASE from = j BY <1>1, <2>1, <3>1
    <3>2. CASE from < j BY <1>5, <2>1, <3>2 DEF Ordered
    <3> QED BY <1>1, <1>5, <3>1, <3>2
  <2>3. Len(extras[j]) <= Len(extras[k])
    <3>1. CASE j = k BY <1>1, <2>1, <3>1
    <3>2. CASE j < k BY <2>1, <3>2 DEF Ordered
    <3> QED BY <1>1, <2>1, <3>1, <3>2
  <2> QED BY <1>1, <1>2, <1>5, <2>1, <2>2, <2>3
<1>7. k \in from .. Len(extras)
  BY <1>1, <1>4, <1>5
<1> QED
  BY <1>6, <1>7 DEF InExtras, from

---------------------------------------------------------------------------
\* The lists themselves.
Listed ==
  /\ extras \in Seq(Seq(Byte)) /\ Ordered(extras)
  /\ a_extras \in Seq(Token) /\ Len(a_extras) <= MAX_AUTO_EXTRAS
  /\ ByUse(a_extras) /\ Distinct(a_extras)
  /\ \A c \in Tokens(a_extras) : Fitting(c) /\ ~Dull(c)

\* A collected token is one of the user's only if it was there before the user's were read.
Foreign ==
  /\ pc \in {"load", "extras"} => extras = << >> /\ Tokens(a_extras) \subseteq inherited
  /\ \A c \in Tokens(a_extras), k \in DOMAIN extras :
       SameNoCase(c, extras[k]) => c \in inherited

\* Each token of s is in its place in f, where the next session looks for it.
InPlace(f, s) ==
  \A k \in DOMAIN s : s[k] # << >> =>
    /\ k \in DOMAIN f /\ k <= USE_AUTO_EXTRAS /\ f[k] = s[k]
    /\ Fitting(s[k]) /\ ~Dull(s[k])

\* The list has the token, in some case.
Has(l, c) == \E t \in Tokens(l) : SameNoCase(t, c)

\* What is between a kill and the next session: what is left is in `files`.
Stored ==
  /\ pc \in {"load", "extras", "dry", "fatal", "ready", "flip", "save", "write"}
  /\ files \in Seq(Seq(Byte)) /\ at \in Nat /\ DOMAIN saved \subseteq Nat \ {0}
  /\ InPlace(files, Left)
  /\ pc \in {"extras", "dry", "fatal"} => files = << >>
  /\ pc \in {"extras", "dry"} => \A k \in DOMAIN saved : saved[k] # << >> => Has(a_extras, saved[k])
  /\ pc \in {"load", "extras", "dry"} /\ ~auto_changed => a_extras = << >>

\* What load_auto() has read so far.
Loaded ==
  pc = "load" =>
    /\ at >= 1 /\ Len(a_extras) < at
    /\ \A k \in DOMAIN saved : k < at /\ saved[k] # << >> => Has(a_extras, saved[k])

\* Where save_auto() is.
Written ==
  /\ pc \in {"save", "write"} => at \in 1 .. Len(files) + 1
  /\ pc = "write" => at \in Top(a_extras) /\ at <= Len(files)

SaveInv == Listed /\ Stored /\ Loaded /\ Written

\* An empty list.
LEMMA EmptyList ==
  /\ << >> \in Seq(Token) /\ ByUse(<< >>) /\ Distinct(<< >>) /\ Tokens(<< >>) = {}
  /\ << >> \in Seq(Seq(Byte)) /\ Ordered(<< >>)
<1>1. Top(<< >>) = {}
  BY TopIs DEF Top
<1> QED
  BY <1>1 DEF ByUse, Distinct, Tokens, Ordered

\* A new session has old files, and nothing else.
LEMMA SavesInitially == Init => SaveInv
<1> SUFFICES ASSUME Init PROVE SaveInv
  OBVIOUS
<1>1. Listed
  BY EmptyList, AutoExtrasAssumption DEF Init, Listed
<1>2. files \in Seq(Seq(Byte)) /\ DOMAIN saved = 1 .. Len(files) /\ Len(files) \in Nat
  BY AutoExtrasAssumption, LenProperties DEF Init
<1>3. Left = saved
  BY DEF Init, Left
<1>4. InPlace(files, saved)
  BY DEF Init, InPlace, Loadable, Fitting
<1>5. Stored
  BY <1>2, <1>3, <1>4 DEF Init, Stored
<1>6. Loaded
  BY <1>2, EmptyList DEF Init, Loaded
<1> QED
  BY <1>1, <1>5, <1>6 DEF SaveInv, Written, Init

\* A token that fits is added.
LEMMA AddKeeps ==
  ASSUME Listed, NEW mem \in Seq(Byte), Fitting(mem), Add(mem), UNCHANGED extras
  PROVE  /\ Listed' /\ Len(a_extras) <= Len(a_extras')
         /\ \A t \in Tokens(a_extras') : t \in Tokens(a_extras) \/ ~InExtras(t)
<1>1. /\ a_extras' \in Seq(Token) /\ ByUse(a_extras') /\ Distinct(a_extras')
      /\ Len(a_extras) <= Len(a_extras') /\ Len(a_extras') <= MAX_AUTO_EXTRAS
      /\ Rejected(mem) => a_extras' = a_extras
      /\ Tokens(a_extras') \subseteq Tokens(a_extras) \cup {mem}
  BY AddedIs DEF Add, Listed
<1>2. \A c \in Tokens(a_extras') : Fitting(c) /\ ~Dull(c)
  BY <1>1 DEF Listed, Rejected
<1>3. \A t \in Tokens(a_extras') : t \in Tokens(a_extras) \/ ~InExtras(t)
  BY <1>1 DEF Rejected
<1> QED
  BY <1>1, <1>2, <1>3 DEF Listed

\* One file more is loaded; of what was left none is rejected or evicted.
LEMMA LoadAutoSaves ==
  ASSUME SaveInv, extras = << >>, LoadAuto
  PROVE  SaveInv'
<1> USE DEF SaveInv
<1>1. /\ pc = "load" /\ pc' = "load" /\ at \in 1 .. Len(files) /\ at <= USE_AUTO_EXTRAS
      /\ at' = at + 1 /\ UNCHANGED <<extras, files, saved>> /\ files[at] \in Seq(Byte)
      /\ at \in Nat /\ Len(files) \in Nat /\ Len(a_extras) \in Nat
  BY ElementOfSeq, LenProperties DEF LoadAuto, MoreFiles, Stored, Listed
<1>2. InPlace(files, saved) /\ Left' = saved /\ DOMAIN saved \subseteq Nat \ {0}
  BY <1>1 DEF Stored, Left
<1>3. Written'
  BY <1>1 DEF Written
<1>4. CASE ~Loadable(files[at])
  <2>1. UNCHANGED <<a_extras, auto_changed>>
    BY <1>4 DEF LoadAuto
  <2>2. at \in DOMAIN saved => saved[at] = << >>
    BY <1>2, <1>4 DEF InPlace, Loadable, Fitting
  <2>3. Loaded'
    <3>1. \A k \in DOMAIN saved : k < at + 1 => k < at \/ k = at
      BY <1>1, <1>2
    <3> QED BY <1>1, <2>1, <2>2, <3>1 DEF Loaded
  <2> QED
    BY <1>1, <1>2, <1>3, <2>1, <2>3 DEF Listed, Stored
<1>5. CASE Loadable(files[at])
  <2>1. Fitting(files[at]) /\ Add(files[at])
    BY <1>5 DEF LoadAuto, Loadable, Fitting
  <2>2. Listed'
    BY <1>1, <2>1, AddKeeps
  <2>3. Stored'
    <3>1. auto_changed' = (auto_changed \/ ~Rejected(files[at]))
      BY <2>1 DEF Add
    <3>2. Rejected(files[at]) => a_extras' = a_extras
      BY <2>1 DEF Add, maybe_add_auto
    <3>3. ~auto_changed' => a_extras' = << >>
      BY <1>1, <3>1, <3>2, Zenon DEF Stored
    <3> QED
      BY <1>1, <1>2, <3>3 DEF Stored
  <2>4. Len(a_extras) < at /\ Len(a_extras) < MAX_AUTO_EXTRAS
    BY <1>1, AutoExtrasAssumption DEF Loaded
  <2>5. /\ a_extras' \in Seq(Token) /\ Len(a_extras') <= Len(a_extras) + 1
        /\ Tokens(a_extras) \subseteq Tokens(a_extras')
        /\ ~Rejected(files[at]) /\ Known(a_extras, files[at]) = {} =>
             files[at] \in Tokens(a_extras')
    <3>1. a_extras' \in maybe_add_auto(a_extras, files[at])
      BY <2>1 DEF Add
    <3>2. /\ a_extras \in Seq(Token) /\ Len(a_extras) <= MAX_AUTO_EXTRAS
          /\ ByUse(a_extras) /\ Distinct(a_extras)
      BY DEF Listed
    <3> QED BY <1>1, <2>4, <3>1, <3>2, AddedIs
  <2>6. ASSUME at \in DOMAIN saved, saved[at] # << >>
        PROVE  Has(a_extras', saved[at])
    <3>1. files[at] = saved[at] /\ ~Dull(files[at])
      BY <1>2, <2>6 DEF InPlace
    <3>2. ~InExtras(files[at])
      <4>1. Len(extras) = 0 /\ DOMAIN extras = {}
        OBVIOUS
      <4>2. {k \in DOMAIN extras : Len(extras[k]) >= Len(files[at])} \cup {Len(extras) + 1} = {1}
        BY <4>1
      <4>3. Min({1}) = 1
        BY MinOf
      <4> QED BY <4>1, <4>2, <4>3 DEF InExtras
    <3>3. CASE Known(a_extras, files[at]) = {}
      <4>1. files[at] \in Tokens(a_extras')
        BY <2>5, <3>1, <3>2, <3>3 DEF Rejected
      <4>2. SameNoCase(files[at], files[at])
        BY DEF SameNoCase
      <4> QED BY <3>1, <4>1, <4>2 DEF Has
    <3>4. CASE Known(a_extras, files[at]) # {}
      <4>1. PICK k \in DOMAIN a_extras : SameNoCase(a_extras[k].data, files[at])
        BY <3>4 DEF Known
      <4>2. a_extras[k].data \in Tokens(a_extras')
        BY <2>5, <4>1 DEF Tokens
      <4> QED BY <3>1, <4>1, <4>2 DEF Has
    <3> QED BY <3>3, <3>4
  <2>7. ASSUME NEW k \in DOMAIN saved, k < at, saved[k] # << >>
        PROVE  Has(a_extras', saved[k])
    BY <1>1, <2>5, <2>7 DEF Loaded, Has
  <2>8. Loaded'
    <3>1. \A k \in DOMAIN saved : k < at + 1 => k < at \/ k = at
      BY <1>1, <1>2
    <3>2. Len(a_extras') < at + 1 /\ at + 1 >= 1
      <4>1. Len(a_extras') \in Nat
        BY <2>5, LenProperties
      <4> QED BY <1>1, <2>4, <2>5, <4>1
    <3> HIDE DEF SaveInv
    <3> QED BY <1>1, <2>6, <2>7, <3>1, <3>2 DEF Loaded
  <2> QED
    BY <1>3, <2>2, <2>3, <2>8
<1> QED
  BY <1>4, <1>5

\* Before the old directory is deleted, all files with a token have been read.
LEMMA PivotSaves ==
  ASSUME SaveInv, PivotInputs
  PROVE  SaveInv'
<1> USE DEF SaveInv
<1>1. /\ pc = "load" /\ pc' = "extras" /\ files' = << >> /\ at' = 0
      /\ UNCHANGED <<extras, a_extras, auto_changed, saved>>
      /\ ~(at \in DOMAIN files /\ at <= USE_AUTO_EXTRAS)
  BY DEF PivotInputs, MoreFiles, list
<1>2. ASSUME NEW k \in DOMAIN saved, saved[k] # << >>
      PROVE  Has(a_extras, saved[k])
  <2>1. k \in DOMAIN files /\ k <= USE_AUTO_EXTRAS
    BY <1>1, <1>2 DEF Stored, Left, InPlace
  <2>2. DOMAIN files = 1 .. Len(files) /\ Len(files) \in Nat /\ at \in Nat /\ at >= 1
        /\ USE_AUTO_EXTRAS \in Nat
    BY <1>1, LenProperties, AutoExtrasAssumption DEF Stored, Loaded
  <2>3. k < at
    BY <1>1, <2>1, <2>2
  <2> QED BY <1>1, <1>2, <2>3 DEF Loaded
<1>3. InPlace(files', Left')
  BY <1>1 DEF InPlace, Left
<1> QED
  BY <1>1, <1>2, <1>3, EmptyList DEF Listed, Stored, Loaded, Written

\* The start of a session that is not resumed, and what does not touch lists and files.
LEMMA QuietSaves ==
  ASSUME SaveInv, LoadExtras \/ DryRunEnds \/ BeginEntry \/ EndEntry \/ UNCHANGED vars
  PROVE  SaveInv'
<1> USE DEF SaveInv
<1>1. CASE LoadExtras
  <2>1. /\ pc = "extras" /\ pc' \in {"dry", "fatal"}
        /\ UNCHANGED <<a_extras, auto_changed, files, at, saved>>
        /\ UNCHANGED extras \/ \E dict \in Dictionaries : extras' \in load_extras(dict)
    BY <1>1 DEF LoadExtras
  <2>2. extras' \in Seq(Seq(Byte)) /\ Ordered(extras')
    BY <2>1, LoadedIs DEF Listed
  <2>3. InPlace(files', Left')
    BY <2>1 DEF InPlace, Left
  <2> QED BY <2>1, <2>2, <2>3 DEF Listed, Stored, Loaded, Written
<1>2. CASE DryRunEnds
  <2>1. /\ pc = "dry" /\ pc' = "ready" /\ ~auto_changed
        /\ UNCHANGED <<extras, a_extras, auto_changed, files, at, saved>>
    BY <1>2 DEF DryRunEnds, list
  <2>2. a_extras = << >> /\ files = << >>
    BY <2>1 DEF Stored
  <2>3. \A k \in DOMAIN saved : saved[k] = << >>
    BY <2>1, <2>2, EmptyList DEF Stored, Has
  <2>4. InPlace(files', Left')
    BY <2>1, <2>3 DEF InPlace, Left
  <2> QED BY <2>1, <2>4 DEF Listed, Stored, Loaded, Written
<1>3. CASE BeginEntry \/ EndEntry
  <2>1. /\ pc \in {"ready", "flip"} /\ pc' \in {"ready", "flip"}
        /\ UNCHANGED <<extras, a_extras, auto_changed, files, at, saved>>
    BY <1>3 DEF BeginEntry, EndEntry, list
  <2>2. Left' = Left
    BY <2>1 DEF Left
  <2> QED BY <2>1, <2>2 DEF Listed, Stored, Loaded, Written
<1>4. CASE UNCHANGED vars
  <2>1. Left' = Left
    BY <1>4 DEF vars, Left
  <2> QED BY <1>4, <2>1 DEF vars, Listed, Stored, Loaded, Written, Top
<1> QED
  BY <1>1, <1>2, <1>3, <1>4

\* The first save finds nothing, and others find what the one before has left.
LEMMA BeginSaveSaves ==
  ASSUME SaveInv, BeginSave
  PROVE  SaveInv'
<1> USE DEF SaveInv
<1>1. /\ pc \in {"dry", "ready"} /\ pc' = "save" /\ at' = 1
      /\ saved' = (IF pc = "dry" THEN << >> ELSE saved)
      /\ UNCHANGED <<extras, a_extras, files>>
  BY DEF BeginSave
<1>2. Len(files) \in Nat /\ DOMAIN saved \subseteq Nat \ {0} /\ DOMAIN << >> = {}
      /\ 1 .. at' - 1 = {}
  BY <1>1, LenProperties DEF Stored
<1>3. InPlace(files', Left')
  <2>1. DOMAIN Left' = DOMAIN saved' /\ \A k \in DOMAIN saved' : Left'[k] = saved'[k]
    <3>1. DOMAIN saved' \subseteq Nat \ {0}
      BY <1>1, <1>2
    <3> QED BY <1>1, <1>2, <3>1 DEF Left
  <2>2. CASE pc = "dry"
    BY <1>1, <1>2, <2>1, <2>2 DEF InPlace
  <2>3. CASE pc = "ready"
    <3>1. InPlace(files, saved) /\ saved' = saved
      BY <1>1, <2>3 DEF Stored, Left
    <3> QED BY <1>1, <2>1, <3>1 DEF InPlace
  <2> QED BY <1>1, <2>2, <2>3
<1> QED
  BY <1>1, <1>2, <1>3 DEF Listed, Stored, Loaded, Written

\* Writing the file after the last one, or one of those that are there.
LEMMA PutIs ==
  ASSUME files \in Seq(Seq(Byte)), NEW k \in 1 .. Len(files) + 1, NEW c \in Seq(Byte)
  PROVE  /\ Put(k, c) \in Seq(Seq(Byte)) /\ k <= Len(Put(k, c)) /\ Len(files) <= Len(Put(k, c))
         /\ Len(Put(k, c)) \in {Len(files), k}
         /\ Put(k, c)[k] = c
         /\ DOMAIN files \subseteq DOMAIN Put(k, c)
         /\ \A j \in DOMAIN files : j # k => Put(k, c)[j] = files[j]
<1>1. Len(files) \in Nat /\ DOMAIN files = 1 .. Len(files)
      /\ \A j \in DOMAIN files : files[j] \in Seq(Byte)
  BY ElementOfSeq, LenProperties
<1> DEFINE n == IF k <= Len(files) THEN Len(files) ELSE k
<1>2. n \in Nat /\ n \in {Len(files), k} /\ n >= k /\ n >= Len(files)
  BY <1>1
<1>3. DOMAIN files \cup {k} = 1 .. n
  BY <1>1
<1> HIDE DEF n
<1>4. Put(k, c) \in [1 .. n -> Seq(Byte)]
  <2>1. \A j \in 1 .. n : (IF j = k THEN c ELSE files[j]) \in Seq(Byte)
    BY <1>1, <1>3
  <2> QED BY <1>3, <2>1 DEF Put
<1>5. Put(k, c) \in Seq(Seq(Byte)) /\ Len(Put(k, c)) = n
  BY <1>2, <1>4, SeqDef
<1>6. Put(k, c)[k] = c
  BY <1>3 DEF Put
<1>7. \A j \in DOMAIN files : j # k => Put(k, c)[j] = files[j]
  BY DEF Put
<1>8. DOMAIN files \subseteq DOMAIN Put(k, c)
  BY DEF Put
<1> QED
  BY <1>2, <1>5, <1>6, <1>7, <1>8

\* While a file is open nothing is left in its place.
LEMMA SaveOpenSaves ==
  ASSUME SaveInv, SaveOpen
  PROVE  SaveInv'
<1> USE DEF SaveInv
<1>1. /\ pc = "save" /\ at \in Top(a_extras) /\ pc' = "write" /\ files' = Put(at, << >>)
      /\ UNCHANGED <<extras, a_extras, auto_changed, at, saved>>
  BY DEF SaveOpen, list
<1>2. /\ at \in 1 .. Len(files) + 1 /\ files \in Seq(Seq(Byte)) /\ << >> \in Seq(Byte)
      /\ Len(files) \in Nat /\ DOMAIN saved \subseteq Nat \ {0} /\ InPlace(files, Left)
  BY <1>1, LenProperties DEF Written, Stored
<1>3. /\ files' \in Seq(Seq(Byte)) /\ at <= Len(files') /\ DOMAIN files \subseteq DOMAIN files'
      /\ \A j \in DOMAIN files : j # at => files'[j] = files[j]
  <2> DEFINE put == Put(at, << >>)
  <2>1. /\ put \in Seq(Seq(Byte)) /\ at <= Len(put) /\ DOMAIN files \subseteq DOMAIN put
        /\ \A j \in DOMAIN files : j # at => put[j] = files[j]
    BY <1>2, PutIs
  <2> QED BY <1>1, <2>1
<1>4. Written'
  <2>1. at \in 1 .. Len(files') + 1
    BY <1>2, <1>3, LenProperties
  <2> QED BY <1>1, <1>3, <2>1 DEF Written, Top
<1>5. InPlace(files', Left')
  <2> SUFFICES ASSUME NEW k \in DOMAIN Left', Left'[k] # << >>
               PROVE  /\ k \in DOMAIN files' /\ k <= USE_AUTO_EXTRAS /\ files'[k] = Left'[k]
                      /\ Fitting(Left'[k]) /\ ~Dull(Left'[k])
    BY DEF InPlace
  <2>1. Left' = [j \in DOMAIN saved \cup (1 .. at) |->
                   IF j < at THEN a_extras[j].data
                   ELSE IF j = at THEN << >> ELSE saved[j]]
    BY <1>1 DEF Left
  <2>2. Left = [j \in DOMAIN saved \cup (1 .. at - 1) |->
                  IF j < at THEN a_extras[j].data ELSE saved[j]]
    BY <1>1 DEF Left
  <2>3. k \in DOMAIN saved \cup (1 .. at) /\ k # at
    <3>1. k \in DOMAIN saved \cup (1 .. at) /\ ~(at < at)
      BY <1>2, <2>1
    <3> QED BY <2>1, <3>1
  <2>4. k \in DOMAIN Left /\ Left[k] = Left'[k]
    BY <1>2, <2>1, <2>2, <2>3
  <2> QED BY <1>2, <1>3, <2>3, <2>4 DEF InPlace
<1> QED
  BY <1>1, <1>2, <1>3, <1>4, <1>5 DEF Listed, Stored, Loaded

\* One file more is written.
LEMMA SaveWriteSaves ==
  ASSUME SaveInv, SaveWrite
  PROVE  SaveInv'
<1> USE DEF SaveInv
<1>1. /\ pc = "write" /\ pc' = "save" /\ files' = Put(at, a_extras[at].data) /\ at' = at + 1
      /\ UNCHANGED <<extras, a_extras, auto_changed, saved>>
  BY DEF SaveWrite, list
<1>2. /\ at \in Top(a_extras) /\ at <= Len(files) /\ at \in 1 .. Len(files) + 1
      /\ files \in Seq(Seq(Byte)) /\ Len(files) \in Nat /\ Len(a_extras) \in Nat
      /\ DOMAIN saved \subseteq Nat \ {0} /\ InPlace(files, Left)
  BY <1>1, LenProperties DEF Written, Stored, Listed
<1>3. at \in DOMAIN a_extras /\ at <= USE_AUTO_EXTRAS
  BY <1>2, TopWithin, LenProperties DEF Listed
<1>4. a_extras[at].data \in Seq(Byte) /\ Fitting(a_extras[at].data) /\ ~Dull(a_extras[at].data)
  <2>1. a_extras[at] \in Token
    BY <1>3, ElementOfSeq, LenProperties DEF Listed
  <2>2. a_extras[at].data \in Tokens(a_extras)
    BY <1>3 DEF Tokens
  <2> QED BY <2>1, <2>2 DEF Token, Listed
<1>5. /\ files' \in Seq(Seq(Byte)) /\ at <= Len(files') /\ DOMAIN files \subseteq DOMAIN files'
      /\ files'[at] = a_extras[at].data
      /\ \A j \in DOMAIN files : j # at => files'[j] = files[j]
  <2> DEFINE c == a_extras[at].data
             put == Put(at, c)
  <2>1. c \in Seq(Byte)
    BY <1>4
  <2> HIDE DEF c
  <2>2. /\ put \in Seq(Seq(Byte)) /\ at <= Len(put) /\ DOMAIN files \subseteq DOMAIN put
        /\ put[at] = c
        /\ \A j \in DOMAIN files : j # at => put[j] = files[j]
    BY <1>2, <2>1, PutIs
  <2> QED BY <1>1, <2>2 DEF c
<1>6. Written'
  <2>1. at' \in 1 .. Len(files') + 1
    BY <1>1, <1>2, <1>5, LenProperties
  <2> QED BY <1>1, <2>1 DEF Written
<1>7. InPlace(files', Left')
  <2> SUFFICES ASSUME NEW k \in DOMAIN Left', Left'[k] # << >>
               PROVE  /\ k \in DOMAIN files' /\ k <= USE_AUTO_EXTRAS /\ files'[k] = Left'[k]
                      /\ Fitting(Left'[k]) /\ ~Dull(Left'[k])
    BY DEF InPlace
  <2>1. Left' = [j \in DOMAIN saved \cup (1 .. at) |->
                   IF j < at + 1 THEN a_extras[j].data ELSE saved[j]]
    <3>1. at' - 1 = at
      BY <1>1, <1>2
    <3> QED BY <1>1, <3>1 DEF Left
  <2>2. Left = [j \in DOMAIN saved \cup (1 .. at) |->
                  IF j < at THEN a_extras[j].data
                  ELSE IF j = at THEN << >> ELSE saved[j]]
    BY <1>1 DEF Left
  <2>3. CASE k = at
    <3>1. Left'[k] = a_extras[at].data /\ at \in DOMAIN files'
      BY <1>2, <1>5, <2>1, <2>3, LenProperties
    <3> QED BY <1>3, <1>4, <1>5, <2>3, <3>1
  <2>4. CASE k # at
    <3>1. k \in DOMAIN Left /\ Left[k] = Left'[k]
      <4>1. k \in DOMAIN saved \cup (1 .. at) /\ (k < at + 1 <=> k < at)
        BY <1>2, <2>1, <2>4
      <4> QED BY <2>1, <2>2, <2>4, <4>1
    <3> QED BY <1>2, <1>5, <2>4, <3>1 DEF InPlace
  <2> QED BY <2>3, <2>4
<1>8. at' \in Nat
  BY <1>1, <1>2
<1> QED
  BY <1>1, <1>2, <1>5, <1>6, <1>7, <1>8 DEF Listed, Stored, Loaded

\* When the last file is written the top of the list is in place.
LEMMA EndSaveSaves ==
  ASSUME SaveInv, EndSave
  PROVE  SaveInv'
<1> USE DEF SaveInv
<1>1. /\ pc = "save" /\ pc' = "ready" /\ at \notin Top(a_extras) /\ at' = 0
      /\ saved' = [k \in Top(a_extras) |-> a_extras[k].data]
      /\ UNCHANGED <<extras, a_extras, auto_changed, files>>
  BY DEF EndSave, list
<1>2. at \in Nat /\ at >= 1 /\ InPlace(files, Left) /\ Len(a_extras) \in Nat
  BY <1>1, LenProperties DEF Written, Stored, Listed
<1>3. Top(a_extras) \subseteq 1 .. at - 1
  <2> DEFINE top == Min({USE_AUTO_EXTRAS, Len(a_extras)})
  <2>1. top \in Nat /\ Top(a_extras) = 1 .. top
    BY <1>2, TopIs DEF Top
  <2> HIDE DEF top
  <2> QED BY <1>1, <1>2, <2>1
<1>4. InPlace(files', Left')
  <2>1. Left' = saved'
    BY <1>1 DEF Left
  <2>2. \A k \in Top(a_extras) : k \in DOMAIN Left /\ Left[k] = saved'[k]
    BY <1>1, <1>2, <1>3 DEF Left
  <2> QED BY <1>1, <1>2, <2>1, <2>2 DEF InPlace
<1>5. DOMAIN saved' \subseteq Nat \ {0}
  BY <1>1, <1>2, <1>3
<1> QED
  BY <1>1, <1>4, <1>5 DEF Listed, Stored, Loaded, Written

\* A restart has nothing but the files.
LEMMA RestartSaves ==
  ASSUME SaveInv, Restart
  PROVE  SaveInv'
<1> USE DEF SaveInv
<1>1. /\ pc' = "load" /\ at' = 1 /\ extras' = << >> /\ a_extras' = << >>
      /\ files' = files /\ pc # "load" /\ saved' = Left
  BY DEF Restart
<1>2. Left' = Left
  BY <1>1 DEF Left
<1>3. DOMAIN Left \subseteq Nat \ {0}
  BY DEF Left, Stored
<1>4. Listed'
  BY <1>1, EmptyList, AutoExtrasAssumption DEF Listed
<1>5. Stored'
  BY <1>1, <1>2, <1>3 DEF Stored
<1>6. Loaded'
  BY <1>1, <1>3, EmptyList DEF Loaded
<1> QED
  BY <1>1, <1>4, <1>5, <1>6 DEF Written

---------------------------------------------------------------------------
(* The collection of tokens. *)

\* Stretches, of any sequence of checksums.
StretchesOf(cs) ==
  {r \in (DOMAIN cs) \X (DOMAIN cs) :
     /\ r[1] <= r[2] /\ cs[r[1]] # 0
     /\ \A k \in r[1] .. r[2] : cs[k] = cs[r[1]]
     /\ r[1] > 1 => cs[r[1] - 1] # cs[r[1]]
     /\ r[2] < Len(cs) => cs[r[2] + 1] # cs[r[1]]}

\* The last `m` checksums are those of one path, and no more; of the path `prev`.
Run(cs, m, prev) ==
  /\ m \in Nat /\ m <= Len(cs)
  /\ prev = IF cs = << >> THEN 0 ELSE cs[Len(cs)]
  /\ prev = 0 => m = 0
  /\ prev # 0 => /\ m > 0 /\ \A k \in Len(cs) - m + 1 .. Len(cs) : cs[k] = prev
                 /\ m < Len(cs) => cs[Len(cs) - m] # prev

\* The stretch that ends with the last checksum is the one that is being followed.
LEMMA LastStretch ==
  ASSUME NEW cs \in Seq(Nat), NEW m, NEW prev, Run(cs, m, prev), NEW r \in Nat \X Nat,
         r[2] = Len(cs)
  PROVE  r \in StretchesOf(cs) <=> prev # 0 /\ r[1] = Len(cs) - m + 1
<1> DEFINE n == Len(cs)
<1>1. n \in Nat /\ DOMAIN cs = 1 .. n /\ m \in Nat /\ m <= n /\ r[1] \in Nat
  BY LenProperties DEF Run
<1>2. n = 0 \/ (n > 0 /\ prev = cs[n])
  BY <1>1, EmptySeq DEF Run
<1> HIDE DEF n
<1>3. ASSUME r \in StretchesOf(cs)
      PROVE  prev # 0 /\ r[1] = n - m + 1
  <2>1. /\ r[1] \in 1 .. n /\ n > 0 /\ cs[r[1]] # 0
        /\ \A k \in r[1] .. n : cs[k] = cs[r[1]]
        /\ r[1] > 1 => cs[r[1] - 1] # cs[r[1]]
    BY <1>1, <1>3 DEF StretchesOf, n
  <2>2. n \in r[1] .. n
    BY <1>1, <2>1
  <2>3. cs[r[1]] = prev /\ prev # 0
    BY <1>2, <2>1, <2>2
  <2>4. /\ m > 0 /\ \A k \in n - m + 1 .. n : cs[k] = prev
        /\ m < n => cs[n - m] # prev
    BY <2>3 DEF Run, n
  <2>5. ~(r[1] > n - m + 1)
    <3>1. SUFFICES ASSUME r[1] > n - m + 1 PROVE FALSE
      OBVIOUS
    <3>2. r[1] - 1 \in n - m + 1 .. n /\ r[1] > 1
      BY <1>1, <2>1, <2>4, <3>1
    <3> QED BY <2>1, <2>3, <2>4, <3>2
  <2>6. ~(r[1] < n - m + 1)
    <3>1. SUFFICES ASSUME r[1] < n - m + 1 PROVE FALSE
      OBVIOUS
    <3>2. n - m \in r[1] .. n /\ m < n
      BY <1>1, <2>1, <2>4, <3>1
    <3> QED BY <2>1, <2>3, <2>4, <3>2
  <2> QED BY <1>1, <2>1, <2>3, <2>5, <2>6
<1>4. ASSUME prev # 0, r[1] = n - m + 1
      PROVE  r \in StretchesOf(cs)
  <2>1. /\ m > 0 /\ \A k \in n - m + 1 .. n : cs[k] = prev
        /\ m < n => cs[n - m] # prev
    BY <1>4 DEF Run, n
  <2>2. r[1] \in 1 .. n /\ r[1] <= r[2] /\ r[2] = n /\ n \in 1 .. n
    BY <1>1, <1>4, <2>1 DEF n
  <2>3. cs[r[1]] = prev
    BY <1>1, <1>4, <2>1, <2>2
  <2>4. \A k \in r[1] .. r[2] : cs[k] = cs[r[1]]
    BY <1>4, <2>1, <2>2, <2>3
  <2>5. r[1] > 1 => cs[r[1] - 1] # cs[r[1]]
    <3>1. r[1] > 1 => m < n /\ r[1] - 1 = n - m
      BY <1>1, <1>4
    <3> QED BY <2>1, <2>3, <3>1
  <2>6. r \in (DOMAIN cs) \X (DOMAIN cs)
    BY <1>1, <2>2
  <2>7. ~(r[2] < Len(cs))
    BY <1>1, <2>2 DEF n
  <2> QED BY <1>4, <2>2, <2>3, <2>4, <2>5, <2>6, <2>7 DEF StretchesOf
<1> QED
  BY <1>3, <1>4 DEF n

\* With one checksum more, the stretches that end before it are those that ended before, and
\* the last one if the path is another.
LEMMA StretchesGrow ==
  ASSUME NEW cs \in Seq(Nat), NEW c \in Nat, NEW r \in Nat \X Nat, r[2] <= Len(cs)
  PROVE  r \in StretchesOf(Append(cs, c))
           <=> r \in StretchesOf(cs) /\ (r[2] < Len(cs) \/ c # cs[Len(cs)])
<1> DEFINE n == Len(cs)
           more == Append(cs, c)
<1>1. n \in Nat /\ DOMAIN cs = 1 .. n /\ Len(more) = n + 1 /\ DOMAIN more = 1 .. n + 1
      /\ more[n + 1] = c /\ \A k \in 1 .. n : more[k] = cs[k]
  BY LenProperties, AppendProperties
<1> HIDE DEF n, more
<1> SUFFICES r \in StretchesOf(more) <=> r \in StretchesOf(cs) /\ (r[2] < n \/ c # cs[n])
  BY DEF n, more
<1>2. r[1] \in Nat /\ r[2] \in Nat /\ r[2] <= n
  BY DEF n
<1>3. CASE ~(r[1] \in 1 .. n /\ r[1] <= r[2])
  BY <1>1, <1>2, <1>3 DEF StretchesOf
<1>4. CASE r[1] \in 1 .. n /\ r[1] <= r[2]
  <2>1. r[2] \in 1 .. n /\ r \in (1 .. n) \X (1 .. n) /\ r \in (1 .. n + 1) \X (1 .. n + 1)
    BY <1>1, <1>2, <1>4
  <2>2. more[r[1]] = cs[r[1]] /\ more[r[2]] = cs[r[2]]
    BY <1>1, <1>4, <2>1
  <2>3. (\A k \in r[1] .. r[2] : more[k] = more[r[1]])
          <=> (\A k \in r[1] .. r[2] : cs[k] = cs[r[1]])
    <3>1. \A k \in r[1] .. r[2] : more[k] = cs[k]
      BY <1>1, <1>4, <2>1
    <3> QED BY <2>2, <3>1
  <2>4. (r[1] > 1 => more[r[1] - 1] # more[r[1]]) <=> (r[1] > 1 => cs[r[1] - 1] # cs[r[1]])
    <3>1. r[1] > 1 => r[1] - 1 \in 1 .. n
      BY <1>1, <1>4
    <3> QED BY <1>1, <2>2, <3>1
  <2>5. r[2] < Len(more)
    BY <1>1, <2>1
  <2>6. CASE r[2] < n
    <3>1. more[r[2] + 1] = cs[r[2] + 1]
      BY <1>1, <2>1, <2>6
    <3> QED BY <1>1, <1>4, <2>1, <2>2, <2>3, <2>4, <2>5, <2>6, <3>1 DEF StretchesOf, n
  <2>7. CASE r[2] = n
    <3>1. more[r[2] + 1] = c /\ r[2] \in r[1] .. r[2]
      BY <1>1, <1>4, <2>1, <2>7
    <3>2. r \in StretchesOf(more) <=>
            /\ cs[r[1]] # 0 /\ \A k \in r[1] .. r[2] : cs[k] = cs[r[1]]
            /\ r[1] > 1 => cs[r[1] - 1] # cs[r[1]]
            /\ c # cs[r[1]]
      BY <1>1, <1>4, <2>1, <2>2, <2>3, <2>4, <2>5, <3>1 DEF StretchesOf
    <3>3. r \in StretchesOf(cs) <=>
            /\ cs[r[1]] # 0 /\ \A k \in r[1] .. r[2] : cs[k] = cs[r[1]]
            /\ r[1] > 1 => cs[r[1] - 1] # cs[r[1]]
      BY <1>1, <1>4, <2>1, <2>7 DEF StretchesOf, n
    <3>4. (\A k \in r[1] .. r[2] : cs[k] = cs[r[1]]) => cs[n] = cs[r[1]]
      BY <2>7, <3>1
    <3> QED BY <1>1, <2>7, <3>2, <3>3, <3>4
  <2> QED BY <1>1, <2>1, <2>6, <2>7
<1> QED
  BY <1>3, <1>4

\* How the stretch that is being followed goes on.
LEMMA RunGrows ==
  ASSUME NEW cs \in Seq(Nat), NEW c \in Nat, NEW m, NEW prev, Run(cs, m, prev)
  PROVE  Run(Append(cs, c), IF c = 0 THEN 0 ELSE IF c = prev THEN m + 1 ELSE 1, c)
<1> DEFINE n == Len(cs)
           more == Append(cs, c)
<1>1. n \in Nat /\ DOMAIN cs = 1 .. n /\ Len(more) = n + 1 /\ more # << >>
      /\ more[n + 1] = c /\ \A k \in 1 .. n : more[k] = cs[k]
  BY LenProperties, AppendProperties, EmptySeq
<1>2. m \in Nat /\ m <= n /\ (n = 0 \/ (n > 0 /\ prev = cs[n]))
  BY <1>1, EmptySeq DEF Run
<1>3. prev # 0 => /\ m > 0 /\ \A k \in n - m + 1 .. n : cs[k] = prev
                  /\ m < n => cs[n - m] # prev
  BY DEF Run
<1>4. prev = 0 \/ n > 0
  BY <1>2, <1>3
<1> HIDE DEF n, more
<1>5. ASSUME NEW l \in Nat, l <= n + 1, c = 0 => l = 0,
             c # 0 => /\ l > 0 /\ \A k \in n - l + 2 .. n : cs[k] = c
                      /\ l < n + 1 => cs[n + 1 - l] # c
      PROVE  Run(more, l, c)
  <2>1. ASSUME c # 0, NEW k \in n + 1 - l + 1 .. n + 1 PROVE more[k] = c
    <3>1. k = n + 1 \/ (k \in n - l + 2 .. n /\ k \in 1 .. n)
      BY <1>1, <1>5
    <3> QED BY <1>1, <1>5, <2>1, <3>1
  <2>2. ASSUME c # 0, l < n + 1 PROVE more[n + 1 - l] # c
    <3>1. n + 1 - l \in 1 .. n
      BY <1>1, <1>5, <2>2
    <3> QED BY <1>1, <1>5, <2>2, <3>1
  <2> QED BY <1>1, <1>5, <2>1, <2>2 DEF Run
<1>6. CASE c = 0
  BY <1>1, <1>5, <1>6 DEF more
<1>7. CASE c # 0 /\ c # prev
  <2>1. \A k \in n - 1 + 2 .. n : cs[k] = c
    BY <1>1
  <2>2. 1 < n + 1 => cs[n + 1 - 1] # c
    BY <1>1, <1>2, <1>7
  <2>3. Run(more, 1, c)
    BY <1>1, <1>5, <1>7, <2>1, <2>2
  <2> QED BY <1>7, <2>3 DEF more
<1>8. CASE c # 0 /\ c = prev
  <2>1. n - (m + 1) + 2 = n - m + 1 /\ n + 1 - (m + 1) = n - m /\ m + 1 \in Nat
        /\ m + 1 > 0 /\ m + 1 <= n + 1 /\ (m + 1 < n + 1 => m < n)
    BY <1>1, <1>2
  <2>2. Run(more, m + 1, c)
    BY <1>3, <1>5, <1>8, <2>1
  <2> QED BY <1>8, <2>2 DEF more
<1> QED
  BY <1>6, <1>7, <1>8

\* What is in a_collect when `n` bytes are done, the last `m` of which count.
Gathered(s, in, m, n) ==
  /\ s \in Seq(Byte) /\ m \in Nat /\ m <= n
  /\ Len(s) = IF m < MAX_AUTO_EXTRA THEN m ELSE MAX_AUTO_EXTRA
  /\ \A k \in 1 .. Len(s) : s[k] = in[n - m + k]

\* One byte more, if there is room.
LEMMA GatheredGrows ==
  ASSUME NEW s, NEW in, NEW m, NEW n \in Nat, Gathered(s, in, m, n), in \in Seq(Byte), n < Len(in)
  PROVE  Gathered(Extended(s, in[n + 1]), in, m + 1, n + 1)
<1>1. in[n + 1] \in Byte
  BY ElementOfSeq, LenProperties
<1>2. /\ s \in Seq(Byte) /\ m \in Nat /\ m <= n /\ MAX_AUTO_EXTRA \in Nat \ {0}
      /\ Len(s) = IF m < MAX_AUTO_EXTRA THEN m ELSE MAX_AUTO_EXTRA
      /\ Len(s) \in Nat
  BY AutoExtrasAssumption, LenProperties DEF Gathered
<1>3. CASE Len(s) < MAX_AUTO_EXTRA
  <2> DEFINE more == Append(s, in[n + 1])
  <2>1. /\ more \in Seq(Byte) /\ Len(more) = m + 1 /\ more[m + 1] = in[n + 1]
        /\ m < MAX_AUTO_EXTRA /\ Len(s) = m
        /\ \A k \in 1 .. m : more[k] = s[k]
    BY <1>1, <1>2, <1>3, AppendProperties
  <2> HIDE DEF more
  <2>2. ASSUME NEW k \in 1 .. m + 1 PROVE more[k] = in[n + 1 - (m + 1) + k]
    <3>1. n + 1 - (m + 1) + k = n - m + k
      BY <1>2
    <3>2. CASE k = m + 1
      <4>1. n - m + k = n + 1
        BY <1>2, <3>2
      <4> QED BY <2>1, <3>1, <3>2, <4>1
    <3>3. CASE k # m + 1
      <4>1. k \in 1 .. m /\ k \in 1 .. Len(s)
        BY <1>2, <2>1, <3>3
      <4>2. s[k] = in[n - m + k]
        BY <4>1 DEF Gathered
      <4> QED BY <2>1, <3>1, <4>1, <4>2
    <3> QED BY <3>2, <3>3
  <2>3. m + 1 \in Nat /\ m + 1 <= n + 1
        /\ Len(more) = IF m + 1 < MAX_AUTO_EXTRA THEN m + 1 ELSE MAX_AUTO_EXTRA
    BY <1>2, <2>1
  <2> QED BY <1>3, <2>1, <2>2, <2>3 DEF Gathered, Extended, more
<1>4. CASE ~(Len(s) < MAX_AUTO_EXTRA)
  <2>1. Len(s) = MAX_AUTO_EXTRA /\ ~(m + 1 < MAX_AUTO_EXTRA) /\ m + 1 \in Nat /\ m + 1 <= n + 1
        /\ n + 1 - (m + 1) = n - m
    BY <1>2, <1>4
  <2> QED BY <1>2, <1>4, <2>1 DEF Gathered, Extended
<1> QED
  BY <1>3, <1>4

\* If all of it found room, that is a piece of the input.
LEMMA GatheredPiece ==
  ASSUME NEW s, NEW in, NEW m, NEW n \in Nat, Gathered(s, in, m, n), in \in Seq(Byte), n <= Len(in),
         m <= MAX_AUTO_EXTRA
  PROVE  s = SubSeq(in, n - m + 1, n) /\ Len(s) = m
<1>1. /\ s \in Seq(Byte) /\ m \in Nat /\ m <= n /\ Len(s) = m
      /\ \A k \in 1 .. m : s[k] = in[n - m + k]
  <2>1. MAX_AUTO_EXTRA \in Nat
    BY AutoExtrasAssumption
  <2>2. Len(s) = m
    BY <2>1 DEF Gathered
  <2> QED BY <2>2 DEF Gathered
<1>2. /\ n - m + 1 \in Int /\ n \in Int
      /\ \A i \in n - m + 1 .. n : in[i] \in Byte
  BY <1>1, ElementOfSeq, LenProperties
<1> DEFINE piece == SubSeq(in, n - m + 1, n)
<1>3. /\ piece \in Seq(Byte)
      /\ Len(piece) = IF n - m + 1 <= n THEN n - (n - m + 1) + 1 ELSE 0
      /\ \A i \in 1 .. n - (n - m + 1) + 1 : piece[i] = in[n - m + 1 + i - 1]
  BY <1>2, SubSeqProperties
<1> HIDE DEF piece
<1>4. n - (n - m + 1) + 1 = m /\ Len(piece) = m
  BY <1>1, <1>3
<1>5. ASSUME NEW i \in 1 .. m PROVE s[i] = piece[i]
  <2>1. n - m + 1 + i - 1 = n - m + i
    BY <1>1
  <2> QED BY <1>1, <1>3, <1>4, <2>1
<1>6. s = piece
  BY <1>1, <1>3, <1>4, <1>5, SeqEqual
<1> QED
  BY <1>1, <1>6 DEF piece

\* The pieces of the input that make up the stretches with an end up to `last`.
StretchesUpTo(cs, last) ==
  {r \in StretchesOf(cs) : r[2] <= last /\ r[2] - r[1] + 1 \in MIN_AUTO_EXTRA .. MAX_AUTO_EXTRA}

Pieces(s, cs, last) == {SubSeq(s, r[1], r[2]) : r \in StretchesUpTo(cs, last)}

\* The piece that is being followed, if it fits.
LastPiece(s, cs, m, prev) ==
  IF prev # 0 /\ m \in MIN_AUTO_EXTRA .. MAX_AUTO_EXTRA
  THEN {SubSeq(s, Len(cs) - m + 1, Len(cs))} ELSE {}

\* The last stretch, if it fits, is the one that is being followed.
LEMMA PiecesAtEnd ==
  ASSUME NEW s, NEW cs \in Seq(Nat), NEW m, NEW prev, Run(cs, m, prev), prev \in Nat
  PROVE  Pieces(s, cs, Len(cs)) = Pieces(s, cs, Len(cs) - 1) \cup LastPiece(s, cs, m, prev)
<1> DEFINE n == Len(cs)
           last == <<n - m + 1, n>>
           Open == prev # 0 /\ m \in MIN_AUTO_EXTRA .. MAX_AUTO_EXTRA
<1>1. n \in Nat /\ DOMAIN cs = 1 .. n /\ m \in Nat /\ m <= n /\ last \in Nat \X Nat
      /\ last[1] = n - m + 1 /\ last[2] = n /\ n - (n - m + 1) + 1 = m
  BY LenProperties DEF Run
<1>2. ASSUME NEW r \in StretchesOf(cs)
      PROVE  r \in Nat \X Nat /\ r[2] \in 1 .. n
  BY <1>1 DEF StretchesOf
<1> HIDE DEF n
<1>3. ASSUME NEW r \in StretchesOf(cs)
      PROVE  r[2] <= n <=> r[2] <= n - 1 \/ r[2] = n
  BY <1>1, <1>2
<1>4. ASSUME NEW r \in StretchesOf(cs), r[2] = n
      PROVE  prev # 0 /\ r = last
  <2>1. prev # 0 /\ r[1] = n - m + 1
    BY <1>2, <1>4, LastStretch DEF n
  <2> QED BY <1>1, <1>2, <1>4, <2>1
<1>5. prev # 0 => last \in StretchesOf(cs)
  BY <1>1, LastStretch DEF n
<1> HIDE DEF last
<1>6. StretchesUpTo(cs, n) = StretchesUpTo(cs, n - 1) \cup (IF Open THEN {last} ELSE {})
  <2>1. ASSUME NEW r \in StretchesUpTo(cs, n)
        PROVE  r \in StretchesUpTo(cs, n - 1) \cup (IF Open THEN {last} ELSE {})
    <3>1. /\ r \in StretchesOf(cs) /\ r[2] <= n
          /\ r[2] - r[1] + 1 \in MIN_AUTO_EXTRA .. MAX_AUTO_EXTRA
      BY DEF StretchesUpTo
    <3>2. CASE r[2] <= n - 1
      BY <3>1, <3>2 DEF StretchesUpTo
    <3>3. CASE r[2] = n
      <4>1. prev # 0 /\ r = last
        BY <1>4, <3>1, <3>3
      <4>2. r[2] - r[1] + 1 = m
        BY <1>1, <4>1
      <4> QED BY <3>1, <4>1, <4>2
    <3> QED BY <1>3, <3>1, <3>2, <3>3
  <2>2. ASSUME NEW r \in StretchesUpTo(cs, n - 1)
        PROVE  r \in StretchesUpTo(cs, n)
    BY <1>3 DEF StretchesUpTo
  <2>3. Open => last \in StretchesUpTo(cs, n)
    BY <1>1, <1>5 DEF StretchesUpTo
  <2> QED BY <2>1, <2>2, <2>3
<1>7. SubSeq(s, last[1], last[2]) = SubSeq(s, n - m + 1, n)
  BY <1>1
<1> HIDE DEF Open
<1>8. Pieces(s, cs, n) = Pieces(s, cs, n - 1)
                        \cup (IF Open THEN {SubSeq(s, last[1], last[2])} ELSE {})
  <2>1. CASE Open  BY <1>6, <2>1 DEF Pieces
  <2>2. CASE ~Open BY <1>6, <2>2 DEF Pieces
  <2> QED BY <2>1, <2>2
<1> QED
  BY <1>7, <1>8 DEF n, Open, LastPiece

\* With one checksum more, the stretch that was followed has ended or goes on.
LEMMA PiecesGrow ==
  ASSUME NEW s, NEW cs \in Seq(Nat), NEW c \in Nat, NEW m, NEW prev, Run(cs, m, prev)
  PROVE  Pieces(s, Append(cs, c), Len(cs)) =
           IF c = prev THEN Pieces(s, cs, Len(cs) - 1) ELSE Pieces(s, cs, Len(cs))
<1> DEFINE n == Len(cs)
           more == Append(cs, c)
<1>1. n \in Nat /\ DOMAIN cs = 1 .. n /\ DOMAIN more = 1 .. n + 1
      /\ (n = 0 \/ (n > 0 /\ prev = cs[n]))
  BY LenProperties, AppendProperties, EmptySeq DEF Run
<1>2. \A r \in StretchesOf(cs) \cup StretchesOf(more) : r \in Nat \X Nat /\ r[2] > 0
  BY <1>1 DEF StretchesOf
<1>3. \A r \in Nat \X Nat : r[2] <= n =>
        (r \in StretchesOf(more) <=> r \in StretchesOf(cs) /\ (r[2] < n \/ c # cs[n]))
  BY StretchesGrow
<1> HIDE DEF n, more
<1>4. CASE n = 0
  <2>1. \A r \in StretchesOf(cs) \cup StretchesOf(more) : ~(r[2] <= n) /\ ~(r[2] <= n - 1)
    BY <1>1, <1>2, <1>4
  <2>2. StretchesUpTo(more, n) = {} /\ StretchesUpTo(cs, n) = {} /\ StretchesUpTo(cs, n - 1) = {}
    BY <2>1 DEF StretchesUpTo
  <2> QED BY <2>2 DEF Pieces, n, more
<1>5. CASE n > 0 /\ c = prev
  <2>1. \A r \in Nat \X Nat : r[2] < n <=> r[2] <= n - 1
    BY <1>1
  <2>2. \A r \in Nat \X Nat : r[2] <= n =>
          (r \in StretchesOf(more) <=> r \in StretchesOf(cs) /\ r[2] <= n - 1)
    BY <1>1, <1>3, <1>5, <2>1
  <2>3. \A r \in Nat \X Nat : r[2] <= n - 1 => r[2] <= n
    BY <1>1
  <2>4. StretchesUpTo(more, n) = StretchesUpTo(cs, n - 1)
    BY <1>2, <2>2, <2>3 DEF StretchesUpTo
  <2> QED BY <1>5, <2>4 DEF Pieces, n, more
<1>6. CASE n > 0 /\ c # prev
  <2>1. \A r \in Nat \X Nat : r[2] <= n =>
          (r \in StretchesOf(more) <=> r \in StretchesOf(cs))
    BY <1>1, <1>3, <1>6
  <2>2. StretchesUpTo(more, n) = StretchesUpTo(cs, n)
    BY <1>2, <2>1 DEF StretchesUpTo
  <2> QED BY <1>6, <2>2 DEF Pieces, n, more
<1> QED
  BY <1>1, <1>4, <1>5, <1>6

\* While an entry is in flip1: what is being followed and gathered, and what was collected.
Flipping ==
  pc = "flip" =>
    /\ input \in Seq(Byte) /\ cksums \in Seq(Nat) /\ Len(cksums) <= Len(input)
    /\ Len(cksums) < Len(input) =>
         /\ Run(cksums, a_len, prev_cksum) /\ prev_cksum \in Nat
         /\ Gathered(a_collect, input, a_len, Len(cksums))
         /\ collected = Pieces(input, cksums, Len(cksums) - 1)
    /\ Len(cksums) = Len(input) => collected = Pieces(input, cksums, Len(cksums))

\* A path other than that of the byte before: what was gathered is collected if it fits.
LEMMA OtherPath ==
  ASSUME Flipping, NEW c \in 0 .. 2, FlipLowest(c), c # prev_cksum
  PROVE  /\ Flipping'
         /\ \/ UNCHANGED a_extras
            \/ \E mem \in Seq(Byte) : Fitting(mem) /\ Add(mem)
<1> DEFINE n == Len(cksums)
           byte == input[n + 1]
<1>1. /\ pc = "flip" /\ pc' = "flip" /\ UNCHANGED input /\ n < Len(input)
      /\ cksums' = Append(cksums, c) /\ prev_cksum' = c
      /\ collected' = collected \cup (IF Long THEN {a_collect} ELSE {})
      /\ a_collect' = (IF c = 0 THEN << >> ELSE <<byte>>) /\ a_len' = (IF c = 0 THEN 0 ELSE 1)
      /\ Long \/ UNCHANGED a_extras
      /\ Long => Add(a_collect)
  BY DEF FlipLowest
<1>2. /\ input \in Seq(Byte) /\ cksums \in Seq(Nat) /\ n \in Nat /\ Len(input) \in Nat
      /\ Run(cksums, a_len, prev_cksum) /\ prev_cksum \in Nat
      /\ Gathered(a_collect, input, a_len, n) /\ collected = Pieces(input, cksums, n - 1)
      /\ c \in Nat
  BY <1>1, LenProperties DEF Flipping
<1>3. {MIN_AUTO_EXTRA, MAX_AUTO_EXTRA} \subseteq Nat /\ MIN_AUTO_EXTRA > 1
      /\ MAX_AUTO_EXTRA > 0
  BY AutoExtrasAssumption
<1>4. cksums' \in Seq(Nat) /\ Len(cksums') = n + 1
  BY <1>1, <1>2, AppendProperties
<1>5. Run(cksums', a_len', c)
  BY <1>1, <1>2, RunGrows
<1>6. Gathered(a_collect', input, a_len', n + 1)
  <2>1. CASE c = 0
    <3>1. a_collect' = << >> /\ a_len' = 0
      BY <1>1, <2>1
    <3> QED BY <1>2, <1>3, <3>1 DEF Gathered
  <2>2. CASE c # 0
    <3>1. a_collect' = <<byte>> /\ a_len' = 1 /\ byte \in Byte
      BY <1>1, <1>2, <2>2, ElementOfSeq
    <3>2. <<byte>> \in Seq(Byte) /\ Len(<<byte>>) = 1 /\ <<byte>>[1] = byte
      BY <3>1
    <3>3. n + 1 - 1 + 1 = n + 1 /\ 1 <= n + 1
      BY <1>2
    <3> QED BY <1>2, <1>3, <3>1, <3>2, <3>3 DEF Gathered
  <2> QED BY <2>1, <2>2
<1>7. Long => a_collect = SubSeq(input, n - a_len + 1, n) /\ Len(a_collect) = a_len
  <2> HIDE DEF n
  <2>1. n <= Len(input)
    BY <1>1, <1>2
  <2>2. Long => a_len <= MAX_AUTO_EXTRA
    BY <1>3 DEF Long
  <2> QED BY <1>2, <2>1, <2>2, GatheredPiece
<1>8. Long <=> prev_cksum # 0 /\ a_len \in MIN_AUTO_EXTRA .. MAX_AUTO_EXTRA
  BY <1>2, <1>3 DEF Long, Run
<1>9. collected' = Pieces(input, cksums, n)
  <2>1. Pieces(input, cksums, n) = Pieces(input, cksums, n - 1)
           \cup LastPiece(input, cksums, a_len, prev_cksum)
    BY <1>2, PiecesAtEnd
  <2>2. LastPiece(input, cksums, a_len, prev_cksum) = IF Long THEN {a_collect} ELSE {}
    BY <1>7, <1>8 DEF LastPiece
  <2> QED BY <1>1, <1>2, <2>1, <2>2
<1>10. collected' = Pieces(input, cksums', n)
  BY <1>1, <1>2, <1>9, PiecesGrow
<1>11. Pieces(input, cksums', n + 1) = Pieces(input, cksums', n)
  <2>1. ~(a_len' \in MIN_AUTO_EXTRA .. MAX_AUTO_EXTRA)
    BY <1>1, <1>3
  <2> HIDE DEF n
  <2>2. Pieces(input, cksums', Len(cksums')) = Pieces(input, cksums', Len(cksums') - 1)
           \cup LastPiece(input, cksums', a_len', c)
    BY <1>2, <1>4, <1>5, PiecesAtEnd
  <2>3. LastPiece(input, cksums', a_len', c) = {}
    BY <2>1 DEF LastPiece
  <2>4. Len(cksums') - 1 = n
    BY <1>2, <1>4
  <2> QED BY <1>4, <2>2, <2>3, <2>4
<1>12. Flipping'
  <2>1. n + 1 - 1 = n /\ n + 1 <= Len(input)
    BY <1>1, <1>2
  <2> HIDE DEF n
  <2> QED BY <1>1, <1>2, <1>4, <1>5, <1>6, <1>10, <1>11, <2>1 DEF Flipping
<1>13. Long => a_collect \in Seq(Byte) /\ Fitting(a_collect)
  BY <1>2, <1>7 DEF Gathered, Long, Fitting
<1> QED
  BY <1>1, <1>12, <1>13

\* The same path, and more bytes to come.
LEMMA SamePath ==
  ASSUME Flipping, NEW c \in 0 .. 2, FlipLowest(c), c = prev_cksum, ~AtEnd
  PROVE  Flipping' /\ UNCHANGED a_extras
<1> DEFINE n == Len(cksums)
           byte == input[n + 1]
<1>1. /\ pc = "flip" /\ pc' = "flip" /\ UNCHANGED input /\ n < Len(input) /\ n # Len(input) - 1
      /\ cksums' = Append(cksums, c) /\ UNCHANGED <<prev_cksum, a_extras>> /\ collected' = collected
      /\ c = 0 => UNCHANGED <<a_collect, a_len>>
      /\ c # 0 => a_collect' = Extended(a_collect, byte) /\ a_len' = a_len + 1
  BY DEF FlipLowest, AtEnd
<1>2. /\ input \in Seq(Byte) /\ cksums \in Seq(Nat) /\ n \in Nat /\ Len(input) \in Nat
      /\ Run(cksums, a_len, prev_cksum) /\ prev_cksum \in Nat
      /\ Gathered(a_collect, input, a_len, n) /\ collected = Pieces(input, cksums, n - 1)
      /\ c \in Nat /\ a_len \in Nat
  BY <1>1, LenProperties DEF Flipping, Run
<1>3. cksums' \in Seq(Nat) /\ Len(cksums') = n + 1
  BY <1>1, <1>2, AppendProperties
<1>4. c = 0 => a_len = 0
  BY <1>2 DEF Run
<1>5. Run(cksums', a_len', c)
  BY <1>1, <1>2, <1>4, RunGrows
<1>6. Gathered(a_collect', input, a_len', n + 1)
  <2>1. CASE c = 0
    <3>1. a_collect' = a_collect /\ a_len' = 0
      BY <1>1, <1>4, <2>1
    <3>2. a_collect \in Seq(Byte) /\ Len(a_collect) = 0 /\ MAX_AUTO_EXTRA > 0
      BY <1>2, <1>4, <2>1, AutoExtrasAssumption DEF Gathered
    <3> QED BY <1>2, <3>1, <3>2 DEF Gathered
  <2>2. CASE c # 0
    BY <1>1, <1>2, <2>2, GatheredGrows
  <2> QED BY <2>1, <2>2
<1>7. collected' = Pieces(input, cksums', n)
  BY <1>1, <1>2, PiecesGrow
<1>8. n + 1 - 1 = n /\ n + 1 < Len(input)
  BY <1>1, <1>2
<1> HIDE DEF n
<1> QED
  BY <1>1, <1>2, <1>3, <1>5, <1>6, <1>7, <1>8 DEF Flipping

\* The same path up to the end: all that was gathered, with the last byte, is collected if it
\* fits.
LEMMA LastByte ==
  ASSUME Flipping, NEW c \in 0 .. 2, FlipLowest(c), c = prev_cksum, AtEnd
  PROVE  /\ Flipping'
         /\ \/ UNCHANGED a_extras
            \/ \E mem \in Seq(Byte) : Fitting(mem) /\ Add(mem)
<1> DEFINE n == Len(cksums)
           more == Extended(a_collect, input[n + 1])
           Fits == a_len + 1 \in MIN_AUTO_EXTRA .. MAX_AUTO_EXTRA
<1>1. /\ pc = "flip" /\ pc' = "flip" /\ UNCHANGED input /\ n < Len(input) /\ n = Len(input) - 1
      /\ cksums' = Append(cksums, c)
      /\ collected' = collected \cup (IF Fits THEN {more} ELSE {})
      /\ Fits \/ UNCHANGED a_extras
      /\ Fits => Add(more)
  BY DEF FlipLowest, AtEnd
<1>2. /\ input \in Seq(Byte) /\ cksums \in Seq(Nat) /\ n \in Nat /\ Len(input) \in Nat
      /\ Run(cksums, a_len, prev_cksum) /\ prev_cksum \in Nat
      /\ Gathered(a_collect, input, a_len, n) /\ collected = Pieces(input, cksums, n - 1)
      /\ c \in Nat /\ a_len \in Nat
  BY <1>1, LenProperties DEF Flipping, Run
<1>3. /\ {MIN_AUTO_EXTRA, MAX_AUTO_EXTRA} \subseteq Nat /\ MIN_AUTO_EXTRA > 1
  BY AutoExtrasAssumption
<1>4. cksums' \in Seq(Nat) /\ Len(cksums') = n + 1 /\ n + 1 = Len(input)
  BY <1>1, <1>2, AppendProperties
<1> DEFINE run == IF c = 0 THEN 0 ELSE a_len + 1
<1>5. Run(cksums', run, c)
  BY <1>1, <1>2, RunGrows
<1>6. Gathered(more, input, a_len + 1, n + 1)
  BY <1>1, <1>2, GatheredGrows
<1>7. Fits => more = SubSeq(input, (n + 1) - (a_len + 1) + 1, n + 1) /\ Len(more) = a_len + 1
  <2> DEFINE m == a_len + 1
             done == n + 1
  <2>1. Gathered(more, input, m, done) /\ input \in Seq(Byte)
    BY <1>2, <1>6
  <2>2. done \in Nat /\ done <= Len(input)
    BY <1>2, <1>4
  <2>3. Fits => m <= MAX_AUTO_EXTRA
    BY <1>2, <1>3
  <2> HIDE DEF n, more, m, done
  <2>4. Fits => more = SubSeq(input, done - m + 1, done) /\ Len(more) = m
    BY <2>1, <2>2, <2>3, GatheredPiece
  <2> QED BY <2>4, Zenon DEF m, done
<1>8. c = 0 => ~Fits
  BY <1>2, <1>3 DEF Run
<1> HIDE DEF n, more
<1>9. collected' = Pieces(input, cksums', n) \cup (IF Fits THEN {more} ELSE {})
  BY <1>1, <1>2, PiecesGrow DEF n
<1>10. Pieces(input, cksums', n + 1) = Pieces(input, cksums', n)
         \cup LastPiece(input, cksums', run, c)
  <2> HIDE DEF run
  <2>1. Pieces(input, cksums', Len(cksums')) = Pieces(input, cksums', Len(cksums') - 1)
           \cup LastPiece(input, cksums', run, c)
    BY <1>2, <1>4, <1>5, PiecesAtEnd
  <2>2. Len(cksums') - 1 = n
    BY <1>2, <1>4
  <2> QED BY <1>4, <2>1, <2>2
<1>11. collected' = Pieces(input, cksums', n + 1)
  <2>1. CASE Fits
    <3>1. c # 0 /\ run = a_len + 1
      BY <1>8, <2>1
    <3>2. LastPiece(input, cksums', run, c) = {more}
      BY <1>4, <1>7, <2>1, <3>1 DEF LastPiece
    <3> QED BY <1>9, <1>10, <2>1, <3>2
  <2>2. CASE ~Fits
    <3>1. LastPiece(input, cksums', run, c) = {}
      BY <2>2 DEF LastPiece
    <3> QED BY <1>9, <1>10, <2>2, <3>1
  <2> QED BY <2>1, <2>2
<1>12. Flipping'
  <2>1. ~(n + 1 < Len(input)) /\ n + 1 <= Len(input)
    BY <1>2, <1>4
  <2> QED BY <1>1, <1>2, <1>4, <1>11, <2>1 DEF Flipping
<1>13. Fits => more \in Seq(Byte) /\ Fitting(more)
  BY <1>6, <1>7 DEF Gathered, Fitting
<1> QED
  BY <1>1, <1>12, <1>13

\* So what a byte gives to the list fits, and what was collected is right again.
LEMMA FlipIs ==
  ASSUME Flipping, NEW c \in 0 .. 2, FlipLowest(c)
  PROVE  /\ Flipping'
         /\ \/ UNCHANGED a_extras
            \/ \E mem \in Seq(Byte) : Fitting(mem) /\ Add(mem)
BY OtherPath, SamePath, LastByte

\* Before the first byte there is nothing to follow.
LEMMA FlippingElse ==
  ASSUME Flipping, UNCHANGED <<pc, flip>> \/ pc' # "flip" \/ BeginEntry
  PROVE  Flipping'
<1>1. CASE UNCHANGED <<pc, flip>>
  BY <1>1 DEF flip, Flipping
<1>2. CASE pc' # "flip"
  BY <1>2 DEF Flipping
<1>3. CASE BeginEntry
  <2>1. /\ input' \in Seq(Byte) /\ cksums' = << >> /\ prev_cksum' = 0 /\ a_collect' = << >>
        /\ a_len' = 0 /\ collected' = {}
    BY <1>3, AutoExtrasAssumption DEF BeginEntry
  <2>2. Len(input') \in Nat /\ << >> \in Seq(Nat) /\ << >> \in Seq(Byte) /\ Len(<< >>) = 0
        /\ MAX_AUTO_EXTRA > 0
    BY <2>1, LenProperties, AutoExtrasAssumption
  <2>3. Run(<< >>, 0, 0)
    BY DEF Run
  <2>4. Gathered(<< >>, input', 0, 0)
    BY <2>2 DEF Gathered
  <2>5. \A last : Pieces(input', << >>, last) = {}
    <3>1. StretchesOf(<< >>) = {}
      BY DEF StretchesOf
    <3> QED BY <3>1 DEF Pieces, StretchesUpTo
  <2> QED BY <2>1, <2>2, <2>3, <2>4, <2>5 DEF Flipping
<1> QED
  BY <1>1, <1>2, <1>3

\* What a byte gives to the list disturbs neither what was saved nor the user's tokens.
LEMMA FlipSaves ==
  ASSUME SaveInv, Foreign, Flipping, NEW c \in 0 .. 2, FlipLowest(c)
  PROVE  SaveInv' /\ Foreign'
<1>1. /\ pc = "flip" /\ pc' = "flip" /\ UNCHANGED <<extras, files, at, saved, inherited>>
      /\ UNCHANGED a_extras \/ \E mem \in Seq(Byte) : Fitting(mem) /\ Add(mem)
  BY FlipIs DEF FlipLowest
<1>2. /\ Listed' /\ Len(a_extras) <= Len(a_extras')
      /\ \A t \in Tokens(a_extras') : t \in Tokens(a_extras) \/ ~InExtras(t)
  <2>1. CASE UNCHANGED a_extras
    <3>1. Len(a_extras) \in Nat
      BY LenProperties DEF SaveInv, Listed
    <3> QED BY <1>1, <2>1, <3>1 DEF SaveInv, Listed
  <2>2. CASE \E mem \in Seq(Byte) : Fitting(mem) /\ Add(mem)
    BY <1>1, <2>2, AddKeeps DEF SaveInv
  <2> QED BY <1>1, <2>1, <2>2
<1>3. Stored' /\ Loaded'
  <2>1. Left' = Left
    BY <1>1 DEF Left
  <2> QED BY <1>1, <2>1 DEF SaveInv, Stored, Loaded
<1>4. Written'
  BY <1>1 DEF Written
<1>5. Foreign'
  <2> SUFFICES ASSUME NEW t \in Tokens(a_extras'), NEW k \in DOMAIN extras,
                      SameNoCase(t, extras[k])
               PROVE  t \in inherited
    BY <1>1 DEF Foreign
  <2>1. CASE t \in Tokens(a_extras)
    BY <2>1 DEF Foreign
  <2>2. CASE ~InExtras(t)
    <3>1. extras \in Seq(Seq(Byte)) /\ Ordered(extras) /\ extras[k] \in Seq(Byte)
      BY ElementOfSeq, LenProperties DEF SaveInv, Listed
    <3>2. t \in Seq(Byte)
      <4>1. PICK j \in DOMAIN a_extras' : t = a_extras'[j].data
        BY DEF Tokens
      <4>2. a_extras'[j] \in Token
        BY <1>2, ElementOfSeq, LenProperties DEF Listed
      <4> QED BY <4>1, <4>2 DEF Token
    <3>3. SameNoCase(extras[k], t)
      BY <3>1, <3>2, SameSymmetric
    <3> QED BY <2>2, <3>1, <3>2, <3>3, SearchFinds
  <2> QED BY <1>2, <2>1, <2>2
<1> QED
  BY <1>2, <1>3, <1>4, <1>5 DEF SaveInv

\* The other steps leave alone what is the user's, or begin again.
LEMMA ForeignElse ==
  ASSUME SaveInv, Foreign, [Next]_vars, \A c \in 0 .. 2 : ~FlipLowest(c)
  PROVE  Foreign'
<1>1. CASE LoadAuto
  <2>1. /\ pc = "load" /\ UNCHANGED <<extras, pc>>
        /\ inherited' = {a_extras'[k].data : k \in DOMAIN a_extras'}
    BY <1>1 DEF LoadAuto
  <2>2. extras' = << >> /\ inherited' = Tokens(a_extras')
    BY <2>1 DEF Foreign, Tokens
  <2> QED BY <2>2 DEF Foreign
<1>2. CASE LoadExtras
  <2>1. pc = "extras" /\ pc' \in {"dry", "fatal"} /\ UNCHANGED <<a_extras, inherited>>
    BY <1>2 DEF LoadExtras
  <2> QED BY <2>1 DEF Foreign
<1>3. CASE Restart
  <2>1. extras' = << >> /\ a_extras' = << >>
    BY <1>3 DEF Restart
  <2> QED BY <2>1, EmptyList DEF Foreign
<1>4. CASE PivotInputs
  <2>1. pc = "load" /\ UNCHANGED <<extras, a_extras, inherited>>
    BY <1>4 DEF PivotInputs, list
  <2> QED BY <2>1 DEF Foreign
<1>5. CASE DryRunEnds \/ BeginSave \/ SaveOpen \/ SaveWrite \/ EndSave \/ BeginEntry \/ EndEntry
  <2>1. /\ pc' \in {"ready", "save", "write", "flip"}
        /\ UNCHANGED <<extras, a_extras, inherited>>
    BY <1>5 DEF DryRunEnds, BeginSave, SaveOpen, SaveWrite, EndSave, BeginEntry, EndEntry, list
  <2> QED BY <2>1 DEF Foreign
<1>6. CASE UNCHANGED vars
  BY <1>6 DEF vars, Foreign
<1> QED
  BY <1>1, <1>2, <1>3, <1>4, <1>5, <1>6 DEF Next

---------------------------------------------------------------------------
\* The inductive invariant.
DictInv == SaveInv /\ Foreign /\ Flipping

\* Nothing is loaded, read or followed at first.
LEMMA DictInit == Init => DictInv
<1> SUFFICES ASSUME Init PROVE DictInv
  OBVIOUS
<1>1. Foreign
  BY EmptyList DEF Init, Foreign
<1>2. Flipping
  BY DEF Init, Flipping
<1> QED
  BY <1>1, <1>2, SavesInitially DEF DictInv

\* Every step keeps the invariant.
LEMMA DictStep == DictInv /\ [Next]_vars => DictInv'
<1> SUFFICES ASSUME DictInv, [Next]_vars PROVE DictInv'
  OBVIOUS
<1> USE DEF DictInv
<1>1. ASSUME NEW c \in 0 .. 2, FlipLowest(c) PROVE DictInv'
  BY <1>1, FlipIs, FlipSaves
<1>2. CASE \A c \in 0 .. 2 : ~FlipLowest(c)
  <2>1. Foreign'
    BY <1>2, ForeignElse
  <2>2. Flipping'
    <3>1. UNCHANGED <<pc, flip>> \/ pc' # "flip" \/ BeginEntry
      BY <1>2 DEF Next, vars, flip, LoadAuto, PivotInputs, LoadExtras, DryRunEnds, BeginSave,
                  SaveOpen, SaveWrite, EndSave, Restart, EndEntry
    <3> QED BY <3>1, FlippingElse
  <2>3. SaveInv'
    <3>1. CASE LoadAuto
      <4>1. extras = << >>
        BY <3>1 DEF LoadAuto, Foreign
      <4> QED BY <3>1, <4>1, LoadAutoSaves
    <3>2. CASE PivotInputs BY <3>2, PivotSaves
    <3>3. CASE LoadExtras \/ DryRunEnds \/ BeginEntry \/ EndEntry \/ UNCHANGED vars
      BY <3>3, QuietSaves
    <3>4. CASE BeginSave BY <3>4, BeginSaveSaves
    <3>5. CASE SaveOpen BY <3>5, SaveOpenSaves
    <3>6. CASE SaveWrite BY <3>6, SaveWriteSaves
    <3>7. CASE EndSave BY <3>7, EndSaveSaves
    <3>8. CASE Restart BY <3>8, RestartSaves
    <3> QED
      BY <1>2, <3>1, <3>2, <3>3, <3>4, <3>5, <3>6, <3>7, <3>8 DEF Next
  <2> QED BY <2>1, <2>2, <2>3
<1> QED
  BY <1>1, <1>2

\* The invariant holds throughout.
LEMMA DictHolds == Spec => []DictInv
<1> QED BY DictInit, DictStep, PTL DEF Spec

\* In a session a token is lost only to a new one, when the list is full, and none of the first
\* half was met less often, whatever is loaded, collected and evicted in whatever order
\* (1826-1873).
THEOREM MostUsedStayHolds == Spec => MostUsedStay
<1> DEFINE Kept ==
      pc' # "load" \/ pc = "load" =>
        \A k \in DOMAIN a_extras : Evicted(k) =>
          \A j \in 1 .. MAX_AUTO_EXTRAS \div 2 :
            /\ j \in DOMAIN a_extras /\ ~Evicted(j)
            /\ a_extras[j].hit_cnt >= a_extras[k].hit_cnt
<1>1. DictInv /\ [Next]_vars => [Kept]_vars
  <2> SUFFICES ASSUME DictInv, [Next]_vars, pc' # "load" \/ pc = "load",
                      NEW k \in DOMAIN a_extras, Evicted(k),
                      NEW j \in 1 .. MAX_AUTO_EXTRAS \div 2
               PROVE  /\ j \in DOMAIN a_extras /\ ~Evicted(j)
                      /\ a_extras[j].hit_cnt >= a_extras[k].hit_cnt
    OBVIOUS
  <2>1. \A i \in DOMAIN a_extras : Evicted(i) <=> a_extras[i].data \notin Tokens(a_extras')
    BY DEF Evicted, Tokens
  <2>2. a_extras' # a_extras
    BY DEF Evicted
  <2>3. \E mem \in Seq(Byte) : Add(mem)
    <3>1. CASE LoadAuto
      <4>1. files[at] \in Seq(Byte)
        BY <3>1, ElementOfSeq, LenProperties DEF LoadAuto, MoreFiles, DictInv, SaveInv, Stored
      <4> QED BY <2>2, <3>1, <4>1 DEF LoadAuto
    <3>2. CASE \E c \in 0 .. 2 : FlipLowest(c)
      BY <2>2, <3>2, FlipIs DEF DictInv
    <3>3. CASE Restart
      BY <3>3 DEF Restart
    <3>4. CASE PivotInputs \/ LoadExtras \/ DryRunEnds \/ BeginSave \/ SaveOpen \/ SaveWrite
               \/ EndSave \/ BeginEntry \/ EndEntry \/ UNCHANGED vars
      BY <2>2, <3>4 DEF PivotInputs, LoadExtras, DryRunEnds, BeginSave, SaveOpen, SaveWrite,
                        EndSave, BeginEntry, EndEntry, vars, list
    <3> QED BY <3>1, <3>2, <3>3, <3>4 DEF Next
  <2>4. PICK mem \in Seq(Byte) : a_extras' \in maybe_add_auto(a_extras, mem)
    BY <2>3 DEF Add
  <2>5. /\ a_extras \in Seq(Token) /\ Len(a_extras) <= MAX_AUTO_EXTRAS
        /\ ByUse(a_extras) /\ Distinct(a_extras)
    BY DEF DictInv, SaveInv, Listed
  <2> QED BY <2>1, <2>4, <2>5, AddedIs
<1> QED BY DictHolds, <1>1, PTL DEF Spec, MostUsedStay

\* No token is listed twice, and none that the user's dictionary has was collected: the search
\* may begin late and end early (1811-1829).
THEOREM NoDuplicatesHolds == Spec => []NoDuplicates
<1>1. DictInv => NoDuplicates
  <2> SUFFICES ASSUME DictInv PROVE NoDuplicates
    OBVIOUS
  <2>1. Distinct(a_extras) /\ Foreign
    BY DEF DictInv, SaveInv, Listed
  <2>2. \A j \in DOMAIN a_extras : a_extras[j].data \in Tokens(a_extras)
    BY Zenon DEF Tokens
  <2> QED BY <2>1, <2>2 DEF Distinct, Foreign, NoDuplicates
<1> QED BY DictHolds, <1>1, PTL

\* Each token that is in place when a session ends is known to the next one before it saves
\* anything, for any old files, any number of saves cut short at any file, and whatever was
\* collected meanwhile; `Left` says what is in place (1881-1966).
THEOREM SavedSurviveHolds == Spec => []SavedSurvive
<1>1. DictInv => SavedSurvive
  <2> SUFFICES ASSUME DictInv, pc \in {"extras", "dry"}, NEW k \in DOMAIN saved, saved[k] # << >>
               PROVE  Known(a_extras, saved[k]) # {}
    BY DEF SavedSurvive
  <2>1. Has(a_extras, saved[k])
    BY DEF DictInv, SaveInv, Stored
  <2>2. PICK j \in DOMAIN a_extras : SameNoCase(a_extras[j].data, saved[k])
    BY <2>1 DEF Has, Tokens
  <2> QED BY <2>2 DEF Known
<1> QED BY DictHolds, <1>1, PTL

\* Tokens are the longest stretches that lead to one other path, for any input and any checksums
\* (5123-5193).
THEOREM TokensAreRunsHolds == Spec => []TokensAreRuns
<1>1. DictInv => TokensAreRuns
  <2> SUFFICES ASSUME DictInv, pc = "flip", Len(cksums) = Len(input)
               PROVE  collected = {SubSeq(input, r[1], r[2]) : r \in
                        {s \in Stretches : s[2] - s[1] + 1 \in MIN_AUTO_EXTRA .. MAX_AUTO_EXTRA}}
    BY DEF TokensAreRuns
  <2>1. collected = Pieces(input, cksums, Len(cksums)) /\ cksums \in Seq(Nat)
    BY DEF DictInv, Flipping
  <2>2. Stretches = StretchesOf(cksums)
    BY DEF Stretches, StretchesOf
  <2>3. \A s \in Stretches : s[2] <= Len(cksums)
    BY <2>1, LenProperties DEF Stretches
  <2>4. StretchesUpTo(cksums, Len(cksums)) =
          {s \in Stretches : s[2] - s[1] + 1 \in MIN_AUTO_EXTRA .. MAX_AUTO_EXTRA}
    BY <2>2, <2>3 DEF StretchesUpTo
  <2> QED BY <2>1, <2>4 DEF Pieces
<1> QED BY DictHolds, <1>1, PTL
============================================================================
