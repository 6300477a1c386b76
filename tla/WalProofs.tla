------------------------------ MODULE WalProofs -----------------------------
(***************************************************************************)
(* Proofs, for any commands, any number of entries, crashes and torn       *)
(* appends and any snapshotEvery: the log is a sequence whatever the file  *)
(* it was read from contained; a restart would read back what the process  *)
(* has, from the front, and nothing else; and while no append was torn, it *)
(* would bring back every write a caller was told of.                      *)
(*                                                                         *)
(* The invariant relates the file to the log it mirrors: lines that parse, *)
(* up to the first that does not, are entries with consecutive indices,    *)
(* the same ones as in the log where both have an index, and all of them   *)
(* as long as every line parses.                                           *)
(***************************************************************************)
EXTENDS Wal, SequenceTheorems, WellFoundedInduction, TLAPS

Pieces == [entry : Entries, whole : BOOLEAN]

\* Induction over the naturals, as the existence of a least counterexample.
LEMMA LeastNatural ==
  ASSUME NEW T \in SUBSET Nat, T # {}
  PROVE  \E n \in T : \A m \in T : n <= m
<1> DEFINE R == OpToRel(<, Nat)
<1>1. IsWellFoundedOn(R, Nat)
  BY NatLessThanWellFounded
<1>2. PICK n \in T : \A m \in T : ~(<<m, n>> \in R)
  <2> HIDE DEF R
  <2> QED BY <1>1, WFMin
<1>3. \A m \in T : ~(m < n)
  BY <1>2 DEF OpToRel
<1> QED BY <1>3

LEMMA EntryIndices == \A e \in Entries : e.index \in Nat /\ e.index >= 1
BY BoundsAssumption DEF Entries

-----------------------------------------------------------------------------
(* After: what a snapshot does not cover.                                  *)

\* kept filters s: kept[n] is what is left of the first n entries.
Filters(kept, s, i) ==
  kept = [n \in 0..Len(s) |->
            IF n = 0 THEN <<>> ELSE Keep(kept[n - 1], s[n], i)]

LEMMA FilterExists ==
  ASSUME NEW s \in Seq(Entries), NEW i \in Nat
  PROVE  \E kept : Filters(kept, s, i)
<1> DEFINE Upto(f, n) == f = [k \in 0..n |->
                                IF k = 0 THEN <<>>
                                ELSE Keep(f[k - 1], s[k], i)]
           T == {n \in Nat : ~ \E f : Upto(f, n)}
<1>1. T = {}
  <2> SUFFICES ASSUME T # {} PROVE FALSE
    OBVIOUS
  <2>1. PICK n \in T : \A m \in T : n <= m
    BY LeastNatural
  <2>2. CASE n = 0
    <3> DEFINE g == [k \in 0..0 |-> <<>>]
    <3>1. Upto(g, 0)
      OBVIOUS
    <3> QED
      BY <2>1, <2>2, <3>1
  <2>3. CASE n # 0
    <3>1. n - 1 \in Nat /\ n - 1 \notin T
      <4> HIDE DEF Upto
      <4>1. n \in Nat
        BY <2>1
      <4> HIDE DEF T
      <4> QED
        BY <2>1, <2>3, <4>1
    <3>2. PICK f : Upto(f, n - 1)
      BY <3>1
    <3> DEFINE g == [k \in 0..n |->
                       IF k = 0 THEN <<>> ELSE Keep(f[k - 1], s[k], i)]
    <3>3. \A k \in 0..(n - 1) : g[k] = f[k]
      BY <3>1, <3>2
    <3>4. \A k \in 0..n : k # 0 => k - 1 \in 0..(n - 1)
      BY <2>1
    <3>5. Upto(g, n)
      BY <3>3, <3>4
    <3> QED
      BY <2>1, <3>5
  <2> QED
    BY <2>2, <2>3
<1>2. Len(s) \in Nat
  OBVIOUS
<1> QED
  BY <1>1, <1>2 DEF Filters

LEMMA AfterFilters ==
  ASSUME NEW s \in Seq(Entries), NEW i \in Nat
  PROVE  \E kept : Filters(kept, s, i) /\ After(s, i) = kept[Len(s)]
<1> DEFINE kept == CHOOSE f : Filters(f, s, i)
<1>1. Filters(kept, s, i)
  <2> HIDE DEF kept
  <2>1. \E f : Filters(f, s, i)
    BY FilterExists
  <2> QED
    BY <2>1 DEF kept
<1>2. After(s, i) = kept[Len(s)]
  BY DEF After, Filters
<1> QED
  BY <1>1, <1>2

\* The indices of s count up by one, and begin no later than just after i.
Run(s) == \A m, n \in DOMAIN s : s[n].index = s[m].index + n - m
RunFrom(s, i) == Run(s) /\ (s # <<>> => s[1].index <= i + 1)

\* Of a run, After drops a beginning and keeps the rest.
LEMMA AfterOfRun ==
  ASSUME NEW s \in Seq(Entries), NEW i \in Nat, RunFrom(s, i)
  PROVE  \E k \in 0..Len(s) :
           /\ After(s, i) = [n \in 1..(Len(s) - k) |-> s[n + k]]
           /\ \A n \in 1..k : s[n].index <= i
           /\ \A n \in 1..(Len(s) - k) : s[n + k].index = i + n
<1>0. Len(s) \in Nat /\ DOMAIN s = 1..Len(s)
  OBVIOUS
<1>1. \A n \in 1..Len(s) : s[n] \in Entries /\ s[n].index \in Nat
  BY <1>0, EntryIndices
<1>2. PICK k \in 0..Len(s) :
        /\ \A n \in 1..k : s[n].index <= i
        /\ \A n \in (k + 1)..Len(s) : s[n].index = i + (n - k)
  <2>1. CASE Len(s) = 0
    BY <2>1
  <2>2. CASE Len(s) # 0
    <3> DEFINE a == s[1].index
    <3>1. a \in Nat /\ a <= i + 1 /\ \A n \in 1..Len(s) : s[n].index = a + n - 1
      <4>1. s # <<>> /\ 1 \in 1..Len(s)
        BY <1>0, <2>2
      <4> QED
        BY <1>0, <1>1, <4>1 DEF RunFrom, Run
    <3> HIDE DEF a
    <3>2. CASE i - a + 1 <= Len(s)
      <4> DEFINE k == i - a + 1
      <4>1. k \in 0..Len(s)
        BY <1>0, <3>1, <3>2
      <4>2. \A n \in 1..k : s[n].index <= i
        BY <1>0, <3>1, <3>2
      <4>3. \A n \in (k + 1)..Len(s) : s[n].index = i + (n - k)
        BY <1>0, <3>1, <3>2
      <4> QED
        BY <4>1, <4>2, <4>3
    <3>3. CASE ~(i - a + 1 <= Len(s))
      <4>1. \A n \in 1..Len(s) : s[n].index <= i
        BY <1>0, <3>1, <3>3
      <4> QED
        BY <1>0, <4>1
    <3> QED
      BY <3>2, <3>3
  <2> QED
    BY <2>1, <2>2
<1>3. PICK kept : Filters(kept, s, i) /\ After(s, i) = kept[Len(s)]
  BY AfterFilters
<1> DEFINE Rest(n) == [j \in 1..(IF n > k THEN n - k ELSE 0) |-> s[j + k]]
           T == {n \in Nat : n <= Len(s) /\ kept[n] # Rest(n)}
<1>4. T = {}
  <2> SUFFICES ASSUME T # {} PROVE FALSE
    OBVIOUS
  <2>1. PICK n \in T : \A m \in T : n <= m
    <3> T \in SUBSET Nat
      OBVIOUS
    <3> HIDE DEF T
    <3> QED
      BY LeastNatural
  <2>2. n \in Nat /\ n <= Len(s) /\ kept[n] # Rest(n)
    BY <2>1
  <2>3. n # 0
    <3>1. kept[0] = <<>>
      BY <1>0, <1>3 DEF Filters
    <3>2. Rest(0) = <<>>
      BY <1>2
    <3> HIDE DEF Rest
    <3> QED
      BY <2>2, <3>1, <3>2
  <2>4. n - 1 \in Nat /\ n - 1 <= Len(s) /\ kept[n - 1] = Rest(n - 1)
    <3>1. n - 1 \in Nat /\ n - 1 <= Len(s) /\ ~(n <= n - 1)
      BY <1>0, <2>2, <2>3
    <3>2. n - 1 \notin T
      <4> HIDE DEF T
      <4> QED
        BY <2>1, <3>1
    <3> HIDE DEF Rest
    <3> QED
      BY <3>1, <3>2
  <2>5. n \in 1..Len(s)
    BY <1>0, <2>2, <2>3
  <2>6. kept[n] = IF s[n].index > i THEN Append(kept[n - 1], s[n])
                  ELSE kept[n - 1]
    <3>1. n \in 0..Len(s) /\ n # 0
      BY <1>0, <2>5
    <3>2. kept[n] = Keep(kept[n - 1], s[n], i)
      BY <1>3, <3>1 DEF Filters
    <3> QED
      BY <3>2 DEF Keep
  <2>7. CASE n <= k
    <3>1. kept[n] = kept[n - 1]
      BY <1>1, <1>2, <2>5, <2>6, <2>7
    <3>2. Rest(n) = Rest(n - 1)
      BY <1>0, <1>2, <2>5, <2>7
    <3> HIDE DEF Rest
    <3> QED
      BY <2>2, <2>4, <3>1, <3>2
  <2>8. CASE n > k
    <3>1. s[n].index > i
      BY <1>0, <1>2, <2>5, <2>8
    <3>2. Append(Rest(n - 1), s[n]) = Rest(n)
      <4>1. n - k \in Nat /\ n - k >= 1 /\ n = (n - k) + k
        BY <1>0, <1>2, <2>5, <2>8
      <4>2. Rest(n) = [j \in 1..(n - k) |-> s[j + k]]
        BY <2>8
      <4>3. Rest(n - 1) = [j \in 1..(n - k - 1) |-> s[j + k]]
        BY <4>1
      <4> HIDE DEF Rest
      <4>4. \A j \in 1..(n - k) : s[j + k] \in Entries
        BY <1>0, <1>1, <1>2, <2>5, <4>1
      <4>5. Rest(n - 1) \in Seq(Entries) /\ Len(Rest(n - 1)) = n - k - 1
        <5>1. \A j \in 1..(n - k - 1) : s[j + k] \in Entries
          BY <4>1, <4>4
        <5>2. n - k - 1 \in Nat
          BY <4>1
        <5> DEFINE m == n - k - 1
        <5> HIDE DEF m
        <5>3. [j \in 1..m |-> s[j + k]] \in Seq(Entries)
              /\ Len([j \in 1..m |-> s[j + k]]) = m
          BY <5>1, <5>2 DEF m
        <5> QED
          BY <4>3, <5>3 DEF m
      <4>6. s[n] \in Entries
        BY <1>1, <2>5
      <4>7. Append(Rest(n - 1), s[n]) = [j \in 1..(n - k) |-> s[j + k]]
        <5> DEFINE m == n - k - 1
                   r == Rest(n - 1)
        <5>1. /\ m \in Nat /\ m + 1 = n - k /\ n = (m + 1) + k
              /\ r = [j \in 1..m |-> s[j + k]]
              /\ r \in Seq(Entries) /\ Len(r) = m
          BY <4>1, <4>3, <4>5
        <5> HIDE DEF m, r
        <5>2. Append(r, s[n]) = [j \in 1..(m + 1) |-> s[j + k]]
          BY <4>6, <5>1
        <5> QED
          BY <5>1, <5>2 DEF r
      <4> QED
        BY <4>2, <4>7
    <3> HIDE DEF Rest
    <3> QED
      BY <2>2, <2>4, <2>6, <3>1, <3>2
  <2> QED
    BY <1>2, <2>2, <2>7, <2>8
<1>5. After(s, i) = Rest(Len(s))
  <2> HIDE DEF Rest
  <2> QED
    BY <1>0, <1>3, <1>4
<1>6. \A l : l = Len(s) => Rest(l) = [n \in 1..(l - k) |-> s[n + k]]
  <2> TAKE l
  <2> HAVE l = Len(s)
  <2>1. CASE l > k
    BY <2>1
  <2>2. CASE ~(l > k)
    <3>1. l = k /\ l - k = 0
      BY <1>0, <1>2, <2>2
    <3> QED
      BY <3>1
  <2> QED
    BY <2>1, <2>2
<1>7. \A n \in 1..(Len(s) - k) : s[n + k].index = i + n
  BY <1>0, <1>2
<1> QED
  BY <1>2, <1>5, <1>6, <1>7

LEMMA AfterKeepsTail ==
  ASSUME NEW s \in Seq(Entries), NEW i \in Nat, RunFrom(s, i)
  PROVE  /\ After(s, i) \in Seq(Entries)
         /\ ToSet(After(s, i)) = {e \in ToSet(s) : e.index > i}
         /\ \A n \in 1..Len(After(s, i)) : After(s, i)[n].index = i + n
         /\ After(s, i) # <<>> => Last(After(s, i)) = Last(s)
         /\ After(s, i) = <<>> => \A n \in 1..Len(s) : s[n].index <= i
<1>0. Len(s) \in Nat /\ DOMAIN s = 1..Len(s)
  OBVIOUS
<1>1. PICK k \in 0..Len(s) :
        /\ After(s, i) = [n \in 1..(Len(s) - k) |-> s[n + k]]
        /\ \A n \in 1..k : s[n].index <= i
        /\ \A n \in 1..(Len(s) - k) : s[n + k].index = i + n
  BY AfterOfRun
<1> DEFINE l == Len(s) - k
           a == After(s, i)
<1>2. l \in Nat /\ l + k = Len(s) /\ k \in Nat
  BY <1>0, <1>1
<1>3. \A n \in 1..l : n + k \in 1..Len(s) /\ s[n + k] \in Entries
  BY <1>0, <1>2
<1>4. a = [n \in 1..l |-> s[n + k]]
  BY <1>1
<1> HIDE DEF l, a
<1>5. a \in Seq(Entries) /\ Len(a) = l /\ DOMAIN a = 1..l
  BY <1>2, <1>3, <1>4
<1>6. \A n \in 1..l : a[n] = s[n + k] /\ a[n].index = i + n
  BY <1>1, <1>4 DEF l
<1>7. ToSet(a) = {e \in ToSet(s) : e.index > i}
  <2>1. ASSUME NEW e \in ToSet(a) PROVE e \in ToSet(s) /\ e.index > i
    <3>1. PICK n \in 1..l : e = a[n]
      BY <1>5 DEF ToSet
    <3>2. e = s[n + k] /\ n + k \in DOMAIN s
      BY <1>0, <1>3, <1>6, <3>1
    <3>3. e.index = i + n /\ n >= 1 /\ n \in Nat
      BY <1>2, <1>6, <3>1
    <3> QED
      BY <3>2, <3>3 DEF ToSet
  <2>2. ASSUME NEW e \in ToSet(s), e.index > i PROVE e \in ToSet(a)
    <3>1. PICK n \in 1..Len(s) : e = s[n]
      BY <1>0 DEF ToSet
    <3>2. n \notin 1..k
      <4>1. e.index \in Nat
        BY <3>1, EntryIndices
      <4> QED
        BY <1>1, <2>2, <3>1, <4>1
    <3>3. n - k \in 1..l /\ n = (n - k) + k
      BY <1>0, <1>2, <3>2
    <3>4. e = a[n - k]
      BY <1>6, <3>1, <3>3
    <3> QED
      BY <1>5, <3>3, <3>4 DEF ToSet
  <2> QED
    BY <2>1, <2>2
<1>8. a # <<>> => Last(a) = Last(s)
  <2>1. a # <<>> => l \in 1..l
    BY <1>2, <1>5
  <2> QED
    BY <1>2, <1>5, <1>6, <2>1 DEF Last
<1>9. a = <<>> => \A n \in 1..Len(s) : s[n].index <= i
  <2>1. a = <<>> => l = 0
    BY <1>5
  <2> QED
    BY <1>1, <1>2, <2>1
<1> QED
  BY <1>5, <1>6, <1>7, <1>8, <1>9 DEF a

-----------------------------------------------------------------------------
(* Read: what a file of lines says.                                        *)

Clean(lines) == \A n \in DOMAIN lines : Parses(lines[n])

\* The first k lines parse and the next does not.
Whole(lines, k) ==
  /\ \A n \in 1..k : Parses(lines[n])
  /\ k < Len(lines) => ~Parses(lines[k + 1])

LEMMA WholeExists ==
  ASSUME NEW lines \in Seq(Seq(Pieces))
  PROVE  \E k \in 0..Len(lines) : Whole(lines, k)
<1> DEFINE bad == {n \in DOMAIN lines : ~Parses(lines[n])}
<1>0. Len(lines) \in Nat /\ DOMAIN lines = 1..Len(lines)
  OBVIOUS
<1>1. CASE bad = {}
  <2>1. Whole(lines, Len(lines))
    <3>1. \A n \in 1..Len(lines) : Parses(lines[n])
      BY <1>0, <1>1
    <3>2. ~(Len(lines) < Len(lines))
      BY <1>0
    <3> HIDE DEF bad
    <3> QED
      BY <3>1, <3>2 DEF Whole
  <2>2. Len(lines) \in 0..Len(lines)
    BY <1>0
  <2> WITNESS Len(lines) \in 0..Len(lines)
  <2> QED
    BY <2>1
<1>2. CASE bad # {}
  <2>1. PICK b \in bad : \A m \in bad : b <= m
    <3>1. bad \in SUBSET Nat
      BY <1>0
    <3> HIDE DEF bad
    <3> QED
      BY <1>2, <3>1, LeastNatural
  <2>2. b \in 1..Len(lines) /\ ~Parses(lines[b])
    BY <1>0, <2>1
  <2>3. \A n \in 1..(b - 1) : Parses(lines[n])
    <3> TAKE n \in 1..(b - 1)
    <3>1. n \in DOMAIN lines /\ ~(b <= n)
      BY <1>0, <2>2
    <3>2. n \notin bad
      <4> HIDE DEF bad
      <4> QED
        BY <2>1, <3>1
    <3> QED
      BY <3>1, <3>2
  <2>4. Whole(lines, b - 1) /\ b - 1 \in 0..Len(lines)
    <3>1. (b - 1) + 1 = b
      BY <2>2
    <3> QED
      BY <1>0, <2>2, <2>3, <3>1 DEF Whole
  <2> QED
    BY <2>4
<1> QED
  BY <1>1, <1>2

LEMMA SmallerFits ==
  \A l \in Nat : \A k \in 0..l : k # l => k < l /\ k + 1 \in 1..l
OBVIOUS

LEMMA ReadIs ==
  ASSUME NEW lines \in Seq(Seq(Pieces)), NEW k \in 0..Len(lines),
         Whole(lines, k)
  PROVE  /\ Read(lines) = [n \in 1..k |-> lines[n][1].entry]
         /\ Read(lines) \in Seq(Entries)
         /\ Len(Read(lines)) = k
         /\ Clean(lines) <=> k = Len(lines)
<1> DEFINE bad == {n \in DOMAIN lines : ~Parses(lines[n])}
<1>0. Len(lines) \in Nat /\ DOMAIN lines = 1..Len(lines)
  OBVIOUS
<1>1. bad = {} <=> k = Len(lines)
  <2>1. ASSUME k = Len(lines) PROVE bad = {}
    BY <1>0, <2>1 DEF Whole
  <2>2. ASSUME k # Len(lines) PROVE k + 1 \in bad
    <3>1. k < Len(lines) /\ k + 1 \in DOMAIN lines
      BY <1>0, <2>2, SmallerFits
    <3> QED
      BY <3>1 DEF Whole
  <2> QED
    BY <2>1, <2>2
<1>2. ReadLines(lines) = SubSeq(lines, 1, k)
  <2>1. CASE k = Len(lines)
    BY <1>0, <1>1, <2>1, SubSeqFull DEF ReadLines
  <2>2. CASE k # Len(lines)
    <3>1. k + 1 \in bad /\ \A n \in bad : k + 1 <= n
      <4>1. k < Len(lines) /\ k + 1 \in DOMAIN lines
        BY <1>0, <2>2, SmallerFits
      <4>2. \A n \in 1..Len(lines) : k + 1 <= n \/ n \in 1..k
        BY <1>0
      <4> QED
        BY <1>0, <4>1, <4>2 DEF Whole
    <3>2. bad # {} /\ \A x \in bad : x \in Nat
      BY <1>0, <3>1
    <3>3. Min(bad) = k + 1
      <4> HIDE DEF bad
      <4>1. \E x \in bad : \A y \in bad : x <= y
        BY <3>1
      <4>2. Min(bad) \in bad /\ \A y \in bad : Min(bad) <= y
        BY <4>1 DEF Min
      <4> QED
        BY <3>1, <3>2, <4>2
    <3>4. Min(bad) - 1 = k
      <4> HIDE DEF bad
      <4> QED
        BY <3>3
    <3>5. ReadLines(lines) = SubSeq(lines, 1, Min(bad) - 1)
      BY <3>2 DEF ReadLines
    <3> HIDE DEF bad
    <3> QED
      BY <3>4, <3>5
  <2> QED
    BY <2>1, <2>2
<1>3. /\ DOMAIN ReadLines(lines) = 1..k
      /\ \A n \in 1..k : ReadLines(lines)[n] = lines[n]
  BY <1>0, <1>2
<1>4. Read(lines) = [n \in 1..k |-> lines[n][1].entry]
  BY <1>3 DEF Read
<1>5. \A n \in 1..k : lines[n][1].entry \in Entries
  <2> TAKE n \in 1..k
  <2>1. lines[n] \in Seq(Pieces) /\ Len(lines[n]) = 1
    BY <1>0 DEF Whole, Parses
  <2>2. lines[n][1] \in Pieces
    BY <2>1
  <2> QED
    BY <2>2 DEF Pieces
<1>6. Read(lines) \in Seq(Entries) /\ Len(Read(lines)) = k
  BY <1>4, <1>5
<1> QED
  BY <1>1, <1>4, <1>6 DEF Clean

LEMMA ReadType ==
  ASSUME NEW lines \in Seq(Seq(Pieces))
  PROVE  Read(lines) \in Seq(Entries)
BY WholeExists, ReadIs

LEMMA ReadAsLines ==
  ASSUME NEW s \in Seq(Entries)
  PROVE  /\ AsLines(s) \in Seq(Seq(Pieces))
         /\ \A n \in DOMAIN AsLines(s) : AsLines(s)[n] # <<>>
         /\ Clean(AsLines(s))
         /\ Read(AsLines(s)) = s
<1> DEFINE lines == AsLines(s)
<1>0. Len(s) \in Nat /\ DOMAIN s = 1..Len(s) /\ s = [n \in 1..Len(s) |-> s[n]]
  OBVIOUS
<1>1. lines = [n \in 1..Len(s) |-> <<Piece(s[n], TRUE)>>]
  BY <1>0 DEF AsLines
<1>2. \A n \in 1..Len(s) : Piece(s[n], TRUE) \in Pieces
  BY <1>0 DEF Piece, Pieces
<1> HIDE DEF lines
<1>4. \A n \in 1..Len(s) : lines[n] = <<Piece(s[n], TRUE)>>
  BY <1>1
<1>5. \A n \in 1..Len(s) : /\ lines[n] \in Seq(Pieces) /\ lines[n] # <<>>
                           /\ Parses(lines[n]) /\ lines[n][1].entry = s[n]
  <2> TAKE n \in 1..Len(s)
  <2> DEFINE q == Piece(s[n], TRUE)
  <2>1. q \in Pieces /\ q.whole /\ q.entry = s[n]
    BY <1>2 DEF Piece
  <2>2. lines[n] = <<q>>
    BY <1>4
  <2> HIDE DEF q
  <2> QED
    BY <2>1, <2>2 DEF Parses
<1>3. lines \in Seq(Seq(Pieces)) /\ Len(lines) = Len(s)
  <2> DEFINE Line == Seq(Pieces)
             L == Len(s)
  <2>1. L \in Nat /\ lines = [n \in 1..L |-> lines[n]]
        /\ \A n \in 1..L : lines[n] \in Line
    BY <1>0, <1>1, <1>5
  <2> HIDE DEF Line, L
  <2>2. lines \in Seq(Line) /\ Len(lines) = L
    BY <2>1
  <2> QED
    BY <2>2 DEF Line, L
<1>6. Whole(lines, Len(s)) /\ Len(s) \in 0..Len(lines)
  BY <1>0, <1>3, <1>5 DEF Whole
<1>7. Clean(lines) /\ Read(lines) = [n \in 1..Len(s) |-> lines[n][1].entry]
  <2> DEFINE L == Len(s)
  <2>1. L = Len(lines) /\ L \in 0..Len(lines) /\ Whole(lines, L)
    BY <1>3, <1>6
  <2> HIDE DEF L
  <2>2. Clean(lines) /\ Read(lines) = [n \in 1..L |-> lines[n][1].entry]
    BY <1>3, <2>1, ReadIs
  <2> QED
    BY <2>2 DEF L
<1>8. Read(lines) = s
  BY <1>0, <1>5, <1>7
<1> QED
  BY <1>0, <1>1, <1>3, <1>5, <1>7, <1>8 DEF lines

\* A piece of a new entry at the end of the file: if every line parsed and
\* the piece is whole, the file says one entry more; otherwise it has a line
\* that does not parse, and says no more than before.
LEMMA AtEndReads ==
  ASSUME file \in Seq(Seq(Pieces)), open \in BOOLEAN,
         \A n \in DOMAIN file : file[n] # <<>>,
         open => file # <<>>,
         NEW p \in Pieces
  PROVE  /\ AtEnd(p) \in Seq(Seq(Pieces))
         /\ AtEnd(p) # <<>>
         /\ \A n \in DOMAIN AtEnd(p) : AtEnd(p)[n] # <<>>
         /\ Clean(AtEnd(p)) <=> ~open /\ Clean(file) /\ p.whole
         /\ Clean(AtEnd(p)) => Read(AtEnd(p)) = Append(Read(file), p.entry)
         /\ ~Clean(AtEnd(p)) =>
              \E j \in 0..Len(Read(file)) :
                Read(AtEnd(p)) = [n \in 1..j |-> Read(file)[n]]
<1> DEFINE l == Len(file)
           f == AtEnd(p)
<1>0. l \in Nat /\ DOMAIN file = 1..l
  OBVIOUS
<1>1. PICK k \in 0..l : Whole(file, k)
  BY WholeExists
<1>2. /\ Read(file) = [n \in 1..k |-> file[n][1].entry]
      /\ Read(file) \in Seq(Entries)
      /\ Len(Read(file)) = k
      /\ Clean(file) <=> k = l
  BY <1>1, ReadIs
<1>3. CASE ~open
  <2>1. f = Append(file, <<p>>)
    BY <1>3 DEF AtEnd
  <2> HIDE DEF f
  <2>2. <<p>> \in Seq(Pieces)
    OBVIOUS
  <2>3. /\ f \in Seq(Seq(Pieces)) /\ Len(f) = l + 1
        /\ \A n \in 1..l : f[n] = file[n]
        /\ f[l + 1] = <<p>>
    BY <1>0, <2>1, <2>2
  <2> HIDE DEF l
  <2>4. f # <<>> /\ \A n \in DOMAIN f : f[n] # <<>>
    <3>1. DOMAIN f = 1..(l + 1) /\ l + 1 \in DOMAIN f
      BY <1>0, <2>3
    <3>2. \A n \in DOMAIN f : n \in 1..l \/ n = l + 1
      BY <1>0, <3>1
    <3>3. <<p>> # <<>>
      OBVIOUS
    <3>4. \A n \in DOMAIN f : f[n] # <<>>
      BY <1>0, <2>3, <3>2, <3>3
    <3> QED
      BY <3>1, <3>4
  <2>5. Parses(f[l + 1]) <=> p.whole
    BY <2>3 DEF Parses
  <2>6. CASE k = l /\ p.whole
    <3>1. Whole(f, l + 1)
      BY <1>0, <1>1, <2>3, <2>5, <2>6 DEF Whole
    <3>2. Clean(f) /\ Read(f) = [n \in 1..(l + 1) |-> f[n][1].entry]
      BY <1>0, <2>3, <3>1, ReadIs
    <3>3. f[l + 1][1].entry = p.entry
      BY <2>3
    <3>4. p.entry \in Entries
      BY DEF Pieces
    <3>5. Append(Read(file), p.entry) = [n \in 1..(l + 1) |-> f[n][1].entry]
      BY <1>0, <1>2, <2>3, <2>6, <3>3, <3>4
    <3> QED
      BY <1>2, <1>3, <2>3, <2>4, <2>6, <3>2, <3>5 DEF f
  <2>7. CASE ~(k = l /\ p.whole)
    <3>1. Whole(f, k) /\ k \in 0..Len(f) /\ k # Len(f)
      <4>1. \A n \in 1..k : n \in 1..l
        BY <1>0, <1>1
      <4>2. \A n \in 1..k : Parses(f[n])
        BY <1>1, <2>3, <4>1 DEF Whole
      <4>3. ~Parses(f[k + 1])
        <5>1. CASE k = l
          BY <2>5, <2>7, <5>1
        <5>2. CASE k # l
          <6>1. k + 1 \in 1..l /\ k < l
            BY <1>0, <1>1, <5>2
          <6> QED
            BY <1>1, <2>3, <6>1 DEF Whole, l
        <5> QED
          BY <5>1, <5>2
      <4> QED
        BY <1>0, <1>1, <2>3, <4>2, <4>3 DEF Whole
    <3>2. ~Clean(f) /\ Read(f) = [n \in 1..k |-> f[n][1].entry]
      BY <2>3, <3>1, ReadIs
    <3>3. Read(f) = [n \in 1..k |-> Read(file)[n]]
      BY <1>0, <1>1, <1>2, <2>3, <3>2
    <3>4. k \in 0..Len(Read(file))
      BY <1>0, <1>1, <1>2
    <3> QED
      BY <1>2, <1>3, <2>3, <2>4, <2>7, <3>2, <3>3, <3>4 DEF f
  <2> QED
    BY <2>6, <2>7
<1>4. CASE open
  <2> DEFINE glued == Append(file[l], p)
  <2>1. l \in 1..l
    BY <1>0, <1>4
  <2>2. file[l] \in Seq(Pieces) /\ file[l] # <<>>
    <3> DEFINE Line == Seq(Pieces)
    <3>1. file \in Seq(Line)
      OBVIOUS
    <3>2. l \in DOMAIN file
      BY <1>0, <2>1
    <3> HIDE DEF l, Line
    <3>3. file[l] \in Line
      BY <1>0, <2>1, <3>1
    <3> QED
      BY <3>2, <3>3 DEF Line
  <2>3. glued \in Seq(Pieces) /\ glued # <<>> /\ ~Parses(glued)
    <3>1. Len(file[l]) \in Nat /\ Len(file[l]) # 0
      BY <2>2
    <3>2. Len(glued) = Len(file[l]) + 1 /\ glued \in Seq(Pieces)
      BY <2>2
    <3> HIDE DEF glued
    <3> QED
      BY <3>1, <3>2 DEF Parses
  <2>4. f = [file EXCEPT ![l] = glued]
    BY <1>4 DEF AtEnd
  <2> HIDE DEF f, glued
  <2>5. /\ f \in Seq(Seq(Pieces)) /\ Len(f) = l
        /\ \A n \in 1..l : n # l => f[n] = file[n]
        /\ f[l] = glued
    <3> DEFINE Line == Seq(Pieces)
    <3>1. file \in Seq(Line) /\ l \in 1..Len(file) /\ glued \in Line
      BY <2>1, <2>3 DEF l
    <3> HIDE DEF Line
    <3>2. f \in Seq(Line) /\ Len(f) = Len(file)
          /\ \A n \in 1..Len(file) : f[n] = IF n = l THEN glued ELSE file[n]
      BY <2>4, <3>1, ExceptSeq
    <3> QED
      BY <2>1, <3>2 DEF l, Line
  <2> HIDE DEF l
  <2>6. f # <<>> /\ \A n \in DOMAIN f : f[n] # <<>>
    BY <1>0, <2>1, <2>3, <2>5
  <2> DEFINE j == IF k = l THEN l - 1 ELSE k
  <2>7. j \in 0..(l - 1) /\ j <= k
    BY <1>0, <1>1, <2>1
  <2>8. Whole(f, j)
    <3>1. \A n \in 1..j : n \in 1..k /\ n \in 1..l /\ n # l
      BY <1>0, <1>1, <2>7
    <3>2. \A n \in 1..j : Parses(f[n])
      BY <1>1, <2>5, <3>1 DEF Whole
    <3>3. ~Parses(f[j + 1])
      <4>1. CASE j + 1 = l
        BY <2>3, <2>5, <4>1
      <4>2. CASE j + 1 # l
        <5>1. j = k /\ k < l /\ k + 1 \in 1..l
          BY <1>0, <1>1, <4>2
        <5> QED
          BY <1>1, <2>5, <4>2, <5>1 DEF Whole, l
      <4> QED
        BY <4>1, <4>2
    <3> HIDE DEF j
    <3> QED
      BY <3>2, <3>3 DEF Whole
  <2> HIDE DEF j
  <2>9. ~Clean(f) /\ Read(f) = [n \in 1..j |-> f[n][1].entry]
    <3>1. j \in 0..Len(f) /\ j # Len(f)
      BY <1>0, <2>5, <2>7
    <3> QED
      BY <2>5, <2>8, <3>1, ReadIs
  <2>10. Read(f) = [n \in 1..j |-> Read(file)[n]]
    <3>1. \A n \in 1..j : n \in 1..k /\ f[n] = file[n]
      BY <1>0, <1>1, <2>5, <2>7
    <3> QED
      BY <1>2, <2>9, <3>1
  <2>11. j \in 0..Len(Read(file))
    BY <1>0, <1>1, <1>2, <2>7
  <2> QED
    BY <1>4, <2>5, <2>6, <2>9, <2>10, <2>11 DEF f
<1> QED
  BY <1>3, <1>4

-----------------------------------------------------------------------------
(* The invariant.                                                          *)

\* What is on disk, whether the process lives or not.
DiskInv ==
  /\ \A n \in DOMAIN file : file[n] # <<>>
  /\ open => file # <<>>
  /\ RunFrom(Read(file), snapshot.index)
  /\ Clean(file) /\ Read(file) # <<>> =>
       Last(Read(file)).index >= snapshot.index

\* The log in memory: behind the snapshot, except that takeSnapshot saves
\* the snapshot before it cuts the log.
LogInv ==
  phase # Down =>
    /\ RunFrom(log, snapshot.index)
    /\ phase # Rewriting /\ log # <<>> => log[1].index = snapshot.index + 1
    /\ phase = Rewriting => log # <<>>
    /\ snapshot.index <= LastIndex
    /\ commitIndex <= LastIndex

\* The file against the log: they agree where both have an index, the file
\* never has more, and it has all of the log unless a line is torn.
MirrorInv ==
  phase # Down =>
    /\ \A m \in DOMAIN Read(file), n \in DOMAIN log :
         Read(file)[m].index = log[n].index => Read(file)[m] = log[n]
    /\ Read(file) # <<>> => Last(Read(file)).index <= LastIndex
    /\ Clean(file) =>
         /\ ToSet(log) \subseteq ToSet(Read(file))
         /\ Read(file) # <<>> => Last(Read(file)).index = LastIndex

\* The machine holds the snapshot and what was applied of the log.
MachineInv ==
  phase # Down =>
    /\ snapshot.state \subseteq machine
    /\ \A e \in ToSet(log) : e.index <= lastApplied => e \in machine
    /\ machine \subseteq snapshot.state \cup ToSet(log)
    /\ phase = Rewriting => machine = snapshot.state

UntornInv == tears \in Nat /\ (tears = 0 => ~open /\ Clean(file))

IInv ==
  /\ TypeOK /\ DiskInv /\ LogInv /\ MirrorInv /\ MachineInv
  /\ UntornInv /\ UntornKeepsAcked

-----------------------------------------------------------------------------
(* Runs.                                                                   *)

LEMMA LastOf ==
  ASSUME NEW s \in Seq(Entries), s # <<>>
  PROVE  /\ Len(s) \in 1..Len(s) /\ DOMAIN s = 1..Len(s)
         /\ s[Len(s)] = Last(s) /\ Last(s) \in Entries /\ Last(s).index \in Nat
         /\ s[1] \in Entries /\ s[1].index \in Nat
<1>1. Len(s) \in 1..Len(s) /\ DOMAIN s = 1..Len(s) /\ 1 \in 1..Len(s)
  OBVIOUS
<1>2. s[Len(s)] \in Entries /\ s[1] \in Entries
  BY <1>1
<1> QED
  BY <1>1, <1>2, EntryIndices DEF Last

LEMMA RunIndices ==
  ASSUME NEW s \in Seq(Entries), Run(s), s # <<>>
  PROVE  \A n \in DOMAIN s : /\ s[n].index = s[1].index + n - 1
                             /\ s[n].index = Last(s).index - Len(s) + n
                             /\ s[n].index <= Last(s).index
<1>1. /\ Len(s) \in 1..Len(s) /\ DOMAIN s = 1..Len(s)
      /\ s[Len(s)] = Last(s) /\ Last(s).index \in Nat /\ s[1].index \in Nat
  BY LastOf
<1> TAKE n \in DOMAIN s
<1>2. n \in 1..Len(s) /\ 1 \in DOMAIN s /\ Len(s) \in DOMAIN s
  BY <1>1
<1>3. s[n].index = s[1].index + n - 1
  BY <1>2 DEF Run
<1>4. Last(s).index = s[1].index + Len(s) - 1
  BY <1>1, <1>2 DEF Run
<1> QED
  BY <1>1, <1>2, <1>3, <1>4

LEMMA RunExtends ==
  ASSUME NEW s \in Seq(Entries), NEW e \in Entries, NEW i \in Nat,
         RunFrom(s, i),
         s # <<>> => e.index = Last(s).index + 1,
         s = <<>> => e.index <= i + 1
  PROVE  /\ RunFrom(Append(s, e), i)
         /\ Append(s, e) \in Seq(Entries)
         /\ DOMAIN Append(s, e) = 1..(Len(s) + 1)
         /\ \A n \in 1..Len(s) : Append(s, e)[n] = s[n]
         /\ Append(s, e)[Len(s) + 1] = e
         /\ Append(s, e) # <<>>
         /\ Last(Append(s, e)) = e
         /\ ToSet(Append(s, e)) = ToSet(s) \cup {e}
<1> DEFINE L == Len(s)
           t == Append(s, e)
<1>1. /\ L \in Nat /\ DOMAIN s = 1..L /\ t \in Seq(Entries) /\ Len(t) = L + 1
      /\ \A n \in 1..L : t[n] = s[n]
      /\ t[L + 1] = e
  OBVIOUS
<1>2. L = 0 <=> s = <<>>
  OBVIOUS
<1>3. \A n \in 1..L : s[n] \in Entries /\ s[n].index \in Nat
  BY <1>1, EntryIndices
<1>4. e.index \in Nat
  BY EntryIndices
<1>5. \A n \in DOMAIN s : e.index = s[n].index + (L + 1) - n
  <2> TAKE n \in DOMAIN s
  <2>1. s # <<>>
    BY <1>1, <1>2
  <2>2. Run(s)
    BY DEF RunFrom
  <2>3. s[n].index = Last(s).index - L + n
    BY <2>1, <2>2, RunIndices
  <2>4. Last(s).index \in Nat
    BY <2>1, LastOf
  <2> QED
    BY <1>1, <2>1, <2>3, <2>4
<1> HIDE DEF L, t
<1>6. DOMAIN t = 1..(L + 1) /\ t # <<>> /\ Last(t) = e
  BY <1>1 DEF Last
<1>7. \A n \in 1..(L + 1) : n \in 1..L \/ n = L + 1
  BY <1>1
<1>8. Run(t)
  <2> SUFFICES ASSUME NEW m \in 1..(L + 1), NEW n \in 1..(L + 1)
               PROVE  t[n].index = t[m].index + n - m
    BY <1>6 DEF Run
  <2>1. CASE m \in 1..L /\ n \in 1..L
    BY <1>1, <2>1 DEF RunFrom, Run
  <2>2. CASE m \in 1..L /\ n = L + 1
    BY <1>1, <1>3, <1>5, <2>2
  <2>3. CASE m = L + 1 /\ n \in 1..L
    <3>1. t[m] = e /\ t[n] = s[n] /\ e.index = s[n].index + (L + 1) - n
      BY <1>1, <1>5, <2>3
    <3>2. s[n].index \in Nat /\ n \in Nat
      BY <1>3, <2>3
    <3> QED
      BY <1>1, <1>4, <2>3, <3>1, <3>2
  <2>4. CASE m = L + 1 /\ n = L + 1
    BY <1>1, <1>4, <2>4
  <2> QED
    BY <1>7, <2>1, <2>2, <2>3, <2>4
<1>9. t[1].index <= i + 1
  <2>1. CASE L = 0
    BY <1>1, <1>2, <2>1
  <2>2. CASE L # 0
    <3>1. 1 \in 1..L
      BY <1>1, <2>2
    <3> QED
      BY <1>1, <1>2, <2>2, <3>1 DEF RunFrom
  <2> QED
    BY <2>1, <2>2
<1>10. ToSet(t) = ToSet(s) \cup {e}
  BY <1>1, <1>6, <1>7 DEF ToSet
<1> QED
  BY <1>1, <1>6, <1>8, <1>9, <1>10 DEF RunFrom, L, t

LEMMA RunPrefix ==
  ASSUME NEW s \in Seq(Entries), NEW i \in Nat, RunFrom(s, i),
         NEW j \in 0..Len(s), NEW t, t = [n \in 1..j |-> s[n]]
  PROVE  /\ t \in Seq(Entries) /\ RunFrom(t, i)
         /\ DOMAIN t \subseteq DOMAIN s /\ \A n \in DOMAIN t : t[n] = s[n]
         /\ t # <<>> => s # <<>> /\ Last(t).index <= Last(s).index
<1>1. /\ Len(s) \in Nat /\ DOMAIN s = 1..Len(s) /\ DOMAIN t = 1..j /\ j \in Nat
      /\ \A n \in 1..j : n \in 1..Len(s) /\ t[n] = s[n] /\ s[n] \in Entries
  OBVIOUS
<1>2. t \in Seq(Entries) /\ Len(t) = j
  BY <1>1
<1>3. Run(t)
  BY <1>1 DEF RunFrom, Run
<1>4. ASSUME t # <<>>
      PROVE  /\ t[1].index <= i + 1
             /\ s # <<>> /\ Last(t).index <= Last(s).index
  <2>1. j \in 1..j /\ 1 \in 1..j
    BY <1>1, <1>2, <1>4
  <2>2. s # <<>> /\ j \in DOMAIN s /\ Last(t) = s[j] /\ t[1] = s[1]
    BY <1>1, <1>2, <2>1 DEF Last
  <2> QED
    BY <2>2, RunIndices DEF RunFrom
<1> QED
  BY <1>1, <1>2, <1>3, <1>4 DEF RunFrom

-----------------------------------------------------------------------------
(* What the invariant says of the log and the file.                        *)

LEMMA Facts ==
  ASSUME IInv
  PROVE  /\ Read(file) \in Seq(Entries) /\ log \in Seq(Entries)
         /\ file \in Seq(Seq(Pieces))
         /\ snapshot.index \in Nat /\ LastIndex \in Nat
         /\ lastApplied \in Nat /\ commitIndex \in Nat
         /\ lastApplied <= commitIndex
<1>1. /\ log \in Seq(Entries) /\ file \in Seq(Seq(Pieces))
      /\ snapshot.index \in Nat /\ lastApplied \in Nat /\ commitIndex \in Nat
      /\ lastApplied <= commitIndex
  BY BoundsAssumption DEF IInv, TypeOK, Pieces
<1>2. LastIndex \in Nat
  BY <1>1, LastOf DEF LastIndex
<1> QED
  BY <1>1, <1>2, ReadType

\* Every index beyond the snapshot, up to the last, is in the log.
LEMMA InLog ==
  ASSUME IInv, phase # Down,
         NEW x \in Nat, snapshot.index < x, x <= LastIndex
  PROVE  \E n \in DOMAIN log : log[n].index = x
<1>1. /\ log \in Seq(Entries) /\ snapshot.index \in Nat /\ LastIndex \in Nat
      /\ RunFrom(log, snapshot.index)
  BY Facts DEF IInv, LogInv
<1>2. log # <<>> /\ LastIndex = Last(log).index
  BY <1>1 DEF LastIndex
<1>3. /\ Len(log) \in 1..Len(log) /\ DOMAIN log = 1..Len(log)
      /\ log[Len(log)] = Last(log) /\ log[1].index \in Nat
  BY <1>1, <1>2, LastOf
<1>4. log[1].index <= snapshot.index + 1
  BY <1>1, <1>2 DEF RunFrom
<1>5. \A n \in DOMAIN log : log[n].index = log[1].index + n - 1
  BY <1>1, <1>2, RunIndices DEF RunFrom
<1> DEFINE n == x - log[1].index + 1
<1>6. LastIndex = log[1].index + Len(log) - 1
  BY <1>2, <1>3, <1>5
<1>7. n \in 1..Len(log)
  BY <1>1, <1>3, <1>4, <1>6
<1>8. log[n].index = x
  BY <1>3, <1>5, <1>7
<1> QED
  BY <1>3, <1>7, <1>8

\* What a restart would read back is in the log, beyond the snapshot.
LEMMA RecoveredInLog ==
  ASSUME IInv, phase # Down
  PROVE  ToSet(Recovered) \subseteq {e \in ToSet(log) : e.index > snapshot.index}
<1>1. /\ Read(file) \in Seq(Entries) /\ snapshot.index \in Nat /\ LastIndex \in Nat
      /\ RunFrom(Read(file), snapshot.index) /\ MirrorInv
  BY Facts DEF IInv, DiskInv
<1>2. ToSet(Recovered) = {e \in ToSet(Read(file)) : e.index > snapshot.index}
  BY <1>1, AfterKeepsTail DEF Recovered
<1> SUFFICES ASSUME NEW e \in ToSet(Read(file)), e.index > snapshot.index
             PROVE  e \in ToSet(log)
  BY <1>2
<1>3. PICK m \in DOMAIN Read(file) : e = Read(file)[m]
  BY DEF ToSet
<1>4. e \in Entries /\ e.index \in Nat /\ Read(file) # <<>>
  BY <1>1, <1>3, EntryIndices
<1>5. e.index <= LastIndex
  <2>1. e.index <= Last(Read(file)).index /\ Last(Read(file)).index \in Nat
    BY <1>1, <1>3, <1>4, RunIndices, LastOf DEF RunFrom
  <2>2. Last(Read(file)).index <= LastIndex
    BY <1>1, <1>4 DEF MirrorInv
  <2> QED
    BY <1>1, <1>4, <2>1, <2>2
<1>6. PICK n \in DOMAIN log : log[n].index = e.index
  BY <1>1, <1>4, <1>5, InLog
<1>7. e = log[n]
  BY <1>1, <1>3, <1>6 DEF MirrorInv
<1> QED
  BY <1>7 DEF ToSet

LEMMA PrefixHolds ==
  ASSUME IInv
  PROVE  RecoveredIsPrefix
<1> SUFFICES ASSUME phase # Down
             PROVE  IsPrefix(Recovered, After(log, snapshot.index))
  BY DEF RecoveredIsPrefix
<1> DEFINE i == snapshot.index
           r == Recovered
           a == After(log, i)
<1>1. /\ Read(file) \in Seq(Entries) /\ log \in Seq(Entries) /\ i \in Nat
      /\ RunFrom(Read(file), i) /\ RunFrom(log, i)
  BY Facts DEF IInv, DiskInv, LogInv
<1>2. r \in Seq(Entries) /\ \A n \in 1..Len(r) : r[n].index = i + n
  BY <1>1, AfterKeepsTail DEF Recovered
<1>3. /\ a \in Seq(Entries) /\ \A n \in 1..Len(a) : a[n].index = i + n
      /\ ToSet(a) = {e \in ToSet(log) : e.index > i}
  BY <1>1, AfterKeepsTail
<1>4. ToSet(r) \subseteq ToSet(a)
  BY <1>3, RecoveredInLog
<1> HIDE DEF i, r, a
<1>5. /\ Len(r) \in Nat /\ DOMAIN r = 1..Len(r)
      /\ Len(a) \in Nat /\ DOMAIN a = 1..Len(a)
  BY <1>2, <1>3
<1>6. \A n \in 1..Len(r) : n \in 1..Len(a) /\ r[n] = a[n]
  <2> TAKE n \in 1..Len(r)
  <2>1. r[n] \in ToSet(a)
    BY <1>4, <1>5 DEF ToSet
  <2>2. PICK m \in 1..Len(a) : r[n] = a[m]
    BY <1>5, <2>1 DEF ToSet
  <2>3. i + n = i + m
    BY <1>2, <1>3, <2>2
  <2>4. n = m
    BY <1>1, <1>5, <2>3 DEF i
  <2> QED
    BY <2>2, <2>4
<1>7. Len(r) <= Len(a)
  <2>1. CASE Len(r) = 0
    BY <1>5, <2>1
  <2>2. CASE Len(r) # 0
    <3>1. Len(r) \in 1..Len(r)
      BY <1>5, <2>2
    <3> QED
      BY <1>5, <1>6, <3>1
  <2> QED
    BY <2>1, <2>2
<1>8. SubSeq(r, 1, Len(r)) = SubSeq(a, 1, Len(r))
  BY <1>5, <1>6, <1>7
<1>9. IsPrefix(r, a)
  BY <1>7, <1>8 DEF IsPrefix
<1> QED
  BY <1>9 DEF r, a, i

LEMMA ContiguousHolds ==
  ASSUME IInv
  PROVE  LogContiguous
<1> SUFFICES ASSUME phase # Down, NEW n \in DOMAIN log
             PROVE  log[n].index = (IF phase = Rewriting THEN log[1].index
                                    ELSE snapshot.index + 1) + n - 1
  BY DEF LogContiguous
<1>1. log \in Seq(Entries) /\ RunFrom(log, snapshot.index) /\ LogInv
  BY Facts DEF IInv, LogInv
<1>2. log # <<>>
  BY <1>1
<1>3. log[n].index = log[1].index + n - 1
  BY <1>1, <1>2, RunIndices DEF RunFrom
<1>4. phase # Rewriting => log[1].index = snapshot.index + 1
  BY <1>1, <1>2 DEF LogInv
<1> QED
  BY <1>3, <1>4

-----------------------------------------------------------------------------
(* The steps.                                                              *)

LEMMA Begins == Init => IInv
<1> SUFFICES ASSUME Init PROVE IInv
  OBVIOUS
<1>1. Read(<<>>) = <<>> /\ Clean(<<>>)
  <2>1. AsLines(<<>>) = <<>>
    BY DEF AsLines
  <2>2. <<>> \in Seq(Entries)
    OBVIOUS
  <2> QED
    BY <2>1, <2>2, ReadAsLines
<1>2. TypeOK
  <2>1. /\ file \in Seq(Seq(Pieces)) /\ open \in BOOLEAN /\ log \in Seq(Entries)
        /\ leading \in BOOLEAN /\ currentTerm \in Nat
    <3>1. \A S : <<>> \in Seq(S)
      OBVIOUS
    <3>2. <<>> \in Seq(Seq(Pieces)) /\ <<>> \in Seq(Entries)
      BY <3>1
    <3> HIDE <3>1
    <3> QED
      BY <3>2 DEF Init
  <2>2. snapshot.index = 0 /\ snapshot.state = {} /\ machine = {} /\ acked = {}
    BY DEF Init
  <2>3. commitIndex \in 0..MaxIndex /\ lastApplied \in 0..commitIndex
        /\ 0 \in 0..MaxIndex
    BY BoundsAssumption DEF Init
  <2> QED
    BY <2>1, <2>2, <2>3 DEF TypeOK, Pieces, Init
<1>3. RunFrom(<<>>, 0)
  BY DEF RunFrom, Run
<1>4. DiskInv
  BY <1>1, <1>3 DEF Init, DiskInv
<1>5. LogInv /\ MirrorInv /\ MachineInv
  BY DEF Init, LogInv, MirrorInv, MachineInv
<1>6. UntornInv /\ UntornKeepsAcked
  BY <1>1 DEF Init, UntornInv, UntornKeepsAcked
<1> QED
  BY <1>2, <1>4, <1>5, <1>6 DEF IInv

LEMMA Stutters ==
  ASSUME IInv, UNCHANGED vars
  PROVE  IInv'
<1>1. UNCHANGED <<file, open, currentTerm, snapshot, phase, leading, log,
                  commitIndex, lastApplied, machine, acked, tears>>
  BY DEF vars
<1>2. TypeOK' /\ DiskInv' /\ LogInv' /\ MirrorInv'
  BY <1>1 DEF IInv, TypeOK, DiskInv, LogInv, MirrorInv, LastIndex
<1>3. MachineInv' /\ UntornInv' /\ UntornKeepsAcked'
  BY <1>1 DEF IInv, MachineInv, UntornInv, UntornKeepsAcked, Durable, Recovered
<1> QED
  BY <1>2, <1>3 DEF IInv

\* The process starts with what the file says beyond the snapshot.
LEMMA StartKeeps ==
  ASSUME IInv, Start
  PROVE  IInv'
<1> DEFINE i == snapshot.index
           r == Read(file)
<1>0. /\ UNCHANGED <<file, open, currentTerm, snapshot, acked, tears>>
      /\ phase' = Idle /\ leading' = FALSE /\ log' = Recovered
      /\ commitIndex' = i /\ lastApplied' = i /\ machine' = snapshot.state
  BY DEF Start, disk
<1>1. r \in Seq(Entries) /\ i \in Nat /\ RunFrom(r, i)
  BY Facts DEF IInv, DiskInv
<1>2. /\ log' \in Seq(Entries)
      /\ ToSet(log') = {e \in ToSet(r) : e.index > i}
      /\ \A n \in 1..Len(log') : log'[n].index = i + n
      /\ log' # <<>> => Last(log') = Last(r)
      /\ log' = <<>> => \A n \in 1..Len(r) : r[n].index <= i
  BY <1>0, <1>1, AfterKeepsTail DEF Recovered
<1>3. DOMAIN log' = 1..Len(log') /\ DOMAIN r = 1..Len(r)
  BY <1>1, <1>2
<1>4. r # <<>> => /\ Len(r) \in 1..Len(r) /\ r[Len(r)] = Last(r)
                  /\ Last(r).index \in Nat
  BY <1>1, LastOf
<1>5. LastIndex' = IF log' = <<>> THEN i ELSE Last(log').index
  BY <1>0 DEF LastIndex
<1>6. r = Read(file') /\ i = snapshot'.index
  BY <1>0
<1> HIDE DEF r, i
<1>7. TypeOK'
  <2>1. snapshot.index \in 0..MaxIndex /\ snapshot.state \subseteq Entries
    BY DEF IInv, TypeOK
  <2>2. /\ file' \in Seq(Seq(Pieces)) /\ open' \in BOOLEAN
        /\ currentTerm' \in Nat /\ acked' \subseteq Entries
    BY <1>0 DEF IInv, TypeOK, Pieces
  <2>3. /\ snapshot'.index \in 0..MaxIndex /\ snapshot'.state \subseteq Entries
        /\ machine' \subseteq Entries /\ commitIndex' \in 0..MaxIndex
    BY <1>0, <2>1 DEF i
  <2>4. lastApplied' \in 0..commitIndex'
    BY <1>0, <1>1
  <2> QED
    BY <1>0, <1>2, <2>2, <2>3, <2>4 DEF TypeOK, Pieces
<1>8. DiskInv'
  BY <1>0 DEF IInv, DiskInv
<1>9. LogInv'
  <2>1. Run(log')
    BY <1>1, <1>2, <1>3 DEF Run
  <2>2. log' # <<>> => /\ log'[1].index = i + 1
                       /\ Last(log').index = i + Len(log') /\ Len(log') \in Nat
    <3>1. log' # <<>> => 1 \in 1..Len(log') /\ Len(log') \in 1..Len(log')
      BY <1>2
    <3> QED
      BY <1>2, <3>1 DEF Last
  <2>3. i <= LastIndex'
    BY <1>1, <1>5, <2>2
  <2> QED
    BY <1>0, <1>1, <1>6, <2>1, <2>2, <2>3 DEF LogInv, RunFrom, Idle, Rewriting
<1>10. MirrorInv'
  <2>1. ASSUME NEW m \in DOMAIN r, NEW n \in DOMAIN log',
               r[m].index = log'[n].index
        PROVE  r[m] = log'[n]
    <3>1. log'[n] \in ToSet(r)
      BY <1>2 DEF ToSet
    <3>2. PICK k \in DOMAIN r : log'[n] = r[k]
      BY <3>1 DEF ToSet
    <3>3. r[m] \in Entries /\ r[k] \in Entries
      BY <1>1
    <3>4. r[m].index = r[k].index + m - k /\ r[m].index \in Nat /\ m \in Nat /\ k \in Nat
      BY <1>1, <1>3, <3>3, EntryIndices DEF RunFrom, Run
    <3>5. m = k
      BY <2>1, <3>2, <3>4
    <3> QED
      BY <3>2, <3>5
  <2>2. ASSUME r # <<>>
        PROVE  /\ Last(r).index <= LastIndex'
               /\ Last(r).index >= i => Last(r).index = LastIndex'
    <3>1. CASE log' = <<>>
      BY <1>1, <1>2, <1>4, <1>5, <2>2, <3>1
    <3>2. CASE log' # <<>>
      BY <1>2, <1>4, <1>5, <2>2, <3>2
    <3> QED
      BY <3>1, <3>2
  <2>3. Clean(file) /\ r # <<>> => Last(r).index >= i
    BY DEF IInv, DiskInv, r, i
  <2>4. ToSet(log') \subseteq ToSet(r)
    BY <1>2
  <2> QED
    BY <1>0, <1>6, <2>1, <2>2, <2>3, <2>4 DEF MirrorInv
<1>11. MachineInv'
  <2>1. \A e \in ToSet(log') : ~(e.index <= i)
    <3> TAKE e \in ToSet(log')
    <3>1. e.index > i /\ e \in ToSet(r)
      BY <1>2
    <3>2. e.index \in Nat
      BY <1>1, <3>1, EntryIndices DEF ToSet
    <3> QED
      BY <1>1, <3>1, <3>2
  <2> QED
    BY <1>0, <2>1 DEF MachineInv, Idle, Rewriting, i
<1>12. UntornInv' /\ UntornKeepsAcked'
  BY <1>0 DEF IInv, UntornInv, UntornKeepsAcked, Durable, Recovered
<1> QED
  BY <1>7, <1>8, <1>9, <1>10, <1>11, <1>12 DEF IInv

\* The file after an append, whole or torn.
LEMMA FileGrows ==
  ASSUME IInv, phase \in {Idle, Electing},
         NEW e \in Entries, e.index = LastIndex + 1, NEW whole \in BOOLEAN,
         file' = AtEnd(Piece(e, whole)), snapshot' = snapshot
  PROVE  /\ file' \in Seq(Seq(Pieces)) /\ file' # <<>>
         /\ \A n \in DOMAIN file' : file'[n] # <<>>
         /\ Read(file') \in Seq(Entries)
         /\ RunFrom(Read(file'), snapshot.index)
         /\ Clean(file') <=> ~open /\ Clean(file) /\ whole
         /\ Clean(file') => Read(file') = Append(Read(file), e)
         /\ Clean(file') => Last(Read(file')) = e /\ Read(file') # <<>>
                            /\ ToSet(Read(file')) = ToSet(Read(file)) \cup {e}
         /\ Read(file') # <<>> => Last(Read(file')).index <= e.index
         /\ \A m \in DOMAIN Read(file') :
              \/ m \in DOMAIN Read(file) /\ Read(file')[m] = Read(file)[m]
              \/ Read(file')[m] = e
<1> DEFINE i == snapshot.index
           r == Read(file)
           p == Piece(e, whole)
           q == Read(file')
<1>1. /\ r \in Seq(Entries) /\ log \in Seq(Entries) /\ i \in Nat
      /\ file \in Seq(Seq(Pieces)) /\ LastIndex \in Nat
      /\ RunFrom(r, i) /\ RunFrom(log, i)
  BY Facts DEF IInv, DiskInv, LogInv, Idle, Electing, Down
<1>2. p \in Pieces /\ p.entry = e /\ p.whole = whole
  BY DEF Piece, Pieces
<1>3. /\ open \in BOOLEAN /\ \A n \in DOMAIN file : file[n] # <<>>
      /\ open => file # <<>>
  BY DEF IInv, TypeOK, DiskInv
<1>4. e.index \in Nat
  BY EntryIndices
<1> HIDE DEF p
<1>5. /\ AtEnd(p) \in Seq(Seq(Pieces))
      /\ AtEnd(p) # <<>>
      /\ \A n \in DOMAIN AtEnd(p) : AtEnd(p)[n] # <<>>
      /\ Clean(AtEnd(p)) <=> ~open /\ Clean(file) /\ p.whole
      /\ Clean(AtEnd(p)) => Read(AtEnd(p)) = Append(Read(file), p.entry)
      /\ ~Clean(AtEnd(p)) =>
           \E j \in 0..Len(Read(file)) :
             Read(AtEnd(p)) = [n \in 1..j |-> Read(file)[n]]
  BY <1>1, <1>2, <1>3, AtEndReads
<1>6. file' = AtEnd(p)
  BY DEF p
<1>7. /\ file' \in Seq(Seq(Pieces)) /\ file' # <<>>
      /\ \A n \in DOMAIN file' : file'[n] # <<>>
      /\ Clean(file') <=> ~open /\ Clean(file) /\ whole
      /\ Clean(file') => q = Append(r, e)
      /\ ~Clean(file') => \E j \in 0..Len(r) : q = [n \in 1..j |-> r[n]]
  BY <1>2, <1>5, <1>6
<1>8. phase # Down /\ phase # Rewriting
  BY DEF Idle, Electing, Down, Rewriting
<1>9. r # <<>> => Last(r).index \in Nat /\ Last(r).index <= LastIndex
  BY <1>1, <1>8, LastOf DEF IInv, MirrorInv
<1>10. CASE Clean(file')
  <2>1. r # <<>> => e.index = Last(r).index + 1
    BY <1>7, <1>8, <1>10 DEF IInv, MirrorInv
  <2>2. r = <<>> => e.index <= i + 1
    <3> SUFFICES ASSUME r = <<>> PROVE LastIndex = i
      BY <1>1
    <3>1. ToSet(log) \subseteq ToSet(r)
      BY <1>7, <1>8, <1>10 DEF IInv, MirrorInv
    <3>2. ToSet(r) = {}
      BY DEF ToSet
    <3>3. log = <<>>
      <4> SUFFICES ASSUME log # <<>> PROVE FALSE
        OBVIOUS
      <4>1. Last(log) \in ToSet(log)
        BY <1>1, LastOf DEF ToSet
      <4> QED
        BY <3>1, <3>2, <4>1
    <3> QED
      BY <3>3 DEF LastIndex
  <2>3. q = Append(r, e)
    BY <1>7, <1>10
  <2> HIDE DEF r, q
  <2>4. /\ RunFrom(q, i) /\ q \in Seq(Entries)
        /\ DOMAIN q = 1..(Len(r) + 1)
        /\ \A n \in 1..Len(r) : q[n] = r[n]
        /\ q[Len(r) + 1] = e
        /\ q # <<>> /\ Last(q) = e /\ ToSet(q) = ToSet(r) \cup {e}
    BY <1>1, <2>1, <2>2, <2>3, RunExtends
  <2>5. \A m \in DOMAIN q : (m \in DOMAIN r /\ q[m] = r[m]) \/ q[m] = e
    <3>1. Len(r) \in Nat /\ DOMAIN r = 1..Len(r)
      BY <1>1
    <3>2. \A m \in 1..(Len(r) + 1) : m \in 1..Len(r) \/ m = Len(r) + 1
      BY <3>1
    <3> QED
      BY <2>4, <3>1, <3>2
  <2>6. q # <<>> => Last(q).index <= e.index
    BY <1>4, <2>4
  <2>7. /\ q \in Seq(Entries) /\ RunFrom(q, i)
        /\ Clean(file') => q = Append(r, e)
        /\ Clean(file') => Last(q) = e /\ q # <<>> /\ ToSet(q) = ToSet(r) \cup {e}
    BY <2>3, <2>4
  <2> QED
    BY <1>7, <2>5, <2>6, <2>7 DEF q, r, i
<1>11. CASE ~Clean(file')
  <2>1. PICK j \in 0..Len(r) : q = [n \in 1..j |-> r[n]]
    BY <1>7, <1>11
  <2> HIDE DEF r, q
  <2>2. /\ q \in Seq(Entries) /\ RunFrom(q, i)
        /\ DOMAIN q \subseteq DOMAIN r /\ \A n \in DOMAIN q : q[n] = r[n]
        /\ q # <<>> => r # <<>> /\ Last(q).index <= Last(r).index
    BY <1>1, <2>1, RunPrefix
  <2>3. q # <<>> => Last(q).index <= e.index
    <3>1. q # <<>> => Last(q).index \in Nat
      BY <2>2, LastOf
    <3> QED
      BY <1>1, <1>4, <1>9, <2>2, <3>1
  <2> QED
    BY <1>7, <1>11, <2>2, <2>3 DEF q, r, i
<1> QED
  BY <1>10, <1>11

\* appendLocal: the log and the file grow by the same entry.
LEMMA AppendKeeps ==
  ASSUME IInv, phase \in {Idle, Electing}, LastIndex < MaxIndex,
         NEW term \in Nat, NEW cmd \in Value \cup {Noop},
         AppendLocal(term, cmd),
         currentTerm' \in Nat, leading' \in BOOLEAN
  PROVE  IInv'
<1> DEFINE i == snapshot.index
           e == [index |-> LastIndex + 1, term |-> term, cmd |-> cmd]
           r == Read(file)
           q == Read(file')
<1>0. /\ log' = Append(log, e) /\ file' = AtEnd(Piece(e, TRUE)) /\ open' = FALSE
      /\ commitIndex' = e.index /\ phase' = Applying
      /\ UNCHANGED <<snapshot, lastApplied, machine, acked, tears>>
  BY DEF AppendLocal
<1>1. /\ r \in Seq(Entries) /\ log \in Seq(Entries) /\ i \in Nat
      /\ LastIndex \in Nat /\ lastApplied \in Nat /\ commitIndex \in Nat
      /\ lastApplied <= commitIndex
  BY Facts
<1>2. e \in Entries /\ e.index = LastIndex + 1 /\ e.index \in 1..MaxIndex
  BY <1>1, BoundsAssumption DEF Entries
<1> HIDE DEF e
<1>3. phase # Down /\ phase # Rewriting /\ phase' # Down /\ phase' # Rewriting
  BY <1>0 DEF Idle, Electing, Down, Rewriting, Applying
<1>4. /\ file' \in Seq(Seq(Pieces)) /\ file' # <<>>
      /\ \A n \in DOMAIN file' : file'[n] # <<>>
      /\ q \in Seq(Entries)
      /\ RunFrom(q, i)
      /\ Clean(file') <=> ~open /\ Clean(file)
      /\ Clean(file') => Last(q) = e /\ q # <<>>
                         /\ ToSet(q) = ToSet(r) \cup {e}
      /\ q # <<>> => Last(q).index <= e.index
      /\ \A m \in DOMAIN q : (m \in DOMAIN r /\ q[m] = r[m]) \/ q[m] = e
  BY <1>0, <1>2, FileGrows
<1>5. LogInv /\ MirrorInv /\ MachineInv /\ UntornInv /\ UntornKeepsAcked /\ TypeOK
  BY DEF IInv
<1>6. RunFrom(log, i) /\ i <= LastIndex /\ commitIndex <= LastIndex
  BY <1>3, <1>5 DEF LogInv
<1>7. /\ RunFrom(log', i) /\ log' \in Seq(Entries)
      /\ DOMAIN log' = 1..(Len(log) + 1)
      /\ \A n \in 1..Len(log) : log'[n] = log[n]
      /\ log'[Len(log) + 1] = e
      /\ log' # <<>> /\ Last(log') = e /\ ToSet(log') = ToSet(log) \cup {e}
  <2>1. log # <<>> => e.index = Last(log).index + 1
    BY <1>2 DEF LastIndex
  <2>2. log = <<>> => e.index <= i + 1
    BY <1>1, <1>2 DEF LastIndex
  <2> HIDE DEF i
  <2> QED
    BY <1>0, <1>1, <1>2, <1>6, <2>1, <2>2, RunExtends
<1>8. LastIndex' = e.index
  BY <1>7 DEF LastIndex
<1>9. DOMAIN log = 1..Len(log) /\ Len(log) \in Nat
  BY <1>1
<1>10. \A n \in DOMAIN log' : (n \in DOMAIN log /\ log'[n] = log[n]) \/ log'[n] = e
  BY <1>7, <1>9
<1>11. snapshot'.index = i /\ e.index \in Nat /\ i <= e.index
  BY <1>0, <1>1, <1>2, <1>6
<1>12. \A x \in ToSet(log) \cup ToSet(r) : x.index \in Nat
  BY <1>1, EntryIndices DEF ToSet
<1>13. \A n \in DOMAIN log : log[n].index <= LastIndex
  <2> TAKE n \in DOMAIN log
  <2>1. log # <<>>
    BY <1>1
  <2> QED
    BY <1>1, <1>6, <2>1, RunIndices DEF RunFrom, LastIndex
<1>14. \A m \in DOMAIN r : r[m].index <= LastIndex
  <2> TAKE m \in DOMAIN r
  <2>1. r # <<>>
    BY <1>1
  <2>2. RunFrom(r, i)
    BY DEF IInv, DiskInv
  <2>3. r[m].index <= Last(r).index /\ Last(r).index <= LastIndex
    BY <1>1, <1>3, <1>5, <2>1, <2>2, RunIndices DEF RunFrom, MirrorInv
  <2>4. r[m].index \in Nat /\ Last(r).index \in Nat
    BY <1>1, <2>1, LastOf, EntryIndices
  <2> QED
    BY <1>1, <2>3, <2>4
<1> HIDE DEF i, r, q
<1>15. TypeOK'
  <2>1. snapshot' = snapshot /\ acked' = acked /\ machine' = machine
        /\ lastApplied' = lastApplied /\ commitIndex' \in 0..MaxIndex
    BY <1>0, <1>2
  <2>2. lastApplied' \in 0..commitIndex'
    BY <1>0, <1>1, <1>2, <1>6
  <2>3. phase' \in {Down, Idle, Electing, Applying, Rewriting} /\ open' \in BOOLEAN
    BY <1>0
  <2> QED
    BY <1>4, <1>5, <1>7, <2>1, <2>2, <2>3 DEF TypeOK, Pieces
<1>16. DiskInv'
  BY <1>0, <1>4, <1>11 DEF DiskInv, q
<1>17. LogInv'
  <2>1. log'[1].index = i + 1
    <3>1. CASE log = <<>>
      <4>1. Len(log) = 0 /\ LastIndex = i
        BY <3>1 DEF LastIndex, i
      <4> QED
        BY <1>2, <1>7, <4>1
    <3>2. CASE log # <<>>
      <4>1. 1 \in 1..Len(log)
        BY <1>1, <3>2
      <4> QED
        BY <1>3, <1>5, <1>7, <3>2, <4>1 DEF LogInv, i
    <3> QED
      BY <3>1, <3>2
  <2>2. commitIndex' <= LastIndex' /\ i <= LastIndex'
    BY <1>0, <1>8, <1>11
  <2> QED
    BY <1>3, <1>7, <1>11, <2>1, <2>2 DEF LogInv
<1>18. MirrorInv'
  <2>1. ASSUME NEW m \in DOMAIN q, NEW n \in DOMAIN log',
               q[m].index = log'[n].index
        PROVE  q[m] = log'[n]
    <3>1. CASE q[m] = e /\ log'[n] = e
      BY <3>1
    <3>2. CASE q[m] = e /\ n \in DOMAIN log /\ log'[n] = log[n]
      <4>1. log[n].index = LastIndex + 1 /\ log[n].index <= LastIndex
        BY <1>2, <1>13, <2>1, <3>2
      <4> QED
        BY <1>1, <4>1
    <3>3. CASE m \in DOMAIN r /\ q[m] = r[m] /\ log'[n] = e
      <4>1. r[m].index = LastIndex + 1 /\ r[m].index <= LastIndex
        BY <1>2, <1>14, <2>1, <3>3
      <4> QED
        BY <1>1, <4>1
    <3>4. CASE m \in DOMAIN r /\ q[m] = r[m] /\ n \in DOMAIN log /\ log'[n] = log[n]
      BY <1>3, <1>5, <2>1, <3>4 DEF MirrorInv, r
    <3> QED
      BY <1>4, <1>10, <3>1, <3>2, <3>3, <3>4
  <2>2. q # <<>> => Last(q).index <= LastIndex'
    BY <1>4, <1>8
  <2>3. ASSUME Clean(file')
        PROVE  /\ ToSet(log') \subseteq ToSet(q)
               /\ q # <<>> => Last(q).index = LastIndex'
    <3>1. ToSet(log) \subseteq ToSet(r)
      BY <1>3, <1>4, <1>5, <2>3 DEF MirrorInv, r
    <3> QED
      BY <1>4, <1>7, <1>8, <2>3, <3>1
  <2> QED
    BY <2>1, <2>2, <2>3 DEF MirrorInv, q
<1>19. MachineInv'
  <2>1. ~(e.index <= lastApplied)
    BY <1>1, <1>2, <1>6
  <2>2. /\ snapshot.state \subseteq machine
        /\ \A x \in ToSet(log) : x.index <= lastApplied => x \in machine
        /\ machine \subseteq snapshot.state \cup ToSet(log)
    BY <1>3, <1>5 DEF MachineInv
  <2>3. \A x \in ToSet(log') : x.index <= lastApplied => x \in machine
    BY <1>7, <2>1, <2>2
  <2> QED
    BY <1>0, <1>3, <1>7, <2>2, <2>3 DEF MachineInv
<1>20. UntornInv'
  BY <1>0, <1>4, <1>5 DEF UntornInv
<1>21. UntornKeepsAcked'
  <2> SUFFICES ASSUME tears = 0, NEW x \in acked
               PROVE  x \in Durable'
    BY <1>0 DEF UntornKeepsAcked
  <2>1. Clean(file')
    BY <1>4, <1>5 DEF UntornInv
  <2>2. x \in snapshot.state \/ x \in ToSet(Recovered)
    BY <1>5 DEF UntornKeepsAcked, Durable
  <2>3. RunFrom(r, i)
    BY DEF IInv, DiskInv, r, i
  <2>4. ToSet(Recovered) = {y \in ToSet(r) : y.index > i}
    BY <1>1, <2>3, AfterKeepsTail DEF Recovered, r, i
  <2>5. ToSet(Recovered') = {y \in ToSet(q) : y.index > i}
    <3>1. Recovered' = After(q, i)
      BY <1>0 DEF Recovered, q, i
    <3> QED
      BY <1>1, <1>4, <3>1, AfterKeepsTail
  <2>6. Durable' = snapshot.state \cup ToSet(Recovered')
    BY <1>0 DEF Durable
  <2> QED
    BY <1>4, <2>1, <2>2, <2>4, <2>5, <2>6
<1> QED
  BY <1>15, <1>16, <1>17, <1>18, <1>19, <1>20, <1>21 DEF IInv

\* The new term is in its file, and nothing else is different.
LEMMA ElectKeeps ==
  ASSUME IInv, Elect
  PROVE  IInv'
<1>1. /\ phase = Idle /\ phase' = Electing /\ currentTerm' = currentTerm + 1
      /\ UNCHANGED <<file, open, snapshot, leading, log, commitIndex,
                     lastApplied, machine, acked, tears>>
  BY DEF Elect
<1>2. phase # Down /\ phase # Rewriting /\ phase' # Down /\ phase' # Rewriting
  BY <1>1 DEF Idle, Electing, Down, Rewriting
<1>3. LastIndex' = LastIndex
  BY <1>1 DEF LastIndex
<1>4. TypeOK'
  BY <1>1 DEF IInv, TypeOK
<1>5. DiskInv' /\ LogInv' /\ MirrorInv' /\ MachineInv' /\ UntornInv'
  BY <1>1, <1>2, <1>3
     DEF IInv, DiskInv, LogInv, MirrorInv, MachineInv, UntornInv
<1>6. UntornKeepsAcked'
  BY <1>1 DEF IInv, UntornKeepsAcked, Durable, Recovered
<1> QED
  BY <1>4, <1>5, <1>6 DEF IInv

LEMMA BecomeLeaderKeeps ==
  ASSUME IInv, BecomeLeader
  PROVE  IInv'
<1>1. /\ phase = Electing /\ LastIndex < MaxIndex
      /\ currentTerm' = currentTerm /\ leading' = TRUE
      /\ AppendLocal(currentTerm, Noop)
  BY DEF BecomeLeader
<1>2. currentTerm \in Nat
  BY DEF IInv, TypeOK
<1> QED
  BY <1>1, <1>2, AppendKeeps

LEMMA ProposeKeeps ==
  ASSUME IInv, NEW cmd \in Value, Propose(cmd)
  PROVE  IInv'
<1>1. /\ phase = Idle /\ LastIndex < MaxIndex
      /\ currentTerm' = currentTerm /\ leading' = leading
      /\ AppendLocal(currentTerm, cmd)
  BY DEF Propose
<1>2. currentTerm \in Nat /\ leading \in BOOLEAN
  BY DEF IInv, TypeOK
<1> QED
  BY <1>1, <1>2, AppendKeeps

\* The machine takes the next entry, and is saved when a snapshot is due.
LEMMA ApplyNextKeeps ==
  ASSUME IInv, ApplyNext
  PROVE  IInv'
<1> DEFINE i == snapshot.index
           n == lastApplied + 1
           found == {e \in ToSet(log) : e.index = n}
           due == found # {} /\ n - i >= SnapshotEvery
           r == Read(file)
<1>0. /\ phase = Applying /\ lastApplied < commitIndex
      /\ lastApplied' = n /\ machine' = machine \cup found
      /\ snapshot' = IF due THEN [index |-> n, state |-> machine'] ELSE snapshot
      /\ phase' = IF due THEN Rewriting ELSE Applying
      /\ UNCHANGED <<file, open, currentTerm, leading, log, commitIndex, acked,
                     tears>>
  BY DEF ApplyNext
<1>1. /\ r \in Seq(Entries) /\ log \in Seq(Entries) /\ i \in Nat
      /\ LastIndex \in Nat /\ lastApplied \in Nat /\ commitIndex \in Nat
      /\ RunFrom(r, i)
  BY Facts DEF IInv, DiskInv
<1>2. LogInv /\ MirrorInv /\ MachineInv /\ UntornInv /\ UntornKeepsAcked
      /\ TypeOK /\ DiskInv
  BY DEF IInv
<1>3. phase # Down /\ phase # Rewriting /\ phase' # Down
  BY <1>0 DEF Applying, Down, Rewriting
<1>4. n \in Nat /\ n <= commitIndex /\ n <= LastIndex
  BY <1>0, <1>1, <1>2, <1>3 DEF LogInv
<1>5. found \subseteq ToSet(log) /\ found \subseteq Entries
      /\ \A e \in found : e.index = n
  BY <1>1 DEF ToSet
<1>6. \A e \in ToSet(log) : e \in Entries /\ e.index \in Nat
  BY <1>1, EntryIndices DEF ToSet
<1>7. due => /\ i < n /\ log # <<>>
             /\ snapshot' = [index |-> n, state |-> machine \cup found]
  <2>1. due => n - i >= 1
    BY <1>1, <1>4, SnapshotEveryAssumption
  <2>2. due => log # <<>>
    BY DEF ToSet
  <2> HIDE DEF n
  <2> QED
    BY <1>0, <1>1, <1>4, <2>1, <2>2
<1> DEFINE j == snapshot'.index
<1>8. /\ j \in Nat /\ i <= j /\ j <= LastIndex
      /\ j = IF due THEN n ELSE i
      /\ snapshot'.state = IF due THEN machine \cup found ELSE snapshot.state
  <2>1. CASE due
    <3> HIDE DEF n, found, due
    <3> QED
      BY <1>1, <1>4, <1>7, <2>1
  <2>2. CASE ~due
    BY <1>0, <1>1, <1>2, <1>3, <2>2 DEF LogInv
  <2> QED
    BY <2>1, <2>2
<1> HIDE DEF n, found, due, j, i
<1>9. log # <<>> => LastIndex' = LastIndex
  BY <1>0 DEF LastIndex
<1>10. ~due => LastIndex' = LastIndex
  BY <1>0 DEF LastIndex
<1>11. LastIndex' = LastIndex
  BY <1>7, <1>9, <1>10
<1>12. Read(file') = r /\ Clean(file') = Clean(file)
  BY <1>0
<1>13. RunFrom(r, j) /\ RunFrom(log, j)
  <2>1. RunFrom(log, i)
    BY <1>2, <1>3 DEF LogInv, i
  <2>2. \A s \in Seq(Entries) : RunFrom(s, i) => RunFrom(s, j)
    <3> TAKE s \in Seq(Entries)
    <3>1. s # <<>> => s[1].index \in Nat
      BY LastOf
    <3> QED
      BY <1>1, <1>8, <3>1 DEF RunFrom
  <2> QED
    BY <1>1, <2>1, <2>2
<1>14. TypeOK'
  <2>1. /\ file' \in Seq(Seq(Pieces)) /\ open' \in BOOLEAN /\ log' \in Seq(Entries)
        /\ currentTerm' \in Nat /\ acked' \subseteq Entries /\ leading' \in BOOLEAN
        /\ commitIndex' \in 0..MaxIndex
    BY <1>0, <1>2 DEF TypeOK, Pieces
  <2>2. machine' \subseteq Entries
    BY <1>0, <1>2, <1>5 DEF TypeOK
  <2>3. j \in 0..MaxIndex
    <3>1. i \in 0..MaxIndex /\ commitIndex \in 0..MaxIndex
      BY <1>2 DEF TypeOK, i
    <3> QED
      BY <1>1, <1>4, <1>8, <3>1, BoundsAssumption
  <2>4. snapshot'.state \subseteq Entries
    BY <1>2, <1>5, <1>8 DEF TypeOK
  <2>5. lastApplied' \in 0..commitIndex'
    BY <1>0, <1>1, <1>4
  <2>6. phase' \in {Down, Idle, Electing, Applying, Rewriting}
    BY <1>0
  <2> QED
    BY <2>1, <2>2, <2>3, <2>4, <2>5, <2>6 DEF TypeOK, Pieces, j
<1>15. DiskInv'
  <2>1. Clean(file) /\ r # <<>> => Last(r).index >= j
    <3>1. Clean(file) /\ r # <<>> => Last(r).index = LastIndex
      BY <1>2, <1>3 DEF MirrorInv
    <3> QED
      BY <1>1, <1>8, <3>1
  <2>2. open' => file' # <<>>
    BY <1>0, <1>2 DEF DiskInv
  <2>3. \A m \in DOMAIN file' : file'[m] # <<>>
    BY <1>0, <1>2 DEF DiskInv
  <2> HIDE DEF r
  <2> QED
    BY <1>12, <1>13, <2>1, <2>2, <2>3 DEF DiskInv, j
<1>16. LogInv'
  <2>1. phase' # Rewriting /\ log' # <<>> => log'[1].index = j + 1
    <3>1. phase' # Rewriting => j = i
      BY <1>0, <1>8
    <3>2. log # <<>> => log[1].index = i + 1
      BY <1>2, <1>3 DEF LogInv, i
    <3> QED
      BY <1>0, <3>1, <3>2
  <2>2. phase' = Rewriting => log' # <<>>
    BY <1>0, <1>7 DEF Rewriting, Applying
  <2>3. commitIndex' <= LastIndex' /\ j <= LastIndex'
    BY <1>0, <1>2, <1>3, <1>8, <1>11 DEF LogInv
  <2> QED
    BY <1>0, <1>13, <2>1, <2>2, <2>3 DEF LogInv, j
<1>17. MirrorInv'
  BY <1>0, <1>2, <1>3, <1>11 DEF MirrorInv
<1>18. MachineInv'
  <2>1. /\ snapshot.state \subseteq machine
        /\ \A e \in ToSet(log) : e.index <= lastApplied => e \in machine
        /\ machine \subseteq snapshot.state \cup ToSet(log)
    BY <1>2, <1>3 DEF MachineInv
  <2>2. snapshot'.state \subseteq machine'
    BY <1>0, <1>8, <2>1
  <2>3. \A e \in ToSet(log') : e.index <= lastApplied' => e \in machine'
    <3> SUFFICES ASSUME NEW e \in ToSet(log), e.index <= n
                 PROVE  e \in machine \cup found
      BY <1>0
    <3>1. e.index <= lastApplied \/ e.index = n
      BY <1>1, <1>6 DEF n
    <3> QED
      BY <2>1, <3>1 DEF found
  <2>4. machine' \subseteq snapshot'.state \cup ToSet(log')
    BY <1>0, <1>5, <1>8, <2>1
  <2>5. phase' = Rewriting => machine' = snapshot'.state
    BY <1>0, <1>8 DEF Rewriting, Applying
  <2> QED
    BY <2>2, <2>3, <2>4, <2>5 DEF MachineInv
<1>19. UntornInv'
  BY <1>0, <1>2 DEF UntornInv
<1>20. UntornKeepsAcked'
  <2> SUFFICES ASSUME tears = 0, NEW x \in acked
               PROVE  x \in Durable'
    BY <1>0 DEF UntornKeepsAcked
  <2>1. x \in snapshot.state \/ x \in ToSet(Recovered)
    BY <1>2 DEF UntornKeepsAcked, Durable
  <2>2. ToSet(Recovered) = {y \in ToSet(r) : y.index > i}
    BY <1>1, AfterKeepsTail DEF Recovered, i
  <2>3. ToSet(Recovered') = {y \in ToSet(r) : y.index > j}
    <3>1. Recovered' = After(r, j)
      BY <1>12 DEF Recovered, j
    <3> QED
      BY <1>1, <1>8, <1>13, <3>1, AfterKeepsTail
  <2>4. Durable' = snapshot'.state \cup ToSet(Recovered')
    BY DEF Durable
  <2>5. snapshot.state \subseteq snapshot'.state
    BY <1>2, <1>3, <1>8 DEF MachineInv
  <2>6. CASE x \in ToSet(Recovered) /\ ~(x.index > j)
    <3>1. x \in ToSet(log)
      BY <1>3, <2>6, RecoveredInLog
    <3>2. x.index > i /\ x.index \in Nat
      BY <1>6, <2>2, <2>6, <3>1
    <3>3. due /\ x.index <= n
      BY <1>1, <1>4, <1>8, <2>6, <3>2
    <3>4. x \in machine'
      <4>1. x.index <= lastApplied'
        BY <1>0, <3>3
      <4> QED
        BY <1>0, <1>3, <1>18, <3>1, <4>1 DEF MachineInv
    <3> QED
      BY <1>0, <1>8, <2>4, <3>3, <3>4
  <2> QED
    BY <2>1, <2>2, <2>3, <2>4, <2>5, <2>6
<1> QED
  BY <1>14, <1>15, <1>16, <1>17, <1>18, <1>19, <1>20 DEF IInv

\* takeSnapshot cuts the log in memory and writes the rest to the file.
LEMMA RewriteKeeps ==
  ASSUME IInv, Rewrite
  PROVE  IInv'
<1> DEFINE i == snapshot.index
           kept == After(log, i)
<1>0. /\ phase = Rewriting /\ phase' = Applying /\ log' = kept
      /\ file' = AsLines(kept) /\ open' = FALSE
      /\ UNCHANGED <<currentTerm, snapshot, leading, commitIndex, lastApplied,
                     machine, acked, tears>>
  BY DEF Rewrite
<1>1. /\ log \in Seq(Entries) /\ i \in Nat /\ LastIndex \in Nat
      /\ commitIndex \in Nat /\ lastApplied \in Nat
  BY Facts
<1>2. LogInv /\ MachineInv /\ UntornInv /\ UntornKeepsAcked /\ TypeOK
  BY DEF IInv
<1>3. phase # Down /\ phase' # Down /\ phase' # Rewriting
  BY <1>0 DEF Applying, Down, Rewriting
<1>4. /\ RunFrom(log, i) /\ log # <<>> /\ i <= LastIndex
      /\ commitIndex <= LastIndex /\ LastIndex = Last(log).index
  BY <1>0, <1>2, <1>3 DEF LogInv, LastIndex
<1>5. /\ kept \in Seq(Entries)
      /\ ToSet(kept) = {e \in ToSet(log) : e.index > i}
      /\ \A n \in 1..Len(kept) : kept[n].index = i + n
      /\ kept # <<>> => Last(kept) = Last(log)
      /\ kept = <<>> => \A n \in 1..Len(log) : log[n].index <= i
  BY <1>1, <1>4, AfterKeepsTail
<1>6. ToSet(Recovered) \subseteq ToSet(kept)
  BY <1>3, <1>5, RecoveredInLog
<1> HIDE DEF i, kept
<1>7. /\ file' \in Seq(Seq(Pieces))
      /\ \A n \in DOMAIN file' : file'[n] # <<>>
      /\ Clean(file') /\ Read(file') = kept
  BY <1>0, <1>5, ReadAsLines
<1>8. DOMAIN kept = 1..Len(kept) /\ Len(kept) \in Nat
  BY <1>5
<1>9. kept # <<>> => 1 \in 1..Len(kept)
  BY <1>5
<1>10. RunFrom(kept, i)
  <2>1. Run(kept)
    BY <1>1, <1>5, <1>8 DEF Run
  <2> QED
    BY <1>1, <1>5, <1>9, <2>1 DEF RunFrom
<1>11. LastIndex' = LastIndex
  <2>1. CASE kept = <<>>
    <3>1. Last(log).index <= i
      <4>1. Len(log) \in 1..Len(log) /\ log[Len(log)] = Last(log)
        BY <1>1, <1>4, LastOf
      <4> QED
        BY <1>5, <2>1, <4>1
    <3>2. LastIndex' = i
      BY <1>0, <2>1 DEF LastIndex, i
    <3> QED
      BY <1>1, <1>4, <3>1, <3>2
  <2>2. CASE kept # <<>>
    BY <1>0, <1>4, <1>5, <2>2 DEF LastIndex
  <2> QED
    BY <2>1, <2>2
<1>12. snapshot'.index = i /\ i = snapshot.index
  BY <1>0 DEF i
<1>13. TypeOK'
  <2>1. log' \in Seq(Entries) /\ open' \in BOOLEAN
        /\ phase' \in {Down, Idle, Electing, Applying, Rewriting}
    BY <1>0, <1>5
  <2> QED
    BY <1>0, <1>2, <1>7, <2>1 DEF TypeOK, Pieces
<1>14. DiskInv'
  <2>1. kept # <<>> => Last(kept).index >= i
    BY <1>1, <1>4, <1>5
  <2> QED
    BY <1>0, <1>7, <1>10, <1>12, <2>1 DEF DiskInv
<1>15. LogInv'
  <2>1. kept # <<>> => kept[1].index = i + 1
    BY <1>5, <1>9
  <2> QED
    BY <1>0, <1>3, <1>4, <1>10, <1>11, <1>12, <2>1 DEF LogInv
<1>16. MirrorInv'
  <2>1. \A m, n \in DOMAIN kept : kept[m].index = kept[n].index => kept[m] = kept[n]
    <3> SUFFICES ASSUME NEW m \in 1..Len(kept), NEW n \in 1..Len(kept),
                        kept[m].index = kept[n].index
                 PROVE  m = n
      BY <1>8
    <3>1. i + m = i + n
      BY <1>5
    <3> QED
      BY <1>1, <1>8, <3>1
  <2>2. kept # <<>> => Last(kept).index = LastIndex'
    BY <1>4, <1>5, <1>11
  <2>3. kept # <<>> => Last(kept).index <= LastIndex'
    BY <1>1, <1>11, <2>2
  <2> QED
    BY <1>0, <1>7, <2>1, <2>2, <2>3 DEF MirrorInv
<1>17. MachineInv'
  <2>1. machine = snapshot.state
    BY <1>0, <1>2, <1>3 DEF MachineInv
  <2>2. \A e \in ToSet(kept) : e.index <= lastApplied => e \in machine
    BY <1>2, <1>3, <1>5 DEF MachineInv
  <2> QED
    BY <1>0, <1>3, <2>1, <2>2 DEF MachineInv
<1>18. UntornInv'
  BY <1>0, <1>2, <1>7 DEF UntornInv
<1>19. UntornKeepsAcked'
  <2>1. ToSet(Recovered') = {e \in ToSet(kept) : e.index > i}
    <3>1. Recovered' = After(kept, i)
      BY <1>7, <1>12 DEF Recovered
    <3> QED
      BY <1>1, <1>5, <1>10, <3>1, AfterKeepsTail
  <2>2. ToSet(Recovered') = ToSet(kept)
    BY <1>5, <2>1
  <2>3. Durable \subseteq Durable'
    BY <1>0, <1>6, <2>2 DEF Durable
  <2> QED
    BY <1>0, <1>2, <2>3 DEF UntornKeepsAcked
<1> QED
  BY <1>13, <1>14, <1>15, <1>16, <1>17, <1>18, <1>19 DEF IInv

\* A caller is told: its entry is in the snapshot, or in the file.
LEMMA AnswerKeeps ==
  ASSUME IInv, Answer
  PROVE  IInv'
<1>0. /\ phase = Applying /\ phase' = Idle
      /\ acked' = acked \cup {e \in machine : e.index = commitIndex /\ e.cmd # Noop}
      /\ UNCHANGED <<file, open, currentTerm, snapshot, leading, log,
                     commitIndex, lastApplied, machine, tears>>
  BY DEF Answer, disk
<1>1. /\ phase # Down /\ phase # Rewriting /\ phase' # Down /\ phase' # Rewriting
  BY <1>0 DEF Applying, Idle, Down, Rewriting
<1>2. /\ LogInv /\ MachineInv /\ UntornInv /\ UntornKeepsAcked /\ TypeOK
      /\ MirrorInv /\ DiskInv
  BY DEF IInv
<1>3. TypeOK'
  <2>1. acked' \subseteq Entries
    BY <1>0, <1>2 DEF TypeOK
  <2> QED
    BY <1>0, <1>2, <2>1 DEF TypeOK
<1>4. LastIndex' = LastIndex
  BY <1>0 DEF LastIndex
<1>5. DiskInv' /\ MirrorInv' /\ UntornInv'
  BY <1>0, <1>1, <1>2, <1>4 DEF DiskInv, MirrorInv, UntornInv
<1>6. LogInv' /\ MachineInv'
  BY <1>0, <1>1, <1>2, <1>4 DEF LogInv, MachineInv
<1>7. UntornKeepsAcked'
  <2> SUFFICES ASSUME tears = 0, NEW e \in machine PROVE e \in Durable
    BY <1>0, <1>2 DEF UntornKeepsAcked, Durable, Recovered
  <2>1. e \in snapshot.state \/ e \in ToSet(log)
    BY <1>1, <1>2 DEF MachineInv
  <2>2. ToSet(log) \subseteq ToSet(Read(file))
    BY <1>1, <1>2 DEF MirrorInv, UntornInv
  <2>3. /\ log \in Seq(Entries) /\ snapshot.index \in Nat
        /\ Read(file) \in Seq(Entries) /\ RunFrom(Read(file), snapshot.index)
    BY <1>2, Facts DEF DiskInv
  <2>4. ASSUME e \in ToSet(log) PROVE e.index > snapshot.index
    <3>1. PICK n \in DOMAIN log : e = log[n]
      BY <2>4 DEF ToSet
    <3>2. log # <<>> /\ n \in Nat /\ n >= 1
      BY <2>3, <3>1
    <3>3. log[1].index = snapshot.index + 1 /\ Run(log)
      BY <1>1, <1>2, <3>2 DEF LogInv, RunFrom
    <3>4. e.index = log[1].index + n - 1
      BY <2>3, <3>1, <3>2, <3>3, RunIndices
    <3> QED
      BY <2>3, <3>2, <3>3, <3>4
  <2>5. ToSet(Recovered) = {y \in ToSet(Read(file)) : y.index > snapshot.index}
    BY <2>3, AfterKeepsTail DEF Recovered
  <2> QED
    BY <2>1, <2>2, <2>4, <2>5 DEF Durable
<1> QED
  BY <1>3, <1>5, <1>6, <1>7 DEF IInv

\* A process that died left nothing in memory.
LEMMA DeadIsEmpty ==
  ASSUME Die
  PROVE  LogInv' /\ MirrorInv' /\ MachineInv'
BY DEF Die, LogInv, MirrorInv, MachineInv

LEMMA CrashKeeps ==
  ASSUME IInv, Crash
  PROVE  IInv'
<1>0. /\ phase' = Down /\ leading' = FALSE
      /\ log' = <<>> /\ commitIndex' = 0 /\ lastApplied' = 0 /\ machine' = {}
      /\ UNCHANGED <<file, open, currentTerm, snapshot, acked, tears>> /\ Die
  BY DEF Crash, Die
<1>1. TypeOK'
  <2>1. /\ file' \in Seq(Seq(Pieces)) /\ open' \in BOOLEAN
        /\ currentTerm' \in Nat /\ acked' \subseteq Entries
        /\ snapshot'.index \in 0..MaxIndex /\ snapshot'.state \subseteq Entries
    BY <1>0 DEF IInv, TypeOK, Pieces
  <2>2. log' \in Seq(Entries) /\ machine' \subseteq Entries
    BY <1>0
  <2>3. commitIndex' \in 0..MaxIndex /\ lastApplied' \in 0..commitIndex'
    BY <1>0, BoundsAssumption
  <2> QED
    BY <1>0, <2>1, <2>2, <2>3 DEF TypeOK, Pieces
<1>2. DiskInv' /\ UntornInv' /\ UntornKeepsAcked'
  BY <1>0 DEF IInv, DiskInv, UntornInv, UntornKeepsAcked, Durable, Recovered
<1> QED
  BY <1>0, <1>1, <1>2, DeadIsEmpty DEF IInv

\* The machine dies in an append: the file ends in what got there of the entry.
LEMMA CrashInAppendKeeps ==
  ASSUME IInv, NEW cmd \in Value \cup {Noop}, NEW whole \in BOOLEAN,
         CrashInAppend(cmd, whole)
  PROVE  IInv'
<1> DEFINE e == [index |-> LastIndex + 1, term |-> currentTerm, cmd |-> cmd]
<1>0. /\ phase \in {Idle, Electing} /\ LastIndex < MaxIndex
      /\ tears' = tears + 1
      /\ file' = AtEnd(Piece(e, whole)) /\ open' = TRUE
      /\ currentTerm' = currentTerm
      /\ Die
  BY DEF CrashInAppend
<1>1. /\ phase' = Down /\ leading' = FALSE
      /\ log' = <<>> /\ commitIndex' = 0 /\ lastApplied' = 0 /\ machine' = {}
      /\ snapshot' = snapshot /\ acked' = acked
  BY <1>0 DEF Die
<1>2. currentTerm \in Nat
  BY DEF IInv, TypeOK
<1>3. LastIndex \in Nat /\ snapshot.index \in Nat
  BY Facts
<1>4. e \in Entries /\ e.index = LastIndex + 1
  BY <1>0, <1>2, <1>3, BoundsAssumption DEF Entries
<1> HIDE DEF e
<1>5. /\ file' \in Seq(Seq(Pieces)) /\ file' # <<>>
      /\ \A n \in DOMAIN file' : file'[n] # <<>>
      /\ RunFrom(Read(file'), snapshot.index)
      /\ Clean(file') => Last(Read(file')) = e
  BY <1>0, <1>1, <1>4, FileGrows
<1>6. TypeOK'
  <2>1. /\ open' \in BOOLEAN
        /\ currentTerm' \in Nat /\ acked' \subseteq Entries
        /\ snapshot'.index \in 0..MaxIndex /\ snapshot'.state \subseteq Entries
    BY <1>0, <1>1, <1>2 DEF IInv, TypeOK
  <2>2. log' \in Seq(Entries) /\ machine' \subseteq Entries
    BY <1>1
  <2>3. commitIndex' \in 0..MaxIndex /\ lastApplied' \in 0..commitIndex'
    BY <1>1, BoundsAssumption
  <2> QED
    BY <1>1, <1>5, <2>1, <2>2, <2>3 DEF TypeOK, Pieces
<1>7. DiskInv'
  <2>1. snapshot.index <= e.index
    <3>1. snapshot.index <= LastIndex
      BY <1>0 DEF IInv, LogInv, Idle, Electing, Down
    <3> QED
      BY <1>3, <1>4, <3>1
  <2>2. Clean(file') => Last(Read(file')).index >= snapshot.index
    BY <1>3, <1>4, <1>5, <2>1
  <2> QED
    BY <1>1, <1>5, <2>2 DEF DiskInv
<1>8. UntornInv' /\ UntornKeepsAcked'
  <2>1. tears' \in Nat /\ tears' # 0
    BY <1>0 DEF IInv, UntornInv
  <2> QED
    BY <2>1 DEF UntornInv, UntornKeepsAcked
<1> QED
  BY <1>0, <1>6, <1>7, <1>8, DeadIsEmpty DEF IInv

LEMMA StepsKeep == IInv /\ [Next]_vars => IInv'
<1> SUFFICES ASSUME IInv, [Next]_vars
             PROVE  IInv'
  OBVIOUS
<1>1. CASE Start
  BY <1>1, StartKeeps
<1>2. CASE Elect
  BY <1>2, ElectKeeps
<1>3. CASE ApplyNext
  BY <1>3, ApplyNextKeeps
<1>4. CASE Rewrite
  BY <1>4, RewriteKeeps
<1>5. CASE Answer
  BY <1>5, AnswerKeeps
<1>6. CASE Crash
  BY <1>6, CrashKeeps
<1>7. ASSUME NEW cmd \in Value, Propose(cmd) PROVE IInv'
  BY <1>7, ProposeKeeps
<1>8. ASSUME NEW cmd \in Value \cup {Noop}, NEW whole \in BOOLEAN,
             CrashInAppend(cmd, whole)
      PROVE  IInv'
  BY <1>8, CrashInAppendKeeps
<1>9. CASE BecomeLeader
  BY <1>9, BecomeLeaderKeeps
<1>10. CASE UNCHANGED vars
  BY <1>10, Stutters
<1> QED
  BY <1>1, <1>2, <1>3, <1>4, <1>5, <1>6, <1>7, <1>8, <1>9, <1>10 DEF Next

-----------------------------------------------------------------------------
(* The theorems.                                                           *)

LEMMA Invariant == Spec => []IInv
<1>1. Init => IInv
  BY Begins
<1>2. IInv /\ [Next]_vars => IInv'
  BY StepsKeep
<1> QED
  BY <1>1, <1>2, PTL DEF Spec

\* The files and the process hold what wal.js and raft.js put there.
THEOREM Types == Spec => []TypeOK
<1>1. IInv => TypeOK
  BY DEF IInv
<1> QED
  BY <1>1, Invariant, PTL

\* The log in memory has no gap and no index twice, although the file it was
\* read from may hold torn lines, lines glued to torn ones, and lines a
\* snapshot left stale (read stops where the sequence ends).
THEOREM LogsAreSequences == Spec => []LogContiguous
<1>1. IInv => LogContiguous
  BY ContiguousHolds
<1> QED
  BY <1>1, Invariant, PTL

\* Whatever was torn, a restart reads back a beginning of the log the process
\* has, and nothing else.
THEOREM RestartsInventNothing == Spec => []RecoveredIsPrefix
<1>1. IInv => RecoveredIsPrefix
  BY PrefixHolds
<1> QED
  BY <1>1, Invariant, PTL

\* Wherever the process dies, in an append, an apply or a snapshot: as long as
\* no append was torn, a restart brings back every write a caller was told of.
THEOREM UntornLosesNothing == Spec => []UntornKeepsAcked
<1>1. IInv => UntornKeepsAcked
  BY DEF IInv
<1> QED
  BY <1>1, Invariant, PTL
=============================================================================
