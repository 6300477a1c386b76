------------------------------ MODULE MvccProofs ----------------------------
(***************************************************************************)
(* Proofs, for any number of keys, any batches, leases, watches,           *)
(* compactions and seeds: the event log and the chains tell one story, a   *)
(* watch has been sent exactly what is due to it, a read at a revision     *)
(* that is still answered for never changes, every change is announced,    *)
(* a rejected batch leaves the data as it was, and a lease holds the keys  *)
(* that name it.                                                           *)
(*                                                                         *)
(* A batch is followed write by write: after each of them the store is     *)
(* the one the batch began with, followed by the same events in the log    *)
(* and in the chains, all of one new revision.                             *)
(***************************************************************************)
EXTENDS MvccProperties, SequenceTheorems, WellFoundedInduction, TLAPS

-----------------------------------------------------------------------------
(* Induction over the naturals and over sequences, with sets.              *)

LEMMA LeastNatural ==
  ASSUME NEW T \in SUBSET Nat, T # {}
  PROVE  \E n \in T : \A m \in T : n <= m
<1> DEFINE R == OpToRel(<, Nat)
<1>1. IsWellFoundedOn(R, Nat)
  BY NatLessThanWellFounded
<1>2. PICK n \in T : \A m \in T : ~(<<m, n>> \in R)
  <2> HIDE DEF R
  <2> QED BY <1>1, WFMin
<1>3. \A m \in T : ~(m < n)
  BY <1>2 DEF OpToRel
<1> QED BY <1>3

\* A set of naturals up to b with 0 and the successor of each of its members
\* below b has all of them.
LEMMA UpToInduct ==
  ASSUME NEW b \in Nat, NEW P \in SUBSET (0..b), 0 \in P,
         \A n \in 1..b : n - 1 \in P => n \in P
  PROVE  P = 0..b
<1> DEFINE T == (0..b) \ P
<1>1. T = {}
  <2> SUFFICES ASSUME T # {} PROVE FALSE
    OBVIOUS
  <2>1. T \in SUBSET Nat
    OBVIOUS
  <2>2. PICK n \in T : \A m \in T : n <= m
    <3> HIDE DEF T
    <3> QED BY <2>1, LeastNatural
  <2>3. n \in 1..b /\ n - 1 \in 0..b
    BY <2>2
  <2>4. n - 1 \notin T
    <3>1. ~(n <= n - 1)
      BY <2>3
    <3> QED BY <2>2, <3>1
  <2> QED BY <2>2, <2>3, <2>4
<1> QED BY <1>1

LEMMA SameSeq ==
  ASSUME NEW X, NEW s \in Seq(X), NEW t \in Seq(X), Len(s) = Len(t),
         \A n \in 1..Len(s) : s[n] = t[n]
  PROVE  s = t
OBVIOUS

Longer(s, t, x) == Append(s \o t, x) = s \o Append(t, x)

LEMMA AppendConcat ==
  ASSUME NEW X, NEW s \in Seq(X), NEW t \in Seq(X), NEW x \in X
  PROVE  Longer(s, t, x)
<1> DEFINE u == s \o t
           v == Append(t, x)
           a == Append(u, x)
           b == s \o v
<1>1. u \in Seq(X) /\ Len(u) = Len(s) + Len(t) /\ Len(s) \in Nat /\ Len(t) \in Nat
      /\ \A n \in 1..Len(u) : u[n] = IF n <= Len(s) THEN s[n] ELSE t[n - Len(s)]
  OBVIOUS
<1>2. v \in Seq(X) /\ Len(v) = Len(t) + 1 /\ v[Len(t) + 1] = x
      /\ \A n \in 1..Len(t) : v[n] = t[n]
  BY AppendProperties
<1> HIDE DEF u, v
<1>3. a \in Seq(X) /\ Len(a) = Len(u) + 1 /\ a[Len(u) + 1] = x
      /\ \A n \in 1..Len(u) : a[n] = u[n]
  BY <1>1, AppendProperties
<1>4. b \in Seq(X) /\ Len(b) = Len(s) + Len(v)
      /\ \A n \in 1..Len(b) : b[n] = IF n <= Len(s) THEN s[n] ELSE v[n - Len(s)]
  BY <1>2
<1> HIDE DEF a, b
<1>5. \A n \in 1..Len(a) : a[n] = b[n]
  <2> SUFFICES ASSUME NEW n \in 1..Len(a) PROVE a[n] = b[n]
    OBVIOUS
  <2>1. n \in 1..Len(b)
    BY <1>1, <1>2, <1>3, <1>4
  <2>2. CASE n <= Len(s)
    <3>1. n \in 1..Len(u)
      BY <1>1, <2>2
    <3> QED BY <1>1, <1>3, <1>4, <2>1, <2>2, <3>1
  <2>3. CASE n > Len(s) /\ n <= Len(u)
    <3>1. n \in 1..Len(u) /\ n - Len(s) \in 1..Len(t) /\ ~(n <= Len(s))
      BY <1>1, <2>3
    <3> QED BY <1>1, <1>2, <1>3, <1>4, <2>1, <3>1
  <2>4. CASE n = Len(u) + 1
    <3>1. n - Len(s) = Len(t) + 1 /\ ~(n <= Len(s))
      BY <1>1, <2>4
    <3> QED BY <1>2, <1>3, <1>4, <2>1, <2>4, <3>1
  <2> QED BY <1>1, <1>3, <2>2, <2>3, <2>4
<1>6. Len(a) = Len(b)
  BY <1>1, <1>2, <1>3, <1>4
<1>7. a = b
  BY <1>3, <1>4, <1>5, <1>6, SameSeq
<1> QED BY <1>7 DEF a, b, u, v, Longer

LEMMA SeqInduct ==
  ASSUME NEW X, NEW P \in SUBSET Seq(X), <<>> \in P,
         \A s \in P, x \in X : Append(s, x) \in P
  PROVE  P = Seq(X)
<1> DEFINE T == {n \in Nat : \E s \in Seq(X) : s \notin P /\ Len(s) = n}
<1>1. T = {}
  <2> SUFFICES ASSUME T # {} PROVE FALSE
    OBVIOUS
  <2>1. PICK n \in T : \A m \in T : n <= m
    BY LeastNatural
  <2>2. PICK s \in Seq(X) : s \notin P /\ Len(s) = n
    BY <2>1
  <2>3. s # <<>> /\ Len(s) \in Nat /\ Len(s) # 0
    BY <2>2
  <2> DEFINE f == [i \in 1..(Len(s) - 1) |-> s[i]]
  <2>4. f \in Seq(X) /\ Len(f) = n - 1 /\ n - 1 \in Nat
    BY <2>2, <2>3
  <2>5. s[Len(s)] \in X
    BY <2>3
  <2>6. s = Append(f, s[Len(s)])
    <3> DEFINE t == Append(f, s[Len(s)])
    <3>1. t \in Seq(X) /\ Len(t) = Len(s) /\ t[Len(s)] = s[Len(s)]
      BY <2>2, <2>3, <2>4, <2>5
    <3>0. Len(f) = Len(s) - 1 /\ \A i \in 1..(Len(s) - 1) : f[i] = s[i]
      BY <2>2, <2>3, <2>4
    <3>2. \A i \in 1..(Len(s) - 1) : t[i] = s[i]
      <4> HIDE DEF f
      <4> QED BY <2>4, <2>5, <3>0, AppendProperties
    <3> HIDE DEF t
    <3>3. \A i \in 1..Len(s) : t[i] = s[i]
      <4> SUFFICES ASSUME NEW i \in 1..Len(s) PROVE t[i] = s[i]
        OBVIOUS
      <4>1. CASE i = Len(s)
        BY <3>1, <4>1
      <4>2. CASE i # Len(s)
        <5>1. i \in 1..(Len(s) - 1)
          BY <2>3, <4>2
        <5> QED BY <3>2, <5>1
      <4> QED BY <4>1, <4>2
    <3>4. s = t
      BY <3>1, <3>3, SameSeq
    <3> QED BY <3>4 DEF t
  <2>7. f \in P
    <3>1. n - 1 \notin T
      <4>1. n \in Nat /\ ~(n <= n - 1)
        BY <2>1
      <4> HIDE DEF T
      <4> QED BY <2>1, <4>1
    <3> HIDE DEF f
    <3> QED BY <2>4, <3>1
  <2> HIDE DEF f
  <2> QED BY <2>2, <2>5, <2>6, <2>7
<1>2. \A s \in Seq(X) : Len(s) \in Nat
  OBVIOUS
<1> QED BY <1>1, <1>2

-----------------------------------------------------------------------------
(* Only and Newer, one element at a time.                                  *)

OnlyStep(f, s, S, n) ==
  IF n = 0 THEN <<>>
  ELSE IF s[n] \in S THEN Append(f[n - 1], s[n]) ELSE f[n - 1]
OnlyWalk(f, s, S, b) == f = [n \in 0..b |-> OnlyStep(f, s, S, n)]

LEMMA OnlyWalkExists ==
  ASSUME NEW s, NEW S, NEW b \in Nat
  PROVE  \E f : OnlyWalk(f, s, S, b)
<1> DEFINE P == {n \in 0..b : \E f : OnlyWalk(f, s, S, n)}
<1>1. 0 \in P
  <2> DEFINE g == [n \in 0..0 |-> <<>>]
  <2>1. OnlyWalk(g, s, S, 0)
    BY DEF OnlyWalk, OnlyStep
  <2> HIDE DEF g
  <2> QED BY <2>1
<1>2. ASSUME NEW n \in 1..b, n - 1 \in P PROVE n \in P
  <2>1. PICK f : OnlyWalk(f, s, S, n - 1)
    BY <1>2
  <2> DEFINE g == [k \in 0..n |-> OnlyStep(f, s, S, k)]
  <2>2. \A k \in 0..(n - 1) : g[k] = f[k]
    BY <2>1 DEF OnlyWalk
  <2>3. \A k \in 0..n : k # 0 => k - 1 \in 0..(n - 1)
    OBVIOUS
  <2>4. OnlyWalk(g, s, S, n)
    BY <2>2, <2>3 DEF OnlyWalk, OnlyStep
  <2> HIDE DEF g
  <2> QED BY <2>4
<1>3. P = 0..b
  <2> HIDE DEF P
  <2>1. P \in SUBSET (0..b)
    BY DEF P
  <2> QED BY <1>1, <1>2, <2>1, UpToInduct
<1> QED BY <1>3

\* Walks over sequences with the same beginning agree on it.
LEMMA OnlyWalksAgree ==
  ASSUME NEW s, NEW t, NEW S, NEW b \in Nat, NEW c \in Nat, b <= c,
         \A n \in 1..b : s[n] = t[n],
         NEW f, OnlyWalk(f, s, S, b), NEW g, OnlyWalk(g, t, S, c)
  PROVE  f[b] = g[b]
<1> DEFINE P == {n \in 0..b : f[n] = g[n]}
<1>1. 0 \in P
  BY DEF OnlyWalk, OnlyStep
<1>2. ASSUME NEW n \in 1..b, n - 1 \in P PROVE n \in P
  <2>1. n \in 0..b /\ n \in 0..c /\ n # 0
    OBVIOUS
  <2>2. f[n] = OnlyStep(f, s, S, n) /\ g[n] = OnlyStep(g, t, S, n)
    BY <2>1 DEF OnlyWalk
  <2> QED BY <1>2, <2>1, <2>2 DEF OnlyStep
<1>3. P = 0..b
  <2> HIDE DEF P
  <2>1. P \in SUBSET (0..b)
    BY DEF P
  <2> QED BY <1>1, <1>2, <2>1, UpToInduct
<1> QED BY <1>3

LEMMA OnlyIsWalk ==
  ASSUME NEW s, NEW S, Len(s) \in Nat
  PROVE  \E f : OnlyWalk(f, s, S, Len(s)) /\ Only(s, S) = f[Len(s)]
<1> DEFINE f == CHOOSE h : OnlyWalk(h, s, S, Len(s))
<1>1. OnlyWalk(f, s, S, Len(s))
  <2>1. \E h : OnlyWalk(h, s, S, Len(s))
    BY OnlyWalkExists
  <2> QED BY <2>1
<1>2. Only(s, S) = f[Len(s)]
  BY DEF Only, OnlyWalk, OnlyStep
<1> HIDE DEF f
<1> QED BY <1>1, <1>2

LEMMA OnlyEmpty ==
  ASSUME NEW S PROVE Only(<<>>, S) = <<>>
<1>1. Len(<<>>) = 0
  OBVIOUS
<1>2. PICK f : OnlyWalk(f, <<>>, S, 0) /\ Only(<<>>, S) = f[0]
  BY <1>1, OnlyIsWalk
<1> QED BY <1>2 DEF OnlyWalk, OnlyStep

LEMMA OnlyAppend ==
  ASSUME NEW X, NEW s \in Seq(X), NEW x \in X, NEW S
  PROVE  Only(Append(s, x), S) =
           IF x \in S THEN Append(Only(s, S), x) ELSE Only(s, S)
<1> DEFINE t == Append(s, x)
           b == Len(s)
<1>1. b \in Nat /\ Len(t) = b + 1 /\ t[b + 1] = x /\ \A n \in 1..b : s[n] = t[n]
  OBVIOUS
<1> HIDE DEF t
<1>2. PICK f : OnlyWalk(f, s, S, b) /\ Only(s, S) = f[b]
  BY <1>1, OnlyIsWalk
<1>3. PICK g : OnlyWalk(g, t, S, b + 1) /\ Only(t, S) = g[b + 1]
  <2>1. Len(t) \in Nat
    BY <1>1
  <2> QED BY <1>1, <2>1, OnlyIsWalk
<1> HIDE DEF b
<1>4. f[b] = g[b]
  BY <1>1, <1>2, <1>3, OnlyWalksAgree
<1>5. b + 1 \in 0..(b + 1) /\ b + 1 # 0 /\ b + 1 - 1 = b
  BY <1>1
<1>6. g[b + 1] = OnlyStep(g, t, S, b + 1)
  BY <1>3, <1>5 DEF OnlyWalk
<1>7. g[b + 1] = IF x \in S THEN Append(g[b], x) ELSE g[b]
  BY <1>1, <1>5, <1>6 DEF OnlyStep
<1> QED BY <1>2, <1>3, <1>4, <1>7 DEF t

-----------------------------------------------------------------------------
(* Entries, events and what the helpers make of sequences of them.         *)

Entry ==
  {e \in [rev : Nat, value : Nat, version : Nat, createRevision : Nat,
          lease : Nat, deleted : BOOLEAN] : e.createRevision <= e.rev}
EventSet ==
  {e \in [rev : Nat, key : Key, entry : Entry, prev : Entry \cup {None}] :
     e.entry.rev = e.rev}

\* Which set Only is given beyond the members of the sequence is immaterial.
LEMMA OnlySame ==
  ASSUME NEW X, NEW s \in Seq(X), NEW S, NEW T,
         \A n \in 1..Len(s) : s[n] \in S <=> s[n] \in T
  PROVE  Only(s, S) = Only(s, T)
<1> DEFINE P == {q \in Seq(X) : (\A n \in 1..Len(q) : q[n] \in S <=> q[n] \in T)
                                  => Only(q, S) = Only(q, T)}
<1>1. <<>> \in P
  BY OnlyEmpty
<1>2. ASSUME NEW q \in P, NEW x \in X PROVE Append(q, x) \in P
  <2> DEFINE t == Append(q, x)
  <2>1. t \in Seq(X) /\ Len(t) = Len(q) + 1 /\ t[Len(q) + 1] = x
        /\ Len(q) \in Nat /\ \A n \in 1..Len(q) : t[n] = q[n]
    BY AppendProperties
  <2>2. Only(t, S) = IF x \in S THEN Append(Only(q, S), x) ELSE Only(q, S)
    BY OnlyAppend
  <2>3. Only(t, T) = IF x \in T THEN Append(Only(q, T), x) ELSE Only(q, T)
    BY OnlyAppend
  <2> HIDE DEF t
  <2>4. SUFFICES ASSUME \A n \in 1..Len(t) : t[n] \in S <=> t[n] \in T
                 PROVE  Only(t, S) = Only(t, T)
    BY <2>1 DEF t
  <2>5. x \in S <=> x \in T
    BY <2>1, <2>4
  <2>6. Only(q, S) = Only(q, T)
    BY <2>1, <2>4
  <2> QED BY <2>2, <2>3, <2>5, <2>6
<1>3. P = Seq(X)
  <2> HIDE DEF P
  <2>1. P \in SUBSET Seq(X)
    BY DEF P
  <2> QED BY <1>1, <1>2, <2>1, SeqInduct
<1> QED BY <1>3

LEMMA OnlyType ==
  ASSUME NEW X, NEW s \in Seq(X), NEW S
  PROVE  Only(s, S) \in Seq(X) /\ \A n \in 1..Len(Only(s, S)) : Only(s, S)[n] \in S
<1> DEFINE P == {q \in Seq(X) : Only(q, S) \in Seq(X \cap S)}
<1>1. <<>> \in P
  <2>1. <<>> \in Seq(X) /\ <<>> \in Seq(X \cap S)
    OBVIOUS
  <2> QED BY <2>1, OnlyEmpty
<1>2. ASSUME NEW q \in P, NEW x \in X PROVE Append(q, x) \in P
  <2>1. Only(Append(q, x), S) =
          IF x \in S THEN Append(Only(q, S), x) ELSE Only(q, S)
    BY OnlyAppend
  <2>2. Append(q, x) \in Seq(X)
    OBVIOUS
  <2>3. x \in S => Append(Only(q, S), x) \in Seq(X \cap S)
    OBVIOUS
  <2> QED BY <2>1, <2>2, <2>3
<1>3. P = Seq(X)
  <2> HIDE DEF P
  <2>1. P \in SUBSET Seq(X)
    BY DEF P
  <2> QED BY <1>1, <1>2, <2>1, SeqInduct
<1>4. Only(s, S) \in Seq(X \cap S)
  BY <1>3
<1> QED BY <1>4

LEMMA OnlyConcat ==
  ASSUME NEW X, NEW s \in Seq(X), NEW t \in Seq(X), NEW S
  PROVE  Only(s \o t, S) = Only(s, S) \o Only(t, S)
<1> DEFINE P == {q \in Seq(X) : Only(s \o q, S) = Only(s, S) \o Only(q, S)}
<1>0. Only(s, S) \in Seq(X)
  BY OnlyType
<1>1. <<>> \in P
  BY <1>0, OnlyEmpty
<1>2. ASSUME NEW q \in P, NEW x \in X PROVE Append(q, x) \in P
  <2>1. Only(Append(q, x), S) =
          IF x \in S THEN Append(Only(q, S), x) ELSE Only(q, S)
    BY OnlyAppend
  <2>2. s \o q \in Seq(X) /\ s \o Append(q, x) = Append(s \o q, x)
    OBVIOUS
  <2>3. Only(Append(s \o q, x), S) =
          IF x \in S THEN Append(Only(s \o q, S), x) ELSE Only(s \o q, S)
    <3> DEFINE u == s \o q
    <3>1. u \in Seq(X)
      BY <2>2
    <3> HIDE DEF u
    <3>2. Only(Append(u, x), S) =
            IF x \in S THEN Append(Only(u, S), x) ELSE Only(u, S)
      BY <3>1, OnlyAppend
    <3> QED BY <3>2 DEF u
  <2>4. Only(q, S) \in Seq(X)
    BY OnlyType
  <2>5. Only(s, S) \o Append(Only(q, S), x) = Append(Only(s, S) \o Only(q, S), x)
    BY <1>0, <2>4
  <2>6. Only(s \o Append(q, x), S) = Only(s, S) \o Only(Append(q, x), S)
    BY <2>1, <2>2, <2>3, <2>5
  <2> QED BY <2>6
<1>3. P = Seq(X)
  <2> HIDE DEF P
  <2>1. P \in SUBSET Seq(X)
    BY DEF P
  <2> QED BY <1>1, <1>2, <2>1, SeqInduct
<1> QED BY <1>3

\* Choosing twice is choosing what both choose.
LEMMA OnlyOnly ==
  ASSUME NEW X, NEW s \in Seq(X), NEW S, NEW T
  PROVE  Only(Only(s, S), T) = Only(s, S \cap T)
<1> DEFINE P == {q \in Seq(X) : Only(Only(q, S), T) = Only(q, S \cap T)}
<1>1. <<>> \in P
  BY OnlyEmpty
<1>2. ASSUME NEW q \in P, NEW x \in X PROVE Append(q, x) \in P
  <2>1. Only(Append(q, x), S) =
          IF x \in S THEN Append(Only(q, S), x) ELSE Only(q, S)
    BY OnlyAppend
  <2>2. Only(q, S) \in Seq(X)
    BY OnlyType
  <2>3. Only(Append(Only(q, S), x), T) =
          IF x \in T THEN Append(Only(Only(q, S), T), x) ELSE Only(Only(q, S), T)
    <3>1. PICK r \in Seq(X) : r = Only(q, S)
      BY <2>2
    <3>2. Only(Append(r, x), T) =
            IF x \in T THEN Append(Only(r, T), x) ELSE Only(r, T)
      BY ONLY x \in X, OnlyAppend
    <3> QED BY <3>1, <3>2
  <2>4. Only(Append(q, x), S \cap T) =
          IF x \in S \cap T THEN Append(Only(q, S \cap T), x)
          ELSE Only(q, S \cap T)
    BY OnlyAppend
  <2>5. Append(q, x) \in Seq(X)
    OBVIOUS
  <2>6. Only(Only(q, S), T) = Only(q, S \cap T)
    OBVIOUS
  <2>7. Only(Only(Append(q, x), S), T) = Only(Append(q, x), S \cap T)
    <3>1. CASE x \notin S
      BY <2>1, <2>4, <2>6, <3>1
    <3>2. CASE x \in S /\ x \notin T
      <4>1. Only(Append(q, x), S) = Append(Only(q, S), x)
        BY <2>1, <3>2
      <4> QED BY <2>3, <2>4, <2>6, <3>2, <4>1
    <3>3. CASE x \in S /\ x \in T
      <4>1. Only(Append(q, x), S) = Append(Only(q, S), x)
        BY <2>1, <3>3
      <4> QED BY <2>3, <2>4, <2>6, <3>3, <4>1
    <3> QED BY <3>1, <3>2, <3>3
  <2> QED BY <2>5, <2>7
<1>3. P = Seq(X)
  <2> HIDE DEF P
  <2>1. P \in SUBSET Seq(X)
    BY DEF P
  <2> QED BY <1>1, <1>2, <2>1, SeqInduct
<1> QED BY <1>3

LEMMA OnlyAll ==
  ASSUME NEW X, NEW s \in Seq(X), NEW S, \A n \in 1..Len(s) : s[n] \in S
  PROVE  Only(s, S) = s
<1> DEFINE P == {q \in Seq(X \cap S) : Only(q, S) = q}
<1>1. <<>> \in P
  BY OnlyEmpty
<1>2. ASSUME NEW q \in P, NEW x \in X \cap S PROVE Append(q, x) \in P
  <2>1. q \in Seq(X \cap S) /\ Only(q, S) = q /\ Append(q, x) \in Seq(X \cap S)
    OBVIOUS
  <2>2. Only(Append(q, x), S) = Append(Only(q, S), x)
    <3>1. x \in S
      OBVIOUS
    <3>2. Only(Append(q, x), S) =
            IF x \in S THEN Append(Only(q, S), x) ELSE Only(q, S)
      <4>1. q \in Seq(X) /\ x \in X
        OBVIOUS
      <4> HIDE DEF P
      <4> QED BY <4>1, OnlyAppend
    <3> QED BY <3>1, <3>2
  <2> QED BY <2>1, <2>2
<1>3. P = Seq(X \cap S)
  <2> HIDE DEF P
  <2>1. P \in SUBSET Seq(X \cap S)
    BY DEF P
  <2> QED BY <1>1, <1>2, <2>1, SeqInduct
<1>4. s \in Seq(X \cap S)
  OBVIOUS
<1> QED BY <1>3, <1>4

LEMMA OnlyNone ==
  ASSUME NEW X, NEW s \in Seq(X), NEW S, \A n \in 1..Len(s) : s[n] \notin S
  PROVE  Only(s, S) = <<>>
<1> DEFINE P == {q \in Seq(X \ S) : Only(q, S) = <<>>}
<1>1. <<>> \in P
  BY OnlyEmpty
<1>2. ASSUME NEW q \in P, NEW x \in X \ S PROVE Append(q, x) \in P
  <2>1. q \in Seq(X \ S) /\ Only(q, S) = <<>> /\ Append(q, x) \in Seq(X \ S)
    OBVIOUS
  <2>2. Only(Append(q, x), S) = Only(q, S)
    <3>1. x \notin S
      OBVIOUS
    <3>2. Only(Append(q, x), S) =
            IF x \in S THEN Append(Only(q, S), x) ELSE Only(q, S)
      BY <2>1, OnlyAppend
    <3> QED BY <3>1, <3>2
  <2> QED BY <2>1, <2>2
<1>3. P = Seq(X \ S)
  <2> HIDE DEF P
  <2>1. P \in SUBSET Seq(X \ S)
    BY DEF P
  <2> QED BY <1>1, <1>2, <2>1, SeqInduct
<1>4. s \in Seq(X \ S)
  OBVIOUS
<1> QED BY <1>3, <1>4

\* Newer, as a choice from all entries or events there could be.
Above(X, r) == {e \in X : e.rev > r}

LEMMA NewerIs ==
  ASSUME NEW X, NEW s \in Seq(X), NEW r
  PROVE  Newer(s, r) = Only(s, Above(X, r))
<1>1. \A n \in 1..Len(s) : s[n] \in {e \in ToSet(s) : e.rev > r} <=>
                           s[n] \in Above(X, r)
  BY DEF ToSet, Above
<1> QED BY <1>1, OnlySame DEF Newer

LEMMA NewerType ==
  ASSUME NEW X, NEW s \in Seq(X), NEW r
  PROVE  Newer(s, r) \in Seq(X)
BY NewerIs, OnlyType

LEMMA NewerAppend ==
  ASSUME NEW X, NEW s \in Seq(X), NEW x \in X, NEW r
  PROVE  Newer(Append(s, x), r) =
           IF x.rev > r THEN Append(Newer(s, r), x) ELSE Newer(s, r)
<1>1. Append(s, x) \in Seq(X)
  OBVIOUS
<1>2. Newer(Append(s, x), r) = Only(Append(s, x), Above(X, r))
  <2> DEFINE t == Append(s, x)
  <2>1. t \in Seq(X)
    BY <1>1
  <2> HIDE DEF t
  <2>2. Newer(t, r) = Only(t, Above(X, r))
    BY <2>1, NewerIs
  <2> QED BY <2>2 DEF t
<1>3. Only(Append(s, x), Above(X, r)) =
        IF x \in Above(X, r) THEN Append(Only(s, Above(X, r)), x)
        ELSE Only(s, Above(X, r))
  BY OnlyAppend
<1>4. Newer(s, r) = Only(s, Above(X, r))
  BY NewerIs
<1>5. x \in Above(X, r) <=> x.rev > r
  BY DEF Above
<1> QED BY <1>2, <1>3, <1>4, <1>5

LEMMA NewerConcat ==
  ASSUME NEW X, NEW s \in Seq(X), NEW t \in Seq(X), NEW r
  PROVE  Newer(s \o t, r) = Newer(s, r) \o Newer(t, r)
<1>1. Newer(s \o t, r) = Only(s \o t, Above(X, r))
  <2> DEFINE u == s \o t
  <2>1. u \in Seq(X)
    OBVIOUS
  <2> HIDE DEF u
  <2>2. Newer(u, r) = Only(u, Above(X, r))
    BY <2>1, NewerIs
  <2> QED BY <2>2 DEF u
<1>2. Newer(s, r) = Only(s, Above(X, r)) /\ Newer(t, r) = Only(t, Above(X, r))
  BY NewerIs
<1>3. Only(s \o t, Above(X, r)) = Only(s, Above(X, r)) \o Only(t, Above(X, r))
  BY OnlyConcat
<1> QED BY <1>1, <1>2, <1>3

LEMMA NewerNewer ==
  ASSUME NEW X, \A x \in X : x.rev \in Nat, NEW s \in Seq(X),
         NEW a \in Nat, NEW b \in Nat, a <= b
  PROVE  Newer(Newer(s, a), b) = Newer(s, b)
<1>1. Newer(s, a) \in Seq(X) /\ Newer(s, a) = Only(s, Above(X, a))
  BY NewerIs, NewerType
<1>2. Newer(Newer(s, a), b) = Only(Newer(s, a), Above(X, b))
  <2> DEFINE u == Newer(s, a)
  <2>1. u \in Seq(X)
    BY <1>1
  <2> HIDE DEF u
  <2>2. Newer(u, b) = Only(u, Above(X, b))
    BY <2>1, NewerIs
  <2> QED BY <2>2 DEF u
<1>3. Above(X, a) \cap Above(X, b) = Above(X, b)
  BY DEF Above
<1>4. Only(Only(s, Above(X, a)), Above(X, b)) =
        Only(s, Above(X, a) \cap Above(X, b))
  BY OnlyOnly
<1>5. Newer(s, b) = Only(s, Above(X, b))
  BY NewerIs
<1> QED BY <1>1, <1>2, <1>3, <1>4, <1>5

LEMMA NewerAll ==
  ASSUME NEW X, NEW s \in Seq(X), NEW r, \A n \in 1..Len(s) : s[n].rev > r
  PROVE  Newer(s, r) = s
<1>1. \A n \in 1..Len(s) : s[n] \in Above(X, r)
  BY DEF Above
<1>2. Newer(s, r) = Only(s, Above(X, r))
  BY NewerIs
<1> QED BY <1>1, <1>2, OnlyAll

LEMMA NewerNone ==
  ASSUME NEW X, NEW s \in Seq(X), NEW r, \A n \in 1..Len(s) : ~(s[n].rev > r)
  PROVE  Newer(s, r) = <<>>
<1>1. \A n \in 1..Len(s) : s[n] \notin Above(X, r)
  BY DEF Above
<1>2. Newer(s, r) = Only(s, Above(X, r))
  BY NewerIs
<1> QED BY <1>1, <1>2, OnlyNone

OfKey(k) == {e \in EventSet : e.key = k}

LEMMA EntriesAre ==
  ASSUME NEW evs \in Seq(EventSet), NEW k
  PROVE  /\ EntriesOf(evs, k) = [n \in DOMAIN Only(evs, OfKey(k)) |->
                                   Only(evs, OfKey(k))[n].entry]
         /\ Only(evs, OfKey(k)) \in Seq(EventSet)
<1>1. \A n \in 1..Len(evs) : evs[n] \in {e \in ToSet(evs) : e.key = k} <=>
                             evs[n] \in OfKey(k)
  BY DEF ToSet, OfKey
<1>2. Only(evs, {e \in ToSet(evs) : e.key = k}) = Only(evs, OfKey(k))
  BY <1>1, OnlySame
<1> QED BY <1>2, OnlyType DEF EntriesOf

LEMMA EntriesEmpty ==
  ASSUME NEW k PROVE EntriesOf(<<>>, k) = <<>>
BY OnlyEmpty DEF EntriesOf

LEMMA EntriesType ==
  ASSUME NEW evs \in Seq(EventSet), NEW k
  PROVE  EntriesOf(evs, k) \in Seq(Entry)
<1> DEFINE mine == Only(evs, OfKey(k))
<1>1. mine \in Seq(EventSet)
  BY EntriesAre
<1>2. EntriesOf(evs, k) = [n \in DOMAIN mine |-> mine[n].entry]
  BY EntriesAre
<1> HIDE DEF mine
<1>3. DOMAIN mine = 1..Len(mine) /\ Len(mine) \in Nat
      /\ \A n \in 1..Len(mine) : mine[n].entry \in Entry
  BY <1>1 DEF EventSet
<1> QED BY <1>2, <1>3

LEMMA EntriesAppend ==
  ASSUME NEW evs \in Seq(EventSet), NEW e \in EventSet, NEW k
  PROVE  EntriesOf(Append(evs, e), k) =
           IF e.key = k THEN Append(EntriesOf(evs, k), e.entry)
           ELSE EntriesOf(evs, k)
<1> DEFINE all == Append(evs, e)
           mine == Only(evs, OfKey(k))
           more == Only(all, OfKey(k))
<1>1. all \in Seq(EventSet)
  OBVIOUS
<1>2. more = IF e \in OfKey(k) THEN Append(mine, e) ELSE mine
  BY OnlyAppend
<1>3. mine \in Seq(EventSet)
      /\ EntriesOf(evs, k) = [n \in DOMAIN mine |-> mine[n].entry]
  BY EntriesAre
<1>4. EntriesOf(all, k) = [n \in DOMAIN more |-> more[n].entry]
  <2> HIDE DEF all
  <2> QED BY <1>1, EntriesAre
<1>5. e \in OfKey(k) <=> e.key = k
  BY DEF OfKey
<1> HIDE DEF all, mine, more
<1>6. CASE e.key # k
  BY <1>2, <1>3, <1>4, <1>5, <1>6 DEF all
<1>7. CASE e.key = k
  <2>1. more = Append(mine, e)
    BY <1>2, <1>5, <1>7
  <2> DEFINE a == EntriesOf(all, k)
             b == Append(EntriesOf(evs, k), e.entry)
  <2>2. EntriesOf(evs, k) \in Seq(Entry) /\ e.entry \in Entry
    BY EntriesType DEF EventSet
  <2>3. Len(mine) \in Nat /\ Len(EntriesOf(evs, k)) = Len(mine)
        /\ \A n \in 1..Len(mine) : EntriesOf(evs, k)[n] = mine[n].entry
    BY <1>3
  <2>4. Len(more) = Len(mine) + 1 /\ more[Len(mine) + 1] = e
        /\ more \in Seq(EventSet)
        /\ \A n \in 1..Len(mine) : more[n] = mine[n]
    BY <1>3, <2>1, AppendProperties
  <2>5. a \in Seq(Entry) /\ Len(a) = Len(more)
        /\ \A n \in 1..Len(more) : a[n] = more[n].entry
    <3>1. a \in Seq(Entry)
      BY <1>1, EntriesType
    <3> QED BY <1>4, <2>4, <3>1
  <2>6. b \in Seq(Entry) /\ Len(b) = Len(mine) + 1 /\ b[Len(mine) + 1] = e.entry
        /\ \A n \in 1..Len(mine) : b[n] = mine[n].entry
    BY <2>2, <2>3, AppendProperties
  <2> HIDE DEF a, b
  <2>7. \A n \in 1..(Len(mine) + 1) : a[n] = b[n]
    <3> SUFFICES ASSUME NEW n \in 1..(Len(mine) + 1) PROVE a[n] = b[n]
      OBVIOUS
    <3>1. CASE n = Len(mine) + 1
      BY <2>3, <2>4, <2>5, <2>6, <3>1
    <3>2. CASE n # Len(mine) + 1
      <4>1. n \in 1..Len(mine) /\ n \in 1..Len(more)
        BY <2>3, <2>4, <3>2
      <4> QED BY <2>4, <2>5, <2>6, <4>1
    <3> QED BY <3>1, <3>2
  <2>8. a = b
    BY <2>4, <2>5, <2>6, <2>7, SameSeq
  <2> QED BY <1>7, <2>8 DEF a, b, all
<1> QED BY <1>6, <1>7

LEMMA EntriesConcat ==
  ASSUME NEW s \in Seq(EventSet), NEW t \in Seq(EventSet), NEW k
  PROVE  EntriesOf(s \o t, k) = EntriesOf(s, k) \o EntriesOf(t, k)
<1> DEFINE P == {q \in Seq(EventSet) :
                   EntriesOf(s \o q, k) = EntriesOf(s, k) \o EntriesOf(q, k)}
<1>0. EntriesOf(s, k) \in Seq(Entry)
  BY EntriesType
<1>1. <<>> \in P
  BY <1>0, EntriesEmpty
<1>2. ASSUME NEW q \in P, NEW e \in EventSet PROVE Append(q, e) \in P
  <2> DEFINE u == s \o q
  <2>1. /\ u \in Seq(EventSet) /\ s \o Append(q, e) = Append(u, e)
        /\ Append(q, e) \in Seq(EventSet) /\ q \in Seq(EventSet)
        /\ EntriesOf(u, k) = EntriesOf(s, k) \o EntriesOf(q, k)
    <3>1. q \in Seq(EventSet)
          /\ EntriesOf(u, k) = EntriesOf(s, k) \o EntriesOf(q, k)
      BY <1>2
    <3>2. u \in Seq(EventSet) /\ Append(q, e) \in Seq(EventSet)
      BY <3>1
    <3>3. s \o Append(q, e) = Append(u, e)
      BY ONLY s \in Seq(EventSet), <1>2, <3>1, AppendConcat DEF Longer
    <3> QED BY <3>1, <3>2, <3>3
  <2> HIDE DEF u
  <2>2. EntriesOf(Append(u, e), k) = IF e.key = k
          THEN Append(EntriesOf(u, k), e.entry) ELSE EntriesOf(u, k)
    <3>1. PICK w \in Seq(EventSet) : w = u
      BY <2>1
    <3>2. EntriesOf(Append(w, e), k) = IF e.key = k
            THEN Append(EntriesOf(w, k), e.entry) ELSE EntriesOf(w, k)
      BY ONLY e \in EventSet, EntriesAppend
    <3> QED BY <3>1, <3>2
  <2>3. EntriesOf(Append(q, e), k) = IF e.key = k
          THEN Append(EntriesOf(q, k), e.entry) ELSE EntriesOf(q, k)
    <3>1. q \in Seq(EventSet)
      BY <2>1
    <3> QED BY ONLY <3>1, e \in EventSet, EntriesAppend
  <2>4. EntriesOf(q, k) \in Seq(Entry) /\ e.entry \in Entry
    BY <2>1, EntriesType DEF EventSet
  <2>5. EntriesOf(s, k) \o Append(EntriesOf(q, k), e.entry) =
          Append(EntriesOf(s, k) \o EntriesOf(q, k), e.entry)
    BY <1>0, <2>4
  <2>6. EntriesOf(s \o Append(q, e), k) =
          EntriesOf(s, k) \o EntriesOf(Append(q, e), k)
    BY <2>1, <2>2, <2>3, <2>5
  <2> QED BY <2>1, <2>6
<1>3. P = Seq(EventSet)
  <2> HIDE DEF P
  <2>1. P \in SUBSET Seq(EventSet)
    BY DEF P
  <2> QED BY <1>1, <1>2, <2>1, SeqInduct
<1> QED BY <1>3

\* It does not matter whether the events are sorted out by key or by
\* revision first.
LEMMA EntriesNewer ==
  ASSUME NEW s \in Seq(EventSet), NEW k, NEW r
  PROVE  EntriesOf(Newer(s, r), k) = Newer(EntriesOf(s, k), r)
<1> DEFINE P == {q \in Seq(EventSet) :
                   EntriesOf(Newer(q, r), k) = Newer(EntriesOf(q, k), r)}
<1>1. <<>> \in P
  BY OnlyEmpty, EntriesEmpty DEF Newer
<1>2. ASSUME NEW q \in P, NEW e \in EventSet PROVE Append(q, e) \in P
  <2>1. q \in Seq(EventSet) /\ Append(q, e) \in Seq(EventSet)
        /\ EntriesOf(Newer(q, r), k) = Newer(EntriesOf(q, k), r)
    OBVIOUS
  <2>2. e.entry \in Entry /\ e.entry.rev = e.rev
    BY DEF EventSet
  <2>3. Newer(q, r) \in Seq(EventSet) /\ EntriesOf(q, k) \in Seq(Entry)
    BY <2>1, NewerType, EntriesType
  <2> DEFINE nq == Newer(q, r)
             eq == EntriesOf(q, k)
  <2>4. Newer(Append(q, e), r) = IF e.rev > r THEN Append(nq, e) ELSE nq
    BY <2>1, NewerAppend
  <2>5. EntriesOf(Append(q, e), k) =
          IF e.key = k THEN Append(eq, e.entry) ELSE eq
    BY <2>1, EntriesAppend
  <2> HIDE DEF nq, eq
  <2>6. EntriesOf(Append(nq, e), k) =
          IF e.key = k THEN Append(EntriesOf(nq, k), e.entry)
          ELSE EntriesOf(nq, k)
    BY <2>3, EntriesAppend DEF nq
  <2>7. Newer(Append(eq, e.entry), r) =
          IF e.entry.rev > r THEN Append(Newer(eq, r), e.entry)
          ELSE Newer(eq, r)
    BY <2>2, <2>3, NewerAppend DEF eq
  <2>8. EntriesOf(nq, k) = Newer(eq, r)
    BY <2>1 DEF nq, eq
  <2>9. EntriesOf(Newer(Append(q, e), r), k) =
          Newer(EntriesOf(Append(q, e), k), r)
    <3>1. CASE e.rev > r /\ e.key = k
      BY <2>2, <2>4, <2>5, <2>6, <2>7, <2>8, <3>1
    <3>2. CASE e.rev > r /\ e.key # k
      BY <2>2, <2>4, <2>5, <2>6, <2>7, <2>8, <3>2
    <3>3. CASE ~(e.rev > r)
      BY <2>2, <2>4, <2>5, <2>7, <2>8, <3>3
    <3> QED BY <3>1, <3>2, <3>3
  <2> QED BY <2>1, <2>9
<1>3. P = Seq(EventSet)
  <2> HIDE DEF P
  <2>1. P \in SUBSET Seq(EventSet)
    BY DEF P
  <2> QED BY <1>1, <1>2, <2>1, SeqInduct
<1> QED BY <1>3

-----------------------------------------------------------------------------
(* A batch, write by write.                                                *)

LeaseTable == UNION {[D -> SUBSET Key] : D \in SUBSET Nat}

StoreSet == [keys : [Key -> Seq(Entry)], events : Seq(EventSet),
             leases : LeaseTable, failed : BOOLEAN]

\* st is the store with the events new written to it at revision rev.
Wrote(st, new, rev) ==
  /\ new \in Seq(EventSet)
  /\ \A n \in 1..Len(new) : new[n].rev = rev
  /\ st.events = events \o new
  /\ \A k \in Key : st.keys[k] = keys[k] \o EntriesOf(new, k)

Started(chain) ==
  chain # <<>> /\ chain[1].deleted => chain[1].rev <= compactRevision

Batch(st, rev) ==
  /\ st \in StoreSet /\ DOMAIN st.leases = DOMAIN leases
  /\ \E new : Wrote(st, new, rev)
  /\ \A k \in Key : /\ Started(st.keys[k])
                    /\ \A n \in 1..Len(st.keys[k]) : st.keys[k][n].rev <= rev

\* What the inductive invariant says of the store a batch begins with.
Ready ==
  /\ revision \in Nat /\ compactRevision \in 0..revision
  /\ keys \in [Key -> Seq(Entry)] /\ events \in Seq(EventSet)
  /\ leases \in LeaseTable
  /\ \A k \in Key : /\ Started(keys[k])
                    /\ \A n \in 1..Len(keys[k]) : keys[k][n].rev <= revision

LEMMA MaxIs ==
  ASSUME NEW b \in Nat, NEW S \in SUBSET (1..b), S # {}
  PROVE  Max(S) \in S /\ \A n \in S : n <= Max(S)
<1> DEFINE T == {m \in Nat : \A n \in S : n <= m}
<1>1. b \in T
  OBVIOUS
<1>2. PICK m \in T : \A n \in T : m <= n
  <2>1. T \in SUBSET Nat /\ T # {}
    BY <1>1
  <2> HIDE DEF T
  <2> QED BY <2>1, LeastNatural
<1>3. m \in S
  <2> SUFFICES ASSUME m \notin S PROVE FALSE
    OBVIOUS
  <2>1. PICK n \in S : n \in 1..b
    OBVIOUS
  <2>2. m \in Nat /\ m >= 1
    BY <1>2, <2>1
  <2>3. \A i \in S : i \in Nat /\ i <= m /\ i # m
    BY <1>2
  <2>4. m - 1 \in T
    BY <2>2, <2>3
  <2> QED BY <1>2, <2>2, <2>4
<1>4. \A n \in S : m >= n
  BY <1>2
<1>5. \E x \in S : \A n \in S : x >= n
  BY <1>3, <1>4
<1>6. Max(S) \in S /\ \A n \in S : Max(S) >= n
  <2> HIDE DEF T
  <2> QED BY <1>5 DEF Max
<1> QED BY <1>6

\* What a read finds, if anything, is an entry of the chain.
LEMMA EntryAtIsEntry ==
  ASSUME NEW chain \in Seq(Entry), NEW rev, EntryAt(chain, rev) # None
  PROVE  /\ chain # <<>>
         /\ \E n \in 1..Len(chain) : EntryAt(chain, rev) = chain[n]
<1> DEFINE S == {n \in DOMAIN chain : rev = 0 \/ chain[n].rev <= rev}
<1>1. Len(chain) \in Nat /\ DOMAIN chain = 1..Len(chain)
  OBVIOUS
<1>2. S \in SUBSET (1..Len(chain))
  BY <1>1
<1>3. S # {} /\ EntryAt(chain, rev) = chain[Max(S)]
  BY DEF EntryAt
<1>4. Max(S) \in S
  <2> HIDE DEF S
  <2> QED BY <1>1, <1>2, <1>3, MaxIs
<1>5. chain # <<>>
  BY <1>2, <1>3
<1> HIDE DEF S
<1> QED BY <1>2, <1>3, <1>4, <1>5

LEMMA AttachType ==
  ASSUME NEW lss \in LeaseTable, NEW k \in Key, NEW from, NEW to
  PROVE  /\ Attach(lss, k, from, to) \in LeaseTable
         /\ DOMAIN Attach(lss, k, from, to) = DOMAIN lss
<1>1. PICK D \in SUBSET Nat : lss \in [D -> SUBSET Key]
  BY DEF LeaseTable
<1>2. Attach(lss, k, from, to) \in [D -> SUBSET Key]
      /\ DOMAIN Attach(lss, k, from, to) = DOMAIN lss
  BY <1>1 DEF Attach
<1> QED BY <1>2 DEF LeaseTable

\* The batch goes on: an entry for one key and its event.
LEMMA WriteOne ==
  ASSUME Ready, NEW rev, rev = revision + 1, NEW st, Batch(st, rev),
         NEW k \in Key, NEW entry \in Entry, entry.rev = rev,
         NEW old \in Entry \cup {None},
         st.keys[k] = <<>> => ~entry.deleted,
         NEW lss \in LeaseTable, DOMAIN lss = DOMAIN leases, NEW next,
         next = [st EXCEPT !.keys[k] = Append(@, entry),
                           !.events = Append(@, Event(rev, k, entry, old)),
                           !.leases = lss]
  PROVE  Batch(next, rev)
<1> DEFINE e == Event(rev, k, entry, old)
<1>1. PICK new : Wrote(st, new, rev)
  BY DEF Batch
<1>2. rev \in Nat /\ e \in EventSet /\ e.key = k /\ e.rev = rev /\ e.entry = entry
  BY DEF Ready, EventSet, Event
<1>3. st.keys \in [Key -> Seq(Entry)] /\ st.events \in Seq(EventSet)
  BY DEF Batch, StoreSet
<1>4. /\ next.keys = [st.keys EXCEPT ![k] = Append(@, entry)]
      /\ next.events = Append(st.events, e)
  BY DEF Batch, StoreSet
<1>5. next \in StoreSet
  <2>1. Append(st.events, e) \in Seq(EventSet)
    BY <1>2, <1>3
  <2>2. [st.keys EXCEPT ![k] = Append(@, entry)] \in [Key -> Seq(Entry)]
    BY <1>3
  <2> HIDE DEF e
  <2> QED BY <2>1, <2>2 DEF Batch, StoreSet, e
<1> HIDE DEF e
<1> DEFINE more == Append(new, e)
<1>6. new \in Seq(EventSet) /\ more \in Seq(EventSet) /\ Len(more) = Len(new) + 1
      /\ Len(new) \in Nat
      /\ more[Len(new) + 1] = e /\ \A n \in 1..Len(new) : more[n] = new[n]
  BY <1>1, <1>2, AppendProperties DEF Wrote
<1>7. \A n \in 1..Len(more) : more[n].rev = rev
  <2> SUFFICES ASSUME NEW n \in 1..Len(more) PROVE more[n].rev = rev
    OBVIOUS
  <2> HIDE DEF more
  <2>1. n = Len(new) + 1 \/ n \in 1..Len(new)
    BY <1>6
  <2> QED BY <1>1, <1>2, <1>6, <2>1 DEF Wrote
<1>8. next.events = events \o more
  <2>1. next.events = Append(events \o new, e)
    BY <1>1, <1>4 DEF Wrote
  <2>2. events \in Seq(EventSet)
    BY DEF Ready
  <2>3. Append(events \o new, e) = events \o Append(new, e)
    <3>1. e \in EventSet /\ new \in Seq(EventSet)
      BY <1>2, <1>6
    <3>2. Longer(events, new, e)
      BY <2>2, <3>1, AppendConcat
    <3> QED BY <3>2 DEF Longer
  <2> QED BY <2>1, <2>3
<1>9. \A x \in Key : next.keys[x] = keys[x] \o EntriesOf(more, x)
  <2> SUFFICES ASSUME NEW x \in Key
               PROVE  next.keys[x] = keys[x] \o EntriesOf(more, x)
    OBVIOUS
  <2>1. EntriesOf(more, x) = IF e.key = x THEN Append(EntriesOf(new, x), e.entry)
                             ELSE EntriesOf(new, x)
    BY <1>2, <1>6, EntriesAppend
  <2>2. EntriesOf(new, x) \in Seq(Entry) /\ keys[x] \in Seq(Entry)
        /\ st.keys[x] = keys[x] \o EntriesOf(new, x)
    BY <1>1, <1>6, EntriesType DEF Ready, Wrote
  <2> HIDE DEF more
  <2>3. CASE x # k
    BY <1>2, <1>3, <1>4, <2>1, <2>2, <2>3
  <2>4. CASE x = k
    <3>1. next.keys[x] = Append(keys[x] \o EntriesOf(new, x), entry)
      BY <1>3, <1>4, <2>2, <2>4
    <3>2. EntriesOf(more, x) = Append(EntriesOf(new, x), entry)
      BY <1>2, <2>1, <2>4
    <3> DEFINE c == keys[x]
               d == EntriesOf(new, x)
    <3>3. c \in Seq(Entry) /\ d \in Seq(Entry) /\ entry \in Entry
      BY <2>2
    <3> HIDE DEF c, d
    <3>4. Append(c \o d, entry) = c \o Append(d, entry)
      <4>1. Longer(c, d, entry)
        BY <3>3, AppendConcat
      <4> QED BY <4>1 DEF Longer
    <3> QED BY <3>1, <3>2, <3>4 DEF c, d
  <2> QED BY <2>3, <2>4
<1>10. Wrote(next, more, rev)
  <2> HIDE DEF more
  <2> QED BY <1>6, <1>7, <1>8, <1>9 DEF Wrote
<1>11. \A x \in Key : /\ Started(next.keys[x])
                      /\ \A n \in 1..Len(next.keys[x]) : next.keys[x][n].rev <= rev
  <2> SUFFICES ASSUME NEW x \in Key
               PROVE  /\ Started(next.keys[x])
                      /\ \A n \in 1..Len(next.keys[x]) : next.keys[x][n].rev <= rev
    OBVIOUS
  <2>1. Started(st.keys[x])
        /\ \A n \in 1..Len(st.keys[x]) : st.keys[x][n].rev <= rev
    BY DEF Batch
  <2>2. CASE x # k
    <3>1. next.keys[x] = st.keys[x]
      BY <1>3, <1>4, <2>2
    <3> QED BY <2>1, <3>1
  <2>3. CASE x = k
    <3> DEFINE chain == st.keys[k]
               longer == next.keys[x]
    <3>1. chain \in Seq(Entry) /\ longer = Append(chain, entry)
      BY <1>3, <1>4, <2>3
    <3>2. chain = <<>> => ~entry.deleted
      OBVIOUS
    <3>3. Started(chain) /\ \A n \in 1..Len(chain) : chain[n].rev <= rev
      BY <2>1, <2>3
    <3> HIDE DEF chain, longer
    <3>4. Len(chain) \in Nat /\ Len(longer) = Len(chain) + 1
          /\ longer[Len(chain) + 1] = entry
          /\ \A n \in 1..Len(chain) : longer[n] = chain[n]
      BY <3>1, AppendProperties
    <3>5. \A n \in 1..Len(longer) : longer[n].rev <= rev
      <4> SUFFICES ASSUME NEW n \in 1..Len(longer) PROVE longer[n].rev <= rev
        OBVIOUS
      <4>1. n = Len(chain) + 1 \/ n \in 1..Len(chain)
        BY <3>4
      <4> QED BY <1>2, <3>3, <3>4, <4>1
    <3>6. Started(longer)
      <4>1. CASE chain = <<>>
        <5>1. longer[1] = entry
          BY <3>1, <3>4, <4>1
        <5> QED BY <3>2, <4>1, <5>1 DEF Started
      <4>2. CASE chain # <<>>
        <5>1. 1 \in 1..Len(chain)
          BY <3>1, <4>2
        <5> QED BY <3>3, <3>4, <4>2, <5>1 DEF Started
      <4> QED BY <4>1, <4>2
    <3> QED BY <3>5, <3>6 DEF longer
  <2> QED BY <2>2, <2>3
<1>12. next.leases = lss
  BY DEF Batch, StoreSet
<1> HIDE DEF more
<1> QED BY <1>5, <1>10, <1>11, <1>12 DEF Batch

LEMMA PutKeepsBatch ==
  ASSUME Ready, NEW rev, rev = revision + 1, NEW st, Batch(st, rev),
         NEW op \in [op : {"put"}, key : Key, value : Nat, lease : Nat,
                     ignoreValue : BOOLEAN, ignoreLease : BOOLEAN]
  PROVE  Batch(PutAt(st, rev, op), rev)
<1> DEFINE k == op.key
           old == EntryAt(st.keys[op.key], 0)
           entry == [rev |-> rev,
                     value |-> IF op.ignoreValue /\ old # None THEN old.value
                               ELSE op.value,
                     version |-> IF old = None THEN 1 ELSE old.version + 1,
                     createRevision |-> IF old = None THEN rev
                                        ELSE old.createRevision,
                     lease |-> IF op.ignoreLease /\ old # None THEN old.lease
                               ELSE op.lease,
                     deleted |-> FALSE]
           from == IF old = None THEN 0 ELSE old.lease
           lss == Attach(st.leases, k, from, entry.lease)
           next == [st EXCEPT !.keys[k] = Append(@, entry),
                              !.events = Append(@, Event(rev, k, entry, old)),
                              !.leases = lss]
           refused == [st EXCEPT !.failed = TRUE]
<1>1. k \in Key /\ rev \in Nat /\ st \in StoreSet /\ st.keys[k] \in Seq(Entry)
      /\ st.leases \in LeaseTable /\ DOMAIN st.leases = DOMAIN leases
  BY DEF Ready, Batch, StoreSet
<1>2. PutAt(st, rev, op) = IF entry.lease # 0 /\ entry.lease \notin DOMAIN st.leases
                           THEN refused ELSE next
  BY <1>1 DEF PutAt, StoreSet
<1>3. old # None => old \in Entry /\ old.rev <= rev
  <2> SUFFICES ASSUME old # None PROVE old \in Entry /\ old.rev <= rev
    OBVIOUS
  <2> DEFINE chain == st.keys[k]
  <2>1. chain \in Seq(Entry) /\ \A n \in 1..Len(chain) : chain[n].rev <= rev
    BY <1>1 DEF Batch
  <2>2. EntryAt(chain, 0) # None /\ old = EntryAt(chain, 0)
    OBVIOUS
  <2> HIDE DEF chain, old
  <2>3. PICK n \in 1..Len(chain) : EntryAt(chain, 0) = chain[n]
    BY <2>1, <2>2, EntryAtIsEntry
  <2> QED BY <2>1, <2>2, <2>3
<1>4. entry \in Entry /\ entry.rev = rev /\ ~entry.deleted
  <2> HIDE DEF old
  <2>1. CASE old = None
    BY <1>1, <2>1 DEF Entry
  <2>2. CASE old # None
    <3>1. old \in [rev : Nat, value : Nat, version : Nat, createRevision : Nat,
                   lease : Nat, deleted : BOOLEAN]
          /\ old.createRevision <= rev
      BY <1>1, <1>3, <2>2 DEF Entry
    <3>2. /\ old.value \in Nat /\ old.version + 1 \in Nat
          /\ old.createRevision \in Nat /\ old.lease \in Nat
          /\ op.value \in Nat /\ op.lease \in Nat
      BY <3>1
    <3>3. entry.createRevision = old.createRevision
      BY <2>2
    <3>4. entry \in [rev : Nat, value : Nat, version : Nat,
                     createRevision : Nat, lease : Nat, deleted : BOOLEAN]
      BY <1>1, <2>2, <3>2
    <3>5. entry.createRevision <= entry.rev
      BY <3>1, <3>3
    <3> QED BY <3>4, <3>5 DEF Entry
  <2> QED BY <2>1, <2>2
<1>5. Batch(refused, rev)
  <2>1. refused \in StoreSet /\ refused.keys = st.keys
        /\ refused.events = st.events /\ refused.leases = st.leases
    BY <1>1 DEF StoreSet
  <2> HIDE DEF refused
  <2> HIDE DEF next, entry, from, old, lss
  <2>2. \A new : Wrote(st, new, rev) => Wrote(refused, new, rev)
    BY <2>1 DEF Wrote
  <2> QED BY <2>1, <2>2 DEF Batch
<1>6. Batch(next, rev)
  <2>1. lss \in LeaseTable /\ DOMAIN lss = DOMAIN leases
    <3> HIDE DEF from, entry
    <3> QED BY <1>1, AttachType
  <2>2. old \in Entry \cup {None}
    BY <1>3
  <2> DEFINE n == next
  <2>3. n = [st EXCEPT !.keys[k] = Append(@, entry),
                       !.events = Append(@, Event(rev, k, entry, old)),
                       !.leases = lss]
    OBVIOUS
  <2> HIDE DEF n, lss, entry, old, k
  <2>4. Batch(n, rev)
    BY <1>1, <1>4, <2>1, <2>2, <2>3, WriteOne
  <2> QED BY <2>4 DEF n, lss, entry, old, k
<1> HIDE DEF next, refused, entry
<1> QED BY <1>2, <1>5, <1>6

LEMMA DeleteOneKeepsBatch ==
  ASSUME Ready, NEW rev, rev = revision + 1, NEW st, Batch(st, rev),
         NEW k \in Key
  PROVE  Batch(DeleteOne(st, rev, k), rev)
<1> DEFINE chain == st.keys[k]
           old == EntryAt(chain, 0)
           entry == Tombstone(rev)
           lss == Attach(st.leases, k, old.lease, 0)
           next == [st EXCEPT !.keys[k] = Append(@, entry),
                              !.events = Append(@, Event(rev, k, entry, old)),
                              !.leases = lss]
<1>1. rev \in Nat /\ st \in StoreSet /\ chain \in Seq(Entry)
      /\ st.leases \in LeaseTable /\ DOMAIN st.leases = DOMAIN leases
  BY DEF Ready, Batch, StoreSet
<1>2. DeleteOne(st, rev, k) = IF old = None THEN st ELSE next
  BY <1>1 DEF DeleteOne, StoreSet
<1>3. CASE old = None
  BY <1>2, <1>3
<1>4. CASE old # None
  <2>1. old \in Entry /\ chain # <<>>
    <3> HIDE DEF chain
    <3>1. chain # <<>> /\ \E n \in 1..Len(chain) : old = chain[n]
      BY <1>1, <1>4, EntryAtIsEntry
    <3> HIDE DEF old
    <3> QED BY <1>1, <3>1
  <2>2. entry \in Entry /\ entry.rev = rev
    BY <1>1 DEF Entry, Tombstone
  <2>3. lss \in LeaseTable /\ DOMAIN lss = DOMAIN leases
    <3> HIDE DEF old
    <3> QED BY <1>1, AttachType
  <2> DEFINE n == next
  <2>4. n = [st EXCEPT !.keys[k] = Append(@, entry),
                       !.events = Append(@, Event(rev, k, entry, old)),
                       !.leases = lss]
    OBVIOUS
  <2>5. st.keys[k] # <<>>
    BY <2>1
  <2> HIDE DEF n, lss, entry, old, chain
  <2>6. Batch(n, rev)
    BY <2>1, <2>2, <2>3, <2>4, <2>5, WriteOne
  <2>7. Batch(next, rev)
    BY <2>6 DEF n, lss, entry, old, chain
  <2> HIDE DEF next
  <2> QED BY <1>2, <1>4, <2>7 DEF old, chain
<1> QED BY <1>3, <1>4

-----------------------------------------------------------------------------
(* The walks over the keys of a deletion and the operations of a batch.    *)

DeleteStep(f, st, rev, ks, k) ==
  IF k = 0 THEN st
  ELSE IF k \in ks THEN DeleteOne(f[k - 1], rev, k) ELSE f[k - 1]
DeleteWalk(f, st, rev, ks, b) == f = [k \in 0..b |-> DeleteStep(f, st, rev, ks, k)]

LEMMA DeleteWalkExists ==
  ASSUME NEW st, NEW rev, NEW ks, NEW b \in Nat
  PROVE  \E f : DeleteWalk(f, st, rev, ks, b)
<1> DEFINE P == {n \in 0..b : \E f : DeleteWalk(f, st, rev, ks, n)}
<1>1. 0 \in P
  <2> DEFINE g == [n \in 0..0 |-> st]
  <2>1. DeleteWalk(g, st, rev, ks, 0)
    BY DEF DeleteWalk, DeleteStep
  <2> HIDE DEF g
  <2> QED BY <2>1
<1>2. ASSUME NEW n \in 1..b, n - 1 \in P PROVE n \in P
  <2>1. PICK f : DeleteWalk(f, st, rev, ks, n - 1)
    BY <1>2
  <2> DEFINE g == [k \in 0..n |-> DeleteStep(f, st, rev, ks, k)]
  <2>2. \A k \in 0..(n - 1) : g[k] = f[k]
    BY <2>1 DEF DeleteWalk
  <2>3. \A k \in 0..n : k # 0 => k - 1 \in 0..(n - 1)
    OBVIOUS
  <2>4. DeleteWalk(g, st, rev, ks, n)
    BY <2>2, <2>3 DEF DeleteWalk, DeleteStep
  <2> HIDE DEF g
  <2> QED BY <2>4
<1>3. P = 0..b
  <2> HIDE DEF P
  <2>1. P \in SUBSET (0..b)
    BY DEF P
  <2> QED BY <1>1, <1>2, <2>1, UpToInduct
<1> QED BY <1>3

LEMMA DeleteKeepsBatch ==
  ASSUME Ready, NEW rev, rev = revision + 1, NEW st, Batch(st, rev), NEW ks
  PROVE  Batch(DeleteAt(st, rev, ks), rev)
<1> DEFINE f == CHOOSE h : DeleteWalk(h, st, rev, ks, LastKey)
<1>1. DeleteWalk(f, st, rev, ks, LastKey)
  <2>1. \E h : DeleteWalk(h, st, rev, ks, LastKey)
    BY KeyAssumption, DeleteWalkExists
  <2> QED BY <2>1
<1>2. DeleteAt(st, rev, ks) = f[LastKey]
  BY DEF DeleteAt, DeleteWalk, DeleteStep
<1> HIDE DEF f
<1> DEFINE P == {n \in 0..LastKey : Batch(f[n], rev)}
<1>3. 0 \in P
  <2>1. 0 \in 0..LastKey
    BY KeyAssumption
  <2> QED BY <1>1, <2>1 DEF DeleteWalk, DeleteStep
<1>4. ASSUME NEW n \in 1..LastKey, n - 1 \in P PROVE n \in P
  <2>1. n \in 0..LastKey /\ n # 0 /\ n \in Key
    BY KeyAssumption DEF Key
  <2>2. f[n] = IF n \in ks THEN DeleteOne(f[n - 1], rev, n) ELSE f[n - 1]
    BY <1>1, <2>1 DEF DeleteWalk, DeleteStep
  <2>3. Batch(f[n - 1], rev)
    BY <1>4
  <2>4. Batch(DeleteOne(f[n - 1], rev, n), rev)
    <3> DEFINE before == f[n - 1]
    <3>1. Batch(before, rev)
      BY <2>3
    <3> HIDE DEF before
    <3>2. Batch(DeleteOne(before, rev, n), rev)
      BY <2>1, <3>1, DeleteOneKeepsBatch
    <3> QED BY <3>2 DEF before
  <2> QED BY <2>1, <2>2, <2>3, <2>4
<1>5. P = 0..LastKey
  <2> HIDE DEF P
  <2>1. P \in SUBSET (0..LastKey)
    BY DEF P
  <2> QED BY <1>3, <1>4, <2>1, KeyAssumption, UpToInduct
<1> QED BY <1>2, <1>5, KeyAssumption

LEMMA ApplyKeepsBatch ==
  ASSUME Ready, NEW rev, rev = revision + 1, NEW st, Batch(st, rev),
         NEW op \in Op
  PROVE  Batch(ApplyNext(st, rev, op), rev)
<1> DEFINE PutOp == [op : {"put"}, key : Key, value : Nat, lease : Nat,
                     ignoreValue : BOOLEAN, ignoreLease : BOOLEAN]
           DeleteOp == [op : {"deleteRange"}, key : Nat, rangeEnd : Nat]
           RangeOp == [op : {"range"}, key : Nat, revision : Nat]
<1>0. op \in PutOp \/ op \in DeleteOp \/ op \in RangeOp
  BY DEF Op
<1>1. CASE op \in PutOp
  <2>1. op.op = "put"
    BY <1>1
  <2>2. ApplyOp(st, rev, op) = PutAt(st, rev, op)
    BY <2>1 DEF ApplyOp
  <2>3. Batch(PutAt(st, rev, op), rev)
    BY <1>1, PutKeepsBatch
  <2> QED BY <2>2, <2>3 DEF ApplyNext
<1>2. CASE op \in DeleteOp
  <2>1. op.op = "deleteRange"
    BY <1>2
  <2>2. ApplyOp(st, rev, op) = DeleteAt(st, rev, MatchingKeys(op))
    BY <2>1 DEF ApplyOp
  <2>3. Batch(DeleteAt(st, rev, MatchingKeys(op)), rev)
    BY DeleteKeepsBatch
  <2> QED BY <2>2, <2>3 DEF ApplyNext
<1>3. CASE op \in RangeOp
  <2>1. op.op = "range"
    BY <1>3
  <2> DEFINE next == [st EXCEPT !.failed = RangeFails(op)]
  <2>2. ApplyOp(st, rev, op) = next
    BY <2>1 DEF ApplyOp
  <2>3. st \in StoreSet /\ RangeFails(op) \in BOOLEAN
    BY DEF Batch, RangeFails
  <2>4. next \in StoreSet /\ next.keys = st.keys /\ next.events = st.events
        /\ next.leases = st.leases
    BY <2>3 DEF StoreSet
  <2> HIDE DEF next
  <2>5. Batch(next, rev)
    BY <2>4 DEF Batch, Wrote
  <2> QED BY <2>2, <2>5 DEF ApplyNext
<1> QED BY <1>0, <1>1, <1>2, <1>3

LEMMA StoreIsBatch ==
  ASSUME Ready, NEW rev, rev = revision + 1
  PROVE  Batch(Store, rev)
<1>1. Store \in StoreSet /\ Store.keys = keys /\ Store.events = events
      /\ Store.leases = leases
  BY DEF Ready, Store, StoreSet
<1>2. Wrote(Store, <<>>, rev)
  <2>1. \A k \in Key : keys[k] = keys[k] \o EntriesOf(<<>>, k)
    BY EntriesEmpty DEF Ready
  <2>2. events = events \o <<>> /\ <<>> \in Seq(EventSet) /\ Len(<<>>) = 0
    BY DEF Ready
  <2> QED BY <1>1, <2>1, <2>2 DEF Wrote
<1>3. \A k \in Key : /\ Started(keys[k])
                     /\ \A n \in 1..Len(keys[k]) : keys[k][n].rev <= rev
  <2>1. \A k \in Key : \A n \in 1..Len(keys[k]) : keys[k][n].rev \in Nat
    <3> SUFFICES ASSUME NEW k \in Key, NEW n \in 1..Len(keys[k])
                 PROVE  keys[k][n].rev \in Nat
      OBVIOUS
    <3>1. keys[k] \in Seq(Entry)
      BY DEF Ready
    <3>2. keys[k][n] \in Entry
      BY <3>1
    <3> QED BY <3>2 DEF Entry
  <2>2. \A k \in Key : /\ Started(keys[k])
                       /\ \A n \in 1..Len(keys[k]) : keys[k][n].rev <= revision
    BY DEF Ready
  <2>3. revision \in Nat
    BY DEF Ready
  <2> QED BY <2>1, <2>2, <2>3
<1> QED BY <1>1, <1>2, <1>3 DEF Batch

AttemptStep(f, ops, rev, n) ==
  IF n = 0 THEN Store ELSE ApplyNext(f[n - 1], rev, ops[n])
AttemptWalk(f, ops, rev, b) == f = [n \in 0..b |-> AttemptStep(f, ops, rev, n)]

LEMMA AttemptWalkExists ==
  ASSUME NEW ops, NEW rev, NEW b \in Nat
  PROVE  \E f : AttemptWalk(f, ops, rev, b)
<1> DEFINE P == {n \in 0..b : \E f : AttemptWalk(f, ops, rev, n)}
<1>1. 0 \in P
  <2> DEFINE g == [n \in 0..0 |-> Store]
  <2>1. AttemptWalk(g, ops, rev, 0)
    BY DEF AttemptWalk, AttemptStep
  <2> HIDE DEF g
  <2> QED BY <2>1
<1>2. ASSUME NEW n \in 1..b, n - 1 \in P PROVE n \in P
  <2>1. PICK f : AttemptWalk(f, ops, rev, n - 1)
    BY <1>2
  <2> DEFINE g == [k \in 0..n |-> AttemptStep(f, ops, rev, k)]
  <2>2. \A k \in 0..(n - 1) : g[k] = f[k]
    BY <2>1 DEF AttemptWalk
  <2>3. \A k \in 0..n : k # 0 => k - 1 \in 0..(n - 1)
    OBVIOUS
  <2>4. AttemptWalk(g, ops, rev, n)
    BY <2>2, <2>3 DEF AttemptWalk, AttemptStep
  <2> HIDE DEF g
  <2> QED BY <2>4
<1>3. P = 0..b
  <2> HIDE DEF P
  <2>1. P \in SUBSET (0..b)
    BY DEF P
  <2> QED BY <1>1, <1>2, <2>1, UpToInduct
<1> QED BY <1>3

\* Whatever the operations, also up to the one that failed.
LEMMA AttemptIsBatch ==
  ASSUME Ready, NEW rev, rev = revision + 1, NEW ops \in Seq(Op)
  PROVE  Batch(Attempt(ops, rev), rev)
<1> DEFINE b == Len(ops)
           f == CHOOSE h : AttemptWalk(h, ops, rev, b)
<1>0. b \in Nat
  OBVIOUS
<1>1. AttemptWalk(f, ops, rev, b)
  <2>1. \E h : AttemptWalk(h, ops, rev, b)
    BY <1>0, AttemptWalkExists
  <2> QED BY <2>1
<1>2. Attempt(ops, rev) = f[b]
  BY DEF Attempt, AttemptWalk, AttemptStep
<1>3. \A n \in 1..b : ops[n] \in Op
  OBVIOUS
<1> HIDE DEF f, b
<1> DEFINE P == {n \in 0..b : Batch(f[n], rev)}
<1>4. 0 \in P
  <2>1. 0 \in 0..b /\ f[0] = Store
    BY <1>0, <1>1 DEF AttemptWalk, AttemptStep
  <2> QED BY <2>1, StoreIsBatch
<1>5. ASSUME NEW n \in 1..b, n - 1 \in P PROVE n \in P
  <2>1. n \in 0..b /\ n # 0
    BY <1>0
  <2>2. f[n] = ApplyNext(f[n - 1], rev, ops[n])
    BY <1>1, <2>1 DEF AttemptWalk, AttemptStep
  <2>3. Batch(f[n - 1], rev)
    BY <1>5
  <2> DEFINE before == f[n - 1]
             op == ops[n]
  <2>4. op \in Op
    BY <1>3
  <2> HIDE DEF before, op
  <2>5. Batch(ApplyNext(before, rev, op), rev)
    BY <2>3, <2>4, ApplyKeepsBatch DEF before
  <2> QED BY <2>1, <2>2, <2>5 DEF before, op
<1>6. P = 0..b
  <2> HIDE DEF P
  <2>1. P \in SUBSET (0..b)
    BY DEF P
  <2> QED BY <1>0, <1>4, <1>5, <2>1, UpToInduct
<1> QED BY <1>0, <1>2, <1>6

-----------------------------------------------------------------------------
(* Rolling a batch back.                                                   *)

PopStep(f, st, rev, n) ==
  IF n = 0 THEN st.keys
  ELSE Pop(f[n - 1], st.events[Len(events) + n].key, rev)
PopWalk(f, st, rev, b) == f = [n \in 0..b |-> PopStep(f, st, rev, n)]

LEMMA PopWalkExists ==
  ASSUME NEW st, NEW rev, NEW b \in Nat
  PROVE  \E f : PopWalk(f, st, rev, b)
<1> DEFINE P == {n \in 0..b : \E f : PopWalk(f, st, rev, n)}
<1>1. 0 \in P
  <2> DEFINE g == [n \in 0..0 |-> st.keys]
  <2>1. PopWalk(g, st, rev, 0)
    BY DEF PopWalk, PopStep
  <2> HIDE DEF g
  <2> QED BY <2>1
<1>2. ASSUME NEW n \in 1..b, n - 1 \in P PROVE n \in P
  <2>1. PICK f : PopWalk(f, st, rev, n - 1)
    BY <1>2
  <2> DEFINE g == [k \in 0..n |-> PopStep(f, st, rev, k)]
  <2>2. \A k \in 0..(n - 1) : g[k] = f[k]
    BY <2>1 DEF PopWalk
  <2>3. \A k \in 0..n : k # 0 => k - 1 \in 0..(n - 1)
    OBVIOUS
  <2>4. PopWalk(g, st, rev, n)
    BY <2>2, <2>3 DEF PopWalk, PopStep
  <2> HIDE DEF g
  <2> QED BY <2>4
<1>3. P = 0..b
  <2> HIDE DEF P
  <2>1. P \in SUBSET (0..b)
    BY DEF P
  <2> QED BY <1>1, <1>2, <2>1, UpToInduct
<1> QED BY <1>3

LEMMA EntriesRev ==
  ASSUME NEW new \in Seq(EventSet), NEW rev, NEW k,
         \A n \in 1..Len(new) : new[n].rev = rev
  PROVE  \A n \in 1..Len(EntriesOf(new, k)) : EntriesOf(new, k)[n].rev = rev
<1> DEFINE X == {e \in EventSet : e.rev = rev}
           mine == Only(new, OfKey(k))
<1>1. new \in Seq(X)
  OBVIOUS
<1>2. mine \in Seq(X)
  <2> HIDE DEF X
  <2> QED BY <1>1, OnlyType
<1>3. EntriesOf(new, k) = [n \in DOMAIN mine |-> mine[n].entry]
  BY EntriesAre
<1> HIDE DEF mine
<1>4. DOMAIN mine = 1..Len(mine) /\ Len(mine) \in Nat
      /\ \A n \in 1..Len(mine) : mine[n].entry.rev = rev
  BY <1>2 DEF EventSet
<1> QED BY <1>3, <1>4

\* How many of the first n events are of a key.
Count(new, k, n) == Len(EntriesOf(SubSeq(new, 1, n), k))

LEMMA BeginningType ==
  ASSUME NEW X, NEW s \in Seq(X), NEW n \in 0..Len(s)
  PROVE  /\ SubSeq(s, 1, n) \in Seq(X) /\ Len(SubSeq(s, 1, n)) = n
         /\ \A i \in 1..n : SubSeq(s, 1, n)[i] = s[i]
OBVIOUS

LEMMA CountIs ==
  ASSUME NEW new \in Seq(EventSet), NEW k
  PROVE  /\ \A n \in 0..Len(new) : Count(new, k, n) \in Nat
         /\ Count(new, k, 0) = 0
         /\ Count(new, k, Len(new)) = Len(EntriesOf(new, k))
         /\ \A n \in 1..Len(new) :
              Count(new, k, n) = IF new[n].key = k THEN Count(new, k, n - 1) + 1
                                 ELSE Count(new, k, n - 1)
         /\ \A n \in 0..Len(new) : Count(new, k, n) <= Len(EntriesOf(new, k))
<1>0. Len(new) \in Nat
  OBVIOUS
<1>1. ASSUME NEW n \in 0..Len(new) PROVE Count(new, k, n) \in Nat
  <2> DEFINE u == SubSeq(new, 1, n)
  <2>1. u \in Seq(EventSet)
    BY BeginningType
  <2> HIDE DEF u
  <2>2. EntriesOf(u, k) \in Seq(Entry)
    BY <2>1, EntriesType
  <2> QED BY <2>2 DEF Count, u
<1>2. Count(new, k, 0) = 0
  <2> DEFINE u == SubSeq(new, 1, 0)
  <2>1. u \in Seq(EventSet) /\ Len(u) = 0
    BY <1>0, BeginningType
  <2>2. u = <<>>
    BY <2>1
  <2>3. EntriesOf(u, k) = <<>>
    BY <2>2, EntriesEmpty
  <2> QED BY <2>3 DEF Count
<1>3. Count(new, k, Len(new)) = Len(EntriesOf(new, k))
  <2> DEFINE u == SubSeq(new, 1, Len(new))
  <2>1. u \in Seq(EventSet) /\ Len(u) = Len(new)
        /\ \A i \in 1..Len(new) : u[i] = new[i]
    BY <1>0, BeginningType
  <2> HIDE DEF u
  <2>2. u = new
    BY <2>1, SameSeq
  <2> QED BY <2>2 DEF Count, u
<1>4. ASSUME NEW n \in 1..Len(new)
      PROVE  Count(new, k, n) = IF new[n].key = k THEN Count(new, k, n - 1) + 1
                                ELSE Count(new, k, n - 1)
  <2> DEFINE u == SubSeq(new, 1, n)
             v == SubSeq(new, 1, n - 1)
             e == new[n]
             w == Append(v, e)
  <2>1. u \in Seq(EventSet) /\ Len(u) = n /\ \A i \in 1..n : u[i] = new[i]
    <3>1. n \in 0..Len(new)
      OBVIOUS
    <3> QED BY <3>1, BeginningType
  <2>2. v \in Seq(EventSet) /\ Len(v) = n - 1 /\ \A i \in 1..(n - 1) : v[i] = new[i]
    <3>1. n - 1 \in 0..Len(new)
      BY <1>0
    <3> DEFINE m == n - 1
    <3>2. m \in 0..Len(new)
      BY <3>1
    <3> HIDE DEF m
    <3>3. SubSeq(new, 1, m) \in Seq(EventSet) /\ Len(SubSeq(new, 1, m)) = m
          /\ \A i \in 1..m : SubSeq(new, 1, m)[i] = new[i]
      BY <3>2, BeginningType
    <3> QED BY <3>3 DEF m
  <2>3. e \in EventSet
    OBVIOUS
  <2> HIDE DEF u, v, e
  <2>4. w \in Seq(EventSet) /\ Len(w) = n /\ w[n] = e
        /\ \A i \in 1..(n - 1) : w[i] = v[i]
    BY <2>2, <2>3, AppendProperties
  <2> HIDE DEF w
  <2>5. \A i \in 1..n : u[i] = w[i]
    <3> SUFFICES ASSUME NEW i \in 1..n PROVE u[i] = w[i]
      OBVIOUS
    <3>1. CASE i = n
      BY <2>1, <2>4, <3>1 DEF e
    <3>2. CASE i # n
      <4>1. i \in 1..(n - 1)
        BY <1>0, <3>2
      <4> QED BY <2>1, <2>2, <2>4, <4>1
    <3> QED BY <3>1, <3>2
  <2>6. u = w
    BY <2>1, <2>4, <2>5, SameSeq
  <2>7. EntriesOf(w, k) = IF e.key = k THEN Append(EntriesOf(v, k), e.entry)
                          ELSE EntriesOf(v, k)
    BY <2>2, <2>3, EntriesAppend DEF w
  <2>8. EntriesOf(v, k) \in Seq(Entry) /\ e.entry \in Entry
    BY <2>2, <2>3, EntriesType DEF EventSet
  <2>9. Len(Append(EntriesOf(v, k), e.entry)) = Len(EntriesOf(v, k)) + 1
    BY <2>8
  <2>10. Len(EntriesOf(u, k)) = IF e.key = k THEN Len(EntriesOf(v, k)) + 1
                                ELSE Len(EntriesOf(v, k))
    BY <2>6, <2>7, <2>9
  <2> QED BY <2>10 DEF Count, u, v, e
<1>5. ASSUME NEW n \in 0..Len(new)
      PROVE  Count(new, k, n) <= Len(EntriesOf(new, k))
  <2> DEFINE u == SubSeq(new, 1, n)
             v == SubSeq(new, n + 1, Len(new))
             w == u \o v
  <2>1. u \in Seq(EventSet) /\ Len(u) = n /\ \A i \in 1..n : u[i] = new[i]
    BY BeginningType
  <2>2. v \in Seq(EventSet) /\ Len(v) = Len(new) - n
        /\ \A i \in 1..(Len(new) - n) : v[i] = new[n + i]
    BY <1>0
  <2> HIDE DEF u, v
  <2>3. w \in Seq(EventSet) /\ Len(w) = Len(new)
        /\ \A i \in 1..Len(new) : w[i] = IF i <= n THEN u[i] ELSE v[i - n]
    BY <1>0, <2>1, <2>2
  <2> HIDE DEF w
  <2>4. \A i \in 1..Len(new) : w[i] = new[i]
    <3> SUFFICES ASSUME NEW i \in 1..Len(new) PROVE w[i] = new[i]
      OBVIOUS
    <3>1. CASE i <= n
      BY <2>1, <2>3, <3>1
    <3>2. CASE ~(i <= n)
      <4>1. i - n \in 1..(Len(new) - n) /\ n + (i - n) = i
        BY <1>0, <3>2
      <4> QED BY <2>2, <2>3, <3>2, <4>1
    <3> QED BY <3>1, <3>2
  <2>5. w = new
    BY <2>3, <2>4, SameSeq
  <2>6. EntriesOf(w, k) = EntriesOf(u, k) \o EntriesOf(v, k)
    BY <2>1, <2>2, EntriesConcat DEF w
  <2>7. EntriesOf(u, k) \in Seq(Entry) /\ EntriesOf(v, k) \in Seq(Entry)
    BY <2>1, <2>2, EntriesType
  <2>8. Len(EntriesOf(new, k)) = Len(EntriesOf(u, k)) + Len(EntriesOf(v, k))
        /\ Len(EntriesOf(u, k)) \in Nat /\ Len(EntriesOf(v, k)) \in Nat
    BY <2>5, <2>6, <2>7
  <2> QED BY <2>8 DEF Count, u
<1> QED BY <1>1, <1>2, <1>3, <1>4, <1>5

\* Every event of the batch takes one entry of its key's chain back, the last,
\* which the batch wrote; so in the end none of them are left.
LEMMA RollbackRestores ==
  ASSUME Ready, NEW rev, rev = revision + 1, NEW st, Batch(st, rev)
  PROVE  LET back == Rollback(st, rev)
         IN back.keys = keys /\ back.events = events /\ back.leases = st.leases
<1>1. PICK new : Wrote(st, new, rev)
  BY DEF Batch
<1> DEFINE b == Len(new)
           f == CHOOSE h : PopWalk(h, st, rev, b)
<1>2. /\ new \in Seq(EventSet) /\ b \in Nat
      /\ Len(st.events) - Len(events) = b
      /\ \A n \in 1..b : st.events[Len(events) + n] = new[n]
  BY <1>1 DEF Wrote, Ready
<1>3. PopWalk(f, st, rev, b)
  <2>1. \E h : PopWalk(h, st, rev, b)
    BY <1>2, PopWalkExists
  <2> QED BY <2>1
<1>4. LET back == Rollback(st, rev)
      IN back.keys = f[b] /\ back.events = events /\ back.leases = st.leases
  <2>1. st \in StoreSet
    BY DEF Batch
  <2>2. Rollback(st, rev) = [st EXCEPT !.keys = f[b], !.events = events]
    BY <1>2 DEF Rollback, PopWalk, PopStep
  <2> HIDE DEF f
  <2> QED BY <2>1, <2>2 DEF StoreSet
<1> HIDE DEF f, b
<1> DEFINE Taken(n) ==
             /\ f[n] \in [Key -> Seq(Entry)]
             /\ \A k \in Key :
                  /\ Len(f[n][k]) = Len(st.keys[k]) - Count(new, k, n)
                  /\ \A i \in 1..Len(f[n][k]) : f[n][k][i] = st.keys[k][i]
           P == {n \in 0..b : Taken(n)}
<1>5. /\ st.keys \in [Key -> Seq(Entry)]
      /\ \A k \in Key :
           /\ st.keys[k] \in Seq(Entry) /\ keys[k] \in Seq(Entry)
           /\ EntriesOf(new, k) \in Seq(Entry)
           /\ st.keys[k] = keys[k] \o EntriesOf(new, k)
           /\ \A n \in 1..Len(EntriesOf(new, k)) : EntriesOf(new, k)[n].rev = rev
  <2>1. st.keys \in [Key -> Seq(Entry)] /\ keys \in [Key -> Seq(Entry)]
    BY DEF Batch, StoreSet, Ready
  <2>2. \A n \in 1..Len(new) : new[n].rev = rev
    BY <1>1 DEF Wrote
  <2>3. ASSUME NEW k \in Key
        PROVE  /\ EntriesOf(new, k) \in Seq(Entry)
               /\ st.keys[k] = keys[k] \o EntriesOf(new, k)
               /\ \A n \in 1..Len(EntriesOf(new, k)) :
                    EntriesOf(new, k)[n].rev = rev
    <3>1. EntriesOf(new, k) \in Seq(Entry)
      BY <1>2, EntriesType
    <3>2. \A n \in 1..Len(EntriesOf(new, k)) : EntriesOf(new, k)[n].rev = rev
      <4>1. new \in Seq(EventSet)
        BY <1>2
      <4> QED BY ONLY <2>2, <4>1, EntriesRev
    <3> QED BY <1>1, <3>1, <3>2 DEF Wrote
  <2> QED BY <2>1, <2>3
<1>6. ASSUME NEW k \in Key
      PROVE  /\ Len(st.keys[k]) = Len(keys[k]) + Len(EntriesOf(new, k))
             /\ Len(keys[k]) \in Nat /\ Len(EntriesOf(new, k)) \in Nat
             /\ \A i \in 1..Len(keys[k]) : st.keys[k][i] = keys[k][i]
             /\ \A i \in 1..Len(st.keys[k]) :
                  i > Len(keys[k]) => st.keys[k][i].rev = rev
  <2> DEFINE c == keys[k]
             d == EntriesOf(new, k)
             e == st.keys[k]
  <2>1. c \in Seq(Entry) /\ d \in Seq(Entry) /\ e = c \o d
        /\ \A n \in 1..Len(d) : d[n].rev = rev
    BY <1>5
  <2> HIDE DEF c, d, e
  <2>2. Len(c) \in Nat /\ Len(d) \in Nat /\ Len(e) = Len(c) + Len(d)
        /\ \A i \in 1..Len(e) : e[i] = IF i <= Len(c) THEN c[i] ELSE d[i - Len(c)]
    BY <2>1
  <2>3. \A i \in 1..Len(e) : i > Len(c) => i - Len(c) \in 1..Len(d) /\ ~(i <= Len(c))
    BY <2>2
  <2>4. \A i \in 1..Len(c) : e[i] = c[i]
    BY <2>2
  <2>5. \A i \in 1..Len(e) : i > Len(c) => e[i].rev = rev
    BY <2>1, <2>2, <2>3
  <2> QED BY <2>2, <2>4, <2>5 DEF c, d, e
<1>7. ASSUME NEW k
      PROVE  /\ \A n \in 0..b : Count(new, k, n) \in Nat
             /\ Count(new, k, 0) = 0
             /\ Count(new, k, b) = Len(EntriesOf(new, k))
             /\ \A n \in 1..b :
                  Count(new, k, n) = IF new[n].key = k THEN Count(new, k, n - 1) + 1
                                     ELSE Count(new, k, n - 1)
             /\ \A n \in 0..b : Count(new, k, n) <= Len(EntriesOf(new, k))
  BY <1>2, CountIs DEF b
<1>8. 0 \in P
  <2>1. 0 \in 0..b /\ f[0] = st.keys
    BY <1>2, <1>3 DEF PopWalk, PopStep
  <2>2. \A k \in Key : Len(st.keys[k]) \in Nat /\ Count(new, k, 0) = 0
    BY <1>5, <1>7
  <2> QED BY <1>5, <2>1, <2>2
<1>9. ASSUME NEW n \in 1..b, n - 1 \in P PROVE n \in P
  <2>1. n \in 0..b /\ n # 0 /\ n - 1 \in 0..b /\ Taken(n - 1)
    BY <1>2, <1>9
  <2> DEFINE before == f[n - 1]
             k0 == new[n].key
             chain == before[k0]
  <2>2. f[n] = Pop(before, k0, rev)
    <3>1. f[n] = PopStep(f, st, rev, n)
      BY <1>3, <2>1 DEF PopWalk
    <3>2. PopStep(f, st, rev, n) = Pop(f[n - 1], st.events[Len(events) + n].key, rev)
      BY <2>1 DEF PopStep
    <3> QED BY <1>2, <3>1, <3>2
  <2>3. k0 \in Key
    BY <1>2 DEF EventSet, b
  <2>4. before \in [Key -> Seq(Entry)] /\ chain \in Seq(Entry)
    BY <2>1, <2>3
  <2>5. /\ Len(chain) = Len(st.keys[k0]) - Count(new, k0, n - 1)
        /\ \A i \in 1..Len(chain) : chain[i] = st.keys[k0][i]
    BY <2>1, <2>3
  <2>6. /\ Count(new, k0, n) = Count(new, k0, n - 1) + 1
        /\ Count(new, k0, n - 1) \in Nat
        /\ Count(new, k0, n) <= Len(EntriesOf(new, k0))
    BY <1>7, <2>1
  <2>7. \A k : k # k0 => Count(new, k, n) = Count(new, k, n - 1)
    BY <1>7, <2>1
  <2>8. Len(chain) > Len(keys[k0]) /\ Len(chain) <= Len(st.keys[k0])
        /\ Len(keys[k0]) \in Nat /\ Len(st.keys[k0]) \in Nat
    <3>1. /\ Len(st.keys[k0]) = Len(keys[k0]) + Len(EntriesOf(new, k0))
          /\ Len(keys[k0]) \in Nat /\ Len(EntriesOf(new, k0)) \in Nat
      BY <1>6, <2>3
    <3>2. Len(chain) = Len(st.keys[k0]) - Count(new, k0, n - 1)
      BY <2>5
    <3> HIDE DEF chain, k0
    <3> QED BY <2>6, <3>1, <3>2
  <2> HIDE DEF P, Taken
  <2>9. chain[Len(chain)].rev = rev
    <3>1. Len(chain) \in 1..Len(chain) /\ Len(chain) \in 1..Len(st.keys[k0])
      BY <2>4, <2>8
    <3> QED BY <1>6, <2>3, <2>5, <2>8, <3>1
  <2> HIDE DEF before, k0
  <2>10. chain # <<>> /\ Last(chain).rev = rev
    BY <2>4, <2>8, <2>9 DEF Last
  <2>11. f[n] = [before EXCEPT ![k0] = Front(@)]
    BY <2>2, <2>10 DEF Pop
  <2>12. /\ Front(chain) \in Seq(Entry) /\ Len(Front(chain)) = Len(chain) - 1
         /\ \A i \in 1..(Len(chain) - 1) : Front(chain)[i] = chain[i]
    <3> DEFINE c == chain
    <3>1. c \in Seq(Entry) /\ Len(c) - 1 \in 0..Len(c)
      BY <2>4, <2>8
    <3> HIDE DEF c
    <3> DEFINE m == Len(c) - 1
    <3>2. m \in 0..Len(c)
      BY <3>1
    <3> HIDE DEF m
    <3>3. SubSeq(c, 1, m) \in Seq(Entry) /\ Len(SubSeq(c, 1, m)) = m
          /\ \A i \in 1..m : SubSeq(c, 1, m)[i] = c[i]
      BY <3>1, <3>2, BeginningType
    <3> QED BY <3>3 DEF Front, c, m
  <2>13. f[n] \in [Key -> Seq(Entry)]
    BY <2>3, <2>4, <2>11, <2>12
  <2>14. ASSUME NEW k \in Key
         PROVE  /\ Len(f[n][k]) = Len(st.keys[k]) - Count(new, k, n)
                /\ \A i \in 1..Len(f[n][k]) : f[n][k][i] = st.keys[k][i]
    <3>1. CASE k # k0
      <4>1. f[n][k] = before[k] /\ Count(new, k, n) = Count(new, k, n - 1)
        BY <2>4, <2>7, <2>11, <3>1
      <4> QED BY <2>1, <4>1 DEF Taken, before
    <3>2. CASE k = k0
      <4>1. f[n][k] = Front(chain)
        BY <2>3, <2>4, <2>11, <3>2
      <4>2. Len(chain) - 1 = Len(st.keys[k]) - Count(new, k, n)
        <5>1. Len(chain) = Len(st.keys[k0]) - Count(new, k0, n - 1)
          BY <2>5
        <5> HIDE DEF chain
        <5>2. Len(chain) - 1 = Len(st.keys[k0]) - Count(new, k0, n)
          <6> DEFINE c == Count(new, k0, n - 1)
                     d == Count(new, k0, n)
                     l == Len(st.keys[k0])
          <6>1. l \in Nat /\ c \in Nat /\ d = c + 1 /\ Len(chain) = l - c
            BY <2>6, <2>8, <5>1
          <6> HIDE DEF c, d, l
          <6>2. Len(chain) - 1 = l - d
            BY <6>1
          <6> QED BY <6>2 DEF d, l
        <5> QED BY <3>2, <5>2
      <4>3. \A i \in 1..(Len(chain) - 1) : i \in 1..Len(chain)
        BY <2>4
      <4> HIDE DEF chain
      <4> QED BY <2>5, <2>12, <3>2, <4>1, <4>2, <4>3
    <3> QED BY <3>1, <3>2
  <2> QED BY <2>1, <2>13, <2>14 DEF P, Taken
<1>10. P = 0..b
  <2> HIDE DEF P
  <2>1. P \in SUBSET (0..b)
    BY DEF P
  <2> QED BY <1>2, <1>8, <1>9, <2>1, UpToInduct
<1>11. f[b] = keys
  <2>1. Taken(b)
    BY <1>2, <1>10
  <2>2. keys \in [Key -> Seq(Entry)] /\ f[b] \in [Key -> Seq(Entry)]
    BY <2>1 DEF Ready
  <2>3. ASSUME NEW k \in Key PROVE f[b][k] = keys[k]
    <3> DEFINE c == f[b][k]
               d == keys[k]
    <3>1. c \in Seq(Entry) /\ d \in Seq(Entry)
      BY <2>2
    <3>2. Len(c) = Len(d) /\ \A i \in 1..Len(c) : c[i] = st.keys[k][i]
      BY <1>6, <1>7, <2>1
    <3>3. \A i \in 1..Len(d) : st.keys[k][i] = d[i]
      BY <1>6
    <3> HIDE DEF c, d
    <3>4. \A i \in 1..Len(c) : c[i] = d[i]
      BY <3>2, <3>3
    <3>5. c = d
      BY <3>1, <3>2, <3>4, SameSeq
    <3> QED BY <3>5 DEF c, d
  <2> QED BY <2>2, <2>3
<1> QED BY <1>4, <1>11

LEMMA RollbackIsBatch ==
  ASSUME Ready, NEW rev, rev = revision + 1, NEW st, Batch(st, rev)
  PROVE  Batch(Rollback(st, rev), rev)
<1> DEFINE back == Rollback(st, rev)
<1>1. back.keys = keys /\ back.events = events /\ back.leases = st.leases
  BY RollbackRestores
<1>2. back \in StoreSet
  <2>1. \E ks : back = [st EXCEPT !.keys = ks, !.events = events]
    BY DEF Rollback
  <2>2. PICK ks : back = [st EXCEPT !.keys = ks, !.events = events]
    BY <2>1
  <2>3. st \in StoreSet
    BY DEF Batch
  <2> HIDE DEF back
  <2>4. ks = keys
    BY <1>1, <2>2, <2>3 DEF StoreSet
  <2> QED BY <2>2, <2>3, <2>4 DEF Ready, StoreSet
<1>3. Store.keys = keys /\ Store.events = events /\ Batch(Store, rev)
  BY StoreIsBatch DEF Store
<1>4. DOMAIN st.leases = DOMAIN leases
  BY DEF Batch
<1> HIDE DEF back
<1>5. Batch(back, rev)
  BY <1>1, <1>2, <1>3, <1>4 DEF Batch, Wrote
<1> QED BY <1>5 DEF back

-----------------------------------------------------------------------------
(* Reads at a revision.                                                    *)

\* m is the newest entry of the chain that a read at rev sees.
Newest(chain, rev, m) ==
  /\ m \in 1..Len(chain)
  /\ rev = 0 \/ chain[m].rev <= rev
  /\ \A n \in 1..Len(chain) : n > m => ~(rev = 0 \/ chain[n].rev <= rev)

LEMMA EntryAtIs ==
  ASSUME NEW chain \in Seq(Entry), NEW rev, NEW m, Newest(chain, rev, m)
  PROVE  EntryAt(chain, rev) = IF chain[m].deleted THEN None ELSE chain[m]
<1> DEFINE S == {n \in DOMAIN chain : rev = 0 \/ chain[n].rev <= rev}
<1>1. Len(chain) \in Nat /\ DOMAIN chain = 1..Len(chain)
  OBVIOUS
<1>2. S \in SUBSET (1..Len(chain)) /\ m \in S /\ \A n \in S : n <= m
  BY <1>1 DEF Newest
<1>3. EntryAt(chain, rev) = IF S = {} \/ chain[Max(S)].deleted THEN None
                            ELSE chain[Max(S)]
  BY DEF EntryAt
<1> HIDE DEF S
<1>4. Max(S) \in S /\ \A n \in S : n <= Max(S)
  BY <1>1, <1>2, MaxIs
<1>5. Max(S) = m
  <2> DEFINE q == Max(S)
  <2>1. q \in S /\ \A n \in S : n <= q
    BY <1>4
  <2> HIDE DEF q
  <2>2. q \in 1..Len(chain) /\ m \in 1..Len(chain) /\ q <= m /\ m <= q
    BY <1>2, <2>1
  <2>3. q = m
    BY <1>1, <2>2
  <2> QED BY <2>3 DEF q
<1> QED BY <1>2, <1>3, <1>5

LEMMA EntryAtNone ==
  ASSUME NEW chain \in Seq(Entry), NEW rev,
         \A n \in 1..Len(chain) : ~(rev = 0 \/ chain[n].rev <= rev)
  PROVE  EntryAt(chain, rev) = None
<1>1. DOMAIN chain = 1..Len(chain)
  OBVIOUS
<1> QED BY <1>1 DEF EntryAt

\* What a read at rev sees of c it also sees of e, d places earlier.
Shifted(c, e, rev, d) ==
  /\ \A n \in 1..Len(c) :
       (rev = 0 \/ c[n].rev <= rev) => \E m \in 1..Len(e) :
         m >= n - d /\ (rev = 0 \/ e[m].rev <= rev)
  /\ \A m \in 1..Len(e) : (rev = 0 \/ e[m].rev <= rev) =>
       m + d \in 1..Len(c) /\ c[m + d] = e[m]

\* A chain that agrees with another, moved by d, on what is there at rev.
LEMMA EntryAtMoved ==
  ASSUME NEW c \in Seq(Entry), NEW e \in Seq(Entry), NEW rev, NEW d \in Nat,
         Shifted(c, e, rev, d)
  PROVE  EntryAt(c, rev) = EntryAt(e, rev)
<1> USE DEF Shifted
<1> DEFINE S == {m \in DOMAIN e : rev = 0 \/ e[m].rev <= rev}
<1>1. /\ Len(e) \in Nat /\ DOMAIN e = 1..Len(e)
      /\ Len(c) \in Nat /\ DOMAIN c = 1..Len(c)
  OBVIOUS
<1>2. CASE S = {}
  <2>1. \A m \in 1..Len(e) : ~(rev = 0 \/ e[m].rev <= rev)
    BY <1>1, <1>2
  <2>2. \A n \in 1..Len(c) : ~(rev = 0 \/ c[n].rev <= rev)
    BY <2>1
  <2> QED BY <2>1, <2>2, EntryAtNone
<1>3. CASE S # {}
  <2>1. S \in SUBSET (1..Len(e))
    BY <1>1
  <2>2. PICK m \in S : \A n \in S : n <= m
    <3> HIDE DEF S
    <3>1. Max(S) \in S /\ \A n \in S : n <= Max(S)
      BY <1>1, <1>3, <2>1, MaxIs
    <3> QED BY <3>1
  <2>3. m \in 1..Len(e) /\ (rev = 0 \/ e[m].rev <= rev)
    BY <1>1, <2>2
  <2>9. \A n \in 1..Len(e) : n > m => ~(rev = 0 \/ e[n].rev <= rev)
    <3> SUFFICES ASSUME NEW n \in 1..Len(e), n > m, rev = 0 \/ e[n].rev <= rev
                 PROVE  FALSE
      OBVIOUS
    <3>1. n \in S
      BY <1>1
    <3>2. n <= m
      BY <2>2, <3>1
    <3> QED BY <2>3, <3>2
  <2>4. EntryAt(e, rev) = IF e[m].deleted THEN None ELSE e[m]
    <3>1. Newest(e, rev, m)
      BY <2>3, <2>9 DEF Newest
    <3> QED BY <3>1, EntryAtIs
  <2> DEFINE j == m + d
  <2>5. j \in 1..Len(c) /\ c[j] = e[m]
    BY <2>3
  <2>6. \A n \in 1..Len(c) : n > j => ~(rev = 0 \/ c[n].rev <= rev)
    <3> SUFFICES ASSUME NEW n \in 1..Len(c), n > j, rev = 0 \/ c[n].rev <= rev
                 PROVE  FALSE
      OBVIOUS
    <3>1. PICK i \in 1..Len(e) : i >= n - d /\ (rev = 0 \/ e[i].rev <= rev)
      OBVIOUS
    <3>2. i > m
      BY <2>3, <3>1
    <3> QED BY <2>9, <3>1, <3>2
  <2> HIDE DEF j
  <2>7. rev = 0 \/ c[j].rev <= rev
    BY <2>3, <2>5
  <2>8. EntryAt(c, rev) = IF c[j].deleted THEN None ELSE c[j]
    <3>1. Newest(c, rev, j)
      BY <2>5, <2>6, <2>7 DEF Newest
    <3> QED BY <3>1, EntryAtIs
  <2> QED BY <2>4, <2>5, <2>8
<1> QED BY <1>2, <1>3

Ordered(chain) ==
  \A m, n \in 1..Len(chain) : m <= n => chain[m].rev <= chain[n].rev

\* Compaction drops the first m entries, all at or below the target, and of
\* the others only the first may be; and then perhaps that one too.
CompactsTo(chain, target, m, kept) ==
  /\ Len(kept) = Len(chain) - m /\ m <= Len(chain)
  /\ \A n \in 1..Len(kept) : kept[n] = chain[m + n]
  /\ \A n \in 1..m : chain[n].rev <= target
  /\ m > 0 => m < Len(chain) /\ chain[m + 1].rev <= target
  /\ \A n \in 1..Len(chain) : n > m + 1 => ~(chain[n].rev <= target)
  /\ Compacted(chain, target) =
       IF Len(kept) = 1 /\ kept[1].deleted THEN <<>> ELSE kept

LEMMA CompactedIs ==
  ASSUME NEW chain \in Seq(Entry), Ordered(chain), NEW target \in Nat
  PROVE  \E m \in Nat, kept \in Seq(Entry) : CompactsTo(chain, target, m, kept)
<1> DEFINE old == {n \in DOMAIN chain : chain[n].rev <= target}
<1>1. Len(chain) \in Nat /\ DOMAIN chain = 1..Len(chain)
  OBVIOUS
<1>2. CASE old = {}
  <2>1. Compacted(chain, target) =
          IF Len(chain) = 1 /\ chain[1].deleted THEN <<>> ELSE chain
    BY <1>2 DEF Compacted
  <2>2. \A n \in 1..Len(chain) : ~(chain[n].rev <= target)
    BY <1>1, <1>2
  <2> HIDE DEF old
  <2>3. 0 \in Nat /\ Len(chain) = Len(chain) - 0 /\ 0 <= Len(chain)
        /\ \A n \in 1..Len(chain) : chain[n] = chain[0 + n]
    BY <1>1
  <2>4. CompactsTo(chain, target, 0, chain)
    BY <1>1, <2>1, <2>2, <2>3 DEF CompactsTo
  <2> QED BY <2>4
<1>3. CASE old # {}
  <2>1. old \in SUBSET (1..Len(chain))
    BY <1>1
  <2> DEFINE q == Max(old)
             kept == SubSeq(chain, q, Len(chain))
             m == q - 1
  <2>2. q \in old /\ \A n \in old : n <= q
    <3> HIDE DEF old
    <3> QED BY <1>1, <1>3, <2>1, MaxIs
  <2>3. Compacted(chain, target) =
          IF Len(kept) = 1 /\ kept[1].deleted THEN <<>> ELSE kept
    BY <1>3 DEF Compacted
  <2> HIDE DEF q
  <2>4. q \in 1..Len(chain) /\ chain[q].rev <= target
        /\ \A n \in 1..Len(chain) : n > q => ~(chain[n].rev <= target)
    BY <1>1, <2>1, <2>2
  <2>5. kept \in Seq(Entry) /\ Len(kept) = Len(chain) - m
        /\ \A n \in 1..Len(kept) : kept[n] = chain[m + n]
    BY <2>4
  <2>6. m \in Nat /\ m < Len(chain) /\ m + 1 = q
    BY <1>1, <2>4
  <2>7. \A n \in 1..m : chain[n].rev <= target
    <3> SUFFICES ASSUME NEW n \in 1..m PROVE chain[n].rev <= target
      OBVIOUS
    <3>1. n \in 1..Len(chain) /\ n <= q
      BY <2>4, <2>6
    <3>2. chain[n].rev <= chain[q].rev
      BY <2>4, <3>1 DEF Ordered
    <3>3. chain[n] \in Entry /\ chain[q] \in Entry
      BY <2>4, <3>1
    <3>4. chain[n].rev \in Nat /\ chain[q].rev \in Nat
      BY <3>3 DEF Entry
    <3> QED BY <2>4, <3>2, <3>4
  <2> HIDE DEF kept, m
  <2>8. CompactsTo(chain, target, m, kept)
    <3>1. \A n \in 1..Len(chain) : n > m + 1 => ~(chain[n].rev <= target)
      BY <2>4, <2>6
    <3>2. m > 0 => m < Len(chain) /\ chain[m + 1].rev <= target
      BY <2>4, <2>6
    <3>3. m <= Len(chain)
      BY <1>1, <2>6
    <3> QED BY <2>3, <2>5, <2>7, <3>1, <3>2, <3>3 DEF CompactsTo
  <2> QED BY <2>5, <2>6, <2>8
<1> QED BY <1>2, <1>3

\* Compaction does not change what is read now, or at a revision from the
\* target on.
LEMMA CompactedReads ==
  ASSUME NEW chain \in Seq(Entry), Ordered(chain), NEW target \in Nat,
         NEW rev \in Nat, rev = 0 \/ rev >= target
  PROVE  EntryAt(Compacted(chain, target), rev) = EntryAt(chain, rev)
<1>1. PICK m \in Nat, kept \in Seq(Entry) : CompactsTo(chain, target, m, kept)
  BY CompactedIs
<1>2. Len(chain) \in Nat /\ Len(kept) \in Nat
      /\ \A n \in 1..Len(chain) : chain[n].rev \in Nat
  <2>1. \A n \in 1..Len(chain) : chain[n] \in Entry
    OBVIOUS
  <2> QED BY <2>1 DEF Entry
<1>3. EntryAt(chain, rev) = EntryAt(kept, rev)
  <2>1. ASSUME NEW n \in 1..Len(chain), rev = 0 \/ chain[n].rev <= rev
        PROVE  \E i \in 1..Len(kept) :
                 i >= n - m /\ (rev = 0 \/ kept[i].rev <= rev)
    <3>1. CASE n > m
      <4>1. n - m \in 1..Len(kept) /\ m + (n - m) = n
        BY <1>1, <1>2, <3>1 DEF CompactsTo
      <4>2. kept[n - m] = chain[n]
        BY <1>1, <4>1 DEF CompactsTo
      <4> DEFINE i == n - m
      <4>3. i \in 1..Len(kept) /\ i >= n - m /\ (rev = 0 \/ kept[i].rev <= rev)
        BY <1>2, <2>1, <4>1, <4>2
      <4> HIDE DEF i
      <4> QED BY <4>3
    <3>2. CASE ~(n > m)
      <4>1. m > 0 /\ m < Len(chain) /\ chain[m + 1].rev <= target
        BY <1>1, <1>2, <3>2 DEF CompactsTo
      <4>2. 1 \in 1..Len(kept) /\ kept[1] = chain[m + 1] /\ m + 1 \in 1..Len(chain)
        BY <1>1, <1>2, <4>1 DEF CompactsTo
      <4>3. rev = 0 \/ kept[1].rev <= rev
        BY <1>2, <4>1, <4>2
      <4>4. 1 >= n - m
        BY <3>2
      <4> QED BY <4>2, <4>3, <4>4
    <3> QED BY <3>1, <3>2
  <2>2. ASSUME NEW i \in 1..Len(kept)
        PROVE  i + m \in 1..Len(chain) /\ chain[i + m] = kept[i]
    <3>1. i + m \in 1..Len(chain) /\ i + m = m + i
      BY <1>1, <1>2 DEF CompactsTo
    <3> QED BY <1>1, <3>1 DEF CompactsTo
  <2>3. Shifted(chain, kept, rev, m)
    BY <2>1, <2>2 DEF Shifted
  <2> QED BY <2>3, EntryAtMoved
<1>4. CASE Len(kept) = 1 /\ kept[1].deleted
  <2>1. Compacted(chain, target) = <<>>
    BY <1>1, <1>4 DEF CompactsTo
  <2>2. EntryAt(<<>>, rev) = None
    <3>1. <<>> \in Seq(Entry) /\ Len(<<>>) = 0
      OBVIOUS
    <3>2. \A n \in 1..Len(<<>>) : ~(rev = 0 \/ <<>>[n].rev <= rev)
      BY <3>1
    <3> QED BY <3>1, <3>2, EntryAtNone
  <2>3. EntryAt(kept, rev) = None
    <3>1. CASE rev = 0 \/ kept[1].rev <= rev
      <4>1. Newest(kept, rev, 1)
        BY <1>4, <3>1 DEF Newest
      <4> QED BY <1>4, <4>1, EntryAtIs
    <3>2. CASE ~(rev = 0 \/ kept[1].rev <= rev)
      <4>1. \A n \in 1..Len(kept) : ~(rev = 0 \/ kept[n].rev <= rev)
        BY <1>4, <3>2
      <4> QED BY <4>1, EntryAtNone
    <3> QED BY <3>1, <3>2
  <2> QED BY <1>3, <2>1, <2>2, <2>3
<1>5. CASE ~(Len(kept) = 1 /\ kept[1].deleted)
  BY <1>1, <1>3, <1>5 DEF CompactsTo
<1> QED BY <1>4, <1>5

\* What was written above the target is still there.
LEMMA CompactedNewer ==
  ASSUME NEW chain \in Seq(Entry), Ordered(chain), NEW target \in Nat,
         NEW c \in Nat, c <= target,
         chain # <<>> /\ chain[1].deleted => chain[1].rev <= c
  PROVE  Newer(Compacted(chain, target), target) = Newer(chain, target)
<1>1. PICK m \in Nat, kept \in Seq(Entry) : CompactsTo(chain, target, m, kept)
  BY CompactedIs
<1>2. Len(chain) \in Nat /\ Len(kept) \in Nat /\ m \in 0..Len(chain)
      /\ \A n \in 1..Len(chain) : chain[n].rev \in Nat
  <2>1. \A n \in 1..Len(chain) : chain[n] \in Entry
    OBVIOUS
  <2>2. m <= Len(chain)
    BY <1>1 DEF CompactsTo
  <2> QED BY <2>1, <2>2 DEF Entry
<1> DEFINE pre == SubSeq(chain, 1, m)
           whole == pre \o kept
<1>3. pre \in Seq(Entry) /\ Len(pre) = m /\ \A n \in 1..m : pre[n] = chain[n]
  BY <1>2, BeginningType
<1> HIDE DEF pre
<1>4. whole \in Seq(Entry) /\ Len(whole) = m + Len(kept)
      /\ \A n \in 1..Len(whole) : whole[n] = IF n <= m THEN pre[n] ELSE kept[n - m]
  <2>1. pre \in Seq(Entry) /\ kept \in Seq(Entry) /\ Len(pre) = m
    BY <1>3
  <2>2. whole \in Seq(Entry) /\ Len(whole) = Len(pre) + Len(kept)
    BY ONLY <2>1
  <2>3. \A n \in 1..Len(whole) :
          whole[n] = IF n <= Len(pre) THEN pre[n] ELSE kept[n - Len(pre)]
    BY ONLY <2>1
  <2> QED BY <2>1, <2>2, <2>3
<1> HIDE DEF whole
<1>5. whole = chain
  <2>1. Len(whole) = Len(chain)
    BY <1>1, <1>2, <1>4 DEF CompactsTo
  <2>2. ASSUME NEW n \in 1..Len(whole) PROVE whole[n] = chain[n]
    <3>1. CASE n <= m
      BY <1>3, <1>4, <3>1
    <3>2. CASE ~(n <= m)
      <4>1. n - m \in 1..Len(kept) /\ m + (n - m) = n
        BY <1>2, <1>4, <3>2
      <4> QED BY <1>1, <1>4, <3>2, <4>1 DEF CompactsTo
    <3> QED BY <3>1, <3>2
  <2> QED BY <1>4, <2>1, <2>2, SameSeq
<1>6. Newer(chain, target) = Newer(kept, target)
  <2>1. Newer(whole, target) = Newer(pre, target) \o Newer(kept, target)
    BY <1>3, NewerConcat DEF whole
  <2>2. \A n \in 1..Len(pre) : ~(pre[n].rev > target)
    <3>1. \A n \in 1..m : chain[n].rev <= target /\ chain[n].rev \in Nat
      BY <1>1, <1>2 DEF CompactsTo
    <3> QED BY <1>3, <3>1
  <2>3. Newer(pre, target) = <<>>
    BY <1>3, <2>2, NewerNone
  <2>4. Newer(kept, target) \in Seq(Entry)
    BY NewerType
  <2>5. <<>> \o Newer(kept, target) = Newer(kept, target)
    BY <2>4
  <2> QED BY <1>5, <2>1, <2>3, <2>5
<1>7. CASE Len(kept) = 1 /\ kept[1].deleted
  <2>1. kept[1] = chain[m + 1] /\ m + 1 \in 1..Len(chain)
    BY <1>1, <1>2, <1>7 DEF CompactsTo
  <2>2. kept[1].rev <= target
    <3>1. CASE m > 0
      BY <1>1, <2>1, <3>1 DEF CompactsTo
    <3>2. CASE m = 0
      <4>1. chain # <<>> /\ chain[1].deleted /\ kept[1].rev \in Nat
            /\ kept[1] = chain[1]
        BY <1>2, <1>7, <2>1, <3>2
      <4> QED BY <4>1
    <3> QED BY <3>1, <3>2
  <2>3. \A n \in 1..Len(kept) : ~(kept[n].rev > target)
    <3>1. kept[1].rev \in Nat
      BY <1>2, <2>1
    <3> QED BY <1>7, <2>2, <3>1
  <2>4. Newer(kept, target) = <<>>
    BY <2>3, NewerNone
  <2>5. Newer(<<>>, target) = <<>>
    BY OnlyEmpty DEF Newer
  <2>6. Compacted(chain, target) = <<>>
    BY <1>1, <1>7 DEF CompactsTo
  <2> QED BY <1>6, <2>4, <2>5, <2>6
<1>8. CASE ~(Len(kept) = 1 /\ kept[1].deleted)
  <2>1. Compacted(chain, target) = kept
    BY <1>1, <1>8 DEF CompactsTo
  <2> QED BY <1>6, <2>1
<1> QED BY <1>7, <1>8

\* A compacted chain is as the invariant wants it.
LEMMA CompactedType ==
  ASSUME NEW chain \in Seq(Entry), Ordered(chain), NEW target \in Nat,
         NEW c \in Nat, c <= target, NEW top \in Nat,
         \A n \in 1..Len(chain) : chain[n].rev <= top,
         chain # <<>> /\ chain[1].deleted => chain[1].rev <= c,
         NEW left, left = Compacted(chain, target)
  PROVE  /\ left \in Seq(Entry) /\ Ordered(left)
         /\ left # <<>> /\ left[1].deleted => left[1].rev <= target
         /\ \A n \in 1..Len(left) : left[n].rev <= top
<1>1. PICK m \in Nat, kept \in Seq(Entry) : CompactsTo(chain, target, m, kept)
  BY CompactedIs
<1>2. Len(chain) \in Nat /\ Len(kept) \in Nat /\ Len(kept) = Len(chain) - m
  BY <1>1 DEF CompactsTo
<1>3. ASSUME NEW n \in 1..Len(kept)
      PROVE  m + n \in 1..Len(chain) /\ kept[n] = chain[m + n]
             /\ kept[n].rev \in Nat
  <2>1. m + n \in 1..Len(chain) /\ kept[n] = chain[m + n]
    BY <1>1, <1>2 DEF CompactsTo
  <2>2. kept[n] \in Entry
    OBVIOUS
  <2> QED BY <2>1, <2>2 DEF Entry
<1>4. Ordered(kept)
  <2> SUFFICES ASSUME NEW i \in 1..Len(kept), NEW n \in 1..Len(kept), i <= n
               PROVE  kept[i].rev <= kept[n].rev
    BY DEF Ordered
  <2>1. m + i \in 1..Len(chain) /\ m + n \in 1..Len(chain) /\ m + i <= m + n
    BY <1>3
  <2>2. chain[m + i].rev <= chain[m + n].rev
    BY <2>1 DEF Ordered
  <2> QED BY <1>3, <2>2
<1>5. kept # <<>> /\ kept[1].deleted => kept[1].rev <= target
  <2> SUFFICES ASSUME kept # <<>>, kept[1].deleted PROVE kept[1].rev <= target
    OBVIOUS
  <2>1. 1 \in 1..Len(kept)
    BY <1>2
  <2>2. m + 1 \in 1..Len(chain) /\ kept[1] = chain[m + 1] /\ kept[1].rev \in Nat
    BY <1>3, <2>1
  <2>3. CASE m > 0
    BY <1>1, <2>2, <2>3 DEF CompactsTo
  <2>4. CASE m = 0
    <3>1. chain # <<>> /\ kept[1] = chain[1]
      BY <1>2, <2>2, <2>4
    <3> QED BY <2>2, <3>1
  <2> QED BY <2>3, <2>4
<1>6. \A n \in 1..Len(kept) : kept[n].rev <= top
  BY <1>3
<1>7. left = <<>> \/ left = kept
  BY <1>1 DEF CompactsTo
<1>8. CASE left = <<>>
  BY <1>8 DEF Ordered
<1> QED BY <1>4, <1>5, <1>6, <1>7, <1>8

-----------------------------------------------------------------------------
(* The inductive invariant.                                                *)

WatchSet ==
  [span : SUBSET Key, from : Nat, opened : Nat, floor : Nat, got : Seq(EventSet)]

\* A watch was opened at a revision there has been, and what had been compacted
\* then still is.
WatchOK(w) ==
  w \in WatchSet /\ w.opened <= revision /\ w.floor <= compactRevision

HistoryOK ==
  /\ history \in Seq(EventSet)
  /\ \A n \in 1..Len(history) : history[n].rev <= revision

IInv ==
  /\ Ready
  /\ \A k \in Key : Ordered(keys[k])
  /\ HistoryOK
  /\ index \in Nat
  /\ events = Newer(history, compactRevision)
  /\ \A w \in watchers : WatchOK(w)
  /\ EventsMatchChains
  /\ WatchComplete

Wanted(w) == {e \in EventSet : Due(w, e)}

LEMMA WantedIs ==
  ASSUME NEW h \in Seq(EventSet), NEW w
  PROVE  Only(h, {e \in ToSet(h) : Due(w, e)})
           = Only(h, Wanted(w))
<1> DEFINE S == {e \in ToSet(h) : Due(w, e)}
<1>1. \A n \in 1..Len(h) : h[n] \in S <=> h[n] \in Wanted(w)
  BY DEF ToSet, Wanted
<1> HIDE DEF S
<1>2. Only(h, S) = Only(h, Wanted(w))
  BY <1>1, OnlySame
<1> QED BY <1>2 DEF S

LEMMA TailIs ==
  ASSUME NEW X, NEW s \in Seq(X), NEW t \in Seq(X), NEW u, u = s \o t
  PROVE  SubSeq(u, Len(s) + 1, Len(u)) = t
<1>1. u \in Seq(X) /\ Len(s) \in Nat /\ Len(t) \in Nat /\ Len(u) = Len(s) + Len(t)
      /\ \A n \in 1..Len(t) : u[Len(s) + n] = t[n]
  OBVIOUS
<1> DEFINE v == SubSeq(u, Len(s) + 1, Len(u))
<1>2. v \in Seq(X) /\ Len(v) = Len(t)
      /\ \A n \in 1..Len(t) : v[n] = u[Len(s) + n]
  BY <1>1
<1> HIDE DEF v
<1>3. v = t
  BY <1>1, <1>2, SameSeq
<1> QED BY <1>3 DEF v

\* The watchers when the events new have been sent.
Sent(new) ==
  {[w EXCEPT !.got = @ \o Only(new, {e \in ToSet(new) : Covers(w, e)})] :
     w \in watchers}

\* What a store that has grown by a batch publishes.
LEMMA CommitIs ==
  ASSUME Ready, NEW rev, rev = revision + 1, NEW st, NEW new, Wrote(st, new, rev),
         Commit(st, rev)
  PROVE  /\ keys' = st.keys /\ events' = events \o new
         /\ history' = history \o new
         /\ revision' = IF new = <<>> THEN revision ELSE rev
         /\ watchers' = Sent(new)
<1>1. SubSeq(st.events, Len(events) + 1, Len(st.events)) = new
  <2>1. events \in Seq(EventSet) /\ new \in Seq(EventSet)
        /\ st.events = events \o new
    BY DEF Ready, Wrote
  <2>2. PICK ev : ev = events
    OBVIOUS
  <2>3. PICK u : u = st.events
    OBVIOUS
  <2>4. SubSeq(u, Len(ev) + 1, Len(u)) = new
    BY <2>1, <2>2, <2>3, TailIs
  <2> QED BY <2>2, <2>3, <2>4
<1> QED BY <1>1 DEF Commit, Publish, Wrote, Sent

LEMMA CommitKeeps ==
  ASSUME IInv, NEW rev, rev = revision + 1, NEW st, Batch(st, rev),
         Commit(st, rev), compactRevision' = compactRevision,
         leases' \in LeaseTable, index' \in Nat
  PROVE  IInv'
<1>1. PICK new : Wrote(st, new, rev)
  BY DEF Batch
<1>2. /\ keys' = st.keys /\ events' = events \o new
      /\ history' = history \o new
      /\ revision' = IF new = <<>> THEN revision ELSE rev
      /\ watchers' = Sent(new)
  <2>1. Ready
    BY DEF IInv
  <2> QED BY <1>1, <2>1, CommitIs
<1>3. /\ revision \in Nat /\ compactRevision \in 0..revision /\ rev \in Nat
      /\ revision' \in Nat /\ revision <= revision' /\ revision' <= rev
      /\ new # <<>> => revision' = rev
  BY <1>2 DEF IInv, Ready
<1>4. /\ new \in Seq(EventSet) /\ Len(new) \in Nat
      /\ \A n \in 1..Len(new) : new[n].rev = rev
  BY <1>1 DEF Wrote
<1>5. ASSUME NEW k \in Key
      PROVE  /\ keys[k] \in Seq(Entry) /\ EntriesOf(new, k) \in Seq(Entry)
             /\ keys'[k] = keys[k] \o EntriesOf(new, k)
             /\ \A n \in 1..Len(EntriesOf(new, k)) : EntriesOf(new, k)[n].rev = rev
  <2>1. keys[k] \in Seq(Entry) /\ keys'[k] = keys[k] \o EntriesOf(new, k)
    BY <1>1, <1>2 DEF IInv, Ready, Wrote
  <2>2. EntriesOf(new, k) \in Seq(Entry)
    BY <1>4, EntriesType
  <2>3. \A n \in 1..Len(EntriesOf(new, k)) : EntriesOf(new, k)[n].rev = rev
    <3>1. PICK x : x = k
      OBVIOUS
    <3>2. \A n \in 1..Len(EntriesOf(new, x)) : EntriesOf(new, x)[n].rev = rev
      BY ONLY <1>4, EntriesRev
    <3> QED BY <3>1, <3>2
  <2> QED BY <2>1, <2>2, <2>3
<1>6. ASSUME NEW k \in Key
      PROVE  /\ \A n \in 1..Len(keys'[k]) : keys'[k][n].rev <= revision'
             /\ Ordered(keys'[k])
  <2>1. PICK c, d, e : c = keys[k] /\ d = EntriesOf(new, k) /\ e = keys'[k]
    OBVIOUS
  <2>2. c \in Seq(Entry) /\ d \in Seq(Entry) /\ e = c \o d
        /\ \A n \in 1..Len(d) : d[n].rev = rev
    BY <1>5, <2>1
  <2>3. Ordered(c) /\ \A n \in 1..Len(c) : c[n].rev <= revision
    BY <2>1 DEF IInv, Ready
  <2>4. Len(c) \in Nat /\ Len(d) \in Nat /\ Len(e) = Len(c) + Len(d)
        /\ \A n \in 1..Len(e) : e[n] = IF n <= Len(c) THEN c[n] ELSE d[n - Len(c)]
    BY <2>2
  <2>5. \A n \in 1..Len(c) : c[n].rev \in Nat
    <3>1. \A n \in 1..Len(c) : c[n] \in Entry
      BY <2>2
    <3> QED BY <3>1 DEF Entry
  <2>6. \A n \in 1..Len(e) :
          IF n <= Len(c) THEN n \in 1..Len(c) /\ e[n] = c[n] ELSE e[n].rev = rev
    <3> SUFFICES ASSUME NEW n \in 1..Len(e)
                 PROVE  IF n <= Len(c) THEN n \in 1..Len(c) /\ e[n] = c[n]
                        ELSE e[n].rev = rev
      OBVIOUS
    <3>1. CASE n <= Len(c)
      BY <2>4, <3>1
    <3>2. CASE ~(n <= Len(c))
      <4>1. n - Len(c) \in 1..Len(d)
        BY <2>4, <3>2
      <4> QED BY <2>2, <2>4, <3>2, <4>1
    <3> QED BY <3>1, <3>2
  <2>7. \A n \in 1..Len(e) : e[n].rev <= revision'
    <3> SUFFICES ASSUME NEW n \in 1..Len(e) PROVE e[n].rev <= revision'
      OBVIOUS
    <3>1. CASE n <= Len(c)
      BY <1>3, <2>3, <2>5, <2>6, <3>1
    <3>2. CASE ~(n <= Len(c))
      <4>1. new # <<>>
        <5> SUFFICES ASSUME new = <<>> PROVE FALSE
          OBVIOUS
        <5>1. d = <<>>
          BY <2>1, EntriesEmpty
        <5> QED BY <2>4, <3>2, <5>1
      <4> QED BY <1>3, <2>6, <3>2, <4>1
    <3> QED BY <3>1, <3>2
  <2>8. Ordered(e)
    <3> SUFFICES ASSUME NEW m \in 1..Len(e), NEW n \in 1..Len(e), m <= n
                 PROVE  e[m].rev <= e[n].rev
      BY DEF Ordered
    <3>1. CASE n <= Len(c)
      <4>1. m <= Len(c)
        BY <2>4, <3>1
      <4> QED BY <2>3, <2>6, <3>1, <4>1 DEF Ordered
    <3>2. CASE ~(n <= Len(c)) /\ m <= Len(c)
      <4>1. e[n].rev = rev /\ e[m].rev <= revision /\ e[m].rev \in Nat
        BY <2>3, <2>5, <2>6, <3>2
      <4> QED BY <1>3, <4>1
    <3>3. CASE ~(n <= Len(c)) /\ ~(m <= Len(c))
      BY <1>3, <2>6, <3>3
    <3> QED BY <3>1, <3>2, <3>3
  <2> QED BY <2>1, <2>7, <2>8
<1>7. Ready'
  <2>1. keys' \in [Key -> Seq(Entry)] /\ events' \in Seq(EventSet)
    BY <1>2, <1>4 DEF Batch, StoreSet, IInv, Ready
  <2>2. ASSUME NEW k \in Key
        PROVE  keys'[k] # <<>> /\ keys'[k][1].deleted =>
                 keys'[k][1].rev <= compactRevision'
    <3>1. Started(st.keys[k])
      BY DEF Batch
    <3>2. keys'[k] = st.keys[k]
      BY <1>2
    <3> QED BY <3>1, <3>2 DEF Started
  <2>3. compactRevision' \in 0..revision'
    BY <1>3
  <2> QED BY <1>3, <1>6, <2>1, <2>2, <2>3 DEF Ready, Started, Key
<1>8. HistoryOK'
  <2>1. history \in Seq(EventSet)
        /\ \A n \in 1..Len(history) : history[n].rev <= revision
    BY DEF IInv, HistoryOK
  <2>2. PICK h, g : h = history /\ g = history'
    OBVIOUS
  <2>3. g = h \o new /\ h \in Seq(EventSet)
        /\ \A n \in 1..Len(h) : h[n].rev <= revision
    BY <1>2, <2>1, <2>2
  <2>4. g \in Seq(EventSet) /\ Len(h) \in Nat /\ Len(g) = Len(h) + Len(new)
        /\ \A n \in 1..Len(g) : g[n] = IF n <= Len(h) THEN h[n] ELSE new[n - Len(h)]
    BY <1>4, <2>3
  <2>5. \A n \in 1..Len(h) : h[n].rev \in Nat
    <3>1. \A n \in 1..Len(h) : h[n] \in EventSet
      BY <2>3
    <3> QED BY <3>1 DEF EventSet
  <2>6. ASSUME NEW n \in 1..Len(g) PROVE g[n].rev <= revision'
    <3>1. CASE n <= Len(h)
      <4>1. n \in 1..Len(h) /\ g[n] = h[n]
        BY <2>4, <3>1
      <4> QED BY <1>3, <2>3, <2>5, <4>1
    <3>2. CASE ~(n <= Len(h))
      <4>1. n - Len(h) \in 1..Len(new) /\ g[n] = new[n - Len(h)]
        BY <1>4, <2>4, <3>2
      <4>2. new # <<>>
        BY <1>4, <4>1
      <4> QED BY <1>3, <1>4, <4>1, <4>2
    <3> QED BY <3>1, <3>2
  <2> QED BY <2>2, <2>4, <2>6 DEF HistoryOK
<1>9. events' = Newer(history', compactRevision')
  <2>1. PICK h, c, g : h = history /\ c = compactRevision /\ g = history'
    OBVIOUS
  <2>2. h \in Seq(EventSet) /\ g = h \o new /\ events = Newer(h, c)
    BY <1>2, <2>1 DEF IInv, HistoryOK
  <2>3. Newer(h \o new, c) = Newer(h, c) \o Newer(new, c)
    <3>1. h \in Seq(EventSet) /\ new \in Seq(EventSet)
      BY <1>4, <2>2
    <3> QED BY ONLY <3>1, NewerConcat
  <2>4. \A n \in 1..Len(new) : new[n].rev > c
    BY <1>3, <1>4, <2>1
  <2>5. Newer(new, c) = new
    BY <1>4, <2>4, NewerAll
  <2>6. Newer(g, c) = events \o new
    BY <2>2, <2>3, <2>5
  <2> QED BY <1>2, <2>1, <2>6
<1>10. EventsMatchChains'
  <2> SUFFICES ASSUME NEW k \in Key
               PROVE  EntriesOf(events', k) = Newer(keys'[k], compactRevision')
    BY DEF EventsMatchChains, Key
  <2>1. PICK ev, ch, c, mine : ev = events /\ ch = keys[k] /\ c = compactRevision
                               /\ mine = EntriesOf(new, k)
    OBVIOUS
  <2>2. ev \in Seq(EventSet) /\ ch \in Seq(Entry) /\ mine \in Seq(Entry)
        /\ keys'[k] = ch \o mine /\ events' = ev \o new
    BY <1>2, <1>5, <2>1 DEF IInv, Ready
  <2>3. EntriesOf(ev, k) = Newer(ch, c)
    BY <2>1 DEF IInv, EventsMatchChains
  <2>4. EntriesOf(ev \o new, k) = EntriesOf(ev, k) \o mine
    BY <1>4, <2>1, <2>2, EntriesConcat
  <2>5. Newer(ch \o mine, c) = Newer(ch, c) \o Newer(mine, c)
    BY <2>2, NewerConcat
  <2>6. \A n \in 1..Len(mine) : mine[n].rev > c
    BY <1>3, <1>5, <2>1
  <2>7. Newer(mine, c) = mine
    BY <2>2, <2>6, NewerAll
  <2> QED BY <2>1, <2>2, <2>3, <2>4, <2>5, <2>7
<1>11. ASSUME NEW x \in watchers'
       PROVE  WatchOK(x)' /\ x.got = Only(history', Wanted(x))
  <2>1. PICK w \in watchers : x = [w EXCEPT !.got = @ \o Only(new,
                                     {e \in ToSet(new) : Covers(w, e)})]
    BY <1>2 DEF Sent
  <2>2. w \in WatchSet /\ w.opened <= revision /\ w.floor <= compactRevision
    BY DEF IInv, WatchOK
  <2> DEFINE S == {e \in ToSet(new) : Covers(w, e)}
  <2>3. Only(new, S) \in Seq(EventSet)
    <3> HIDE DEF S
    <3> QED BY <1>4, OnlyType
  <2>4. /\ x \in WatchSet /\ x.span = w.span /\ x.from = w.from
        /\ x.opened = w.opened /\ x.floor = w.floor /\ x.got = w.got \o Only(new, S)
    <3>1. w.got \o Only(new, S) \in Seq(EventSet)
      BY <2>2, <2>3 DEF WatchSet
    <3>2. PICK got : got = w.got \o Only(new, S)
      OBVIOUS
    <3>3. x = [w EXCEPT !.got = got]
      BY <2>1, <3>2
    <3> HIDE DEF S
    <3>4. got \in Seq(EventSet)
      BY <3>1, <3>2
    <3> QED BY ONLY <2>2, <3>2, <3>3, <3>4 DEF WatchSet
  <2>5. Only(new, S) = Only(new, Wanted(w))
    <3>1. ASSUME NEW n \in 1..Len(new) PROVE new[n] \in S <=> new[n] \in Wanted(w)
      <4>1. new[n] \in EventSet /\ new[n] \in ToSet(new) /\ new[n].rev = rev
        BY <1>4 DEF ToSet
      <4>2. w.opened \in Nat /\ w.floor \in Nat
        BY <2>2 DEF WatchSet
      <4>3. rev > w.opened /\ rev > w.floor
        BY <1>3, <2>2, <4>2
      <4> QED BY <4>1, <4>3 DEF Covers, Wanted, Due
    <3> HIDE DEF S
    <3> QED BY <1>4, <3>1, OnlySame
  <2> HIDE DEF S
  <2>6. w.got = Only(history, Wanted(w))
    <3>1. PICK h : h = history
      OBVIOUS
    <3>2. h \in Seq(EventSet)
      BY <3>1 DEF IInv, HistoryOK
    <3>3. Only(h, {e \in ToSet(h) : Due(w, e)})
            = Only(h, Wanted(w))
      BY <3>2, WantedIs
    <3> QED BY <3>1, <3>3 DEF IInv, WatchComplete
  <2>7. Only(history', Wanted(w)) = Only(history, Wanted(w)) \o Only(new, Wanted(w))
    <3>1. PICK h, S2 : h = history /\ S2 = Wanted(w)
      OBVIOUS
    <3>2. h \in Seq(EventSet)
      BY <3>1 DEF IInv, HistoryOK
    <3>3. Only(h \o new, S2) = Only(h, S2) \o Only(new, S2)
      BY <1>4, <3>2, OnlyConcat
    <3> QED BY <1>2, <3>1, <3>3
  <2>8. Wanted(x) = Wanted(w)
    BY <2>4 DEF Wanted, Due
  <2>9. WatchOK(x)'
    <3>1. w.opened \in Nat /\ w.floor \in Nat
      BY <2>2 DEF WatchSet
    <3>2. x.opened <= revision' /\ x.floor <= compactRevision'
      BY <1>3, <2>2, <2>4, <3>1
    <3> QED BY <2>4, <3>2 DEF WatchOK
  <2> QED BY <2>4, <2>5, <2>6, <2>7, <2>8, <2>9
<1>12. WatchComplete'
  <2>1. PICK g : g = history'
    OBVIOUS
  <2>2. g \in Seq(EventSet)
    BY <1>8, <2>1 DEF HistoryOK
  <2>3. ASSUME NEW x \in watchers'
        PROVE  x.got = Only(history', {e \in ToSet(history') : Due(x, e)})
    <3>1. Only(g, {e \in ToSet(g) : Due(x, e)})
            = Only(g, Wanted(x))
      BY <2>2, WantedIs
    <3> QED BY <1>11, <2>1, <3>1
  <2> QED BY <2>3 DEF WatchComplete
<1> QED BY <1>6, <1>7, <1>8, <1>9, <1>10, <1>11, <1>12 DEF IInv

-----------------------------------------------------------------------------
(* The actions.                                                            *)

LEMMA InitIInv == Init => IInv
<1> SUFFICES ASSUME Init PROVE IInv
  OBVIOUS
<1>1. keys = [k \in Key |-> <<>>] /\ events = <<>> /\ history = <<>>
      /\ revision = 0 /\ compactRevision = 0 /\ watchers = {} /\ index = 0
  BY DEF Init
<1>2. leases \in [{} -> SUBSET Key]
  BY DEF Init
<1>3. leases \in LeaseTable
  BY <1>2 DEF LeaseTable
<1>4. \A k \in Key : keys[k] = <<>>
  BY <1>1
<1>5. <<>> \in Seq(Entry) /\ <<>> \in Seq(EventSet) /\ Len(<<>>) = 0
  OBVIOUS
<1>6. Ready
  <2>1. keys \in [Key -> Seq(Entry)]
    BY <1>1, <1>5
  <2>2. \A k \in Key : /\ Started(keys[k])
                       /\ \A n \in 1..Len(keys[k]) : keys[k][n].rev <= revision
    BY <1>4, <1>5 DEF Started
  <2> QED BY <1>1, <1>3, <1>5, <2>1, <2>2 DEF Ready
<1>7. \A k \in Key : Ordered(keys[k])
  BY <1>4, <1>5 DEF Ordered
<1>8. HistoryOK
  BY <1>1, <1>5 DEF HistoryOK
<1>9. Newer(<<>>, 0) = <<>>
  BY OnlyEmpty DEF Newer
<1>10. EventsMatchChains
  BY <1>1, <1>4, <1>9, EntriesEmpty DEF EventsMatchChains
<1>11. WatchComplete
  BY <1>1 DEF WatchComplete
<1> QED BY <1>1, <1>6, <1>7, <1>8, <1>9, <1>10, <1>11 DEF IInv

\* A command that writes: a batch is committed whole, or nothing of it is.
Writes(st, rev) ==
  /\ rev = revision + 1 /\ Batch(st, rev) /\ Commit(st, rev)
  /\ compactRevision' = compactRevision
  /\ leases' \in LeaseTable /\ index' \in Nat
  /\ outcome' = "rejected" => st.keys = keys /\ st.events = events

LEMMA TxnWrites ==
  ASSUME IInv, NEW cmd \in Txn, ApplyTxn(cmd)
  PROVE  \E st, rev : Writes(st, rev)
<1>1. PICK rev : rev = revision + 1
  OBVIOUS
<1>2. PICK ops : ops = IF \A cmp \in cmd.compare : Compare(cmp) THEN cmd.success
                       ELSE cmd.failure
  OBVIOUS
<1>3. ops \in Seq(Op)
  BY <1>2, TxnAssumption
<1>4. PICK tried : tried = Attempt(ops, rev)
  OBVIOUS
<1>5. PICK st : st = IF tried.failed THEN Rollback(tried, rev) ELSE tried
  OBVIOUS
<1>6. /\ index' = index + 1
      /\ outcome' = (IF tried.failed THEN "rejected" ELSE "done")
      /\ leases' = st.leases /\ Commit(st, rev)
      /\ compactRevision' = compactRevision
  BY <1>1, <1>2, <1>4, <1>5 DEF ApplyTxn, Apply
<1>7. Ready
  BY DEF IInv
<1>8. Batch(tried, rev)
  BY <1>1, <1>3, <1>4, <1>7, AttemptIsBatch
<1>9. Batch(st, rev)
  <2>1. Batch(Rollback(tried, rev), rev)
    BY <1>1, <1>7, <1>8, RollbackIsBatch
  <2> QED BY <1>5, <1>8, <2>1
<1>10. outcome' = "rejected" => st.keys = keys /\ st.events = events
  <2>1. Rollback(tried, rev).keys = keys /\ Rollback(tried, rev).events = events
    BY <1>1, <1>7, <1>8, RollbackRestores
  <2> QED BY <1>5, <1>6, <2>1
<1>11. st.leases \in LeaseTable
  BY <1>9 DEF Batch, StoreSet
<1>12. index' \in Nat
  BY <1>6 DEF IInv
<1>13. Writes(st, rev)
  BY <1>1, <1>6, <1>9, <1>10, <1>11, <1>12 DEF Writes
<1> QED BY <1>13

LEMMA RevokeWrites ==
  ASSUME IInv, NEW id \in DOMAIN leases, ApplyLeaseRevoke(id)
  PROVE  \E st, rev : Writes(st, rev)
<1>1. PICK rev : rev = revision + 1
  OBVIOUS
<1>2. PICK ks : ks = leases[id]
  OBVIOUS
<1>3. PICK base : base = Store
  OBVIOUS
<1>4. PICK st : st = DeleteAt(base, rev, ks)
  OBVIOUS
<1>5. /\ index' = index + 1 /\ outcome' = "done"
      /\ leases' = [x \in DOMAIN leases \ {id} |-> st.leases[x]]
      /\ Commit(st, rev) /\ compactRevision' = compactRevision
  BY <1>1, <1>2, <1>3, <1>4 DEF ApplyLeaseRevoke, Apply, RevokeRevision
<1>6. Ready
  BY DEF IInv
<1>7. Batch(base, rev)
  BY <1>1, <1>3, <1>6, StoreIsBatch
<1>8. Batch(st, rev)
  BY <1>1, <1>4, <1>6, <1>7, DeleteKeepsBatch
<1>9. leases' \in LeaseTable
  <2>1. PICK D \in SUBSET Nat : st.leases \in [D -> SUBSET Key]
    BY <1>8 DEF Batch, StoreSet, LeaseTable
  <2>2. D = DOMAIN leases
    BY <1>8, <2>1 DEF Batch
  <2>3. leases' \in [D \ {id} -> SUBSET Key] /\ D \ {id} \in SUBSET Nat
    BY <1>5, <2>1, <2>2
  <2> QED BY <2>3 DEF LeaseTable
<1>10. index' \in Nat
  BY <1>5 DEF IInv
<1>11. Writes(st, rev)
  BY <1>1, <1>5, <1>8, <1>9, <1>10 DEF Writes
<1> QED BY <1>11

LEMMA SeedKeeps ==
  ASSUME IInv, NEW r \in Seed, ApplySeed(r)
  PROVE  IInv'
<1>1. /\ index' = index + 1 /\ r > revision /\ revision' = r
      /\ UNCHANGED <<compactRevision, keys, events, leases, watchers, history>>
  BY DEF ApplySeed, Apply
<1>2. revision \in Nat /\ revision' \in Nat /\ revision <= revision'
      /\ compactRevision \in 0..revision
  BY <1>1, SeedAssumption DEF IInv, Ready
<1>3. Ready'
  <2>1. ASSUME NEW k \in Key, NEW n \in 1..Len(keys[k])
        PROVE  keys[k][n].rev <= revision'
    <3>1. keys[k] \in Seq(Entry) /\ keys[k][n].rev <= revision
      BY DEF IInv, Ready
    <3>2. keys[k][n] \in Entry
      BY <3>1
    <3>3. keys[k][n].rev \in Nat
      BY <3>2 DEF Entry
    <3> QED BY <1>2, <3>1, <3>3
  <2>2. compactRevision' \in 0..revision'
    BY <1>1, <1>2
  <2> QED BY <1>1, <1>2, <2>1, <2>2 DEF IInv, Ready, Started, Key
<1>4. HistoryOK'
  <2>1. ASSUME NEW n \in 1..Len(history) PROVE history[n].rev <= revision'
    <3>1. history[n] \in EventSet /\ history[n].rev <= revision
      BY DEF IInv, HistoryOK
    <3>2. history[n].rev \in Nat
      BY <3>1 DEF EventSet
    <3> QED BY <1>2, <3>1, <3>2
  <2> QED BY <1>1, <2>1 DEF IInv, HistoryOK
<1>5. ASSUME NEW w \in watchers' PROVE WatchOK(w)'
  <2>1. WatchOK(w)
    BY <1>1 DEF IInv
  <2>2. w.opened \in Nat /\ w.opened <= revision'
    BY <1>2, <2>1 DEF WatchOK, WatchSet
  <2> QED BY <1>1, <2>1, <2>2 DEF WatchOK
<1>6. EventsMatchChains' /\ WatchComplete'
  BY <1>1 DEF IInv, EventsMatchChains, WatchComplete
<1> QED BY <1>1, <1>3, <1>4, <1>5, <1>6 DEF IInv, Ordered

LEMMA GrantKeeps ==
  ASSUME IInv, NEW name \in LeaseName, ApplyLeaseGrant(name)
  PROVE  IInv'
<1>1. PICK id : id = IF name = 0 THEN index + 1 ELSE name
  OBVIOUS
<1>2. /\ index' = index + 1
      /\ leases' = [x \in DOMAIN leases \cup {id} |->
                      IF x = id THEN {} ELSE leases[x]]
      /\ UNCHANGED <<revision, compactRevision, keys, events, watchers, history>>
  BY <1>1 DEF ApplyLeaseGrant, Apply
<1>3. leases' \in LeaseTable
  <2>1. PICK D \in SUBSET Nat : leases \in [D -> SUBSET Key]
    BY DEF IInv, Ready, LeaseTable
  <2>2. id \in Nat
    BY <1>1, SeedAssumption DEF IInv
  <2>3. leases' \in [D \cup {id} -> SUBSET Key] /\ D \cup {id} \in SUBSET Nat
    BY <1>2, <2>1, <2>2
  <2> QED BY <2>3 DEF LeaseTable
<1>4. index' \in Nat
  BY <1>2 DEF IInv
<1>5. Ready'
  BY <1>2, <1>3 DEF IInv, Ready, Started, Key
<1>6. HistoryOK' /\ EventsMatchChains' /\ WatchComplete'
  BY <1>2 DEF IInv, HistoryOK, EventsMatchChains, WatchComplete
<1>7. \A w \in watchers' : WatchOK(w)'
  BY <1>2 DEF IInv, WatchOK
<1> QED BY <1>2, <1>4, <1>5, <1>6, <1>7 DEF IInv, Ordered

LEMMA CompactKeeps ==
  ASSUME IInv, NEW target \in 1..revision, ApplyCompact(target)
  PROVE  IInv'
<1>1. /\ index' = index + 1 /\ compactRevision < target /\ target <= revision
      /\ compactRevision' = target
      /\ keys' = [k \in Key |-> Compacted(keys[k], target)]
      /\ events' = Newer(events, target)
      /\ UNCHANGED <<revision, leases, watchers, history>>
  BY DEF ApplyCompact, Apply
<1>2. /\ revision \in Nat /\ compactRevision \in Nat /\ target \in Nat
      /\ compactRevision <= target
  BY <1>1 DEF IInv, Ready
<1>3. ASSUME NEW k \in Key
      PROVE  /\ keys[k] \in Seq(Entry) /\ Ordered(keys[k])
             /\ keys[k] # <<>> /\ keys[k][1].deleted =>
                  keys[k][1].rev <= compactRevision
             /\ \A n \in 1..Len(keys[k]) : keys[k][n].rev <= revision
             /\ keys'[k] = Compacted(keys[k], target)
  BY <1>1 DEF IInv, Ready, Started
<1>4. ASSUME NEW k \in Key
      PROVE  /\ keys'[k] \in Seq(Entry) /\ Ordered(keys'[k])
             /\ keys'[k] # <<>> /\ keys'[k][1].deleted => keys'[k][1].rev <= target
             /\ \A n \in 1..Len(keys'[k]) : keys'[k][n].rev <= revision
             /\ Newer(keys'[k], target) = Newer(keys[k], target)
  <2>1. PICK chain, left, c, top : /\ chain = keys[k] /\ left = keys'[k]
                                   /\ c = compactRevision /\ top = revision
    OBVIOUS
  <2>2. /\ chain \in Seq(Entry) /\ Ordered(chain)
        /\ chain # <<>> /\ chain[1].deleted => chain[1].rev <= c
        /\ \A n \in 1..Len(chain) : chain[n].rev <= top
        /\ left = Compacted(chain, target)
    BY <1>3, <2>1
  <2>3. c \in Nat /\ top \in Nat /\ target \in Nat /\ c <= target
    BY <1>2, <2>1
  <2>4. /\ left \in Seq(Entry) /\ Ordered(left)
        /\ left # <<>> /\ left[1].deleted => left[1].rev <= target
        /\ \A n \in 1..Len(left) : left[n].rev <= top
    BY ONLY <2>2, <2>3, CompactedType
  <2>5. Newer(Compacted(chain, target), target) = Newer(chain, target)
    BY ONLY <2>2, <2>3, CompactedNewer
  <2> QED BY <2>1, <2>2, <2>4, <2>5
<1>5. PICK ev, h, c : ev = events /\ h = history /\ c = compactRevision
  OBVIOUS
<1>6. /\ ev \in Seq(EventSet) /\ h \in Seq(EventSet) /\ ev = Newer(h, c)
      /\ c \in Nat /\ c <= target /\ \A e \in EventSet : e.rev \in Nat
      /\ events' = Newer(ev, target) /\ history' = h
  BY <1>1, <1>2, <1>5 DEF IInv, Ready, HistoryOK, EventSet
<1>7. events' \in Seq(EventSet) /\ events' = Newer(history', compactRevision')
  <2>1. Newer(ev, target) \in Seq(EventSet)
    BY <1>6, NewerType
  <2>2. Newer(Newer(h, c), target) = Newer(h, target)
    <3>1. target \in Nat
      BY <1>2
    <3> QED BY ONLY <1>6, <3>1, NewerNewer
  <2> QED BY <1>1, <1>6, <2>1, <2>2
<1>8. Ready'
  <2>1. keys' \in [Key -> Seq(Entry)]
    BY <1>1, <1>4
  <2>2. compactRevision' \in 0..revision'
    BY <1>1, <1>2
  <2>3. leases' \in LeaseTable /\ revision' \in Nat
    BY <1>1 DEF IInv, Ready
  <2> QED BY <1>1, <1>4, <1>7, <2>1, <2>2, <2>3 DEF Ready, Started, Key
<1>9. HistoryOK'
  BY <1>1 DEF IInv, HistoryOK
<1>10. ASSUME NEW w \in watchers' PROVE WatchOK(w)'
  <2>1. WatchOK(w)
    BY <1>1 DEF IInv
  <2>2. w.floor \in Nat /\ w.floor <= target
    BY <1>2, <2>1 DEF WatchOK, WatchSet
  <2> QED BY <1>1, <2>1, <2>2 DEF WatchOK
<1>11. ASSUME NEW k \in Key
       PROVE  EntriesOf(events', k) = Newer(keys'[k], compactRevision')
  <2>1. PICK chain : chain = keys[k]
    OBVIOUS
  <2>2. chain \in Seq(Entry) /\ \A e \in Entry : e.rev \in Nat
    BY <1>3, <2>1 DEF Entry
  <2>3. EntriesOf(ev, k) = Newer(chain, c)
    BY <1>5, <2>1 DEF IInv, EventsMatchChains
  <2>4. EntriesOf(Newer(ev, target), k) = Newer(EntriesOf(ev, k), target)
    BY <1>6, EntriesNewer
  <2>5. Newer(Newer(chain, c), target) = Newer(chain, target)
    <3>1. target \in Nat /\ c \in Nat /\ c <= target
      BY <1>2, <1>6
    <3> QED BY ONLY <2>2, <3>1, NewerNewer
  <2>6. Newer(keys'[k], target) = Newer(chain, target)
    BY <1>4, <2>1
  <2> QED BY <1>1, <1>6, <2>3, <2>4, <2>5, <2>6
<1>12. EventsMatchChains'
  BY <1>11 DEF EventsMatchChains, Key
<1>13. WatchComplete'
  BY <1>1 DEF IInv, WatchComplete
<1>14. index' \in Nat
  BY <1>1 DEF IInv
<1>15. \A k \in Key : Ordered(keys'[k])
  BY <1>4
<1> QED BY <1>7, <1>8, <1>9, <1>10, <1>12, <1>13, <1>14, <1>15 DEF IInv, Ordered, Key

\* A watch that is opened: its backlog is what it wants of the history so far.
LEMMA WatchKeeps ==
  ASSUME IInv, NEW span \in Span, NEW start \in Start,
         Watch(span, start)
  PROVE  IInv'
<1> DEFINE got == IF start = 0 THEN <<>> ELSE Backlog(span, start)
           fresh == [span |-> span,
                     from |-> IF start = 0 THEN revision + 1 ELSE start,
                     opened |-> revision, floor |-> compactRevision,
                     got |-> got]
<1>1. /\ start = 0 \/ start >= compactRevision
      /\ watchers' = watchers \cup {fresh}
      /\ UNCHANGED <<revision, compactRevision, keys, events, leases, index,
                     outcome, history>>
  BY DEF Watch
<1>2. revision \in Nat /\ compactRevision \in 0..revision /\ start \in Nat
  BY StartAssumption DEF IInv, Ready
<1>3. PICK ev, h, c : ev = events /\ h = history /\ c = compactRevision
  OBVIOUS
<1>4. ev \in Seq(EventSet) /\ h \in Seq(EventSet) /\ ev = Newer(h, c)
      /\ c \in Nat /\ \A n \in 1..Len(h) : h[n].rev <= revision
  BY <1>2, <1>3 DEF IInv, Ready, HistoryOK
<1>5. got \in Seq(EventSet) /\ got = Only(h, Wanted(fresh))
  <2>1. CASE start = 0
    <3>1. ASSUME NEW n \in 1..Len(h) PROVE h[n] \notin Wanted(fresh)
      <4>1. h[n] \in EventSet /\ h[n].rev <= revision
        BY <1>4
      <4>2. h[n].rev \in Nat
        BY <4>1 DEF EventSet
      <4>3. ~(h[n].rev >= fresh.from) /\ ~(h[n].rev > fresh.opened)
        BY <1>2, <2>1, <4>1, <4>2
      <4> HIDE DEF fresh
      <4> QED BY <4>3 DEF Wanted, Due
    <3> HIDE DEF fresh
    <3>2. Only(h, Wanted(fresh)) = <<>>
      BY <1>4, <3>1, OnlyNone
    <3> QED BY <2>1, <3>2
  <2>2. CASE start # 0
    <3> DEFINE S == {e \in ToSet(ev) : e.rev >= start /\ e.key \in span}
               T == {e \in EventSet : e.rev >= start /\ e.key \in span}
    <3>1. got = Only(ev, S)
      BY <1>3, <2>2 DEF Backlog
    <3>2. \A n \in 1..Len(ev) : ev[n] \in S <=> ev[n] \in T
      BY <1>4 DEF ToSet
    <3>3. ASSUME NEW n \in 1..Len(h)
          PROVE  h[n] \in Wanted(fresh) <=> h[n] \in Above(EventSet, c) \cap T
      <4>1. h[n] \in EventSet /\ h[n].rev <= revision
        BY <1>4
      <4>2. h[n].rev \in Nat
        BY <4>1 DEF EventSet
      <4>3. ~(h[n].rev > fresh.opened)
        BY <1>2, <4>1, <4>2
      <4>4. /\ fresh.from = start /\ fresh.floor = c /\ fresh.span = span
        BY <1>3, <2>2
      <4> HIDE DEF fresh, got
      <4> QED BY <4>1, <4>3, <4>4 DEF Wanted, Due, Above
    <3> HIDE DEF S, T, got, fresh
    <3>4. Only(ev, S) = Only(ev, T) /\ Only(ev, S) \in Seq(EventSet)
      BY <1>4, <3>2, OnlySame, OnlyType
    <3>5. ev = Only(h, Above(EventSet, c))
      BY <1>4, NewerIs
    <3>6. PICK A : A = Above(EventSet, c)
      OBVIOUS
    <3>7. Only(Only(h, A), T) = Only(h, A \cap T)
      BY <1>4, OnlyOnly
    <3>8. Only(h, Wanted(fresh)) = Only(h, A \cap T)
      BY <1>4, <3>3, <3>6, OnlySame
    <3> QED BY <3>1, <3>4, <3>5, <3>6, <3>7, <3>8
  <2> QED BY <2>1, <2>2
<1>6. fresh \in WatchSet /\ fresh.opened <= revision
      /\ fresh.floor = compactRevision /\ fresh.got = got
  <2>1. span \in SUBSET Key
    BY SpanAssumption
  <2>2. (IF start = 0 THEN revision + 1 ELSE start) \in Nat
    BY <1>2
  <2> HIDE DEF got
  <2> QED BY <1>2, <1>5, <2>1, <2>2 DEF WatchSet
<1> HIDE DEF fresh, got
<1>7. ASSUME NEW w \in watchers'
      PROVE  WatchOK(w)' /\ w.got = Only(h, {e \in ToSet(h) : Due(w, e)})
  <2>1. CASE w \in watchers
    BY <1>1, <1>3, <2>1 DEF IInv, WatchOK, WatchComplete
  <2>2. CASE w = fresh
    <3>1. WatchOK(w)'
      BY <1>1, <1>2, <1>6, <2>2 DEF WatchOK
    <3>2. Only(h, {e \in ToSet(h) : Due(w, e)})
            = Only(h, Wanted(w))
      BY <1>4, WantedIs
    <3> QED BY <1>5, <1>6, <2>2, <3>1, <3>2
  <2> QED BY <1>1, <2>1, <2>2
<1>8. WatchComplete'
  BY <1>1, <1>3, <1>7 DEF WatchComplete
<1>9. Ready' /\ HistoryOK' /\ EventsMatchChains'
  BY <1>1 DEF IInv, Ready, Started, HistoryOK, EventsMatchChains, Key
<1> QED BY <1>1, <1>7, <1>8, <1>9 DEF IInv, Ordered

LEMMA CancelKeeps ==
  ASSUME IInv, NEW w, Cancel(w)
  PROVE  IInv'
<1>1. watchers' \subseteq watchers
      /\ UNCHANGED <<revision, compactRevision, keys, events, leases, index,
                     outcome, history>>
  BY DEF Cancel
<1>2. Ready' /\ HistoryOK' /\ EventsMatchChains'
  BY <1>1 DEF IInv, Ready, Started, HistoryOK, EventsMatchChains, Key
<1>3. WatchComplete' /\ \A x \in watchers' : WatchOK(x)'
  BY <1>1 DEF IInv, WatchComplete, WatchOK
<1> QED BY <1>1, <1>2, <1>3 DEF IInv, Ordered

LEMMA StutterKeeps ==
  ASSUME IInv, UNCHANGED vars
  PROVE  IInv'
BY DEF vars, IInv, Ready, Started, Ordered, HistoryOK, EventsMatchChains,
       WatchComplete, WatchOK, Key

LEMMA WritesKeep ==
  ASSUME IInv, NEW st, NEW rev, Writes(st, rev)
  PROVE  IInv'
BY CommitKeeps DEF Writes

\* The steps, with those that write taken together.
LEMMA StepCases ==
  ASSUME IInv, [Next]_vars
  PROVE  \/ \E st, rev : Writes(st, rev)
         \/ \E r \in Seed : ApplySeed(r)
         \/ \E target \in 1..revision : ApplyCompact(target)
         \/ \E name \in LeaseName : ApplyLeaseGrant(name)
         \/ \E span \in Span, start \in Start : Watch(span, start)
         \/ \E w \in watchers : Cancel(w)
         \/ UNCHANGED vars
<1>1. CASE \E cmd \in Txn : ApplyTxn(cmd)
  BY <1>1, TxnWrites
<1>2. CASE \E id \in DOMAIN leases : ApplyLeaseRevoke(id)
  BY <1>2, RevokeWrites
<1> QED BY <1>1, <1>2 DEF Next

LEMMA NextIInv == IInv /\ [Next]_vars => IInv'
<1> SUFFICES ASSUME IInv, [Next]_vars PROVE IInv'
  OBVIOUS
<1>1. CASE \E st, rev : Writes(st, rev)
  BY <1>1, WritesKeep
<1>2. CASE \E r \in Seed : ApplySeed(r)
  BY <1>2, SeedKeeps
<1>3. CASE \E target \in 1..revision : ApplyCompact(target)
  BY <1>3, CompactKeeps
<1>4. CASE \E name \in LeaseName : ApplyLeaseGrant(name)
  BY <1>4, GrantKeeps
<1>5. CASE \E span \in Span, start \in Start : Watch(span, start)
  BY <1>5, WatchKeeps
<1>6. CASE \E w \in watchers : Cancel(w)
  BY <1>6, CancelKeeps
<1>7. CASE UNCHANGED vars
  BY <1>7, StutterKeeps
<1> QED BY <1>1, <1>2, <1>3, <1>4, <1>5, <1>6, <1>7, StepCases

\* The keyspace in every state it can reach is as the proofs describe it.
THEOREM Invariant == Spec => []IInv
BY InitIInv, NextIInv, PTL DEF Spec

\* The event log and the chains of the keys agree: above the compact revision
\* each key's events are its entries, in order, whatever was written, deleted,
\* rolled back or compacted.
THEOREM EventsTellTheStory == Spec => []EventsMatchChains
<1>1. IInv => EventsMatchChains
  BY DEF IInv
<1> QED BY <1>1, Invariant, PTL

\* A watch has been sent exactly the events due to it, once each and in order,
\* wherever it asked to start.
THEOREM WatchesAreComplete == Spec => []WatchComplete
<1>1. IInv => WatchComplete
  BY DEF IInv
<1> QED BY <1>1, Invariant, PTL

\* A batch that fails halfway leaves no trace in the chains, the log or the
\* revision.
THEOREM RejectionsLeaveNothing == Spec => RejectedChangesNothing
<1> DEFINE A == outcome' = "rejected" =>
                  revision' = revision /\ events' = events /\ keys' = keys
<1>1. IInv /\ [Next]_vars => [A]_vars
  <2> SUFFICES ASSUME IInv, [Next]_vars, ~UNCHANGED vars, outcome' = "rejected"
               PROVE  revision' = revision /\ events' = events /\ keys' = keys
    OBVIOUS
  <2>1. CASE \E st, rev : Writes(st, rev)
    <3>1. PICK st, rev : Writes(st, rev)
      BY <2>1
    <3>2. /\ rev = revision + 1 /\ Batch(st, rev) /\ Commit(st, rev) /\ Ready
          /\ st.keys = keys /\ st.events = events
      BY <3>1 DEF Writes, IInv
    <3>3. events \in Seq(EventSet) /\ events = events \o <<>>
      BY <3>2 DEF Ready
    <3>4. Wrote(st, <<>>, rev)
      <4>1. \A k \in Key : keys[k] = keys[k] \o EntriesOf(<<>>, k)
        BY <3>2, EntriesEmpty DEF Ready
      <4>2. <<>> \in Seq(EventSet) /\ Len(<<>>) = 0
        OBVIOUS
      <4> QED BY <3>2, <3>3, <4>1, <4>2 DEF Wrote
    <3>5. revision' = revision /\ keys' = st.keys /\ events' = events \o <<>>
      BY <3>2, <3>4, CommitIs
    <3> QED BY <3>2, <3>3, <3>5
  <2>2. CASE \E r \in Seed : ApplySeed(r)
    BY <2>2 DEF ApplySeed
  <2>3. CASE \E target \in 1..revision : ApplyCompact(target)
    BY <2>3 DEF ApplyCompact
  <2>4. CASE \E name \in LeaseName : ApplyLeaseGrant(name)
    BY <2>4 DEF ApplyLeaseGrant
  <2>5. CASE \E span \in Span, start \in Start : Watch(span, start)
    BY <2>5 DEF Watch
  <2>6. CASE \E w \in watchers : Cancel(w)
    BY <2>6 DEF Cancel
  <2> QED BY <2>1, <2>2, <2>3, <2>4, <2>5, <2>6, StepCases
<1>2. IInv /\ [Next]_vars =>
        [outcome' = "rejected" =>
           /\ revision' = revision /\ events' = events
           /\ keys' = keys]_vars
  BY <1>1
<1> QED BY <1>2, Invariant, PTL DEF Spec, RejectedChangesNothing

\* A step added the events new, all at rev, and the entries they name.
Grew(new, rev) ==
  /\ \A n \in 1..Len(new) : new[n].rev = rev
  /\ history' = history \o new
  /\ revision' = IF new = <<>> THEN revision ELSE rev
  /\ \A k \in Key : keys'[k] = keys[k] \o EntriesOf(new, k)

\* What a step that writes does to a chain and to the history.
LEMMA WritesAppend ==
  ASSUME IInv, NEW st, NEW rev, Writes(st, rev)
  PROVE  \E new \in Seq(EventSet) : Grew(new, rev)
<1>1. Ready /\ rev = revision + 1 /\ Batch(st, rev) /\ Commit(st, rev)
  BY DEF Writes, IInv
<1>2. PICK new : Wrote(st, new, rev)
  BY <1>1 DEF Batch
<1>3. keys' = st.keys /\ history' = history \o new
      /\ revision' = IF new = <<>> THEN revision ELSE rev
  BY <1>1, <1>2, CommitIs
<1> QED BY <1>2, <1>3 DEF Wrote, Grew

\* d follows c in e, and r does not see it.
Unseen(c, d, e, r) ==
  e = c \o d /\ \A n \in 1..Len(d) : ~(d[n].rev <= r)

\* Entries above a revision do not change what is read at it.
LEMMA AppendedReads ==
  ASSUME NEW c \in Seq(Entry), NEW d \in Seq(Entry), NEW e,
         NEW r \in Nat, r # 0, Unseen(c, d, e, r)
  PROVE  EntryAt(c, r) = EntryAt(e, r)
<1> USE DEF Unseen
<1>1. Len(c) \in Nat /\ Len(d) \in Nat /\ Len(e) = Len(c) + Len(d) /\ e \in Seq(Entry)
      /\ \A n \in 1..Len(e) : e[n] = IF n <= Len(c) THEN c[n] ELSE d[n - Len(c)]
  OBVIOUS
<1>2. ASSUME NEW n \in 1..Len(c), r = 0 \/ c[n].rev <= r
      PROVE  \E m \in 1..Len(e) : m >= n - 0 /\ (r = 0 \/ e[m].rev <= r)
  <2>1. n \in 1..Len(e) /\ n >= n - 0 /\ e[n] = c[n]
    BY <1>1
  <2> QED BY <1>2, <2>1
<1>3. ASSUME NEW m \in 1..Len(e), r = 0 \/ e[m].rev <= r
      PROVE  m + 0 \in 1..Len(c) /\ c[m + 0] = e[m]
  <2>1. CASE m <= Len(c)
    BY <1>1, <2>1
  <2>2. CASE ~(m <= Len(c))
    <3>1. m - Len(c) \in 1..Len(d) /\ e[m] = d[m - Len(c)]
      BY <1>1, <2>2
    <3> QED BY <1>3, <3>1
  <2> QED BY <2>1, <2>2
<1>4. Shifted(c, e, r, 0)
  BY <1>2, <1>3 DEF Shifted
<1> QED BY ONLY <1>1, <1>4, c \in Seq(Entry), EntryAtMoved

\* Old revisions stay readable: no step changes what a read at a revision the
\* store still answers for returns.
THEOREM OldReadsStable == Spec => ReadsStable
<1> DEFINE Stable(k, r) == EntryAt(keys[k], r) = EntryAt(keys'[k], r)
           A == \A k \in Key : \A r \in 1..revision :
                  r >= compactRevision' => Stable(k, r)
<1>1. IInv /\ [Next]_vars => [A]_vars
  <2> SUFFICES ASSUME IInv, [Next]_vars, NEW k \in Key, NEW r \in 1..revision,
                      r >= compactRevision'
               PROVE  Stable(k, r)
    OBVIOUS
  <2>0. revision \in Nat /\ r \in Nat /\ r # 0 /\ r <= revision
    BY DEF IInv, Ready
  <2>1. CASE \E st, rev : Writes(st, rev)
    <3>1. PICK st, rev : Writes(st, rev)
      BY <2>1
    <3>2. PICK new \in Seq(EventSet) : Grew(new, rev)
      BY ONLY IInv, <3>1, WritesAppend
    <3>3. PICK c, d, e : c = keys[k] /\ d = EntriesOf(new, k) /\ e = keys'[k]
      OBVIOUS
    <3>4. c \in Seq(Entry) /\ d \in Seq(Entry) /\ e = c \o d
      BY <3>2, <3>3, EntriesType DEF IInv, Ready, Grew
    <3>5. \A n \in 1..Len(EntriesOf(new, k)) : EntriesOf(new, k)[n].rev = rev
      <4>1. PICK x : x = k
        OBVIOUS
      <4>2. \A n \in 1..Len(EntriesOf(new, x)) : EntriesOf(new, x)[n].rev = rev
        BY ONLY <3>2, EntriesRev DEF Grew
      <4> QED BY <4>1, <4>2
    <3>6. rev = revision + 1
      BY <3>1 DEF Writes
    <3>7. \A n \in 1..Len(d) : ~(d[n].rev <= r)
      BY <2>0, <3>3, <3>5, <3>6
    <3>8. Unseen(c, d, e, r)
      BY <3>4, <3>7 DEF Unseen
    <3>9. EntryAt(c, r) = EntryAt(e, r)
      BY ONLY <2>0, <3>4, <3>8, AppendedReads
    <3> QED BY <3>3, <3>9
  <2>2. CASE \E target \in 1..revision : ApplyCompact(target)
    <3>1. PICK target \in 1..revision : ApplyCompact(target)
      BY <2>2
    <3>2. compactRevision' = target /\ keys'[k] = Compacted(keys[k], target)
      BY <3>1 DEF ApplyCompact
    <3>3. PICK c : c = keys[k]
      OBVIOUS
    <3>4. c \in Seq(Entry) /\ Ordered(c) /\ target \in Nat /\ r >= target
      BY <2>0, <3>1, <3>2, <3>3 DEF IInv, Ready
    <3>5. EntryAt(Compacted(c, target), r) = EntryAt(c, r)
      BY <2>0, <3>4, CompactedReads
    <3> QED BY <3>2, <3>3, <3>5
  <2>3. CASE keys' = keys
    BY <2>3
  <2>4. CASE \E r2 \in Seed : ApplySeed(r2)
    BY <2>3, <2>4 DEF ApplySeed
  <2>5. CASE \E name \in LeaseName : ApplyLeaseGrant(name)
    BY <2>3, <2>5 DEF ApplyLeaseGrant
  <2>6. CASE \E span \in Span, start \in Start : Watch(span, start)
    BY <2>3, <2>6 DEF Watch
  <2>7. CASE \E w \in watchers : Cancel(w)
    BY <2>3, <2>7 DEF Cancel
  <2>8. CASE UNCHANGED vars
    BY <2>3, <2>8 DEF vars
  <2> QED BY <2>1, <2>2, <2>4, <2>5, <2>6, <2>7, <2>8, StepCases
<1>2. IInv /\ [Next]_vars =>
        [\A k \in Key : \A r \in 1..revision :
           r >= compactRevision' => EntryAt(keys[k], r) = EntryAt(keys'[k], r)]_vars
  BY <1>1
<1> QED BY <1>2, Invariant, PTL DEF Spec, ReadsStable

LEMMA NoEventsNoEntries ==
  ASSUME NEW new \in Seq(EventSet), NEW k, \A n \in 1..Len(new) : new[n].key # k
  PROVE  EntriesOf(new, k) = <<>>
<1>1. \A n \in 1..Len(new) : new[n] \notin OfKey(k)
  BY DEF OfKey
<1>2. Only(new, OfKey(k)) = <<>>
  BY <1>1, OnlyNone
<1>3. EntriesOf(new, k) = [n \in DOMAIN Only(new, OfKey(k)) |->
                             Only(new, OfKey(k))[n].entry]
  BY EntriesAre
<1> QED BY <1>2, <1>3

\* A live value changes only with a new revision, and the events of that
\* revision name the keys whose values changed.
THEOREM ChangesAreAnnounced == Spec => ChangesAnnounced
<1> DEFINE Fresh == {n \in DOMAIN history' : n > Len(history)}
           A == /\ \A n \in Fresh : history'[n].rev = revision' /\ revision' > revision
                /\ {k \in Key : EntryAt(keys'[k], 0) # Live(k)} \subseteq
                     {history'[n].key : n \in Fresh}
<1>1. IInv /\ [Next]_vars => [A]_vars
  <2> SUFFICES ASSUME IInv, [Next]_vars PROVE A
    OBVIOUS
  <2>0. revision \in Nat /\ history \in Seq(EventSet)
    BY DEF IInv, Ready, HistoryOK
  <2>1. CASE \E st, rev : Writes(st, rev)
    <3>1. PICK st, rev : Writes(st, rev)
      BY <2>1
    <3>2. PICK new \in Seq(EventSet) : Grew(new, rev)
      BY ONLY IInv, <3>1, WritesAppend
    <3>3. rev = revision + 1
      BY <3>1 DEF Writes
    <3>4. PICK h, g : h = history /\ g = history'
      OBVIOUS
    <3>5. /\ Len(h) \in Nat /\ Len(new) \in Nat /\ Len(g) = Len(h) + Len(new)
          /\ DOMAIN g = 1..Len(g)
          /\ \A n \in 1..Len(new) : g[Len(h) + n] = new[n]
      BY <2>0, <3>2, <3>4 DEF Grew
    <3>6. ASSUME NEW n \in Fresh
          PROVE  history'[n].rev = revision' /\ revision' > revision
      <4>1. n - Len(h) \in 1..Len(new) /\ Len(h) + (n - Len(h)) = n
        BY <3>4, <3>5
      <4>2. g[n] = new[n - Len(h)] /\ new # <<>>
        BY <3>5, <4>1
      <4> QED BY <2>0, <3>2, <3>3, <3>4, <4>1, <4>2 DEF Grew
    <3>7. ASSUME NEW k \in Key, EntryAt(keys'[k], 0) # Live(k)
          PROVE  \E n \in Fresh : history'[n].key = k
      <4>1. keys'[k] # keys[k]
        BY <3>7 DEF Live
      <4>2. EntriesOf(new, k) # <<>>
        <5>1. PICK x : x = keys[k]
          OBVIOUS
        <5>2. x \in Seq(Entry) /\ keys'[k] = x \o EntriesOf(new, k)
          BY <3>2, <5>1 DEF IInv, Ready, Grew
        <5>3. x \o <<>> = x
          BY ONLY <5>2
        <5> QED BY <4>1, <5>1, <5>2, <5>3
      <4>3. PICK n \in 1..Len(new) : new[n].key = k
        BY <4>2, NoEventsNoEntries
      <4>4. Len(h) + n \in DOMAIN g /\ Len(h) + n > Len(h) /\ g[Len(h) + n] = new[n]
        BY <3>5
      <4> QED BY <3>4, <4>3, <4>4
    <3> QED BY <3>6, <3>7
  <2>2. CASE history' = history /\ \A k \in Key : EntryAt(keys'[k], 0) = Live(k)
    <3>1. \A n \in DOMAIN history : ~(n > Len(history))
      BY <2>0
    <3> QED BY <2>2, <3>1
  <2>3. CASE history' = history /\ keys' = keys
    BY <2>2, <2>3 DEF Live
  <2>4. CASE \E target \in 1..revision : ApplyCompact(target)
    <3>1. PICK target \in 1..revision : ApplyCompact(target)
      BY <2>4
    <3>2. history' = history
      BY <3>1 DEF ApplyCompact
    <3>3. ASSUME NEW k \in Key PROVE EntryAt(keys'[k], 0) = Live(k)
      <4>1. keys'[k] = Compacted(keys[k], target)
        BY <3>1 DEF ApplyCompact
      <4>2. PICK c : c = keys[k]
        OBVIOUS
      <4>3. c \in Seq(Entry) /\ Ordered(c) /\ target \in Nat
        BY <2>0, <4>2 DEF IInv, Ready
      <4>4. EntryAt(Compacted(c, target), 0) = EntryAt(c, 0)
        BY <4>3, CompactedReads
      <4> QED BY <4>1, <4>2, <4>4 DEF Live
    <3> QED BY <2>2, <3>2, <3>3
  <2>5. CASE \E r \in Seed : ApplySeed(r)
    BY <2>3, <2>5 DEF ApplySeed
  <2>6. CASE \E name \in LeaseName : ApplyLeaseGrant(name)
    BY <2>3, <2>6 DEF ApplyLeaseGrant
  <2>7. CASE \E span \in Span, start \in Start : Watch(span, start)
    BY <2>3, <2>7 DEF Watch
  <2>8. CASE \E w \in watchers : Cancel(w)
    BY <2>3, <2>8 DEF Cancel
  <2>9. CASE UNCHANGED vars
    BY <2>3, <2>9 DEF vars
  <2> QED BY <2>1, <2>4, <2>5, <2>6, <2>7, <2>8, <2>9, StepCases
<1>2. IInv /\ [Next]_vars =>
        [LET now(k) == EntryAt(keys'[k], 0)
             fresh == {n \in DOMAIN history' : n > Len(history)}
         IN /\ \A n \in fresh : history'[n].rev = revision' /\ revision' > revision
            /\ {k \in Key : now(k) # Live(k)} \subseteq
                 {history'[n].key : n \in fresh}]_vars
  BY <1>1
<1> QED BY <1>2, Invariant, PTL DEF Spec, ChangesAnnounced

-----------------------------------------------------------------------------
(* The type invariant.  The event log is ordered because the history is,   *)
(* of which it is the part above the compact revision.                     *)

TInv ==
  /\ Ordered(history)
  /\ outcome \in {"done", "rejected"}

LEMMA NewerOrdered ==
  ASSUME NEW X, \A x \in X : x.rev \in Nat, NEW s \in Seq(X), NEW r, Ordered(s)
  PROVE  Ordered(Newer(s, r))
<1> DEFINE P == {q \in Seq(X) : Ordered(q) => Ordered(Newer(q, r))}
<1>1. <<>> \in P
  <2>1. Newer(<<>>, r) = <<>>
    BY OnlyEmpty DEF Newer
  <2> QED BY <2>1
<1>2. ASSUME NEW q \in P, NEW x \in X PROVE Append(q, x) \in P
  <2> SUFFICES ASSUME Ordered(Append(q, x)) PROVE Ordered(Newer(Append(q, x), r))
    OBVIOUS
  <2>1. /\ q \in Seq(X) /\ Len(q) \in Nat /\ Len(Append(q, x)) = Len(q) + 1
        /\ Append(q, x)[Len(q) + 1] = x
        /\ \A n \in 1..Len(q) : Append(q, x)[n] = q[n]
    BY AppendProperties
  <2>2. Ordered(q) /\ \A n \in 1..Len(q) : q[n].rev <= x.rev
    <3> DEFINE t == Append(q, x)
    <3> HIDE DEF t
    <3>1. \A m, n \in 1..(Len(q) + 1) : m <= n => t[m].rev <= t[n].rev
      BY <2>1 DEF Ordered, t
    <3>2. Len(q) + 1 \in 1..(Len(q) + 1) /\ t[Len(q) + 1] = x
          /\ \A n \in 1..Len(q) : n \in 1..(Len(q) + 1) /\ t[n] = q[n]
      BY <2>1 DEF t
    <3>3. Ordered(q)
      BY <3>1, <3>2 DEF Ordered
    <3>4. ASSUME NEW n \in 1..Len(q) PROVE q[n].rev <= x.rev
      <4>1. n <= Len(q) + 1
        BY <2>1
      <4> QED BY <3>1, <3>2, <4>1
    <3> QED BY <3>3, <3>4
  <2>3. PICK u : u = Newer(q, r)
    OBVIOUS
  <2>4. Ordered(u)
    BY <2>2, <2>3
  <2>5. u \in Seq({y \in X : y.rev <= x.rev})
    <3> DEFINE Y == {y \in X : y.rev <= x.rev}
    <3>1. q \in Seq(Y)
      BY <2>1, <2>2
    <3> HIDE DEF Y
    <3>2. Newer(q, r) \in Seq(Y)
      BY <3>1, NewerType
    <3> QED BY <2>3, <3>2 DEF Y
  <2>6. Newer(Append(q, x), r) = IF x.rev > r THEN Append(u, x) ELSE u
    <3>1. Newer(Append(q, x), r) =
            IF x.rev > r THEN Append(Newer(q, r), x) ELSE Newer(q, r)
      BY ONLY <2>1, <1>2, NewerAppend
    <3> QED BY <2>3, <3>1
  <2>7. Ordered(Append(u, x))
    <3> DEFINE v == Append(u, x)
    <3>1. /\ Len(u) \in Nat /\ Len(v) = Len(u) + 1 /\ v[Len(u) + 1] = x
          /\ \A n \in 1..Len(u) : v[n] = u[n]
      BY <2>5, AppendProperties
    <3>2. \A n \in 1..Len(u) : u[n].rev <= x.rev
      BY <2>5
    <3> HIDE DEF v
    <3>3. ASSUME NEW m \in 1..Len(v), NEW n \in 1..Len(v), m <= n
          PROVE  v[m].rev <= v[n].rev
      <4>1. CASE n \in 1..Len(u)
        <5>1. m \in 1..Len(u)
          BY <3>1, <3>3, <4>1
        <5> QED BY <2>4, <3>1, <3>3, <4>1, <5>1 DEF Ordered
      <4>2. CASE n = Len(u) + 1
        <5>1. x.rev <= x.rev
          BY <1>2
        <5> QED BY <3>1, <3>2, <3>3, <4>2, <5>1
      <4> QED BY <3>1, <4>1, <4>2
    <3> QED BY <3>3 DEF Ordered, v
  <2> QED BY <2>4, <2>6, <2>7
<1>3. P = Seq(X)
  <2> HIDE DEF P
  <2>1. P \in SUBSET Seq(X)
    BY DEF P
  <2> QED BY <1>1, <1>2, <2>1, SeqInduct
<1> QED BY <1>3

\* What is newer than a revision is newer than it.
LEMMA NewerAbove ==
  ASSUME NEW X, NEW s \in Seq(X), NEW r
  PROVE  \A n \in 1..Len(Newer(s, r)) : Newer(s, r)[n].rev > r
<1>1. Newer(s, r) = Only(s, Above(X, r))
  BY NewerIs
<1>2. \A n \in 1..Len(Only(s, Above(X, r))) :
        Only(s, Above(X, r))[n] \in Above(X, r)
  BY OnlyType
<1> QED BY <1>1, <1>2 DEF Above

LEMMA NextTInv == IInv /\ TInv /\ [Next]_vars => TInv'
<1> SUFFICES ASSUME IInv, TInv, [Next]_vars PROVE TInv'
  OBVIOUS
<1>1. outcome' \in {"done", "rejected"}
  BY DEF Next, vars, TInv, ApplyTxn, ApplySeed, ApplyCompact, ApplyLeaseGrant,
         ApplyLeaseRevoke, Watch, Cancel
<1>2. Ordered(history')
  <2>1. CASE \E st, rev : Writes(st, rev)
    <3>1. PICK st, rev : Writes(st, rev)
      BY <2>1
    <3>2. PICK new \in Seq(EventSet) : Grew(new, rev)
      BY ONLY IInv, <3>1, WritesAppend
    <3>3. PICK h, g : h = history /\ g = history'
      OBVIOUS
    <3>4. h \in Seq(EventSet) /\ new \in Seq(EventSet) /\ g = h \o new
      BY <3>2, <3>3 DEF Grew, IInv, HistoryOK
    <3>5. /\ Len(h) \in Nat /\ Len(new) \in Nat /\ Len(g) = Len(h) + Len(new)
          /\ \A n \in 1..Len(g) : g[n] = IF n <= Len(h) THEN h[n] ELSE new[n - Len(h)]
      BY ONLY <3>4
    <3>6. /\ rev \in Nat /\ \A n \in 1..Len(new) : new[n].rev = rev
          /\ \A n \in 1..Len(h) : h[n].rev <= rev
      <4>1. rev = revision + 1 /\ revision \in Nat
        BY <3>1 DEF Writes, IInv, Ready
      <4>2. ASSUME NEW n \in 1..Len(h)
            PROVE  h[n].rev \in Nat /\ h[n].rev <= revision
        <5>1. h[n] \in EventSet
          BY ONLY <3>4
        <5>2. h[n].rev <= revision
          BY <3>3 DEF IInv, HistoryOK
        <5> QED BY <5>1, <5>2 DEF EventSet
      <4> QED BY <3>2, <4>1, <4>2 DEF Grew
    <3>7. ASSUME NEW m \in 1..Len(g), NEW n \in 1..Len(g), m <= n
          PROVE  g[m].rev <= g[n].rev
      <4>1. CASE n <= Len(h)
        <5>1. m \in 1..Len(h) /\ n \in 1..Len(h) /\ g[m] = h[m] /\ g[n] = h[n]
          BY <3>5, <3>7, <4>1
        <5> QED BY <3>3, <3>7, <5>1 DEF TInv, Ordered
      <4>2. CASE ~(n <= Len(h))
        <5>1. n - Len(h) \in 1..Len(new) /\ g[n] = new[n - Len(h)]
          BY <3>5, <4>2
        <5>2. g[n].rev = rev
          BY <3>6, <5>1
        <5>3. CASE m <= Len(h)
          <6>1. m \in 1..Len(h) /\ g[m] = h[m]
            BY <3>5, <5>3
          <6> QED BY <3>6, <5>2, <6>1
        <5>4. CASE ~(m <= Len(h))
          <6>1. m - Len(h) \in 1..Len(new) /\ g[m] = new[m - Len(h)]
            BY <3>5, <5>4
          <6> QED BY <3>6, <5>2, <6>1
        <5> QED BY <5>3, <5>4
      <4> QED BY <4>1, <4>2
    <3> QED BY <3>3, <3>7 DEF Ordered
  <2>2. CASE history' = history
    BY <2>2 DEF TInv
  <2>3. CASE \E r \in Seed : ApplySeed(r)
    BY <2>2, <2>3 DEF ApplySeed
  <2>4. CASE \E target \in 1..revision : ApplyCompact(target)
    BY <2>2, <2>4 DEF ApplyCompact
  <2>5. CASE \E name \in LeaseName : ApplyLeaseGrant(name)
    BY <2>2, <2>5 DEF ApplyLeaseGrant
  <2>6. CASE \E span \in Span, start \in Start : Watch(span, start)
    BY <2>2, <2>6 DEF Watch
  <2>7. CASE \E w \in watchers : Cancel(w)
    BY <2>2, <2>7 DEF Cancel
  <2>8. CASE UNCHANGED vars
    BY <2>2, <2>8 DEF vars
  <2> QED BY <2>1, <2>3, <2>4, <2>5, <2>6, <2>7, <2>8, StepCases
<1> QED BY <1>1, <1>2 DEF TInv

LEMMA TypesFollow == IInv /\ TInv => TypeOK
<1> SUFFICES ASSUME IInv, TInv PROVE TypeOK
  OBVIOUS
<1>1. /\ revision \in Nat /\ compactRevision \in 0..revision
      /\ keys \in [Key -> Seq(Entry)] /\ events \in Seq(EventSet)
      /\ history \in Seq(EventSet) /\ Ordered(history)
      /\ outcome \in {"done", "rejected"}
  BY DEF IInv, Ready, HistoryOK, TInv
<1>2. ASSUME NEW k \in Key, NEW n \in DOMAIN keys[k]
      PROVE  /\ IsEntry(keys[k][n]) /\ keys[k][n].rev <= revision
             /\ n > 1 => keys[k][n - 1].rev <= keys[k][n].rev
  <2>1. PICK c : c = keys[k]
    OBVIOUS
  <2>2. c \in Seq(Entry) /\ DOMAIN c = 1..Len(c) /\ Len(c) \in Nat
    BY <1>1, <2>1
  <2>3. Ordered(c) /\ \A i \in 1..Len(c) : c[i].rev <= revision
    BY <2>1 DEF IInv, Ready
  <2>4. n \in 1..Len(c) /\ c[n] \in Entry
    BY <2>1, <2>2
  <2>5. IsEntry(c[n])
    BY <2>4 DEF Entry, IsEntry
  <2>6. n > 1 => c[n - 1].rev <= c[n].rev
    <3>1. n > 1 => n - 1 \in 1..Len(c) /\ n - 1 <= n
      BY <2>2, <2>4
    <3> QED BY <2>3, <2>4, <3>1 DEF Ordered
  <2> QED BY <2>1, <2>3, <2>4, <2>5, <2>6
<1>3. ASSUME NEW n \in DOMAIN events
      PROVE  /\ events[n].rev \in compactRevision + 1..revision
             /\ n > 1 => events[n - 1].rev <= events[n].rev
  <2>1. PICK h, e, c, b : h = history /\ e = events /\ c = compactRevision
                          /\ b = revision
    OBVIOUS
  <2>2. h \in Seq(EventSet) /\ e = Newer(h, c) /\ c \in Nat /\ b \in Nat
    BY <1>1, <2>1 DEF IInv
  <2>3. Ordered(e)
    <3>1. \A x \in EventSet : x.rev \in Nat
      BY DEF EventSet
    <3>2. Ordered(h)
      BY <1>1, <2>1
    <3>3. Ordered(Newer(h, c))
      BY ONLY <2>2, <3>1, <3>2, NewerOrdered
    <3> QED BY <2>2, <3>3
  <2>4. \A i \in 1..Len(e) : e[i].rev > c
    BY <2>2, NewerAbove
  <2>5. e \in Seq({x \in EventSet : x.rev <= b})
    <3> DEFINE Y == {x \in EventSet : x.rev <= b}
    <3>1. h \in Seq(Y)
      BY <2>1, <2>2 DEF IInv, HistoryOK
    <3> HIDE DEF Y
    <3>2. Newer(h, c) \in Seq(Y)
      BY <3>1, NewerType
    <3> QED BY <2>2, <3>2 DEF Y
  <2>6. n \in 1..Len(e) /\ Len(e) \in Nat
    BY <2>1, <2>5
  <2>7. e[n].rev \in Nat /\ e[n].rev <= b /\ e[n].rev > c
    BY <2>4, <2>5, <2>6 DEF EventSet
  <2>8. n > 1 => e[n - 1].rev <= e[n].rev
    <3>1. n > 1 => n - 1 \in 1..Len(e) /\ n - 1 <= n
      BY <2>6
    <3> QED BY <2>3, <2>6, <3>1 DEF Ordered
  <2> QED BY <2>1, <2>2, <2>7, <2>8
<1>4. \A id \in DOMAIN leases : leases[id] \subseteq Key
  <2>1. leases \in LeaseTable
    BY DEF IInv, Ready
  <2> QED BY <2>1 DEF LeaseTable
<1> QED BY <1>1, <1>2, <1>3, <1>4 DEF TypeOK

\* The type invariant: chains and the event log are ordered by revision and
\* hold nothing from the future, and the log nothing that compaction took.
THEOREM TypeCorrect == Spec => []TypeOK
<1>1. Init => TInv
  BY DEF Init, TInv, Ordered
<1> QED BY <1>1, NextTInv, TypesFollow, Invariant, PTL DEF Spec

-----------------------------------------------------------------------------
(* Leases.                                                                 *)

\* The lease the live entry of a chain names, 0 when there is none.
Names(chain) ==
  IF EntryAt(chain, 0) = None THEN 0 ELSE EntryAt(chain, 0).lease

\* Each lease has exactly the keys that name it, and no key names a lease that
\* is gone.
Exact(chains, lss) ==
  /\ 0 \notin DOMAIN lss
  /\ \A k \in Key : Names(chains[k]) \in DOMAIN lss \cup {0}
  /\ \A id \in DOMAIN lss : \A k \in Key :
       k \in lss[id] <=> Names(chains[k]) = id

LEMMA AppendedNames ==
  ASSUME NEW chain \in Seq(Entry), NEW e \in Entry
  PROVE  Names(Append(chain, e)) = IF e.deleted THEN 0 ELSE e.lease
<1> DEFINE longer == Append(chain, e)
<1>1. /\ longer \in Seq(Entry) /\ Len(chain) \in Nat /\ Len(longer) = Len(chain) + 1
      /\ longer[Len(chain) + 1] = e
  OBVIOUS
<1> HIDE DEF longer
<1> DEFINE m == Len(chain) + 1
<1>2. Newest(longer, 0, m)
  BY <1>1 DEF Newest
<1>3. EntryAt(longer, 0) = IF longer[m].deleted THEN None ELSE longer[m]
  <2> HIDE DEF m
  <2> QED BY <1>1, <1>2, EntryAtIs
<1>4. e # None
  BY NoneAssumption DEF Entry
<1>5. EntryAt(longer, 0) = IF e.deleted THEN None ELSE e
  BY <1>1, <1>3
<1> QED BY <1>4, <1>5 DEF Names, longer

\* A key changes lease.
LEMMA AttachKeepsExact ==
  ASSUME NEW chains, NEW lss \in LeaseTable, Exact(chains, lss), NEW k \in Key,
         NEW next, NEW to \in DOMAIN lss \cup {0}, Names(next[k]) = to,
         \A x \in Key : x # k => Names(next[x]) = Names(chains[x])
  PROVE  Exact(next, Attach(lss, k, Names(chains[k]), to))
<1> DEFINE from == Names(chains[k])
           now == Attach(lss, k, from, to)
<1>1. /\ DOMAIN now = DOMAIN lss
      /\ \A id \in DOMAIN lss :
           now[id] = IF id = to THEN lss[id] \cup {k}
                     ELSE IF id = from THEN lss[id] \ {k} ELSE lss[id]
  BY DEF Attach
<1> HIDE DEF now
<1>2. \A x \in Key : Names(next[x]) = IF x = k THEN to ELSE Names(chains[x])
  OBVIOUS
<1>3. \A x \in Key : Names(next[x]) \in DOMAIN now \cup {0}
  BY <1>1, <1>2 DEF Exact
<1>4. ASSUME NEW id \in DOMAIN now, NEW x \in Key
      PROVE  x \in now[id] <=> Names(next[x]) = id
  <2>1. x \in lss[id] <=> Names(chains[x]) = id
    BY <1>1 DEF Exact
  <2>2. CASE x = k
    BY <1>1, <1>2, <2>1, <2>2
  <2>3. CASE x # k
    BY <1>1, <1>2, <2>1, <2>3
  <2> QED BY <2>2, <2>3
<1>5. 0 \notin DOMAIN now
  BY <1>1 DEF Exact
<1> QED BY <1>3, <1>4, <1>5 DEF Exact, now

LEMMA PutKeepsExact ==
  ASSUME Ready, NEW rev, rev = revision + 1, NEW st, Batch(st, rev),
         Exact(st.keys, st.leases),
         NEW op \in [op : {"put"}, key : Key, value : Nat, lease : Nat,
                     ignoreValue : BOOLEAN, ignoreLease : BOOLEAN]
  PROVE  LET next == PutAt(st, rev, op)
         IN Exact(next.keys, next.leases)
<1> DEFINE k == op.key
           chain == st.keys[k]
           old == EntryAt(chain, 0)
           entry == [rev |-> rev,
                     value |-> IF op.ignoreValue /\ old # None THEN old.value
                               ELSE op.value,
                     version |-> IF old = None THEN 1 ELSE old.version + 1,
                     createRevision |-> IF old = None THEN rev
                                        ELSE old.createRevision,
                     lease |-> IF op.ignoreLease /\ old # None THEN old.lease
                               ELSE op.lease,
                     deleted |-> FALSE]
           lss == Attach(st.leases, k, Names(chain), entry.lease)
           next == [st EXCEPT !.keys[k] = Append(@, entry),
                              !.events = Append(@, Event(rev, k, entry, old)),
                              !.leases = lss]
           refused == [st EXCEPT !.failed = TRUE]
<1>1. k \in Key /\ rev \in Nat /\ st \in StoreSet /\ chain \in Seq(Entry)
      /\ st.leases \in LeaseTable /\ st.keys \in [Key -> Seq(Entry)]
  BY DEF Ready, Batch, StoreSet
<1>2. PutAt(st, rev, op) = IF entry.lease # 0 /\ entry.lease \notin DOMAIN st.leases
                           THEN refused ELSE next
  BY <1>1 DEF PutAt, StoreSet, Names
<1>3. refused.keys = st.keys /\ refused.leases = st.leases
  BY <1>1 DEF StoreSet
<1>4. next.keys = [st.keys EXCEPT ![k] = Append(@, entry)] /\ next.leases = lss
  BY <1>1 DEF StoreSet
<1>5. ASSUME entry.lease \in DOMAIN st.leases \cup {0}
      PROVE  Exact(next.keys, next.leases)
  <2>1. entry \in Entry /\ ~entry.deleted
    <3>1. Batch(PutAt(st, rev, op), rev)
      BY PutKeepsBatch
    <3>2. PutAt(st, rev, op) = next
      BY <1>2, <1>5
    <3>3. next \in StoreSet
      BY <3>1, <3>2 DEF Batch
    <3>4. Append(chain, entry) \in Seq(Entry)
      <4>1. next.keys[k] \in Seq(Entry)
        BY <1>1, <3>3 DEF StoreSet
      <4>2. next.keys[k] = Append(chain, entry)
        BY <1>1, <1>4
      <4> QED BY <4>1, <4>2
    <3> HIDE DEF next, lss
    <3>5. ~entry.deleted
      OBVIOUS
    <3> HIDE DEF entry
    <3>6. Append(chain, entry)[Len(chain) + 1] = entry
          /\ Len(chain) + 1 \in 1..Len(Append(chain, entry))
      BY <1>1
    <3> QED BY <3>4, <3>5, <3>6
  <2> DEFINE to == entry.lease
  <2>2. Names(Append(chain, entry)) = to
    <3> HIDE DEF entry, chain
    <3> QED BY <1>1, <2>1, AppendedNames DEF chain
  <2>3. to \in DOMAIN st.leases \cup {0}
    BY <1>5
  <2> DEFINE chains == st.keys
             then == next.keys
  <2>4. then = [chains EXCEPT ![k] = Append(chain, entry)]
    BY <1>4
  <2> HIDE DEF next, entry
  <2>5. Names(then[k]) = to
    BY <1>1, <2>2, <2>4
  <2>6. \A x \in Key : x # k => Names(then[x]) = Names(chains[x])
    BY <1>1, <2>4
  <2>7. Exact(chains, st.leases) /\ st.leases \in LeaseTable /\ k \in Key
    BY <1>1
  <2>8. next.leases = Attach(st.leases, k, Names(chains[k]), to)
    BY <1>4
  <2> HIDE DEF chain, to, then, chains, lss, k
  <2>9. Exact(then, Attach(st.leases, k, Names(chains[k]), to))
    BY <2>3, <2>5, <2>6, <2>7, AttachKeepsExact
  <2> QED BY <2>8, <2>9 DEF then
<1> HIDE DEF next, refused, entry
<1> QED BY <1>2, <1>3, <1>5

\* A key that is deleted leaves its lease.
LEMMA DeleteOneKeepsExact ==
  ASSUME Ready, NEW rev, rev = revision + 1, NEW st, Batch(st, rev),
         Exact(st.keys, st.leases), NEW k \in Key
  PROVE  LET next == DeleteOne(st, rev, k)
         IN /\ Exact(next.keys, next.leases)
            /\ \A x \in Key : Names(next.keys[x]) =
                 IF x = k THEN 0 ELSE Names(st.keys[x])
<1> DEFINE chain == st.keys[k]
           old == EntryAt(chain, 0)
           entry == Tombstone(rev)
           lss == Attach(st.leases, k, old.lease, 0)
           next == [st EXCEPT !.keys[k] = Append(@, entry),
                              !.events = Append(@, Event(rev, k, entry, old)),
                              !.leases = lss]
<1>1. rev \in Nat /\ st \in StoreSet /\ chain \in Seq(Entry)
      /\ st.leases \in LeaseTable /\ st.keys \in [Key -> Seq(Entry)]
  BY DEF Ready, Batch, StoreSet
<1>2. DeleteOne(st, rev, k) = IF old = None THEN st ELSE next
  BY <1>1 DEF DeleteOne, StoreSet
<1>3. CASE old = None
  <2>1. Names(chain) = 0
    BY <1>3 DEF Names
  <2> QED BY <1>2, <1>3, <2>1
<1>4. CASE old # None
  <2>1. next.keys = [st.keys EXCEPT ![k] = Append(@, entry)] /\ next.leases = lss
    BY <1>1 DEF StoreSet
  <2>2. entry \in Entry /\ entry.deleted
    BY <1>1 DEF Entry, Tombstone
  <2>3. old.lease = Names(chain)
    BY <1>4 DEF Names
  <2> DEFINE chains == st.keys
             then == next.keys
             longer == Append(chain, entry)
  <2>4. then = [chains EXCEPT ![k] = longer]
    BY <2>1
  <2> HIDE DEF next, entry
  <2>5. Names(longer) = 0
    <3> HIDE DEF chain
    <3> QED BY <1>1, <2>2, AppendedNames
  <2> HIDE DEF longer
  <2>6. Names(then[k]) = 0
    BY <1>1, <2>4, <2>5
  <2>7. \A x \in Key : x # k => Names(then[x]) = Names(chains[x])
    BY <1>1, <2>4
  <2>8. next.leases = Attach(st.leases, k, Names(chains[k]), 0)
    BY <2>1, <2>3
  <2>9. Exact(then, Attach(st.leases, k, Names(chains[k]), 0))
    <3>1. Exact(chains, st.leases) /\ 0 \in DOMAIN st.leases \cup {0}
      OBVIOUS
    <3> HIDE DEF then, chains, lss, chain, old
    <3> QED BY <1>1, <2>6, <2>7, <3>1, AttachKeepsExact
  <2>10. \A x \in Key : Names(then[x]) = IF x = k THEN 0 ELSE Names(chains[x])
    BY <2>6, <2>7
  <2> HIDE DEF old, chain, lss
  <2> QED BY <1>2, <1>4, <2>8, <2>9, <2>10 DEF old, chain
<1> QED BY <1>3, <1>4

\* A deletion takes the keys it names, those that were live, from their leases
\* and no others.
LEMMA DeleteKeepsExact ==
  ASSUME Ready, NEW rev, rev = revision + 1, NEW st, Batch(st, rev),
         Exact(st.keys, st.leases), NEW ks
  PROVE  LET next == DeleteAt(st, rev, ks)
         IN /\ Exact(next.keys, next.leases)
            /\ \A x \in Key : Names(next.keys[x]) =
                 IF x \in ks THEN 0 ELSE Names(st.keys[x])
<1> DEFINE f == CHOOSE h : DeleteWalk(h, st, rev, ks, LastKey)
<1>1. DeleteWalk(f, st, rev, ks, LastKey)
  <2>1. \E h : DeleteWalk(h, st, rev, ks, LastKey)
    BY KeyAssumption, DeleteWalkExists
  <2> QED BY <2>1
<1>2. DeleteAt(st, rev, ks) = f[LastKey]
  BY DEF DeleteAt, DeleteWalk, DeleteStep
<1> HIDE DEF f
<1> DEFINE Done(g, n) ==
             /\ Batch(g, rev) /\ Exact(g.keys, g.leases)
             /\ \A x \in Key : Names(g.keys[x]) =
                  IF x \in ks /\ x <= n THEN 0 ELSE Names(st.keys[x])
           P == {n \in 0..LastKey : Done(f[n], n)}
<1>3. 0 \in P
  <2>1. 0 \in 0..LastKey /\ \A x \in Key : ~(x <= 0)
    BY KeyAssumption DEF Key
  <2>2. f[0] = st
    BY <1>1, <2>1 DEF DeleteWalk, DeleteStep
  <2>3. Done(st, 0)
    BY <2>1
  <2> QED BY <2>1, <2>2, <2>3
<1>4. ASSUME NEW n \in 1..LastKey, n - 1 \in P PROVE n \in P
  <2>1. n \in 0..LastKey /\ n # 0 /\ n \in Key
        /\ \A x \in Key : x <= n <=> x <= n - 1 \/ x = n
    BY KeyAssumption DEF Key
  <2>2. PICK before, after : before = f[n - 1] /\ after = f[n]
    OBVIOUS
  <2>3. after = IF n \in ks THEN DeleteOne(before, rev, n) ELSE before
    BY <1>1, <2>1, <2>2 DEF DeleteWalk, DeleteStep
  <2>4. Done(before, n - 1)
    BY <1>4, <2>2
  <2>5. CASE n \in ks
    <3>1. /\ Exact(after.keys, after.leases)
          /\ \A x \in Key : Names(after.keys[x]) =
               IF x = n THEN 0 ELSE Names(before.keys[x])
      BY <2>1, <2>3, <2>4, <2>5, DeleteOneKeepsExact
    <3>2. Batch(after, rev)
      BY <2>1, <2>3, <2>4, <2>5, DeleteOneKeepsBatch
    <3>3. \A x \in Key : Names(after.keys[x]) =
            IF x \in ks /\ x <= n THEN 0 ELSE Names(st.keys[x])
      BY <2>1, <2>4, <2>5, <3>1
    <3> QED BY <2>1, <2>2, <3>1, <3>2, <3>3
  <2>6. CASE n \notin ks
    <3>1. after = before
      BY <2>3, <2>6
    <3>2. \A x \in Key : Names(after.keys[x]) =
            IF x \in ks /\ x <= n THEN 0 ELSE Names(st.keys[x])
      BY <2>1, <2>4, <2>6, <3>1
    <3> QED BY <2>1, <2>2, <2>4, <3>1, <3>2
  <2> QED BY <2>5, <2>6
<1>5. P = 0..LastKey
  <2> HIDE DEF P
  <2>1. P \in SUBSET (0..LastKey)
    BY DEF P
  <2> QED BY <1>3, <1>4, <2>1, KeyAssumption, UpToInduct
<1>6. LastKey \in P /\ \A x \in Key : x <= LastKey
  BY <1>5, KeyAssumption DEF Key
<1> QED BY <1>2, <1>6

LEMMA ApplyKeepsExact ==
  ASSUME Ready, NEW rev, rev = revision + 1, NEW st, Batch(st, rev),
         Exact(st.keys, st.leases), NEW op \in Op
  PROVE  LET next == ApplyNext(st, rev, op)
         IN Exact(next.keys, next.leases)
<1> DEFINE PutOp == [op : {"put"}, key : Key, value : Nat, lease : Nat,
                     ignoreValue : BOOLEAN, ignoreLease : BOOLEAN]
           DeleteOp == [op : {"deleteRange"}, key : Nat, rangeEnd : Nat]
           RangeOp == [op : {"range"}, key : Nat, revision : Nat]
           next == ApplyNext(st, rev, op)
<1>0. op \in PutOp \/ op \in DeleteOp \/ op \in RangeOp
  BY DEF Op
<1>1. CASE st.failed
  BY <1>1 DEF ApplyNext
<1>2. CASE ~st.failed /\ op \in PutOp
  <2>1. next = PutAt(st, rev, op)
    BY <1>2 DEF ApplyNext, ApplyOp
  <2> HIDE DEF next
  <2>2. PICK then : then = PutAt(st, rev, op)
    OBVIOUS
  <2>3. Exact(then.keys, then.leases)
    BY <1>2, <2>2, PutKeepsExact
  <2> QED BY <2>1, <2>2, <2>3 DEF next
<1>3. CASE ~st.failed /\ op \in DeleteOp
  <2>1. next = DeleteAt(st, rev, MatchingKeys(op))
    BY <1>3 DEF ApplyNext, ApplyOp
  <2> HIDE DEF next
  <2>2. PICK ks : ks = MatchingKeys(op)
    OBVIOUS
  <2>3. PICK then : then = DeleteAt(st, rev, ks)
    OBVIOUS
  <2>4. Exact(then.keys, then.leases)
    BY <2>3, DeleteKeepsExact
  <2> QED BY <2>1, <2>2, <2>3, <2>4 DEF next
<1>4. CASE ~st.failed /\ op \in RangeOp
  <2>1. next = [st EXCEPT !.failed = RangeFails(op)]
    BY <1>4 DEF ApplyNext, ApplyOp
  <2>2. st \in StoreSet
    BY DEF Batch
  <2> HIDE DEF next
  <2>3. next.keys = st.keys /\ next.leases = st.leases
    BY <2>1, <2>2 DEF StoreSet
  <2> QED BY <2>3 DEF next
<1> QED BY <1>0, <1>1, <1>2, <1>3, <1>4

\* A batch that goes through, and one that fails up to where it does.
LEMMA AttemptIsExact ==
  ASSUME Ready, Exact(keys, leases), NEW rev, rev = revision + 1,
         NEW ops \in Seq(Op)
  PROVE  LET tried == Attempt(ops, rev)
         IN Exact(tried.keys, tried.leases)
<1> DEFINE b == Len(ops)
           f == CHOOSE h : AttemptWalk(h, ops, rev, b)
<1>0. b \in Nat
  OBVIOUS
<1>1. AttemptWalk(f, ops, rev, b)
  <2>1. \E h : AttemptWalk(h, ops, rev, b)
    BY <1>0, AttemptWalkExists
  <2> QED BY <2>1
<1>2. Attempt(ops, rev) = f[b]
  BY DEF Attempt, AttemptWalk, AttemptStep
<1>3. \A n \in 1..b : ops[n] \in Op
  OBVIOUS
<1> HIDE DEF f, b
<1> DEFINE Good(st) == Batch(st, rev) /\ Exact(st.keys, st.leases)
           P == {n \in 0..b : Good(f[n])}
<1>4. 0 \in P
  <2>1. 0 \in 0..b /\ f[0] = Store
    BY <1>0, <1>1 DEF AttemptWalk, AttemptStep
  <2>2. Batch(Store, rev)
    BY StoreIsBatch
  <2>3. Exact(Store.keys, Store.leases)
    BY DEF Store
  <2> QED BY <2>1, <2>2, <2>3
<1>5. ASSUME NEW n \in 1..b, n - 1 \in P PROVE n \in P
  <2>1. n \in 0..b /\ n # 0
    BY <1>0
  <2>2. PICK before, after, op : before = f[n - 1] /\ after = f[n] /\ op = ops[n]
    OBVIOUS
  <2>3. op \in Op /\ after = ApplyNext(before, rev, op)
    BY <1>1, <1>3, <2>1, <2>2 DEF AttemptWalk, AttemptStep
  <2>4. Batch(before, rev) /\ Exact(before.keys, before.leases)
    BY <1>5, <2>2
  <2>5. Batch(after, rev)
    BY <2>3, <2>4, ApplyKeepsBatch
  <2>6. Exact(after.keys, after.leases)
    BY <2>3, <2>4, ApplyKeepsExact
  <2> QED BY <2>1, <2>2, <2>5, <2>6
<1>6. P = 0..b
  <2> HIDE DEF P
  <2>1. P \in SUBSET (0..b)
    BY DEF P
  <2> QED BY <1>0, <1>4, <1>5, <2>1, UpToInduct
<1>7. b \in P
  BY <1>0, <1>6
<1> QED BY <1>2, <1>7

LInv == Exact(keys, leases)

\* An id is granted again only when its lease has no keys.
RegrantedEmpty(name) ==
  LET id == IF name = 0 THEN index + 1 ELSE name
  IN id \in DOMAIN leases => leases[id] = {}

RegrantsEmpty ==
  [][\A name \in LeaseName : ApplyLeaseGrant(name) => RegrantedEmpty(name)]_vars

LEMMA TxnKeepsExact ==
  ASSUME IInv, LInv, NEW cmd \in Txn, ApplyTxn(cmd),
         index' # index /\ outcome' = "rejected" => leases' = leases
  PROVE  LInv'
<1>1. PICK rev : rev = revision + 1
  OBVIOUS
<1>2. PICK ops : ops = IF \A cmp \in cmd.compare : Compare(cmp) THEN cmd.success
                       ELSE cmd.failure
  OBVIOUS
<1>3. ops \in Seq(Op)
  BY <1>2, TxnAssumption
<1>4. PICK tried : tried = Attempt(ops, rev)
  OBVIOUS
<1>5. PICK st : st = IF tried.failed THEN Rollback(tried, rev) ELSE tried
  OBVIOUS
<1>6. /\ index' = index + 1
      /\ outcome' = (IF tried.failed THEN "rejected" ELSE "done")
      /\ leases' = st.leases /\ keys' = st.keys
  BY <1>1, <1>2, <1>4, <1>5 DEF ApplyTxn, Apply, Commit
<1>7. Ready /\ index' # index
  BY <1>6 DEF IInv
<1>8. CASE tried.failed
  <2>1. Batch(tried, rev)
    BY <1>1, <1>3, <1>4, <1>7, AttemptIsBatch
  <2>2. Rollback(tried, rev).keys = keys
    BY <1>1, <1>7, <2>1, RollbackRestores
  <2> QED BY <1>5, <1>6, <1>7, <1>8, <2>2 DEF LInv
<1>9. CASE ~tried.failed
  <2>1. Exact(tried.keys, tried.leases)
    BY <1>1, <1>3, <1>4, <1>7, AttemptIsExact DEF LInv
  <2>2. keys' = tried.keys /\ leases' = tried.leases
    BY <1>5, <1>6, <1>9
  <2> QED BY <2>1, <2>2 DEF LInv
<1> QED BY <1>8, <1>9

\* The keys of a revoked lease are the ones that named it, and are deleted.
LEMMA RevokeKeepsExact ==
  ASSUME IInv, LInv, NEW id \in DOMAIN leases, ApplyLeaseRevoke(id)
  PROVE  LInv'
<1>1. PICK rev : rev = revision + 1
  OBVIOUS
<1>2. PICK ks : ks = leases[id]
  OBVIOUS
<1>3. PICK base : base = Store
  OBVIOUS
<1>4. PICK st : st = DeleteAt(base, rev, ks)
  OBVIOUS
<1>5. leases' = [x \in DOMAIN leases \ {id} |-> st.leases[x]] /\ keys' = st.keys
  BY <1>1, <1>2, <1>3, <1>4 DEF ApplyLeaseRevoke, Commit, RevokeRevision
<1>6. Ready /\ base.keys = keys /\ base.leases = leases
  BY <1>3 DEF IInv, Store
<1>7. Batch(base, rev)
  BY <1>1, <1>3, <1>6, StoreIsBatch
<1>8. Batch(st, rev)
  BY <1>1, <1>4, <1>6, <1>7, DeleteKeepsBatch
<1>9. /\ Exact(st.keys, st.leases)
      /\ \A x \in Key : Names(st.keys[x]) = IF x \in ks THEN 0 ELSE Names(keys[x])
  <2>1. Exact(base.keys, base.leases)
    BY <1>6 DEF LInv
  <2> QED BY <1>1, <1>4, <1>6, <1>7, <2>1, DeleteKeepsExact
<1>10. /\ DOMAIN st.leases = DOMAIN leases
       /\ DOMAIN leases' = DOMAIN leases \ {id}
       /\ \A x \in DOMAIN leases' : leases'[x] = st.leases[x]
  BY <1>5, <1>8 DEF Batch
<1>11. id # 0 /\ \A x \in Key : Names(st.keys[x]) # id
  <2>1. id # 0 /\ \A x \in Key : x \in ks <=> Names(keys[x]) = id
    BY <1>2 DEF LInv, Exact
  <2> QED BY <1>9, <2>1
<1>12. \A x \in Key : Names(keys'[x]) \in DOMAIN leases' \cup {0}
  BY <1>5, <1>9, <1>10, <1>11 DEF Exact
<1>13. \A i \in DOMAIN leases' : \A x \in Key :
         x \in leases'[i] <=> Names(keys'[x]) = i
  BY <1>5, <1>9, <1>10 DEF Exact
<1>14. 0 \notin DOMAIN leases'
  BY <1>9, <1>10 DEF Exact
<1> QED BY <1>12, <1>13, <1>14 DEF LInv, Exact, Key

LEMMA GrantKeepsExact ==
  ASSUME IInv, LInv, NEW name \in LeaseName, ApplyLeaseGrant(name),
         RegrantedEmpty(name)
  PROVE  LInv'
<1>1. PICK id : id = IF name = 0 THEN index + 1 ELSE name
  OBVIOUS
<1>2. /\ leases' = [x \in DOMAIN leases \cup {id} |->
                      IF x = id THEN {} ELSE leases[x]]
      /\ keys' = keys
  BY <1>1 DEF ApplyLeaseGrant, Apply
<1>3. id # 0 /\ (id \in DOMAIN leases => leases[id] = {})
  BY <1>1 DEF RegrantedEmpty, IInv
<1>4. \A x \in Key : Names(keys[x]) # id
  BY <1>3 DEF LInv, Exact
<1> QED BY <1>2, <1>3, <1>4 DEF LInv, Exact, Key

LEMMA CompactKeepsExact ==
  ASSUME IInv, LInv, NEW target \in 1..revision, ApplyCompact(target)
  PROVE  LInv'
<1>1. leases' = leases /\ keys' = [k \in Key |-> Compacted(keys[k], target)]
  BY DEF ApplyCompact
<1>2. ASSUME NEW k \in Key PROVE Names(keys'[k]) = Names(keys[k])
  <2>1. PICK chain : chain = keys[k]
    OBVIOUS
  <2>2. chain \in Seq(Entry) /\ Ordered(chain) /\ target \in Nat
    BY <2>1 DEF IInv, Ready
  <2>3. EntryAt(Compacted(chain, target), 0) = EntryAt(chain, 0)
    BY <2>2, CompactedReads
  <2>4. keys'[k] = Compacted(chain, target)
    BY <1>1, <2>1
  <2> QED BY <2>1, <2>3, <2>4 DEF Names
<1> QED BY <1>1, <1>2 DEF LInv, Exact, Key

\* A rejected batch that moved a key, and an id granted again over the keys it
\* had, are the only ways to lose track of what a lease deletes.
LEMMA NextLInv ==
  IInv /\ LInv /\ [Next]_vars
    /\ [index' # index /\ outcome' = "rejected" => leases' = leases]_vars
    /\ [\A name \in LeaseName : ApplyLeaseGrant(name) => RegrantedEmpty(name)]_vars
    => LInv'
<1> SUFFICES ASSUME IInv, LInv, [Next]_vars,
               [index' # index /\ outcome' = "rejected" => leases' = leases]_vars,
               [\A name \in LeaseName :
                  ApplyLeaseGrant(name) => RegrantedEmpty(name)]_vars
             PROVE  LInv'
  OBVIOUS
<1>1. CASE UNCHANGED vars
  BY <1>1 DEF LInv, vars
<1>2. CASE ~UNCHANGED vars
  <2>1. index' # index /\ outcome' = "rejected" => leases' = leases
    BY <1>2
  <2>2. \A name \in LeaseName : ApplyLeaseGrant(name) => RegrantedEmpty(name)
    BY <1>2
  <2>3. CASE \E cmd \in Txn : ApplyTxn(cmd)
    BY <2>1, <2>3, TxnKeepsExact
  <2>4. CASE \E r \in Seed : ApplySeed(r)
    BY <2>4 DEF ApplySeed, LInv
  <2>5. CASE \E target \in 1..revision : ApplyCompact(target)
    BY <2>5, CompactKeepsExact
  <2>6. CASE \E name \in LeaseName : ApplyLeaseGrant(name)
    BY <2>2, <2>6, GrantKeepsExact
  <2>7. CASE \E id \in DOMAIN leases : ApplyLeaseRevoke(id)
    BY <2>7, RevokeKeepsExact
  <2>8. CASE \E span \in Span, start \in Start : Watch(span, start)
    BY <2>8 DEF Watch, LInv
  <2>9. CASE \E w \in watchers : Cancel(w)
    BY <2>9 DEF Cancel, LInv
  <2> QED BY <1>2, <2>3, <2>4, <2>5, <2>6, <2>7, <2>8, <2>9 DEF Next
<1> QED BY <1>1, <1>2

LEMMA LInvIsExact == IInv /\ LInv => LeaseKeysExact
<1> SUFFICES ASSUME IInv, LInv, NEW id \in DOMAIN leases
             PROVE  leases[id] = {k \in Key : Live(k) # None /\ Live(k).lease = id}
  BY DEF LeaseKeysExact
<1>1. leases[id] \subseteq Key
  BY DEF IInv, Ready, LeaseTable
<1>2. id # 0 /\ \A k \in Key : k \in leases[id] <=> Names(keys[k]) = id
  BY DEF LInv, Exact
<1>3. \A k \in Key : Names(keys[k]) = id <=> Live(k) # None /\ Live(k).lease = id
  BY <1>2 DEF Names, Live
<1> QED BY <1>1, <1>2, <1>3

\* While rejected commands leave the leases as they were and no id is granted
\* over keys, the keys a lease would delete are the live keys that name it.
THEOREM LeasesHoldTheirKeys ==
  Spec /\ RejectedKeepsLeases /\ RegrantsEmpty => []LeaseKeysExact
<1>1. Init => LInv
  <2>1. ASSUME NEW c, c = <<>> PROVE Names(c) = 0
    <3>1. c \in Seq(Entry) /\ Len(c) = 0
      BY <2>1
    <3>2. \A n \in 1..Len(c) : ~(0 = 0 \/ c[n].rev <= 0)
      BY <3>1
    <3>3. EntryAt(c, 0) = None
      BY <3>1, <3>2, EntryAtNone
    <3> QED BY <3>3 DEF Names
  <2> QED BY <2>1 DEF Init, LInv, Exact
<1> QED BY <1>1, NextLInv, LInvIsExact, Invariant, PTL
        DEF Spec, RejectedKeepsLeases, RegrantsEmpty
=============================================================================
