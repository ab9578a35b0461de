----------------------------- MODULE WireProofs -----------------------------
(***************************************************************************)
(* Proofs about Wire, for transactions of any number of fields and length, *)
(* buffers and pieces of any size: what fits into the scanner's buffer is  *)
(* decoded as it was encoded, what a direction of the connection delivers  *)
(* is what was written there, and replies find their requests.             *)
(*                                                                         *)
(* The provers do no induction over sequences.  Here it is an induction    *)
(* over sets of numbers (Induction), from which recursive functions are    *)
(* shown to be what their equations say (Recursion).                       *)
(***************************************************************************)
EXTENDS Wire, SequenceTheorems, WellFoundedInduction, TLAPS

-----------------------------------------------------------------------------
(* Numbers and recursion *)

\* A set that has 0 and with each number below N the next one has all up to N.
LEMMA Induction ==
    ASSUME NEW N \in Nat, NEW S, 0 \in S, \A n \in 0 .. N - 1 : n \in S => n + 1 \in S
    PROVE  0 .. N \subseteq S
<1> SUFFICES ASSUME ~ (0 .. N \subseteq S) PROVE FALSE
  OBVIOUS
<1> DEFINE T == (0 .. N) \ S
<1>1. T \subseteq Nat /\ T # {}
  OBVIOUS
<1>2. PICK x \in T : \A y \in T : ~ (<<y, x>> \in OpToRel(<, Nat))
  BY <1>1, WFMin, NatLessThanWellFounded
<1>3. \A y \in T : ~ (y < x)
  BY <1>1, <1>2 DEF OpToRel
<1>4. x # 0 /\ x \in 1 .. N /\ x - 1 \in 0 .. N - 1
  OBVIOUS
<1>5. x - 1 \in S
  BY <1>3, <1>4
<1> QED BY <1>4, <1>5

\* f starts with x and goes on from each value in V to the next one as G says.
Follows(f, N, V, x, G) ==
    /\ f \in [0 .. N -> V]
    /\ \A n \in 0 .. N : f[n] = IF n = 0 THEN x ELSE G[n][f[n - 1]]

\* There is a function that starts with x and goes on from each value to the
\* next one as G says.
LEMMA Recursion ==
    ASSUME NEW N \in Nat, NEW V, NEW x \in V, NEW G \in [1 .. N -> [V -> V]]
    PROVE  \E f : Follows(f, N, V, x, G)
<1> DEFINE Good(k, f) == \A n \in 0 .. k : f[n] = IF n = 0 THEN x ELSE G[n][f[n - 1]]
           S == {k \in 0 .. N : \E f \in [0 .. k -> V] : Good(k, f)}
<1>1. 0 \in S
  <2> DEFINE g == [n \in 0 .. 0 |-> x]
  <2>1. g \in [0 .. 0 -> V] /\ Good(0, g)
    OBVIOUS
  <2> HIDE DEF g, Good
  <2> QED BY <2>1
<1>2. ASSUME NEW k \in 0 .. N - 1, k \in S PROVE k + 1 \in S
  <2>1. PICK f \in [0 .. k -> V] : Good(k, f)
    BY <1>2
  <2> DEFINE g == [n \in 0 .. k + 1 |-> IF n = k + 1 THEN G[k + 1][f[k]] ELSE f[n]]
  <2>2. k \in 0 .. k /\ f[k] \in V /\ k + 1 \in 1 .. N
    OBVIOUS
  <2>3. G[k + 1][f[k]] \in V
    BY <2>2
  <2>4. g \in [0 .. k + 1 -> V]
    BY <2>3
  <2>5. ASSUME NEW n \in 0 .. k + 1 PROVE g[n] = IF n = 0 THEN x ELSE G[n][g[n - 1]]
    <3>1. CASE n = k + 1
      BY <3>1, <2>2
    <3>2. CASE n # k + 1
      <4>1. n \in 0 .. k /\ g[n] = f[n] /\ (n # 0 => n - 1 \in 0 .. k /\ g[n - 1] = f[n - 1])
        BY <3>2
      <4> QED BY <2>1, <4>1
    <3> QED BY <3>1, <3>2
  <2>6. Good(k + 1, g)
    BY <2>5
  <2> HIDE DEF g, Good
  <2> QED BY <2>4, <2>6
<1> HIDE DEF S
<1>3. 0 .. N \subseteq S
  BY <1>1, <1>2, Induction
<1>4. N \in S
  BY <1>3
<1> QED BY <1>4 DEF S, Follows

-----------------------------------------------------------------------------
(* The recursive functions of the codec *)

\* The fields of a transaction.
LEMMA FieldsOf ==
    ASSUME NEW t \in Transaction
    PROVE  /\ t.fields \in Seq(Field) /\ Len(t.fields) \in Nat
           /\ DOMAIN t.fields = 1 .. Len(t.fields)
           /\ \A n \in 1 .. Len(t.fields) :
                 /\ t.fields[n] \in Field /\ t.fields[n].type \in Nat
                 /\ t.fields[n].data \in Seq(Nat) /\ Len(t.fields[n].data) \in Nat
           /\ t.reply \in Nat /\ t.type \in Nat /\ t.id \in Nat
<1>1. t.fields \in Seq(Field) /\ t.reply \in Nat /\ t.type \in Nat /\ t.id \in Nat
  BY DEF Transaction
<1>2. \A n \in 1 .. Len(t.fields) : t.fields[n] \in Field
  BY <1>1
<1>3. \A f \in Field : f.type \in Nat /\ f.data \in Seq(Nat) /\ Len(f.data) \in Nat
  BY DEF Field
<1> QED BY <1>1, <1>2, <1>3

\* FieldEnds adds up the lengths of the fields.
LEMMA EndsOf ==
    ASSUME NEW t \in Transaction
    PROVE  /\ FieldEnds(t) \in [0 .. Len(t.fields) -> Nat]
           /\ FieldEnds(t)[0] = 0
           /\ \A n \in 1 .. Len(t.fields) :
                 FieldEnds(t)[n] = FieldEnds(t)[n - 1] + FieldLen + Len(t.fields[n].data)
<1> DEFINE N == Len(t.fields)
           L == [n \in 1 .. N |-> Len(t.fields[n].data)]
           G == [n \in 1 .. N |-> [v \in Nat |-> v + FieldLen + L[n]]]
           e == FieldEnds(t)
<1>1. N \in Nat /\ L \in [1 .. N -> Nat]
  BY FieldsOf
<1> HIDE DEF N, L
<1>2. G \in [1 .. N -> [Nat -> Nat]]
  BY <1>1 DEF FieldLen
<1>0. \A n \in 1 .. N, v \in Nat : G[n][v] = v + FieldLen + L[n]
  OBVIOUS
<1> HIDE DEF G
<1>3. PICK f : Follows(f, N, Nat, 0, G)
  BY <1>1, <1>2, Recursion
<1>4. ASSUME NEW n \in 1 .. N PROVE f[n] = f[n - 1] + FieldLen + L[n]
  <2>1. n \in 0 .. N /\ n - 1 \in 0 .. N /\ n # 0
    BY <1>1
  <2> QED BY <1>3, <1>0, <2>1 DEF Follows
<1>5. f \in [0 .. N -> Nat] /\ f[0] = 0
  BY <1>1, <1>3 DEF Follows
<1>6. f = [n \in 0 .. N |-> IF n = 0 THEN 0 ELSE f[n - 1] + FieldLen + Len(t.fields[n].data)]
  <2>1. \A n \in 0 .. N : f[n] = IF n = 0 THEN 0 ELSE f[n - 1] + FieldLen + Len(t.fields[n].data)
    BY <1>1, <1>4, <1>5 DEF L
  <2> QED BY <1>5, <2>1
<1>7. e = CHOOSE g : g = [n \in 0 .. N |-> IF n = 0 THEN 0 ELSE g[n - 1] + FieldLen + Len(t.fields[n].data)]
  BY DEF FieldEnds, N
<1>8. e = [n \in 0 .. N |-> IF n = 0 THEN 0 ELSE e[n - 1] + FieldLen + Len(t.fields[n].data)]
  <2> HIDE DEF e
  <2> QED BY <1>6, <1>7
<1> HIDE DEF e
<1>9. \A n \in 0 .. N : e[n] = f[n]
  <2> DEFINE S == {n \in 0 .. N : e[n] = f[n]}
  <2>1. 0 \in S
    BY <1>1, <1>5, <1>8
  <2>2. ASSUME NEW n \in 0 .. N - 1, n \in S PROVE n + 1 \in S
    <3>1. n + 1 \in 1 .. N /\ e[n] = f[n] /\ (n + 1) - 1 = n
      BY <1>1, <2>2
    <3>2. e[n + 1] = e[n] + FieldLen + Len(t.fields[n + 1].data)
      BY <1>1, <1>8, <3>1
    <3>3. f[n + 1] = f[n] + FieldLen + Len(t.fields[n + 1].data)
      BY <1>1, <1>4, <3>1 DEF L
    <3> QED BY <3>1, <3>2, <3>3
  <2> HIDE DEF S
  <2>3. 0 .. N \subseteq S
    BY <1>1, <2>1, <2>2, Induction
  <2> QED BY <2>3 DEF S
<1>10. e \in [0 .. N -> Nat]
  BY <1>5, <1>8, <1>9
<1>11. \A n \in 1 .. N : e[n] = e[n - 1] + FieldLen + Len(t.fields[n].data)
  <2> TAKE n \in 1 .. N
  <2>1. n \in 0 .. N /\ n # 0
    BY <1>1
  <2> QED BY <1>8, <2>1
<1> QED BY <1>1, <1>5, <1>9, <1>10, <1>11 DEF N, e

\* The front parts of a sequence of sequences, put together.
Fronts(f, s) ==
    /\ f \in [0 .. Len(s) -> Seq(Nat)]
    /\ f[0] = <<>>
    /\ \A n \in 1 .. Len(s) : f[n] = f[n - 1] \o s[n]

\* FlattenSeq puts one sequence behind the other.
LEMMA FlattenOf ==
    ASSUME NEW s \in Seq(Seq(Nat))
    PROVE  \E f : Fronts(f, s) /\ FlattenSeq(s) = f[Len(s)]
<1> DEFINE N == Len(s)
           G == [n \in 1 .. N |-> [v \in Seq(Nat) |-> v \o s[n]]]
<1>1. N \in Nat /\ \A n \in 1 .. N : s[n] \in Seq(Nat)
  OBVIOUS
<1> HIDE DEF N
<1>2. G \in [1 .. N -> [Seq(Nat) -> Seq(Nat)]]
  BY <1>1
<1>3. \A n \in 1 .. N, v \in Seq(Nat) : G[n][v] = v \o s[n]
  OBVIOUS
<1> HIDE DEF G
<1>4. PICK f : Follows(f, N, Seq(Nat), <<>>, G)
  <2>1. <<>> \in Seq(Nat)
    OBVIOUS
  <2> QED BY <1>1, <1>2, <2>1, Recursion
<1>5. f \in [0 .. N -> Seq(Nat)] /\ f[0] = <<>>
  <2>1. 0 \in 0 .. N
    BY <1>1
  <2>2. f \in [0 .. N -> Seq(Nat)] /\ f[0] = IF 0 = 0 THEN <<>> ELSE G[0][f[0 - 1]]
    BY <1>4, <2>1, Zenon DEF Follows
  <2> QED BY <2>2
<1>6. ASSUME NEW n \in 1 .. N PROVE f[n] = f[n - 1] \o s[n]
  <2>1. n \in 0 .. N /\ n - 1 \in 0 .. N /\ n # 0
    BY <1>1
  <2>2. f[n] = G[n][f[n - 1]] /\ f[n - 1] \in Seq(Nat)
    BY <1>4, <1>5, <2>1 DEF Follows
  <2> QED BY <1>3, <2>2
<1>7. Fronts(f, s)
  BY <1>5, <1>6 DEF Fronts, N
<1>8. CASE N = 0
  <2>1. s = <<>>
    BY <1>8 DEF N
  <2>2. FlattenSeq(s) = <<>>
    BY <1>8, <2>1 DEF FlattenSeq, N
  <2> QED BY <1>5, <1>7, <1>8, <2>2 DEF N
<1>9. CASE N # 0
  <2> DEFINE h == [i \in 1 .. N |-> f[i]]
             e == CHOOSE g : g = [i \in 1 .. N |-> IF i = 1 THEN s[i] ELSE g[i - 1] \o s[i]]
  <2>1. f[1] = s[1]
    <3>1. 1 \in 1 .. N /\ f[0] = <<>> /\ 1 - 1 = 0
      BY <1>1, <1>5, <1>9
    <3>2. f[1] = <<>> \o s[1] /\ s[1] \in Seq(Nat)
      BY <1>1, <1>6, <3>1
    <3> QED BY <3>2, ConcatEmptySeq
  <2>2. h = [i \in 1 .. N |-> IF i = 1 THEN s[i] ELSE h[i - 1] \o s[i]]
    <3>1. \A i \in 1 .. N : h[i] = IF i = 1 THEN s[i] ELSE h[i - 1] \o s[i]
      <4> SUFFICES ASSUME NEW i \in 1 .. N, i # 1 PROVE h[i] = h[i - 1] \o s[i]
        BY <2>1
      <4>1. i - 1 \in 1 .. N
        BY <1>1
      <4>2. h[i] = f[i] /\ h[i - 1] = f[i - 1]
        BY <4>1
      <4> QED BY <1>6, <4>2
    <3> QED BY <3>1
  <2>3. e = [i \in 1 .. N |-> IF i = 1 THEN s[i] ELSE e[i - 1] \o s[i]]
    <3> HIDE DEF h
    <3> QED BY <2>2
  <2>4. FlattenSeq(s) = e[N]
    BY <1>9 DEF FlattenSeq, N
  <2> HIDE DEF e
  <2> DEFINE S == {n \in 0 .. N : n = 0 \/ e[n] = f[n]}
  <2>5. 0 \in S
    BY <1>1
  <2>6. ASSUME NEW n \in 0 .. N - 1, n \in S PROVE n + 1 \in S
    <3>1. n + 1 \in 1 .. N /\ n + 1 \in 0 .. N /\ (n + 1) - 1 = n
      BY <1>1, <2>6
    <3>2. f[n + 1] = f[n] \o s[n + 1]
      BY <1>6, <3>1
    <3>3. CASE n = 0
      BY <2>1, <2>3, <3>1, <3>3
    <3>4. CASE n # 0
      <4>1. e[n + 1] = e[n] \o s[n + 1]
        <5>1. e[n + 1] = IF n + 1 = 1 THEN s[n + 1] ELSE e[(n + 1) - 1] \o s[n + 1]
          BY <2>3, <3>1, Zenon
        <5>2. n + 1 # 1
          BY <3>4
        <5> QED BY <3>1, <5>1, <5>2
      <4> QED BY <2>6, <3>1, <3>2, <3>4, <4>1
    <3> QED BY <3>3, <3>4
  <2> HIDE DEF S
  <2>7. 0 .. N \subseteq S
    BY <1>1, <2>5, <2>6, Induction
  <2>8. e[N] = f[N]
    BY <1>1, <1>9, <2>7 DEF S
  <2> QED BY <1>7, <2>4, <2>8 DEF N
<1> QED BY <1>8, <1>9

\* Where the field behind the one at i starts, or 0 if there is none at i.
After(p, i) ==
    IF i > 0 /\ (i + 1 <= Len(p) /\ i + FieldLen + p[i + 1] <= Len(p) + 1)
    THEN i + FieldLen + p[i + 1] ELSE 0

\* FieldStarts goes from field to field.
LEMMA StartsOf ==
    ASSUME NEW p \in Seq(Nat)
    PROVE  /\ FieldStarts(p) \in [0 .. Len(p) -> Nat]
           /\ FieldStarts(p)[0] = HeaderLen + 2
           /\ \A n \in 1 .. Len(p) : FieldStarts(p)[n] = After(p, FieldStarts(p)[n - 1])
<1> DEFINE N == Len(p)
           G == [n \in 1 .. N |-> [v \in Nat |-> After(p, v)]]
           e == FieldStarts(p)
<1>1. N \in Nat
  OBVIOUS
<1>2. \A v \in Nat : After(p, v) \in Nat
  <2> SUFFICES ASSUME NEW v \in Nat, v > 0, v + 1 <= Len(p) PROVE v + FieldLen + p[v + 1] \in Nat
    BY DEF After
  <2>1. v + 1 \in 1 .. Len(p)
    OBVIOUS
  <2>2. p[v + 1] \in Nat
    BY <2>1
  <2> QED BY <2>2 DEF FieldLen
<1> HIDE DEF N
<1>3. G \in [1 .. N -> [Nat -> Nat]]
  BY <1>1, <1>2
<1>4. \A n \in 1 .. N, v \in Nat : G[n][v] = After(p, v)
  OBVIOUS
<1> HIDE DEF G
<1>5. PICK f : Follows(f, N, Nat, HeaderLen + 2, G)
  <2>1. HeaderLen + 2 \in Nat
    BY DEF HeaderLen
  <2> QED BY <1>1, <1>3, <2>1, Recursion
<1>6. f \in [0 .. N -> Nat] /\ f[0] = HeaderLen + 2
  BY <1>1, <1>5 DEF Follows
<1>7. ASSUME NEW n \in 1 .. N PROVE f[n] = After(p, f[n - 1])
  <2>1. n \in 0 .. N /\ n - 1 \in 0 .. N /\ n # 0
    BY <1>1
  <2> QED BY <1>4, <1>5, <2>1 DEF Follows
<1>8. f = [n \in 0 .. N |-> IF n = 0 THEN HeaderLen + 2 ELSE After(p, f[n - 1])]
  <2>1. \A n \in 0 .. N : f[n] = IF n = 0 THEN HeaderLen + 2 ELSE After(p, f[n - 1])
    BY <1>1, <1>6, <1>7
  <2> QED BY <1>6, <2>1
<1>9. e = CHOOSE g : g = [n \in 0 .. N |-> IF n = 0 THEN HeaderLen + 2 ELSE After(p, g[n - 1])]
  BY DEF FieldStarts, After, N
<1>10. e = [n \in 0 .. N |-> IF n = 0 THEN HeaderLen + 2 ELSE After(p, e[n - 1])]
  <2> HIDE DEF e
  <2> QED BY <1>8, <1>9
<1> HIDE DEF e
<1>11. \A n \in 1 .. N : e[n] = After(p, e[n - 1])
  <2> TAKE n \in 1 .. N
  <2>1. n \in 0 .. N /\ n # 0
    BY <1>1
  <2> QED BY <1>10, <2>1
<1>12. e[0] = HeaderLen + 2
  BY <1>1, <1>10
<1>13. \A n \in 0 .. N : e[n] \in Nat
  <2> DEFINE S == {n \in 0 .. N : e[n] \in Nat}
  <2>1. 0 \in S
    BY <1>1, <1>12 DEF HeaderLen
  <2>2. ASSUME NEW n \in 0 .. N - 1, n \in S PROVE n + 1 \in S
    <3>1. n + 1 \in 1 .. N /\ n + 1 \in 0 .. N /\ (n + 1) - 1 = n
      BY <1>1, <2>2
    <3> QED BY <1>2, <1>11, <2>2, <3>1
  <2> HIDE DEF S
  <2>3. 0 .. N \subseteq S
    BY <1>1, <2>1, <2>2, Induction
  <2> QED BY <2>3 DEF S
<1>14. e \in [0 .. N -> Nat]
  BY <1>10, <1>13
<1> QED BY <1>11, <1>12, <1>14 DEF N, e

-----------------------------------------------------------------------------
(* Encoding and decoding *)

\* What 16 bits keep of a number.
Low(x) == x % W

\* Low keeps what 16 bits can hold.
LEMMA LowOf ==
    ASSUME NEW x \in Nat
    PROVE  Low(x) \in Nat /\ (x < W => Low(x) = x)
  BY SizeAssumption DEF Low, HeaderLen

\* An encoded field, digit by digit.
LEMMA EncodeFieldOf ==
    ASSUME NEW f \in Field
    PROVE  /\ EncodeField(f) \in Seq(Nat)
           /\ Len(EncodeField(f)) = FieldLen + Len(f.data)
           /\ EncodeField(f)[1] = f.type
           /\ EncodeField(f)[2] = Low(Len(f.data))
           /\ \A j \in 1 .. Len(f.data) : EncodeField(f)[FieldLen + j] = f.data[j]
<1>1. f.type \in Nat /\ f.data \in Seq(Nat) /\ Len(f.data) \in Nat
  BY DEF Field
<1>2. Low(Len(f.data)) \in Nat
  BY <1>1, LowOf
<1> DEFINE h == <<f.type, Low(Len(f.data))>>
<1>3. h \in Seq(Nat) /\ Len(h) = 2 /\ h[1] = f.type /\ h[2] = Low(Len(f.data))
  BY <1>1, <1>2
<1> HIDE DEF h
<1>4. /\ h \o f.data \in Seq(Nat)
      /\ Len(h \o f.data) = Len(h) + Len(f.data)
      /\ \A i \in 1 .. Len(h) + Len(f.data) : (h \o f.data)[i] =
            IF i <= Len(h) THEN h[i] ELSE f.data[i - Len(h)]
  BY <1>1, <1>3, ConcatProperties
<1>5. EncodeField(f) = h \o f.data
  BY DEF EncodeField, Low, h
<1>6. \A j \in 1 .. Len(f.data) : /\ 2 + j \in 1 .. Len(h) + Len(f.data)
                                  /\ ~ (2 + j <= Len(h)) /\ (2 + j) - Len(h) = j
  BY <1>1, <1>3
<1> QED BY <1>1, <1>3, <1>4, <1>5, <1>6 DEF FieldLen

\* A field of type y and data d is encoded in s behind its first o digits.
Holds(s, o, y, d) ==
    /\ o + FieldLen + Len(d) <= Len(s)
    /\ s[o + 1] = y
    /\ s[o + 2] = Low(Len(d))
    /\ \A j \in 1 .. Len(d) : s[o + FieldLen + j] = d[j]

\* It stays there when something is put behind.
LEMMA HoldsMore ==
    ASSUME NEW y, NEW d \in Seq(Nat), NEW s \in Seq(Nat), NEW u \in Seq(Nat), NEW o \in Nat, Holds(s, o, y, d)
    PROVE  Holds(s \o u, o, y, d)
<1>1. Len(d) \in Nat /\ Len(s) \in Nat /\ Len(u) \in Nat
  OBVIOUS
<1>2. /\ Len(s \o u) = Len(s) + Len(u)
      /\ \A i \in 1 .. Len(s) : (s \o u)[i] = s[i]
  BY ConcatProperties, <1>1
<1>3. /\ o + 1 \in 1 .. Len(s) /\ o + 2 \in 1 .. Len(s)
      /\ \A j \in 1 .. Len(d) : o + FieldLen + j \in 1 .. Len(s)
  <2>1. o + 2 + Len(d) <= Len(s)
    BY DEF Holds, FieldLen
  <2> QED BY <1>1, <2>1 DEF FieldLen
<1>4. /\ (s \o u)[o + 1] = s[o + 1] /\ (s \o u)[o + 2] = s[o + 2]
      /\ \A j \in 1 .. Len(d) : (s \o u)[o + FieldLen + j] = s[o + FieldLen + j]
  BY <1>2, <1>3
<1>5. o + FieldLen + Len(d) <= Len(s \o u)
  BY <1>1, <1>2 DEF Holds, FieldLen
<1> QED BY <1>4, <1>5 DEF Holds

\* It moves when something is put in front.
LEMMA HoldsBehind ==
    ASSUME NEW y, NEW d \in Seq(Nat), NEW s \in Seq(Nat), NEW u \in Seq(Nat), NEW o \in Nat, Holds(s, o, y, d)
    PROVE  Holds(u \o s, Len(u) + o, y, d)
<1>1. Len(d) \in Nat /\ Len(s) \in Nat /\ Len(u) \in Nat
  OBVIOUS
<1>2. /\ Len(u \o s) = Len(u) + Len(s)
      /\ \A i \in 1 .. Len(s) : (u \o s)[Len(u) + i] = s[i]
  <2>1. \A i \in 1 .. Len(s) : /\ Len(u) + i \in 1 .. Len(u) + Len(s)
                               /\ ~ (Len(u) + i <= Len(u)) /\ (Len(u) + i) - Len(u) = i
    BY <1>1
  <2> QED BY ConcatProperties, <2>1
<1>3. /\ o + 1 \in 1 .. Len(s) /\ o + 2 \in 1 .. Len(s)
      /\ \A j \in 1 .. Len(d) : o + FieldLen + j \in 1 .. Len(s)
  <2>1. o + 2 + Len(d) <= Len(s)
    BY DEF Holds, FieldLen
  <2> QED BY <1>1, <2>1 DEF FieldLen
<1>4. /\ (Len(u) + o) + 1 = Len(u) + (o + 1)
      /\ (Len(u) + o) + 2 = Len(u) + (o + 2)
      /\ \A j \in 1 .. Len(d) : (Len(u) + o) + FieldLen + j = Len(u) + (o + FieldLen + j)
      /\ (Len(u) + o) + FieldLen + Len(d) = Len(u) + (o + FieldLen + Len(d))
  BY <1>1 DEF FieldLen
<1>5. /\ (u \o s)[(Len(u) + o) + 1] = s[o + 1]
      /\ (u \o s)[(Len(u) + o) + 2] = s[o + 2]
  <2>1. (u \o s)[Len(u) + (o + 1)] = s[o + 1] /\ (u \o s)[Len(u) + (o + 2)] = s[o + 2]
    BY <1>2, <1>3
  <2> QED BY <1>4, <2>1
<1>6. \A j \in 1 .. Len(d) : (u \o s)[(Len(u) + o) + FieldLen + j] = s[o + FieldLen + j]
  BY <1>2, <1>3, <1>4
<1>7. (Len(u) + o) + FieldLen + Len(d) <= Len(u \o s)
  BY <1>1, <1>2 DEF Holds, FieldLen
<1> QED BY <1>5, <1>6, <1>7 DEF Holds

\* A field that is put behind s is there.
LEMMA HoldsNew ==
    ASSUME NEW f \in Field, NEW s \in Seq(Nat)
    PROVE  Holds(s \o EncodeField(f), Len(s), f.type, f.data)
<1>1. f.data \in Seq(Nat) /\ EncodeField(f) \in Seq(Nat) /\ Len(s) \in Nat
  BY EncodeFieldOf DEF Field
<1>2. Holds(EncodeField(f), 0, f.type, f.data)
  <2>1. PICK n \in Nat : n = Len(f.data)
    BY <1>1
  <2>2. \A j \in 1 .. n : 0 + FieldLen + j = FieldLen + j
    BY DEF FieldLen
  <2>3. 0 + FieldLen + n <= FieldLen + n
    BY DEF FieldLen
  <2> QED BY <2>1, <2>2, <2>3, EncodeFieldOf DEF Holds
<1>3. Holds(s \o EncodeField(f), Len(s) + 0, f.type, f.data)
  BY <1>1, <1>2, HoldsBehind
<1> QED BY <1>1, <1>3

\* The fields of a transaction, encoded.
Body(t) == FlattenSeq([i \in DOMAIN t.fields |-> EncodeField(t.fields[i])])

\* Each field is encoded behind the end of the one before.
LEMMA BodyOf ==
    ASSUME NEW t \in Transaction
    PROVE  /\ Body(t) \in Seq(Nat)
           /\ Len(Body(t)) = FieldEnds(t)[Len(t.fields)]
           /\ \A k \in 0 .. Len(t.fields) :
                 /\ 2 * k <= FieldEnds(t)[k]
                 /\ FieldEnds(t)[k] <= FieldEnds(t)[Len(t.fields)]
           /\ \A k \in 1 .. Len(t.fields) :
                 Holds(Body(t), FieldEnds(t)[k - 1], t.fields[k].type, t.fields[k].data)
<1> DEFINE N == Len(t.fields)
           e == FieldEnds(t)
           F == t.fields
           s == [i \in DOMAIN t.fields |-> EncodeField(t.fields[i])]
           D(k) == Len(F[k].data)
<1>1. /\ N \in Nat /\ DOMAIN t.fields = 1 .. N
      /\ \A n \in 1 .. N : /\ F[n] \in Field /\ F[n].type \in Nat
                           /\ F[n].data \in Seq(Nat) /\ D(n) \in Nat
  BY FieldsOf
<1>2. /\ e \in [0 .. N -> Nat] /\ e[0] = 0
      /\ \A n \in 1 .. N : e[n] = e[n - 1] + FieldLen + D(n)
  BY EndsOf
<1>3. /\ s \in Seq(Seq(Nat)) /\ Len(s) = N
      /\ \A n \in 1 .. N : s[n] = EncodeField(F[n])
  <2>1. \A n \in 1 .. N : EncodeField(F[n]) \in Seq(Nat)
    BY <1>1, EncodeFieldOf
  <2> HIDE DEF N
  <2>2. s \in [1 .. N -> Seq(Nat)]
    BY <1>1, <2>1
  <2>3. s \in Seq(Seq(Nat)) /\ Len(s) = N
    <3> HIDE DEF s
    <3> QED BY <1>1, <2>2
  <2> QED BY <1>1, <2>3
<1>4. PICK f : Fronts(f, s) /\ Body(t) = f[N]
  <2>1. PICK f : Fronts(f, s) /\ FlattenSeq(s) = f[Len(s)]
    <3> HIDE DEF s
    <3> QED BY <1>3, FlattenOf
  <2> QED BY <1>3, <2>1 DEF Body
<1>5. /\ f \in [0 .. N -> Seq(Nat)] /\ f[0] = <<>>
      /\ \A n \in 1 .. N : f[n] = f[n - 1] \o EncodeField(F[n])
  <2> HIDE DEF s
  <2> QED BY <1>3, <1>4 DEF Fronts
<1> HIDE DEF N, e, F, s
<1> DEFINE P(n) == /\ Len(f[n]) = e[n] /\ 2 * n <= e[n]
                   /\ \A k \in 0 .. n : 2 * k <= e[k] /\ e[k] <= e[n]
                   /\ \A k \in 1 .. n : Holds(f[n], e[k - 1], F[k].type, F[k].data)
           S == {n \in 0 .. N : P(n)}
<1>6. 0 \in S
  <2>1. 0 \in 0 .. N /\ Len(f[0]) = 0 /\ e[0] = 0
    BY <1>1, <1>2, <1>5
  <2>2. \A k \in 0 .. 0 : k = 0
    OBVIOUS
  <2>3. \A k \in 1 .. 0 : FALSE
    OBVIOUS
  <2> QED BY <2>1, <2>2, <2>3
<1>7. ASSUME NEW n \in 0 .. N - 1, n \in S PROVE n + 1 \in S
  <2>1. n + 1 \in 1 .. N /\ n + 1 \in 0 .. N /\ n \in 0 .. N /\ (n + 1) - 1 = n
    BY <1>1
  <2>2. P(n)
    BY <1>7
  <2>3. /\ f[n] \in Seq(Nat) /\ F[n + 1] \in Field /\ D(n + 1) \in Nat /\ e[n] \in Nat
        /\ f[n + 1] = f[n] \o EncodeField(F[n + 1])
        /\ e[n + 1] = e[n] + FieldLen + D(n + 1)
    BY <1>1, <1>2, <1>5, <2>1
  <2>4. EncodeField(F[n + 1]) \in Seq(Nat) /\ Len(EncodeField(F[n + 1])) = FieldLen + D(n + 1)
    BY <2>3, EncodeFieldOf
  <2>5. Len(f[n + 1]) = e[n + 1]
    <3> HIDE DEF D
    <3>1. PICK u \in Seq(Nat) : u = EncodeField(F[n + 1])
      BY <2>4
    <3>2. PICK v \in Seq(Nat) : v = f[n]
      BY <2>3
    <3>3. Len(v \o u) = Len(v) + Len(u)
      BY ConcatProperties
    <3>4. Len(u) = FieldLen + D(n + 1) /\ Len(v) = e[n] /\ f[n + 1] = v \o u
      BY <2>2, <2>3, <2>4, <3>1, <3>2
    <3> QED BY <2>3, <3>3, <3>4 DEF FieldLen
  <2>6. 2 * (n + 1) <= e[n + 1] /\ e[n] <= e[n + 1]
    <3> HIDE DEF D
    <3>1. 2 * n <= e[n]
      BY <2>2
    <3> QED BY <2>3, <3>1 DEF FieldLen
  <2>7. ASSUME NEW k \in 0 .. n + 1 PROVE 2 * k <= e[k] /\ e[k] <= e[n + 1]
    <3>1. CASE k = n + 1
      <4>1. e[n + 1] \in Nat
        BY <1>2, <2>1
      <4> QED BY <2>6, <3>1, <4>1
    <3>2. CASE k # n + 1
      <4>0. k \in 0 .. n /\ k \in 0 .. N
        BY <1>1, <2>1, <3>2
      <4>1. k \in 0 .. n /\ e[k] \in Nat /\ e[n + 1] \in Nat
        BY <1>2, <2>1, <4>0
      <4>2. 2 * k <= e[k] /\ e[k] <= e[n]
        BY <2>2, <4>1
      <4> QED BY <2>3, <2>6, <4>1, <4>2
    <3> QED BY <3>1, <3>2
  <2>8. ASSUME NEW k \in 1 .. n + 1 PROVE Holds(f[n + 1], e[k - 1], F[k].type, F[k].data)
    <3>1. CASE k = n + 1
      <4>1. Holds(f[n + 1], Len(f[n]), F[n + 1].type, F[n + 1].data)
        BY <2>3, HoldsNew
      <4> QED BY <2>1, <2>2, <3>1, <4>1
    <3>2. CASE k # n + 1
      <4>1. k \in 1 .. n /\ k \in 1 .. N /\ k - 1 \in 0 .. N
        BY <1>1, <2>1, <3>2
      <4>2. e[k - 1] \in Nat /\ F[k].data \in Seq(Nat) /\ F[k].type \in Nat
        BY <1>1, <1>2, <4>1
      <4>3. Holds(f[n], e[k - 1], F[k].type, F[k].data)
        BY <2>2, <4>1
      <4> QED BY <2>3, <2>4, <4>2, <4>3, HoldsMore
    <3> QED BY <3>1, <3>2
  <2> HIDE DEF D
  <2> QED BY <2>1, <2>5, <2>6, <2>7, <2>8
<1> HIDE DEF S
<1>8. 0 .. N \subseteq S
  BY <1>1, <1>6, <1>7, Induction
<1>9. P(N)
  BY <1>1, <1>8 DEF S
<1>10. f[N] \in Seq(Nat)
  BY <1>1, <1>5
<1> QED BY <1>4, <1>9, <1>10 DEF N, e, F

\* W is large enough for the size of a header to be counted in two digits.
LEMMA Sizes == W \in Nat /\ W > 5 /\ W * W \in Nat /\ W * W > 30
<1>1. W \in Nat /\ W > 5
  BY SizeAssumption DEF HeaderLen
<1> QED BY <1>1

Two(x) == x % (W * W)
High(x) == x \div W

\* Two digits tell a size that 32 bits can count.
LEMMA TwoDigits ==
    ASSUME NEW x \in Nat
    PROVE  /\ Two(x) \in Nat /\ High(Two(x)) \in Nat /\ Low(Two(x)) \in Nat
           /\ x < W * W => Two(x) = x /\ (High(x) * W) + Low(x) = x
<1>1. \A V \in Nat : V > 5 => x % V \in Nat /\ (x < V => x % V = x)
  OBVIOUS
<1>2. W * W \in Nat /\ W * W > 5
  BY Sizes
<1>3. Two(x) \in Nat /\ (x < W * W => Two(x) = x)
  BY <1>1, <1>2 DEF Two
<1>4. \A V \in Nat, y \in Nat : V > 5 => y \div V \in Nat /\ ((y \div V) * V) + (y % V) = y
  OBVIOUS
<1> QED BY <1>3, <1>4, Sizes, LowOf DEF High, Low

\* What an encoded transaction begins with: its header and the number of fields.
Header(t) == <<t.reply, t.type, t.id, High(Two(PayloadSize(t))), Low(Two(PayloadSize(t))),
              Low(Len(t.fields))>>

\* An encoded transaction: its length, its header and its fields.
LEMMA EncodeOf ==
    ASSUME NEW t \in Transaction
    PROVE  /\ PayloadSize(t) \in Nat /\ PayloadSize(t) > 0
           /\ Encode(t) \in Seq(Nat)
           /\ Len(Encode(t)) = HeaderLen + PayloadSize(t)
           /\ \A i \in 1 .. 6 : Encode(t)[i] = Header(t)[i]
           /\ \A k \in 1 .. Len(t.fields) :
                 Holds(Encode(t), 6 + FieldEnds(t)[k - 1], t.fields[k].type, t.fields[k].data)
<1>1. PICK m \in Nat : m = FieldEnds(t)[Len(t.fields)]
  BY EndsOf, FieldsOf
<1>2. PayloadSize(t) = 1 + m /\ PayloadSize(t) \in Nat /\ PayloadSize(t) > 0
  BY <1>1 DEF PayloadSize
<1>3. /\ t.reply \in Nat /\ t.type \in Nat /\ t.id \in Nat
      /\ High(Two(PayloadSize(t))) \in Nat /\ Low(Two(PayloadSize(t))) \in Nat
      /\ Low(Len(t.fields)) \in Nat
  BY <1>2, FieldsOf, TwoDigits, LowOf
<1>4. PICK h \in Seq(Nat) : h = Header(t) /\ Len(h) = 6
  <2>1. \A a1, a2, a3, a4, a5, a6 \in Nat :
           <<a1, a2, a3, a4, a5, a6>> \in Seq(Nat) /\ Len(<<a1, a2, a3, a4, a5, a6>>) = 6
    OBVIOUS
  <2>2. Header(t) \in Seq(Nat) /\ Len(Header(t)) = 6
    BY <1>3, <2>1 DEF Header
  <2> QED BY <2>2
<1>5. PICK b \in Seq(Nat) : b = Body(t) /\ Len(b) = m
  BY <1>1, BodyOf
<1>6. Encode(t) = h \o b
  BY <1>4, <1>5 DEF Encode, Header, High, Low, Two, Body
<1>7. /\ h \o b \in Seq(Nat) /\ Len(h \o b) = 6 + m
      /\ \A i \in 1 .. 6 : (h \o b)[i] = h[i]
  <2>1. \A i \in 1 .. 6 : i \in 1 .. 6 + m /\ i <= 6
    BY <1>1
  <2> QED BY <1>4, <1>5, <2>1, ConcatProperties
<1>8. ASSUME NEW k \in 1 .. Len(t.fields)
      PROVE  Holds(h \o b, 6 + FieldEnds(t)[k - 1], t.fields[k].type, t.fields[k].data)
  <2>1. k - 1 \in 0 .. Len(t.fields)
    BY FieldsOf
  <2>2. FieldEnds(t)[k - 1] \in Nat /\ t.fields[k].data \in Seq(Nat)
    BY <2>1, EndsOf, FieldsOf
  <2>3. Holds(b, FieldEnds(t)[k - 1], t.fields[k].type, t.fields[k].data)
    BY <1>5, BodyOf
  <2> QED BY <1>4, <2>2, <2>3, HoldsBehind
<1>9. 6 + m = HeaderLen + PayloadSize(t)
  BY <1>2 DEF HeaderLen
<1> QED BY <1>2, <1>4, <1>6, <1>7, <1>8, <1>9

\* The header of a transaction tells its length, if 32 bits can count it.
LEMMA HeaderTells ==
    ASSUME NEW t \in Transaction, HeaderLen + PayloadSize(t) < W * W
    PROVE  HeaderLen + (Encode(t)[4] * W) + Encode(t)[5] = Len(Encode(t))
<1>1. PICK x \in Nat : x = PayloadSize(t)
  BY EncodeOf
<1>2. x < W * W
  BY <1>1, Sizes DEF HeaderLen
<1>3. Encode(t)[4] = High(Two(x)) /\ Encode(t)[5] = Low(Two(x))
  <2>1. 4 \in 1 .. 6 /\ 5 \in 1 .. 6 /\ Header(t)[4] = High(Two(x)) /\ Header(t)[5] = Low(Two(x))
    BY <1>1 DEF Header
  <2> QED BY <2>1, EncodeOf
<1>4. Two(x) = x /\ (High(x) * W) + Low(x) = x /\ High(x) \in Nat /\ Low(x) \in Nat
  BY <1>2, TwoDigits
<1>5. Encode(t)[4] = High(x) /\ Encode(t)[5] = Low(x)
  BY <1>3, <1>4
<1>6. PICK y \in Nat : y = High(x) * W
  BY <1>4, Sizes
<1>7. Len(Encode(t)) = HeaderLen + x
  BY <1>1, EncodeOf
<1> QED BY <1>4, <1>5, <1>6, <1>7 DEF HeaderLen

\* The length of an encoded transaction.
LEMMA LenOf ==
    ASSUME NEW t \in Transaction
    PROVE  /\ FieldEnds(t)[Len(t.fields)] \in Nat
           /\ Len(Encode(t)) = 6 + FieldEnds(t)[Len(t.fields)]
<1>1. PICK m \in Nat : m = FieldEnds(t)[Len(t.fields)]
  BY EndsOf, FieldsOf
<1>2. PICK x \in Nat : x = PayloadSize(t) /\ x = 1 + m
  BY <1>1 DEF PayloadSize
<1>3. Len(Encode(t)) = HeaderLen + x
  BY <1>2, EncodeOf
<1>4. Len(Encode(t)) = 6 + m
  BY <1>2, <1>3 DEF HeaderLen
<1> QED BY <1>1, <1>4

\* A part of a payload is shorter than the whole.
LEMMA WithinWidth ==
    \A x, y, z, m, V \in Nat : y = x + 2 + z /\ y <= m /\ 6 + m <= V => z < V
  OBVIOUS

\* A transaction that fits into the buffer of the scanner has a number of fields
\* and fields whose lengths take one digit each.
LEMMA ShortFields ==
    ASSUME NEW t \in Transaction, Len(Encode(t)) <= W
    PROVE  /\ Len(t.fields) < W /\ Len(t.fields) <= Len(Encode(t))
           /\ \A k \in 1 .. Len(t.fields) : Len(t.fields[k].data) < W
<1>1. PICK m \in Nat : m = FieldEnds(t)[Len(t.fields)]
  BY EndsOf, FieldsOf
<1>2. Len(Encode(t)) = 6 + m
  BY <1>1, LenOf
<1>3. PICK n \in Nat : n = Len(t.fields)
  BY FieldsOf
<1>4. 2 * n <= m
  <2>1. \A k \in 0 .. n : 2 * k <= FieldEnds(t)[k]
    BY <1>3, BodyOf
  <2>2. 2 * n <= FieldEnds(t)[n]
    BY <1>3, <2>1
  <2> QED BY <1>1, <1>3, <2>2
<1>5. ASSUME NEW k \in 1 .. n PROVE Len(t.fields[k].data) < W
  <2>1. k - 1 \in 0 .. n /\ k \in 0 .. n
    BY <1>3
  <2>2. PICK x \in Nat, y \in Nat, z \in Nat :
           x = FieldEnds(t)[k - 1] /\ y = FieldEnds(t)[k] /\ z = Len(t.fields[k].data)
    BY <1>3, <2>1, EndsOf, FieldsOf
  <2>3. y = x + 2 + z
    BY <1>3, <2>2, EndsOf DEF FieldLen
  <2>4. y <= m
    <3>1. \A i \in 0 .. n : FieldEnds(t)[i] <= FieldEnds(t)[Len(t.fields)]
      BY <1>3, BodyOf
    <3> QED BY <1>1, <2>1, <2>2, <3>1
  <2>5. 6 + m <= W /\ W \in Nat
    BY <1>2, Sizes
  <2> QED BY <2>2, <2>3, <2>4, <2>5, WithinWidth
<1> QED BY <1>2, <1>3, <1>4, <1>5, Sizes

\* FieldStarts finds the fields that were encoded.
LEMMA StartsAre ==
    ASSUME NEW t \in Transaction, Len(Encode(t)) <= W,
           NEW k \in 0 .. Len(t.fields)
    PROVE  FieldStarts(Encode(t))[k] = 7 + FieldEnds(t)[k]
<1> DEFINE N == Len(t.fields)
           e == FieldEnds(t)
           p == Encode(t)
           st == FieldStarts(p)
<1>1. N \in Nat /\ e \in [0 .. N -> Nat] /\ e[0] = 0
  BY EndsOf, FieldsOf
<1>2. p \in Seq(Nat) /\ Len(p) = 6 + e[N] /\ Len(p) \in Nat /\ N <= Len(p)
  BY EncodeOf, LenOf, ShortFields
<1>3. /\ st \in [0 .. Len(p) -> Nat] /\ st[0] = 7
      /\ \A n \in 1 .. Len(p) : st[n] = After(p, st[n - 1])
  <2> HIDE DEF p
  <2> QED BY <1>2, StartsOf DEF HeaderLen
<1>4. \A n \in 1 .. N : e[n] = e[n - 1] + FieldLen + Len(t.fields[n].data)
  BY EndsOf
<1>5. \A n \in 1 .. N : /\ Holds(p, 6 + e[n - 1], t.fields[n].type, t.fields[n].data)
                        /\ Len(t.fields[n].data) \in Nat /\ Len(t.fields[n].data) < W
  BY EncodeOf, ShortFields, FieldsOf
<1>6. \A n \in 0 .. N : e[n] <= e[N]
  BY BodyOf
<1> HIDE DEF N, e, p, st
<1> DEFINE S == {n \in 0 .. N : st[n] = 7 + e[n]}
<1>7. 0 \in S
  BY <1>1, <1>3
<1>8. ASSUME NEW n \in 0 .. N - 1, n \in S PROVE n + 1 \in S
  <2>1. n + 1 \in 1 .. N /\ n + 1 \in 0 .. N /\ (n + 1) - 1 = n /\ n + 1 \in 1 .. Len(p) /\ n \in 0 .. N
    BY <1>1, <1>2
  <2>2. PICK x \in Nat, y \in Nat, z \in Nat, w \in Nat :
           x = e[n] /\ y = e[n + 1] /\ z = Len(t.fields[n + 1].data) /\ w = e[N]
    <3>1. N \in 0 .. N
      BY <1>1
    <3> QED BY <1>1, <1>5, <2>1, <3>1
  <2>3. y = x + 2 + z /\ y <= w /\ z < W
    BY <1>4, <1>5, <1>6, <2>1, <2>2 DEF FieldLen
  <2>4. Holds(p, 6 + x, t.fields[n + 1].type, t.fields[n + 1].data)
    BY <1>5, <2>1, <2>2
  <2>5. p[(6 + x) + 2] = Low(z)
    BY <2>2, <2>4 DEF Holds
  <2>6. Low(z) = z
    BY <2>2, <2>3, LowOf
  <2>7. st[n] = 7 + x /\ (7 + x) + 1 = (6 + x) + 2
    BY <1>8, <2>2
  <2>8. p[(7 + x) + 1] = z
    BY <2>5, <2>6, <2>7
  <2>9. After(p, 7 + x) = 7 + y
    <3>1. PICK q \in Nat : q = Len(p) /\ q = 6 + w
      BY <1>2, <2>2
    <3>2. PICK i \in Nat : i = 7 + x
      OBVIOUS
    <3>3. i > 0 /\ i + 1 <= q /\ i + 2 + z = 7 + y /\ 7 + y <= q + 1
      BY <2>3, <3>1, <3>2
    <3>4. p[i + 1] = z
      BY <2>8, <3>2
    <3> QED BY <3>1, <3>2, <3>3, <3>4 DEF After, FieldLen
  <2>10. st[n + 1] = After(p, 7 + x)
    BY <1>3, <2>1, <2>7
  <2> QED BY <2>1, <2>2, <2>9, <2>10
<1> HIDE DEF S
<1>9. 0 .. N \subseteq S
  BY <1>1, <1>7, <1>8, Induction
<1> QED BY <1>9 DEF S, N, e, p, st

\* A part of a sequence is told by its length and its elements.
LEMMA SubSeqIs ==
    ASSUME NEW T, NEW p \in Seq(T), NEW a \in Nat, NEW d \in Seq(T), a + Len(d) <= Len(p),
           \A j \in 1 .. Len(d) : p[a + j] = d[j]
    PROVE  SubSeq(p, a + 1, a + Len(d)) = d
<1>1. PICK n \in Nat : n = Len(d)
  OBVIOUS
<1>2. PICK m \in Nat : m = Len(p)
  OBVIOUS
<1>3. \A i \in (a + 1) .. (a + n) : i \in 1 .. m
  BY <1>1, <1>2
<1>4. \A i \in (a + 1) .. (a + n) : p[i] \in T
  BY <1>2, <1>3
<1> DEFINE u == SubSeq(p, a + 1, a + n)
<1>5. u \in Seq(T)
  BY <1>4, SubSeqProperties
<1>6. Len(u) = n
  <2>1. Len(u) = IF a + 1 <= a + n THEN (a + n) - (a + 1) + 1 ELSE 0
    BY <1>4, SubSeqProperties
  <2> QED BY <2>1
<1>7. \A j \in 1 .. n : u[j] = p[a + j]
  <2> TAKE j \in 1 .. n
  <2>1. j \in 1 .. (a + n) - (a + 1) + 1 /\ (a + 1) + j - 1 = a + j
    OBVIOUS
  <2> QED BY <2>1, <1>4, SubSeqProperties
<1> HIDE DEF u
<1>8. u = d
  BY <1>1, <1>5, <1>6, <1>7, SeqEqual
<1> QED BY <1>1, <1>8 DEF u

\* A transaction that fits into the buffer of the scanner is decoded as it was
\* encoded (Transaction.Read, then Transaction.Write with FieldScanner).
THEOREM RoundTrip ==
    ASSUME NEW t \in Transaction, Len(Encode(t)) <= W
    PROVE  Decode(Encode(t)) = <<t>>
<1> DEFINE N == Len(t.fields)
           e == FieldEnds(t)
           p == Encode(t)
           st == FieldStarts(p)
           Cut(i) == [type |-> p[st[i - 1]],
                      data |-> SubSeq(p, st[i - 1] + FieldLen, st[i] - 1)]
<1>1. /\ N \in Nat /\ e \in [0 .. N -> Nat] /\ t.fields \in Seq(Field)
      /\ \A n \in 1 .. N : /\ t.fields[n] \in Field /\ t.fields[n].type \in Nat
                           /\ t.fields[n].data \in Seq(Nat) /\ Len(t.fields[n].data) \in Nat
  BY EndsOf, FieldsOf
<1>2. /\ p \in Seq(Nat) /\ Len(p) = 6 + e[N] /\ e[N] \in Nat
      /\ N <= Len(p) /\ N < W
      /\ \A i \in 1 .. 6 : p[i] = Header(t)[i]
  BY EncodeOf, LenOf, ShortFields
<1>3. /\ \A n \in 1 .. N : e[n] = e[n - 1] + FieldLen + Len(t.fields[n].data)
      /\ \A n \in 1 .. N : Holds(p, 6 + e[n - 1], t.fields[n].type, t.fields[n].data)
      /\ \A n \in 0 .. N : st[n] = 7 + e[n]
  BY EndsOf, EncodeOf, StartsAre
<1>4. Len(p) > HeaderLen
  BY <1>2 DEF HeaderLen
<1>5. /\ p[1] = t.reply /\ p[2] = t.type /\ p[3] = t.id /\ p[HeaderLen + 1] = N
  <2>1. Low(N) = N
    BY <1>1, <1>2, LowOf
  <2> HIDE DEF p
  <2>2. p[1] = Header(t)[1] /\ p[2] = Header(t)[2] /\ p[3] = Header(t)[3] /\ p[6] = Header(t)[6]
    BY <1>2
  <2>3. p[1] = t.reply /\ p[2] = t.type /\ p[3] = t.id /\ p[6] = Low(Len(t.fields))
    BY <2>2 DEF Header
  <2>4. HeaderLen + 1 = 6
    BY DEF HeaderLen
  <2> QED BY <2>1, <2>3, <2>4
<1> HIDE DEF N, e, p, st
<1>6. \A i \in 1 .. N : ~ (i > Len(p)) /\ st[i] # 0
  <2> TAKE i \in 1 .. N
  <2>1. i \in 0 .. N /\ e[i] \in Nat
    BY <1>1
  <2>2. PICK x \in Nat, q \in Nat : x = e[i] /\ q = Len(p)
    BY <1>2, <2>1
  <2>3. st[i] = 7 + x /\ i <= q
    BY <1>1, <1>2, <1>3, <2>1, <2>2
  <2> QED BY <2>2, <2>3
<1>7. ASSUME NEW i \in 1 .. N PROVE Cut(i) = t.fields[i]
  <2>1. i \in 0 .. N /\ i - 1 \in 0 .. N
    BY <1>1
  <2>2. PICK x \in Nat : x = e[i - 1]
    BY <1>1, <2>1
  <2>3. PICK d \in Seq(Nat), y \in Nat : d = t.fields[i].data /\ y = t.fields[i].type
    BY <1>1
  <2>4. PICK z \in Nat : z = Len(d)
    BY <2>3
  <2>5. e[i] = x + 2 + z
    BY <1>3, <2>2, <2>3, <2>4 DEF FieldLen
  <2>6. Holds(p, 6 + x, y, d)
    BY <1>3, <2>2, <2>3
  <2>7. st[i - 1] = 7 + x /\ st[i] = 7 + (x + 2 + z)
    BY <1>3, <2>1, <2>2, <2>5
  <2>8. p[7 + x] = y
    <3>1. (6 + x) + 1 = 7 + x
      OBVIOUS
    <3> QED BY <2>6, <3>1 DEF Holds
  <2>9. SubSeq(p, 9 + x, 8 + x + z) = d
    <3>1. (8 + x) + Len(d) <= Len(p)
      <4>1. (6 + x) + 2 + z <= Len(p)
        BY <2>4, <2>6 DEF Holds, FieldLen
      <4> QED BY <1>2, <2>4, <4>1
    <3>2. \A j \in 1 .. Len(d) : p[(8 + x) + j] = d[j]
      <4> TAKE j \in 1 .. Len(d)
      <4>1. (6 + x) + 2 + j = (8 + x) + j
        OBVIOUS
      <4> QED BY <2>6, <4>1 DEF Holds, FieldLen
    <3>3. SubSeq(p, (8 + x) + 1, (8 + x) + Len(d)) = d
      <4>1. 8 + x \in Nat
        OBVIOUS
      <4> QED BY <1>2, <3>1, <3>2, <4>1, SubSeqIs
    <3>4. (8 + x) + 1 = 9 + x
      OBVIOUS
    <3> QED BY <2>4, <3>3, <3>4
  <2>10. (7 + x) + FieldLen = 9 + x /\ (7 + (x + 2 + z)) - 1 = 8 + x + z
    BY DEF FieldLen
  <2>11. Cut(i) = [type |-> y, data |-> d]
    BY <2>7, <2>8, <2>9, <2>10
  <2>12. t.fields[i] = [type |-> y, data |-> d]
    <3>1. PICK f \in Field : f = t.fields[i]
      BY <1>1
    <3>2. f = [type |-> f.type, data |-> f.data]
      BY DEF Field
    <3> QED BY <2>3, <3>1, <3>2
  <2> QED BY <2>11, <2>12
<1>8. [i \in 1 .. N |-> Cut(i)] = t.fields
  <2>1. PICK F \in Seq(Field) : F = t.fields /\ Len(F) = N
    BY <1>1 DEF N
  <2>2. F = [i \in 1 .. N |-> F[i]]
    BY <2>1
  <2> HIDE DEF Cut
  <2>3. [i \in 1 .. N |-> Cut(i)] = [i \in 1 .. N |-> F[i]]
    BY <1>7, <2>1
  <2> QED BY <2>1, <2>2, <2>3
<1>9. t = [reply |-> t.reply, type |-> t.type, id |-> t.id, fields |-> t.fields]
  BY DEF Transaction
<1>10. Decode(p) = <<[reply |-> p[1], type |-> p[2], id |-> p[3], fields |-> [i \in 1 .. N |-> Cut(i)]]>>
  <2>1. (IF Len(p) > HeaderLen THEN p[HeaderLen + 1] ELSE 0) = N /\ ~ (Len(p) <= HeaderLen)
    BY <1>4, <1>5, <1>2 DEF HeaderLen
  <2>2. ~ (\E i \in 1 .. N : i > Len(p) \/ st[i] = 0)
    BY <1>6
  <2> QED BY <2>1, <2>2, Zenon DEF Decode, st
<1>11. Decode(p) = <<t>>
  <2> HIDE DEF Cut
  <2> QED BY <1>5, <1>8, <1>9, <1>10
<1> QED BY <1>11 DEF p

-----------------------------------------------------------------------------
(* Streams of transactions *)

\* Two sequences, one behind the other.
LEMMA ConcatOf ==
    ASSUME NEW T, NEW z \in Seq(T), NEW e \in Seq(T)
    PROVE  /\ z \o e \in Seq(T) /\ Len(z \o e) = Len(z) + Len(e)
           /\ \A j \in 1 .. Len(z) : (z \o e)[j] = z[j]
           /\ \A j \in 1 .. Len(e) : (z \o e)[Len(z) + j] = e[j]
<1>1. PICK m \in Nat, k \in Nat : m = Len(z) /\ k = Len(e)
  OBVIOUS
<1>2. \A j \in 1 .. m : j \in 1 .. m + k /\ j <= m
  OBVIOUS
<1>3. \A j \in 1 .. k : m + j \in 1 .. m + k /\ ~ (m + j <= m) /\ (m + j) - m = j
  OBVIOUS
<1>4. /\ z \o e \in Seq(T) /\ Len(z \o e) = m + k
      /\ \A i \in 1 .. m + k : (z \o e)[i] = IF i <= m THEN z[i] ELSE e[i - m]
  BY <1>1, ConcatProperties
<1>5. \A j \in 1 .. m : (z \o e)[j] = z[j]
  BY <1>2, <1>4
<1>6. ASSUME NEW j \in 1 .. k PROVE (z \o e)[m + j] = e[j]
  <2>1. (z \o e)[m + j] = IF m + j <= m THEN z[m + j] ELSE e[(m + j) - m]
    BY <1>3, <1>4, Zenon
  <2> QED BY <1>3, <2>1
<1> QED BY <1>1, <1>4, <1>5, <1>6

\* What is left of a sequence behind its first k elements.
LEMMA DropOf ==
    ASSUME NEW T, NEW z \in Seq(T), NEW k \in Nat, k <= Len(z)
    PROVE  /\ SubSeq(z, k + 1, Len(z)) \in Seq(T)
           /\ Len(SubSeq(z, k + 1, Len(z))) = Len(z) - k
           /\ \A j \in 1 .. Len(z) - k : SubSeq(z, k + 1, Len(z))[j] = z[k + j]
<1>1. PICK m \in Nat : m = Len(z) /\ k <= m
  OBVIOUS
<1>2. \A i \in (k + 1) .. m : i \in 1 .. m
  OBVIOUS
<1>3. \A i \in (k + 1) .. m : z[i] \in T
  BY <1>1, <1>2
<1> DEFINE y == SubSeq(z, k + 1, m)
<1>4. y \in Seq(T)
  BY <1>3, SubSeqProperties
<1>5. Len(y) = IF k + 1 <= m THEN m - (k + 1) + 1 ELSE 0
  BY <1>3, SubSeqProperties
<1>6. Len(y) = m - k
  BY <1>1, <1>5
<1>7. ASSUME NEW j \in 1 .. m - k PROVE y[j] = z[k + j]
  <2>1. j \in 1 .. m - (k + 1) + 1 /\ (k + 1) + j - 1 = k + j
    OBVIOUS
  <2> QED BY <1>3, <2>1, SubSeqProperties
<1> QED BY <1>1, <1>4, <1>6, <1>7

\* The first k elements of a sequence.
LEMMA TakeOf ==
    ASSUME NEW T, NEW z \in Seq(T), NEW k \in Nat, k <= Len(z)
    PROVE  /\ SubSeq(z, 1, k) \in Seq(T) /\ Len(SubSeq(z, 1, k)) = k
           /\ \A j \in 1 .. k : SubSeq(z, 1, k)[j] = z[j]
<1>1. PICK m \in Nat : m = Len(z) /\ k <= m
  OBVIOUS
<1>2. \A i \in 1 .. k : i \in 1 .. m
  BY <1>1
<1>3. \A i \in 1 .. k : z[i] \in T
  BY <1>1, <1>2
<1> DEFINE y == SubSeq(z, 1, k)
<1>4. y \in Seq(T)
  BY <1>3, SubSeqProperties
<1>5. Len(y) = IF 1 <= k THEN k - 1 + 1 ELSE 0
  BY <1>3, SubSeqProperties
<1>6. Len(y) = k
  BY <1>5
<1>7. ASSUME NEW j \in 1 .. k PROVE y[j] = z[j]
  <2>1. j \in 1 .. k - 1 + 1 /\ 1 + j - 1 = j
    OBVIOUS
  <2> QED BY <1>3, <2>1, SubSeqProperties
<1> QED BY <1>4, <1>6, <1>7

\* A sequence is its first k elements and what is left.
LEMMA TakeDrop ==
    ASSUME NEW T, NEW z \in Seq(T), NEW k \in Nat, k <= Len(z)
    PROVE  SubSeq(z, 1, k) \o SubSeq(z, k + 1, Len(z)) = z
<1>1. PICK m \in Nat : m = Len(z) /\ k <= m
  OBVIOUS
<1>2. 1 \in 1 .. m + 1 /\ k \in 1 - 1 .. m /\ m \in k .. m
  BY <1>1
<1>3. SubSeq(z, 1, k) \o SubSeq(z, k + 1, m) = SubSeq(z, 1, m)
  BY <1>1, <1>2, ConcatAdjacentSubSeq
<1> QED BY <1>1, <1>3, SubSeqFull

\* What 32 bits can count.
Small == {t \in Transaction : HeaderLen + PayloadSize(t) < W * W}

\* t is encoded in z behind its first o digits.
Written(z, o, t) ==
    /\ o + Len(Encode(t)) <= Len(z)
    /\ \A j \in 1 .. Len(Encode(t)) : z[o + j] = Encode(t)[j]

\* z is what the transactions of u are encoded as, one behind the other: each
\* one starts behind the first pos[i] digits.
Cuts(z, u, pos) ==
    /\ pos \in [1 .. Len(u) + 1 -> Nat]
    /\ pos[1] = 0 /\ pos[Len(u) + 1] = Len(z)
    /\ \A i, j \in 1 .. Len(u) + 1 : i <= j => pos[i] <= pos[j]
    /\ \A i \in 1 .. Len(u) :
          Written(z, pos[i], u[i]) /\ pos[i + 1] = pos[i] + Len(Encode(u[i]))

Stream(z, u) == \E pos : Cuts(z, u, pos)

\* Nothing is the stream of no transactions.
LEMMA StreamEmpty == Stream(<<>>, <<>>)
<1> DEFINE pos == [i \in 1 .. 1 |-> 0]
<1>1. Len(<<>>) = 0 /\ 0 + 1 = 1
  OBVIOUS
<1>2. Cuts(<<>>, <<>>, pos)
  BY <1>1 DEF Cuts
<1> QED BY <1>2 DEF Stream

\* The stream goes on with the transaction that is written next.
LEMMA StreamAppend ==
    ASSUME NEW z \in Seq(Nat), NEW u \in Seq(Small), NEW t \in Small, Stream(z, u)
    PROVE  Stream(z \o Encode(t), Append(u, t))
<1>1. PICK pos : Cuts(z, u, pos)
  BY DEF Stream
<1>2. PICK n \in Nat, m \in Nat : n = Len(u) /\ m = Len(z)
  OBVIOUS
<1>3. t \in Transaction
  BY DEF Small
<1>4. PICK e \in Seq(Nat) : e = Encode(t)
  BY <1>3, EncodeOf
<1>5. PICK k \in Nat : k = Len(e)
  BY <1>4
<1>6. PICK y \in Seq(Nat) : /\ y = z \o e /\ Len(y) = m + k
                            /\ \A j \in 1 .. m : y[j] = z[j]
                            /\ \A j \in 1 .. k : y[m + j] = e[j]
  <2>1. /\ z \o e \in Seq(Nat) /\ Len(z \o e) = m + k
        /\ \A j \in 1 .. m : (z \o e)[j] = z[j]
        /\ \A j \in 1 .. k : (z \o e)[m + j] = e[j]
    BY <1>2, <1>4, <1>5, ConcatOf
  <2> QED BY <2>1, Zenon
<1>7. PICK v \in Seq(Small) : /\ v = Append(u, t) /\ Len(v) = n + 1
                              /\ \A i \in 1 .. n : v[i] = u[i]
                              /\ v[n + 1] = t
  BY <1>2, AppendProperties
<1>8. /\ pos \in [1 .. n + 1 -> Nat] /\ pos[1] = 0 /\ pos[n + 1] = m
      /\ \A i, j \in 1 .. n + 1 : i <= j => pos[i] <= pos[j]
      /\ \A i \in 1 .. n : Written(z, pos[i], u[i]) /\ pos[i + 1] = pos[i] + Len(Encode(u[i]))
  BY <1>1, <1>2 DEF Cuts
<1> DEFINE new == [i \in 1 .. (n + 1) + 1 |-> IF i = (n + 1) + 1 THEN m + k ELSE pos[i]]
<1>9. /\ new \in [1 .. (n + 1) + 1 -> Nat]
      /\ new[(n + 1) + 1] = m + k
      /\ \A i \in 1 .. n + 1 : new[i] = pos[i]
  BY <1>8
<1> HIDE DEF new
<1>10. new[1] = 0
  BY <1>8, <1>9
<1>11. ASSUME NEW i \in 1 .. (n + 1) + 1, NEW j \in 1 .. (n + 1) + 1, i <= j PROVE new[i] <= new[j]
  <2>1. CASE j \in 1 .. n + 1
    <3>1. i \in 1 .. n + 1
      BY <1>11, <2>1
    <3> QED BY <1>8, <1>9, <1>11, <2>1, <3>1
  <2>2. CASE j = (n + 1) + 1 /\ i \in 1 .. n + 1
    <3>1. n + 1 \in 1 .. n + 1 /\ i <= n + 1
      BY <2>2
    <3>2. pos[i] <= m /\ pos[i] \in Nat
      BY <1>8, <2>2, <3>1
    <3> QED BY <1>9, <2>2, <3>2
  <2>3. CASE j = (n + 1) + 1 /\ i = (n + 1) + 1
    BY <1>9, <2>3
  <2> QED BY <1>11, <2>1, <2>2, <2>3
<1>12. ASSUME NEW i \in 1 .. n + 1
       PROVE  Written(y, new[i], v[i]) /\ new[i + 1] = new[i] + Len(Encode(v[i]))
  <2>1. CASE i = n + 1
    <3>1. new[i] = m /\ v[i] = t /\ new[i + 1] = m + k
      BY <1>7, <1>8, <1>9, <2>1
    <3> QED BY <1>4, <1>5, <1>6, <3>1 DEF Written
  <2>2. CASE i # n + 1
    <3>1. i \in 1 .. n /\ i + 1 \in 1 .. n + 1
      BY <2>2
    <3>2. PICK w \in Nat : w = pos[i]
      BY <1>8
    <3>3. new[i] = w /\ new[i + 1] = pos[i + 1] /\ v[i] = u[i]
      BY <1>7, <1>9, <3>1, <3>2
    <3>4. u[i] \in Transaction
      BY <1>2, <3>1 DEF Small
    <3>5. PICK g \in Seq(Nat) : g = Encode(u[i])
      BY <3>4, EncodeOf
    <3>6. PICK l \in Nat : l = Len(g)
      BY <3>5
    <3>7. w + l <= m /\ \A j \in 1 .. l : z[w + j] = g[j]
      BY <1>2, <1>8, <3>1, <3>2, <3>5, <3>6 DEF Written
    <3>8. \A j \in 1 .. l : w + j \in 1 .. m
      BY <3>7
    <3>9. w + l <= Len(y) /\ \A j \in 1 .. l : y[w + j] = g[j]
      <4>1. \A j \in 1 .. l : y[w + j] = z[w + j]
        BY <1>6, <3>8
      <4> QED BY <1>6, <3>7, <4>1
    <3>10. Written(y, new[i], v[i])
      BY <3>3, <3>5, <3>6, <3>9 DEF Written
    <3> QED BY <1>8, <3>1, <3>2, <3>3, <3>10
  <2> QED BY <2>1, <2>2
<1>13. Cuts(y, v, new)
  <2>1. 1 .. Len(v) = 1 .. n + 1 /\ Len(v) + 1 = (n + 1) + 1
    BY <1>7
  <2> QED BY <1>6, <1>9, <1>10, <1>11, <1>12, <2>1 DEF Cuts
<1> QED BY <1>4, <1>6, <1>7, <1>13 DEF Stream

\* The stream starts with its first transaction, and goes on behind it.
LEMMA StreamHead ==
    ASSUME NEW z \in Seq(Nat), NEW u \in Seq(Small), Stream(z, u), Len(z) > 0
    PROVE  /\ u # <<>> /\ Len(u) > 0 /\ u[1] \in Small
           /\ Written(z, 0, u[1])
           /\ Stream(SubSeq(z, Len(Encode(u[1])) + 1, Len(z)), Tail(u))
<1>1. PICK pos : Cuts(z, u, pos)
  BY DEF Stream
<1>2. PICK n \in Nat, m \in Nat : n = Len(u) /\ m = Len(z) /\ m > 0
  OBVIOUS
<1>3. /\ pos \in [1 .. n + 1 -> Nat] /\ pos[1] = 0 /\ pos[n + 1] = m
      /\ \A i, j \in 1 .. n + 1 : i <= j => pos[i] <= pos[j]
      /\ \A i \in 1 .. n : Written(z, pos[i], u[i]) /\ pos[i + 1] = pos[i] + Len(Encode(u[i]))
  BY <1>1, <1>2 DEF Cuts
<1>4. n > 0
  <2> SUFFICES ASSUME n = 0 PROVE FALSE
    BY <1>2
  <2> QED BY <1>2, <1>3
<1>5. u[1] \in Small /\ u # <<>> /\ 1 \in 1 .. n
  BY <1>2, <1>4
<1>6. u[1] \in Transaction
  BY <1>5 DEF Small
<1>7. PICK k \in Nat : k = Len(Encode(u[1]))
  <2>1. Encode(u[1]) \in Seq(Nat)
    BY <1>6, EncodeOf
  <2> QED BY <2>1
<1>8. Written(z, 0, u[1]) /\ pos[2] = k
  BY <1>3, <1>5, <1>7
<1>9. k <= m
  BY <1>2, <1>7, <1>8 DEF Written
<1>10. PICK v \in Seq(Small) : /\ v = Tail(u) /\ Len(v) = n - 1
                               /\ \A i \in 1 .. n - 1 : v[i] = u[i + 1]
  <2>1. /\ Tail(u) \in Seq(Small) /\ Len(Tail(u)) = n - 1
        /\ \A i \in 1 .. Len(Tail(u)) : Tail(u)[i] = u[i + 1]
    BY <1>2, <1>5, HeadTailProperties
  <2>2. \A i \in 1 .. n - 1 : Tail(u)[i] = u[i + 1]
    BY <2>1, Zenon
  <2> QED BY <2>1, <2>2, Zenon
<1>11. PICK y \in Seq(Nat) : /\ y = SubSeq(z, k + 1, m) /\ Len(y) = m - k
                             /\ \A j \in 1 .. m - k : y[j] = z[k + j]
  <2>1. /\ SubSeq(z, k + 1, m) \in Seq(Nat) /\ Len(SubSeq(z, k + 1, m)) = m - k
        /\ \A j \in 1 .. m - k : SubSeq(z, k + 1, m)[j] = z[k + j]
    BY <1>2, <1>9, DropOf
  <2> QED BY <2>1, Zenon
<1>12. \A i \in 1 .. n : /\ i + 1 \in 1 .. n + 1 /\ pos[i + 1] \in Nat /\ pos[i + 1] >= k
  <2> TAKE i \in 1 .. n
  <2>1. i + 1 \in 1 .. n + 1 /\ 2 \in 1 .. n + 1 /\ 2 <= i + 1
    BY <1>4
  <2>2. pos[2] <= pos[i + 1] /\ pos[i + 1] \in Nat
    BY <1>3, <2>1
  <2> QED BY <1>8, <2>1, <2>2
<1> DEFINE new == [i \in 1 .. n |-> pos[i + 1] - k]
<1>13. new \in [1 .. n -> Nat] /\ \A i \in 1 .. n : new[i] = pos[i + 1] - k
  BY <1>12
<1> HIDE DEF new
<1>14. new[1] = 0 /\ new[n] = m - k
  BY <1>3, <1>4, <1>5, <1>8, <1>13
<1>15. ASSUME NEW i \in 1 .. n, NEW j \in 1 .. n, i <= j PROVE new[i] <= new[j]
  <2>1. i + 1 <= j + 1 /\ i + 1 \in 1 .. n + 1 /\ j + 1 \in 1 .. n + 1
    BY <1>15
  <2>2. PICK a \in Nat, b \in Nat : a = pos[i + 1] /\ b = pos[j + 1]
    BY <1>3, <2>1
  <2>3. a <= b
    BY <1>3, <2>1, <2>2
  <2>4. new[i] = a - k /\ new[j] = b - k
    BY <1>13, <2>2
  <2> QED BY <2>2, <2>3, <2>4
<1>16. ASSUME NEW i \in 1 .. n - 1
       PROVE  Written(y, new[i], v[i]) /\ new[i + 1] = new[i] + Len(Encode(v[i]))
  <2>1. i \in 1 .. n /\ i + 1 \in 1 .. n /\ (i + 1) + 1 \in 1 .. n + 1
    OBVIOUS
  <2>2. PICK a \in Nat, b \in Nat : a = pos[i + 1] /\ b = pos[(i + 1) + 1]
    <3>1. i + 1 \in 1 .. n + 1
      BY <2>1
    <3> QED BY <1>3, <2>1, <3>1
  <2>3. new[i] = a - k /\ new[i + 1] = b - k /\ a >= k
    BY <1>12, <1>13, <2>1, <2>2
  <2>4. v[i] = u[i + 1] /\ u[i + 1] \in Transaction
    BY <1>2, <1>10, <2>1 DEF Small
  <2>5. PICK g \in Seq(Nat) : g = Encode(u[i + 1])
    BY <2>4, EncodeOf
  <2>6. PICK l \in Nat : l = Len(g)
    BY <2>5
  <2>7. b = a + l /\ a + l <= m /\ \A j \in 1 .. l : z[a + j] = g[j]
    BY <1>2, <1>3, <2>1, <2>2, <2>5, <2>6 DEF Written
  <2>8. ASSUME NEW j \in 1 .. l PROVE y[(a - k) + j] = g[j]
    <3>1. (a - k) + j \in 1 .. m - k /\ k + ((a - k) + j) = a + j
      <4>1. a + l <= m /\ a >= k
        BY <2>3, <2>7
      <4> QED BY <4>1
    <3> QED BY <1>11, <2>7, <3>1
  <2>9. (a - k) + l <= m - k /\ b - k = (a - k) + l
    BY <2>7
  <2>10. Written(y, new[i], v[i])
    BY <1>11, <2>3, <2>4, <2>5, <2>6, <2>8, <2>9 DEF Written
  <2> QED BY <2>3, <2>4, <2>5, <2>6, <2>9, <2>10
<1>17. Cuts(y, v, new)
  <2>1. Len(v) = n - 1 /\ Len(v) + 1 = n
    BY <1>10
  <2> QED BY <1>11, <1>13, <1>14, <1>15, <1>16, <2>1 DEF Cuts
<1> QED BY <1>2, <1>4, <1>5, <1>7, <1>8, <1>10, <1>11, <1>17 DEF Stream

-----------------------------------------------------------------------------
(* One direction of the connection *)

\* g was read of the transactions o; b, w and r are in the buffer, on the wire
\* and still to be written.
FlowOf(g, o, b, w, r) ==
    \E u \in Seq(Small) : g \in Seq(Small) /\ o = g \o u /\ Stream((b \o w) \o r, u)

\* What was read is the beginning of what was written.
LEMMA FlowPrefix ==
    ASSUME NEW g, NEW o, NEW b, NEW w, NEW r, FlowOf(g, o, b, w, r)
    PROVE  IsPrefix(g, o)
<1>1. PICK u \in Seq(Small) : g \in Seq(Small) /\ o = g \o u
  BY DEF FlowOf
<1>2. PICK n \in Nat, m \in Nat : n = Len(g) /\ m = Len(u)
  BY <1>1
<1>3. o \in Seq(Small) /\ Len(o) = n + m /\ \A j \in 1 .. n : o[j] = g[j]
  BY <1>1, <1>2, ConcatOf
<1>4. n <= Len(o)
  BY <1>3
<1>5. 0 + Len(g) <= Len(o) /\ \A j \in 1 .. Len(g) : o[0 + j] = g[j]
  BY <1>2, <1>3, <1>4
<1>6. SubSeq(o, 0 + 1, 0 + Len(g)) = g
  BY <1>1, <1>3, <1>5, SubSeqIs
<1>7. 0 + 1 = 1 /\ 0 + Len(g) = Len(g)
  BY <1>2
<1>8. SubSeq(g, 1, Len(g)) = g
  BY <1>1, SubSeqFull
<1> QED BY <1>2, <1>4, <1>6, <1>7, <1>8 DEF IsPrefix

\* Putting digits one behind the other can start anywhere.
LEMMA Assoc ==
    ASSUME NEW s \in Seq(Nat), NEW t \in Seq(Nat), NEW u \in Seq(Nat)
    PROVE  (s \o t) \o u = s \o (t \o u)
  BY ConcatAssociative

\* The same for transactions.
LEMMA AssocSmall ==
    ASSUME NEW s \in Seq(Small), NEW t \in Seq(Small), NEW u \in Seq(Small)
    PROVE  (s \o t) \o u = s \o (t \o u)
  BY ConcatAssociative

\* Reading from the wire moves digits into the buffer.
LEMMA FlowRead ==
    ASSUME NEW g, NEW o, NEW b \in Seq(Nat), NEW w \in Seq(Nat), NEW r \in Seq(Nat),
           FlowOf(g, o, b, w, r), NEW n \in Nat, n <= Len(w)
    PROVE  FlowOf(g, o, b \o SubSeq(w, 1, n), SubSeq(w, n + 1, Len(w)), r)
<1>1. PICK x \in Seq(Nat), y \in Seq(Nat) :
         x = SubSeq(w, 1, n) /\ y = SubSeq(w, n + 1, Len(w)) /\ x \o y = w
  <2>1. SubSeq(w, 1, n) \in Seq(Nat)
    BY TakeOf
  <2>2. SubSeq(w, n + 1, Len(w)) \in Seq(Nat)
    BY DropOf
  <2>3. SubSeq(w, 1, n) \o SubSeq(w, n + 1, Len(w)) = w
    BY TakeDrop
  <2> QED BY <2>1, <2>2, <2>3, Zenon
<1>2. (b \o x) \o y = b \o w
  <2>1. (b \o x) \o y = b \o (x \o y)
    BY Assoc
  <2> QED BY <1>1, <2>1
<1> QED BY <1>1, <1>2 DEF FlowOf

\* Writing moves digits onto the wire.
LEMMA FlowWrite ==
    ASSUME NEW g, NEW o, NEW b \in Seq(Nat), NEW w \in Seq(Nat), NEW r \in Seq(Nat),
           FlowOf(g, o, b, w, r), NEW n \in Nat, n <= Len(r)
    PROVE  FlowOf(g, o, b, w \o SubSeq(r, 1, n), SubSeq(r, n + 1, Len(r)))
<1>1. PICK x \in Seq(Nat), y \in Seq(Nat) :
         x = SubSeq(r, 1, n) /\ y = SubSeq(r, n + 1, Len(r)) /\ x \o y = r
  <2>1. SubSeq(r, 1, n) \in Seq(Nat)
    BY TakeOf
  <2>2. SubSeq(r, n + 1, Len(r)) \in Seq(Nat)
    BY DropOf
  <2>3. SubSeq(r, 1, n) \o SubSeq(r, n + 1, Len(r)) = r
    BY TakeDrop
  <2> QED BY <2>1, <2>2, <2>3, Zenon
<1>2. b \o (w \o x) = (b \o w) \o x /\ b \o w \in Seq(Nat)
  <2>1. (b \o w) \o x = b \o (w \o x)
    BY Assoc
  <2>2. b \o w \in Seq(Nat)
    BY ConcatProperties
  <2> QED BY <2>1, <2>2
<1>3. ((b \o w) \o x) \o y = (b \o w) \o (x \o y)
  BY <1>2, Assoc
<1>4. (b \o (w \o x)) \o y = (b \o w) \o r
  BY <1>1, <1>2, <1>3
<1> QED BY <1>1, <1>4 DEF FlowOf

\* A transaction that nothing stands in front of is written next.
LEMMA FlowStart ==
    ASSUME NEW g, NEW o, NEW b \in Seq(Nat), NEW w \in Seq(Nat), NEW t \in Small,
           FlowOf(g, o, b, w, <<>>)
    PROVE  FlowOf(g, Append(o, t), b, w, Encode(t))
<1>1. PICK u \in Seq(Small) : g \in Seq(Small) /\ o = g \o u /\ Stream((b \o w) \o <<>>, u)
  BY DEF FlowOf
<1>2. PICK z \in Seq(Nat) : z = b \o w /\ z \o <<>> = z
  <2>1. b \o w \in Seq(Nat)
    BY ConcatProperties
  <2>2. (b \o w) \o <<>> = b \o w
    BY <2>1, ConcatEmptySeq
  <2> QED BY <2>1, <2>2, Zenon
<1>3. PICK v \in Seq(Small) : v = Append(u, t)
  BY AppendProperties
<1>4. Stream(z \o Encode(t), v)
  BY <1>1, <1>2, <1>3, StreamAppend
<1>5. Append(o, t) = g \o v
  <2>1. o \in Seq(Small) /\ <<t>> \in Seq(Small)
    BY <1>1, ConcatProperties
  <2>2. Append(o, t) = o \o <<t>> /\ v = u \o <<t>>
    BY <1>3, <2>1, AppendIsConcat
  <2> QED BY <1>1, <2>1, <2>2, ConcatAssociative
<1> QED BY <1>1, <1>2, <1>4, <1>5 DEF FlowOf

\* What transactionScanner returns is -1 or the length of a part of its buffer.
LEMMA TokenLenOf ==
    ASSUME NEW b \in Seq(Nat)
    PROVE  \/ TokenLen(b) = -1
           \/ /\ Len(b) >= HeaderLen /\ b[4] \in Nat /\ b[5] \in Nat
              /\ TokenLen(b) = Two(HeaderLen + (b[4] * W) + b[5])
              /\ TokenLen(b) \in Nat /\ TokenLen(b) <= Len(b)
<1>1. CASE Len(b) < HeaderLen
  BY <1>1 DEF TokenLen
<1>2. CASE ~ (Len(b) < HeaderLen)
  <2>1. Len(b) >= HeaderLen /\ 4 \in 1 .. Len(b) /\ 5 \in 1 .. Len(b)
    BY <1>2 DEF HeaderLen
  <2>2. PICK x \in Nat, y \in Nat : x = b[4] /\ y = b[5]
    BY <2>1
  <2>3. PICK v \in Nat : v = x * W
    BY Sizes
  <2>4. HeaderLen + v + y \in Nat
    BY DEF HeaderLen
  <2>5. PICK l \in Nat : l = Two(HeaderLen + v + y)
    BY <2>4, TwoDigits
  <2>6. TokenLen(b) = IF l > Len(b) THEN -1 ELSE l
    BY <1>2, <2>2, <2>3, <2>5 DEF TokenLen, Two
  <2> QED BY <2>1, <2>2, <2>3, <2>5, <2>6
<1> QED BY <1>1, <1>2

\* A part of what stands behind the first k digits of b is moved with it.
LEMMA DropConcat ==
    ASSUME NEW b \in Seq(Nat), NEW y \in Seq(Nat), NEW k \in Nat, k <= Len(b)
    PROVE  SubSeq(b \o y, k + 1, Len(b \o y)) = SubSeq(b, k + 1, Len(b)) \o y
<1>1. PICK x \in Seq(Nat) : x = SubSeq(b, k + 1, Len(b))
  BY DropOf
<1>2. PICK n \in Nat, m \in Nat : n = Len(b) /\ m = Len(y) /\ k <= n
  OBVIOUS
<1>3. Len(x) = n - k /\ \A j \in 1 .. n - k : x[j] = b[k + j]
  BY <1>1, <1>2, DropOf
<1>4. PICK v \in Seq(Nat) : v = b \o y
  BY ConcatOf
<1>5. /\ Len(v) = n + m
      /\ \A j \in 1 .. n : v[j] = b[j]
      /\ \A j \in 1 .. m : v[n + j] = y[j]
  BY <1>2, <1>4, ConcatOf
<1>6. PICK d \in Seq(Nat) : d = x \o y
  BY ConcatOf
<1>q. PICK q \in Nat : q = n - k
  <2>1. \A i, j \in Nat : i <= j => j - i \in Nat
    OBVIOUS
  <2> QED BY <1>2, <2>1
<1>7. /\ Len(d) = q + m
      /\ \A j \in 1 .. q : d[j] = x[j]
      /\ \A j \in 1 .. m : d[q + j] = y[j]
  <2>1. q = Len(x)
    BY <1>3, <1>q
  <2> QED BY <1>2, <1>6, <2>1, ConcatOf
<1>8. ASSUME NEW j \in 1 .. q + m PROVE v[k + j] = d[j]
  <2>1. CASE j <= q
    <3>1. j \in 1 .. q /\ k + j \in 1 .. n
      BY <1>2, <1>q, <2>1
    <3> QED BY <1>3, <1>5, <1>7, <1>q, <3>1
  <2>2. CASE ~ (j <= q)
    <3>1. PICK i \in 1 .. m : i = j - q
      BY <2>2
    <3>2. k + j = n + i /\ j = q + i
      BY <1>2, <1>q, <3>1
    <3>3. v[n + i] = y[i] /\ d[q + i] = y[i]
      BY <1>5, <1>7
    <3> QED BY <3>2, <3>3
  <2> QED BY <2>1, <2>2
<1>9. k + Len(d) = n + m
  BY <1>2, <1>7, <1>q
<1>10. SubSeq(v, k + 1, k + Len(d)) = d
  <2>1. k + Len(d) <= Len(v) /\ \A j \in 1 .. Len(d) : v[k + j] = d[j]
    BY <1>5, <1>7, <1>8, <1>9
  <2> QED BY <2>1, SubSeqIs
<1> QED BY <1>1, <1>4, <1>5, <1>6, <1>9, <1>10

\* The next transaction of o is cut out of b and decoded.
Taken(g, o, b, w, r) ==
    \E t \in Small : /\ Decode(SubSeq(b, 1, TokenLen(b))) = <<t>>
                     /\ FlowOf(g \o <<t>>, o, SubSeq(b, TokenLen(b) + 1, Len(b)), w, r)
                     /\ \E i \in DOMAIN o : o[i] = t

\* What the scanner cuts out is the next transaction that was written, and it is
\* decoded.
LEMMA FlowTake ==
    ASSUME NEW g, NEW o, NEW b \in Seq(Nat), NEW w \in Seq(Nat), NEW r \in Seq(Nat),
           FlowOf(g, o, b, w, r), Len(b) <= MaxToken, TokenLen(b) >= 0
    PROVE  Taken(g, o, b, w, r)
<1>1. PICK u \in Seq(Small) : g \in Seq(Small) /\ o = g \o u /\ Stream((b \o w) \o r, u)
  BY DEF FlowOf
<1>2. /\ Len(b) >= HeaderLen /\ b[4] \in Nat /\ b[5] \in Nat
      /\ TokenLen(b) = Two(HeaderLen + (b[4] * W) + b[5])
      /\ TokenLen(b) \in Nat /\ TokenLen(b) <= Len(b)
  BY TokenLenOf
<1>3. PICK y \in Seq(Nat) : y = w \o r
  BY ConcatOf
<1>4. PICK z \in Seq(Nat) : z = b \o y
  BY ConcatOf
<1>5. (b \o w) \o r = z
  <2>1. (b \o w) \o r = b \o (w \o r)
    BY Assoc
  <2> QED BY <1>3, <1>4, <2>1
<1>6. PICK n \in Nat, m \in Nat : n = Len(b) /\ m = Len(y)
  OBVIOUS
<1>7. Len(z) = n + m /\ \A j \in 1 .. n : z[j] = b[j]
  BY <1>4, <1>6, ConcatOf
<1>8. n >= 5 /\ Len(z) > 0 /\ n <= MaxToken
  BY <1>2, <1>6, <1>7 DEF HeaderLen
<1>9. Stream(z, u)
  BY <1>1, <1>5
<1>10. /\ u # <<>> /\ Len(u) > 0 /\ u[1] \in Small
       /\ Written(z, 0, u[1])
       /\ Stream(SubSeq(z, Len(Encode(u[1])) + 1, Len(z)), Tail(u))
  BY <1>8, <1>9, StreamHead
<1>11. PICK t \in Small : t = u[1]
  BY <1>10
<1>12. t \in Transaction /\ HeaderLen + PayloadSize(t) < W * W
  BY DEF Small
<1>13. PICK e \in Seq(Nat) : e = Encode(t)
  BY <1>12, EncodeOf
<1>14. PICK k \in Nat : k = Len(e) /\ k >= 6
  <2>1. PICK x \in Nat : x = PayloadSize(t) /\ x > 0
    BY <1>12, EncodeOf
  <2>2. Len(e) = HeaderLen + x
    BY <1>12, <1>13, <2>1, EncodeOf
  <2> QED BY <2>1, <2>2 DEF HeaderLen
<1>15. k <= Len(z) /\ \A j \in 1 .. k : z[j] = e[j]
  <2>1. 0 + k <= Len(z) /\ \A j \in 1 .. k : z[0 + j] = e[j]
    BY <1>10, <1>11, <1>13, <1>14 DEF Written
  <2>2. \A j \in 1 .. k : 0 + j = j
    OBVIOUS
  <2> QED BY <2>1, <2>2
<1>16. b[4] = e[4] /\ b[5] = e[5]
  <2>1. 4 \in 1 .. n /\ 5 \in 1 .. n /\ 4 \in 1 .. k /\ 5 \in 1 .. k
    BY <1>8, <1>14
  <2> QED BY <1>7, <1>15, <2>1
<1>17. HeaderLen + (b[4] * W) + b[5] = k /\ k < W * W
  <2>1. HeaderLen + (e[4] * W) + e[5] = Len(e)
    BY <1>12, <1>13, HeaderTells
  <2>2. Len(e) = HeaderLen + PayloadSize(t)
    BY <1>12, <1>13, EncodeOf
  <2> QED BY <1>12, <1>14, <1>16, <2>1, <2>2
<1>18. TokenLen(b) = k /\ k <= n
  <2>1. Two(k) = k
    BY <1>17, TwoDigits
  <2> QED BY <1>2, <1>6, <1>17, <2>1
<1>19. SubSeq(b, 1, k) = e
  <2>1. 0 + Len(e) <= Len(b) /\ \A j \in 1 .. Len(e) : b[0 + j] = e[j]
    <3>1. \A j \in 1 .. k : j \in 1 .. n /\ 0 + j = j
      BY <1>18
    <3>2. \A j \in 1 .. k : b[0 + j] = e[j]
      BY <1>7, <1>15, <3>1
    <3> QED BY <1>6, <1>14, <1>18, <3>2
  <2>2. SubSeq(b, 0 + 1, 0 + Len(e)) = e
    BY <2>1, SubSeqIs
  <2>3. 0 + 1 = 1 /\ 0 + Len(e) = k
    BY <1>14
  <2> QED BY <2>2, <2>3
<1>20. Decode(SubSeq(b, 1, k)) = <<t>>
  <2>1. Len(Encode(t)) <= W
    BY <1>8, <1>13, <1>14, <1>18, SizeAssumption
  <2> QED BY <1>12, <1>13, <1>19, <2>1, RoundTrip
<1>21. PICK c \in Seq(Nat) : c = SubSeq(b, k + 1, Len(b))
  BY <1>6, <1>18, DropOf
<1>22. SubSeq(z, k + 1, Len(z)) = c \o y
  BY <1>4, <1>6, <1>18, <1>21, DropConcat
<1>23. (c \o w) \o r = c \o y
  <2>1. (c \o w) \o r = c \o (w \o r)
    BY Assoc
  <2> QED BY <1>3, <2>1
<1>24. PICK v \in Seq(Small) : v = Tail(u)
  BY <1>10, HeadTailProperties
<1>25. Stream((c \o w) \o r, v)
  BY <1>10, <1>11, <1>13, <1>14, <1>22, <1>23, <1>24
<1>26. u = <<t>> \o v
  <2>1. PICK l \in Nat : l = Len(u) /\ l > 0 /\ Len(v) = l - 1
    BY <1>10, <1>24, HeadTailProperties
  <2>2. <<t>> \in Seq(Small) /\ Len(<<t>>) = 1 /\ <<t>>[1] = t
    OBVIOUS
  <2>3. PICK q \in Seq(Small) : q = <<t>> \o v /\ Len(q) = l
                                /\ q[1] = t /\ \A j \in 1 .. l - 1 : q[1 + j] = v[j]
    <3>1. /\ <<t>> \o v \in Seq(Small) /\ Len(<<t>> \o v) = 1 + Len(v)
          /\ \A j \in 1 .. 1 : (<<t>> \o v)[j] = <<t>>[j]
          /\ \A j \in 1 .. Len(v) : (<<t>> \o v)[1 + j] = v[j]
      BY <2>2, ConcatOf
    <3>2. Len(<<t>> \o v) = l /\ (<<t>> \o v)[1] = t
      BY <2>1, <2>2, <3>1
    <3>3. \A j \in 1 .. l - 1 : (<<t>> \o v)[1 + j] = v[j]
      BY <2>1, <3>1
    <3> QED BY <3>1, <3>2, <3>3, Zenon
  <2>4. \A j \in 1 .. l - 1 : v[j] = u[j + 1]
    BY <1>10, <1>24, <2>1, HeadTailProperties
  <2>5. ASSUME NEW i \in 1 .. l PROVE u[i] = q[i]
    <3>1. CASE i = 1
      BY <1>11, <2>3, <3>1
    <3>2. CASE i # 1
      <4>1. PICK j \in 1 .. l - 1 : i = 1 + j /\ i = j + 1
        BY <3>2
      <4> QED BY <2>3, <2>4, <4>1
    <3> QED BY <3>1, <3>2
  <2>6. u = q
    BY <2>1, <2>3, <2>5, SeqEqual
  <2> QED BY <2>3, <2>6
<1>27. o = (g \o <<t>>) \o v /\ g \o <<t>> \in Seq(Small)
  <2>1. <<t>> \in Seq(Small)
    OBVIOUS
  <2>2. (g \o <<t>>) \o v = g \o (<<t>> \o v)
    BY <1>1, <2>1, AssocSmall
  <2>3. g \o <<t>> \in Seq(Small)
    BY <1>1, <2>1, ConcatOf
  <2> QED BY <1>1, <1>26, <2>2, <2>3
<1>28. FlowOf(g \o <<t>>, o, c, w, r)
  BY <1>25, <1>27 DEF FlowOf
<1>29. \E i \in DOMAIN o : o[i] = t
  <2>1. PICK a \in Nat, l \in Nat : a = Len(g) /\ l = Len(u) /\ l > 0
    BY <1>1, <1>10
  <2>2. o \in Seq(Small) /\ Len(o) = a + l /\ \A j \in 1 .. l : o[a + j] = u[j]
    BY <1>1, <2>1, ConcatOf
  <2>3. 1 \in 1 .. l /\ a + 1 \in 1 .. Len(o) /\ DOMAIN o = 1 .. Len(o)
    BY <2>1, <2>2
  <2> QED BY <1>11, <2>2, <2>3
<1> QED BY <1>18, <1>20, <1>21, <1>28, <1>29 DEF Taken

-----------------------------------------------------------------------------
(* The connection *)

Sender == [dir: Dirs, tran: Small, rest: Seq(Nat), begun: BOOLEAN]

\* What the variables hold, and that a scanner's buffer is never overfull.
Types ==
    /\ sending \subseteq Sender
    /\ wire \in [Dirs -> Seq(Nat)] /\ order \in [Dirs -> Seq(Small)]
    /\ buf \in [Dirs -> Seq(Nat)] /\ \A d \in Dirs : Len(buf[d]) <= MaxToken
    /\ got = [d \in Dirs |-> got[d]]
    /\ torn \in BOOLEAN

Begun(d) == {s \in sending : s.dir = d /\ s.begun}

\* A transaction that is not begun is still whole; the client's mutex lets one
\* goroutine write, and unless pieces were mixed one of the server's is in the
\* middle of a transaction.
Writers ==
    /\ \A s \in sending : ~s.begun => s.rest = Encode(s.tran)
    /\ \A r, s \in sending : r.dir = "up" /\ s.dir = "up" => r = s
    /\ torn \/ \A r, s \in Begun("down") : r = s

\* What is written and not read in direction d, with what its writer has left,
\* is the stream of the transactions that were begun and not read.
Flow(d) ==
    \E rest \in Seq(Nat) :
       /\ FlowOf(got[d], order[d], buf[d], wire[d], rest)
       /\ \A s \in Begun(d) : s.rest = rest
       /\ rest # <<>> => Begun(d) # {}

Known(id) == \E r \in active \cup handled : r.id = id

\* Whoever waits for a reply is known to the client before the reply is written.
Waiting ==
    /\ \A s \in sending : s.dir = "up" => s.tran \in active \cup handled
    /\ \A s \in sending : s.dir = "down" /\ s.tran.reply = 1 => Known(s.tran.id)
    /\ \A i \in DOMAIN order["up"] : order["up"][i] \in active \cup handled
    /\ \A i \in DOMAIN order["down"] :
          order["down"][i].reply = 1 => Known(order["down"][i].id)

Inv ==
    /\ Types /\ Writers /\ Waiting
    /\ Flow("up") /\ (torn \/ Flow("down"))
    /\ RepliesFindRequests

\* What is sent can be counted, a reply included.
LEMMA SmallOnes ==
    /\ Requests \cup Pushes \subseteq Small
    /\ \A t \in Transaction : NewReply(t) \in Small
<1>1. Requests \cup Pushes \subseteq Small
  BY TransactionAssumption, CountAssumption DEF Small
<1>2. ASSUME NEW t \in Transaction PROVE NewReply(t) \in Small
  <2>1. NewReply(t) \in Transaction /\ NewReply(t).fields = <<>>
    <3>1. t.id \in Nat /\ <<>> \in Seq(Field)
      BY FieldsOf
    <3> QED BY <3>1 DEF NewReply, Transaction
  <2>2. PICK r \in Transaction : r = NewReply(t) /\ r.fields = <<>>
    BY <2>1
  <2>3. Len(r.fields) = 0 /\ FieldEnds(r)[0] = 0
    BY <2>2, EndsOf
  <2>4. PayloadSize(r) = 1
    BY <2>3 DEF PayloadSize
  <2>5. HeaderLen + PayloadSize(r) < W * W
    BY <2>4, Sizes DEF HeaderLen
  <2> QED BY <2>2, <2>5 DEF Small
<1> QED BY <1>1, <1>2

\* Starting to send a transaction.
LEMMA StartOf ==
    ASSUME NEW d \in Dirs, NEW t \in Small
    PROVE  /\ Start(d, t) \in Sender /\ Start(d, t).dir = d /\ Start(d, t).tran = t
           /\ Start(d, t).rest = Encode(t) /\ Start(d, t).begun = FALSE
<1>1. Encode(t) \in Seq(Nat)
  BY EncodeOf DEF Small
<1> QED BY <1>1 DEF Start, Sender

\* A flow does not depend on who else starts to send.
LEMMA FlowKept ==
    ASSUME NEW d \in Dirs, Flow(d), got'[d] = got[d], order'[d] = order[d],
           buf'[d] = buf[d], wire'[d] = wire[d], Begun(d)' = Begun(d)
    PROVE  Flow(d)'
  BY DEF Flow

\* Initially nothing is on its way.
LEMMA InitInv == Init => Inv
<1> SUFFICES ASSUME Init PROVE Inv
  OBVIOUS
<1>1. /\ sending = {} /\ torn = FALSE
      /\ \A d \in Dirs : wire[d] = <<>> /\ buf[d] = <<>> /\ got[d] = <<>> /\ order[d] = <<>>
      /\ wire = [d \in Dirs |-> <<>>] /\ buf = [d \in Dirs |-> <<>>]
      /\ got = [d \in Dirs |-> <<>>] /\ order = [d \in Dirs |-> <<>>]
  BY DEF Init
<1>2. "up" \in Dirs /\ "down" \in Dirs
  BY DEF Dirs
<1>3. Types
  <2>1. <<>> \in Seq(Nat) /\ <<>> \in Seq(Small) /\ Len(<<>>) <= MaxToken
    BY SizeAssumption
  <2>2. \A d \in Dirs : Len(buf[d]) <= MaxToken
    BY <1>1, <2>1
  <2>3. got = [d \in Dirs |-> got[d]]
    BY <1>1
  <2>4. /\ wire \in [Dirs -> Seq(Nat)] /\ order \in [Dirs -> Seq(Small)]
        /\ buf \in [Dirs -> Seq(Nat)]
    BY <1>1, <2>1
  <2> QED BY <1>1, <2>2, <2>3, <2>4 DEF Types
<1>4. Writers /\ Waiting /\ RepliesFindRequests
  BY <1>1, <1>2 DEF Writers, Waiting, RepliesFindRequests, Begun
<1>5. ASSUME NEW d \in Dirs PROVE Flow(d)
  <2>1. <<>> \in Seq(Nat) /\ <<>> \in Seq(Small) /\ <<>> \o <<>> = <<>>
    OBVIOUS
  <2>2. FlowOf(<<>>, <<>>, <<>>, <<>>, <<>>)
    BY <2>1, StreamEmpty DEF FlowOf
  <2>3. Begun(d) = {}
    BY <1>1 DEF Begun
  <2> QED BY <1>1, <2>1, <2>2, <2>3 DEF Flow
<1> QED BY <1>2, <1>3, <1>4, <1>5 DEF Inv

\* Client.Send: the request is known before it is written.
LEMMA SendInv == ASSUME Inv, NEW t \in Requests, Send(t) PROVE Inv'
<1>1. /\ active' = active \cup {t} /\ sending' = sending \cup {Start("up", t)}
      /\ ~Locked /\ wire' = wire /\ buf' = buf /\ got' = got /\ handled' = handled
      /\ order' = order /\ torn' = torn
  BY DEF Send
<1>2. Types /\ Writers /\ Waiting /\ RepliesFindRequests
  BY DEF Inv
<1>3. t \in Small /\ "up" \in Dirs /\ "down" \in Dirs
  BY SmallOnes DEF Dirs
<1>4. PICK x \in Sender : /\ x = Start("up", t) /\ x.dir = "up" /\ x.tran = t
                          /\ x.rest = Encode(t) /\ x.begun = FALSE
  BY <1>3, StartOf
<1>5. sending' = sending \cup {x} /\ \A d \in Dirs : Begun(d)' = Begun(d)
  BY <1>1, <1>4 DEF Begun
<1>6. Types'
  BY <1>1, <1>2, <1>5 DEF Types
<1>7. Writers'
  <2>1. \A s \in sending : s.dir # "up"
    BY <1>1 DEF Locked
  <2>2. \A s \in sending' : ~s.begun => s.rest = Encode(s.tran)
    BY <1>2, <1>4, <1>5 DEF Writers
  <2>3. \A r, s \in sending' : r.dir = "up" /\ s.dir = "up" => r = s
    BY <1>5, <2>1
  <2>4. torn' \/ \A r, s \in Begun("down")' : r = s
    BY <1>1, <1>2, <1>3, <1>5 DEF Writers
  <2> QED BY <2>2, <2>3, <2>4 DEF Writers
<1>8. Waiting'
  BY <1>1, <1>2, <1>4, <1>5 DEF Waiting, Known
<1>9. Flow("up")' /\ (torn' \/ Flow("down")')
  BY <1>1, <1>3, <1>5, FlowKept DEF Inv
<1>10. RepliesFindRequests'
  BY <1>1, <1>2 DEF RepliesFindRequests
<1> QED BY <1>6, <1>7, <1>8, <1>9, <1>10 DEF Inv

\* The server starts to write to the client, or does not.
LEMMA DownStarts ==
    ASSUME Types, Writers, Waiting, NEW t \in Small, t.reply = 1 => Known(t.id),
           sending' = sending \/ sending' = sending \cup {Start("down", t)},
           order' = order, torn' = torn, active' = active, handled' = handled
    PROVE  /\ sending' \subseteq Sender /\ Writers' /\ Waiting'
           /\ \A d \in Dirs : Begun(d)' = Begun(d)
<1>1. "up" \in Dirs /\ "down" \in Dirs
  BY DEF Dirs
<1>2. PICK x \in Sender : /\ x = Start("down", t) /\ x.dir = "down" /\ x.tran = t
                          /\ x.rest = Encode(t) /\ x.begun = FALSE
  BY <1>1, StartOf
<1>3. /\ \A s \in sending' : s \in sending \/ s = x
      /\ \A s \in sending : s \in sending'
      /\ \A d \in Dirs : Begun(d)' = Begun(d)
  BY <1>2 DEF Begun
<1>4. sending' \subseteq Sender
  BY <1>2, <1>3 DEF Types
<1>5. Writers'
  <2>1. \A s \in sending' : ~s.begun => s.rest = Encode(s.tran)
    BY <1>2, <1>3 DEF Writers
  <2>2. \A r, s \in sending' : r.dir = "up" /\ s.dir = "up" => r = s
    BY <1>2, <1>3 DEF Writers
  <2>3. torn' \/ \A r, s \in Begun("down")' : r = s
    BY <1>1, <1>3 DEF Writers
  <2> QED BY <2>1, <2>2, <2>3 DEF Writers
<1>6. Waiting'
  BY <1>2, <1>3 DEF Waiting, Known
<1> QED BY <1>3, <1>4, <1>5, <1>6

\* processOutbox: what the server sends of its own accord.
LEMMA PushInv == ASSUME Inv, NEW t \in Pushes, Push(t) PROVE Inv'
<1>1. /\ sending' = sending \cup {Start("down", t)}
      /\ wire' = wire /\ buf' = buf /\ got' = got /\ active' = active /\ handled' = handled
      /\ order' = order /\ torn' = torn
  BY DEF Push
<1>2. Types /\ Writers /\ Waiting /\ RepliesFindRequests
  BY DEF Inv
<1>3. t \in Small /\ t.reply # 1 /\ "up" \in Dirs /\ "down" \in Dirs
  BY SmallOnes, TransactionAssumption DEF Dirs
<1>4. /\ sending' \subseteq Sender /\ Writers' /\ Waiting'
      /\ \A d \in Dirs : Begun(d)' = Begun(d)
  BY <1>1, <1>2, <1>3, DownStarts
<1>5. Types'
  BY <1>1, <1>2, <1>4 DEF Types
<1>6. Flow("up")' /\ (torn' \/ Flow("down")')
  BY <1>1, <1>3, <1>4, FlowKept DEF Inv
<1>7. RepliesFindRequests'
  BY <1>1, <1>2 DEF RepliesFindRequests
<1> QED BY <1>4, <1>5, <1>6, <1>7 DEF Inv

\* One round of io.Copy.
LEMMA WriteInv == ASSUME Inv, NEW s \in sending, WriteChunk(s) PROVE Inv'
<1> DEFINE n == IF Len(s.rest) < Chunk THEN Len(s.rest) ELSE Chunk
           head == SubSeq(s.rest, 1, n)
           left == SubSeq(s.rest, n + 1, Len(s.rest))
           x == [s EXCEPT !.rest = left, !.begun = TRUE]
           e == s.dir
<1>1. /\ wire' = [wire EXCEPT ![e] = @ \o head]
      /\ sending' = (sending \ {s}) \cup (IF left = <<>> THEN {} ELSE {x})
      /\ order' = IF s.begun THEN order ELSE [order EXCEPT ![e] = Append(@, s.tran)]
      /\ torn' = (torn \/ \E r \in sending \ {s} : r.dir = "down" /\ e = "down" /\ r.begun)
      /\ buf' = buf /\ got' = got /\ active' = active /\ handled' = handled
  BY DEF WriteChunk
<1>2. Types /\ Writers /\ Waiting /\ RepliesFindRequests
  BY DEF Inv
<1>3. "up" \in Dirs /\ "down" \in Dirs
  BY DEF Dirs
<1>4. s \in Sender /\ e \in Dirs /\ s.tran \in Small /\ s.rest \in Seq(Nat) /\ s.begun \in BOOLEAN
  BY <1>2 DEF Types, Sender
<1>5. n \in Nat /\ n <= Len(s.rest)
  <2>1. PICK l \in Nat : l = Len(s.rest)
    BY <1>4
  <2> QED BY <2>1, SizeAssumption
<1> HIDE DEF n
<1>6. head \in Seq(Nat)
  BY <1>4, <1>5, TakeOf
<1>7. left \in Seq(Nat)
  BY <1>4, <1>5, DropOf
<1> HIDE DEF head, left
<1>8. /\ x \in Sender /\ x.dir = e /\ x.tran = s.tran /\ x.rest = left /\ x.begun = TRUE
  BY <1>4, <1>7 DEF Sender
<1> HIDE DEF x
<1>9. /\ \A r \in sending' : (r \in sending /\ r # s) \/ (r = x /\ left # <<>>)
      /\ left # <<>> => x \in sending'
      /\ \A r \in sending : r # s => r \in sending'
  BY <1>1
<1> HIDE DEF e
<1>10. /\ wire'[e] = wire[e] \o head
       /\ \A d \in Dirs : d # e => wire'[d] = wire[d] /\ order'[d] = order[d]
       /\ s.begun => order' = order
       /\ ~s.begun => order'[e] = Append(order[e], s.tran)
  BY <1>1, <1>2, <1>4 DEF Types
<1>11. torn => torn'
  BY <1>1
<1>12. Types'
  <2>1. sending' \subseteq Sender
    BY <1>2, <1>8, <1>9 DEF Types
  <2>2. wire' \in [Dirs -> Seq(Nat)]
    <3>1. wire[e] \o head \in Seq(Nat)
      BY <1>2, <1>4, <1>6, ConcatOf DEF Types
    <3> QED BY <1>1, <1>2, <1>4, <3>1 DEF Types
  <2>3. order' \in [Dirs -> Seq(Small)]
    <3>1. Append(order[e], s.tran) \in Seq(Small)
      BY <1>2, <1>4, AppendProperties DEF Types
    <3> QED BY <1>1, <1>2, <1>4, <3>1 DEF Types
  <2>4. torn' \in BOOLEAN
    BY <1>1
  <2> QED BY <1>1, <1>2, <2>1, <2>2, <2>3, <2>4 DEF Types
\* Who is in the middle of a transaction in the writer's direction.
<1>13. ASSUME ~ (e = "down" /\ torn') PROVE \A r \in sending : r.dir = e /\ r.begun => r = s
  <2>1. CASE e = "up"
    BY <1>2, <2>1 DEF Writers, e
  <2>2. CASE e = "down"
    BY <1>1, <1>13, <2>2
  <2> QED BY <1>4, <2>1, <2>2 DEF Dirs
<1>14. Writers'
  <2>1. \A r \in sending' : ~r.begun => r.rest = Encode(r.tran)
    BY <1>2, <1>8, <1>9 DEF Writers
  <2>2. ASSUME NEW q \in sending', NEW r \in sending', q.dir = "up", r.dir = "up" PROVE q = r
    <3>1. \A p \in sending : p.dir = "up" /\ s.dir = "up" => p = s
      BY <1>2 DEF Writers
    <3> QED BY <1>2, <1>8, <1>9, <2>2, <3>1 DEF Writers, e
  <2>3. ASSUME ~torn', NEW q \in Begun("down")', NEW r \in Begun("down")' PROVE q = r
    <3>1. ~torn /\ q \in sending' /\ r \in sending' /\ q.dir = "down" /\ r.dir = "down" /\ q.begun /\ r.begun
      BY <1>11, <2>3 DEF Begun
    <3>2. \A p1, p2 \in sending : p1.dir = "down" /\ p1.begun /\ p2.dir = "down" /\ p2.begun => p1 = p2
      BY <1>2, <3>1 DEF Writers, Begun
    <3> QED BY <1>8, <1>9, <1>13, <2>3, <3>1, <3>2
  <2>4. torn' \/ \A q, r \in Begun("down")' : q = r
    BY <2>3
  <2> QED BY <2>1, <2>2, <2>4 DEF Writers
<1>15. Waiting'
  <2>1. \A r \in sending' : r.dir = "up" => r.tran \in active \cup handled
    BY <1>2, <1>8, <1>9 DEF Waiting, e
  <2>2. \A r \in sending' : r.dir = "down" /\ r.tran.reply = 1 => Known(r.tran.id)
    BY <1>2, <1>8, <1>9 DEF Waiting, e
  <2>3. ASSUME NEW d \in Dirs, NEW i \in DOMAIN order'[d]
        PROVE  \/ i \in DOMAIN order[d] /\ order'[d][i] = order[d][i]
               \/ order'[d][i] = s.tran /\ d = s.dir
    <3>1. CASE s.begun \/ d # e
      BY <1>10, <2>3, <3>1
    <3>2. CASE ~s.begun /\ d = e
      <4>1. order[e] \in Seq(Small) /\ order'[e] = Append(order[e], s.tran)
        BY <1>2, <1>4, <1>10, <3>2 DEF Types
      <4>2. PICK q \in Seq(Small) : q = order[e]
        BY <4>1
      <4>3. PICK l \in Nat : l = Len(q)
        BY <4>2
      <4>4. /\ Append(q, s.tran) \in Seq(Small)
            /\ Len(Append(q, s.tran)) = l + 1
            /\ \A j \in 1 .. l : Append(q, s.tran)[j] = q[j]
            /\ Append(q, s.tran)[l + 1] = s.tran
        BY <1>4, <4>2, <4>3, AppendProperties
      <4>5. i \in 1 .. l + 1 /\ DOMAIN q = 1 .. l
        BY <2>3, <3>2, <4>1, <4>2, <4>3, <4>4
      <4>6. i \in 1 .. l \/ i = l + 1
        BY <4>5
      <4> QED BY <3>2, <4>1, <4>2, <4>4, <4>5, <4>6 DEF e
    <3> QED BY <3>1, <3>2
  <2>4. \A i \in DOMAIN order'["up"] : order'["up"][i] \in active \cup handled
    BY <1>2, <1>3, <2>3 DEF Waiting
  <2>5. \A i \in DOMAIN order'["down"] :
           order'["down"][i].reply = 1 => Known(order'["down"][i].id)
    BY <1>2, <1>3, <2>3 DEF Waiting
  <2> QED BY <1>1, <2>1, <2>2, <2>4, <2>5 DEF Waiting, Known
<1>16. ASSUME NEW d \in Dirs, d # e, Flow(d) PROVE Flow(d)'
  <2>1. Begun(d)' = Begun(d)
    BY <1>8, <1>9, <1>16 DEF Begun, e
  <2> QED BY <1>1, <1>10, <1>16, <2>1, FlowKept
<1>17. ASSUME Flow(e), ~ (e = "down" /\ torn') PROVE Flow(e)'
  <2>1. PICK rest \in Seq(Nat) :
           /\ FlowOf(got[e], order[e], buf[e], wire[e], rest)
           /\ \A r \in Begun(e) : r.rest = rest
           /\ rest # <<>> => Begun(e) # {}
    BY <1>17 DEF Flow
  <2>2. PICK b \in Seq(Nat), w \in Seq(Nat) : b = buf[e] /\ w = wire[e]
    BY <1>2, <1>4 DEF Types
  <2>3. FlowOf(got[e], order'[e], b, w, s.rest)
    <3>1. CASE s.begun
      <4>1. s \in Begun(e)
        BY <3>1 DEF Begun, e
      <4> QED BY <1>10, <2>1, <2>2, <3>1, <4>1
    <3>2. CASE ~s.begun
      <4>1. Begun(e) = {}
        BY <1>13, <1>17, <3>2 DEF Begun
      <4>2. rest = <<>> /\ s.rest = Encode(s.tran) /\ order'[e] = Append(order[e], s.tran)
        BY <1>2, <1>10, <2>1, <3>2, <4>1 DEF Writers
      <4>3. FlowOf(got[e], order[e], b, w, <<>>)
        BY <2>1, <2>2, <4>2
      <4> QED BY <1>4, <4>2, <4>3, FlowStart
    <3> QED BY <3>1, <3>2
  <2>4. FlowOf(got[e], order'[e], b, w \o head, left)
    BY <1>4, <1>5, <2>3, FlowWrite DEF head, left
  <2>5. \A r \in Begun(e)' : r.rest = left
    BY <1>8, <1>9, <1>13, <1>17 DEF Begun
  <2>6. left # <<>> => Begun(e)' # {}
    BY <1>8, <1>9 DEF Begun
  <2>7. FlowOf(got'[e], order'[e], buf'[e], wire'[e], left)
    BY <1>1, <1>10, <2>2, <2>4
  <2> QED BY <1>7, <2>5, <2>6, <2>7 DEF Flow
<1>18. Flow("up")'
  <2>1. Flow("up")
    BY DEF Inv
  <2>2. CASE e = "up"
    BY <1>17, <2>1, <2>2
  <2>3. CASE e # "up"
    BY <1>3, <1>16, <2>1, <2>3
  <2> QED BY <2>2, <2>3
<1>19. torn' \/ Flow("down")'
  <2> SUFFICES ASSUME ~torn' PROVE Flow("down")'
    OBVIOUS
  <2>1. Flow("down")
    BY <1>11 DEF Inv
  <2>2. CASE e = "down"
    BY <1>17, <2>1, <2>2
  <2>3. CASE e # "down"
    BY <1>3, <1>16, <2>1, <2>3
  <2> QED BY <2>2, <2>3
<1>20. RepliesFindRequests'
  BY <1>1, <1>2, <1>11 DEF RepliesFindRequests
<1> QED BY <1>12, <1>14, <1>15, <1>18, <1>19, <1>20 DEF Inv

\* The scanner reads from the wire what its buffer has room for.
LEMMA ReceiveInv ==
    ASSUME Inv, NEW d \in Dirs, NEW n \in 1 .. Len(wire[d]), Receive(d, n)
    PROVE  Inv'
<1>1. /\ buf' = [buf EXCEPT ![d] = @ \o SubSeq(wire[d], 1, n)]
      /\ wire' = [wire EXCEPT ![d] = SubSeq(@, n + 1, Len(@))]
      /\ n <= MaxToken - Len(buf[d])
      /\ sending' = sending /\ got' = got /\ active' = active /\ handled' = handled
      /\ order' = order /\ torn' = torn
  BY DEF Receive, Capacity
<1>2. Types /\ Writers /\ Waiting /\ RepliesFindRequests
  BY DEF Inv
<1>3. "up" \in Dirs /\ "down" \in Dirs
  BY DEF Dirs
<1>4. PICK b \in Seq(Nat), w \in Seq(Nat) : b = buf[d] /\ w = wire[d]
  BY <1>2 DEF Types
<1>5. n \in Nat /\ n <= Len(w)
  BY <1>4
<1>6. PICK h \in Seq(Nat) : h = SubSeq(w, 1, n) /\ Len(h) = n
  BY <1>5, TakeOf
<1>7. PICK l \in Seq(Nat) : l = SubSeq(w, n + 1, Len(w))
  BY <1>5, DropOf
<1>8. PICK c \in Seq(Nat) : c = b \o h /\ Len(c) = Len(b) + n
  <2>1. b \o h \in Seq(Nat) /\ Len(b \o h) = Len(b) + Len(h)
    BY ConcatOf
  <2> QED BY <1>6, <2>1, Zenon
<1>9. Len(c) <= MaxToken
  <2>1. PICK k \in Nat : k = Len(b)
    OBVIOUS
  <2>2. n <= MaxToken - k /\ MaxToken \in Nat
    BY <1>1, <1>4, <2>1, SizeAssumption
  <2> QED BY <1>5, <1>8, <2>1, <2>2
<1>10. /\ buf' = [buf EXCEPT ![d] = c] /\ wire' = [wire EXCEPT ![d] = l]
  BY <1>1, <1>4, <1>6, <1>7, <1>8
<1>11. /\ buf'[d] = c /\ wire'[d] = l
       /\ \A f \in Dirs : f # d => buf'[f] = buf[f] /\ wire'[f] = wire[f]
  BY <1>2, <1>10 DEF Types
<1>12. Types'
  <2>1. buf' \in [Dirs -> Seq(Nat)] /\ wire' \in [Dirs -> Seq(Nat)]
    BY <1>2, <1>10 DEF Types
  <2>2. \A f \in Dirs : Len(buf'[f]) <= MaxToken
    BY <1>2, <1>9, <1>11 DEF Types
  <2> QED BY <1>1, <1>2, <2>1, <2>2 DEF Types
<1>13. \A f \in Dirs : Begun(f)' = Begun(f)
  BY <1>1 DEF Begun
<1>14. Writers' /\ Waiting' /\ RepliesFindRequests'
  BY <1>1, <1>2, <1>3, <1>13 DEF Writers, Waiting, Known, RepliesFindRequests
<1>15. ASSUME NEW f \in Dirs, Flow(f) PROVE Flow(f)'
  <2>1. CASE f # d
    BY <1>1, <1>11, <1>13, <1>15, <2>1, FlowKept
  <2>2. CASE f = d
    <3>1. PICK rest \in Seq(Nat) :
             /\ FlowOf(got[d], order[d], b, w, rest)
             /\ \A r \in Begun(d) : r.rest = rest
             /\ rest # <<>> => Begun(d) # {}
      BY <1>4, <1>15, <2>2 DEF Flow
    <3>2. FlowOf(got[d], order[d], c, l, rest)
      BY <1>5, <1>6, <1>7, <1>8, <3>1, FlowRead
    <3> QED BY <1>1, <1>11, <1>13, <2>2, <3>1, <3>2 DEF Flow
  <2> QED BY <2>1, <2>2
<1> QED BY <1>1, <1>3, <1>12, <1>14, <1>15 DEF Inv

\* Reading a transaction in a direction whose flow is not mixed up.
LEMMA TakeFlow ==
    ASSUME Types, NEW d \in Dirs, Flow(d), TokenLen(buf[d]) >= 0,
           got' = [got EXCEPT ![d] = @ \o Decode(SubSeq(buf[d], 1, TokenLen(buf[d])))],
           buf' = [buf EXCEPT ![d] = SubSeq(@, TokenLen(buf[d]) + 1, Len(@))],
           wire' = wire, order' = order, Begun(d)' = Begun(d)
    PROVE  /\ Flow(d)'
           /\ \E t \in Small : /\ Decode(SubSeq(buf[d], 1, TokenLen(buf[d]))) = <<t>>
                               /\ got[d] \in Seq(Small) /\ got'[d] = got[d] \o <<t>>
                               /\ \E i \in DOMAIN order[d] : order[d][i] = t
<1>1. PICK b \in Seq(Nat), w \in Seq(Nat) : b = buf[d] /\ w = wire[d] /\ Len(b) <= MaxToken
  BY DEF Types
<1>2. PICK rest \in Seq(Nat) :
         /\ FlowOf(got[d], order[d], b, w, rest)
         /\ \A r \in Begun(d) : r.rest = rest
         /\ rest # <<>> => Begun(d) # {}
  BY <1>1 DEF Flow
<1>3. PICK t \in Small :
         /\ Decode(SubSeq(b, 1, TokenLen(b))) = <<t>>
         /\ FlowOf(got[d] \o <<t>>, order[d], SubSeq(b, TokenLen(b) + 1, Len(b)), w, rest)
         /\ \E i \in DOMAIN order[d] : order[d][i] = t
  <2>1. TokenLen(b) >= 0
    BY <1>1
  <2>2. Taken(got[d], order[d], b, w, rest)
    BY <1>1, <1>2, <2>1, FlowTake
  <2> QED BY <2>2 DEF Taken
<1>4. got'[d] = got[d] \o <<t>>
  <2>1. got = [f \in Dirs |-> got[f]]
    BY DEF Types
  <2> QED BY <1>1, <1>3, <2>1
<1>5. buf'[d] = SubSeq(b, TokenLen(b) + 1, Len(b))
  BY <1>1 DEF Types
<1>6. FlowOf(got'[d], order'[d], buf'[d], wire'[d], rest)
  BY <1>1, <1>3, <1>4, <1>5
<1>7. Flow(d)'
  BY <1>2, <1>6 DEF Flow
<1>8. got[d] \in Seq(Small)
  BY <1>2 DEF FlowOf
<1> QED BY <1>1, <1>3, <1>4, <1>7, <1>8

\* What a scanner cuts out, whatever it is, leaves the rest in its buffer.
LEMMA TakeTypes ==
    ASSUME Types, NEW d \in Dirs, TokenLen(buf[d]) >= 0, NEW t,
           got' = [got EXCEPT ![d] = @ \o t],
           buf' = [buf EXCEPT ![d] = SubSeq(@, TokenLen(buf[d]) + 1, Len(@))],
           wire' = wire, order' = order, torn' = torn, sending' \subseteq Sender
    PROVE  /\ Types' /\ got'[d] = got[d] \o t
           /\ \A f \in Dirs : f # d => got'[f] = got[f] /\ buf'[f] = buf[f]
<1>1. PICK b \in Seq(Nat) : b = buf[d] /\ Len(b) <= MaxToken
  BY DEF Types
<1>2. PICK k \in Nat : k = TokenLen(b) /\ k <= Len(b)
  BY <1>1, TokenLenOf
<1>3. PICK c \in Seq(Nat) : c = SubSeq(b, k + 1, Len(b)) /\ Len(c) <= MaxToken
  <2>1. SubSeq(b, k + 1, Len(b)) \in Seq(Nat) /\ Len(SubSeq(b, k + 1, Len(b))) = Len(b) - k
    BY <1>2, DropOf
  <2>2. Len(b) \in Nat /\ MaxToken \in Nat /\ k \in Nat
    BY SizeAssumption
  <2>3. Len(b) - k <= MaxToken
    BY <1>1, <2>2
  <2> QED BY <2>1, <2>3
<1>4. buf' = [buf EXCEPT ![d] = c]
  BY <1>1, <1>2, <1>3
<1>5. buf'[d] = c /\ \A f \in Dirs : f # d => buf'[f] = buf[f]
  BY <1>4 DEF Types
<1>6. got'[d] = got[d] \o t /\ \A f \in Dirs : f # d => got'[f] = got[f]
  <2>1. got = [f \in Dirs |-> got[f]]
    BY DEF Types
  <2> QED BY <2>1
<1>7. got' = [f \in Dirs |-> got'[f]]
  <2>1. got = [f \in Dirs |-> got[f]]
    BY DEF Types
  <2> QED BY <2>1
<1>8. buf' \in [Dirs -> Seq(Nat)]
  BY <1>4 DEF Types
<1>9. \A f \in Dirs : Len(buf'[f]) <= MaxToken
  BY <1>3, <1>5 DEF Types
<1>10. Types'
  BY <1>7, <1>8, <1>9 DEF Types
<1> QED BY <1>5, <1>6, <1>10

\* The server reads a request and answers it.
LEMMA TakeUpInv == ASSUME Inv, Take("up") PROVE Inv'
<1> DEFINE p == SubSeq(buf["up"], 1, TokenLen(buf["up"]))
<1>1. /\ TokenLen(buf["up"]) >= 0
      /\ buf' = [buf EXCEPT !["up"] = SubSeq(@, TokenLen(buf["up"]) + 1, Len(@))]
      /\ got' = [got EXCEPT !["up"] = @ \o Decode(p)]
      /\ wire' = wire /\ order' = order /\ torn' = torn
      /\ Decode(p) = <<>> => sending' = sending /\ active' = active /\ handled' = handled
      /\ Decode(p) # <<>> => Serve(Decode(p)[1])
  BY DEF Take
<1>2. Types /\ Writers /\ Waiting /\ RepliesFindRequests /\ Flow("up") /\ (torn \/ Flow("down"))
  BY DEF Inv
<1>3. "up" \in Dirs /\ "down" \in Dirs
  BY DEF Dirs
<1>4. PICK t \in Small : Decode(p) = <<t>> /\ \E i \in DOMAIN order["up"] : order["up"][i] = t
  <2>1. PICK b \in Seq(Nat), w \in Seq(Nat) : b = buf["up"] /\ w = wire["up"] /\ Len(b) <= MaxToken
    BY <1>2, <1>3 DEF Types
  <2>2. PICK rest \in Seq(Nat) : FlowOf(got["up"], order["up"], b, w, rest)
    BY <1>2, <2>1 DEF Flow
  <2>3. TokenLen(b) >= 0
    BY <1>1, <2>1
  <2>4. Taken(got["up"], order["up"], b, w, rest)
    BY <2>1, <2>2, <2>3, FlowTake
  <2> QED BY <2>1, <2>4 DEF Taken
<1>5. t \in active \cup handled /\ Known(t.id)
  BY <1>2, <1>4 DEF Waiting, Known
<1>6. Serve(t)
  <2>1. <<t>> # <<>> /\ <<t>>[1] = t
    OBVIOUS
  <2> QED BY <1>1, <1>4, <2>1
<1>7. PICK y \in Small : y = NewReply(t) /\ y.id = t.id
  <2>1. t \in Transaction
    BY DEF Small
  <2> QED BY <2>1, SmallOnes DEF NewReply
<1>8. /\ sending' = sending \/ sending' = sending \cup {Start("down", y)}
      /\ active' = active /\ handled' = handled
  BY <1>6, <1>7 DEF Serve
<1>9. /\ sending' \subseteq Sender /\ Writers' /\ Waiting'
      /\ \A d \in Dirs : Begun(d)' = Begun(d)
  BY <1>1, <1>2, <1>5, <1>7, <1>8, DownStarts
<1>10. Types' /\ \A f \in Dirs : f # "up" => got'[f] = got[f] /\ buf'[f] = buf[f]
  BY <1>1, <1>2, <1>3, <1>9, TakeTypes
<1>11. Flow("up")'
  BY <1>1, <1>2, <1>3, <1>9, TakeFlow
<1>12. torn' \/ Flow("down")'
  BY <1>1, <1>2, <1>3, <1>9, <1>10, FlowKept
<1>13. RepliesFindRequests'
  BY <1>1, <1>2, <1>3, <1>8, <1>10 DEF RepliesFindRequests
<1> QED BY <1>9, <1>10, <1>11, <1>12, <1>13 DEF Inv

\* The client reads a transaction and gives a reply to its handler.
LEMMA TakeDownInv == ASSUME Inv, Take("down") PROVE Inv'
<1> DEFINE p == SubSeq(buf["down"], 1, TokenLen(buf["down"]))
<1>1. /\ TokenLen(buf["down"]) >= 0
      /\ buf' = [buf EXCEPT !["down"] = SubSeq(@, TokenLen(buf["down"]) + 1, Len(@))]
      /\ got' = [got EXCEPT !["down"] = @ \o Decode(p)]
      /\ wire' = wire /\ order' = order /\ torn' = torn
      /\ Decode(p) = <<>> => sending' = sending /\ active' = active /\ handled' = handled
      /\ Decode(p) # <<>> => HandleTransaction(Decode(p)[1])
  BY DEF Take
<1>2. Types /\ Writers /\ Waiting /\ RepliesFindRequests /\ Flow("up") /\ (torn \/ Flow("down"))
  BY DEF Inv
<1>3. "up" \in Dirs /\ "down" \in Dirs
  BY DEF Dirs
<1>4. sending' = sending /\ active' \cup handled' = active \cup handled /\ handled \subseteq handled'
  BY <1>1 DEF HandleTransaction
<1>5. \A f \in Dirs : Begun(f)' = Begun(f)
  BY <1>4 DEF Begun
<1>6. /\ Types' /\ got'["down"] = got["down"] \o Decode(p)
      /\ \A f \in Dirs : f # "down" => got'[f] = got[f] /\ buf'[f] = buf[f]
  <2>1. sending' \subseteq Sender
    BY <1>2, <1>4 DEF Types
  <2> QED BY <1>1, <1>2, <1>3, <2>1, TakeTypes
<1>7. Writers'
  BY <1>1, <1>2, <1>3, <1>4, <1>5 DEF Writers
<1>8. Waiting'
  BY <1>1, <1>2, <1>4 DEF Waiting, Known
<1>9. Flow("up")'
  BY <1>1, <1>2, <1>3, <1>5, <1>6, FlowKept
<1>10. ASSUME ~torn
       PROVE  /\ Flow("down")'
              /\ \A i \in DOMAIN got'["down"] :
                    got'["down"][i].reply = 1 => \E r \in handled' : r.id = got'["down"][i].id
  <2>1. /\ Flow("down")'
        /\ \E t \in Small : /\ Decode(p) = <<t>>
                            /\ got["down"] \in Seq(Small) /\ got'["down"] = got["down"] \o <<t>>
                            /\ \E i \in DOMAIN order["down"] : order["down"][i] = t
    BY <1>1, <1>2, <1>3, <1>5, <1>10, TakeFlow
  <2>2. PICK t \in Small : /\ Decode(p) = <<t>>
                           /\ got["down"] \in Seq(Small) /\ got'["down"] = got["down"] \o <<t>>
                           /\ \E i \in DOMAIN order["down"] : order["down"][i] = t
    BY <2>1
  <2>3. HandleTransaction(t)
    <3>1. <<t>> # <<>> /\ <<t>>[1] = t
      OBVIOUS
    <3> QED BY <1>1, <2>2, <3>1
  <2>4. t.reply = 1 => \E r \in handled' : r.id = t.id
    <3>1. t.reply = 1 => Known(t.id)
      BY <1>2, <2>2 DEF Waiting
    <3> QED BY <2>3, <3>1 DEF Known, HandleTransaction
  <2>5. ASSUME NEW i \in DOMAIN got'["down"]
        PROVE  (i \in DOMAIN got["down"] /\ got'["down"][i] = got["down"][i]) \/ got'["down"][i] = t
    <3>1. PICK g \in Seq(Small) : g = got["down"]
      BY <2>2
    <3>2. PICK n \in Nat : n = Len(g)
      BY <3>1
    <3>3. <<t>> \in Seq(Small) /\ Len(<<t>>) = 1 /\ <<t>>[1] = t
      OBVIOUS
    <3>4. /\ g \o <<t>> \in Seq(Small) /\ Len(g \o <<t>>) = n + 1
          /\ \A j \in 1 .. n : (g \o <<t>>)[j] = g[j]
          /\ \A j \in 1 .. 1 : (g \o <<t>>)[n + j] = <<t>>[j]
      BY <3>2, <3>3, ConcatOf
    <3>5. (g \o <<t>>)[n + 1] = t
      BY <3>3, <3>4
    <3>6. DOMAIN (g \o <<t>>) = 1 .. n + 1 /\ DOMAIN g = 1 .. n
      BY <3>1, <3>2, <3>4
    <3>7. i \in 1 .. n \/ i = n + 1
      BY <2>2, <2>5, <3>1, <3>6
    <3> QED BY <2>2, <3>1, <3>4, <3>5, <3>6, <3>7
  <2>6. \A i \in DOMAIN got["down"] :
           got["down"][i].reply = 1 => \E r \in handled : r.id = got["down"][i].id
    BY <1>2, <1>10 DEF RepliesFindRequests
  <2> QED BY <1>4, <2>1, <2>4, <2>5, <2>6
<1>11. (torn' \/ Flow("down")') /\ RepliesFindRequests'
  BY <1>1, <1>10 DEF RepliesFindRequests
<1> QED BY <1>6, <1>7, <1>8, <1>9, <1>11 DEF Inv

\* A step that leaves the streams and the tasks alone.
LEMMA QuietInv ==
    ASSUME Inv, UNCHANGED <<sending, wire, buf, got, active, handled, order, torn>>
    PROVE  Inv'
<1>1. \A d \in Dirs : Begun(d)' = Begun(d)
  BY DEF Begun
<1>2. "up" \in Dirs /\ "down" \in Dirs
  BY DEF Dirs
<1>3. Types' /\ Writers' /\ Waiting' /\ RepliesFindRequests'
  BY <1>1, <1>2 DEF Inv, Types, Writers, Waiting, Known, RepliesFindRequests
<1>4. Flow("up")' /\ (torn' \/ Flow("down")')
  BY <1>1, <1>2, FlowKept DEF Inv
<1> QED BY <1>3, <1>4 DEF Inv

\* Every step keeps the invariant.
LEMMA NextInv == Inv /\ [Next]_vars => Inv'
<1> SUFFICES ASSUME Inv, [Next]_vars PROVE Inv'
  OBVIOUS
<1>1. CASE UNCHANGED vars
  BY <1>1, QuietInv DEF vars
<1>2. ASSUME NEW n \in Pieces, Handshake(n) PROVE Inv'
  BY <1>2, QuietInv DEF Handshake
<1>3. ASSUME NEW d \in Dirs, TooLong(d) PROVE Inv'
  BY <1>3, QuietInv DEF TooLong
<1>4. ASSUME NEW d \in Dirs, Take(d) PROVE Inv'
  BY <1>4, TakeUpInv, TakeDownInv DEF Dirs
<1> QED BY <1>1, <1>2, <1>3, <1>4, SendInv, PushInv, WriteInv, ReceiveInv DEF Next, Progress

\* What either side decodes is what the other one wrote, transaction by
\* transaction and in order, unless pieces of two of the server's got mixed up.
THEOREM ReceivedIntact == Spec => []ReceivedAsSent
<1>1. Inv => ReceivedAsSent
  <2> SUFFICES ASSUME Inv, NEW d \in Dirs, ~ (d = "down" /\ torn) PROVE IsPrefix(got[d], order[d])
    BY DEF ReceivedAsSent
  <2>1. Flow(d)
    BY DEF Inv, Dirs
  <2> QED BY <2>1, FlowPrefix DEF Flow
<1> QED BY <1>1, InitInv, NextInv, PTL DEF Spec

\* Each reply that the client read had its request in activeTasks: a handler got
\* it.
THEOREM RepliesMatched == Spec => []RepliesFindRequests
<1>1. Inv => RepliesFindRequests
  BY DEF Inv
<1> QED BY <1>1, InitInv, NextInv, PTL DEF Spec

=============================================================================
