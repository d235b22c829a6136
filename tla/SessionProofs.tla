--------------------------- MODULE SessionProofs ---------------------------
(***************************************************************************)
(* What is saved stays, and what is opened again is whole.  The lemmas are *)
(* about the lists the model is made of: sequences without some of their   *)
(* elements, paths to the root, and the label index.  They are defined by  *)
(* recursive functions, and proved by taking the least number at which a   *)
(* claim would fail.  Then come the types, and the four theorems:          *)
(*   - while no write fails, a conversation is on disk from its first      *)
(*     answer on;                                                          *)
(*   - a session file gives from then on what it once gave, failed writes  *)
(*     included;                                                           *)
(*   - while no write fails, every session is a tree, and opening a saved  *)
(*     one again gives what memory holds;                                  *)
(*   - a fork continues the conversation it is taken from.                 *)
(* The rest is about compaction (SessionCompaction): from the invariant    *)
(* that every entry is sound, three theorems:                              *)
(*   - a cut parts the entries, and no tool call from its results;         *)
(*   - what is kept fits the budget;                                       *)
(*   - nothing said on a path is forgotten, but for the paths that the     *)
(*     model names.                                                        *)
(***************************************************************************)
EXTENDS SessionCompaction, SequenceTheorems, WellFoundedInduction, TLAPS

-----------------------------------------------------------------------------
\* A set of numbers that is not empty has a least element.
LEMMA Least == ASSUME NEW S \in SUBSET Nat, S # {} PROVE \E x \in S : \A y \in S : x <= y
<1> DEFINE R == OpToRel(<, Nat)
<1>1. IsWellFoundedOn(R, Nat)
  BY NatLessThanWellFounded
<1>2. \A x, y \in Nat : <<y, x>> \in R <=> y < x
  BY DEF OpToRel
<1> HIDE DEF R
<1>3. PICK x \in S : \A y \in S : ~(<<y, x>> \in R)
  BY <1>1, WFMin, Zenon
<1>4. x \in Nat
  OBVIOUS
<1>5. ASSUME NEW y \in S PROVE x <= y
  <2>1. y \in Nat /\ ~(y < x)
    BY <1>2, <1>3, <1>4
  <2> QED
    BY <1>4, <2>1
<1> QED
  BY <1>5

\* Induction over the numbers, for a set of them.
LEMMA StrongInduction ==
  ASSUME NEW A, \A i \in Nat : (\A j \in Nat : j < i => j \in A) => i \in A
  PROVE  Nat \subseteq A
<1> DEFINE Bad == Nat \ A
<1>1. SUFFICES ASSUME Bad # {} PROVE FALSE
  OBVIOUS
<1>2. PICK i \in Bad : \A j \in Bad : i <= j
  <2>1. Bad \in SUBSET Nat
    OBVIOUS
  <2> HIDE DEF Bad
  <2> QED
    BY <1>1, <2>1, Least
<1>3. \A j \in Nat : j < i => j \in A
  BY <1>2
<1> QED
  BY <1>2, <1>3

\* A function that at every i of D is computed from its value at a smaller p[i].
Recursive(f, D, p, F, base) ==
  \A i \in Nat : f[i] = IF i \in D THEN F[i][f[p[i]]] ELSE base

\* There is such a function.
LEMMA Recursion ==
  ASSUME NEW V, NEW base \in V, NEW M \in Nat, NEW D \in SUBSET (0 .. M),
         NEW p \in [D -> Nat], \A i \in D : p[i] < i, NEW F \in [D -> [V -> V]]
  PROVE  \E f \in [Nat -> V] : Recursive(f, D, p, F, base)
<1> DEFINE Good(f, m) == \A i \in 0 .. m : f[i] = IF i \in D THEN F[i][f[p[i]]] ELSE base
           Bad == {m \in Nat : ~\E f \in [Nat -> V] : Good(f, m)}
<1>0. Bad \in SUBSET Nat /\ \A m \in Nat : m \notin Bad => \E f \in [Nat -> V] : Good(f, m)
  OBVIOUS
<1>1. Bad = {}
  <2> SUFFICES ASSUME Bad # {} PROVE FALSE
    OBVIOUS
  <2>1. PICK m \in Bad : \A n \in Bad : m <= n
    BY <1>0, Least
  <2>0. m \in Nat
    BY <1>0
  <2>2. PICK g \in [Nat -> V] : \A i \in 0 .. m - 1 : g[i] = IF i \in D THEN F[i][g[p[i]]] ELSE base
    <3>1. CASE m = 0
      <4>1. [i \in Nat |-> base] \in [Nat -> V] /\ 0 .. m - 1 = {}
        BY <3>1
      <4> QED
        BY <4>1
    <3>2. CASE m # 0
      <4>1. m - 1 \in Nat /\ m - 1 \notin Bad
        <5> HIDE DEF Bad
        <5> QED
          BY <2>0, <2>1, <3>2
      <4>2. PICK g \in [Nat -> V] : Good(g, m - 1)
        <5> HIDE DEF Good, Bad
        <5> QED
          BY <1>0, <4>1
      <4> QED
        BY <4>2
    <3> QED
      BY <3>1, <3>2
  <2> DEFINE new == IF m \in D THEN F[m][g[p[m]]] ELSE base
             h == [g EXCEPT ![m] = new]
  <2>3. new \in V
    <3>1. CASE m \in D
      <4>1. g[p[m]] \in V
        BY <3>1
      <4> QED
        BY <3>1, <4>1
    <3> QED
      BY <3>1
  <2>4. m \in Nat /\ h \in [Nat -> V] /\ h[m] = new /\ \A i \in Nat : i # m => h[i] = g[i]
    BY <2>3
  <2> HIDE DEF h
  <2>5. Good(h, m)
    <3> SUFFICES ASSUME NEW i \in 0 .. m
                 PROVE  h[i] = IF i \in D THEN F[i][h[p[i]]] ELSE base
      OBVIOUS
    <3>1. i \in D => h[p[i]] = g[p[i]]
      <4>1. i \in D => p[i] \in Nat /\ p[i] < m
        BY <2>4
      <4> QED
        BY <2>4, <4>1
    <3>2. CASE i = m
      BY <2>4, <3>1, <3>2
    <3>3. CASE i # m
      <4>1. i \in Nat /\ i \in 0 .. m - 1
        BY <2>4, <3>3
      <4> QED
        BY <2>2, <2>4, <3>1, <3>3, <4>1
    <3> QED
      BY <3>2, <3>3
  <2> QED
    BY <2>1, <2>4, <2>5
<1>2. PICK f \in [Nat -> V] : Good(f, M)
  BY <1>1
<1> DEFINE h == [i \in Nat |-> IF i <= M THEN f[i] ELSE base]
<1>3. h \in [Nat -> V]
  OBVIOUS
<1>4. ASSUME NEW i \in Nat PROVE h[i] = IF i \in D THEN F[i][h[p[i]]] ELSE base
  <2>1. CASE i \in D
    <3>1. p[i] \in Nat /\ p[i] <= M /\ i \in 0 .. M
      BY <2>1
    <3> QED
      BY <1>2, <2>1, <3>1
  <2>2. CASE i \notin D
    <3>1. i <= M => i \in 0 .. M
      OBVIOUS
    <3>2. i <= M => f[i] = base
      BY <1>2, <2>2, <3>1
    <3> QED
      BY <2>2, <3>2
  <2> QED
    BY <2>1, <2>2
<1> QED
  BY <1>3, <1>4 DEF Recursive

\* The function by which Without is defined.
WithoutFun(s, T, f) ==
  f = [n \in 0 .. Len(s) |->
         IF n = 0 THEN <<>> ELSE IF s[n] \in T THEN f[n - 1] ELSE Append(f[n - 1], s[n])]

\* It is a function of sequences, whatever the set.
LEMMA WithoutDef ==
  ASSUME NEW S, NEW s \in Seq(S), NEW T
  PROVE  \E f \in [0 .. Len(s) -> Seq(S)] : WithoutFun(s, T, f) /\ Without(s, T) = f[Len(s)]
<1> DEFINE N == Len(s)
           p == [i \in 1 .. N |-> i - 1]
           F == [i \in 1 .. N |-> [l \in Seq(S) |-> IF s[i] \in T THEN l ELSE Append(l, s[i])]]
<1>0. N \in Nat /\ \A i \in 1 .. N : s[i] \in S
  OBVIOUS
<1>1. F \in [1 .. N -> [Seq(S) -> Seq(S)]]
  BY <1>0
<1>2. p \in [1 .. N -> Nat] /\ (\A i \in 1 .. N : p[i] = i - 1) /\ (\A i \in 1 .. N : p[i] < i)
  BY <1>0
<1>3. \A l \in Seq(S) : \A i \in 1 .. N : F[i][l] = IF s[i] \in T THEN l ELSE Append(l, s[i])
  OBVIOUS
<1>4. 1 .. N \in SUBSET (0 .. N) /\ <<>> \in Seq(S)
  BY <1>0
<1> HIDE DEF p, F, N
<1>5. PICK g \in [Nat -> Seq(S)] :
        \A i \in Nat : g[i] = IF i \in 1 .. N THEN F[i][g[p[i]]] ELSE <<>>
  <2>1. N \in Nat
    BY <1>0
  <2>2. \E g \in [Nat -> Seq(S)] : Recursive(g, 1 .. N, p, F, <<>>)
    BY <2>1, <1>1, <1>2, <1>4, Recursion
  <2> QED
    BY <2>2 DEF Recursive
<1> DEFINE f == [n \in 0 .. N |-> g[n]]
<1>6. f \in [0 .. N -> Seq(S)]
  BY <1>0
<1>7. ASSUME NEW n \in 0 .. N
      PROVE f[n] = IF n = 0 THEN <<>> ELSE IF s[n] \in T THEN f[n - 1] ELSE Append(f[n - 1], s[n])
  <2>1. CASE n = 0
    <3>1. 0 \in Nat /\ 0 \notin 1 .. N /\ 0 \in 0 .. N
      BY <1>0
    <3>2. g[0] = <<>>
      BY <1>5, <3>1
    <3> QED
      BY <2>1, <3>1, <3>2
  <2>2. CASE n # 0
    <3>1. n \in 1 .. N /\ n \in Nat /\ n - 1 \in Nat /\ n - 1 \in 0 .. N /\ p[n] = n - 1
      BY <1>0, <1>2, <2>2
    <3> QED
      BY <1>3, <1>5, <2>2, <3>1
  <2> QED
    BY <2>1, <2>2
<1>8. WithoutFun(s, T, f)
  BY <1>6, <1>7 DEF WithoutFun, N
<1>9. PICK c : WithoutFun(s, T, c) /\ Without(s, T) = c[Len(s)]
  <2>1. WithoutFun(s, T, CHOOSE c : WithoutFun(s, T, c))
    BY <1>8
  <2>2. Without(s, T) = (CHOOSE c : WithoutFun(s, T, c))[Len(s)]
    BY DEF Without, WithoutFun
  <2> QED
    BY <2>1, <2>2
<1>10. \A n \in 0 .. N : c[n] = IF n = 0 THEN <<>> ELSE IF s[n] \in T THEN c[n - 1] ELSE Append(c[n - 1], s[n])
  BY <1>9 DEF WithoutFun, N
<1> DEFINE Bad == {n \in 0 .. N : c[n] \notin Seq(S)}
<1>11. Bad = {}
  <2> SUFFICES ASSUME Bad # {} PROVE FALSE
    OBVIOUS
  <2>1. Bad \in SUBSET Nat
    BY <1>0
  <2>2. PICK n \in Bad : \A m \in Bad : n <= m
    <3> HIDE DEF Bad
    <3> QED
      BY <2>1, Least
  <2>3. n \in 0 .. N /\ c[n] \notin Seq(S) /\ n \in Nat
    BY <1>0
  <2>4. n # 0
    BY <1>4, <1>10, <2>3
  <2>5. n - 1 \in 0 .. N /\ n \in 1 .. N /\ n - 1 \notin Bad
    <3> HIDE DEF Bad
    <3> QED
      BY <1>0, <2>2, <2>3, <2>4
  <2>6. c[n - 1] \in Seq(S) /\ s[n] \in S
    BY <1>0, <2>5
  <2>7. c[n] = IF s[n] \in T THEN c[n - 1] ELSE Append(c[n - 1], s[n])
    BY <1>10, <2>3, <2>4
  <2>8. c[n] \in Seq(S)
    BY <2>6, <2>7
  <2> QED
    BY <2>3, <2>8
<1>12. c \in [0 .. N -> Seq(S)]
  <2>1. DOMAIN c = 0 .. N /\ c = [n \in 0 .. N |-> c[n]]
    BY <1>9 DEF WithoutFun, N
  <2> QED
    BY <1>11, <2>1
<1> QED
  BY <1>9, <1>12 DEF N

\* What it is at every prefix of the sequence.
WithoutBy(s, T, f) ==
  /\ Without(s, T) = f[Len(s)]
  /\ f[0] = <<>>
  /\ \A n \in 1 .. Len(s) : f[n] = IF s[n] \in T THEN f[n - 1] ELSE Append(f[n - 1], s[n])

\* Without is computed by such a function.
LEMMA WithoutIs ==
  ASSUME NEW S, NEW s \in Seq(S), NEW T
  PROVE  \E f \in [0 .. Len(s) -> Seq(S)] : WithoutBy(s, T, f)
<1>1. PICK f \in [0 .. Len(s) -> Seq(S)] : WithoutFun(s, T, f) /\ Without(s, T) = f[Len(s)]
  BY WithoutDef
<1>2. Len(s) \in Nat
  OBVIOUS
<1>3. \A n \in 0 .. Len(s) : f[n] = IF n = 0 THEN <<>> ELSE IF s[n] \in T THEN f[n - 1] ELSE Append(f[n - 1], s[n])
  BY <1>1 DEF WithoutFun
<1>4. f[0] = <<>>
  BY <1>2, <1>3
<1>5. ASSUME NEW n \in 1 .. Len(s)
      PROVE f[n] = IF s[n] \in T THEN f[n - 1] ELSE Append(f[n - 1], s[n])
  <2>1. n \in 0 .. Len(s) /\ n # 0
    BY <1>2
  <2> QED
    BY <1>3, <2>1
<1> QED
  BY <1>1, <1>4, <1>5 DEF WithoutBy

\* A set of sequences that holds the empty one and is closed under Append.
LEMMA SeqInduction ==
  ASSUME NEW S, NEW A, <<>> \in A, \A s \in A \cap Seq(S) : \A e \in S : Append(s, e) \in A
  PROVE  Seq(S) \subseteq A
<1> SUFFICES ASSUME NEW s \in Seq(S) PROVE s \in A
  OBVIOUS
<1> DEFINE Bad == {n \in 0 .. Len(s) : SubSeq(s, 1, n) \notin A}
<1>1. Bad \in SUBSET Nat /\ Len(s) \in Nat /\ SubSeq(s, 1, 0) = <<>> /\ SubSeq(s, 1, Len(s)) = s
  OBVIOUS
<1>2. Bad = {}
  <2> SUFFICES ASSUME Bad # {} PROVE FALSE
    OBVIOUS
  <2>1. PICK n \in Bad : \A m \in Bad : n <= m
    <3> HIDE DEF Bad
    <3> QED
      BY <1>1, Least
  <2>2. n \in 0 .. Len(s) /\ SubSeq(s, 1, n) \notin A
    OBVIOUS
  <2>3. n # 0
    BY <1>1, <2>2
  <2>4. n - 1 \in 0 .. Len(s) /\ n - 1 \notin Bad
    <3> HIDE DEF Bad
    <3> QED
      BY <1>1, <2>1, <2>2, <2>3
  <2>5. SubSeq(s, 1, n - 1) \in A
    BY <2>4
  <2>6. SubSeq(s, 1, n - 1) \in Seq(S) /\ s[n] \in S
    BY <1>1, <2>2, <2>3
  <2>7. SubSeq(s, 1, n) = Append(SubSeq(s, 1, n - 1), s[n])
    BY <1>1, <2>2, <2>3
  <2> QED
    BY <2>2, <2>5, <2>6, <2>7
<1>3. Len(s) \in 0 .. Len(s)
  BY <1>1
<1> QED
  BY <1>1, <1>2, <1>3

\* It picks elements of the sequence.
LEMMA WithoutType == ASSUME NEW S, NEW s \in Seq(S), NEW T PROVE Without(s, T) \in Seq(S)
<1>1. PICK f \in [0 .. Len(s) -> Seq(S)] : Without(s, T) = f[Len(s)]
  BY WithoutIs DEF WithoutBy
<1> QED
  BY <1>1

\* Nothing is left of nothing.
LEMMA WithoutEmpty == \A T : Without(<<>>, T) = <<>>
<1> SUFFICES ASSUME NEW T PROVE Without(<<>>, T) = <<>>
  OBVIOUS
<1>1. <<>> \in Seq({}) /\ Len(<<>>) = 0
  OBVIOUS
<1>2. PICK f \in [0 .. Len(<<>>) -> Seq({})] : WithoutBy(<<>>, T, f)
  BY <1>1, WithoutIs
<1> QED
  BY <1>1, <1>2 DEF WithoutBy

\* An element at the end stays there unless it is left out.
LEMMA WithoutAppend ==
  ASSUME NEW S, NEW s \in Seq(S), NEW e \in S, NEW T
  PROVE  Without(Append(s, e), T) = IF e \in T THEN Without(s, T) ELSE Append(Without(s, T), e)
<1> DEFINE t == Append(s, e)
           N == Len(s)
<1>1. /\ N \in Nat /\ t \in Seq(S) /\ Len(t) = N + 1 /\ t[N + 1] = e
      /\ \A n \in 1 .. N : t[n] = s[n]
  OBVIOUS
<1> HIDE DEF t
<1>2. PICK f \in [0 .. N -> Seq(S)] :
           /\ Without(s, T) = f[N]
           /\ f[0] = <<>>
           /\ \A n \in 1 .. N : f[n] = IF s[n] \in T THEN f[n - 1] ELSE Append(f[n - 1], s[n])
  <2>1. PICK f \in [0 .. Len(s) -> Seq(S)] : WithoutBy(s, T, f)
    BY WithoutIs
  <2> QED
    BY <2>1 DEF WithoutBy
<1>3. PICK g \in [0 .. N + 1 -> Seq(S)] :
           /\ Without(t, T) = g[N + 1]
           /\ g[0] = <<>>
           /\ \A n \in 1 .. N + 1 : g[n] = IF t[n] \in T THEN g[n - 1] ELSE Append(g[n - 1], t[n])
  <2>1. PICK g \in [0 .. Len(t) -> Seq(S)] : WithoutBy(t, T, g)
    BY <1>1, WithoutIs
  <2> QED
    BY <1>1, <2>1 DEF WithoutBy
<1> DEFINE Bad == {n \in 0 .. N : f[n] # g[n]}
<1>4. Bad = {}
  <2> SUFFICES ASSUME Bad # {} PROVE FALSE
    OBVIOUS
  <2>0. Bad \in SUBSET Nat
    BY <1>1
  <2>1. PICK n \in Bad : \A m \in Bad : n <= m
    <3> HIDE DEF Bad
    <3> QED
      BY <2>0, Least
  <2>2. n \in 0 .. N /\ f[n] # g[n]
    OBVIOUS
  <2>3. n # 0
    BY <1>2, <1>3, <2>2
  <2>4. n - 1 \in 0 .. N /\ n - 1 \notin Bad
    <3> HIDE DEF Bad
    <3> QED
      BY <1>1, <2>1, <2>2, <2>3
  <2>5. f[n - 1] = g[n - 1] /\ n \in 1 .. N /\ n \in 1 .. N + 1
    BY <1>1, <2>2, <2>3, <2>4
  <2> QED
    BY <1>1, <1>2, <1>3, <2>2, <2>5
<1>5. f[N] = g[N]
  BY <1>1, <1>4
<1>6. g[N + 1] = IF t[N + 1] \in T THEN g[N] ELSE Append(g[N], t[N + 1])
  BY <1>1, <1>3
<1> QED
  BY <1>1, <1>2, <1>3, <1>5, <1>6 DEF t

\* Nothing is left out of a sequence that has none of the set.
LEMMA WithoutNone ==
  ASSUME NEW S, NEW T, S \cap T = {}, NEW s \in Seq(S)
  PROVE  Without(s, T) = s
<1> DEFINE A == {t \in Seq(S) : Without(t, T) = t}
<1>1. <<>> \in A
  BY WithoutEmpty
<1>2. ASSUME NEW t \in A \cap Seq(S), NEW e \in S PROVE Append(t, e) \in A
  <2>1. e \notin T /\ Append(t, e) \in Seq(S)
    OBVIOUS
  <2> QED
    BY <2>1, WithoutAppend
<1> HIDE DEF A
<1>3. s \in A
  BY <1>1, <1>2, SeqInduction
<1> QED
  BY <1>3 DEF A

\* Putting one element first and one last, in either order.
LEMMA ConsAppend ==
  ASSUME NEW S, NEW h \in S, NEW t \in Seq(S), NEW e \in S
  PROVE  <<h>> \o Append(t, e) = Append(<<h>> \o t, e)
  OBVIOUS

\* Only the first element of the sequence is in the set.
LEMMA WithoutHead ==
  ASSUME NEW S, NEW T, S \cap T = {}, NEW h \in T, NEW s \in Seq(S)
  PROVE  Without(<<h>> \o s, T) = s
<1> DEFINE A == {t \in Seq(S) : Without(<<h>> \o t, T) = t}
<1>1. <<>> \in A
  <2>1. <<h>> \o <<>> = Append(<<>>, h) /\ <<>> \in Seq({h})
    OBVIOUS
  <2>2. Without(Append(<<>>, h), T) = <<>>
    BY <2>1, WithoutAppend, WithoutEmpty
  <2> QED
    BY <2>1, <2>2
<1>2. ASSUME NEW t \in A \cap Seq(S), NEW e \in S PROVE Append(t, e) \in A
  <2>1. t \in Seq(S \cup {h}) /\ <<h>> \o t \in Seq(S \cup {h}) /\ e \in S \cup {h} /\ e \notin T
    OBVIOUS
  <2>2. <<h>> \o Append(t, e) = Append(<<h>> \o t, e)
    BY <2>1, ConsAppend
  <2>3. Without(Append(<<h>> \o t, e), T) = Append(Without(<<h>> \o t, T), e)
    <3> DEFINE u == <<h>> \o t
               R == S \cup {h}
    <3>1. u \in Seq(R) /\ e \in R /\ e \notin T
      BY <2>1
    <3> HIDE DEF u, R
    <3>2. Without(Append(u, e), T) = Append(Without(u, T), e)
      BY <3>1, WithoutAppend
    <3> QED
      BY <3>2 DEF u
  <2>4. Without(<<h>> \o t, T) = t /\ Append(t, e) \in Seq(S)
    OBVIOUS
  <2> QED
    BY <2>2, <2>3, <2>4
<1> HIDE DEF A
<1>3. s \in A
  BY <1>1, <1>2, SeqInduction
<1> QED
  BY <1>3 DEF A

\* What is left has no element of the set.
LEMMA WithoutLeaves ==
  ASSUME NEW S, NEW T, NEW s \in Seq(S)
  PROVE  Without(s, T) \in Seq(S \ T)
<1> DEFINE A == {t \in Seq(S) : Without(t, T) \in Seq(S \ T)}
<1>1. <<>> \in A
  <2>1. <<>> \in Seq(S) /\ <<>> \in Seq(S \ T)
    OBVIOUS
  <2> QED
    BY <2>1, WithoutEmpty
<1>2. ASSUME NEW t \in A \cap Seq(S), NEW e \in S PROVE Append(t, e) \in A
  <2>1. Append(t, e) \in Seq(S) /\ Without(t, T) \in Seq(S \ T)
    OBVIOUS
  <2>2. CASE e \in T
    BY <2>1, <2>2, WithoutAppend
  <2>3. CASE e \notin T
    <3>1. Without(Append(t, e), T) = Append(Without(t, T), e)
      BY <2>3, WithoutAppend
    <3> QED
      BY <2>1, <2>3, <3>1
  <2> QED
    BY <2>2, <2>3
<1> HIDE DEF A
<1>3. s \in A
  BY <1>1, <1>2, SeqInduction
<1> QED
  BY <1>3 DEF A

\* What a sequence has after an element is appended.
LEMMA RangeAppend ==
  ASSUME NEW S, NEW s \in Seq(S), NEW e \in S
  PROVE  /\ Range(Append(s, e)) = Range(s) \cup {e}
         /\ IsInjective(Append(s, e)) <=> IsInjective(s) /\ e \notin Range(s)
<1> DEFINE u == Append(s, e)
<1>1. /\ Len(s) \in Nat /\ DOMAIN s = 1 .. Len(s) /\ DOMAIN u = 1 .. Len(s) + 1
      /\ u[Len(s) + 1] = e /\ \A i \in 1 .. Len(s) : u[i] = s[i]
  OBVIOUS
<1> HIDE DEF u
<1>2. \A i \in 1 .. Len(s) + 1 : i \in 1 .. Len(s) \/ i = Len(s) + 1
  BY <1>1
<1>3. 1 .. Len(s) \subseteq 1 .. Len(s) + 1 /\ Len(s) + 1 \in 1 .. Len(s) + 1 /\ Len(s) + 1 \notin 1 .. Len(s)
  BY <1>1
<1>4. Range(u) = Range(s) \cup {e}
  BY <1>1, <1>2, <1>3 DEF Range
<1>5. IsInjective(u) <=> IsInjective(s) /\ e \notin Range(s)
  BY <1>1, <1>2, <1>3 DEF Range, IsInjective
<1> QED
  BY <1>4, <1>5 DEF u

\* It leaves out exactly the set, and repeats nothing.
LEMMA WithoutKeeps ==
  ASSUME NEW S, NEW T, NEW s \in Seq(S)
  PROVE  /\ Range(Without(s, T)) = Range(s) \ T
         /\ IsInjective(s) => IsInjective(Without(s, T))
<1> DEFINE A == {t \in Seq(S) : /\ Range(Without(t, T)) = Range(t) \ T
                                /\ IsInjective(t) => IsInjective(Without(t, T))}
<1>1. <<>> \in A
  <2>1. <<>> \in Seq(S) /\ Range(<<>>) = {}
    BY DEF Range
  <2> QED
    BY <2>1, WithoutEmpty
<1>2. ASSUME NEW t \in A \cap Seq(S), NEW e \in S PROVE Append(t, e) \in A
  <2> DEFINE w == Without(t, T)
             u == Append(t, e)
             v == Without(u, T)
  <2>1. t \in Seq(S) /\ u \in Seq(S) /\ w \in Seq(S)
    BY WithoutType
  <2>2. Range(w) = Range(t) \ T /\ (IsInjective(t) => IsInjective(w))
    OBVIOUS
  <2>3. Range(u) = Range(t) \cup {e} /\ (IsInjective(u) <=> IsInjective(t) /\ e \notin Range(t))
    BY <2>1, RangeAppend
  <2>4. v = IF e \in T THEN w ELSE Append(w, e)
    BY <2>1, WithoutAppend
  <2>5. Range(Append(w, e)) = Range(w) \cup {e} /\ (IsInjective(Append(w, e)) <=> IsInjective(w) /\ e \notin Range(w))
    BY <2>1, RangeAppend
  <2> HIDE DEF w, u, v
  <2>6. Range(v) = Range(u) \ T /\ (IsInjective(u) => IsInjective(v))
    BY <2>2, <2>3, <2>4, <2>5
  <2> QED
    BY <2>1, <2>6 DEF u, v
<1> HIDE DEF A
<1>3. s \in A
  BY <1>1, <1>2, SeqInduction
<1> QED
  BY <1>3 DEF A

\* Entries in the order of their ids.
Ascending(s) == \A i, j \in DOMAIN s : i < j => s[i].id < s[j].id

\* A larger id may be appended.
LEMMA AscendAppend ==
  ASSUME NEW S, \A x \in S : x.id \in Nat, NEW l \in Seq(S), NEW e \in S, Ascending(l),
         \A k \in 1 .. Len(l) : l[k].id < e.id
  PROVE  Ascending(Append(l, e)) /\ \A k \in DOMAIN Append(l, e) : Append(l, e)[k].id <= e.id
<1> DEFINE u == Append(l, e)
<1>1. /\ Len(l) \in Nat /\ DOMAIN l = 1 .. Len(l) /\ DOMAIN u = 1 .. Len(l) + 1
      /\ u[Len(l) + 1] = e /\ \A k \in 1 .. Len(l) : u[k] = l[k]
  OBVIOUS
<1> HIDE DEF u
<1>2. ASSUME NEW j \in DOMAIN u, NEW k \in DOMAIN u, j < k PROVE u[j].id < u[k].id
  <2>1. CASE k = Len(l) + 1
    <3>1. j \in 1 .. Len(l)
      BY <1>1, <1>2, <2>1
    <3> QED
      BY <1>1, <2>1, <3>1
  <2>2. CASE k # Len(l) + 1
    <3>1. j \in 1 .. Len(l) /\ k \in 1 .. Len(l)
      BY <1>1, <1>2, <2>2
    <3>2. l[j].id < l[k].id
      BY <1>1, <1>2, <3>1 DEF Ascending
    <3> QED
      BY <1>1, <3>1, <3>2
  <2> QED
    BY <2>1, <2>2
<1>3. ASSUME NEW k \in DOMAIN u PROVE u[k].id <= e.id
  <2>1. CASE k = Len(l) + 1
    BY <1>1, <2>1
  <2>2. CASE k # Len(l) + 1
    <3>1. k \in 1 .. Len(l) /\ l[k] \in S
      BY <1>1, <2>2
    <3> QED
      BY <1>1, <3>1
  <2> QED
    BY <2>1, <2>2
<1> QED
  BY <1>2, <1>3 DEF Ascending, u

\* What comes before the last entry has smaller ids.
LEMMA AscendFront ==
  ASSUME NEW S, NEW l \in Seq(S), NEW e \in S, Ascending(Append(l, e))
  PROVE  Ascending(l) /\ \A k \in 1 .. Len(l) : l[k].id < e.id
<1> DEFINE u == Append(l, e)
<1>1. /\ Len(l) \in Nat /\ DOMAIN l = 1 .. Len(l) /\ DOMAIN u = 1 .. Len(l) + 1
      /\ u[Len(l) + 1] = e /\ \A k \in 1 .. Len(l) : u[k] = l[k]
  OBVIOUS
<1>2. Ascending(u)
  OBVIOUS
<1> HIDE DEF u
<1>3. ASSUME NEW k \in 1 .. Len(l) PROVE l[k].id < e.id
  <2>1. k \in DOMAIN u /\ Len(l) + 1 \in DOMAIN u /\ k < Len(l) + 1
    BY <1>1
  <2>2. u[k].id < u[Len(l) + 1].id
    BY <1>2, <2>1 DEF Ascending
  <2> QED
    BY <1>1, <2>2
<1>4. ASSUME NEW j \in DOMAIN l, NEW k \in DOMAIN l, j < k PROVE l[j].id < l[k].id
  <2>1. j \in DOMAIN u /\ k \in DOMAIN u
    BY <1>1
  <2>2. u[j].id < u[k].id
    BY <1>2, <1>4, <2>1 DEF Ascending
  <2> QED
    BY <1>1, <2>2
<1> QED
  BY <1>3, <1>4 DEF Ascending

\* Leaving entries out keeps the order.
LEMMA WithoutAscends ==
  ASSUME NEW S, NEW T, NEW s \in Seq(S), \A e \in S : e.id \in Nat, Ascending(s)
  PROVE  Ascending(Without(s, T))
<1> DEFINE A == {t \in Seq(S) : Ascending(t) => Ascending(Without(t, T))}
<1>1. <<>> \in A
  BY WithoutEmpty DEF Ascending
<1>2. ASSUME NEW t \in A \cap Seq(S), NEW e \in S PROVE Append(t, e) \in A
  <2> DEFINE w == Without(t, T)
  <2>1. SUFFICES ASSUME Ascending(Append(t, e)) PROVE Ascending(Without(Append(t, e), T))
    OBVIOUS
  <2>2. t \in Seq(S) /\ Ascending(t) /\ \A i \in 1 .. Len(t) : t[i].id < e.id
    BY <2>1, AscendFront
  <2>3. Ascending(w)
    BY <2>2
  <2>4. w \in Seq({t[i] : i \in 1 .. Len(t)})
    <3>1. t \in Seq({t[i] : i \in 1 .. Len(t)})
      BY <2>2
    <3> QED
      BY <3>1, WithoutType
  <2>5. w \in Seq(S)
    BY <2>2, WithoutType
  <2>6. CASE e \in T
    BY <2>2, <2>3, <2>6, WithoutAppend
  <2>7. CASE e \notin T
    <3>1. Without(Append(t, e), T) = Append(w, e)
      BY <2>2, <2>7, WithoutAppend
    <3> HIDE DEF w
    <3>2. \A k \in 1 .. Len(w) : w[k].id < e.id
      BY <2>2, <2>4
    <3> QED
      BY <2>3, <2>5, <3>1, <3>2, AscendAppend
  <2> QED
    BY <2>6, <2>7
<1> HIDE DEF A
<1>3. s \in A
  BY <1>1, <1>2, SeqInduction
<1> QED
  BY <1>3 DEF A

-----------------------------------------------------------------------------
\* Where an id is.
LEMMA IndexIs ==
  ASSUME NEW S, NEW s \in Seq(S), NEW id \in Ids(s)
  PROVE  IndexOf(s, id) \in 1 .. Len(s) /\ s[IndexOf(s, id)].id = id
<1> DEFINE I == {i \in 1 .. Len(s) : s[i].id = id}
<1>1. I # {} /\ I \in SUBSET Nat
  BY DEF Ids
<1>2. IndexOf(s, id) = Min(I)
  BY <1>1 DEF IndexOf, SelectInSeq
<1>3. \E x \in I : \A y \in I : x <= y
  <2> HIDE DEF I
  <2> QED
    BY <1>1, Least
<1>4. Min(I) \in I
  <2> HIDE DEF I
  <2> QED
    BY <1>3 DEF Min
<1> QED
  BY <1>2, <1>4

\* A set of entries with numbers for ids, each after its parent.
Born(S) == \A e \in S : e.id \in Nat /\ e.parent \in Nat /\ e.parent < e.id

\* The function by which PathTo is defined.
PathFun(s, f) ==
  f = [i \in Nat |-> IF i \in Ids(s)
                     THEN LET e == s[IndexOf(s, i)] IN Append(f[e.parent], e)
                     ELSE <<>>]

\* What it is at every id.
PathBy(s, f) ==
  /\ \A id : PathTo(s, id) = f[id]
  /\ \A i \in Nat : f[i] = IF i \in Ids(s) THEN Append(f[s[IndexOf(s, i)].parent], s[IndexOf(s, i)])
                                            ELSE <<>>

\* PathTo is computed by such a function when parents are older than children.
LEMMA PathIs ==
  ASSUME NEW S, Born(S), NEW s \in Seq(S), NEW M \in Nat, \A e \in S : e.id <= M
  PROVE  \E f \in [Nat -> Seq(S)] : PathBy(s, f)
<1> DEFINE D == Ids(s)
           at == [i \in D |-> s[IndexOf(s, i)]]
           p == [i \in D |-> at[i].parent]
           F == [i \in D |-> [l \in Seq(S) |-> Append(l, at[i])]]
<1>1. D \in SUBSET (0 .. M) /\ <<>> \in Seq(S)
  BY DEF Ids, Born
<1>2. ASSUME NEW i \in D PROVE at[i] = s[IndexOf(s, i)] /\ at[i] \in S /\ at[i].id = i
  BY IndexIs
<1>3. \A i \in D : p[i] \in Nat /\ p[i] < i /\ p[i] = at[i].parent
  BY <1>2 DEF Born
<1>4. p \in [D -> Nat] /\ \A i \in D : p[i] < i
  BY <1>3
<1>5. F \in [D -> [Seq(S) -> Seq(S)]] /\ \A i \in D : \A l \in Seq(S) : F[i][l] = Append(l, at[i])
  BY <1>2
<1> HIDE DEF D, at, p, F
<1>6. PICK g \in [Nat -> Seq(S)] : Recursive(g, D, p, F, <<>>)
  BY <1>1, <1>4, <1>5, Recursion
<1>7. ASSUME NEW i \in Nat
      PROVE  g[i] = IF i \in Ids(s) THEN Append(g[s[IndexOf(s, i)].parent], s[IndexOf(s, i)]) ELSE <<>>
  <2>1. g[i] = IF i \in D THEN F[i][g[p[i]]] ELSE <<>>
    BY <1>6 DEF Recursive
  <2>2. i \in D => F[i][g[p[i]]] = Append(g[p[i]], at[i])
    BY <1>3, <1>5
  <2> QED
    BY <1>2, <1>3, <2>1, <2>2 DEF D
<1>8. PathFun(s, g)
  <2>1. g = [i \in Nat |-> g[i]]
    OBVIOUS
  <2> QED
    BY <1>7, <2>1 DEF PathFun
<1> DEFINE c == CHOOSE f : PathFun(s, f)
<1>9. PathFun(s, c) /\ \A id : PathTo(s, id) = c[id]
  BY <1>8 DEF PathTo, PathFun
<1> HIDE DEF c
<1>10. \A i \in Nat : c[i] = IF i \in Ids(s) THEN Append(c[s[IndexOf(s, i)].parent], s[IndexOf(s, i)])
                                             ELSE <<>>
  BY <1>9 DEF PathFun
<1> DEFINE Bad == {i \in Nat : c[i] \notin Seq(S)}
<1>11. Bad = {}
  <2> SUFFICES ASSUME Bad # {} PROVE FALSE
    OBVIOUS
  <2>1. PICK i \in Bad : \A j \in Bad : i <= j
    <3>1. Bad \in SUBSET Nat
      OBVIOUS
    <3> HIDE DEF Bad
    <3> QED
      BY <3>1, Least
  <2>2. i \in Nat /\ c[i] \notin Seq(S)
    OBVIOUS
  <2>3. i \in D
    BY <1>1, <1>10, <2>2 DEF D
  <2>4. p[i] \in Nat /\ p[i] \notin Bad
    <3>1. i \in Nat /\ p[i] \in Nat /\ p[i] < i
      BY <1>3, <2>2, <2>3
    <3> HIDE DEF Bad
    <3> QED
      BY <2>1, <3>1
  <2>5. c[p[i]] \in Seq(S) /\ at[i] \in S
    BY <1>2, <2>3, <2>4
  <2>6. c[i] = Append(c[p[i]], at[i])
    <3>1. c[i] = Append(c[s[IndexOf(s, i)].parent], s[IndexOf(s, i)])
      BY <1>10, <2>2, <2>3 DEF D
    <3> QED
      BY <1>2, <1>3, <2>3, <3>1
  <2> QED
    BY <2>2, <2>5, <2>6
<1>12. c \in [Nat -> Seq(S)]
  <2>1. c = [i \in Nat |-> c[i]]
    BY <1>9 DEF PathFun
  <2> QED
    BY <1>11, <2>1
<1> QED
  BY <1>9, <1>10, <1>12 DEF PathBy

\* A path goes from entry to child.
LEMMA PathAscends ==
  ASSUME NEW S, Born(S), NEW s \in Seq(S), NEW M \in Nat, \A e \in S : e.id <= M, NEW id \in Nat
  PROVE  PathTo(s, id) \in Seq(S) /\ Ascending(PathTo(s, id))
<1>1. PICK f \in [Nat -> Seq(S)] : PathBy(s, f)
  BY PathIs
<1> DEFINE Up(i) == Ascending(f[i]) /\ \A k \in DOMAIN f[i] : f[i][k].id <= i
           A == {i \in Nat : Up(i)}
<1>2. ASSUME NEW i \in Nat, \A j \in Nat : j < i => j \in A PROVE Up(i)
  <2>1. CASE i \notin Ids(s)
    <3>1. f[i] = <<>>
      BY <1>1, <2>1 DEF PathBy
    <3> QED
      BY <3>1 DEF Ascending
  <2>2. CASE i \in Ids(s)
    <3>1. PICK e \in S : e.id = i /\ f[i] = Append(f[e.parent], e)
      <4>1. s[IndexOf(s, i)] \in S /\ s[IndexOf(s, i)].id = i
        BY <2>2, IndexIs
      <4>2. f[i] = Append(f[s[IndexOf(s, i)].parent], s[IndexOf(s, i)])
        BY <1>1, <2>2 DEF PathBy
      <4> QED
        BY <4>1, <4>2
    <3>2. e.parent \in Nat /\ e.parent < e.id /\ e.id \in Nat /\ \A x \in S : x.id \in Nat
      BY DEF Born
    <3>3. Up(e.parent)
      BY <1>2, <3>1, <3>2
    <3> HIDE DEF A
    <3>4. PICK l \in Seq(S) : l = f[e.parent]
      BY <3>2
    <3>5. Ascending(l) /\ \A k \in 1 .. Len(l) : l[k].id < e.id
      <4>1. Ascending(l) /\ \A k \in DOMAIN l : l[k].id <= e.parent
        BY <3>3, <3>4
      <4>2. \A k \in 1 .. Len(l) : k \in DOMAIN l /\ l[k] \in S
        OBVIOUS
      <4>3. ASSUME NEW k \in 1 .. Len(l) PROVE l[k].id < e.id
        <5>1. l[k].id \in Nat /\ l[k].id <= e.parent
          BY <3>2, <4>1, <4>2
        <5>2. \A a, b, c \in Nat : a <= b /\ b < c => a < c
          OBVIOUS
        <5>3. l[k].id \in Nat /\ e.parent \in Nat /\ e.id \in Nat /\ e.parent < e.id
          BY <3>2, <5>1
        <5> QED
          BY <5>1, <5>2, <5>3
      <4> QED
        BY <4>1, <4>3
    <3> QED
      BY <3>1, <3>2, <3>4, <3>5, AscendAppend
  <2> QED
    BY <2>1, <2>2
<1>3. \A i \in Nat : (\A j \in Nat : j < i => j \in A) => i \in A
  BY <1>2
<1>4. id \in A
  <2> HIDE DEF A
  <2> QED
    BY <1>3, StrongInduction
<1> QED
  BY <1>1, <1>4 DEF PathBy

-----------------------------------------------------------------------------
\* The label index of a list is made from the entries one by one.
LEMMA RelabelType ==
  ASSUME NEW L, NEW l \in Seq(L), NEW e, e.ref \in L
  PROVE  Relabel(l, e) \in Seq(L)
  BY WithoutType DEF Relabel

\* Setting or clearing a label repeats none.
LEMMA RelabelOnce ==
  ASSUME NEW L, NEW l \in Seq(L), NEW e, e.ref \in L, IsInjective(l)
  PROVE  IsInjective(Relabel(l, e))
<1>1. CASE e.kind = "label" /\ ~Contains(l, e.ref)
  <2>1. e.ref \notin Range(l)
    <3>1. DOMAIN l = 1 .. Len(l)
      OBVIOUS
    <3> QED
      BY <1>1, <3>1 DEF Contains, Range
  <2>2. Relabel(l, e) = Append(l, e.ref)
    BY <1>1 DEF Relabel
  <2> QED
    BY <2>1, <2>2, RangeAppend
<1>2. CASE e.kind = "unlabel"
  <2>1. Relabel(l, e) = Without(l, {e.ref})
    BY <1>2 DEF Relabel
  <2> QED
    BY <2>1, WithoutKeeps
<1>3. CASE e.kind \notin LabelKinds \/ (e.kind = "label" /\ Contains(l, e.ref))
  <2>1. Relabel(l, e) = l
    BY <1>3 DEF Relabel, LabelKinds
  <2> QED
    BY <2>1
<1> QED
  BY <1>1, <1>2, <1>3 DEF LabelKinds

\* The function by which LabelsOf is defined.
LabelsFun(s, f) == f = [n \in 0 .. Len(s) |-> IF n = 0 THEN <<>> ELSE Relabel(f[n - 1], s[n])]

\* What it is at every prefix of the list.
LabelsBy(s, f) ==
  /\ LabelsOf(s) = f[Len(s)]
  /\ f[0] = <<>>
  /\ \A n \in 1 .. Len(s) : f[n] = Relabel(f[n - 1], s[n])

\* LabelsOf is computed by such a function.
LEMMA LabelsIs ==
  ASSUME NEW S, NEW L, \A e \in S : e.ref \in L, NEW s \in Seq(S)
  PROVE  \E f \in [0 .. Len(s) -> Seq(L)] : LabelsBy(s, f)
<1> DEFINE N == Len(s)
           p == [i \in 1 .. N |-> i - 1]
           F == [i \in 1 .. N |-> [l \in Seq(L) |-> Relabel(l, s[i])]]
<1>0. N \in Nat /\ \A i \in 1 .. N : s[i] \in S
  OBVIOUS
<1>1. F \in [1 .. N -> [Seq(L) -> Seq(L)]]
  BY <1>0, RelabelType
<1>2. p \in [1 .. N -> Nat] /\ (\A i \in 1 .. N : p[i] = i - 1) /\ (\A i \in 1 .. N : p[i] < i)
  BY <1>0
<1>3. \A l \in Seq(L) : \A i \in 1 .. N : F[i][l] = Relabel(l, s[i])
  OBVIOUS
<1>4. 1 .. N \in SUBSET (0 .. N) /\ <<>> \in Seq(L)
  BY <1>0
<1> HIDE DEF p, F, N
<1>5. PICK g \in [Nat -> Seq(L)] : Recursive(g, 1 .. N, p, F, <<>>)
  BY <1>0, <1>1, <1>2, <1>4, Recursion
<1> DEFINE f == [n \in 0 .. N |-> g[n]]
<1>6. ASSUME NEW n \in 0 .. N
      PROVE  f[n] = IF n = 0 THEN <<>> ELSE Relabel(f[n - 1], s[n])
  <2>1. g[n] = IF n \in 1 .. N THEN F[n][g[p[n]]] ELSE <<>>
    BY <1>0, <1>5 DEF Recursive
  <2>2. CASE n = 0
    BY <1>0, <2>1, <2>2
  <2>3. CASE n # 0
    <3>1. n \in 1 .. N /\ n - 1 \in Nat /\ n - 1 \in 0 .. N /\ p[n] = n - 1
      BY <1>0, <1>2, <2>3
    <3>2. g[n] = Relabel(g[n - 1], s[n])
      BY <1>3, <2>1, <3>1
    <3> QED
      BY <2>3, <3>1, <3>2
  <2> QED
    BY <2>2, <2>3
<1>7. LabelsFun(s, f)
  BY <1>6 DEF LabelsFun, N
<1> HIDE DEF f
<1> DEFINE c == CHOOSE h : LabelsFun(s, h)
<1>8. LabelsFun(s, c) /\ LabelsOf(s) = c[Len(s)]
  BY <1>7 DEF LabelsOf, LabelsFun
<1> HIDE DEF c
<1>9. \A n \in 0 .. N : c[n] = IF n = 0 THEN <<>> ELSE Relabel(c[n - 1], s[n])
  BY <1>8 DEF LabelsFun, N
<1>10. c[0] = <<>>
  BY <1>0, <1>9
<1>11. ASSUME NEW n \in 1 .. N PROVE c[n] = Relabel(c[n - 1], s[n])
  <2>1. n \in 0 .. N /\ n # 0
    BY <1>0
  <2> QED
    BY <1>9, <2>1
<1> DEFINE A == {n \in Nat : n \in 0 .. N => c[n] \in Seq(L)}
<1>12. ASSUME NEW n \in Nat, \A m \in Nat : m < n => m \in A PROVE n \in A
  <2>1. SUFFICES ASSUME n \in 0 .. N PROVE c[n] \in Seq(L)
    OBVIOUS
  <2>2. CASE n = 0
    BY <1>4, <1>10, <2>2
  <2>3. CASE n # 0
    <3>1. n \in 1 .. N /\ n - 1 \in Nat /\ n - 1 \in 0 .. N /\ n - 1 < n
      BY <1>0, <2>1, <2>3
    <3>2. c[n - 1] \in Seq(L)
      BY <1>12, <3>1
    <3> QED
      BY <1>0, <1>11, <3>1, <3>2, RelabelType
  <2> QED
    BY <2>2, <2>3
<1>13. \A n \in 0 .. N : c[n] \in Seq(L)
  <2>1. Nat \subseteq A
    <3> HIDE DEF A
    <3> QED
      BY <1>12, StrongInduction
  <2> QED
    BY <1>0, <2>1
<1>14. c \in [0 .. N -> Seq(L)]
  <2>1. c = [n \in 0 .. N |-> c[n]]
    BY <1>8 DEF LabelsFun, N
  <2> QED
    BY <1>13, <2>1
<1> QED
  BY <1>8, <1>10, <1>11, <1>14 DEF LabelsBy, N

\* The index holds targets of the entries.
LEMMA LabelsType ==
  ASSUME NEW S, NEW L, \A e \in S : e.ref \in L, NEW s \in Seq(S)
  PROVE  LabelsOf(s) \in Seq(L)
<1>1. PICK f \in [0 .. Len(s) -> Seq(L)] : LabelsBy(s, f)
  BY LabelsIs
<1>2. Len(s) \in 0 .. Len(s)
  OBVIOUS
<1> QED
  BY <1>1, <1>2 DEF LabelsBy

\* An entry at the end changes the index as appendLabelChange does.
LEMMA LabelsAppend ==
  ASSUME NEW S, NEW L, \A x \in S : x.ref \in L, NEW s \in Seq(S), NEW e \in S
  PROVE  LabelsOf(Append(s, e)) = Relabel(LabelsOf(s), e)
<1> DEFINE t == Append(s, e)
           N == Len(s)
<1>1. /\ N \in Nat /\ t \in Seq(S) /\ Len(t) = N + 1 /\ t[N + 1] = e
      /\ \A n \in 1 .. N : t[n] = s[n]
  OBVIOUS
<1> HIDE DEF t
<1>2. PICK f : LabelsBy(s, f)
  BY LabelsIs
<1>3. PICK g : LabelsBy(t, g)
  BY <1>1, LabelsIs
<1>4. f[0] = <<>> /\ g[0] = <<>> /\ LabelsOf(s) = f[N] /\ LabelsOf(t) = g[N + 1]
  BY <1>1, <1>2, <1>3 DEF LabelsBy
<1>5. /\ \A n \in 1 .. N : f[n] = Relabel(f[n - 1], s[n])
      /\ \A n \in 1 .. N + 1 : g[n] = Relabel(g[n - 1], t[n])
  BY <1>1, <1>2, <1>3 DEF LabelsBy
<1> DEFINE A == {n \in Nat : n \in 0 .. N => f[n] = g[n]}
<1>6. ASSUME NEW n \in Nat, \A m \in Nat : m < n => m \in A PROVE n \in A
  <2>1. SUFFICES ASSUME n \in 0 .. N PROVE f[n] = g[n]
    OBVIOUS
  <2>2. CASE n = 0
    BY <1>4, <2>2
  <2>3. CASE n # 0
    <3>1. n \in 1 .. N /\ n \in 1 .. N + 1 /\ n - 1 \in Nat /\ n - 1 \in 0 .. N /\ n - 1 < n
      BY <1>1, <2>1, <2>3
    <3>2. f[n - 1] = g[n - 1]
      BY <1>6, <3>1
    <3> QED
      BY <1>1, <1>5, <3>1, <3>2
  <2> QED
    BY <2>2, <2>3
<1>7. f[N] = g[N]
  <2>1. Nat \subseteq A
    <3> HIDE DEF A
    <3> QED
      BY <1>6, StrongInduction
  <2> QED
    BY <1>1, <2>1
<1>8. g[N + 1] = Relabel(g[N], t[N + 1])
  <2>1. N + 1 \in 1 .. N + 1 /\ (N + 1) - 1 = N
    BY <1>1
  <2> QED
    BY <1>5, <2>1
<1> QED
  BY <1>1, <1>4, <1>7, <1>8 DEF t

\* The label index of nothing is empty.
LEMMA LabelsEmpty == LabelsOf(<<>>) = <<>>
<1>1. <<>> \in Seq({}) /\ \A e \in {} : e.ref \in {}
  OBVIOUS
<1>2. PICK f : LabelsBy(<<>>, f)
  BY <1>1, LabelsIs
<1> QED
  BY <1>2 DEF LabelsBy

\* No label index has an entry twice.
LEMMA LabelsOnce ==
  ASSUME NEW S, NEW L, \A x \in S : x.ref \in L, NEW s \in Seq(S)
  PROVE  IsInjective(LabelsOf(s))
<1> DEFINE A == {t \in Seq(S) : IsInjective(LabelsOf(t))}
<1>1. <<>> \in A
  BY LabelsEmpty DEF IsInjective
<1>2. ASSUME NEW t \in A \cap Seq(S), NEW e \in S PROVE Append(t, e) \in A
  <2>1. LabelsOf(Append(t, e)) = Relabel(LabelsOf(t), e)
    BY LabelsAppend
  <2>2. LabelsOf(t) \in Seq(L) /\ e.ref \in L
    BY LabelsType
  <2> QED
    BY <2>1, <2>2, RelabelOnce
<1> HIDE DEF A
<1>3. s \in A
  BY <1>1, <1>2, SeqInduction
<1> QED
  BY <1>3 DEF A

-----------------------------------------------------------------------------
\* The kinds of entries.
Kinds == {"user", "assistant", "toolResult", "bash", "custom", "meta", "summary", "compaction"}
           \cup LabelKinds

\* The entries with an id up to n: each is younger than the entries it names.
EntriesUpTo(n) ==
  {e \in [id : 1 .. n, parent : Nat, kind : Kinds, size : Nat, ref : Nat, covers : SUBSET Nat] :
     e.parent < e.id /\ e.ref < e.id}

\* The label indices of such entries.
LabelIndex(n) == {l \in Seq(0 .. n) : IsInjective(l)}

\* Lines that are no entries.
NoEntries == {Header, Partial, Garbage, Unended}

\* The lines of a file.
LinesUpTo(n) == EntriesUpTo(n) \cup NoEntries

\* The files.
FileUpTo(n) == [exists : BOOLEAN, lines : Seq(LinesUpTo(n))]

\* The types of the state.
TypeInv ==
  /\ faults \in Nat
  /\ lastId \in Nat
  /\ session \in Sessions
  /\ flushed \in BOOLEAN
  /\ entries \in Seq(EntriesUpTo(lastId))
  /\ leaf \in 0 .. lastId
  /\ labels \in LabelIndex(lastId)
  /\ files \in [Sessions -> FileUpTo(lastId)]
  /\ \A s \in Sessions : ~files[s].exists => files[s].lines = <<>>

\* What the steps use of an entry.
LEMMA EntryFacts ==
  ASSUME NEW n \in Nat
  PROVE  /\ EntriesUpTo(n) \cap NoEntries = {}
         /\ Born(EntriesUpTo(n))
         /\ \A e \in EntriesUpTo(n) : /\ e.id \in 1 .. n /\ e.id \in Nat /\ e.id <= n
                                      /\ e.ref \in 0 .. n /\ e.ref < e.id /\ e.parent \in Nat /\ e.parent < e.id
         /\ \A m \in Nat : n <= m => EntriesUpTo(n) \subseteq EntriesUpTo(m)
<1>1. \A e \in EntriesUpTo(n) : /\ e.id \in 1 .. n /\ e.id \in Nat /\ e.id <= n
                                /\ e.ref \in 0 .. n /\ e.ref < e.id /\ e.parent \in Nat /\ e.parent < e.id
  BY DEF EntriesUpTo
<1>2. \A e \in NoEntries : e.id = 0
  BY DEF NoEntries, Header, Partial, Garbage, Unended, Entry, NoId
<1>3. EntriesUpTo(n) \cap NoEntries = {}
  <2>1. \A e \in EntriesUpTo(n) : e.id # 0
    BY <1>1
  <2> QED
    BY <1>2, <2>1
<1>4. ASSUME NEW m \in Nat, n <= m PROVE EntriesUpTo(n) \subseteq EntriesUpTo(m)
  <2>1. 1 .. n \subseteq 1 .. m
    BY <1>4
  <2> QED
    BY <2>1 DEF EntriesUpTo
<1> QED
  BY <1>1, <1>3, <1>4 DEF Born

\* The lines that are no entries differ.
LEMMA NotEntries ==
  ASSUME NEW n \in Nat
  PROVE  /\ Header \notin {Partial, Garbage, Unended} /\ Partial \notin {Garbage, Unended}
         /\ Garbage # Unended
         /\ NoEntries \subseteq LinesUpTo(n) /\ EntriesUpTo(n) \subseteq LinesUpTo(n)
         /\ EntriesUpTo(n) \cap NoEntries = {}
         /\ NoEntries = {Header, Partial, Garbage, Unended}
<1>1. /\ Header.kind = "header" /\ Partial.kind = "partial" /\ Garbage.kind = "garbage"
      /\ Unended.kind = "unended"
  BY DEF Header, Partial, Garbage, Unended, Entry
<1>2. /\ Header \notin {Partial, Garbage, Unended} /\ Partial \notin {Garbage, Unended}
      /\ Garbage # Unended
  BY <1>1
<1> QED
  BY <1>2, EntryFacts DEF LinesUpTo, NoEntries

\* Later states have more entries.
LEMMA TypesGrow ==
  ASSUME NEW n \in Nat, NEW m \in Nat, n <= m
  PROVE  /\ Seq(EntriesUpTo(n)) \subseteq Seq(EntriesUpTo(m))
         /\ LinesUpTo(n) \subseteq LinesUpTo(m)
         /\ Seq(LinesUpTo(n)) \subseteq Seq(LinesUpTo(m))
         /\ FileUpTo(n) \subseteq FileUpTo(m)
<1>1. EntriesUpTo(n) \subseteq EntriesUpTo(m)
  BY EntryFacts
<1>2. LinesUpTo(n) \subseteq LinesUpTo(m)
  BY <1>1 DEF LinesUpTo
<1> DEFINE E == EntriesUpTo(n)
           F == EntriesUpTo(m)
           L == LinesUpTo(n)
           K == LinesUpTo(m)
<1>3. Seq(E) \subseteq Seq(F) /\ Seq(L) \subseteq Seq(K)
  <2> HIDE DEF E, F, L, K
  <2>1. E \subseteq F /\ L \subseteq K
    BY <1>1, <1>2 DEF E, F, L, K
  <2> QED
    BY <2>1, SeqMonotonic
<1>4. FileUpTo(n) \subseteq FileUpTo(m)
  <2> HIDE DEF L, K
  <2>1. FileUpTo(n) = [exists : BOOLEAN, lines : Seq(L)] /\ FileUpTo(m) = [exists : BOOLEAN, lines : Seq(K)]
    BY DEF FileUpTo, L, K
  <2> QED
    BY <1>3, <2>1
<1> QED
  BY <1>2, <1>3, <1>4

\* What a file gives is a list of entries.
LEMMA LoadedType ==
  ASSUME NEW n \in Nat, NEW f \in FileUpTo(n)
  PROVE  Loaded(f) \in Seq(EntriesUpTo(n)) /\ Parsed(f.lines) \in Seq(EntriesUpTo(n) \cup {Header})
<1> DEFINE L == LinesUpTo(n)
           E == EntriesUpTo(n)
           P == Parsed(f.lines)
<1>1. f.lines \in Seq(L)
  BY DEF FileUpTo
<1>2. L \ {Partial, Garbage, Unended} = E \cup {Header} /\ (E \cup {Header}) \ {Header} = E
  BY NotEntries DEF LinesUpTo, NoEntries
<1> HIDE DEF L, E
<1>3. P \in Seq(E \cup {Header})
  <2>1. P \in Seq(L \ {Partial, Garbage, Unended})
    BY <1>1, WithoutLeaves DEF Parsed
  <2> QED
    BY <1>2, <2>1
<1>4. Without(P, {Header}) \in Seq(E)
  <2>1. Without(P, {Header}) \in Seq((E \cup {Header}) \ {Header})
    <3> HIDE DEF P
    <3> QED
      BY <1>3, WithoutLeaves
  <2> QED
    BY <1>2, <2>1
<1>5. <<>> \in Seq(E)
  OBVIOUS
<1> QED
  BY <1>3, <1>4, <1>5 DEF Loaded, L, E

\* A file that is whole gives the entries it was written with.
LEMMA LoadedWhole ==
  ASSUME NEW n \in Nat, NEW x \in Seq(EntriesUpTo(n))
  PROVE  /\ Loaded(File(<<Header>> \o x)) = x /\ IsSession(File(<<Header>> \o x))
         /\ <<Header>> \o x \in Seq(LinesUpTo(n)) /\ <<Header>> \o x # <<>>
         /\ Ended(<<Header>> \o x) = <<Header>> \o x
<1> DEFINE E == EntriesUpTo(n)
           H == <<Header>> \o x
<1>1. E \cap {Header} = {} /\ (E \cup {Header}) \cap {Partial, Garbage, Unended} = {} /\ E \cup {Header} \subseteq LinesUpTo(n)
  BY NotEntries DEF LinesUpTo, NoEntries
<1>2. x \in Seq(E)
  OBVIOUS
<1> HIDE DEF E
<1>3. H \in Seq(E \cup {Header}) /\ H # <<>> /\ H[1] = Header /\ Len(H) >= 1 /\ Len(H) \in Nat
  BY <1>2
<1>4. Parsed(H) = H
  <2> HIDE DEF H
  <2> QED
    BY <1>1, <1>3, WithoutNone DEF Parsed
<1>5. Without(H, {Header}) = x
  BY <1>1, <1>2, WithoutHead
<1>6. Ended(H) = H
  <2>1. H[Len(H)] \in E \cup {Header}
    <3> HIDE DEF H
    <3> QED
      BY <1>3
  <2> QED
    BY <1>1, <2>1 DEF Last, Ended
<1>7. H \in Seq(LinesUpTo(n))
  <2> HIDE DEF H
  <2> QED
    BY <1>1, <1>3, SeqMonotonic
<1> HIDE DEF H
<1>8. IsSession(File(H))
  BY <1>3, <1>4 DEF IsSession, File
<1> QED
  BY <1>3, <1>4, <1>5, <1>6, <1>7, <1>8 DEF Loaded, File, H

-----------------------------------------------------------------------------
\* Every entry that is appended: it is new, its parent is in the session, and
\* the label index follows it when it is stored without an error.
Appends(e) ==
  /\ e \in EntriesUpTo(lastId + 1) /\ e.id = lastId + 1
  /\ e.parent \in Ids(entries) \cup {NoId, leaf}
  /\ AppendEntry(e)
  /\ \/ Persist(Append(entries, e)) /\ labels' = Relabel(labels, e)
     \/ PersistFails(Append(entries, e)) /\ labels' = labels

\* A new entry has the next id.
LEMMA NewEntryType ==
  ASSUME TypeInv, NEW parent \in 0 .. lastId, NEW kind \in Kinds, NEW size \in Nat,
         NEW ref \in 0 .. lastId, NEW covers \in SUBSET Nat
  PROVE  /\ NewEntry(parent, kind, size, ref, covers) \in EntriesUpTo(lastId + 1)
         /\ NewEntry(parent, kind, size, ref, covers).id = lastId + 1
         /\ NewEntry(parent, kind, size, ref, covers).parent = parent
         /\ NewEntry(parent, kind, size, ref, covers).kind = kind
<1>1. lastId + 1 \in 1 .. lastId + 1 /\ parent \in Nat /\ parent < lastId + 1 /\ ref \in Nat /\ ref < lastId + 1
  BY DEF TypeInv
<1> QED
  BY <1>1 DEF NewEntry, Entry, EntriesUpTo

\* The ids of a list are those given so far.
LEMMA IdsType ==
  ASSUME NEW n \in Nat, NEW s \in Seq(EntriesUpTo(n))
  PROVE  Ids(s) \subseteq 1 .. n
<1>1. \A i \in DOMAIN s : s[i] \in EntriesUpTo(n)
  OBVIOUS
<1>2. \A e \in EntriesUpTo(n) : e.id \in 1 .. n
  BY EntryFacts
<1> QED
  BY <1>1, <1>2 DEF Ids

\* The path to an entry goes from older to younger entries.
LEMMA PathType ==
  ASSUME NEW n \in Nat, NEW s \in Seq(EntriesUpTo(n)), NEW id \in Nat
  PROVE  PathTo(s, id) \in Seq(EntriesUpTo(n)) /\ Ascending(PathTo(s, id))
<1>1. Born(EntriesUpTo(n)) /\ \A e \in EntriesUpTo(n) : e.id <= n
  BY EntryFacts
<1> QED
  BY <1>1, PathAscends

\* The steps that append an entry, and the others.
LEMMA NextCases ==
  ASSUME TypeInv, Next
  PROVE  \/ \E e : Appends(e)
         \/ Branch \/ ResetLeaf \/ NewSession \/ SetSessionFile \/ Fork \/ ForkFrom
<1>1. Ids(entries) \subseteq 0 .. lastId /\ leaf \in 0 .. lastId /\ NoId \in 0 .. lastId /\ {} \in SUBSET Nat
  <2>1. Ids(entries) \subseteq 1 .. lastId
    BY IdsType DEF TypeInv
  <2> QED
    BY <2>1 DEF TypeInv, NoId
<1>2. ASSUME NEW parent \in Ids(entries) \cup {NoId, leaf}, NEW kind \in Kinds \ LabelKinds, NEW size \in Nat,
             NEW ref \in 0 .. lastId, NEW e, e = NewEntry(parent, kind, size, ref, {}),
             Saved(e) \/ Unsaved(e), UNCHANGED labels
      PROVE  Appends(e)
  <2>1. parent \in 0 .. lastId
    BY <1>1
  <2>2. e \in EntriesUpTo(lastId + 1) /\ e.id = lastId + 1 /\ e.parent = parent /\ e.kind = kind
    BY <1>1, <1>2, <2>1, NewEntryType
  <2>3. Relabel(labels, e) = labels
    BY <2>2 DEF Relabel, LabelKinds
  <2> QED
    BY <1>2, <2>2, <2>3 DEF Appends, Saved, Unsaved
<1>3. CASE AppendInput
  <2>1. PICK in \in Inputs : AppendMessage(in[1], in[2])
    BY <1>3 DEF AppendInput
  <2>2. in[1] \in Kinds \ LabelKinds /\ in[2] \in Nat
    BY BoundsAssumption DEF Kinds, LabelKinds
  <2> QED
    BY <1>1, <1>2, <2>1, <2>2 DEF AppendMessage
<1>4. CASE AppendLabelChange
  <2>1. PICK target \in Ids(entries), kind \in LabelKinds :
           LET e == NewEntry(leaf, kind, 0, target, {})
           IN  \/ Saved(e) /\ labels' = Relabel(labels, e)
               \/ Unsaved(e) /\ UNCHANGED labels
    BY <1>4 DEF AppendLabelChange
  <2>2. target \in 0 .. lastId /\ kind \in Kinds /\ 0 \in Nat
    BY <1>1 DEF Kinds
  <2> DEFINE e == NewEntry(leaf, kind, 0, target, {})
  <2>3. e \in EntriesUpTo(lastId + 1) /\ e.id = lastId + 1 /\ e.parent = leaf
    BY <1>1, <2>2, NewEntryType
  <2>4. Appends(e)
    BY <2>1, <2>3 DEF Appends, Saved, Unsaved
  <2> QED
    BY <2>4
<1>5. CASE AppendCompaction
  <2>1. PICK first \in Ids(PathTo(entries, leaf)) : AppendSummary(first, {})
    BY <1>5 DEF AppendCompaction
  <2>2. first \in 0 .. lastId
    <3>1. PathTo(entries, leaf) \in Seq(EntriesUpTo(lastId))
      BY <1>1, PathType DEF TypeInv
    <3>2. Ids(PathTo(entries, leaf)) \subseteq 1 .. lastId
      BY <3>1, IdsType DEF TypeInv
    <3> QED
      BY <3>2
  <2>3. "compaction" \in Kinds \ LabelKinds /\ 1 \in Nat
    BY DEF Kinds, LabelKinds
  <2> QED
    BY <1>2, <2>1, <2>2, <2>3 DEF AppendSummary
<1>6. CASE BranchWithSummary
  <2>1. PICK from \in Ids(entries) \cup {NoId} : SummarizeFrom(from)
    BY <1>6 DEF BranchWithSummary
  <2>2. "summary" \in Kinds \ LabelKinds /\ 1 \in Nat
    BY DEF Kinds, LabelKinds
  <2> QED
    BY <1>1, <1>2, <2>1, <2>2 DEF SummarizeFrom
<1> QED
  BY <1>3, <1>4, <1>5, <1>6 DEF Next

-----------------------------------------------------------------------------
\* The last element of a sequence and the others.
LEMMA FrontFacts ==
  ASSUME NEW S, NEW s \in Seq(S)
  PROVE  /\ Front(s) \in Seq(S)
         /\ \A e \in S : Append(s, e) # <<>> /\ Front(Append(s, e)) = s /\ Last(Append(s, e)) = e
<1>1. Front(s) \in Seq(S)
  BY DEF Front
<1>2. ASSUME NEW e \in S
      PROVE  Append(s, e) # <<>> /\ Front(Append(s, e)) = s /\ Last(Append(s, e)) = e
  <2>1. /\ Append(s, e) \in Seq(S) /\ Len(Append(s, e)) = Len(s) + 1 /\ Len(s) \in Nat
        /\ Append(s, e)[Len(s) + 1] = e
        /\ SubSeq(Append(s, e), 1, Len(s)) = s
    OBVIOUS
  <2> QED
    BY <2>1 DEF Front, Last
<1> QED
  BY <1>1, <1>2

\* The lines a write works on, and what it leaves of them.
LEMMA EndedWrites ==
  ASSUME NEW n \in Nat, NEW lines \in Seq(LinesUpTo(n)), NEW e \in EntriesUpTo(n)
  PROVE  /\ Ended(lines) \in Seq(LinesUpTo(n))
         /\ \E x \in {e, Garbage} : /\ AppendLine(lines, e) = Append(Ended(lines), x)
                                    /\ Ended(AppendLine(lines, e)) = Append(Ended(lines), x)
         /\ \A l \in CutShort(lines, e) : l \in Seq(LinesUpTo(n)) /\ Ended(l) = Ended(lines)
<1> DEFINE L == LinesUpTo(n)
           base == Ended(lines)
<1>1. /\ lines \in Seq(L) /\ e \in L /\ Partial \in L /\ Garbage \in L /\ Unended \in L
      /\ e \notin {Partial, Unended} /\ Garbage \notin {Partial, Unended} /\ Partial # Unended
  BY NotEntries
<1> HIDE DEF L
<1>2. base \in Seq(L)
  <2>1. Front(lines) \in Seq(L)
    BY <1>1, FrontFacts
  <2>2. Front(Front(lines)) \in Seq(L)
    BY <2>1, FrontFacts
  <2> QED
    BY <1>1, <2>1, <2>2 DEF Ended
<1>4. AppendLine(lines, e) = Append(base, e) \/ AppendLine(lines, e) = Append(base, Garbage)
  BY DEF AppendLine
<1> HIDE DEF base
<1>5. ASSUME NEW x \in {e, Garbage} PROVE Ended(Append(base, x)) = Append(base, x)
  <2>1. x \in L /\ x \notin {Partial, Unended}
    BY <1>1
  <2>2. Last(Append(base, x)) = x
    BY <1>2, <2>1, FrontFacts
  <2> QED
    BY <2>1, <2>2 DEF Ended
<1>6. Append(base, Partial) \in Seq(L) /\ Ended(Append(base, Partial)) = base
  <2>1. Append(base, Partial) \in Seq(L)
    BY <1>1, <1>2
  <2>2. Append(base, Partial) # <<>> /\ Front(Append(base, Partial)) = base /\ Last(Append(base, Partial)) = Partial
    BY <1>1, <1>2, FrontFacts
  <2> QED
    BY <1>1, <2>1, <2>2 DEF Ended
<1>7. base \o <<e, Unended>> \in Seq(L) /\ Ended(base \o <<e, Unended>>) = base
  <2>0. Append(base, e) \in Seq(L)
    BY <1>1, <1>2
  <2>1. PICK one \in Seq(L) : one = Append(base, e)
    BY <2>0
  <2>2. base \o <<e, Unended>> = Append(one, Unended)
    BY <1>1, <1>2, <2>1
  <2>3. Append(one, Unended) \in Seq(L)
    BY <1>1
  <2>4. Append(one, Unended) # <<>> /\ Front(Append(one, Unended)) = one /\ Last(Append(one, Unended)) = Unended
    BY <1>1, FrontFacts
  <2>5. Front(one) = base
    BY <1>1, <1>2, <2>1, FrontFacts
  <2> QED
    BY <1>1, <2>2, <2>3, <2>4, <2>5 DEF Ended
<1>8. \A l \in CutShort(lines, e) : l = Append(base, Partial) \/ l = base \o <<e, Unended>>
  BY DEF CutShort, base
<1> QED
  BY <1>2, <1>4, <1>5, <1>6, <1>7, <1>8 DEF L, base

\* What is written keeps the types.
LEMMA AppendLineType ==
  ASSUME NEW n \in Nat, NEW lines \in Seq(LinesUpTo(n)), NEW e \in EntriesUpTo(n)
  PROVE  AppendLine(lines, e) \in Seq(LinesUpTo(n))
<1> DEFINE L == LinesUpTo(n)
           base == Ended(lines)
<1>1. base \in Seq(L) /\ \E x \in {e, Garbage} : AppendLine(lines, e) = Append(base, x)
  BY EndedWrites
<1>2. e \in L /\ Garbage \in L
  BY NotEntries
<1> HIDE DEF L, base
<1>3. AppendLine(lines, e) \in Seq(L)
  BY <1>1, <1>2
<1> QED
  BY <1>3 DEF L

\* What a failed write leaves is lines.
LEMMA RemainsType ==
  ASSUME NEW n \in Nat, NEW new \in Seq(LinesUpTo(n)), NEW lines \in Remains(new)
  PROVE  lines \in Seq(LinesUpTo(n))
<1> DEFINE L == LinesUpTo(n)
<1>1. new \in Seq(L) /\ Partial \in L /\ Unended \in L
  BY NotEntries
<1> HIDE DEF L
<1>2. \A i \in 0 .. Len(new) : SubSeq(new, 1, i) \in Seq(L)
  BY <1>1
<1>3. PICK i \in 0 .. Len(new) : \/ lines = SubSeq(new, 1, i)
                                 \/ \E x \in {Partial, Unended} : lines = Append(SubSeq(new, 1, i), x)
  <2>1. 0 .. Len(new) - 1 \subseteq 0 .. Len(new) /\ 1 .. Len(new) \subseteq 0 .. Len(new)
    BY <1>1
  <2> QED
    BY <2>1 DEF Remains
<1>4. lines \in Seq(L)
  <2>1. PICK u \in Seq(L) : u = SubSeq(new, 1, i)
    BY <1>2
  <2>2. \A x \in {Partial, Unended} : Append(u, x) \in Seq(L)
    BY <1>1, <2>1
  <2> QED
    BY <1>3, <2>1, <2>2
<1> QED
  BY <1>4 DEF L

\* Storing lines keeps the files typed.
LEMMA StoreType ==
  ASSUME TypeInv, NEW n \in Nat, lastId <= n, NEW s \in Sessions, NEW lines \in Seq(LinesUpTo(n)),
         Store(s, lines)
  PROVE  /\ files' \in [Sessions -> FileUpTo(n)]
         /\ \A t \in Sessions : ~files'[t].exists => files'[t].lines = <<>>
<1>1. FileUpTo(lastId) \subseteq FileUpTo(n)
  BY TypesGrow DEF TypeInv
<1>2. File(lines) \in FileUpTo(n)
  BY DEF File, FileUpTo
<1>3. files' = [files EXCEPT ![s] = File(lines)] /\ files \in [Sessions -> FileUpTo(lastId)]
  BY DEF Store, TypeInv
<1>4. files' \in [Sessions -> FileUpTo(n)]
  <2> HIDE DEF File
  <2> QED
    BY <1>1, <1>2, <1>3
<1>5. \A t \in Sessions : files'[t] = File(lines) \/ files'[t] = files[t]
  BY <1>3
<1> QED
  BY <1>4, <1>5 DEF File, TypeInv

-----------------------------------------------------------------------------
\* The entries of a fork.  What an ascending list without its labels is chained
\* to is the list itself, in the same order.
Tree(s) == Ascending(s) /\ \A i \in DOMAIN s : s[i].parent \in Ids(s) \cup {NoId}

\* A tree without branches.
Chain(s) ==
  Ascending(s) /\ \A i \in DOMAIN s : s[i].parent = IF i = 1 THEN NoId ELSE s[i - 1].id

LEMMA ChainIsTree ==
  ASSUME NEW S, NEW s \in Seq(S), Chain(s)
  PROVE  Tree(s)
<1>1. \A i \in DOMAIN s : i # 1 => i - 1 \in DOMAIN s
  OBVIOUS
<1> QED
  BY <1>1 DEF Chain, Tree, Ids

\* Entries that differ in their parents only, as far as a context shows.
Same(x, y) == x.id = y.id /\ x.kind = y.kind /\ x.ref = y.ref

\* The copied entries of a path are a chain (createBranchedSession), and but for
\* the labels they are those of the path.
LEMMA RechainedIs ==
  ASSUME NEW n \in Nat, NEW path \in Seq(EntriesUpTo(n)), Ascending(path)
  PROVE  /\ Rechained(path) \in Seq(EntriesUpTo(n)) /\ Chain(Rechained(path))
         /\ \A e \in Range(path) :
              e.kind \notin LabelKinds => \E x \in Range(Rechained(path)) : Same(x, e)
         /\ \A x \in Range(Rechained(path)) :
              x.kind \notin LabelKinds /\ \E e \in Range(path) : Same(x, e)
<1> DEFINE E == EntriesUpTo(n)
           kept == Without(path, LabelsAmong(path))
           parent(i) == IF i = 1 THEN NoId ELSE kept[i - 1].id
           new == Rechained(path)
<1>1. path \in Seq(E) /\ \A e \in E : e.id \in Nat /\ e.id \in 1 .. n
  BY EntryFacts
<1>2. kept \in Seq(E) /\ Ascending(kept) /\ Range(kept) = Range(path) \ LabelsAmong(path)
  <2> HIDE DEF E
  <2> QED
    BY <1>1, WithoutType, WithoutAscends, WithoutKeeps
<1>3. new = [i \in DOMAIN kept |-> [kept[i] EXCEPT !.parent = parent(i)]]
  BY DEF Rechained
<1> HIDE DEF kept, new
<1>4. DOMAIN kept = 1 .. Len(kept) /\ Len(kept) \in Nat /\ \A i \in 1 .. Len(kept) : kept[i] \in E
  BY <1>2
<1>5. ASSUME NEW i \in DOMAIN kept
      PROVE  parent(i) \in Nat /\ parent(i) < kept[i].id
  <2>1. kept[i].id \in Nat /\ 0 < kept[i].id
    BY <1>1, <1>4
  <2>2. CASE i = 1
    BY <2>1, <2>2 DEF NoId
  <2>3. CASE i # 1
    <3>1. i - 1 \in DOMAIN kept /\ i - 1 < i
      BY <1>4, <2>3
    <3>2. kept[i - 1].id < kept[i].id /\ kept[i - 1].id \in Nat
      BY <1>1, <1>2, <1>4, <3>1 DEF Ascending
    <3> QED
      BY <2>3, <3>2
  <2> QED
    BY <2>2, <2>3
<1> HIDE DEF parent
<1>6. ASSUME NEW i \in DOMAIN kept
      PROVE  new[i] \in E /\ Same(new[i], kept[i]) /\ new[i].parent = parent(i)
  <2>1. kept[i] \in E /\ new[i] = [kept[i] EXCEPT !.parent = parent(i)]
    BY <1>3, <1>4
  <2> QED
    BY <1>5, <2>1 DEF EntriesUpTo, Same
<1>7. DOMAIN new = 1 .. Len(kept) /\ new \in Seq(E)
  <2> HIDE DEF E
  <2>1. DOMAIN new = 1 .. Len(kept)
    BY <1>3, <1>4
  <2>2. new \in [1 .. Len(kept) -> E]
    BY <1>3, <1>4, <1>6, <2>1
  <2> QED
    BY <1>4, <2>1, <2>2, SeqDef
<1>8. Ascending(new)
  BY <1>2, <1>4, <1>6, <1>7 DEF Ascending, Same
<1>9. ASSUME NEW i \in DOMAIN new PROVE new[i].parent = IF i = 1 THEN NoId ELSE new[i - 1].id
  <2>1. i # 1 => i - 1 \in DOMAIN kept
    BY <1>4, <1>7
  <2> QED
    BY <1>4, <1>6, <1>7, <2>1 DEF Same, parent
<1>10. Range(kept) = {kept[i] : i \in DOMAIN kept} /\ Range(new) = {new[i] : i \in DOMAIN kept}
  BY <1>4, <1>7 DEF Range
<1>11. ASSUME NEW e \in Range(path), e.kind \notin LabelKinds
       PROVE  \E x \in Range(new) : Same(x, e)
  <2>1. e \in Range(kept)
    BY <1>2, <1>11 DEF LabelsAmong
  <2> QED
    BY <1>6, <1>10, <2>1
<1>12. ASSUME NEW x \in Range(new)
       PROVE  x.kind \notin LabelKinds /\ \E e \in Range(path) : Same(x, e)
  <2>1. PICK e \in Range(kept) : Same(x, e)
    BY <1>6, <1>10
  <2>2. e \in Range(path) /\ e.kind \notin LabelKinds
    BY <1>2, <2>1 DEF LabelsAmong
  <2> QED
    BY <2>1, <2>2 DEF Same
<1> QED
  BY <1>7, <1>8, <1>9, <1>11, <1>12 DEF Chain, new

\* The labels that are kept, each of which becomes an entry.
Targets(kept) == Without(labels, Range(labels) \ Ids(kept))

\* Those entries have the next ids, and each is the child of the one before.
LEMMA LabelEntriesAre ==
  ASSUME TypeInv, NEW kept \in Seq(EntriesUpTo(lastId))
  PROVE  /\ Targets(kept) \in Seq(0 .. lastId) /\ IsInjective(Targets(kept))
         /\ Len(Targets(kept)) \in Nat
         /\ LabelEntries(kept) \in Seq(EntriesUpTo(lastId + Len(Targets(kept))))
         /\ Len(LabelEntries(kept)) = Len(Targets(kept))
         /\ \A j \in 1 .. Len(Targets(kept)) :
              /\ LabelEntries(kept)[j].id = lastId + j
              /\ LabelEntries(kept)[j].kind = "label"
              /\ LabelEntries(kept)[j].ref = Targets(kept)[j]
              /\ LabelEntries(kept)[j].parent =
                   IF j > 1 THEN lastId + j - 1 ELSE IF kept = <<>> THEN NoId ELSE kept[Len(kept)].id
<1> DEFINE targets == Targets(kept)
           last == IF kept = <<>> THEN NoId ELSE Last(kept).id
           new == LabelEntries(kept)
           K == Len(targets)
           m == lastId + K
           parent(j) == IF j = 1 THEN last ELSE lastId + j - 1
<1>1. targets \in Seq(0 .. lastId) /\ IsInjective(targets)
  BY WithoutType, WithoutKeeps DEF TypeInv, LabelIndex, Targets
<1>2. new = [j \in DOMAIN targets |-> Entry(lastId + j, parent(j), "label", 0, targets[j], {})]
  BY DEF LabelEntries, Targets
<1> HIDE DEF targets, new
<1>3. K \in Nat /\ DOMAIN targets = 1 .. K /\ \A j \in 1 .. K : targets[j] \in 0 .. lastId
  <2> DEFINE L == 0 .. lastId
  <2>1. targets \in Seq(L)
    BY <1>1
  <2> HIDE DEF L
  <2>2. K \in Nat /\ DOMAIN targets = 1 .. K /\ \A j \in 1 .. K : targets[j] \in L
    BY <2>1
  <2> QED
    BY <2>2 DEF L
<1>4. lastId \in Nat /\ m \in Nat
  BY <1>3 DEF TypeInv
<1>5. last \in 0 .. lastId /\ last = IF kept = <<>> THEN NoId ELSE kept[Len(kept)].id
  <2>1. kept # <<>> => kept[Len(kept)] \in EntriesUpTo(lastId)
    OBVIOUS
  <2>2. kept # <<>> => kept[Len(kept)].id \in 1 .. lastId
    BY <1>4, <2>1, EntryFacts
  <2> QED
    BY <1>4, <2>2 DEF Last, NoId
<1> HIDE DEF last
<1>6. ASSUME NEW j \in 1 .. K
      PROVE  /\ new[j] \in EntriesUpTo(m) /\ new[j].id = lastId + j
             /\ new[j].kind = "label" /\ new[j].ref = targets[j] /\ new[j].parent = parent(j)
  <2>1. new[j] = Entry(lastId + j, parent(j), "label", 0, targets[j], {})
    BY <1>2, <1>3
  <2>2. lastId + j \in 1 .. m /\ parent(j) \in Nat /\ parent(j) < lastId + j
    BY <1>3, <1>4, <1>5
  <2>3. "label" \in Kinds /\ 0 \in Nat /\ {} \in SUBSET Nat /\ targets[j] \in Nat /\ targets[j] < lastId + j
    <3>1. targets[j] \in 0 .. lastId
      BY <1>3
    <3> QED
      BY <1>4, <3>1 DEF Kinds, LabelKinds
  <2> HIDE DEF parent, m
  <2> QED
    BY <2>1, <2>2, <2>3 DEF Entry, EntriesUpTo
<1>7. new \in Seq(EntriesUpTo(m)) /\ Len(new) = K
  <2> DEFINE E == EntriesUpTo(m)
  <2>0. \A j \in 1 .. K : new[j] \in E
    BY <1>6
  <2> HIDE DEF E
  <2>1. new \in [1 .. K -> E]
    BY <1>2, <1>3, <2>0
  <2>2. new \in Seq(E)
    BY <1>3, <2>1, SeqDef
  <2> QED
    BY <1>3, <2>1, <2>2 DEF E
<1>8. \A j \in 1 .. K : parent(j) = IF j > 1 THEN lastId + j - 1 ELSE last
  BY <1>3
<1> HIDE DEF parent
<1> QED
  BY <1>1, <1>3, <1>5, <1>6, <1>7, <1>8 DEF new, targets

\* The whole fork: the labels come after, with new ids.
LEMMA ForkIs ==
  ASSUME TypeInv, NEW kept \in Seq(EntriesUpTo(lastId)), Chain(kept)
  PROVE  /\ Len(LabelEntries(kept)) \in Nat
         /\ kept \o LabelEntries(kept) \in Seq(EntriesUpTo(lastId + Len(LabelEntries(kept))))
         /\ Chain(kept \o LabelEntries(kept))
<1> DEFINE new == LabelEntries(kept)
           K == Len(Targets(kept))
           N == Len(kept)
           m == lastId + K
           all == kept \o new
<1>3. K \in Nat /\ new \in Seq(EntriesUpTo(m)) /\ Len(new) = K
      /\ \A j \in 1 .. K : /\ new[j].id = lastId + j
                           /\ new[j].parent = IF j > 1 THEN lastId + j - 1
                                              ELSE IF kept = <<>> THEN NoId ELSE kept[N].id
  BY LabelEntriesAre
<1> HIDE DEF new, K
<1>4. /\ N \in Nat /\ DOMAIN kept = 1 .. N /\ lastId \in Nat /\ m \in Nat /\ (kept = <<>> <=> N = 0)
      /\ \A i \in 1 .. N : kept[i] \in EntriesUpTo(lastId)
  BY <1>3 DEF TypeInv
<1>8. kept \in Seq(EntriesUpTo(m))
  BY <1>3, <1>4, TypesGrow
<1>9. all \in Seq(EntriesUpTo(m)) /\ Len(all) = N + K /\ DOMAIN all = 1 .. N + K
      /\ (\A i \in 1 .. N : all[i] = kept[i]) /\ (\A j \in 1 .. K : all[N + j] = new[j])
  <2> DEFINE E == EntriesUpTo(m)
  <2>0. kept \in Seq(E) /\ new \in Seq(E)
    BY <1>3, <1>8
  <2> HIDE DEF E
  <2>1. all \in Seq(E) /\ Len(all) = Len(kept) + Len(new)
    BY <2>0
  <2>2. \A i \in 1 .. Len(kept) : all[i] = kept[i]
    BY <2>0
  <2>3. \A j \in 1 .. Len(new) : all[Len(kept) + j] = new[j]
    BY <2>0
  <2>4. DOMAIN all = 1 .. Len(all)
    BY <2>1
  <2> QED
    BY <1>3, <2>1, <2>2, <2>3, <2>4 DEF E
<1> HIDE DEF all
<1>10. \A i \in 1 .. N + K : \/ i \in 1 .. N /\ all[i] = kept[i] /\ kept[i].id \in 1 .. lastId
                             \/ i - N \in 1 .. K /\ i \notin 1 .. N /\ all[i] = new[i - N]
                                /\ all[i].id = lastId + (i - N)
  <2>1. \A i \in 1 .. N : kept[i].id \in 1 .. lastId
    BY <1>4, EntryFacts
  <2>2. ASSUME NEW i \in 1 .. N + K, i \notin 1 .. N
        PROVE i - N \in 1 .. K /\ all[i] = new[i - N] /\ all[i].id = lastId + (i - N)
    <3>1. i - N \in 1 .. K /\ N + (i - N) = i
      BY <1>3, <1>4, <2>2
    <3> QED
      BY <1>3, <1>9, <3>1
  <2> QED
    BY <1>9, <2>1, <2>2
<1>11. Ascending(all)
  <2> SUFFICES ASSUME NEW i \in 1 .. N + K, NEW j \in 1 .. N + K, i < j PROVE all[i].id < all[j].id
    BY <1>9 DEF Ascending
  <2>1. CASE j \in 1 .. N
    <3>1. i \in 1 .. N /\ kept[i].id < kept[j].id
      BY <1>4, <2>1 DEF Chain, Ascending
    <3> QED
      BY <1>9, <2>1, <3>1
  <2>2. CASE j \notin 1 .. N /\ i \in 1 .. N
    <3>1. all[i].id \in 1 .. lastId /\ all[j].id = lastId + (j - N) /\ j - N \in 1 .. K
      BY <1>10, <1>4, <2>2
    <3> QED
      BY <1>4, <3>1
  <2>3. CASE i \notin 1 .. N
    <3>1. j \notin 1 .. N
      BY <1>4, <2>3
    <3>2. all[i].id = lastId + (i - N) /\ all[j].id = lastId + (j - N)
      BY <1>10, <2>3, <3>1
    <3> QED
      BY <1>4, <3>2
  <2> QED
    BY <2>1, <2>2, <2>3
<1>12. ASSUME NEW i \in 1 .. N + K PROVE all[i].parent = IF i = 1 THEN NoId ELSE all[i - 1].id
  <2>1. CASE i \in 1 .. N
    <3>1. kept[i].parent = IF i = 1 THEN NoId ELSE kept[i - 1].id
      BY <1>4, <2>1 DEF Chain
    <3>2. i # 1 => i - 1 \in 1 .. N
      BY <1>4, <2>1
    <3> QED
      BY <1>9, <2>1, <3>1, <3>2
  <2>2. CASE i \notin 1 .. N
    <3>1. i - N \in 1 .. K /\ all[i] = new[i - N]
      BY <1>10, <2>2
    <3>2. CASE i - N = 1
      <4>1. all[i].parent = IF kept = <<>> THEN NoId ELSE kept[N].id
        BY <1>3, <3>1, <3>2
      <4>2. i - 1 = N /\ (i = 1 <=> N = 0) /\ (i # 1 => N \in 1 .. N)
        BY <1>4, <3>2
      <4> QED
        BY <1>4, <1>9, <4>1, <4>2
    <3>3. CASE i - N # 1
      <4>1. i # 1 /\ i - 1 \in 1 .. N + K /\ i - 1 \notin 1 .. N /\ (i - 1) - N = (i - N) - 1 /\ i - N \in Nat /\ i - N > 1
        BY <1>3, <1>4, <2>2, <3>1, <3>3
      <4>2. all[i - 1].id = lastId + ((i - N) - 1)
        BY <1>10, <4>1
      <4>3. all[i].parent = lastId + (i - N) - 1
        BY <1>3, <3>1, <4>1
      <4> QED
        BY <1>4, <4>1, <4>2, <4>3
    <3> QED
      BY <3>2, <3>3
  <2> QED
    BY <2>1, <2>2
<1> QED
  BY <1>3, <1>9, <1>11, <1>12 DEF Chain, all, new

\* A new name is the name of another session, and no file has it.
LEMMA NewNameUnused ==
  ASSUME Unused # {}
  PROVE  NewName \in Sessions /\ ~files[NewName].exists /\ NewName # session
<1>1. NewName \in Unused
  BY DEF NewName
<1> QED
  BY <1>1 DEF Unused

\* The inductive invariant: the property, the types the steps rely on.
IInv ==
  /\ faults \in Nat
  /\ session \in Sessions
  /\ flushed \in BOOLEAN
  /\ DOMAIN files = Sessions
  /\ UnsavedHasNoAnswer

\* Appending an entry, whether it is saved or not, keeps the invariant
\* (_appendEntry and _persist).
LEMMA AppendKeeps ==
  ASSUME IInv, NEW e, entries' = Append(entries, e), session' = session,
         Persist(Append(entries, e)) \/ PersistFails(Append(entries, e))
  PROVE  IInv'
<1> DEFINE all == Append(entries, e)
<1> USE DEF IInv, UnsavedHasNoAnswer
<1>1. CASE Persist(all)
  <2>1. CASE flushed
    BY <1>1, <2>1 DEF Persist, Store, File
  <2>2. CASE ~flushed /\ ~HasAssistant(all)
    <3>1. UNCHANGED <<files, flushed, faults>>
      BY <1>1, <2>2 DEF Persist
    <3>2. HasAssistant(entries') = HasAssistant(all)
      OBVIOUS
    <3> QED
      BY <2>2, <3>1, <3>2
  <2>3. CASE ~flushed /\ HasAssistant(all)
    BY <1>1, <2>3 DEF Persist, Store, File
  <2> QED
    BY <2>1, <2>2, <2>3
<1>2. CASE PersistFails(all)
  <2>1. CASE flushed
    BY <1>2, <2>1 DEF PersistFails, Store, File, Fault
  <2>2. CASE ~flushed
    <3>1. HasAssistant(all)
      BY <1>2, <2>2 DEF PersistFails
    <3>2. CASE files[session].exists
      <4>1. faults # 0
        BY <2>2, <3>2
      <4>2. UNCHANGED <<files, faults, flushed>>
        BY <1>2, <2>2, <3>1, <3>2 DEF PersistFails
      <4> QED
        BY <4>1, <4>2
    <3>3. CASE ~files[session].exists
      <4>1. Fault /\ UNCHANGED flushed /\ \E lines \in Remains(<<Header>> \o all) : Store(session, lines)
        BY <1>2, <2>2, <3>1, <3>3 DEF PersistFails
      <4> QED
        BY <4>1 DEF Fault, Store
    <3> QED
      BY <3>2, <3>3
  <2> QED
    BY <2>1, <2>2
<1> QED
  BY <1>1, <1>2

\* Every step keeps the invariant.
LEMMA StepKeeps ==
  ASSUME IInv, [Next]_vars
  PROVE  IInv'
<1> USE DEF IInv
<1>0. ASSUME NEW e, Saved(e) \/ Unsaved(e)
      PROVE  IInv'
  BY <1>0, AppendKeeps DEF Saved, Unsaved, AppendEntry
<1>1. CASE AppendInput
  BY <1>0, <1>1 DEF AppendInput, AppendMessage
<1>2. CASE AppendLabelChange
  BY <1>0, <1>2 DEF AppendLabelChange
<1>3. CASE AppendCompaction
  BY <1>0, <1>3 DEF AppendCompaction, AppendSummary
<1>4. CASE Branch \/ ResetLeaf
  BY <1>4 DEF Branch, ResetLeaf, MoveLeaf, UnsavedHasNoAnswer, HasAssistant
<1>5. CASE BranchWithSummary
  BY <1>0, <1>5 DEF BranchWithSummary, SummarizeFrom
<1>6. CASE NewSession
  <2>1. session' = NewName /\ entries' = <<>> /\ UNCHANGED <<files, faults>> /\ flushed' = FALSE
    BY <1>6 DEF NewSession, Hold
  <2>2. NewName \in Sessions /\ ~files[NewName].exists
    BY <1>6, NewNameUnused DEF NewSession
  <2>3. ~HasAssistant(entries')
    BY <2>1 DEF HasAssistant
  <2> QED
    BY <2>1, <2>2, <2>3 DEF UnsavedHasNoAnswer
<1>7. CASE SetSessionFile
  <2>1. PICK s \in Sessions : /\ Hold(s, Loaded(files[s]))
                              /\ \/ UNCHANGED files
                                 \/ Store(s, <<Header>>)
    BY <1>7 DEF SetSessionFile
  <2>2. flushed' = TRUE /\ UNCHANGED faults
    BY <1>7 DEF SetSessionFile
  <2>3. session' \in Sessions /\ DOMAIN files' = Sessions
    BY <2>1 DEF Hold, Store
  <2> QED
    BY <2>2, <2>3 DEF UnsavedHasNoAnswer
<1>8. CASE Fork
  <2>1. PICK id \in Ids(entries) : CreateBranchedSession(id)
    BY <1>8 DEF Fork
  <2> DEFINE kept == Rechained(PathTo(entries, id))
             all  == kept \o LabelEntries(kept)
  <2>2. NewName \in Sessions /\ ~files[NewName].exists
    BY <2>1, NewNameUnused DEF CreateBranchedSession
  <2>3. session' = NewName /\ entries' = all
    BY <2>1 DEF CreateBranchedSession, Hold
  <2>4. CASE /\ flushed' = HasAssistant(all)
             /\ IF HasAssistant(all) THEN Store(NewName, <<Header>> \o all) ELSE UNCHANGED files
             /\ UNCHANGED faults
    <3>1. HasAssistant(entries') = HasAssistant(all)
      BY <2>3
    <3>2. HasAssistant(all) \in BOOLEAN
      BY DEF HasAssistant
    <3>3. DOMAIN files' = Sessions
      BY <2>4 DEF Store
    <3>4. ~flushed' => ~files'[session'].exists /\ ~HasAssistant(entries')
      BY <2>2, <2>3, <2>4, <3>1
    <3> QED
      BY <2>2, <2>3, <2>4, <3>2, <3>3, <3>4 DEF UnsavedHasNoAnswer, HasAssistant
  <2>5. CASE /\ HasAssistant(all) /\ Fault /\ UNCHANGED flushed
             /\ \E lines \in Remains(<<Header>> \o all) : Store(NewName, lines)
    BY <2>2, <2>3, <2>5 DEF Fault, Store, UnsavedHasNoAnswer
  <2> QED
    BY <2>1, <2>4, <2>5 DEF CreateBranchedSession
<1>9. CASE ForkFrom
  <2>1. NewName \in Sessions
    BY <1>9, NewNameUnused DEF ForkFrom
  <2>2. \/ /\ session' = NewName /\ flushed' = TRUE /\ UNCHANGED faults
           /\ \E lines : Store(NewName, lines)
        \/ Fault /\ UNCHANGED memory /\ \E lines : Store(NewName, lines)
    BY <1>9 DEF ForkFrom, Hold
  <2>3. DOMAIN files' = Sessions
    BY <2>2 DEF Store
  <2>4. CASE session' = NewName /\ flushed' = TRUE /\ UNCHANGED faults
    BY <2>1, <2>3, <2>4 DEF UnsavedHasNoAnswer
  <2>5. CASE Fault /\ UNCHANGED memory
    <3>1. faults' \in Nat /\ faults' # 0 /\ session' = session /\ flushed' = flushed
      BY <2>5 DEF Fault, memory
    <3> QED
      BY <2>3, <3>1 DEF UnsavedHasNoAnswer
  <2> QED
    BY <2>2, <2>4, <2>5
<1>10. CASE UNCHANGED vars
  BY <1>10 DEF vars, UnsavedHasNoAnswer, HasAssistant
<1> QED
  BY <1>1, <1>2, <1>3, <1>4, <1>5, <1>6, <1>7, <1>8, <1>9, <1>10 DEF Next

\* A new process has nothing saved and nothing to save.
LEMMA InitIInv == Init => IInv
<1> SUFFICES ASSUME Init PROVE IInv
  OBVIOUS
<1>1. session \in Sessions /\ faults \in Nat /\ flushed = FALSE
  BY BoundsAssumption DEF Init, Sessions
<1>2. DOMAIN files = Sessions /\ ~files[session].exists
  BY <1>1 DEF Init, Missing
<1>3. ~HasAssistant(entries)
  BY DEF Init, HasAssistant
<1> QED
  BY <1>1, <1>2, <1>3 DEF IInv, UnsavedHasNoAnswer

\* While no write has failed, a conversation with an answer is saved, and a
\* session that is not saved has no file to collide with.
THEOREM SavedFromFirstAnswer == Spec => []UnsavedHasNoAnswer
<1>1. IInv /\ [Next]_vars => IInv'
  BY StepKeeps
<1>2. IInv => UnsavedHasNoAnswer
  BY DEF IInv
<1> QED
  BY InitIInv, <1>1, <1>2, PTL DEF Spec

-----------------------------------------------------------------------------
\* What a step may do to a file: write it when it has no line yet, append a
\* line, or cut one short.
Written(s, n) ==
  \/ files'[s] = files[s]
  \/ files[s].lines = <<>>
  \/ \E e \in EntriesUpTo(n) : files'[s] = File(AppendLine(files[s].lines, e))
  \/ \E e \in EntriesUpTo(n) : \E l \in CutShort(files[s].lines, e) : files'[s] = File(l)

\* Storing a list of lines, in the terms of Written.
LEMMA StoreWrites ==
  ASSUME TypeInv, NEW n \in Nat, lastId <= n, NEW s \in Sessions, NEW lines \in Seq(LinesUpTo(n)),
         Store(s, lines),
         \/ files[s].lines = <<>>
         \/ \E e \in EntriesUpTo(n) : lines = AppendLine(files[s].lines, e)
         \/ \E e \in EntriesUpTo(n) : lines \in CutShort(files[s].lines, e)
  PROVE  /\ files' \in [Sessions -> FileUpTo(n)]
         /\ \A t \in Sessions : ~files'[t].exists => files'[t].lines = <<>>
         /\ \A t \in Sessions : Written(t, n)
<1>1. files'[s] = File(lines) /\ \A t \in Sessions : t # s => files'[t] = files[t]
  BY DEF Store, TypeInv
<1>2. \A t \in Sessions : Written(t, n)
  BY <1>1 DEF Written
<1> QED
  BY <1>2, StoreType

\* The steps that append an entry write a line at most.
LEMMA AppendTypes ==
  ASSUME TypeInv, NEW e, Appends(e)
  PROVE  TypeInv' /\ lastId' = lastId + 1 /\ \A t \in Sessions : Written(t, lastId')
<1> DEFINE n == lastId + 1
           all == Append(entries, e)
           old == files[session].lines
<1>1. n \in Nat /\ lastId <= n /\ e \in EntriesUpTo(n) /\ session \in Sessions /\ faults \in Nat
  BY DEF TypeInv, Appends
<1>2. /\ lastId' = n /\ leaf' = e.id /\ session' = session /\ entries' = all
      /\ e.id = n
  BY DEF Appends, AppendEntry
<1>3. all \in Seq(EntriesUpTo(n)) /\ Last(all) = e
  <2> DEFINE E == EntriesUpTo(n)
  <2>1. entries \in Seq(E) /\ e \in E
    BY <1>1, TypesGrow DEF TypeInv
  <2> HIDE DEF E
  <2>2. Append(entries, e) \in Seq(E) /\ Last(Append(entries, e)) = e
    BY <2>1 DEF Last
  <2> QED
    BY <2>2 DEF E
<1>4. old \in Seq(LinesUpTo(n)) /\ e \in LinesUpTo(n)
  <2>1. old \in Seq(LinesUpTo(lastId))
    BY DEF TypeInv, FileUpTo
  <2> QED
    BY <1>1, <2>1, TypesGrow DEF TypeInv, LinesUpTo
<1>5. labels' \in LabelIndex(n)
  <2>1. e.ref \in 0 .. n
    BY <1>1, EntryFacts
  <2>2. labels \in Seq(0 .. n) /\ IsInjective(labels)
    <3>1. labels \in Seq(0 .. lastId) /\ IsInjective(labels)
      BY DEF TypeInv, LabelIndex
    <3>2. 0 .. lastId \subseteq 0 .. n
      BY <1>1 DEF TypeInv
    <3> QED
      BY <3>1, <3>2, SeqMonotonic
  <2>3. Relabel(labels, e) \in Seq(0 .. n) /\ IsInjective(Relabel(labels, e))
    BY <2>1, <2>2, RelabelType, RelabelOnce
  <2>4. labels' = labels \/ labels' = Relabel(labels, e)
    BY DEF Appends
  <2> QED
    BY <2>2, <2>3, <2>4 DEF LabelIndex
<1> HIDE DEF all, n
<1>6. <<Header>> \o all \in Seq(LinesUpTo(n))
  BY <1>1, <1>3, LoadedWhole
<1>7. ASSUME UNCHANGED files
      PROVE  /\ files' \in [Sessions -> FileUpTo(n)]
             /\ \A t \in Sessions : ~files'[t].exists => files'[t].lines = <<>>
             /\ \A t \in Sessions : Written(t, n)
  <2>1. FileUpTo(lastId) \subseteq FileUpTo(n)
    BY <1>1, TypesGrow DEF TypeInv
  <2> QED
    BY <1>7, <2>1 DEF TypeInv, Written
<1>8. ASSUME ~files[session].exists, NEW lines \in Seq(LinesUpTo(n)), Store(session, lines)
      PROVE  /\ files' \in [Sessions -> FileUpTo(n)]
             /\ \A t \in Sessions : ~files'[t].exists => files'[t].lines = <<>>
             /\ \A t \in Sessions : Written(t, n)
  <2>1. old = <<>>
    BY <1>1, <1>8 DEF TypeInv
  <2> QED
    BY <1>1, <1>8, <2>1, StoreWrites
<1>9. /\ files' \in [Sessions -> FileUpTo(n)]
      /\ \A t \in Sessions : ~files'[t].exists => files'[t].lines = <<>>
      /\ \A t \in Sessions : Written(t, n)
      /\ flushed' \in BOOLEAN /\ faults' \in Nat
  <2>1. CASE Persist(all)
    <3>1. CASE flushed
      <4>1. Store(session, AppendLine(old, e)) /\ UNCHANGED <<flushed, faults>>
        BY <1>3, <2>1, <3>1 DEF Persist
      <4>2. AppendLine(old, e) \in Seq(LinesUpTo(n))
        BY <1>1, <1>4, AppendLineType
      <4> QED
        BY <1>1, <4>1, <4>2, StoreWrites DEF TypeInv
    <3>2. CASE ~flushed /\ ~HasAssistant(all)
      BY <1>7, <2>1, <3>2 DEF Persist, TypeInv
    <3>3. CASE ~flushed /\ HasAssistant(all)
      <4>1. ~files[session].exists /\ Store(session, <<Header>> \o all) /\ flushed' = TRUE /\ UNCHANGED faults
        BY <2>1, <3>3 DEF Persist
      <4> QED
        BY <1>1, <1>6, <1>8, <4>1
    <3> QED
      BY <3>1, <3>2, <3>3
  <2>2. CASE PersistFails(all)
    <3>0. flushed' = flushed /\ flushed \in BOOLEAN
      BY <2>2 DEF PersistFails, TypeInv
    <3>1. CASE flushed
      <4>1. Fault /\ (UNCHANGED files \/ \E lines \in CutShort(old, e) : Store(session, lines))
        BY <1>3, <2>2, <3>1 DEF PersistFails
      <4>2. CutShort(old, e) \subseteq Seq(LinesUpTo(n))
        BY <1>1, <1>4, EndedWrites
      <4>3. faults' \in Nat
        BY <1>1, <4>1 DEF Fault
      <4>4. CASE UNCHANGED files
        BY <1>7, <3>0, <4>3, <4>4
      <4>5. CASE \E lines \in CutShort(old, e) : Store(session, lines)
        <5>1. PICK lines \in CutShort(old, e) : Store(session, lines)
          BY <4>5
        <5>2. lines \in Seq(LinesUpTo(n))
          BY <4>2
        <5> QED
          BY <1>1, <3>0, <4>3, <5>1, <5>2, StoreWrites
      <4> QED
        BY <4>1, <4>4, <4>5
    <3>2. CASE ~flushed
      <4>0. HasAssistant(all)
        BY <2>2, <3>2 DEF PersistFails
      <4>1. \/ UNCHANGED <<files, faults>>
            \/ ~files[session].exists /\ Fault
               /\ \E lines \in Remains(<<Header>> \o all) : Store(session, lines)
        BY <2>2, <3>2, <4>0 DEF PersistFails
      <4>2. CASE UNCHANGED <<files, faults>>
        BY <1>1, <1>7, <3>0, <4>2
      <4>3. CASE ~files[session].exists /\ Fault
               /\ \E lines \in Remains(<<Header>> \o all) : Store(session, lines)
        <5>1. PICK lines \in Remains(<<Header>> \o all) : Store(session, lines)
          BY <4>3
        <5>2. lines \in Seq(LinesUpTo(n))
          BY <1>1, <1>6, RemainsType
        <5>3. faults' \in Nat
          BY <1>1, <4>3 DEF Fault
        <5> QED
          BY <1>8, <3>0, <4>3, <5>1, <5>2, <5>3
      <4> QED
        BY <4>1, <4>2, <4>3
    <3> QED
      BY <3>1, <3>2
  <2> QED
    BY <2>1, <2>2 DEF Appends, all
<1>10. TypeInv'
  <2>1. leaf' \in 0 .. lastId' /\ lastId' \in Nat /\ entries' \in Seq(EntriesUpTo(lastId')) /\ session' \in Sessions
    BY <1>1, <1>2, <1>3
  <2> QED
    BY <1>2, <1>5, <1>9, <2>1 DEF TypeInv
<1> QED
  BY <1>2, <1>9, <1>10 DEF n

\* Holding a list of entries, whether it was read or made (_buildIndex).
LEMMA HoldTypes ==
  ASSUME NEW n \in Nat, NEW list \in Seq(EntriesUpTo(n)), NEW s \in Sessions, Hold(s, list)
  PROVE  /\ session' \in Sessions /\ entries' \in Seq(EntriesUpTo(n))
         /\ leaf' \in Ids(list) \cup {NoId} /\ leaf' \in 0 .. n /\ labels' \in LabelIndex(n)
<1> DEFINE E == EntriesUpTo(n)
<1>1. list \in Seq(E) /\ (\A e \in E : e.ref \in 0 .. n /\ e.id \in 1 .. n)
  BY EntryFacts
<1> HIDE DEF E
<1>2. session' = s /\ entries' = list /\ labels' = LabelsOf(list)
      /\ leaf' = IF list = <<>> THEN NoId ELSE Last(list).id
  BY DEF Hold
<1>3. LabelsOf(list) \in LabelIndex(n)
  BY <1>1, LabelsType, LabelsOnce DEF LabelIndex
<1>4. leaf' \in Ids(list) \cup {NoId} /\ leaf' \in 0 .. n
  <2>1. CASE list = <<>>
    BY <1>2, <2>1 DEF NoId
  <2>2. CASE list # <<>>
    <3>1. Len(list) \in DOMAIN list /\ list[Len(list)] \in E
      BY <1>1, <2>2
    <3>2. leaf' = list[Len(list)].id
      BY <1>2, <2>2 DEF Last
    <3> QED
      BY <1>1, <3>1, <3>2 DEF Ids
  <2> QED
    BY <2>1, <2>2
<1> QED
  BY <1>2, <1>3, <1>4

\* Every step keeps the types, gives out new ids only, and writes a file as
\* described above.
LEMMA StepTypes ==
  ASSUME TypeInv, [Next]_vars
  PROVE  TypeInv' /\ lastId <= lastId' /\ \A t \in Sessions : Written(t, lastId')
<1>0. lastId \in Nat /\ faults \in Nat
  BY DEF TypeInv
<1>1. ASSUME NEW e, Appends(e) PROVE TypeInv' /\ lastId <= lastId' /\ \A t \in Sessions : Written(t, lastId')
  BY <1>0, <1>1, AppendTypes
<1>2. CASE Branch
  <2>1. PICK id \in Ids(entries) : MoveLeaf(id)
    BY <1>2 DEF Branch
  <2>2. id \in 0 .. lastId
    <3>1. Ids(entries) \subseteq 1 .. lastId
      BY <1>0, IdsType DEF TypeInv
    <3> QED
      BY <1>0, <3>1
  <2> QED
    BY <1>0, <2>1, <2>2 DEF MoveLeaf, TypeInv, Written
<1>3. CASE ResetLeaf
  BY <1>0, <1>3 DEF ResetLeaf, MoveLeaf, NoId, TypeInv, Written
<1>4. CASE NewSession
  <2>1. NewName \in Sessions /\ Hold(NewName, <<>>) /\ UNCHANGED <<files, lastId, faults>> /\ flushed' = FALSE
    BY <1>4, NewNameUnused DEF NewSession
  <2>2. <<>> \in Seq(EntriesUpTo(lastId))
    OBVIOUS
  <2>3. session' \in Sessions /\ entries' \in Seq(EntriesUpTo(lastId)) /\ leaf' \in 0 .. lastId /\ labels' \in LabelIndex(lastId)
    BY <1>0, <2>1, <2>2, HoldTypes
  <2> QED
    <3>1. flushed' \in BOOLEAN
      BY <2>1
    <3>2. \A t \in Sessions : Written(t, lastId')
      BY <2>1 DEF Written
    <3>3. UNCHANGED <<files, lastId, faults>>
      BY <2>1
    <3> QED
      BY <1>0, <2>3, <3>1, <3>2, <3>3 DEF TypeInv
<1>5. CASE SetSessionFile
  <2>1. PICK s \in Sessions : /\ Hold(s, Loaded(files[s]))
                              /\ IF files[s].lines = <<>> THEN Store(s, <<Header>>) ELSE UNCHANGED files
                              /\ flushed' = TRUE
                              /\ UNCHANGED <<lastId, faults>>
    BY <1>5 DEF SetSessionFile
  <2>2. Loaded(files[s]) \in Seq(EntriesUpTo(lastId))
    BY <1>0, LoadedType DEF TypeInv
  <2>3. session' \in Sessions /\ entries' \in Seq(EntriesUpTo(lastId)) /\ leaf' \in 0 .. lastId /\ labels' \in LabelIndex(lastId)
    BY <1>0, <2>1, <2>2, HoldTypes
  <2>4. /\ files' \in [Sessions -> FileUpTo(lastId)]
        /\ \A t \in Sessions : ~files'[t].exists => files'[t].lines = <<>>
        /\ \A t \in Sessions : Written(t, lastId)
    <3>1. CASE files[s].lines = <<>>
      <4>1. <<Header>> \in Seq(LinesUpTo(lastId))
        BY <1>0, NotEntries
      <4>2. Store(s, <<Header>>)
        BY <2>1, <3>1
      <4>3. lastId <= lastId
        BY <1>0
      <4> QED
        BY <1>0, <3>1, <4>1, <4>2, <4>3, StoreWrites
    <3>2. CASE files[s].lines # <<>>
      BY <2>1, <3>2 DEF TypeInv, Written
    <3> QED
      BY <3>1, <3>2
  <2> QED
    BY <1>0, <2>1, <2>3, <2>4 DEF TypeInv
<1>6. CASE Fork
  <2>1. PICK id \in Ids(entries) : CreateBranchedSession(id)
    BY <1>6 DEF Fork
  <2> DEFINE kept == Rechained(PathTo(entries, id))
             K == Len(LabelEntries(kept))
             n == lastId + K
             all  == kept \o LabelEntries(kept)
  <2>2. kept \in Seq(EntriesUpTo(lastId)) /\ Chain(kept)
    <3>1. id \in Nat
      <4>1. Ids(entries) \subseteq 1 .. lastId
        BY <1>0, IdsType DEF TypeInv
      <4> QED
        BY <4>1
    <3>2. PathTo(entries, id) \in Seq(EntriesUpTo(lastId)) /\ Ascending(PathTo(entries, id))
      BY <1>0, <3>1, PathType DEF TypeInv
    <3> QED
      BY <1>0, <3>2, RechainedIs
  <2>3. /\ NewName \in Sessions /\ ~files[NewName].exists /\ Hold(NewName, all) /\ lastId' = n
        /\ \/ /\ flushed' = HasAssistant(all)
              /\ IF HasAssistant(all) THEN Store(NewName, <<Header>> \o all) ELSE UNCHANGED files
              /\ UNCHANGED faults
           \/ /\ HasAssistant(all) /\ Fault /\ UNCHANGED flushed
              /\ \E lines \in Remains(<<Header>> \o all) : Store(NewName, lines)
    BY <2>1, NewNameUnused DEF CreateBranchedSession
  <2> HIDE DEF kept
  <2>4. K \in Nat /\ all \in Seq(EntriesUpTo(n))
    BY <2>2, ForkIs
  <2>5. n \in Nat /\ lastId <= n
    BY <1>0, <2>4
  <2> HIDE DEF all, n, K
  <2>6. <<Header>> \o all \in Seq(LinesUpTo(n))
    BY <2>4, <2>5, LoadedWhole
  <2>7. session' \in Sessions /\ entries' \in Seq(EntriesUpTo(n)) /\ leaf' \in 0 .. n /\ labels' \in LabelIndex(n)
    BY <2>3, <2>4, <2>5, HoldTypes
  <2>8. flushed' \in BOOLEAN /\ faults' \in Nat
    <3>1. HasAssistant(all) \in BOOLEAN /\ flushed \in BOOLEAN
      BY DEF HasAssistant, TypeInv
    <3>2. faults' \in Nat
      BY <1>0, <2>3 DEF Fault
    <3> QED
      BY <2>3, <3>1, <3>2
  <2>9. UNCHANGED files \/ \E lines \in Seq(LinesUpTo(n)) : Store(NewName, lines)
    <3>1. \A lines \in Remains(<<Header>> \o all) : lines \in Seq(LinesUpTo(n))
      BY <2>5, <2>6, RemainsType
    <3> QED
      BY <2>3, <2>6, <3>1
  <2>10. /\ files' \in [Sessions -> FileUpTo(n)]
         /\ \A t \in Sessions : ~files'[t].exists => files'[t].lines = <<>>
         /\ \A t \in Sessions : Written(t, n)
    <3>1. CASE UNCHANGED files
      <4>1. FileUpTo(lastId) \subseteq FileUpTo(n)
        BY <1>0, <2>5, TypesGrow
      <4> QED
        BY <3>1, <4>1 DEF TypeInv, Written
    <3>2. CASE \E lines \in Seq(LinesUpTo(n)) : Store(NewName, lines)
      <4>1. files[NewName].lines = <<>>
        BY <2>3 DEF TypeInv
      <4> QED
        BY <2>3, <2>5, <3>2, <4>1, StoreWrites
    <3> QED
      BY <2>9, <3>1, <3>2
  <2> QED
    BY <2>3, <2>5, <2>7, <2>8, <2>10 DEF TypeInv
<1>7. CASE ForkFrom
  <2>1. PICK source \in Sessions :
          LET all == <<Header>> \o Loaded(files[source])
          IN  /\ UNCHANGED lastId
              /\ \/ /\ Store(NewName, all)
                    /\ Hold(NewName, Loaded(files[source]))
                    /\ flushed' = TRUE
                    /\ UNCHANGED faults
                 \/ /\ Fault
                    /\ \E lines \in Remains(all) : Store(NewName, lines)
                    /\ UNCHANGED memory
    BY <1>7 DEF ForkFrom
  <2> DEFINE x == Loaded(files[source])
             all == <<Header>> \o x
  <2>2. NewName \in Sessions /\ ~files[NewName].exists /\ files[NewName].lines = <<>>
    <3>1. NewName \in Sessions /\ ~files[NewName].exists
      BY <1>7, NewNameUnused DEF ForkFrom
    <3> QED
      BY <3>1 DEF TypeInv
  <2>3. x \in Seq(EntriesUpTo(lastId))
    BY <1>0, LoadedType DEF TypeInv
  <2> HIDE DEF x
  <2>4. all \in Seq(LinesUpTo(lastId))
    BY <1>0, <2>3, LoadedWhole
  <2>5. \E lines \in Seq(LinesUpTo(lastId)) : Store(NewName, lines)
    <3>1. \A lines \in Remains(all) : lines \in Seq(LinesUpTo(lastId))
      BY <1>0, <2>4, RemainsType
    <3> QED
      BY <2>1, <2>4, <3>1 DEF x
  <2>6. /\ files' \in [Sessions -> FileUpTo(lastId)]
        /\ \A t \in Sessions : ~files'[t].exists => files'[t].lines = <<>>
        /\ \A t \in Sessions : Written(t, lastId)
    BY <1>0, <2>2, <2>5, StoreWrites
  <2>7. CASE Hold(NewName, x) /\ flushed' = TRUE /\ UNCHANGED faults
    <3>1. session' \in Sessions /\ entries' \in Seq(EntriesUpTo(lastId)) /\ leaf' \in 0 .. lastId /\ labels' \in LabelIndex(lastId)
      BY <1>0, <2>2, <2>3, <2>7, HoldTypes
    <3> QED
      BY <1>0, <2>1, <2>6, <2>7, <3>1 DEF TypeInv
  <2>8. CASE Fault /\ UNCHANGED memory
    BY <1>0, <2>1, <2>6, <2>8 DEF TypeInv, Fault, memory
  <2> QED
    BY <2>1, <2>7, <2>8 DEF x
<1>8. CASE UNCHANGED vars
  BY <1>0, <1>8 DEF vars, TypeInv, Written
<1> QED
  BY <1>1, <1>2, <1>3, <1>4, <1>5, <1>6, <1>7, <1>8, NextCases

\* The types hold at the start.
LEMMA InitTypes == Init => TypeInv
<1> SUFFICES ASSUME Init PROVE TypeInv
  OBVIOUS
<1>1. session \in Sessions /\ faults \in Nat /\ lastId \in Nat /\ flushed \in BOOLEAN
      /\ leaf \in 0 .. lastId /\ labels \in LabelIndex(lastId)
  <2>1. 1 \in Sessions
    <3>1. MaxSessions \in Nat \ {0}
      BY BoundsAssumption
    <3> QED
      BY <3>1 DEF Sessions
  <2>2. <<>> \in LabelIndex(0)
    <3>1. <<>> \in Seq(0 .. 0)
      OBVIOUS
    <3> QED
      BY <3>1 DEF LabelIndex, IsInjective
  <2>3. flushed \in BOOLEAN
    BY DEF Init
  <2>4. session = 1 /\ faults = 0 /\ lastId = 0 /\ leaf = 0 /\ labels = <<>>
    BY DEF Init, NoId
  <2> QED
    BY <2>1, <2>2, <2>3, <2>4
<1>2. entries \in Seq(EntriesUpTo(lastId))
  <2>1. <<>> \in Seq(EntriesUpTo(lastId))
    OBVIOUS
  <2> QED
    BY <2>1 DEF Init
<1>3. Missing \in FileUpTo(lastId) /\ ~Missing.exists /\ Missing.lines = <<>>
  BY DEF Missing, FileUpTo
<1>4. files = [s \in Sessions |-> Missing]
  BY DEF Init
<1> QED
  BY <1>1, <1>2, <1>3, <1>4 DEF TypeInv

-----------------------------------------------------------------------------
\* What a line added to a file adds to what the file gives.
LEMMA ParsedWrites ==
  ASSUME NEW n \in Nat, NEW lines \in Seq(LinesUpTo(n))
  PROVE  /\ \A e \in EntriesUpTo(n) : Parsed(Append(lines, e)) = Append(Parsed(lines), e)
         /\ Parsed(Append(lines, Garbage)) = Parsed(lines)
<1> DEFINE L == LinesUpTo(n)
           E == EntriesUpTo(n)
<1>1. lines \in Seq(L) /\ E \subseteq L /\ Garbage \in L /\ E \cap {Partial, Garbage, Unended} = {}
  BY NotEntries
<1> HIDE DEF L, E
<1>2. ASSUME NEW e \in E PROVE Parsed(Append(lines, e)) = Append(Parsed(lines), e)
  <2>1. e \in L /\ e \notin {Partial, Garbage, Unended}
    BY <1>1
  <2> QED
    BY <1>1, <2>1, WithoutAppend DEF Parsed
<1>3. Parsed(Append(lines, Garbage)) = Parsed(lines)
  BY <1>1, WithoutAppend DEF Parsed
<1> QED
  BY <1>2, <1>3 DEF E

\* A list is a prefix of itself and of itself with one more.
LEMMA PrefixFacts ==
  ASSUME NEW S, NEW s \in Seq(S)
  PROVE  /\ IsPrefix(s, s) /\ (\A e \in S : IsPrefix(s, Append(s, e)))
         /\ \A T : \A t \in Seq(T) : IsPrefix(<<>>, t)
<1>1. IsPrefix(s, s)
  BY DEF IsPrefix
<1>2. ASSUME NEW e \in S PROVE IsPrefix(s, Append(s, e))
  <2>1. SubSeq(Append(s, e), 1, Len(s)) = s /\ SubSeq(s, 1, Len(s)) = s /\ Len(Append(s, e)) = Len(s) + 1
        /\ Len(s) \in Nat
    OBVIOUS
  <2> QED
    BY <2>1 DEF IsPrefix
<1>3. ASSUME NEW T, NEW t \in Seq(T) PROVE IsPrefix(<<>>, t)
  <2>1. Len(<<>>) = 0 /\ Len(t) \in Nat /\ SubSeq(t, 1, 0) = <<>> /\ SubSeq(<<>>, 1, 0) = <<>>
    OBVIOUS
  <2> QED
    BY <2>1 DEF IsPrefix
<1> QED
  BY <1>1, <1>2, <1>3

\* An entry more among the lines is an entry more in the session, at the end.
LEMMA LoadedWrites ==
  ASSUME NEW n \in Nat, NEW f \in FileUpTo(n), NEW e \in EntriesUpTo(n), NEW x \in {e, Garbage},
         f.exists
  PROVE  /\ IsPrefix(Loaded(f), Loaded(File(Append(f.lines, x))))
         /\ IsSession(f) => Loaded(File(Append(f.lines, e))) = Append(Loaded(f), e)
<1> DEFINE E == EntriesUpTo(n)
           L == LinesUpTo(n)
           P == Parsed(f.lines)
           g == File(Append(f.lines, e))
           h == File(Append(f.lines, Garbage))
<1>1. f.lines \in Seq(L) /\ e \in L /\ Garbage \in L
  BY NotEntries DEF FileUpTo
<1>2. P \in Seq(E \cup {Header}) /\ Loaded(f) \in Seq(E) /\ e \in E /\ Header \notin E
  BY LoadedType, NotEntries
<1>3. Parsed(g.lines) = Append(P, e) /\ Parsed(h.lines) = P /\ g.exists /\ h.exists
  <2>1. Parsed(Append(f.lines, e)) = Append(P, e) /\ Parsed(Append(f.lines, Garbage)) = P
    BY <1>1, ParsedWrites
  <2> QED
    BY <2>1 DEF File
<1>4. Loaded(g) \in Seq(E)
  <2> HIDE DEF L
  <2>1. Append(f.lines, e) \in Seq(L)
    BY <1>1
  <2>2. g \in FileUpTo(n)
    BY <2>1 DEF File, FileUpTo, L
  <2> HIDE DEF g
  <2> QED
    BY <2>2, LoadedType
<1> HIDE DEF E, L, P, g, h
<1>5. Loaded(h) = Loaded(f)
  BY <1>3 DEF Loaded, IsSession, P
<1>6. ASSUME IsSession(f) PROVE Loaded(g) = Append(Loaded(f), e)
  <2>1. P # <<>> /\ Head(P) = Header
    BY <1>6 DEF IsSession, P
  <2>2. Append(P, e) # <<>> /\ Head(Append(P, e)) = Header
    BY <1>2, <2>1
  <2>3. IsSession(g)
    BY <1>3, <2>2 DEF IsSession
  <2>4. Without(Append(P, e), {Header}) = Append(Without(P, {Header}), e)
    BY <1>2, WithoutAppend
  <2> QED
    BY <1>3, <1>6, <2>3, <2>4 DEF Loaded, P
<1>7. IsPrefix(Loaded(f), Loaded(g))
  <2>1. CASE ~IsSession(f)
    <3>1. Loaded(f) = <<>>
      BY <2>1 DEF Loaded
    <3> QED
      BY <1>4, <3>1, PrefixFacts
  <2>2. CASE IsSession(f)
    <3>1. Loaded(g) = Append(Loaded(f), e)
      BY <1>6, <2>2
    <3> QED
      BY <1>2, <3>1, PrefixFacts
  <2> QED
    BY <2>1, <2>2
<1>8. IsPrefix(Loaded(f), Loaded(h))
  BY <1>2, <1>5, PrefixFacts
<1> QED
  BY <1>6, <1>7, <1>8 DEF g, h

\* What the ended lines of a file give.
LEMMA KeptIs ==
  ASSUME NEW n \in Nat, NEW f \in FileUpTo(n)
  PROVE  /\ [f EXCEPT !.lines = Ended(f.lines)] \in FileUpTo(n)
         /\ Kept(f) \in Seq(EntriesUpTo(n))
         /\ f.exists => Kept(f) = Loaded(File(Ended(f.lines)))
<1>1. f \in [exists : BOOLEAN, lines : Seq(LinesUpTo(n))]
  BY DEF FileUpTo
<1>2. Ended(f.lines) \in Seq(LinesUpTo(n))
  <2> DEFINE L == LinesUpTo(n)
  <2>1. f.lines \in Seq(L)
    BY <1>1
  <2> HIDE DEF L
  <2>2. Front(f.lines) \in Seq(L)
    BY <2>1, FrontFacts
  <2>3. Front(Front(f.lines)) \in Seq(L)
    BY <2>2, FrontFacts
  <2>4. Ended(f.lines) \in Seq(L)
    BY <2>1, <2>2, <2>3 DEF Ended
  <2> QED
    BY <2>4 DEF L
<1> DEFINE g == [f EXCEPT !.lines = Ended(f.lines)]
<1>3. g \in FileUpTo(n)
  BY <1>1, <1>2 DEF FileUpTo
<1>4. Kept(f) = Loaded(g)
  BY DEF Kept
<1>5. ASSUME f.exists PROVE g = File(Ended(f.lines))
  <2>1. f.exists = TRUE
    BY <1>1, <1>5
  <2>2. g = [exists |-> f.exists, lines |-> Ended(f.lines)]
    BY <1>1
  <2> QED
    BY <2>1, <2>2 DEF File
<1> HIDE DEF g
<1>6. Kept(f) \in Seq(EntriesUpTo(n))
  BY <1>3, <1>4, LoadedType
<1> QED
  BY <1>3, <1>4, <1>5, <1>6 DEF g

\* No step takes an entry from the ended lines of a session file.
LEMMA StepGrowsFiles ==
  ASSUME TypeInv, [Next]_vars, NEW s \in Sessions
  PROVE  IsPrefix(Kept(files[s]), Kept(files'[s]))
<1> DEFINE n == lastId'
           base == Ended(files[s].lines)
<1>1. /\ n \in Nat /\ files[s] \in FileUpTo(n) /\ files'[s] \in FileUpTo(n)
      /\ Written(s, n) /\ (files[s].lines # <<>> => files[s].exists)
  <2>1. TypeInv' /\ lastId <= lastId' /\ Written(s, n)
    BY StepTypes
  <2>2. lastId \in Nat /\ lastId' \in Nat /\ files[s] \in FileUpTo(lastId) /\ files'[s] \in FileUpTo(lastId')
    BY <2>1 DEF TypeInv
  <2>3. files[s] \in FileUpTo(n)
    BY <2>1, <2>2, TypesGrow
  <2> QED
    BY <2>1, <2>2, <2>3 DEF TypeInv
<1>2. Kept(files[s]) \in Seq(EntriesUpTo(n)) /\ Kept(files'[s]) \in Seq(EntriesUpTo(n))
  BY <1>1, KeptIs
<1> HIDE DEF n
<1>3. CASE files'[s] = files[s]
  BY <1>2, <1>3, PrefixFacts
<1>4. CASE files[s].lines = <<>>
  <2>1. Parsed(files[s].lines) = <<>> /\ Ended(files[s].lines) = files[s].lines
    BY <1>4, WithoutEmpty DEF Parsed, Ended
  <2>2. [files[s] EXCEPT !.lines = Ended(files[s].lines)].lines = files[s].lines
    BY <1>1, <2>1 DEF FileUpTo
  <2>3. Kept(files[s]) = <<>>
    BY <2>1, <2>2 DEF Kept, Loaded, IsSession
  <2> QED
    BY <1>2, <2>3, PrefixFacts
<1>5. ASSUME files[s].lines # <<>>, NEW e \in EntriesUpTo(n),
             NEW l, l = AppendLine(files[s].lines, e) \/ l \in CutShort(files[s].lines, e),
             files'[s] = File(l)
      PROVE  IsPrefix(Kept(files[s]), Kept(files'[s]))
  <2>1. files[s].lines \in Seq(LinesUpTo(n))
    BY <1>1 DEF FileUpTo
  <2>2. base \in Seq(LinesUpTo(n)) /\ (Ended(l) = base \/ \E x \in {e, Garbage} : Ended(l) = Append(base, x))
    BY <1>1, <1>5, <2>1, EndedWrites
  <2>3. files'[s].exists /\ files'[s].lines = l
    BY <1>5 DEF File
  <2>4. Kept(files'[s]) = Loaded(File(Ended(l)))
    BY <1>1, <2>3, KeptIs
  <2>5. Kept(files[s]) = Loaded(File(base))
    BY <1>1, <1>5, KeptIs
  <2> HIDE DEF base
  <2>6. CASE Ended(l) = base
    BY <1>2, <2>4, <2>5, <2>6, PrefixFacts
  <2>7. CASE \E x \in {e, Garbage} : Ended(l) = Append(base, x)
    <3>1. File(base) \in FileUpTo(n) /\ File(base).exists /\ File(base).lines = base
      BY <2>2 DEF File, FileUpTo
    <3>2. PICK x \in {e, Garbage} : Ended(l) = Append(base, x)
      BY <2>7
    <3>3. IsPrefix(Loaded(File(base)), Loaded(File(Append(base, x))))
      <4> DEFINE f == File(base)
      <4>1. f \in FileUpTo(n) /\ f.exists /\ f.lines = base
        BY <3>1
      <4> HIDE DEF f
      <4>2. IsPrefix(Loaded(f), Loaded(File(Append(f.lines, x))))
        BY <1>1, <1>5, <4>1, LoadedWrites
      <4> QED
        BY <4>1, <4>2 DEF f
    <3> QED
      BY <2>4, <2>5, <3>2, <3>3
  <2> QED
    BY <2>2, <2>6, <2>7
<1> HIDE DEF base
<1> QED
  BY <1>1, <1>3, <1>4, <1>5 DEF Written

\* An entry appended to a saved session is in the file.
LEMMA StepSavesEntry ==
  ASSUME TypeInv, [Next]_vars,
         flushed, flushed', session' = session, faults' = faults,
         Len(entries') = Len(entries) + 1,
         IsSession(files[session]), Ended(files[session].lines) = files[session].lines
  PROVE  Last(entries').id \in Ids(Loaded(files'[session]))
<1>0. /\ lastId \in Nat /\ faults \in Nat /\ session \in Sessions /\ files[session] \in FileUpTo(lastId)
      /\ Len(entries) \in Nat
  BY DEF TypeInv
<1>1. ASSUME NEW e, Appends(e) PROVE Last(entries').id \in Ids(Loaded(files'[session]))
  <2> DEFINE n == lastId + 1
             f == files[session]
  <2>1. e \in EntriesUpTo(n) /\ entries' = Append(entries, e) /\ n \in Nat
    BY <1>0, <1>1 DEF Appends, AppendEntry
  <2>2. Last(entries') = e /\ Last(Append(entries, e)) = e
    <3>1. entries \in Seq(EntriesUpTo(n))
      BY <1>0, <2>1, TypesGrow DEF TypeInv
    <3>2. Append(entries, e)[Len(entries) + 1] = e /\ Len(Append(entries, e)) = Len(entries) + 1
      BY <2>1, <3>1
    <3> QED
      BY <2>1, <3>2 DEF Last
  <2>3. Store(session, AppendLine(f.lines, e))
    <3>1. CASE Persist(Append(entries, e))
      BY <2>2, <3>1 DEF Persist
    <3>2. CASE PersistFails(Append(entries, e))
      <4>1. Fault
        BY <3>2 DEF PersistFails
      <4> QED
        BY <1>0, <4>1 DEF Fault
    <3> QED
      BY <1>1, <3>1, <3>2 DEF Appends
  <2>4. files'[session] = File(AppendLine(f.lines, e))
    BY <1>0, <2>3 DEF Store, TypeInv
  <2>5. f.exists /\ f.lines # <<>> /\ f \in FileUpTo(n)
    <3>1. Parsed(f.lines) # <<>> /\ f.exists
      BY DEF IsSession
    <3>2. f.lines # <<>>
      BY <3>1, WithoutEmpty DEF Parsed
    <3> QED
      BY <1>0, <2>1, <3>1, <3>2, TypesGrow
  <2>6. Loaded(files'[session]) = Append(Loaded(f), e) /\ Loaded(f) \in Seq(EntriesUpTo(n))
    <3>1. AppendLine(f.lines, e) = Append(f.lines, e)
      BY DEF AppendLine
    <3>2. Loaded(File(Append(f.lines, e))) = Append(Loaded(f), e) /\ Loaded(f) \in Seq(EntriesUpTo(n))
      BY <2>1, <2>5, LoadedWrites, LoadedType
    <3> QED
      BY <2>4, <3>1, <3>2
  <2>7. e.id \in Ids(Append(Loaded(f), e))
    <3> DEFINE l == Loaded(f)
               E == EntriesUpTo(n)
    <3>1. l \in Seq(E) /\ e \in E
      BY <2>1, <2>6
    <3> HIDE DEF l, E
    <3>2. Len(l) + 1 \in DOMAIN Append(l, e) /\ Append(l, e)[Len(l) + 1] = e
      BY <3>1
    <3>3. e.id \in Ids(Append(l, e))
      BY <3>2 DEF Ids
    <3> QED
      BY <3>3 DEF l
  <2> QED
    BY <2>2, <2>6, <2>7
<1>2. CASE Branch \/ ResetLeaf
  BY <1>0, <1>2 DEF Branch, ResetLeaf, MoveLeaf
<1>3. CASE NewSession
  BY <1>3, NewNameUnused DEF NewSession, Hold
<1>4. CASE SetSessionFile
  <2>1. PICK s \in Sessions : /\ Hold(s, Loaded(files[s]))
                              /\ IF files[s].lines = <<>> THEN Store(s, <<Header>>) ELSE UNCHANGED files
    BY <1>4 DEF SetSessionFile
  <2>2. s = session /\ entries' = Loaded(files[session])
    BY <2>1 DEF Hold
  <2>3. files' = files
    <3>1. Parsed(files[session].lines) # <<>>
      BY DEF IsSession
    <3>2. files[session].lines # <<>>
      BY <3>1, WithoutEmpty DEF Parsed
    <3> QED
      BY <2>1, <2>2, <3>2
  <2> DEFINE l == Loaded(files[session])
             E == EntriesUpTo(lastId)
  <2>4. l \in Seq(E) /\ Len(l) = Len(entries) + 1
    BY <1>0, <2>2, LoadedType
  <2> HIDE DEF l, E
  <2>5. Len(l) \in DOMAIN l
    BY <1>0, <2>4
  <2>6. Last(l).id \in Ids(l)
    BY <2>5 DEF Last, Ids
  <2> QED
    BY <2>2, <2>3, <2>6 DEF l
<1>5. CASE Fork
  BY <1>5, NewNameUnused DEF Fork, CreateBranchedSession, Hold
<1>6. CASE ForkFrom
  <2>1. (\E source \in Sessions : Hold(NewName, Loaded(files[source]))) \/ Fault
    BY <1>6 DEF ForkFrom
  <2>2. ~Fault
    BY <1>0 DEF Fault
  <2>3. NewName # session
    BY <1>6, NewNameUnused DEF ForkFrom
  <2> QED
    BY <2>1, <2>2, <2>3 DEF Hold
<1>7. CASE UNCHANGED vars
  BY <1>0, <1>7 DEF vars
<1> QED
  BY <1>1, <1>2, <1>3, <1>4, <1>5, <1>6, <1>7, NextCases

\* What a session file gave when it was opened it gives from then on, but for an
\* entry whose line lacks its newline, and an entry appended to a saved session
\* is given from then on too, unless it is glued to such a line or to a torn one,
\* whatever is forked, reopened or fails to be written.
THEOREM WhatIsSavedStays == Spec => SavedIsDurable
<1>1. TypeInv /\ [Next]_vars => TypeInv'
  BY StepTypes
<1>2. TypeInv /\ [Next]_vars
        => [\A s \in Sessions : IsPrefix(Kept(files[s]), Kept(files'[s]))]_vars
  BY StepGrowsFiles
<1>3. TypeInv /\ [Next]_vars
        => [/\ flushed /\ flushed' /\ session' = session /\ faults' = faults
            /\ Len(entries') = Len(entries) + 1
            /\ IsSession(files[session]) /\ Ended(files[session].lines) = files[session].lines
            => Last(entries').id \in Ids(Loaded(files'[session]))]_vars
  BY StepSavesEntry
<1>4. Spec => FilesOnlyGrow
  BY InitTypes, <1>1, <1>2, PTL DEF Spec, FilesOnlyGrow
<1>5. Spec => AppendDurable
  BY InitTypes, <1>1, <1>3, PTL DEF Spec, AppendDurable
<1> QED
  BY <1>4, <1>5, PTL DEF SavedIsDurable

-----------------------------------------------------------------------------
\* A file without a torn line, and what it gives.
Whole(f) == f = File(<<Header>> \o Loaded(f)) /\ Tree(Loaded(f))

\* The invariant while no write has failed.
TreeInv ==
  faults = 0 =>
    /\ Tree(entries)
    /\ leaf \in Ids(entries) \cup {NoId}
    /\ labels = LabelsOf(entries)
    /\ flushed => files[session] = File(<<Header>> \o entries)
    /\ \A s \in Sessions : files[s].exists => Whole(files[s])

\* A file written with a tree is whole.
LEMMA WholeWritten ==
  ASSUME NEW n \in Nat, NEW x \in Seq(EntriesUpTo(n)), Tree(x)
  PROVE  Whole(File(<<Header>> \o x))
<1>1. Loaded(File(<<Header>> \o x)) = x
  BY LoadedWhole
<1> QED
  BY <1>1 DEF Whole

\* In a tree in the order of the ids every parent comes before its children.
LEMMA TreeIsForest ==
  ASSUME NEW n \in Nat, NEW s \in Seq(EntriesUpTo(n)), Tree(s)
  PROVE  Forest(s)
<1> DEFINE E == EntriesUpTo(n)
<1>1. \A e \in E : e.id \in Nat /\ e.parent \in Nat /\ e.parent < e.id
  BY EntryFacts
<1>2. s \in Seq(E) /\ Ascending(s) /\ \A i \in DOMAIN s : s[i].parent \in Ids(s) \cup {NoId}
  BY DEF Tree
<1> HIDE DEF E
<1>3. DOMAIN s = 1 .. Len(s) /\ Len(s) \in Nat /\ \A i \in 1 .. Len(s) : s[i] \in E
  BY <1>2
<1>4. \A i, j \in 1 .. Len(s) : i < j => s[i].id < s[j].id
  BY <1>2, <1>3 DEF Ascending
<1>5. ASSUME NEW i \in DOMAIN s, NEW j \in DOMAIN s, s[i].id = s[j].id PROVE i = j
  <2>1. i \in Nat /\ j \in Nat /\ ~(s[i].id < s[j].id) /\ ~(s[j].id < s[i].id)
    BY <1>1, <1>3, <1>5
  <2> QED
    BY <1>3, <1>4, <2>1
<1>6. ASSUME NEW i \in DOMAIN s, s[i].parent # NoId PROVE \E j \in 1 .. i - 1 : s[j].id = s[i].parent
  <2>1. PICK j \in DOMAIN s : s[j].id = s[i].parent
    BY <1>2, <1>6 DEF Ids
  <2>2. s[j].id < s[i].id /\ s[i].id \in Nat /\ s[j].id \in Nat
    BY <1>1, <1>3, <2>1
  <2>3. j # i /\ ~(i < j)
    <3>1. ~(s[i].id < s[j].id) /\ s[i].id # s[j].id
      BY <2>2
    <3> QED
      BY <1>3, <1>4, <3>1
  <2>4. j \in 1 .. i - 1
    BY <1>3, <2>3
  <2> QED
    BY <2>1, <2>4
<1> QED
  BY <1>5, <1>6 DEF Forest

\* A new entry below one of a tree.
LEMMA TreeAppend ==
  ASSUME NEW n \in Nat, NEW s \in Seq(EntriesUpTo(n)), Tree(s), NEW e \in EntriesUpTo(n + 1),
         e.id = n + 1, e.parent \in Ids(s) \cup {NoId}
  PROVE  Tree(Append(s, e)) /\ e.id \in Ids(Append(s, e))
<1> DEFINE E == EntriesUpTo(n + 1)
           u == Append(s, e)
<1>1. s \in Seq(E) /\ e \in E /\ \A x \in E : x.id \in Nat
  BY TypesGrow, EntryFacts
<1>2. \A k \in 1 .. Len(s) : s[k].id < e.id
  <2>1. \A k \in 1 .. Len(s) : s[k] \in EntriesUpTo(n)
    OBVIOUS
  <2>2. \A x \in EntriesUpTo(n) : x.id \in Nat /\ x.id <= n
    BY EntryFacts
  <2>3. \A i \in Nat : i <= n => i < n + 1
    OBVIOUS
  <2> QED
    BY <2>1, <2>2, <2>3
<1> HIDE DEF E
<1>3. Ascending(u)
  BY <1>1, <1>2, AscendAppend DEF Tree
<1>4. /\ DOMAIN u = 1 .. Len(s) + 1 /\ u[Len(s) + 1] = e /\ \A k \in 1 .. Len(s) : u[k] = s[k]
      /\ DOMAIN s = 1 .. Len(s) /\ Len(s) \in Nat
  BY <1>1
<1> HIDE DEF u
<1>5. Ids(s) \subseteq Ids(u) /\ e.id \in Ids(u)
  <2>1. 1 .. Len(s) \subseteq DOMAIN u /\ Len(s) + 1 \in DOMAIN u
    BY <1>4
  <2> QED
    BY <1>4, <2>1 DEF Ids
<1>6. ASSUME NEW k \in DOMAIN u PROVE u[k].parent \in Ids(u) \cup {NoId}
  <2>1. CASE k = Len(s) + 1
    BY <1>4, <1>5, <2>1
  <2>2. CASE k # Len(s) + 1
    <3>1. k \in 1 .. Len(s)
      BY <1>4, <2>2
    <3>2. s[k].parent \in Ids(s) \cup {NoId}
      BY <1>4, <3>1 DEF Tree
    <3> QED
      BY <1>4, <1>5, <3>1, <3>2
  <2> QED
    BY <2>1, <2>2
<1> QED
  BY <1>3, <1>5, <1>6 DEF Tree, u

\* A list that is held gives its labels, and its last entry for a leaf.
LEMMA HoldTree ==
  ASSUME NEW n \in Nat, NEW list \in Seq(EntriesUpTo(n)), Tree(list), NEW s \in Sessions, Hold(s, list)
  PROVE  /\ session' = s /\ entries' = list /\ Tree(entries') /\ labels' = LabelsOf(entries')
         /\ leaf' \in Ids(entries') \cup {NoId}
  BY HoldTypes DEF Hold

\* Appending an entry keeps the tree.
LEMMA AppendTree ==
  ASSUME IInv, TypeInv, TreeInv, NEW e, Appends(e)
  PROVE  TreeInv'
<1> DEFINE n == lastId + 1
           all == Append(entries, e)
<1> SUFFICES ASSUME faults' = 0 PROVE TreeInv'
  BY DEF TreeInv
<1>1. /\ lastId \in Nat /\ n \in Nat /\ lastId <= n /\ faults \in Nat /\ session \in Sessions
      /\ entries \in Seq(EntriesUpTo(lastId)) /\ e \in EntriesUpTo(n) /\ e.id = n
      /\ entries' = all /\ leaf' = e.id /\ session' = session
  BY DEF TypeInv, Appends, AppendEntry
<1>2. faults = 0
  BY <1>1 DEF Appends, Persist, PersistFails, Fault
<1>3. /\ Tree(entries) /\ leaf \in Ids(entries) \cup {NoId} /\ labels = LabelsOf(entries)
      /\ flushed => files[session] = File(<<Header>> \o entries)
      /\ \A s \in Sessions : files[s].exists => Whole(files[s])
      /\ ~flushed => ~files[session].exists
  BY <1>2 DEF TreeInv, IInv, UnsavedHasNoAnswer
<1>4. e.parent \in Ids(entries) \cup {NoId}
  BY <1>3 DEF Appends
<1>5. Tree(all) /\ e.id \in Ids(all)
  BY <1>1, <1>3, <1>4, TreeAppend
<1>6. all \in Seq(EntriesUpTo(n)) /\ Last(all) = e /\ LabelsOf(all) = Relabel(LabelsOf(entries), e)
      /\ <<Header>> \o all = Append(<<Header>> \o entries, e)
  <2> DEFINE E == EntriesUpTo(n)
  <2>1. entries \in Seq(E) /\ e \in E /\ \A x \in E : x.ref \in Nat
    BY <1>1, TypesGrow, EntryFacts
  <2> HIDE DEF E
  <2>2. all \in Seq(E) /\ Last(all) = e
    BY <2>1 DEF Last
  <2>3. LabelsOf(all) = Relabel(LabelsOf(entries), e)
    BY <2>1, LabelsAppend
  <2>4. <<Header>> \o all = Append(<<Header>> \o entries, e)
    BY <2>1
  <2> QED
    BY <2>2, <2>3, <2>4 DEF E
<1>7. Whole(File(<<Header>> \o all))
  BY <1>1, <1>5, <1>6, WholeWritten
<1> HIDE DEF all
<1>8. Persist(all) /\ labels' = Relabel(labels, e)
  <2>1. ~PersistFails(all)
    <3>1. ~Fault
      BY <1>1, <1>2 DEF Fault
    <3>2. ASSUME PersistFails(all) PROVE ~flushed /\ HasAssistant(all)
      BY <3>1, <3>2 DEF PersistFails
    <3>3. ASSUME PersistFails(all) PROVE FALSE
      BY <1>3, <3>1, <3>2, <3>3 DEF PersistFails
    <3> QED
      BY <3>3
  <2> QED
    BY <2>1 DEF Appends, all
<1>9. /\ flushed' => files'[session] = File(<<Header>> \o all)
      /\ \A s \in Sessions : files'[s].exists => Whole(files'[s])
  <2>0. files \in [Sessions -> FileUpTo(lastId)]
    BY DEF TypeInv
  <2>1. ASSUME Store(session, <<Header>> \o all)
        PROVE  /\ files'[session] = File(<<Header>> \o all)
               /\ \A s \in Sessions : files'[s].exists => Whole(files'[s])
    <3>1. files'[session] = File(<<Header>> \o all) /\ \A s \in Sessions : s # session => files'[s] = files[s]
      BY <1>1, <2>0, <2>1 DEF Store
    <3> QED
      BY <1>3, <1>7, <3>1
  <2>2. CASE flushed
    <3>1. Store(session, AppendLine(files[session].lines, e))
      <4>1. Store(session, AppendLine(files[session].lines, Last(all)))
        BY <1>8, <2>2 DEF Persist
      <4> QED
        BY <1>6, <4>1
    <3>2. files[session].lines = <<Header>> \o entries
      BY <1>3, <2>2 DEF File
    <3>3. AppendLine(<<Header>> \o entries, e) = <<Header>> \o all
      <4>1. Ended(<<Header>> \o entries) = <<Header>> \o entries
        BY <1>1, LoadedWhole
      <4> QED
        BY <1>6, <4>1 DEF AppendLine
    <3> QED
      BY <2>1, <3>1, <3>2, <3>3
  <2>3. CASE ~flushed /\ ~HasAssistant(all)
    BY <1>3, <1>8, <2>3 DEF Persist
  <2>4. CASE ~flushed /\ HasAssistant(all)
    BY <1>8, <2>1, <2>4 DEF Persist
  <2> QED
    BY <2>2, <2>3, <2>4
<1>10. Tree(entries') /\ leaf' \in Ids(entries') \cup {NoId} /\ labels' = LabelsOf(entries')
  BY <1>1, <1>3, <1>5, <1>6, <1>8
<1> QED
  BY <1>1, <1>9, <1>10 DEF TreeInv

\* Every step keeps the tree, while no write fails.
LEMMA StepTree ==
  ASSUME IInv, TypeInv, TreeInv, [Next]_vars
  PROVE  TreeInv'
<1>0. TypeInv' /\ lastId \in Nat /\ faults \in Nat /\ files \in [Sessions -> FileUpTo(lastId)]
  BY StepTypes DEF TypeInv
<1>1. ASSUME NEW e, Appends(e) PROVE TreeInv'
  BY <1>1, AppendTree
<1> SUFFICES ASSUME faults' = 0, ~\E e : Appends(e) PROVE TreeInv'
  BY <1>1 DEF TreeInv
<1>2. ASSUME faults = 0
      PROVE  /\ Tree(entries) /\ leaf \in Ids(entries) \cup {NoId} /\ labels = LabelsOf(entries)
             /\ flushed => files[session] = File(<<Header>> \o entries)
             /\ \A s \in Sessions : files[s].exists => Whole(files[s])
             /\ ~flushed => ~files[session].exists
  BY <1>2 DEF TreeInv, IInv, UnsavedHasNoAnswer
<1>3. ~Fault
  BY <1>0 DEF Fault
\* Reading a list and holding it, stored in its file or not.
<1>4. ASSUME faults = 0, NEW n \in Nat, NEW list \in Seq(EntriesUpTo(n)), Tree(list), NEW s \in Sessions,
             Hold(s, list),
             \/ flushed' = FALSE /\ UNCHANGED files
             \/ Store(s, <<Header>> \o list)
             \/ UNCHANGED files /\ files[s] = File(<<Header>> \o list)
      PROVE  TreeInv'
  <2>1. /\ session' = s /\ entries' = list /\ Tree(entries') /\ labels' = LabelsOf(entries')
        /\ leaf' \in Ids(entries') \cup {NoId}
    BY <1>4, HoldTree
  <2>2. /\ flushed' => files'[s] = File(<<Header>> \o list)
        /\ \A t \in Sessions : files'[t].exists => Whole(files'[t])
    <3>1. CASE UNCHANGED files /\ (flushed' = FALSE \/ files[s] = File(<<Header>> \o list))
      BY <1>2, <1>4, <3>1
    <3>2. CASE Store(s, <<Header>> \o list)
      <4>1. files'[s] = File(<<Header>> \o list) /\ \A t \in Sessions : t # s => files'[t] = files[t]
        BY <1>0, <3>2 DEF Store
      <4>2. Whole(File(<<Header>> \o list))
        BY <1>4, WholeWritten
      <4> QED
        BY <1>2, <1>4, <4>1, <4>2
    <3> QED
      BY <1>4, <3>1, <3>2
  <2> QED
    BY <2>1, <2>2 DEF TreeInv
<1>5. CASE Branch \/ ResetLeaf
  <2>1. PICK id \in Ids(entries) \cup {NoId} : MoveLeaf(id)
    BY <1>5 DEF Branch, ResetLeaf
  <2>2. leaf' = id /\ UNCHANGED <<files, session, entries, labels, flushed, lastId, faults>>
    BY <2>1 DEF MoveLeaf
  <2> QED
    BY <1>2, <2>1, <2>2 DEF TreeInv
<1>6. CASE NewSession
  <2>1. NewName \in Sessions /\ Hold(NewName, <<>>) /\ UNCHANGED <<files, lastId, faults>> /\ flushed' = FALSE
    BY <1>6, NewNameUnused DEF NewSession
  <2>2. <<>> \in Seq(EntriesUpTo(lastId)) /\ Tree(<<>>)
    BY DEF Tree, Ascending
  <2> QED
    BY <1>0, <1>4, <2>1, <2>2
<1>7. CASE SetSessionFile
  <2>1. PICK s \in Sessions : /\ files[s].exists
                              /\ Hold(s, Loaded(files[s]))
                              /\ IF files[s].lines = <<>> THEN Store(s, <<Header>>) ELSE UNCHANGED files
                              /\ flushed' = TRUE
                              /\ UNCHANGED <<lastId, faults>>
    BY <1>7 DEF SetSessionFile
  <2>2. Whole(files[s])
    BY <1>2, <2>1
  <2> DEFINE x == Loaded(files[s])
  <2>3. x \in Seq(EntriesUpTo(lastId)) /\ Tree(x) /\ files[s] = File(<<Header>> \o x)
    BY <1>0, <2>2, LoadedType DEF Whole
  <2> HIDE DEF x
  <2>4. files[s].lines # <<>>
    <3>1. <<Header>> \o x # <<>>
      BY <1>0, <2>3, LoadedWhole
    <3> QED
      BY <2>3, <3>1 DEF File
  <2>5. UNCHANGED files /\ Hold(s, x)
    BY <2>1, <2>4 DEF x
  <2> QED
    BY <1>0, <1>4, <2>1, <2>3, <2>5
<1>8. CASE Fork
  <2>1. PICK id \in Ids(entries) : CreateBranchedSession(id)
    BY <1>8 DEF Fork
  <2> DEFINE kept == Rechained(PathTo(entries, id))
             K == Len(LabelEntries(kept))
             n == lastId + K
             all  == kept \o LabelEntries(kept)
  <2>2. kept \in Seq(EntriesUpTo(lastId)) /\ Chain(kept)
    <3>1. id \in Nat
      <4>1. Ids(entries) \subseteq 1 .. lastId
        BY <1>0, IdsType DEF TypeInv
      <4> QED
        BY <4>1
    <3>2. PathTo(entries, id) \in Seq(EntriesUpTo(lastId)) /\ Ascending(PathTo(entries, id))
      BY <1>0, <3>1, PathType DEF TypeInv
    <3> QED
      BY <1>0, <3>2, RechainedIs
  <2>3. /\ NewName \in Sessions /\ Hold(NewName, all)
        /\ flushed' = HasAssistant(all)
        /\ IF HasAssistant(all) THEN Store(NewName, <<Header>> \o all) ELSE UNCHANGED files
        /\ UNCHANGED faults
    BY <1>3, <2>1, NewNameUnused DEF CreateBranchedSession
  <2> HIDE DEF kept
  <2>4. K \in Nat /\ all \in Seq(EntriesUpTo(n)) /\ Tree(all)
    <3>1. K \in Nat /\ all \in Seq(EntriesUpTo(n)) /\ Chain(all)
      BY <2>2, ForkIs
    <3> QED
      BY <3>1, ChainIsTree
  <2>5. n \in Nat
    BY <1>0, <2>4
  <2> HIDE DEF all, n, K
  <2>6. \/ flushed' = FALSE /\ UNCHANGED files
        \/ Store(NewName, <<Header>> \o all)
    BY <2>3 DEF HasAssistant
  <2> QED
    BY <1>4, <2>3, <2>4, <2>5, <2>6
<1>9. CASE ForkFrom
  <2>1. PICK source \in Sessions : /\ IsSession(files[source])
                                   /\ Store(NewName, <<Header>> \o Loaded(files[source]))
                                   /\ Hold(NewName, Loaded(files[source]))
                                   /\ UNCHANGED faults
    BY <1>3, <1>9 DEF ForkFrom
  <2>2. NewName \in Sessions
    BY <1>9, NewNameUnused DEF ForkFrom
  <2>3. Whole(files[source])
    BY <1>2, <2>1 DEF IsSession
  <2>4. Loaded(files[source]) \in Seq(EntriesUpTo(lastId)) /\ Tree(Loaded(files[source]))
    BY <1>0, <2>3, LoadedType DEF Whole
  <2> QED
    BY <1>0, <1>4, <2>1, <2>2, <2>4
<1>10. CASE UNCHANGED vars
  <2>1. UNCHANGED <<files, session, entries, leaf, labels, flushed, lastId, faults>>
    BY <1>10 DEF vars
  <2> QED
    BY <1>2, <2>1 DEF TreeInv
<1> QED
  BY <1>5, <1>6, <1>7, <1>8, <1>9, <1>10, NextCases

\* An empty session is a tree.
LEMMA InitTree == Init => TreeInv
<1> SUFFICES ASSUME Init PROVE TreeInv
  OBVIOUS
<1>1. entries = <<>> /\ leaf = NoId /\ labels = <<>> /\ flushed = FALSE /\ files = [s \in Sessions |-> Missing]
  BY DEF Init
<1>2. Tree(<<>>)
  BY DEF Tree, Ascending
<1>3. LabelsOf(<<>>) = <<>>
  BY LabelsEmpty
<1> QED
  BY <1>1, <1>2, <1>3 DEF TreeInv, Missing

\* The invariants give the property.
LEMMA TreeReopens ==
  ASSUME TypeInv, TreeInv
  PROVE  SessionReopens
<1>0. lastId \in Nat /\ entries \in Seq(EntriesUpTo(lastId)) /\ session \in Sessions
      /\ \A s \in Sessions : files[s] \in FileUpTo(lastId)
  BY DEF TypeInv
<1> SUFFICES ASSUME faults = 0 PROVE SessionReopens
  BY DEF SessionReopens, TreeWellFormed, ReopenGivesMemory
<1>1. /\ Tree(entries) /\ leaf \in Ids(entries) \cup {NoId} /\ labels = LabelsOf(entries)
      /\ flushed => files[session] = File(<<Header>> \o entries)
      /\ \A s \in Sessions : files[s].exists => Whole(files[s])
  BY DEF TreeInv
<1>2. Forest(entries)
  BY <1>0, <1>1, TreeIsForest
<1>3. ASSUME NEW s \in Sessions PROVE Forest(Loaded(files[s]))
  <2>1. CASE files[s].exists
    <3>1. Loaded(files[s]) \in Seq(EntriesUpTo(lastId)) /\ Tree(Loaded(files[s]))
      BY <1>0, <1>1, <2>1, LoadedType DEF Whole
    <3> QED
      BY <1>0, <3>1, TreeIsForest
  <2>2. CASE ~files[s].exists
    BY <2>2 DEF Loaded, IsSession, Forest
  <2> QED
    BY <2>1, <2>2
<1>4. flushed => LabelsOf(Loaded(files[session])) = labels
  <2>1. Loaded(File(<<Header>> \o entries)) = entries
    BY <1>0, LoadedWhole
  <2> QED
    BY <1>1, <2>1
<1> QED
  BY <1>1, <1>2, <1>3, <1>4 DEF SessionReopens, TreeWellFormed, ReopenGivesMemory

\* While no write has failed, the session in memory and every session that can
\* be opened is a forest of entries with their own ids, the leaf is one of them,
\* and opening a saved session again gives what memory holds, labels and all.
THEOREM SessionsReopen == Spec => []SessionReopens
<1> DEFINE RInv == IInv /\ TypeInv /\ TreeInv
<1>1. Init => RInv
  BY InitIInv, InitTypes, InitTree
<1>2. RInv /\ [Next]_vars => RInv'
  BY StepKeeps, StepTypes, StepTree
<1>3. RInv => SessionReopens
  BY TreeReopens
<1> QED
  BY <1>1, <1>2, <1>3, PTL DEF Spec

-----------------------------------------------------------------------------
\* A set of numbers up to a bound that is not empty has a largest element.
LEMMA Largest ==
  ASSUME NEW N \in Nat, NEW S \in SUBSET (0 .. N), S # {}
  PROVE  \E x \in S : \A y \in S : y <= x
<1> DEFINE R == {N - x : x \in S}
<1>0. \A x \in S : x \in Nat /\ N - x \in Nat
  <2> SUFFICES ASSUME NEW x \in S PROVE x \in Nat /\ N - x \in Nat
    OBVIOUS
  <2>1. x \in 0 .. N
    OBVIOUS
  <2> QED
    BY <2>1
<1>1. R \in SUBSET Nat /\ R # {}
  BY <1>0
<1>2. PICK r \in R : \A y \in R : r <= y
  <2> HIDE DEF R
  <2> QED
    BY <1>1, Least
<1>3. PICK x \in S : r = N - x
  OBVIOUS
<1>4. ASSUME NEW y \in S PROVE y <= x
  <2>1. N - y \in R
    OBVIOUS
  <2>2. N - x <= N - y
    <3> HIDE DEF R
    <3> QED
      BY <1>2, <1>3, <2>1
  <2>3. x \in Nat /\ y \in Nat
    BY <1>0
  <2> QED
    BY <2>2, <2>3
<1> QED
  BY <1>4

\* Numbers in ascending order.
Increasing(k) == \A i, j \in DOMAIN k : i < j => k[i] < k[j]

\* Half of the next lemma.
LEMMA SameOrderAt ==
  ASSUME NEW k \in Seq(Nat), NEW l \in Seq(Nat), Increasing(k), Increasing(l), Range(k) \subseteq Range(l),
         NEW i \in 1 .. Len(k), i <= Len(l), \A j \in 1 .. i - 1 : k[j] = l[j]
  PROVE  l[i] <= k[i]
<1>1. DOMAIN k = 1 .. Len(k) /\ DOMAIN l = 1 .. Len(l) /\ Len(k) \in Nat /\ Len(l) \in Nat /\ i \in 1 .. Len(l)
  OBVIOUS
<1>2. (\A j \in 1 .. Len(k) : k[j] \in Nat) /\ (\A j \in 1 .. Len(l) : l[j] \in Nat)
  OBVIOUS
<1>3. PICK m \in 1 .. Len(l) : k[i] = l[m]
  BY <1>1 DEF Range
<1>4. CASE m < i
  <2>1. m \in 1 .. i - 1 /\ m \in 1 .. Len(k)
    BY <1>1, <1>4
  <2>2. k[m] = l[m] /\ k[m] < k[i]
    BY <1>1, <1>4, <2>1 DEF Increasing
  <2> QED
    BY <1>2, <1>3, <2>1, <2>2
<1>5. CASE m = i
  BY <1>1, <1>2, <1>3, <1>5
<1>6. CASE i < m
  <2>1. l[i] < l[m]
    BY <1>1, <1>6 DEF Increasing
  <2> QED
    BY <1>1, <1>2, <1>3, <2>1
<1> QED
  BY <1>1, <1>4, <1>5, <1>6

\* And the one that is not longer is the beginning of the other.
LEMMA SameOrderLen ==
  ASSUME NEW k \in Seq(Nat), NEW l \in Seq(Nat), Increasing(k), Increasing(l), Range(k) = Range(l)
  PROVE  \A i \in 1 .. Len(k) : i <= Len(l) => k[i] = l[i]
<1> DEFINE A == {i \in Nat : i \in 1 .. Len(k) /\ i <= Len(l) => k[i] = l[i]}
<1>1. ASSUME NEW i \in Nat, \A j \in Nat : j < i => j \in A PROVE i \in A
  <2>1. SUFFICES ASSUME i \in 1 .. Len(k), i <= Len(l) PROVE k[i] = l[i]
    OBVIOUS
  <2>2. \A j \in 1 .. i - 1 : k[j] = l[j]
    <3> SUFFICES ASSUME NEW j \in 1 .. i - 1 PROVE k[j] = l[j]
      OBVIOUS
    <3>1. j \in Nat /\ j < i /\ j \in 1 .. Len(k) /\ j <= Len(l)
      BY <2>1
    <3>2. j \in A
      <4> HIDE DEF A
      <4> QED
        BY <1>1, <3>1
    <3> QED
      BY <3>1, <3>2
  <2>3. i \in 1 .. Len(l) /\ i <= Len(k) /\ \A j \in 1 .. i - 1 : l[j] = k[j]
    BY <2>1, <2>2
  <2>4. l[i] <= k[i]
    BY <2>1, <2>2, SameOrderAt
  <2>5. k[i] <= l[i]
    BY <2>3, SameOrderAt
  <2>6. k[i] \in Nat /\ l[i] \in Nat
    BY <2>1, <2>3
  <2> QED
    BY <2>4, <2>5, <2>6
<1>2. Nat \subseteq A
  <2> HIDE DEF A
  <2> QED
    BY <1>1, StrongInduction
<1> QED
  BY <1>2

\* There is one way to put a set of numbers in ascending order.
LEMMA SameOrder ==
  ASSUME NEW k \in Seq(Nat), NEW l \in Seq(Nat), Increasing(k), Increasing(l), Range(k) = Range(l)
  PROVE  k = l
<1>1. DOMAIN k = 1 .. Len(k) /\ DOMAIN l = 1 .. Len(l) /\ Len(k) \in Nat /\ Len(l) \in Nat
  OBVIOUS
<1>2. ASSUME NEW a \in Seq(Nat), NEW b \in Seq(Nat), Increasing(a), Increasing(b), Range(a) = Range(b)
      PROVE  Len(a) >= Len(b)
  <2>0. DOMAIN a = 1 .. Len(a) /\ DOMAIN b = 1 .. Len(b) /\ Len(a) \in Nat /\ Len(b) \in Nat
    OBVIOUS
  <2> SUFFICES ASSUME Len(a) < Len(b) PROVE FALSE
    BY <2>0
  <2> DEFINE n == Len(a) + 1
  <2>1. n \in 1 .. Len(b)
    BY <2>0
  <2>2. PICK m \in 1 .. Len(a) : b[n] = a[m]
    BY <1>2, <2>0, <2>1 DEF Range
  <2>6. m <= Len(b) /\ m \in DOMAIN b /\ n \in DOMAIN b /\ m < n
    BY <2>0, <2>1
  <2>3. a[m] = b[m]
    <3>1. \A i \in 1 .. Len(a) : i <= Len(b) => a[i] = b[i]
      BY <1>2, SameOrderLen
    <3> QED
      BY <2>6, <3>1
  <2>4. b[m] < b[n]
    <3>1. Increasing(b)
      BY <1>2
    <3> QED
      BY <2>6, <3>1 DEF Increasing
  <2>5. b[n] \in Nat
    BY <2>1
  <2> QED
    BY <2>2, <2>3, <2>4, <2>5
<1>3. Len(k) = Len(l)
  <2>1. Len(k) >= Len(l) /\ Len(l) >= Len(k)
    BY <1>2
  <2>2. Len(k) \in Nat /\ Len(l) \in Nat
    OBVIOUS
  <2> QED
    BY <2>1, <2>2
<1>4. \A i \in 1 .. Len(k) : k[i] = l[i]
  BY <1>1, <1>3, SameOrderLen
<1> QED
  BY <1>1, <1>3, <1>4

-----------------------------------------------------------------------------
\* The ids of an ascending list, in its order.
LEMMA IdsIncrease ==
  ASSUME NEW S, \A e \in S : e.id \in Nat, NEW s \in Seq(S), Ascending(s)
  PROVE  /\ IdsInOrder(s) \in Seq(Nat) /\ Increasing(IdsInOrder(s))
         /\ Range(IdsInOrder(s)) = {e.id : e \in Range(s)}
<1> DEFINE l == IdsInOrder(s)
<1>1. DOMAIN s = 1 .. Len(s) /\ Len(s) \in Nat /\ \A i \in 1 .. Len(s) : s[i] \in S
  OBVIOUS
<1>2. l = [i \in 1 .. Len(s) |-> s[i].id]
  BY <1>1 DEF IdsInOrder
<1> HIDE DEF l
<1>3. l \in [1 .. Len(s) -> Nat]
  BY <1>1, <1>2
<1>4. l \in Seq(Nat) /\ DOMAIN l = 1 .. Len(s) /\ \A i \in 1 .. Len(s) : l[i] = s[i].id
  BY <1>1, <1>2, <1>3, SeqDef
<1>5. Increasing(l)
  BY <1>1, <1>4 DEF Increasing, Ascending
<1>6. Range(l) = {e.id : e \in Range(s)}
  BY <1>1, <1>4 DEF Range
<1> QED
  BY <1>4, <1>5, <1>6 DEF l

\* An entry put in front.
LEMMA IdsCons ==
  ASSUME NEW S, NEW h \in S, NEW s \in Seq(S)
  PROVE  IdsInOrder(<<h>> \o s) = <<h.id>> \o IdsInOrder(s)
<1> DEFINE t == <<h>> \o s
           l == IdsInOrder(s)
           V == {e.id : e \in S}
<1>1. /\ Len(s) \in Nat /\ DOMAIN s = 1 .. Len(s) /\ t \in Seq(S) /\ Len(t) = Len(s) + 1
      /\ t[1] = h /\ \A i \in 1 .. Len(s) : t[i + 1] = s[i] /\ s[i] \in S
  OBVIOUS
<1> HIDE DEF t
<1>2. l = [i \in 1 .. Len(s) |-> s[i].id]
  BY <1>1 DEF IdsInOrder
<1>3. l \in [1 .. Len(s) -> V] /\ h.id \in V
  BY <1>1, <1>2
<1> HIDE DEF l, V
<1>4. l \in Seq(V) /\ Len(l) = Len(s)
  BY <1>1, <1>3, SeqDef
<1>5. LET r == <<h.id>> \o l
      IN  r \in Seq(V) /\ Len(r) = Len(s) + 1 /\ r[1] = h.id /\ \A i \in 1 .. Len(s) : r[i + 1] = l[i]
  BY <1>3, <1>4
<1> DEFINE r == <<h.id>> \o l
<1>6. r \in Seq(V) /\ Len(r) = Len(s) + 1 /\ r[1] = h.id /\ \A i \in 1 .. Len(s) : r[i + 1] = l[i]
  BY <1>5
<1> HIDE DEF r
<1>7. DOMAIN r = 1 .. Len(s) + 1 /\ r = [i \in 1 .. Len(s) + 1 |-> r[i]]
  BY <1>6
<1>8. DOMAIN t = 1 .. Len(s) + 1
  BY <1>1
<1>9. ASSUME NEW i \in 1 .. Len(s) + 1 PROVE r[i] = t[i].id
  <2>1. CASE i = 1
    BY <1>1, <1>6, <2>1
  <2>2. CASE i # 1
    <3>1. i - 1 \in 1 .. Len(s) /\ (i - 1) + 1 = i
      BY <1>1, <2>2
    <3>2. r[i] = l[i - 1] /\ t[i] = s[i - 1] /\ l[i - 1] = s[i - 1].id
      BY <1>1, <1>2, <1>6, <3>1
    <3> QED
      BY <3>2
  <2> QED
    BY <2>1, <2>2
<1>10. IdsInOrder(t) = [i \in 1 .. Len(s) + 1 |-> t[i].id]
  BY <1>8 DEF IdsInOrder
<1>11. IdsInOrder(t) = r
  BY <1>7, <1>9, <1>10
<1> QED
  BY <1>11 DEF r, l, t

\* An element in front that is not left out.
LEMMA WithoutCons ==
  ASSUME NEW S, NEW T, NEW h \in S, h \notin T, NEW s \in Seq(S)
  PROVE  Without(<<h>> \o s, T) = <<h>> \o Without(s, T)
<1> DEFINE A == {t \in Seq(S) : Without(<<h>> \o t, T) = <<h>> \o Without(t, T)}
<1>1. <<>> \in A
  <2>1. <<h>> \o <<>> = Append(<<>>, h) /\ <<>> \in Seq(S)
    OBVIOUS
  <2>2. Without(Append(<<>>, h), T) = Append(<<>>, h)
    <3>1. Without(Append(<<>>, h), T) = IF h \in T THEN Without(<<>>, T) ELSE Append(Without(<<>>, T), h)
      BY <2>1, WithoutAppend
    <3> QED
      BY <3>1, WithoutEmpty
  <2> QED
    BY <2>1, <2>2, WithoutEmpty
<1>2. ASSUME NEW t \in A \cap Seq(S), NEW e \in S PROVE Append(t, e) \in A
  <2> DEFINE w == Without(t, T)
             u == <<h>> \o t
  <2>1. t \in Seq(S) /\ u \in Seq(S) /\ Append(t, e) \in Seq(S) /\ w \in Seq(S)
    BY WithoutType
  <2>2. Without(u, T) = <<h>> \o w
    OBVIOUS
  <2>3. <<h>> \o Append(t, e) = Append(u, e) /\ <<h>> \o Append(w, e) = Append(<<h>> \o w, e)
    <3> HIDE DEF w
    <3> QED
      BY <2>1, ConsAppend
  <2> HIDE DEF u, w
  <2>4. Without(Append(u, e), T) = IF e \in T THEN <<h>> \o w ELSE Append(<<h>> \o w, e)
    BY <2>1, <2>2, WithoutAppend
  <2>5. Without(Append(t, e), T) = IF e \in T THEN w ELSE Append(w, e)
    BY <2>1, WithoutAppend DEF w
  <2>6. Without(<<h>> \o Append(t, e), T) = <<h>> \o Without(Append(t, e), T)
    BY <2>3, <2>4, <2>5
  <2> QED
    BY <2>1, <2>6
<1> HIDE DEF A
<1>3. s \in A
  BY <1>1, <1>2, SeqInduction
<1> QED
  BY <1>3 DEF A

-----------------------------------------------------------------------------
\* An id that is nowhere.
LEMMA IndexNone ==
  ASSUME NEW S, NEW s \in Seq(S), NEW id, id \notin Ids(s)
  PROVE  IndexOf(s, id) = 0
<1>1. {i \in 1 .. Len(s) : s[i].id = id} = {}
  BY DEF Ids
<1> QED
  BY <1>1 DEF IndexOf, SelectInSeq

\* The last compaction of a path, if there is one.
LEMMA LastCompactionIs ==
  ASSUME NEW S, NEW s \in Seq(S)
  PROVE  \/ LastCompaction(s) = 0 /\ \A i \in 1 .. Len(s) : s[i].kind # "compaction"
         \/ /\ LastCompaction(s) \in 1 .. Len(s) /\ s[LastCompaction(s)].kind = "compaction"
            /\ \A i \in 1 .. Len(s) : s[i].kind = "compaction" => i <= LastCompaction(s)
<1> DEFINE I == {i \in 1 .. Len(s) : s[i].kind = "compaction"}
<1>1. LastCompaction(s) = IF I # {} THEN Max(I) ELSE 0
  BY DEF LastCompaction, SelectLastInSeq
<1>2. CASE I = {}
  BY <1>1, <1>2
<1>3. CASE I # {}
  <2>1. Len(s) \in Nat /\ I \in SUBSET (0 .. Len(s))
    OBVIOUS
  <2>2. Max(I) \in I /\ \A y \in I : Max(I) >= y
    <3> HIDE DEF I
    <3>1. PICK x \in I : \A y \in I : y <= x
      BY <1>3, <2>1, Largest
    <3>2. \A y \in I : x >= y
      BY <2>1, <3>1
    <3> QED
      BY <3>2 DEF Max
  <2>3. LastCompaction(s) = Max(I)
    BY <1>1, <1>3
  <2>4. LastCompaction(s) \in I /\ \A y \in I : LastCompaction(s) >= y
    BY <2>2, <2>3
  <2>5. \A a, b \in 1 .. Len(s) : a >= b => b <= a
    OBVIOUS
  <2>6. \A y \in I : y <= LastCompaction(s)
    <3>1. \A y \in I : y \in 1 .. Len(s)
      OBVIOUS
    <3> HIDE DEF I
    <3> QED
      BY <2>4, <2>5, <3>1
  <2> QED
    BY <2>4, <2>6
<1> QED
  BY <1>2, <1>3

\* A piece of an ascending list.
LEMMA PieceIs ==
  ASSUME NEW S, NEW s \in Seq(S), NEW a \in 1 .. Len(s) + 1, NEW b \in 0 .. Len(s), a <= b + 1
  PROVE  /\ SubSeq(s, a, b) \in Seq(S)
         /\ Range(SubSeq(s, a, b)) = {s[k] : k \in a .. b}
         /\ Ascending(s) => Ascending(SubSeq(s, a, b))
<1> DEFINE t == SubSeq(s, a, b)
           N == b + 1 - a
<1>1. N \in Nat /\ a \in Nat /\ b \in Nat /\ Len(s) \in Nat /\ DOMAIN s = 1 .. Len(s)
  OBVIOUS
<1>2. t \in Seq(S) /\ Len(t) = N /\ \A i \in 1 .. N : t[i] = s[a + i - 1]
  OBVIOUS
<1> HIDE DEF t
<1>3. DOMAIN t = 1 .. N
  BY <1>2
<1>4. \A i \in 1 .. N : a + i - 1 \in a .. b /\ a + i - 1 \in DOMAIN s
  BY <1>1
<1>5. \A k \in a .. b : k - a + 1 \in 1 .. N /\ a + (k - a + 1) - 1 = k
  BY <1>1
<1>6. Range(t) = {s[k] : k \in a .. b}
  <2>1. Range(t) = {t[i] : i \in 1 .. N}
    BY <1>3 DEF Range
  <2> QED
    BY <1>2, <1>4, <1>5, <2>1
<1>7. ASSUME Ascending(s), NEW i \in DOMAIN t, NEW j \in DOMAIN t, i < j PROVE t[i].id < t[j].id
  <2>1. a + i - 1 < a + j - 1 /\ a + i - 1 \in DOMAIN s /\ a + j - 1 \in DOMAIN s
    BY <1>1, <1>3, <1>4, <1>7
  <2>2. s[a + i - 1].id < s[a + j - 1].id
    BY <1>7, <2>1 DEF Ascending
  <2> QED
    BY <1>2, <1>3, <2>2
<1> QED
  BY <1>2, <1>6, <1>7 DEF Ascending, t

\* Two lists one after the other.
LEMMA JoinIs ==
  ASSUME NEW S, NEW x \in Seq(S), NEW y \in Seq(S)
  PROVE  /\ x \o y \in Seq(S) /\ Range(x \o y) = Range(x) \cup Range(y)
         /\ Ascending(x) /\ Ascending(y) /\ (\A d \in Range(x), e \in Range(y) : d.id < e.id)
              => Ascending(x \o y)
<1> DEFINE t == x \o y
           N == Len(x)
           M == Len(y)
<1>1. /\ N \in Nat /\ M \in Nat /\ DOMAIN x = 1 .. N /\ DOMAIN y = 1 .. M
      /\ t \in Seq(S) /\ Len(t) = N + M
      /\ (\A i \in 1 .. N : t[i] = x[i]) /\ (\A i \in 1 .. M : t[N + i] = y[i])
  OBVIOUS
<1> HIDE DEF t
<1>2. DOMAIN t = 1 .. N + M
  BY <1>1
<1> HIDE DEF N, M
<1>3. /\ \A i \in 1 .. N : i \in 1 .. N + M
      /\ \A i \in 1 .. M : N + i \in 1 .. N + M
      /\ \A i \in 1 .. N + M : i \notin 1 .. N => i - N \in 1 .. M /\ N + (i - N) = i
  BY <1>1
<1>4. Range(t) = Range(x) \cup Range(y)
  <2>1. Range(t) = {t[i] : i \in 1 .. N + M} /\ Range(x) = {x[i] : i \in 1 .. N} /\ Range(y) = {y[i] : i \in 1 .. M}
    BY <1>1, <1>2 DEF Range
  <2>2. ASSUME NEW i \in 1 .. N + M PROVE t[i] \in Range(x) \cup Range(y)
    BY <1>1, <1>3, <2>1
  <2>3. ASSUME NEW i \in 1 .. N PROVE x[i] \in Range(t)
    BY <1>1, <1>3, <2>1
  <2>4. ASSUME NEW i \in 1 .. M PROVE y[i] \in Range(t)
    BY <1>1, <1>3, <2>1
  <2> QED
    BY <2>1, <2>2, <2>3, <2>4
<1>5. ASSUME Ascending(x), Ascending(y), \A d \in Range(x), e \in Range(y) : d.id < e.id,
             NEW i \in DOMAIN t, NEW j \in DOMAIN t, i < j
      PROVE  t[i].id < t[j].id
  <2>1. CASE j \in 1 .. N
    <3>1. i \in 1 .. N
      BY <1>1, <1>2, <1>5, <2>1
    <3> QED
      BY <1>1, <1>5, <2>1, <3>1 DEF Ascending
  <2>2. CASE i \notin 1 .. N
    <3>1. j \notin 1 .. N /\ i - N < j - N
      BY <1>1, <1>2, <1>5, <2>2
    <3>2. i - N \in 1 .. M /\ N + (i - N) = i /\ j - N \in 1 .. M /\ N + (j - N) = j
      BY <1>2, <1>3, <2>2, <3>1
    <3>3. y[i - N].id < y[j - N].id
      BY <1>1, <1>5, <3>1, <3>2 DEF Ascending
    <3>4. t[i] = y[i - N] /\ t[j] = y[j - N]
      BY <1>1, <3>2
    <3> QED
      BY <3>3, <3>4
  <2>3. CASE i \in 1 .. N /\ j \notin 1 .. N
    <3>1. j - N \in 1 .. M /\ N + (j - N) = j
      BY <1>2, <1>3, <2>3
    <3>2. t[i] \in Range(x) /\ t[j] \in Range(y)
      BY <1>1, <2>3, <3>1 DEF Range
    <3> QED
      BY <1>5, <3>2
  <2> QED
    BY <2>1, <2>2, <2>3
<1> QED
  BY <1>1, <1>4, <1>5 DEF Ascending, t

\* The ids of the messages of a list.
MessageIds(s) == {e.id : e \in {x \in Range(s) : IsMessage(x)}}

\* What the context holds beside a compaction: the messages after it, and before
\* it those from its first kept entry on, if that is in the list.
RestIds(s, comp) ==
  {e.id : e \in {x \in Range(s) :
     /\ IsMessage(x)
     /\ comp.id < x.id \/ (comp.ref \in Ids(s) /\ comp.ref <= x.id /\ x.id < comp.id)}}

\* The entries of that part, ascending.
LEMMA RestIs ==
  ASSUME NEW n \in Nat, NEW s \in Seq(EntriesUpTo(n)), Ascending(s), NEW c \in 1 .. Len(s)
  PROVE  LET kept == IndexOf(SubSeq(s, 1, c - 1), s[c].ref)
             rest == (IF kept = 0 THEN <<>> ELSE SubSeq(s, kept, c - 1)) \o SubSeq(s, c + 1, Len(s))
         IN  /\ rest \in Seq(EntriesUpTo(n)) /\ Ascending(rest)
             /\ Range(rest) = {x \in Range(s) :
                  s[c].id < x.id \/ (s[c].ref \in Ids(s) /\ s[c].ref <= x.id /\ x.id < s[c].id)}
<1> DEFINE E == EntriesUpTo(n)
           N == Len(s)
           before == SubSeq(s, 1, c - 1)
           ref == s[c].ref
           kept == IndexOf(before, ref)
           part == IF kept = 0 THEN <<>> ELSE SubSeq(s, kept, c - 1)
           after == SubSeq(s, c + 1, N)
           IsKept(x) == ref \in Ids(s) /\ ref <= x.id /\ x.id < s[c].id
<1>1. s \in Seq(E) /\ (\A e \in E : e.id \in Nat /\ e.ref \in Nat /\ e.ref < e.id)
  BY EntryFacts
<1> HIDE DEF E
<1>2. N \in Nat /\ DOMAIN s = 1 .. N /\ c \in Nat /\ (\A i \in 1 .. N : s[i] \in E) /\ c \in 1 .. N
  BY <1>1
<1> HIDE DEF N
<1>3. \A i \in 1 .. N : s[i].id \in Nat /\ s[i].ref \in Nat /\ s[i].ref < s[i].id
  BY <1>1, <1>2
<1>4. \A i, j \in 1 .. N : i < j <=> s[i].id < s[j].id
  <2> SUFFICES ASSUME NEW i \in 1 .. N, NEW j \in 1 .. N PROVE i < j <=> s[i].id < s[j].id
    OBVIOUS
  <2>1. (i < j => s[i].id < s[j].id) /\ (j < i => s[j].id < s[i].id)
    BY <1>2 DEF Ascending
  <2> QED
    BY <1>2, <1>3, <2>1
<1>5. 1 \in 1 .. N + 1 /\ c - 1 \in 0 .. N /\ 1 <= (c - 1) + 1 /\ c + 1 \in 1 .. N + 1 /\ N \in 0 .. N /\ c + 1 <= N + 1
  BY <1>2
<1>6. before \in Seq(E) /\ Len(before) = c - 1 /\ \A i \in 1 .. c - 1 : before[i] = s[i]
  BY <1>1, <1>2 DEF N
<1>7. after \in Seq(E) /\ Ascending(after) /\ Range(after) = {s[k] : k \in c + 1 .. N}
  <2>1. s \in Seq(E) /\ c + 1 \in 1 .. Len(s) + 1 /\ N \in 0 .. Len(s) /\ c + 1 <= N + 1
    BY <1>1, <1>5 DEF N
  <2>2. /\ SubSeq(s, c + 1, N) \in Seq(E)
        /\ Range(SubSeq(s, c + 1, N)) = {s[k] : k \in c + 1 .. N}
        /\ Ascending(s) => Ascending(SubSeq(s, c + 1, N))
    BY <2>1, PieceIs
  <2> QED
    BY <2>2
<1> HIDE DEF before, ref
<1>8. /\ part \in Seq(E) /\ Ascending(part)
      /\ Range(part) = {x \in Range(s) : IsKept(x)}
  <2>0. DOMAIN before = 1 .. c - 1 /\ Range(s) = {s[i] : i \in 1 .. N}
    BY <1>2, <1>6 DEF Range
  <2>1. CASE ref \notin Ids(before)
    <3>1. kept = 0
      BY <1>6, <2>1, IndexNone
    <3>2. ref \notin Ids(s)
      <4> SUFFICES ASSUME NEW k \in 1 .. N, s[k].id = ref PROVE FALSE
        BY <1>2 DEF Ids
      <4>1. s[k].id < s[c].id
        BY <1>2, <1>3 DEF ref
      <4>2. k \in 1 .. c - 1
        BY <1>2, <1>4, <4>1
      <4> QED
        BY <1>6, <2>0, <2>1, <4>2 DEF Ids
    <3>3. part = <<>> /\ Range(<<>>) = {} /\ Ascending(<<>>) /\ <<>> \in Seq(E)
      BY <3>1 DEF Range, Ascending
    <3> QED
      BY <3>2, <3>3
  <2>2. CASE ref \in Ids(before)
    <3>1. kept \in 1 .. c - 1 /\ before[kept].id = ref
      BY <1>6, <2>2, IndexIs
    <3> HIDE DEF kept
    <3>2. kept # 0 /\ kept \in 1 .. N /\ kept \in 1 .. N + 1 /\ c - 1 \in 0 .. N /\ kept <= (c - 1) + 1
      BY <1>2, <3>1
    <3>3. s[kept].id = ref /\ ref \in Ids(s)
      BY <1>2, <1>6, <3>1, <3>2 DEF Ids
    <3>4. part = SubSeq(s, kept, c - 1)
      BY <3>2
    <3>5. part \in Seq(E) /\ Ascending(part) /\ Range(part) = {s[k] : k \in kept .. c - 1}
      <4>1. Len(s) = N
        BY DEF N
      <4> QED
        BY <1>1, <3>2, <3>4, <4>1, PieceIs
    <3>6. ASSUME NEW k \in 1 .. N PROVE k \in kept .. c - 1 <=> IsKept(s[k])
      <4>1. (k < c <=> s[k].id < s[c].id) /\ (k < kept <=> s[k].id < s[kept].id)
        BY <1>2, <1>4, <3>2
      <4>2. k \in kept .. c - 1 <=> ~(k < kept) /\ k < c
        BY <1>2, <3>1
      <4>3. ref <= s[k].id <=> ~(s[k].id < s[kept].id)
        BY <1>3, <3>2, <3>3
      <4> QED
        BY <3>3, <4>1, <4>2, <4>3
    <3>7. \A k \in kept .. c - 1 : k \in 1 .. N
      BY <1>2, <3>1
    <3> HIDE DEF IsKept
    <3> QED
      BY <2>0, <3>5, <3>6, <3>7
  <2> QED
    BY <2>1, <2>2
<1>9. Range(after) = {x \in Range(s) : s[c].id < x.id}
  <2>1. \A k \in 1 .. N : k \in c + 1 .. N <=> s[c].id < s[k].id
    <3> SUFFICES ASSUME NEW k \in 1 .. N PROVE k \in c + 1 .. N <=> s[c].id < s[k].id
      OBVIOUS
    <3>1. c < k <=> s[c].id < s[k].id
      BY <1>2, <1>4
    <3> QED
      BY <1>2, <3>1
  <2>2. \A k \in c + 1 .. N : k \in 1 .. N
    BY <1>2
  <2>3. Range(s) = {s[i] : i \in 1 .. N}
    BY <1>2 DEF Range
  <2> QED
    BY <1>7, <2>1, <2>2, <2>3
<1>10. \A d \in Range(part), e \in Range(after) : d.id < e.id
  <2>1. \A d \in Range(part) : d \in Range(s) /\ d.id < s[c].id
    BY <1>8
  <2>2. \A e \in Range(after) : e \in Range(s) /\ s[c].id < e.id
    BY <1>9
  <2>3. \A e \in Range(s) : e.id \in Nat
    BY <1>2, <1>3 DEF Range
  <2>4. s[c].id \in Nat
    BY <1>2, <1>3
  <2>5. \A a, b, d \in Nat : a < b /\ b < d => a < d
    OBVIOUS
  <2> HIDE DEF part, after
  <2> QED
    BY <2>1, <2>2, <2>3, <2>4, <2>5
<1> DEFINE rest == part \o after
<1>11. rest \in Seq(E) /\ Ascending(rest) /\ Range(rest) = Range(part) \cup Range(after)
  <2>1. part \in Seq(E) /\ Ascending(part)
    BY <1>8
  <2> HIDE DEF part, after
  <2> QED
    BY <1>7, <1>10, <2>1, JoinIs
<1>12. Range(rest) = {x \in Range(s) : s[c].id < x.id \/ IsKept(x)}
  <2>1. Range(part) = {x \in Range(s) : IsKept(x)}
    BY <1>8
  <2> HIDE DEF part, after, rest, IsKept
  <2> QED
    BY <1>9, <1>11, <2>1
<1> QED
  BY <1>11, <1>12 DEF E, N, before, ref

\* What the context of an ascending list shows: its messages in the order of
\* their ids, or the last compaction and then the rest of them.
LEMMA ContextIs ==
  ASSUME NEW n \in Nat, NEW s \in Seq(EntriesUpTo(n)), Ascending(s)
  PROVE  \E l \in Seq(Nat) :
           /\ Increasing(l)
           /\ \/ /\ LastCompaction(s) = 0 /\ \A x \in Range(s) : x.kind # "compaction"
                 /\ IdsInOrder(ContextMessages(s)) = l /\ Range(l) = MessageIds(s)
              \/ LET comp == s[LastCompaction(s)]
                 IN  /\ LastCompaction(s) # 0 /\ comp \in Range(s) /\ comp.kind = "compaction"
                     /\ \A x \in Range(s) : x.kind = "compaction" => x.id <= comp.id
                     /\ IdsInOrder(ContextMessages(s)) = <<comp.id>> \o l /\ Range(l) = RestIds(s, comp)
<1> DEFINE E == EntriesUpTo(n)
           T == {e \in Range(s) : ~IsMessage(e)}
           c == LastCompaction(s)
<1>1. s \in Seq(E) /\ (\A e \in E : e.id \in Nat) /\ E = EntriesUpTo(n)
  BY EntryFacts
<1> HIDE DEF E
<1>2. Len(s) \in Nat /\ DOMAIN s = 1 .. Len(s) /\ Range(s) = {s[i] : i \in 1 .. Len(s)}
  <2>1. DOMAIN s = 1 .. Len(s) /\ Len(s) \in Nat
    OBVIOUS
  <2> QED
    BY <2>1 DEF Range
<1>3. ContextMessages(s) = Without(ContextEntries(s), T)
  BY DEF ContextMessages
\* The messages of a list of entries of the path.
<1>4. ASSUME NEW x \in Seq(E), Ascending(x), Range(x) \subseteq Range(s)
      PROVE  LET l == IdsInOrder(Without(x, T))
             IN  l \in Seq(Nat) /\ Increasing(l) /\ Range(l) = {e.id : e \in {y \in Range(x) : IsMessage(y)}}
  <2> DEFINE w == Without(x, T)
  <2>1. w \in Seq(E) /\ Ascending(w) /\ Range(w) = Range(x) \ T
    BY <1>1, <1>4, WithoutType, WithoutAscends, WithoutKeeps
  <2>2. Range(x) \ T = {y \in Range(x) : IsMessage(y)}
    BY <1>4
  <2> HIDE DEF w
  <2>3. IdsInOrder(w) \in Seq(Nat) /\ Increasing(IdsInOrder(w)) /\ Range(IdsInOrder(w)) = {e.id : e \in Range(w)}
    BY <1>1, <2>1, IdsIncrease
  <2> QED
    BY <2>1, <2>2, <2>3 DEF w
<1>5. CASE c = 0 /\ \A i \in 1 .. Len(s) : s[i].kind # "compaction"
  <2>1. ContextEntries(s) = s
    BY <1>5 DEF ContextEntries
  <2> DEFINE l == IdsInOrder(Without(s, T))
  <2>2. l \in Seq(Nat) /\ Increasing(l) /\ Range(l) = MessageIds(s)
    BY <1>1, <1>4 DEF MessageIds
  <2>3. \A x \in Range(s) : x.kind # "compaction"
    BY <1>2, <1>5
  <2>4. IdsInOrder(ContextMessages(s)) = l
    BY <1>3, <2>1
  <2> HIDE DEF l
  <2> QED
    BY <1>5, <2>2, <2>3, <2>4
<1>6. CASE /\ c \in 1 .. Len(s) /\ s[c].kind = "compaction"
           /\ \A i \in 1 .. Len(s) : s[i].kind = "compaction" => i <= c
  <2> DEFINE comp == s[c]
             kept == IndexOf(SubSeq(s, 1, c - 1), comp.ref)
             part == IF kept = 0 THEN <<>> ELSE SubSeq(s, kept, c - 1)
             rest == part \o SubSeq(s, c + 1, Len(s))
  <2>1. /\ rest \in Seq(E) /\ Ascending(rest)
        /\ Range(rest) = {x \in Range(s) :
             comp.id < x.id \/ (comp.ref \in Ids(s) /\ comp.ref <= x.id /\ x.id < comp.id)}
    BY <1>1, <1>6, RestIs
  <2>2. ContextEntries(s) = <<comp>> \o rest
    <3>1. c # 0
      BY <1>2, <1>6
    <3>2. ContextEntries(s) = <<comp>> \o part \o SubSeq(s, c + 1, Len(s))
      BY <3>1 DEF ContextEntries
    <3>3. part \in Seq(E) /\ SubSeq(s, c + 1, Len(s)) \in Seq(E) /\ comp \in E
      <4>1. kept # 0 => SubSeq(s, kept, c - 1) \in Seq(E)
        <5>1. kept \in Nat
          <6>1. SubSeq(s, 1, c - 1) \in Seq(E)
            BY <1>1, <1>2, <1>6
          <6>2. kept = 0 \/ kept \in 1 .. Len(SubSeq(s, 1, c - 1))
            BY <6>1, IndexNone, IndexIs
          <6> QED
            BY <6>1, <6>2
        <5> HIDE DEF kept
        <5> QED
          BY <1>1, <1>2, <1>6, <5>1
      <4> QED
        BY <1>1, <1>2, <1>6, <4>1
    <3> HIDE DEF part, comp
    <3>4. \A u, v \in Seq(E) : \A h \in E : (<<h>> \o u) \o v = <<h>> \o (u \o v)
      OBVIOUS
    <3> QED
      BY <3>2, <3>3, <3>4
  <2>3. comp \in Range(s) /\ comp \in E /\ IsMessage(comp) /\ comp \notin T
    BY <1>1, <1>2, <1>6 DEF IsMessage, LabelKinds
  <2>4. \A x \in Range(s) : x.kind = "compaction" => x.id <= comp.id
    <3> SUFFICES ASSUME NEW i \in 1 .. Len(s), s[i].kind = "compaction" PROVE s[i].id <= comp.id
      BY <1>2
    <3>1. i <= c /\ s[i].id \in Nat
      BY <1>1, <1>2, <1>6
    <3>2. CASE i = c
      BY <3>1, <3>2
    <3>3. CASE i # c
      <4>1. i < c
        BY <1>2, <1>6, <3>1, <3>3
      <4>2. s[i].id < s[c].id /\ s[c].id \in Nat
        BY <1>1, <1>2, <1>6, <4>1 DEF Ascending
      <4> QED
        BY <3>1, <4>2
    <3> QED
      BY <3>2, <3>3
  <2> HIDE DEF rest, comp
  <2> DEFINE w == Without(rest, T)
             l == IdsInOrder(w)
  <2>5. w \in Seq(E)
    BY <2>1, WithoutType
  <2>6. ContextMessages(s) = <<comp>> \o w
    BY <1>3, <2>1, <2>2, <2>3, WithoutCons
  <2>7. l \in Seq(Nat) /\ Increasing(l) /\ Range(l) = RestIds(s, comp)
    <3>1. Range(rest) \subseteq Range(s)
      BY <2>1
    <3>2. l \in Seq(Nat) /\ Increasing(l) /\ Range(l) = {e.id : e \in {y \in Range(rest) : IsMessage(y)}}
      BY <1>4, <2>1, <3>1
    <3>3. {y \in Range(rest) : IsMessage(y)} = {x \in Range(s) :
             /\ IsMessage(x)
             /\ comp.id < x.id \/ (comp.ref \in Ids(s) /\ comp.ref <= x.id /\ x.id < comp.id)}
      BY <2>1
    <3> QED
      BY <3>2, <3>3 DEF RestIds
  <2> HIDE DEF w
  <2>8. IdsInOrder(ContextMessages(s)) = <<comp.id>> \o l
    BY <2>3, <2>5, <2>6, IdsCons
  <2>9. comp = s[LastCompaction(s)] /\ LastCompaction(s) # 0 /\ comp.kind = "compaction"
    BY <1>2, <1>6 DEF comp
  <2> HIDE DEF l, c
  <2> QED
    BY <2>3, <2>4, <2>7, <2>8, <2>9
<1> HIDE DEF c
<1>7. \/ c = 0 /\ \A i \in 1 .. Len(s) : s[i].kind # "compaction"
      \/ /\ c \in 1 .. Len(s) /\ s[c].kind = "compaction"
         /\ \A i \in 1 .. Len(s) : s[i].kind = "compaction" => i <= c
  BY <1>1, LastCompactionIs DEF c
<1> QED
  BY <1>5, <1>6, <1>7

\* Two lists with the same messages show the same context, when the first kept
\* entry of the compaction is not one that only one of them has.
LEMMA SameContext ==
  ASSUME NEW n \in Nat, NEW path \in Seq(EntriesUpTo(n)), Ascending(path),
         NEW m \in Nat, NEW all \in Seq(EntriesUpTo(m)), Ascending(all),
         \A e \in Range(path) : e.kind \notin LabelKinds => \E x \in Range(all) : Same(x, e),
         \A x \in Range(all) : \/ x.kind \in LabelKinds /\ x.id > n
                               \/ x.kind \notin LabelKinds /\ \E e \in Range(path) : Same(x, e)
  PROVE  \/ IdsInOrder(ContextMessages(all)) = IdsInOrder(ContextMessages(path))
         \/ /\ LastCompaction(path) # 0
            /\ \E e \in Range(path) : e.id = path[LastCompaction(path)].ref /\ e.kind \in LabelKinds
<1> DEFINE labelKept == \E e \in Range(path) : e.id = path[LastCompaction(path)].ref /\ e.kind \in LabelKinds
<1>1. /\ \A x \in Range(path) : x.id \in Nat /\ x.id <= n /\ x.ref \in Nat /\ x.ref < x.id
      /\ \A x \in Range(all) : x.id \in Nat /\ x.ref \in Nat /\ x.ref < x.id
  <2>1. \A s \in Seq(EntriesUpTo(n)) : \A x \in Range(s) : x \in EntriesUpTo(n)
    BY DEF Range
  <2>2. \A s \in Seq(EntriesUpTo(m)) : \A x \in Range(s) : x \in EntriesUpTo(m)
    BY DEF Range
  <2> QED
    BY <2>1, <2>2, EntryFacts
<1>2. Ids(path) = {x.id : x \in Range(path)} /\ Ids(all) = {x.id : x \in Range(all)}
  BY DEF Ids, Range
\* Their messages have the same ids, and the same compactions are among them.
<1>3. \A x, y : Same(x, y) => (IsMessage(x) <=> IsMessage(y)) /\ x.id = y.id /\ x.kind = y.kind /\ x.ref = y.ref
  BY DEF Same, IsMessage
<1>4. \A x : IsMessage(x) => x.kind \notin LabelKinds
  BY DEF IsMessage
<1>5. ASSUME NEW e \in Range(path), IsMessage(e) PROVE \E x \in Range(all) : Same(x, e) /\ IsMessage(x)
  BY <1>3, <1>4, <1>5
<1>6. ASSUME NEW x \in Range(all), IsMessage(x) PROVE \E e \in Range(path) : Same(x, e) /\ IsMessage(e)
  BY <1>3, <1>4, <1>6
<1>7. MessageIds(all) = MessageIds(path)
  BY <1>3, <1>5, <1>6 DEF MessageIds
<1>8. PICK k \in Seq(Nat) :
        /\ Increasing(k)
        /\ \/ /\ LastCompaction(path) = 0 /\ \A x \in Range(path) : x.kind # "compaction"
              /\ IdsInOrder(ContextMessages(path)) = k /\ Range(k) = MessageIds(path)
           \/ LET comp == path[LastCompaction(path)]
              IN  /\ LastCompaction(path) # 0 /\ comp \in Range(path) /\ comp.kind = "compaction"
                  /\ \A x \in Range(path) : x.kind = "compaction" => x.id <= comp.id
                  /\ IdsInOrder(ContextMessages(path)) = <<comp.id>> \o k /\ Range(k) = RestIds(path, comp)
  BY ContextIs
<1>9. PICK l \in Seq(Nat) :
        /\ Increasing(l)
        /\ \/ /\ LastCompaction(all) = 0 /\ \A x \in Range(all) : x.kind # "compaction"
              /\ IdsInOrder(ContextMessages(all)) = l /\ Range(l) = MessageIds(all)
           \/ LET comp == all[LastCompaction(all)]
              IN  /\ LastCompaction(all) # 0 /\ comp \in Range(all) /\ comp.kind = "compaction"
                  /\ \A x \in Range(all) : x.kind = "compaction" => x.id <= comp.id
                  /\ IdsInOrder(ContextMessages(all)) = <<comp.id>> \o l /\ Range(l) = RestIds(all, comp)
  BY ContextIs
<1>10. \A x : x.kind = "compaction" => IsMessage(x)
  BY DEF IsMessage, LabelKinds
<1>11. CASE \A x \in Range(path) : x.kind # "compaction"
  <2>1. ASSUME NEW x \in Range(all), x.kind = "compaction" PROVE FALSE
    <3>1. IsMessage(x)
      BY <1>10, <2>1
    <3>2. PICK e \in Range(path) : Same(x, e)
      BY <1>6, <3>1
    <3> QED
      BY <1>11, <2>1, <3>2 DEF Same
  <2>2. IdsInOrder(ContextMessages(path)) = k /\ Range(k) = MessageIds(path)
    BY <1>8, <1>11
  <2>3. IdsInOrder(ContextMessages(all)) = l /\ Range(l) = MessageIds(all)
    BY <1>9, <2>1
  <2> QED
    BY <1>7, <1>8, <1>9, <2>2, <2>3, SameOrder
<1>12. CASE \E x \in Range(path) : x.kind = "compaction"
  <2> DEFINE comp == path[LastCompaction(path)]
             twin == all[LastCompaction(all)]
  <2>1. /\ LastCompaction(path) # 0 /\ comp \in Range(path) /\ comp.kind = "compaction"
        /\ \A x \in Range(path) : x.kind = "compaction" => x.id <= comp.id
        /\ IdsInOrder(ContextMessages(path)) = <<comp.id>> \o k /\ Range(k) = RestIds(path, comp)
    BY <1>8, <1>12
  <2>2. \E x \in Range(all) : x.kind = "compaction"
    <3>1. PICK e \in Range(path) : e.kind = "compaction"
      BY <1>12
    <3>2. IsMessage(e)
      BY <1>10, <3>1
    <3>3. PICK x \in Range(all) : Same(x, e)
      BY <1>5, <3>2
    <3> QED
      BY <3>1, <3>3 DEF Same
  <2>3. /\ twin \in Range(all) /\ twin.kind = "compaction"
        /\ \A x \in Range(all) : x.kind = "compaction" => x.id <= twin.id
        /\ IdsInOrder(ContextMessages(all)) = <<twin.id>> \o l /\ Range(l) = RestIds(all, twin)
    BY <1>9, <2>2
  <2> SUFFICES ASSUME ~labelKept PROVE IdsInOrder(ContextMessages(all)) = IdsInOrder(ContextMessages(path))
    BY <2>1
  <2>4. \A e \in Range(path) : e.id = comp.ref => e.kind \notin LabelKinds
    OBVIOUS
  <2> HIDE DEF comp, twin, labelKept
  <2>5. PICK e \in Range(path) : Same(twin, e)
    BY <1>6, <1>10, <2>3
  <2>6. PICK x \in Range(all) : Same(x, comp)
    BY <1>5, <1>10, <2>1
  \* Entries of one list with the same id are the same one.
  <2>7. \A a, b \in Range(path) : a.id = b.id => a = b
    <3> SUFFICES ASSUME NEW i \in 1 .. Len(path), NEW j \in 1 .. Len(path), path[i].id = path[j].id
                 PROVE  path[i] = path[j]
      <4>1. Range(path) = {path[i] : i \in 1 .. Len(path)}
        <5>1. DOMAIN path = 1 .. Len(path)
          OBVIOUS
        <5> QED
          BY <5>1 DEF Range
      <4> QED
        BY <4>1
    <3>1. DOMAIN path = 1 .. Len(path) /\ i \in Nat /\ j \in Nat
      OBVIOUS
    <3>2. path[i].id \in Nat /\ (i < j => path[i].id < path[j].id) /\ (j < i => path[j].id < path[i].id)
      BY <1>1, <3>1 DEF Ascending, Range
    <3> QED
      BY <3>1, <3>2
  <2>8. twin.id = comp.id /\ twin.ref = comp.ref
    <3>1. e.kind = "compaction" /\ e.id = twin.id /\ e.ref = twin.ref /\ x.kind = "compaction" /\ x.id = comp.id
      BY <1>3, <2>1, <2>3, <2>5, <2>6
    <3>2. e.id <= comp.id /\ x.id <= twin.id
      BY <2>1, <2>3, <3>1
    <3>3. e.id \in Nat /\ comp.id \in Nat
      BY <1>1, <2>1
    <3>4. e.id = comp.id
      BY <3>1, <3>2, <3>3
    <3> QED
      BY <2>1, <2>7, <3>1, <3>4
  <2>9. comp.ref \in Ids(path) <=> comp.ref \in Ids(all)
    <3>1. ASSUME comp.ref \in Ids(path) PROVE comp.ref \in Ids(all)
      <4>1. PICK y \in Range(path) : y.id = comp.ref
        BY <1>2, <3>1
      <4>2. PICK z \in Range(all) : Same(z, y)
        BY <2>4, <4>1
      <4> QED
        BY <1>2, <1>3, <4>1, <4>2
    <3>2. ASSUME comp.ref \in Ids(all) PROVE comp.ref \in Ids(path)
      <4>1. PICK z \in Range(all) : z.id = comp.ref
        BY <1>2, <3>2
      <4>2. comp.ref \in Nat /\ comp.id \in Nat /\ comp.ref < comp.id /\ comp.id <= n
        BY <1>1, <2>1
      <4>3. ~(z.id > n)
        BY <4>1, <4>2
      <4>4. PICK y \in Range(path) : Same(z, y)
        BY <4>3
      <4> QED
        BY <1>2, <1>3, <4>1, <4>4
    <3> QED
      BY <3>1, <3>2
  <2>10. RestIds(all, twin) = RestIds(path, comp)
    <3> DEFINE In(id) == comp.id < id \/ (comp.ref \in Ids(path) /\ comp.ref <= id /\ id < comp.id)
    <3>1. RestIds(path, comp) = {y.id : y \in {z \in Range(path) : IsMessage(z) /\ In(z.id)}}
      BY DEF RestIds
    <3>2. RestIds(all, twin) = {y.id : y \in {z \in Range(all) : IsMessage(z) /\ In(z.id)}}
      BY <2>8, <2>9 DEF RestIds
    <3> HIDE DEF In
    <3>3. ASSUME NEW z \in Range(path), IsMessage(z), In(z.id)
          PROVE  \E y \in Range(all) : IsMessage(y) /\ In(y.id) /\ y.id = z.id
      BY <1>3, <1>5, <3>3
    <3>4. ASSUME NEW z \in Range(all), IsMessage(z), In(z.id)
          PROVE  \E y \in Range(path) : IsMessage(y) /\ In(y.id) /\ y.id = z.id
      BY <1>3, <1>6, <3>4
    <3> DEFINE P == {z \in Range(path) : IsMessage(z) /\ In(z.id)}
               Q == {z \in Range(all) : IsMessage(z) /\ In(z.id)}
    <3>5. (\A z \in P : \E y \in Q : y.id = z.id) /\ (\A z \in Q : \E y \in P : y.id = z.id)
      BY <3>3, <3>4
    <3>6. RestIds(path, comp) = {y.id : y \in P} /\ RestIds(all, twin) = {y.id : y \in Q}
      BY <3>1, <3>2
    <3> HIDE DEF P, Q
    <3>7. {y.id : y \in P} = {y.id : y \in Q}
      <4>1. ASSUME NEW z \in P PROVE z.id \in {y.id : y \in Q}
        BY <3>5
      <4>2. ASSUME NEW z \in Q PROVE z.id \in {y.id : y \in P}
        BY <3>5
      <4> QED
        BY <4>1, <4>2
    <3> QED
      BY <3>6, <3>7
  <2>11. k = l
    BY <1>8, <1>9, <2>1, <2>3, <2>10, SameOrder
  <2> QED
    BY <2>1, <2>3, <2>8, <2>11
<1> QED
  BY <1>11, <1>12

\* A prefix that is one longer.
LEMMA OneMore ==
  ASSUME NEW S, NEW s \in Seq(S), NEW i \in 1 .. Len(s)
  PROVE  SubSeq(s, 1, i) = Append(SubSeq(s, 1, i - 1), s[i])
<1>1. Len(s) \in Nat /\ i \in Nat /\ i # 0 /\ s[i] \in S /\ i \in 0 .. Len(s)
  OBVIOUS
<1>2. SubSeq(s, 1, i - 1) \in Seq(S)
  BY <1>1
<1> QED
  BY <1>1, <1>2

\* In a chain the path to the last entry is the whole chain.
LEMMA ChainPath ==
  ASSUME NEW n \in Nat, NEW s \in Seq(EntriesUpTo(n)), Chain(s)
  PROVE  PathTo(s, IF s = <<>> THEN NoId ELSE Last(s).id) = s
<1> DEFINE E == EntriesUpTo(n)
           N == Len(s)
           id(i) == IF i = 0 THEN NoId ELSE s[i].id
<1>1. s \in Seq(E) /\ Born(E) /\ \A e \in E : e.id \in 1 .. n /\ e.id \in Nat /\ e.id <= n
  BY EntryFacts
<1>2. PICK f \in [Nat -> Seq(E)] : PathBy(s, f)
  BY <1>1, PathIs
<1> HIDE DEF E
<1>3. N \in Nat /\ DOMAIN s = 1 .. N /\ \A i \in 1 .. N : s[i] \in E
  BY <1>1
<1>4. ASSUME NEW i \in 0 .. N PROVE id(i) \in Nat
  <2>1. CASE i = 0
    BY <2>1 DEF NoId
  <2>2. CASE i # 0
    <3>1. i \in 1 .. N /\ id(i) = s[i].id
      BY <1>3, <2>2
    <3> QED
      BY <1>1, <1>3, <3>1
  <2> QED
    BY <2>1, <2>2
<1>5. ASSUME NEW i \in 1 .. N PROVE id(i) \in Ids(s) /\ IndexOf(s, id(i)) = i /\ s[i].parent = id(i - 1)
  <2>0. i # 0 /\ id(i) = s[i].id
    BY <1>3
  <2>1. id(i) \in Ids(s)
    BY <1>3, <2>0 DEF Ids
  <2>2. IndexOf(s, id(i)) \in 1 .. N /\ s[IndexOf(s, id(i))].id = id(i)
    BY <1>1, <2>1, IndexIs
  <2>3. PICK j \in 1 .. N : j = IndexOf(s, id(i)) /\ s[j].id = s[i].id
    BY <2>0, <2>2
  <2>4. (i < j => s[i].id < s[j].id) /\ (j < i => s[j].id < s[i].id) /\ s[i].id \in Nat
    BY <1>1, <1>3 DEF Chain, Ascending
  <2>5. i = j
    <3>1. i \in Nat /\ j \in Nat
      BY <1>3
    <3>2. \A a \in Nat : ~(a < a)
      OBVIOUS
    <3>3. ~(s[i].id < s[i].id) /\ s[j].id = s[i].id
      BY <2>3, <2>4, <3>2
    <3>4. ~(i < j) /\ ~(j < i)
      BY <2>4, <3>3
    <3> QED
      BY <3>1, <3>4
  <2>6. s[i].parent = IF i = 1 THEN NoId ELSE s[i - 1].id
    BY <1>3 DEF Chain
  <2>7. i - 1 = 0 <=> i = 1
    BY <1>3
  <2> QED
    BY <2>1, <2>3, <2>5, <2>6, <2>7
<1> HIDE DEF id
<1> DEFINE A == {i \in Nat : i \in 0 .. N => f[id(i)] = SubSeq(s, 1, i)}
<1>6. ASSUME NEW i \in Nat, \A j \in Nat : j < i => j \in A PROVE i \in A
  <2>1. SUFFICES ASSUME i \in 0 .. N PROVE f[id(i)] = SubSeq(s, 1, i)
    OBVIOUS
  <2>2. CASE i = 0
    <3>1. NoId \notin Ids(s) /\ NoId \in Nat
      BY <1>1, <1>3 DEF Ids, NoId
    <3>2. f[NoId] = <<>>
      BY <1>2, <3>1 DEF PathBy
    <3>3. SubSeq(s, 1, 0) = <<>>
      BY <1>1
    <3> QED
      BY <2>2, <3>2, <3>3 DEF id
  <2>3. CASE i # 0
    <3>1. i \in 1 .. N /\ i - 1 \in Nat /\ i - 1 < i /\ i - 1 \in 0 .. N
      BY <1>3, <2>1, <2>3
    <3>2. f[id(i - 1)] = SubSeq(s, 1, i - 1)
      BY <1>6, <3>1
    <3>3. f[id(i)] = Append(f[s[IndexOf(s, id(i))].parent], s[IndexOf(s, id(i))])
      BY <1>2, <1>4, <1>5, <2>1, <3>1 DEF PathBy
    <3>4. f[id(i)] = Append(SubSeq(s, 1, i - 1), s[i])
      BY <1>5, <3>1, <3>2, <3>3
    <3>5. SubSeq(s, 1, i) = Append(SubSeq(s, 1, i - 1), s[i])
      <4>1. s \in Seq(E) /\ i \in 1 .. Len(s)
        BY <1>1, <3>1
      <4> QED
        BY <4>1, OneMore
    <3> QED
      BY <3>4, <3>5
  <2> QED
    BY <2>2, <2>3
<1>7. f[id(N)] = s
  <2>1. N \in A
    <3>1. Nat \subseteq A
      <4> HIDE DEF A
      <4> QED
        BY <1>6, StrongInduction
    <3> HIDE DEF A, N
    <3> QED
      BY <1>3, <3>1
  <2>2. N \in 0 .. N /\ SubSeq(s, 1, N) = s
    BY <1>1
  <2> QED
    BY <2>1, <2>2
<1>8. id(N) = IF s = <<>> THEN NoId ELSE Last(s).id
  <2>1. s = <<>> <=> N = 0
    BY <1>1
  <2> QED
    BY <2>1 DEF id, Last
<1> QED
  BY <1>2, <1>7, <1>8 DEF PathBy

\* An entry of a path is the one that has its id.
LEMMA PathElements ==
  ASSUME NEW n \in Nat, NEW s \in Seq(EntriesUpTo(n)), NEW id \in Nat
  PROVE  \A e \in Range(PathTo(s, id)) : e = s[IndexOf(s, e.id)]
<1> DEFINE E == EntriesUpTo(n)
<1>1. s \in Seq(E) /\ Born(E) /\ \A e \in E : e.id \in Nat /\ e.id <= n
  BY EntryFacts
<1>2. PICK f \in [Nat -> Seq(E)] : PathBy(s, f)
  BY <1>1, PathIs
<1> HIDE DEF E
<1> DEFINE A == {i \in Nat : \A e \in Range(f[i]) : e = s[IndexOf(s, e.id)]}
<1>3. ASSUME NEW i \in Nat, \A j \in Nat : j < i => j \in A PROVE i \in A
  <2>1. CASE i \notin Ids(s)
    <3>1. f[i] = <<>>
      BY <1>2, <2>1 DEF PathBy
    <3> QED
      BY <3>1 DEF Range
  <2>2. CASE i \in Ids(s)
    <3>1. PICK d : d = s[IndexOf(s, i)]
      OBVIOUS
    <3>2. d \in E /\ d.id = i
      BY <1>1, <2>2, <3>1, IndexIs
    <3>3. d.parent \in Nat /\ d.parent < i
      BY <1>1, <3>2 DEF Born
    <3>4. f[i] = Append(f[d.parent], d)
      BY <1>2, <2>2, <3>1 DEF PathBy
    <3>5. \A e \in Range(f[d.parent]) : e = s[IndexOf(s, e.id)]
      BY <1>3, <3>3
    <3>6. Range(f[i]) = Range(f[d.parent]) \cup {d}
      <4>1. f[d.parent] \in Seq(E)
        BY <3>3
      <4> QED
        BY <3>2, <3>4, <4>1, RangeAppend
    <3> QED
      BY <3>1, <3>2, <3>5, <3>6
  <2> QED
    BY <2>1, <2>2
<1>4. id \in A
  <2> HIDE DEF A
  <2> QED
    BY <1>3, StrongInduction
<1> QED
  BY <1>2, <1>4 DEF PathBy

\* The index of a fork is the labels that were kept.
LEMMA ForkLabels ==
  ASSUME TypeInv, NEW kept \in Seq(EntriesUpTo(lastId)), \A x \in Range(kept) : x.kind \notin LabelKinds
  PROVE  LabelsOf(kept \o LabelEntries(kept)) = Targets(kept)
<1> DEFINE new == LabelEntries(kept)
           targets == Targets(kept)
           N == Len(kept)
           K == Len(targets)
           m == lastId + K
           E == EntriesUpTo(m)
           all == kept \o new
<1>1. /\ targets \in Seq(0 .. lastId) /\ IsInjective(targets) /\ K \in Nat
      /\ new \in Seq(E) /\ Len(new) = K
      /\ \A j \in 1 .. K : new[j].kind = "label" /\ new[j].ref = targets[j]
  BY LabelEntriesAre
<1>2. N \in Nat /\ DOMAIN kept = 1 .. N /\ kept \in Seq(E) /\ \A e \in E : e.ref \in Nat
  <2>1. lastId \in Nat /\ m \in Nat /\ lastId <= m
    BY <1>1 DEF TypeInv
  <2>2. kept \in Seq(E)
    BY <2>1, TypesGrow
  <2>3. \A e \in E : e.ref \in Nat
    BY <2>1, EntryFacts
  <2> QED
    BY <2>2, <2>3
<1> DEFINE T == 0 .. lastId
<1>3. targets \in Seq(T) /\ DOMAIN targets = 1 .. K
  <2>1. targets \in Seq(T)
    BY <1>1
  <2> HIDE DEF T, targets
  <2>2. DOMAIN targets = 1 .. Len(targets)
    BY <2>1
  <2> QED
    BY <2>1, <2>2
<1> HIDE DEF new, targets, E, T
<1>4. /\ all \in Seq(E) /\ Len(all) = N + K
      /\ (\A i \in 1 .. N : all[i] = kept[i]) /\ (\A j \in 1 .. K : all[N + j] = new[j])
  <2>0. kept \in Seq(E) /\ new \in Seq(E)
    BY <1>1, <1>2
  <2>1. all \in Seq(E) /\ Len(all) = Len(kept) + Len(new)
    BY <2>0
  <2>2. \A i \in 1 .. Len(kept) : all[i] = kept[i]
    BY <2>0
  <2>3. \A j \in 1 .. Len(new) : all[Len(kept) + j] = new[j]
    BY <2>0
  <2> QED
    BY <1>1, <2>1, <2>2, <2>3
<1> HIDE DEF all
<1>5. PICK f : LabelsBy(all, f)
  BY <1>2, <1>4, LabelsIs
<1>6. f[0] = <<>> /\ LabelsOf(all) = f[N + K] /\ \A i \in 1 .. N + K : f[i] = Relabel(f[i - 1], all[i])
  BY <1>4, <1>5 DEF LabelsBy
<1> HIDE DEF N, K
\* Nothing is labelled before the labels.
<1> DEFINE A == {i \in Nat : i \in 0 .. N => f[i] = <<>>}
<1>7. ASSUME NEW i \in Nat, \A j \in Nat : j < i => j \in A PROVE i \in A
  <2>1. SUFFICES ASSUME i \in 0 .. N, i # 0 PROVE f[i] = <<>>
    BY <1>6
  <2>2. i \in 1 .. N /\ i \in 1 .. N + K /\ i - 1 \in Nat /\ i - 1 < i /\ i - 1 \in 0 .. N
    BY <1>1, <1>2, <2>1
  <2>3. f[i - 1] = <<>>
    BY <1>7, <2>2
  <2>4. all[i].kind \notin LabelKinds
    BY <1>2, <1>4, <2>2 DEF Range
  <2> QED
    BY <1>6, <2>2, <2>3, <2>4 DEF Relabel, LabelKinds
<1>8. f[N] = <<>>
  <2>1. Nat \subseteq A
    <3> HIDE DEF A
    <3> QED
      BY <1>7, StrongInduction
  <2> QED
    BY <1>2, <2>1
\* Each label entry adds its target.
<1> DEFINE B == {j \in Nat : j \in 0 .. K => f[N + j] = SubSeq(targets, 1, j)}
<1>9. ASSUME NEW j \in Nat, \A i \in Nat : i < j => i \in B PROVE j \in B
  <2>1. SUFFICES ASSUME j \in 0 .. K PROVE f[N + j] = SubSeq(targets, 1, j)
    OBVIOUS
  <2>2. CASE j = 0
    <3>1. SubSeq(targets, 1, 0) = <<>> /\ N + 0 = N
      BY <1>2, <1>3
    <3> QED
      BY <1>8, <2>2, <3>1
  <2>3. CASE j # 0
    <3>1. /\ j \in 1 .. K /\ N + j \in 1 .. N + K /\ j - 1 \in Nat /\ j - 1 < j /\ j - 1 \in 0 .. K
          /\ (N + j) - 1 = N + (j - 1)
      BY <1>1, <1>2, <2>1, <2>3
    <3> DEFINE before == SubSeq(targets, 1, j - 1)
               t == targets[j]
    <3>2. f[N + (j - 1)] = before
      BY <1>9, <3>1
    <3>3. before \in Seq(T) /\ Len(before) = j - 1 /\ \A i \in 1 .. j - 1 : before[i] = targets[i]
      BY <1>3, <3>1 DEF K
    <3> HIDE DEF before
    <3>4. ~Contains(before, t)
      <4> SUFFICES ASSUME NEW i \in 1 .. j - 1, targets[i] = t PROVE FALSE
        BY <3>1, <3>3 DEF Contains
      <4>1. i \in 1 .. K /\ i # j
        BY <1>1, <3>1
      <4> QED
        BY <1>1, <1>3, <3>1, <4>1 DEF IsInjective
    <3>5. f[N + j] = Relabel(before, new[j]) /\ new[j].kind = "label" /\ new[j].ref = t
      BY <1>1, <1>4, <1>6, <3>1, <3>2
    <3>6. f[N + j] = Append(before, t)
      BY <3>4, <3>5 DEF Relabel
    <3>7. SubSeq(targets, 1, j) = Append(SubSeq(targets, 1, j - 1), targets[j])
      BY <1>3, <3>1 DEF K
    <3> QED
      BY <3>6, <3>7 DEF before
  <2> QED
    BY <2>2, <2>3
<1>10. f[N + K] = targets
  <2>1. Nat \subseteq B
    <3> HIDE DEF B
    <3> QED
      BY <1>9, StrongInduction
  <2>2. K \in B /\ K \in 0 .. K
    <3> HIDE DEF B
    <3> QED
      BY <1>1, <2>1
  <2>3. SubSeq(targets, 1, K) = targets
    BY <1>3 DEF K
  <2> QED
    BY <2>2, <2>3
<1> QED
  BY <1>6, <1>10 DEF all, targets, new

\* A fork shows what the path shows.
LEMMA ForkKeeps ==
  ASSUME TypeInv, NEW id \in Ids(entries), CreateBranchedSession(id)
  PROVE  LET path == PathTo(entries, id)
             new  == PathTo(entries', leaf')
             c    == LastCompaction(path)
         IN  /\ \/ IdsInOrder(ContextMessages(new)) = IdsInOrder(ContextMessages(path))
                \/ c # 0 /\ entries[IndexOf(entries, path[c].ref)].kind \in LabelKinds
             /\ labels' = Without(labels, Range(labels) \ Ids(new))
<1> DEFINE path == PathTo(entries, id)
           kept == Rechained(path)
           all == kept \o LabelEntries(kept)
           n == lastId + Len(LabelEntries(kept))
<1>1. lastId \in Nat /\ entries \in Seq(EntriesUpTo(lastId)) /\ id \in Nat
  <2>1. lastId \in Nat /\ entries \in Seq(EntriesUpTo(lastId))
    BY DEF TypeInv
  <2>2. Ids(entries) \subseteq 1 .. lastId
    BY <2>1, IdsType
  <2> QED
    BY <2>1, <2>2
<1>2. path \in Seq(EntriesUpTo(lastId)) /\ Ascending(path)
  BY <1>1, PathType
<1>3. entries' = all /\ leaf' = (IF all = <<>> THEN NoId ELSE Last(all).id) /\ labels' = LabelsOf(all)
  BY DEF CreateBranchedSession, Hold
<1>4. \A e \in Range(path) : e = entries[IndexOf(entries, e.id)]
  BY <1>1, PathElements
<1> HIDE DEF path
<1>5. /\ kept \in Seq(EntriesUpTo(lastId)) /\ Chain(kept)
      /\ \A e \in Range(path) : e.kind \notin LabelKinds => \E x \in Range(kept) : Same(x, e)
      /\ \A x \in Range(kept) : x.kind \notin LabelKinds /\ \E e \in Range(path) : Same(x, e)
  BY <1>1, <1>2, RechainedIs
<1> HIDE DEF kept
<1>6. n \in Nat /\ lastId <= n /\ all \in Seq(EntriesUpTo(n)) /\ Chain(all)
  <2>1. Len(LabelEntries(kept)) \in Nat /\ all \in Seq(EntriesUpTo(n)) /\ Chain(all)
    BY <1>5, ForkIs
  <2> QED
    BY <1>1, <2>1
<1>7. Range(all) = Range(kept) \cup Range(LabelEntries(kept))
      /\ \A x \in Range(LabelEntries(kept)) : x.kind = "label" /\ x.id > lastId
  <2> DEFINE new == LabelEntries(kept)
  <2>1. /\ Len(Targets(kept)) \in Nat /\ new \in Seq(EntriesUpTo(lastId + Len(Targets(kept))))
        /\ Len(new) = Len(Targets(kept))
        /\ \A j \in 1 .. Len(new) : new[j].id = lastId + j /\ new[j].kind = "label"
    BY <1>5, LabelEntriesAre
  <2>2. kept \in Seq(EntriesUpTo(n)) /\ n = lastId + Len(Targets(kept))
    <3>1. n = lastId + Len(Targets(kept))
      BY <2>1
    <3> QED
      BY <1>1, <1>5, <1>6, <3>1, TypesGrow
  <2>3. \A x \in Range(new) : \E j \in 1 .. Len(new) : x = new[j]
    <3>1. DOMAIN new = 1 .. Len(new)
      BY <2>1
    <3> QED
      BY <3>1 DEF Range
  <2>4. \A j \in 1 .. Len(new) : lastId + j > lastId
    BY <1>1, <2>1
  <2>5. Range(all) = Range(kept) \cup Range(new)
    <3> DEFINE E == EntriesUpTo(n)
    <3>1. kept \in Seq(E) /\ new \in Seq(E)
      BY <2>1, <2>2
    <3> HIDE DEF E, new
    <3> QED
      BY <3>1, JoinIs DEF new
  <2> HIDE DEF new
  <2>6. ASSUME NEW x \in Range(new) PROVE x.kind = "label" /\ x.id > lastId
    <3>1. PICK j \in 1 .. Len(new) : x = new[j]
      BY <2>3
    <3>2. x.kind = "label" /\ x.id = lastId + j
      BY <2>1, <3>1
    <3> QED
      BY <2>4, <3>2
  <2> QED
    BY <2>5, <2>6 DEF new
<1>8. PathTo(entries', leaf') = all
  BY <1>3, <1>6, ChainPath
<1>9. \/ IdsInOrder(ContextMessages(all)) = IdsInOrder(ContextMessages(path))
      \/ /\ LastCompaction(path) # 0
         /\ \E e \in Range(path) : e.id = path[LastCompaction(path)].ref /\ e.kind \in LabelKinds
  <2>1. Ascending(all)
    BY <1>6 DEF Chain
  <2>2. \A e \in Range(path) : e.kind \notin LabelKinds => \E x \in Range(all) : Same(x, e)
    BY <1>5, <1>7
  <2>3. \A x \in Range(all) : \/ x.kind \in LabelKinds /\ x.id > lastId
                              \/ x.kind \notin LabelKinds /\ \E e \in Range(path) : Same(x, e)
    BY <1>5, <1>7 DEF LabelKinds
  <2> HIDE DEF all, n
  <2> QED
    BY <1>1, <1>2, <1>6, <2>1, <2>2, <2>3, SameContext
<1>10. labels' = Without(labels, Range(labels) \ Ids(all))
  <2>1. labels' = Without(labels, Range(labels) \ Ids(kept))
    BY <1>3, <1>5, ForkLabels DEF Targets
  <2>2. Ids(all) = {x.id : x \in Range(all)} /\ Ids(kept) = {x.id : x \in Range(kept)}
    BY DEF Ids, Range
  <2>3. \A l \in Range(labels) : l \in 0 .. lastId
    <3>1. labels \in Seq(0 .. lastId)
      BY DEF TypeInv, LabelIndex
    <3> DEFINE L == 0 .. lastId
    <3>2. labels \in Seq(L)
      BY <3>1
    <3> HIDE DEF L
    <3>3. \A l \in Range(labels) : l \in L
      BY <3>2 DEF Range
    <3> QED
      BY <3>3 DEF L
  <2>4. ASSUME NEW l \in Range(labels) PROVE l \in Ids(all) <=> l \in Ids(kept)
    <3>1. ASSUME NEW x \in Range(LabelEntries(kept)) PROVE x.id # l
      <4>1. l \in 0 .. lastId /\ x.id > lastId
        BY <1>7, <2>3
      <4> QED
        BY <1>1, <4>1
    <3> QED
      BY <1>7, <2>2, <3>1
  <2>5. Range(labels) \ Ids(all) = Range(labels) \ Ids(kept)
    BY <2>4
  <2> QED
    BY <2>1, <2>5
<1>11. \/ IdsInOrder(ContextMessages(all)) = IdsInOrder(ContextMessages(path))
       \/ LastCompaction(path) # 0
          /\ entries[IndexOf(entries, path[LastCompaction(path)].ref)].kind \in LabelKinds
  BY <1>4, <1>9
<1> HIDE DEF all
<1> QED
  BY <1>8, <1>10, <1>11 DEF path

\* A fork continues the conversation at the entry it is taken from: the context
\* at its leaf is the context at that entry, message by message, and the labels
\* of its entries are kept in their order, also after writes that failed.
THEOREM ForksContinue == Spec => ForkKeepsConversation
<1>1. ASSUME TypeInv
      PROVE  \A id \in Ids(entries) :
               LET path == PathTo(entries, id)
                   new  == PathTo(entries', leaf')
                   c    == LastCompaction(path)
               IN  CreateBranchedSession(id) =>
                     /\ \/ IdsInOrder(ContextMessages(new)) = IdsInOrder(ContextMessages(path))
                        \/ c # 0 /\ entries[IndexOf(entries, path[c].ref)].kind \in LabelKinds
                     /\ labels' = Without(labels, Range(labels) \ Ids(new))
  BY <1>1, ForkKeeps
<1>2. Init => TypeInv
  BY InitTypes
<1>3. TypeInv /\ [Next]_vars => TypeInv'
  BY StepTypes
<1> QED
  BY <1>1, <1>2, <1>3, PTL DEF Spec, ForkKeepsConversation

-----------------------------------------------------------------------------
\* An entry of an ascending list is where its id says.
LEMMA EntryAt ==
  ASSUME NEW n \in Nat, NEW s \in Seq(EntriesUpTo(n)), Ascending(s), NEW e \in Range(s)
  PROVE  /\ e \in EntriesUpTo(n) /\ e.id \in Ids(s) /\ s[IndexOf(s, e.id)] = e
         /\ \A d \in Range(s) : d.id = e.id => d = e
<1>1. PICK i \in 1 .. Len(s) : s[i] = e
  BY DEF Range
<1>2. e \in EntriesUpTo(n) /\ \A k \in 1 .. Len(s) : s[k] \in EntriesUpTo(n)
  BY <1>1
<1>3. \A k \in 1 .. Len(s) : s[k].id \in Nat
  BY <1>2, EntryFacts
<1>4. e.id \in Ids(s)
  BY <1>1 DEF Ids
<1>5. ASSUME NEW j \in 1 .. Len(s), s[j].id = e.id PROVE j = i
  <2>1. (j < i => s[j].id < s[i].id) /\ (i < j => s[i].id < s[j].id)
    BY DEF Ascending
  <2> QED
    BY <1>1, <1>3, <1>5, <2>1
<1>6. IndexOf(s, e.id) \in 1 .. Len(s) /\ s[IndexOf(s, e.id)].id = e.id
  BY <1>4, IndexIs
<1>7. s[IndexOf(s, e.id)] = e
  BY <1>1, <1>5, <1>6
<1>8. \A d \in Range(s) : d.id = e.id => d = e
  BY <1>1, <1>5 DEF Range
<1> QED
  BY <1>2, <1>4, <1>7, <1>8

\* The path to an entry is the path to its parent and the entry.
LEMMA PathOfEntry ==
  ASSUME NEW n \in Nat, NEW s \in Seq(EntriesUpTo(n)), Ascending(s), NEW e \in Range(s)
  PROVE  PathTo(s, e.id) = Append(PathTo(s, e.parent), e)
<1>1. Born(EntriesUpTo(n)) /\ \A d \in EntriesUpTo(n) : d.id <= n /\ d.id \in Nat
  BY EntryFacts
<1>2. PICK f \in [Nat -> Seq(EntriesUpTo(n))] : PathBy(s, f)
  BY <1>1, PathIs
<1>3. e.id \in Nat /\ e.id \in Ids(s) /\ s[IndexOf(s, e.id)] = e
  BY <1>1, EntryAt
<1>4. f[e.id] = Append(f[e.parent], e)
  BY <1>2, <1>3 DEF PathBy
<1>5. PathTo(s, e.id) = f[e.id] /\ PathTo(s, e.parent) = f[e.parent]
  BY <1>2 DEF PathBy
<1> QED
  BY <1>4, <1>5

\* There is no path to an id that is nowhere.
LEMMA PathNowhere ==
  ASSUME NEW n \in Nat, NEW s \in Seq(EntriesUpTo(n)), NEW id \in Nat, id \notin Ids(s)
  PROVE  PathTo(s, id) = <<>>
<1>1. Born(EntriesUpTo(n)) /\ \A d \in EntriesUpTo(n) : d.id <= n /\ d.id \in Nat
  BY EntryFacts
<1>2. PICK f \in [Nat -> Seq(EntriesUpTo(n))] : PathBy(s, f)
  BY <1>1, PathIs
<1> QED
  BY <1>2 DEF PathBy

\* What a path has: the entries of the path to the parent, and the entry.
LEMMA PathRange ==
  ASSUME NEW n \in Nat, NEW s \in Seq(EntriesUpTo(n)), Ascending(s), NEW e \in Range(s)
  PROVE  /\ Range(PathTo(s, e.id)) = Range(PathTo(s, e.parent)) \cup {e}
         /\ \A d \in Range(PathTo(s, e.parent)) : d.id < e.id
<1> DEFINE p == PathTo(s, e.parent)
<1>1. e \in EntriesUpTo(n) /\ e.id \in Nat /\ e.parent \in Nat
  BY EntryAt, EntryFacts
<1>2. p \in Seq(EntriesUpTo(n)) /\ PathTo(s, e.id) = Append(p, e)
  BY <1>1, PathType, PathOfEntry
<1>3. Ascending(Append(p, e))
  BY <1>1, <1>2, PathType
<1> HIDE DEF p
<1>4. ASSUME NEW d \in Range(p) PROVE d.id < e.id
  <2>1. PICK i \in 1 .. Len(p) : p[i] = d
    BY <1>2 DEF Range
  <2>2. Len(p) \in Nat /\ DOMAIN Append(p, e) = 1 .. Len(p) + 1
    BY <1>1, <1>2
  <2>3. Append(p, e)[i] = d /\ Append(p, e)[Len(p) + 1] = e /\ i < Len(p) + 1
    BY <1>1, <1>2, <2>1
  <2> QED
    BY <1>3, <2>2, <2>3 DEF Ascending
<1> QED
  BY <1>1, <1>2, <1>4, RangeAppend DEF p

\* The entries of a path are entries of the list.
LEMMA PathInside ==
  ASSUME NEW n \in Nat, NEW s \in Seq(EntriesUpTo(n)), Ascending(s), NEW id \in Nat
  PROVE  Range(PathTo(s, id)) \subseteq Range(s)
<1> DEFINE E == EntriesUpTo(n)
           A == {i \in Nat : Range(PathTo(s, i)) \subseteq Range(s)}
<1>1. ASSUME NEW i \in Nat, \A j \in Nat : j < i => j \in A PROVE i \in A
  <2>1. CASE i \notin Ids(s)
    <3>1. PathTo(s, i) = <<>>
      BY <2>1, PathNowhere
    <3> QED
      BY <3>1 DEF Range
  <2>2. CASE i \in Ids(s)
    <3>1. PICK d \in Range(s) : d.id = i
      BY <2>2 DEF Ids, Range
    <3>2. d.parent \in Nat /\ d.parent < i
      BY <3>1, EntryAt, EntryFacts
    <3>3. Range(PathTo(s, d.parent)) \subseteq Range(s)
      BY <1>1, <3>2
    <3> QED
      BY <3>1, <3>3, PathRange
  <2> QED
    BY <2>1, <2>2
<1>2. id \in A
  <2> HIDE DEF A
  <2> QED
    BY <1>1, StrongInduction
<1> QED
  BY <1>2

\* The path to an entry of a path is its beginning, up to that entry.
LEMMA PathUpTo ==
  ASSUME NEW n \in Nat, NEW s \in Seq(EntriesUpTo(n)), Ascending(s), NEW id \in Nat,
         NEW x \in Range(PathTo(s, id))
  PROVE  /\ Range(PathTo(s, x.id)) = {z \in Range(PathTo(s, id)) : z.id <= x.id}
         /\ Range(PathTo(s, x.parent)) = {z \in Range(PathTo(s, id)) : z.id < x.id}
<1> DEFINE P(i) == Range(PathTo(s, i))
           A == {i \in Nat : \A y \in P(i) : /\ P(y.id) = {z \in P(i) : z.id <= y.id}
                                             /\ P(y.parent) = {z \in P(i) : z.id < y.id}}
<1>0. \A i \in Nat : P(i) \subseteq Range(s)
  BY PathInside
<1>a. \A d \in Range(s) : d.id \in Nat
  BY EntryAt, EntryFacts
<1>1. ASSUME NEW i \in Nat, \A j \in Nat : j < i => j \in A PROVE i \in A
  <2>1. CASE i \notin Ids(s)
    <3>1. P(i) = {}
      BY <2>1, PathNowhere DEF Range
    <3> QED
      BY <3>1
  <2>2. CASE i \in Ids(s)
    <3>1. PICK d \in Range(s) : d.id = i
      BY <2>2 DEF Ids, Range
    <3>2. d.parent \in Nat /\ d.parent < i
      BY <3>1, EntryAt, EntryFacts
    <3>3. P(i) = P(d.parent) \cup {d} /\ \A z \in P(d.parent) : z.id < i
      BY <3>1, PathRange
    <3>4. d.parent \in A
      BY <1>1, <3>2
    <3> HIDE DEF P
    <3>5. ASSUME NEW y \in P(i)
          PROVE  P(y.id) = {z \in P(i) : z.id <= y.id} /\ P(y.parent) = {z \in P(i) : z.id < y.id}
      <4>1. CASE y = d
        <5>1. \A z \in P(i) : z.id <= d.id /\ (z.id < d.id <=> z # d)
          BY <3>1, <3>3, <1>0, <1>a
        <5>2. d \notin P(d.parent)
          BY <3>1, <3>3
        <5> QED
          BY <3>1, <3>3, <4>1, <5>1, <5>2
      <4>2. CASE y # d
        <5>1. y \in P(d.parent) /\ y.id < i /\ y.id \in Nat
          BY <3>3, <4>2, <1>0, <1>a
        <5>2. /\ P(y.id) = {z \in P(d.parent) : z.id <= y.id}
              /\ P(y.parent) = {z \in P(d.parent) : z.id < y.id}
          BY <3>4, <5>1
        <5>3. ~(d.id <= y.id) /\ ~(d.id < y.id)
          BY <3>1, <5>1
        <5> QED
          BY <3>3, <5>2, <5>3
      <4> QED
        BY <4>1, <4>2
    <3> QED
      BY <3>5
  <2> QED
    BY <2>1, <2>2
<1>2. id \in A
  <2> HIDE DEF A
  <2> QED
    BY <1>1, StrongInduction
<1> QED
  BY <1>2

\* Appending an entry changes no path to an older one.
LEMMA PathStays ==
  ASSUME NEW n \in Nat, NEW s \in Seq(EntriesUpTo(n)), Ascending(s),
         NEW e \in EntriesUpTo(n + 1), e.id = n + 1, NEW id \in 0 .. n
  PROVE  PathTo(Append(s, e), id) = PathTo(s, id)
<1> DEFINE t == Append(s, e)
           A == {i \in Nat : i <= n => PathTo(t, i) = PathTo(s, i)}
<1>1. n + 1 \in Nat /\ n <= n + 1 /\ s \in Seq(EntriesUpTo(n + 1)) /\ t \in Seq(EntriesUpTo(n + 1))
  <2>1. s \in Seq(EntriesUpTo(n + 1))
    BY TypesGrow
  <2> QED
    BY <2>1
<1>2. \A k \in 1 .. Len(s) : s[k].id \in Nat /\ s[k].id < e.id
  BY EntryFacts
<1>3. Ascending(t)
  <2>1. \A x \in EntriesUpTo(n + 1) : x.id \in Nat
    BY <1>1, EntryFacts
  <2> QED
    BY <1>1, <1>2, <2>1, AscendAppend
<1>4. Range(t) = Range(s) \cup {e}
  BY <1>1, RangeAppend
<1>5. Ids(s) = {d.id : d \in Range(s)} /\ Ids(t) = {d.id : d \in Range(t)}
  BY DEF Ids, Range
<1> HIDE DEF t
<1>6. ASSUME NEW i \in Nat, \A j \in Nat : j < i => j \in A PROVE i \in A
  <2> SUFFICES ASSUME i <= n PROVE PathTo(t, i) = PathTo(s, i)
    OBVIOUS
  <2>0. i # e.id
    OBVIOUS
  <2>1. CASE i \notin Ids(s)
    <3>1. i \notin Ids(t)
      BY <1>4, <1>5, <2>0, <2>1
    <3> QED
      BY <1>1, <2>1, <3>1, PathNowhere
  <2>2. CASE i \in Ids(s)
    <3>1. PICK d \in Range(s) : d.id = i
      BY <1>5, <2>2
    <3>2. d.parent \in Nat /\ d.parent < i /\ d.parent <= n
      <4>1. d \in EntriesUpTo(n)
        BY EntryAt
      <4>2. d.parent \in Nat /\ d.parent < i
        BY <3>1, <4>1, EntryFacts
      <4> QED
        BY <4>2
    <3>3. PathTo(t, d.parent) = PathTo(s, d.parent)
      BY <1>6, <3>2
    <3>4. d \in Range(t)
      BY <1>4
    <3>5. PathTo(s, i) = Append(PathTo(s, d.parent), d)
      BY <3>1, PathOfEntry
    <3>6. PathTo(t, i) = Append(PathTo(t, d.parent), d)
      BY <1>1, <1>3, <3>1, <3>4, PathOfEntry
    <3> QED
      BY <3>3, <3>5, <3>6
  <2> QED
    BY <2>1, <2>2
<1>7. id \in A
  <2> HIDE DEF A
  <2> QED
    BY <1>6, StrongInduction
<1> QED
  BY <1>7 DEF t

\* The context shows messages of the path.
LEMMA ContextInside ==
  ASSUME NEW S, NEW p \in Seq(S)
  PROVE  ContextMessages(p) \in Seq({x \in Range(p) : IsMessage(x)})
<1> DEFINE R == Range(p)
           T == {e \in R : ~IsMessage(e)}
           c == LastCompaction(p)
           kept == IndexOf(SubSeq(p, 1, c - 1), p[c].ref)
<1>1. p \in Seq(R) /\ Len(p) \in Nat /\ DOMAIN p = 1 .. Len(p)
  BY DEF Range
<1>2. ContextEntries(p) \in Seq(R)
  <2>1. CASE c = 0
    BY <1>1, <2>1 DEF ContextEntries
  <2>2. CASE c # 0
    <3>1. c \in 1 .. Len(p)
      BY <2>2, LastCompactionIs
    <3>2. <<p[c]>> \in Seq(R)
      BY <1>1, <3>1 DEF Range
    <3>3. kept \in Nat
      <4> DEFINE before == SubSeq(p, 1, c - 1)
                 ref == p[c].ref
      <4>1. before \in Seq(R) /\ Len(before) \in Nat
        BY <1>1, <3>1
      <4> HIDE DEF R, c, before, ref
      <4>2. CASE ref \in Ids(before)
        <5>1. IndexOf(before, ref) \in 1 .. Len(before)
          BY <4>1, <4>2, IndexIs
        <5> QED
          BY <4>1, <5>1 DEF before, ref
      <4>3. CASE ref \notin Ids(before)
        <5>1. IndexOf(before, ref) = 0
          BY <4>1, <4>3, IndexNone
        <5> QED
          BY <5>1 DEF before, ref
      <4> QED
        BY <4>2, <4>3
    <3> HIDE DEF kept, R
    <3>4. kept # 0 => SubSeq(p, kept, c - 1) \in Seq(R)
      BY <1>1, <3>1, <3>3
    <3>5. SubSeq(p, c + 1, Len(p)) \in Seq(R)
      BY <1>1, <3>1
    <3>6. (IF kept = 0 THEN <<>> ELSE SubSeq(p, kept, c - 1)) \in Seq(R)
      BY <3>4
    <3>7. ContextEntries(p) = <<p[c]>> \o (IF kept = 0 THEN <<>> ELSE SubSeq(p, kept, c - 1))
                                       \o SubSeq(p, c + 1, Len(p))
      BY <2>2 DEF ContextEntries, kept
    <3> HIDE DEF c
    <3> QED
      BY <3>2, <3>5, <3>6, <3>7
  <2> QED
    BY <2>1, <2>2
<1>3. Without(ContextEntries(p), T) \in Seq(R \ T)
  BY <1>2, WithoutLeaves
<1>4. R \ T = {x \in Range(p) : IsMessage(x)}
  OBVIOUS
<1> QED
  BY <1>3, <1>4 DEF ContextMessages

\* An element in front of a list.
LEMMA ConsIs ==
  ASSUME NEW S, NEW h \in S, NEW l \in Seq(S)
  PROVE  /\ <<h>> \o l \in Seq(S) /\ Len(<<h>> \o l) = Len(l) + 1 /\ Len(l) \in Nat
         /\ (<<h>> \o l)[1] = h /\ \A i \in 1 .. Len(l) : (<<h>> \o l)[i + 1] = l[i]
  OBVIOUS

\* The ids of the context of a path: all its messages, or the last compaction and
\* what is kept beside it.  They ascend, but for the compaction, which comes first.
LEMMA ShownIs ==
  ASSUME NEW n \in Nat, NEW p \in Seq(EntriesUpTo(n)), Ascending(p)
  PROVE  \/ (\A x \in Range(p) : x.kind # "compaction") /\ Shown(p) = MessageIds(p)
         \/ \E comp \in Range(p) :
              /\ comp.kind = "compaction" /\ comp \in Range(ContextMessages(p))
              /\ \A x \in Range(p) : x.kind = "compaction" => x.id <= comp.id
              /\ Shown(p) = {comp.id} \cup RestIds(p, comp)
<1> DEFINE m == ContextMessages(p)
           M == {x \in Range(p) : IsMessage(x)}
<1>1. m \in Seq(M)
  BY ContextInside
<1>2. PICK l \in Seq(Nat) :
           /\ Increasing(l)
           /\ \/ /\ LastCompaction(p) = 0 /\ \A x \in Range(p) : x.kind # "compaction"
                 /\ IdsInOrder(m) = l /\ Range(l) = MessageIds(p)
              \/ LET comp == p[LastCompaction(p)]
                 IN  /\ LastCompaction(p) # 0 /\ comp \in Range(p) /\ comp.kind = "compaction"
                     /\ \A x \in Range(p) : x.kind = "compaction" => x.id <= comp.id
                     /\ IdsInOrder(m) = <<comp.id>> \o l /\ Range(l) = RestIds(p, comp)
  BY ContextIs
<1>3. Shown(p) = Range(IdsInOrder(m)) /\ DOMAIN m = 1 .. Len(m) /\ DOMAIN IdsInOrder(m) = 1 .. Len(m)
      /\ \A i \in 1 .. Len(m) : m[i] \in M /\ IdsInOrder(m)[i] = m[i].id
  <2> HIDE DEF m, M
  <2>1. DOMAIN m = 1 .. Len(m) /\ DOMAIN IdsInOrder(m) = 1 .. Len(m)
        /\ \A i \in 1 .. Len(m) : m[i] \in M /\ IdsInOrder(m)[i] = m[i].id
    BY <1>1 DEF IdsInOrder
  <2>2. Ids(m) = Range(IdsInOrder(m))
    BY <2>1 DEF Ids, Range
  <2> QED
    BY <2>1, <2>2 DEF Shown, m
<1> HIDE DEF m
<1>4. CASE LastCompaction(p) = 0
  BY <1>2, <1>3, <1>4
<1>5. CASE LastCompaction(p) # 0
  <2>1. PICK comp : comp = p[LastCompaction(p)]
    OBVIOUS
  <2>2. /\ comp \in Range(p) /\ comp.kind = "compaction"
        /\ \A x \in Range(p) : x.kind = "compaction" => x.id <= comp.id
        /\ IdsInOrder(m) = <<comp.id>> \o l /\ Range(l) = RestIds(p, comp)
    BY <1>2, <1>5, <2>1
  <2>3. comp.id \in Nat
    BY <2>2, EntryAt, EntryFacts
  <2>4. /\ Range(<<comp.id>>) = {comp.id} /\ <<comp.id>> \in Seq(Nat)
        /\ Range(<<comp.id>> \o l) = Range(<<comp.id>>) \cup Range(l)
    <3> DEFINE h == <<comp.id>>
    <3>1. h \in Seq(Nat) /\ DOMAIN h = {1} /\ h[1] = comp.id
      BY <2>3
    <3>2. h = [i \in {1} |-> comp.id]
      BY <3>1
    <3> HIDE DEF h
    <3>3. Range(h) = {comp.id}
      BY <3>1 DEF Range
    <3>4. Range(h \o l) = Range(h) \cup Range(l)
      BY <3>1, JoinIs
    <3> QED
      BY <3>1, <3>3, <3>4 DEF h
  <2>5. Len(m) >= 1 /\ m[1].id = comp.id
    <3> DEFINE r == <<comp.id>> \o l
    <3>2. r[1] = comp.id /\ Len(r) = Len(l) + 1 /\ Len(l) \in Nat /\ r \in Seq(Nat)
      BY <2>3, ConsIs
    <3> HIDE DEF r
    <3>3. DOMAIN r = 1 .. Len(l) + 1 /\ Len(m) \in Nat
      BY <1>1, <3>2
    <3>4. DOMAIN IdsInOrder(m) = DOMAIN r
      BY <2>2 DEF r
    <3>5. 1 \in 1 .. Len(m)
      BY <1>3, <3>2, <3>3, <3>4
    <3>6. m[1].id = r[1]
      BY <1>3, <2>2, <3>5 DEF r
    <3> QED
      BY <3>2, <3>3, <3>5, <3>6
  <2>6. comp \in Range(m)
    <3>1. 1 \in 1 .. Len(m)
      BY <1>1, <2>5
    <3>2. m[1] \in Range(m) /\ m[1] \in Range(p)
      BY <1>3, <3>1 DEF Range
    <3> QED
      BY <2>2, <2>5, <3>2, EntryAt
  <2>7. Shown(p) = {comp.id} \cup RestIds(p, comp)
    BY <1>3, <2>2, <2>4
  <2> QED
    BY <2>2, <2>6, <2>7 DEF m
<1> QED
  BY <1>4, <1>5

\* The smallest number of a set.
LEMMA MinIs ==
  ASSUME NEW S \in SUBSET Nat, S # {}
  PROVE  Min(S) \in S /\ \A y \in S : Min(S) <= y
<1>1. \E x \in S : \A y \in S : x <= y
  BY Least
<1> QED
  BY <1>1 DEF Min

\* The largest number of a set.
LEMMA MaxIs ==
  ASSUME NEW N \in Nat, NEW S \in SUBSET (0 .. N), S # {}
  PROVE  Max(S) \in S /\ \A y \in S : y <= Max(S)
<1>1. \E x \in S : \A y \in S : x >= y
  <2>1. \E x \in S : \A y \in S : y <= x
    BY Largest
  <2> QED
    BY <2>1
<1> QED
  BY <1>1 DEF Max

\* A sum of natural numbers.
LEMMA SumOfNats == \A a, b \in Nat : a + b \in Nat
  OBVIOUS

\* The function by which TokensFrom is defined.
SumFun(q, f) ==
  f = [n \in 0 .. Len(q) |-> IF n = 0 THEN 0 ELSE f[n - 1] + Tokens(q[Len(q) - n + 1])]

\* The tokens of what a path ends with are a number, and none are none.
LEMMA TokensIs ==
  ASSUME NEW n \in Nat, NEW q \in Seq(EntriesUpTo(n))
  PROVE  /\ TokensFrom(q, Len(q) + 1) = 0
         /\ \A i \in 1 .. Len(q) + 1 : TokensFrom(q, i) \in Nat
<1> DEFINE N == Len(q)
           own == [i \in 1 .. N |-> Tokens(q[N - i + 1])]
           p == [i \in 1 .. N |-> i - 1]
           F == [i \in 1 .. N |-> [l \in Nat |-> l + own[i]]]
<1>0. N \in Nat
  OBVIOUS
<1>1. \A i \in 1 .. N : own[i] \in Nat
  <2> SUFFICES ASSUME NEW i \in 1 .. N PROVE own[i] \in Nat
    OBVIOUS
  <2>1. N - i + 1 \in 1 .. N
    BY <1>0
  <2>2. q[N - i + 1] \in EntriesUpTo(n)
    BY <2>1
  <2>3. q[N - i + 1].size \in Nat
    BY <2>2 DEF EntriesUpTo
  <2> QED
    BY <2>3 DEF Tokens
<1> HIDE DEF own, N
<1>2. F \in [1 .. N -> [Nat -> Nat]] /\ \A l \in Nat : \A i \in 1 .. N : F[i][l] = l + own[i]
  BY <1>1
<1>3. p \in [1 .. N -> Nat] /\ (\A i \in 1 .. N : p[i] = i - 1 /\ p[i] < i)
  BY <1>0
<1>4. 1 .. N \in SUBSET (0 .. N)
  BY <1>0
<1> HIDE DEF p, F
<1>5. PICK g \in [Nat -> Nat] : \A i \in Nat : g[i] = IF i \in 1 .. N THEN F[i][g[p[i]]] ELSE 0
  <2>1. \E g \in [Nat -> Nat] : Recursive(g, 1 .. N, p, F, 0)
    BY <1>0, <1>2, <1>3, <1>4, Recursion
  <2> QED
    BY <2>1 DEF Recursive
<1> DEFINE f == [i \in 0 .. N |-> g[i]]
<1>6. ASSUME NEW i \in 0 .. N PROVE f[i] = IF i = 0 THEN 0 ELSE f[i - 1] + own[i]
  <2>1. CASE i = 0
    <3>1. 0 \in Nat /\ 0 \notin 1 .. N /\ 0 \in 0 .. N
      BY <1>0
    <3> QED
      BY <1>5, <2>1, <3>1
  <2>2. CASE i # 0
    <3>1. i \in 1 .. N /\ i \in Nat /\ i - 1 \in Nat /\ i - 1 \in 0 .. N /\ p[i] = i - 1
      BY <1>0, <1>3, <2>2
    <3>2. g[i] = g[i - 1] + own[i]
      <4>1. g[i] = F[i][g[p[i]]]
        BY <1>5, <3>1
      <4>2. g[i - 1] \in Nat
        BY <3>1
      <4> QED
        BY <1>2, <3>1, <4>1, <4>2
    <3> QED
      BY <2>2, <3>1, <3>2
  <2> QED
    BY <2>1, <2>2
<1>7. SumFun(q, f)
  <2>1. f = [i \in 0 .. N |-> IF i = 0 THEN 0 ELSE f[i - 1] + Tokens(q[N - i + 1])]
    <3>1. \A i \in 0 .. N : i # 0 => own[i] = Tokens(q[N - i + 1])
      BY <1>0 DEF own
    <3> QED
      BY <1>6, <3>1
  <2> HIDE DEF f
  <2> QED
    BY <2>1 DEF SumFun, N
<1>8. PICK c : SumFun(q, c) /\ \A i : TokensFrom(q, i) = c[N - i + 1]
  <2>1. SumFun(q, CHOOSE c : SumFun(q, c))
    BY <1>7
  <2>2. \A i : TokensFrom(q, i) = (CHOOSE c : SumFun(q, c))[N - i + 1]
    BY DEF TokensFrom, SumFun, N
  <2> QED
    BY <2>1, <2>2
<1>9. \A i \in 0 .. N : c[i] = IF i = 0 THEN 0 ELSE c[i - 1] + own[i]
  <2>1. \A i \in 0 .. N : c[i] = IF i = 0 THEN 0 ELSE c[i - 1] + Tokens(q[N - i + 1])
    BY <1>8 DEF SumFun, N
  <2>2. \A i \in 0 .. N : i # 0 => own[i] = Tokens(q[N - i + 1])
    BY <1>0 DEF own
  <2> QED
    BY <2>1, <2>2
<1> DEFINE A == {i \in Nat : i <= N => c[i] \in Nat}
<1>10. \A i \in 0 .. N : c[i] \in Nat
  <2>1. ASSUME NEW i \in Nat, \A j \in Nat : j < i => j \in A PROVE i \in A
    <3> SUFFICES ASSUME i <= N PROVE c[i] \in Nat
      OBVIOUS
    <3>1. CASE i = 0
      BY <1>0, <1>9, <3>1
    <3>2. CASE i # 0
      <4>1. i - 1 \in Nat /\ i - 1 < i /\ i - 1 <= N /\ i \in 1 .. N /\ i \in 0 .. N
        BY <1>0, <3>2
      <4>2. c[i - 1] \in Nat
        BY <2>1, <4>1
      <4>3. c[i] = c[i - 1] + own[i]
        BY <1>9, <3>2, <4>1
      <4>4. own[i] \in Nat
        BY <1>1, <4>1
      <4> QED
        BY <4>2, <4>3, <4>4, SumOfNats
    <3> QED
      BY <3>1, <3>2
  <2>2. Nat \subseteq A
    <3> HIDE DEF A
    <3> QED
      BY <2>1, StrongInduction
  <2> QED
    BY <1>0, <2>2
<1>11. TokensFrom(q, N + 1) = 0
  <2>1. N - (N + 1) + 1 = 0 /\ 0 \in 0 .. N
    BY <1>0
  <2> QED
    BY <1>8, <1>9, <2>1
<1>12. ASSUME NEW i \in 1 .. N + 1 PROVE TokensFrom(q, i) \in Nat
  <2>1. N - i + 1 \in 0 .. N
    BY <1>0
  <2> QED
    BY <1>8, <1>10, <2>1
<1> QED
  BY <1>11, <1>12 DEF N

\* Where the part to cut begins: at the first entry that the last compaction
\* kept, if it is on the path, otherwise behind it, and at the start without one.
LEMMA BoundaryIs ==
  ASSUME NEW n \in Nat, NEW q \in Seq(EntriesUpTo(n))
  PROVE  /\ BoundaryStart(q) \in 1 .. Len(q) + 1
         /\ \/ /\ (\A x \in Range(q) : x.kind # "compaction")
               /\ BoundaryStart(q) = 1 /\ PreviousSummary(q) = {}
            \/ \E c \in 1 .. Len(q) :
                 /\ q[c].kind = "compaction" /\ PreviousSummary(q) = q[c].covers
                 /\ LastCompaction(q) = c
                 /\ \A i \in 1 .. Len(q) : q[i].kind = "compaction" => i <= c
                 /\ \/ /\ q[c].ref \in Ids(q) /\ BoundaryStart(q) \in 1 .. Len(q)
                       /\ q[BoundaryStart(q)].id = q[c].ref
                    \/ q[c].ref \notin Ids(q) /\ BoundaryStart(q) = c + 1
<1> DEFINE c == LastCompaction(q)
<1>1. Len(q) \in Nat /\ DOMAIN q = 1 .. Len(q)
  OBVIOUS
<1>2. CASE c = 0
  <2>1. \A i \in 1 .. Len(q) : q[i].kind # "compaction"
    BY <1>2, LastCompactionIs
  <2>2. BoundaryStart(q) = 1 /\ PreviousSummary(q) = {}
    BY <1>2 DEF BoundaryStart, PreviousSummary
  <2> QED
    BY <1>1, <2>1, <2>2 DEF Range
<1>3. CASE c # 0
  <2>1. /\ c \in 1 .. Len(q) /\ q[c].kind = "compaction"
        /\ \A i \in 1 .. Len(q) : q[i].kind = "compaction" => i <= c
    BY <1>3, LastCompactionIs
  <2>2. PreviousSummary(q) = q[c].covers
    BY <1>3 DEF PreviousSummary
  <2> DEFINE ref == q[c].ref
             kept == IndexOf(q, ref)
  <2>3. BoundaryStart(q) = IF kept > 0 THEN kept ELSE c + 1
    BY <1>3 DEF BoundaryStart
  <2> HIDE DEF ref, c
  <2>4. CASE ref \in Ids(q)
    <3>1. kept \in 1 .. Len(q) /\ q[kept].id = ref
      BY <2>4, IndexIs
    <3>2. BoundaryStart(q) = kept
      BY <1>1, <2>3, <3>1
    <3> QED
      BY <1>1, <2>1, <2>2, <2>4, <3>1, <3>2 DEF ref, c
  <2>5. CASE ref \notin Ids(q)
    <3>1. kept = 0
      BY <2>5, IndexNone
    <3>2. BoundaryStart(q) = c + 1
      BY <2>3, <3>1
    <3> QED
      BY <1>1, <2>1, <2>2, <2>5, <3>2 DEF ref, c
  <2> QED
    BY <2>4, <2>5
<1> QED
  BY <1>2, <1>3

\* Metadata before a cut is kept with it, back to the start or a message.
LEMMA MetadataIs ==
  ASSUME NEW q, NEW s \in Nat, NEW c \in Nat, s <= c
  PROVE  LET k == WithMetadata(q, s, c)
         IN  /\ k \in s .. c /\ (\A i \in k .. c - 1 : ~IsMessage(q[i]))
             /\ (\A i \in s .. c - 1 : ~IsMessage(q[i])) => k = s
<1> DEFINE I == {i \in s .. c : \A k \in i .. c - 1 : ~IsMessage(q[k])}
<1>1. I \in SUBSET Nat /\ c \in I
  OBVIOUS
<1>2. WithMetadata(q, s, c) = Min(I)
  BY DEF WithMetadata
<1>3. (\A i \in s .. c - 1 : ~IsMessage(q[i])) => s \in I
  OBVIOUS
<1>4. Min(I) \in I /\ \A y \in I : Min(I) <= y
  <2> HIDE DEF I
  <2> QED
    BY <1>1, MinIs
<1>5. Min(I) \in s .. c /\ \A i \in Min(I) .. c - 1 : ~IsMessage(q[i])
  BY <1>4
<1>6. s \in I => Min(I) = s
  <2>1. Min(I) \in Nat /\ s <= Min(I)
    BY <1>5
  <2> HIDE DEF I
  <2> QED
    BY <1>4, <2>1
<1> QED
  BY <1>2, <1>3, <1>5, <1>6

\* The cut is at a cut point, and what is kept behind it is below the budget,
\* unless no cut point is late enough: then it is at the first of all.
LEMMA BudgetCutIs ==
  ASSUME NEW n \in Nat, NEW q \in Seq(EntriesUpTo(n)), NEW s \in 1 .. Len(q) + 1,
         NEW keep \in Nat \ {0}, CutPoints(q, s) # {}
  PROVE  LET c == BudgetCut(q, s, keep)
         IN  /\ c \in s .. Len(q) /\ IsCutPoint(q[c])
             /\ \/ TokensFrom(q, c + 1) < keep
                \/ \A i \in CutPoints(q, s) : c <= i
<1> DEFINE N == Len(q)
           cuts == CutPoints(q, s)
           reached == {i \in s .. N : TokensFrom(q, i) >= keep}
           after == {c \in cuts : reached # {} /\ c >= Max(reached)}
           cut == BudgetCut(q, s, keep)
<1>0. N \in Nat /\ s \in Nat /\ s >= 1
  OBVIOUS
<1>1. cuts \in SUBSET Nat /\ cuts # {} /\ \A c \in cuts : c \in s .. N /\ IsCutPoint(q[c])
  BY <1>0 DEF CutPoints
<1>2. cut = IF after = {} THEN Min(cuts) ELSE Min(after)
  BY DEF BudgetCut
<1>3. reached \in SUBSET (0 .. N)
  BY <1>0
<1>4. after \subseteq cuts
  OBVIOUS
<1>5. CASE after = {}
  <2>1. cut = Min(cuts)
    BY <1>2, <1>5
  <2> HIDE DEF cuts, cut
  <2>2. cut \in cuts /\ \A y \in cuts : cut <= y
    BY <1>1, <2>1, MinIs
  <2> QED
    BY <1>1, <2>2 DEF cuts, cut
<1>6. CASE after # {}
  <2>1. cut = Min(after) /\ after \in SUBSET Nat
    BY <1>1, <1>2, <1>4, <1>6
  <2>2. cut \in after
    <3> HIDE DEF after, cut
    <3> QED
      BY <1>6, <2>1, MinIs
  <2>3. reached # {} /\ cut >= Max(reached) /\ cut \in cuts
    BY <2>2
  <2>4. Max(reached) \in reached /\ \A y \in reached : y <= Max(reached)
    <3> HIDE DEF reached
    <3> QED
      BY <1>0, <1>3, <2>3, MaxIs
  <2>5. cut \in s .. N /\ IsCutPoint(q[cut])
    BY <1>1, <2>3
  <2>6. TokensFrom(q, cut + 1) < keep
    <3> HIDE DEF cut, after, cuts
    <3>1. CASE cut = N
      <4>1. TokensFrom(q, N + 1) = 0
        BY TokensIs
      <4> QED
        BY <3>1, <4>1
    <3>2. CASE cut # N
      <4>1. cut + 1 \in s .. N /\ cut + 1 \in 1 .. N + 1
        BY <1>0, <2>5, <3>2
      <4>2. cut + 1 \notin reached
        <5>1. Max(reached) \in Nat /\ cut \in Nat
          BY <1>0, <2>4, <2>5
        <5> HIDE DEF reached
        <5> QED
          BY <2>3, <2>4, <5>1
      <4>3. TokensFrom(q, cut + 1) \in Nat
        BY <4>1, TokensIs
      <4> QED
        BY <4>1, <4>2, <4>3
    <3> QED
      BY <3>1, <3>2
  <2> QED
    BY <2>5, <2>6
<1> QED
  BY <1>5, <1>6

-----------------------------------------------------------------------------
\* What a preparation says of its path: s is where the part to cut begins, k the
\* first entry it keeps, and c the cut point that k was found from.
PreparedAt(q, keep, prep, s, k, c) ==
  /\ s = BoundaryStart(q) /\ s \in 1 .. Len(q) /\ k \in s .. c /\ c \in s .. Len(q)
  /\ prep.firstKept = q[k].id
  /\ IsCutPoint(q[c]) /\ \A i \in k .. c - 1 : ~IsMessage(q[i])
  /\ \/ TokensFrom(q, c + 1) < keep
     \/ \E i \in s .. c - 1 : IsMessage(q[i]) /\ \A j \in s .. i : ~IsCutPoint(q[j])
  /\ prep.split \in BOOLEAN /\ (~prep.split => prep.prefix = {})
  /\ prep.history \cup prep.prefix = Summarized(q, s, k - 1)
  /\ prep.history \cap prep.prefix = {}
  /\ prep.previous = PreviousSummary(q)

\* A range that is summarized in two parts.
LEMMA SummarizedIs ==
  ASSUME NEW n \in Nat, NEW q \in Seq(EntriesUpTo(n)), Ascending(q),
         NEW a \in 1 .. Len(q) + 1, NEW t \in a .. Len(q) + 1, NEW b \in Nat, t <= b + 1, b <= Len(q)
  PROVE  /\ Summarized(q, a, t - 1) \cup Summarized(q, t, b) = Summarized(q, a, b)
         /\ Summarized(q, a, t - 1) \cap Summarized(q, t, b) = {}
<1>0. Len(q) \in Nat /\ a \in Nat /\ t \in Nat /\ DOMAIN q = 1 .. Len(q)
  OBVIOUS
<1>1. \A i \in a .. b : i \in a .. t - 1 \/ i \in t .. b
  BY <1>0
<1>2. \A i : (i \in a .. t - 1 => i \in a .. b) /\ (i \in t .. b => i \in a .. b)
  BY <1>0
<1>3. Summarized(q, a, t - 1) \cup Summarized(q, t, b) = Summarized(q, a, b)
  BY <1>1, <1>2 DEF Summarized
<1>4. ASSUME NEW i \in a .. t - 1, NEW j \in t .. b PROVE q[i].id # q[j].id
  <2>1. i \in 1 .. Len(q) /\ j \in 1 .. Len(q) /\ i < j
    BY <1>0
  <2>2. q[i].id \in Nat /\ q[j].id \in Nat
    <3>1. q[i] \in EntriesUpTo(n) /\ q[j] \in EntriesUpTo(n)
      BY <2>1
    <3> QED
      BY <3>1, EntryFacts
  <2>3. q[i].id < q[j].id
    BY <1>0, <2>1 DEF Ascending
  <2> QED
    BY <2>2, <2>3
<1> QED
  BY <1>3, <1>4 DEF Summarized

\* What prepareCompaction returns when there is something to compact.
LEMMA PrepareIs ==
  ASSUME NEW n \in Nat, NEW q \in Seq(EntriesUpTo(n)), Ascending(q), NEW keep \in Nat \ {0},
         PrepareCompaction(q, keep).ok
  PROVE  \E s, k, c \in Nat : PreparedAt(q, keep, PrepareCompaction(q, keep), s, k, c)
<1> DEFINE N == Len(q)
           s == BoundaryStart(q)
           cut == FindCutPoint(q, s, keep)
           history == Summarized(q, s, (IF cut.split THEN cut.turn ELSE cut.kept) - 1)
           prefix  == IF cut.split THEN Summarized(q, cut.turn, cut.kept - 1) ELSE {}
           prep == PrepareCompaction(q, keep)
           nothing == \/ q = <<>>
                      \/ Last(q).kind = "compaction"
                      \/ cut.kept > N
                      \/ history \cup prefix = {}
<1>0. N \in Nat /\ DOMAIN q = 1 .. N
  OBVIOUS
<1>1. s \in 1 .. N + 1
  BY BoundaryIs
<1>2. prep = IF nothing THEN NothingToCompact
             ELSE [ok |-> TRUE, firstKept |-> q[cut.kept].id, split |-> cut.split,
                   history |-> history, prefix |-> prefix, previous |-> PreviousSummary(q)]
  BY DEF PrepareCompaction
<1>3. ~nothing
  <2> HIDE DEF nothing
  <2>1. nothing => prep.ok = FALSE
    BY <1>2 DEF NothingToCompact
  <2> QED
    BY <2>1
<1>4. /\ prep.firstKept = q[cut.kept].id /\ prep.split = cut.split /\ prep.history = history
      /\ prep.prefix = prefix /\ prep.previous = PreviousSummary(q)
  <2> HIDE DEF nothing, cut, history, prefix, prep
  <2> QED
    BY <1>2, <1>3
<1>5. history \cup prefix # {} /\ ~(cut.kept > N)
  BY <1>3
<1> HIDE DEF nothing, prep
<1>6. CutPoints(q, s) # {}
  <2> SUFFICES ASSUME CutPoints(q, s) = {} PROVE FALSE
    OBVIOUS
  <2>1. cut.kept = s /\ cut.turn = 0 /\ cut.split = FALSE
    BY DEF FindCutPoint
  <2>2. s .. s - 1 = {}
    BY <1>1
  <2>3. Summarized(q, s, s - 1) = {}
    BY <2>2 DEF Summarized
  <2> HIDE DEF cut
  <2> QED
    BY <1>5, <2>1, <2>3
<1> DEFINE c == BudgetCut(q, s, keep)
           k == WithMetadata(q, s, c)
           turn == IF StartsTurn(q[k]) THEN 0 ELSE TurnStart(q, s, k)
<1>7. cut.kept = k /\ cut.turn = turn /\ cut.split = (turn # 0)
  BY <1>6 DEF FindCutPoint
<1>8. /\ c \in s .. N /\ IsCutPoint(q[c])
      /\ TokensFrom(q, c + 1) < keep \/ \A i \in CutPoints(q, s) : c <= i
  BY <1>1, <1>6, BudgetCutIs
<1> HIDE DEF s, c, cut
<1>9. s \in Nat /\ c \in Nat /\ s <= c /\ s \in 1 .. N
  BY <1>0, <1>1, <1>8
<1>10. /\ k \in s .. c /\ (\A i \in k .. c - 1 : ~IsMessage(q[i]))
       /\ (\A i \in s .. c - 1 : ~IsMessage(q[i])) => k = s
  BY <1>9, MetadataIs
<1> HIDE DEF k
<1>11. k \in Nat /\ k \in 1 .. N /\ s <= k
  BY <1>0, <1>8, <1>9, <1>10
<1>12. turn # 0 => turn \in s .. k
  <2> DEFINE T == {0} \cup {i \in s .. k : StartsTurn(q[i])}
  <2>1. T \in SUBSET (0 .. k) /\ T # {}
    BY <1>9, <1>11
  <2>2. TurnStart(q, s, k) = Max(T)
    BY DEF TurnStart
  <2>3. Max(T) \in T
    <3> HIDE DEF T
    <3> QED
      BY <1>11, <2>1, MaxIs
  <2> QED
    BY <2>2, <2>3
<1> HIDE DEF turn
<1>13. /\ history \cup prefix = Summarized(q, s, k - 1)
       /\ history \cap prefix = {}
  <2>1. CASE turn = 0
    <3>1. history = Summarized(q, s, k - 1) /\ prefix = {}
      BY <1>7, <2>1
    <3> HIDE DEF history, prefix
    <3> QED
      BY <3>1
  <2>2. CASE turn # 0
    <3>1. history = Summarized(q, s, turn - 1) /\ prefix = Summarized(q, turn, k - 1)
      BY <1>7, <2>2
    <3>2. turn \in s .. N + 1 /\ k - 1 \in Nat /\ turn <= (k - 1) + 1 /\ k - 1 <= N /\ s \in 1 .. N + 1
      BY <1>0, <1>9, <1>11, <1>12, <2>2
    <3> HIDE DEF history, prefix
    <3> QED
      BY <3>1, <3>2, SummarizedIs
  <2> QED
    BY <2>1, <2>2
<1>14. cut.split \in BOOLEAN /\ (~cut.split => prefix = {})
  BY <1>7
<1>15. \/ TokensFrom(q, c + 1) < keep
       \/ \E i \in s .. c - 1 : IsMessage(q[i]) /\ \A j \in s .. i : ~IsCutPoint(q[j])
  <2> SUFFICES ASSUME \A i \in CutPoints(q, s) : c <= i,
                      ~ \E i \in s .. c - 1 : IsMessage(q[i]) /\ \A j \in s .. i : ~IsCutPoint(q[j])
               PROVE  FALSE
    BY <1>8
  <2>1. \A j \in s .. c - 1 : ~IsCutPoint(q[j])
    BY <1>0, <1>8, <1>9 DEF CutPoints
  <2>2. \A i \in s .. c - 1 : ~IsMessage(q[i])
    BY <1>9, <2>1
  <2>3. k = s
    BY <1>10, <2>2
  <2>4. s .. k - 1 = {}
    BY <1>9, <2>3
  <2>5. Summarized(q, s, k - 1) = {}
    BY <2>4 DEF Summarized
  <2> HIDE DEF history, prefix
  <2> QED
    BY <1>5, <1>13, <2>5
<1>16. PreparedAt(q, keep, prep, s, k, c)
  <2> HIDE DEF history, prefix
  <2>1. prep.split \in BOOLEAN /\ (~prep.split => prep.prefix = {})
    BY <1>4, <1>14
  <2>2. prep.firstKept = q[k].id
    BY <1>4, <1>7
  <2>3. /\ prep.history \cup prep.prefix = Summarized(q, s, k - 1)
        /\ prep.history \cap prep.prefix = {} /\ prep.previous = PreviousSummary(q)
    BY <1>4, <1>13
  <2> QED
    BY <1>8, <1>9, <1>10, <1>15, <2>1, <2>2, <2>3 DEF PreparedAt, s
<1> QED
  BY <1>9, <1>11, <1>16 DEF prep

-----------------------------------------------------------------------------
\* On the path p, what begins at the id r begins with a cut point, metadata aside.
BeginsAtCut(p, r) ==
  \E y \in Range(p) : /\ IsCutPoint(y) /\ r <= y.id
                      /\ \A x \in Range(p) : r <= x.id /\ x.id < y.id => ~IsMessage(x)

\* The last message of a path is an answer or a tool result.
FollowsCall(p) ==
  \E y \in Range(p) : /\ y.kind \in {"assistant", "toolResult"}
                      /\ \A z \in Range(p) : IsMessage(z) => z.id <= y.id

\* What holds of an entry from the moment it is appended to a list s, where
\* astray and gap are the compactions that are excepted.
Sound(s, astray, gap, e) ==
  LET p == PathTo(s, e.parent)
  IN  /\ e.covers \subseteq Ids(s)
      /\ e.kind = "toolResult" => FollowsCall(p)
      /\ e.kind = "compaction" /\ e.id \notin astray => e.ref \in Ids(p) /\ BeginsAtCut(p, e.ref)
      /\ e.kind = "compaction" /\ (astray \cup gap) \cap Ids(PathTo(s, e.id)) = {} =>
           \A x \in Range(p) : IsMessage(x) /\ x.kind # "compaction" /\ x.id < e.ref => x.id \in e.covers

\* The inductive invariant of compaction: a preparation is that of the path it
\* was made from, which has not changed since, and every entry is sound.
CompactionInv ==
  /\ TypeInv
  /\ Tree(entries)
  /\ leaf \in Ids(entries) \cup {NoId}
  /\ tip \in 0 .. lastId
  /\ \/ job = NothingToCompact
     \/ job.ok /\ job = PrepareCompaction(PathTo(entries, tip), KeepRecent)
  /\ \A e \in Range(entries) : Sound(entries, strays, gaps, e)

\* A sound entry stays sound when others are appended and excepted.
LEMMA SoundStays ==
  ASSUME NEW n \in Nat, NEW s \in Seq(EntriesUpTo(n)), Ascending(s),
         NEW e \in EntriesUpTo(n + 1), e.id = n + 1,
         NEW A, NEW B, NEW A2, NEW B2, A \subseteq A2, B \subseteq B2,
         NEW d \in Range(s), Sound(s, A, B, d)
  PROVE  Sound(Append(s, e), A2, B2, d)
<1> DEFINE t == Append(s, e)
<1>1. d \in EntriesUpTo(n) /\ d.id \in 0 .. n /\ d.parent \in 0 .. n
  <2>1. d \in EntriesUpTo(n)
    BY EntryAt
  <2>2. d.id \in 1 .. n /\ d.parent \in Nat /\ d.parent < d.id
    BY <2>1, EntryFacts
  <2> QED
    BY <2>1, <2>2
<1>2. PathTo(t, d.id) = PathTo(s, d.id) /\ PathTo(t, d.parent) = PathTo(s, d.parent)
  BY <1>1, PathStays
<1>3. Ids(s) \subseteq Ids(t)
  <2>1. Len(s) \in Nat /\ DOMAIN s = 1 .. Len(s) /\ DOMAIN t = 1 .. Len(s) + 1
        /\ \A i \in 1 .. Len(s) : t[i] = s[i] /\ i \in 1 .. Len(s) + 1
    OBVIOUS
  <2> HIDE DEF t
  <2> QED
    BY <2>1 DEF Ids
<1> HIDE DEF t
<1>4. (A2 \cup B2) \cap Ids(PathTo(s, d.id)) = {} => (A \cup B) \cap Ids(PathTo(s, d.id)) = {}
  OBVIOUS
<1>5. d.id \notin A2 => d.id \notin A
  OBVIOUS
<1> QED
  BY <1>2, <1>3, <1>4, <1>5 DEF Sound, t

\* Appending a sound entry keeps the invariant, whether or not a compaction ends
\* with it.
LEMMA AppendKeepsSound ==
  ASSUME CompactionInv, NEW e, Appends(e),
         UNCHANGED <<job, tip>> \/ (job' = NothingToCompact /\ tip' = NoId),
         strays \subseteq strays', gaps \subseteq gaps', Sound(Append(entries, e), strays', gaps', e)
  PROVE  CompactionInv'
<1>1. TypeInv /\ Tree(entries) /\ leaf \in Ids(entries) \cup {NoId} /\ tip \in 0 .. lastId
  BY DEF CompactionInv
<1>2. lastId \in Nat /\ entries \in Seq(EntriesUpTo(lastId)) /\ Ascending(entries)
  BY <1>1 DEF TypeInv, Tree
<1>3. /\ e \in EntriesUpTo(lastId + 1) /\ e.id = lastId + 1 /\ e.parent \in Ids(entries) \cup {NoId}
      /\ entries' = Append(entries, e) /\ leaf' = e.id /\ lastId' = lastId + 1
  BY <1>1 DEF Appends, AppendEntry
<1>4. TypeInv'
  BY <1>1, AppendTypes
<1>5. Tree(entries') /\ leaf' \in Ids(entries') \cup {NoId}
  BY <1>1, <1>2, <1>3, TreeAppend
<1>6. tip' \in 0 .. lastId'
  <2>1. tip' = tip \/ tip' = 0
    BY DEF NoId
  <2> QED
    BY <1>1, <1>2, <1>3, <2>1
<1>7. \/ job' = NothingToCompact
      \/ job'.ok /\ job' = PrepareCompaction(PathTo(entries', tip'), KeepRecent)
  <2>1. PathTo(entries', tip) = PathTo(entries, tip)
    BY <1>1, <1>2, <1>3, PathStays
  <2>2. CASE job' = NothingToCompact
    BY <2>2
  <2>3. CASE UNCHANGED <<job, tip>>
    <3>1. job = NothingToCompact \/ (job.ok /\ job = PrepareCompaction(PathTo(entries, tip), KeepRecent))
      BY DEF CompactionInv
    <3> QED
      BY <2>1, <2>3, <3>1
  <2> QED
    BY <2>2, <2>3
<1>8. ASSUME NEW d \in Range(entries') PROVE Sound(entries', strays', gaps', d)
  <2>1. Range(entries') = Range(entries) \cup {e}
    <3>1. lastId + 1 \in Nat /\ lastId <= lastId + 1
      BY <1>2
    <3>2. entries \in Seq(EntriesUpTo(lastId + 1))
      BY <1>2, <3>1, TypesGrow
    <3> QED
      BY <1>3, <3>2, RangeAppend
  <2>2. CASE d = e
    BY <1>3, <2>2
  <2>3. CASE d \in Range(entries)
    <3>1. Sound(entries, strays, gaps, d)
      BY <2>3 DEF CompactionInv
    <3> QED
      BY <1>2, <1>3, <2>3, <3>1, SoundStays
  <2> QED
    BY <1>8, <2>1, <2>2, <2>3
<1> QED
  BY <1>4, <1>5, <1>6, <1>7, <1>8 DEF CompactionInv

\* Appending an entry that is not a compaction.
LEMMA SayingKeepsSound ==
  ASSUME CompactionInv, NEW parent \in Ids(entries) \cup {NoId},
         NEW kind \in Kinds \ (LabelKinds \cup {"compaction"}), NEW size \in Nat,
         NEW e, e = NewEntry(parent, kind, size, NoId, {}),
         Saved(e) \/ Unsaved(e), UNCHANGED labels, UNCHANGED <<job, tip, strays, gaps>>,
         kind = "toolResult" => FollowsCall(PathTo(entries, parent))
  PROVE  CompactionInv'
<1>1. TypeInv /\ lastId \in Nat /\ entries \in Seq(EntriesUpTo(lastId)) /\ Ascending(entries)
  BY DEF CompactionInv, TypeInv, Tree
<1>2. parent \in 0 .. lastId /\ NoId \in 0 .. lastId /\ {} \in SUBSET Nat
  <2>1. Ids(entries) \subseteq 1 .. lastId
    BY <1>1, IdsType
  <2> QED
    BY <1>1, <2>1 DEF NoId
<1>3. e \in EntriesUpTo(lastId + 1) /\ e.id = lastId + 1 /\ e.parent = parent /\ e.kind = kind
  BY <1>1, <1>2, NewEntryType
<1>4. Relabel(labels, e) = labels
  BY <1>3 DEF Relabel, LabelKinds
<1>5. Appends(e)
  BY <1>3, <1>4 DEF Appends, Saved, Unsaved
<1>6. e.covers = {}
  BY DEF NewEntry, Entry
<1>7. Sound(Append(entries, e), strays, gaps, e)
  <2>1. PathTo(Append(entries, e), parent) = PathTo(entries, parent)
    BY <1>1, <1>2, <1>3, PathStays
  <2> QED
    BY <1>3, <1>6, <2>1 DEF Sound
<1> QED
  BY <1>5, <1>7, AppendKeepsSound

\* The same of the entries of the path: b is where the part to cut begins, f the
\* first entry that is kept and y the cut point it was found from.
Cuts(q, prep, b, f, y) ==
  /\ b.id <= f.id /\ f.id <= y.id /\ prep.firstKept = f.id
  /\ IsCutPoint(y) /\ \A x \in Range(q) : f.id <= x.id /\ x.id < y.id => ~IsMessage(x)
  /\ prep.history \cap prep.prefix = {} /\ prep.split \in BOOLEAN /\ (~prep.split => prep.prefix = {})
  /\ \A i : i \in prep.history \cup prep.prefix <=>
       \E x \in Range(q) : x.id = i /\ IsMessage(x) /\ x.kind # "compaction" /\ b.id <= x.id /\ x.id < f.id
  /\ \/ /\ \A x \in Range(q) : x.kind # "compaction" /\ b.id <= x.id
        /\ prep.previous = {}
     \/ \E comp \in Range(q) :
          /\ comp.kind = "compaction" /\ prep.previous = comp.covers
          /\ \A x \in Range(q) : x.kind = "compaction" => x.id <= comp.id
          /\ comp.ref \in Ids(q) => b.id = comp.ref
          /\ comp.ref \notin Ids(q) => \A x \in Range(q) : comp.id < x.id => b.id <= x.id

\* The order of the entries of an ascending list.
LEMMA InOrder ==
  ASSUME NEW n \in Nat, NEW q \in Seq(EntriesUpTo(n)), Ascending(q)
  PROVE  /\ Len(q) \in Nat /\ DOMAIN q = 1 .. Len(q)
         /\ \A i \in 1 .. Len(q) : q[i] \in Range(q) /\ q[i].id \in Nat
         /\ \A i, j \in 1 .. Len(q) : (i < j <=> q[i].id < q[j].id) /\ (i <= j <=> q[i].id <= q[j].id)
<1>1. Len(q) \in Nat /\ DOMAIN q = 1 .. Len(q) /\ \A i \in 1 .. Len(q) : q[i] \in EntriesUpTo(n)
  OBVIOUS
<1>2. \A i \in 1 .. Len(q) : q[i] \in Range(q) /\ q[i].id \in Nat
  BY <1>1, EntryFacts DEF Range
<1>3. ASSUME NEW i \in 1 .. Len(q), NEW j \in 1 .. Len(q)
      PROVE  (i < j <=> q[i].id < q[j].id) /\ (i <= j <=> q[i].id <= q[j].id)
  <2>1. (i < j => q[i].id < q[j].id) /\ (j < i => q[j].id < q[i].id)
    BY <1>1 DEF Ascending
  <2>2. (i < j \/ i = j \/ j < i) /\ (i = j => q[i].id = q[j].id)
    BY <1>1
  <2>3. q[i].id \in Nat /\ q[j].id \in Nat
    BY <1>2
  <2> QED
    BY <2>1, <2>2, <2>3
<1> QED
  BY <1>1, <1>2, <1>3

\* What prepareCompaction returns, in terms of the entries.
LEMMA CutsAre ==
  ASSUME NEW n \in Nat, NEW q \in Seq(EntriesUpTo(n)), Ascending(q), NEW keep \in Nat \ {0},
         NEW prep, NEW s \in Nat, NEW k \in Nat, NEW c \in Nat, PreparedAt(q, keep, prep, s, k, c)
  PROVE  /\ Cuts(q, prep, q[s], q[k], q[c])
         /\ q[s] \in Range(q) /\ q[k] \in Range(q) /\ q[c] \in Range(q)
         /\ \/ TokensFrom(q, c + 1) < keep
            \/ \E x \in Range(q) : /\ q[s].id <= x.id /\ IsMessage(x)
                                   /\ \A z \in Range(q) : q[s].id <= z.id /\ z.id <= x.id => ~IsCutPoint(z)
<1> DEFINE N == Len(q)
<1>1. N \in Nat /\ DOMAIN q = 1 .. N /\ \A i \in 1 .. N : q[i] \in Range(q) /\ q[i].id \in Nat
  BY InOrder
<1>2. \A i, j \in 1 .. N : (i < j <=> q[i].id < q[j].id) /\ (i <= j <=> q[i].id <= q[j].id)
  BY InOrder
<1>3. s \in 1 .. N /\ k \in s .. c /\ c \in s .. N /\ k \in 1 .. N /\ c \in 1 .. N /\ s <= k /\ k <= c
  BY <1>1 DEF PreparedAt
<1>4. \A x \in Range(q) : \E i \in 1 .. N : q[i] = x
  BY <1>1 DEF Range
<1> HIDE DEF N
<1>5. q[s].id <= q[k].id /\ q[k].id <= q[c].id /\ q[s] \in Range(q) /\ q[k] \in Range(q) /\ q[c] \in Range(q)
  BY <1>1, <1>2, <1>3
<1>6. ASSUME NEW x \in Range(q), q[k].id <= x.id, x.id < q[c].id PROVE ~IsMessage(x)
  <2>1. PICK i \in 1 .. N : q[i] = x
    BY <1>4
  <2>2. k <= i /\ i < c
    BY <1>2, <1>3, <1>6, <2>1
  <2>3. i \in k .. c - 1
    BY <1>1, <2>2
  <2> QED
    BY <2>1, <2>3 DEF PreparedAt
<1>7. ASSUME NEW i
      PROVE  i \in prep.history \cup prep.prefix <=>
               \E x \in Range(q) : /\ x.id = i /\ IsMessage(x) /\ x.kind # "compaction"
                                   /\ q[s].id <= x.id /\ x.id < q[k].id
  <2>1. prep.history \cup prep.prefix = Summarized(q, s, k - 1)
    BY DEF PreparedAt
  <2>2. i \in Summarized(q, s, k - 1) <=>
          \E j \in s .. k - 1 : q[j].id = i /\ IsMessage(q[j]) /\ q[j].kind # "compaction"
    BY DEF Summarized
  <2>3. ASSUME NEW j \in s .. k - 1
        PROVE  j \in 1 .. N /\ q[j] \in Range(q) /\ q[s].id <= q[j].id /\ q[j].id < q[k].id
    <3>1. j \in 1 .. N /\ s <= j /\ j < k
      BY <1>1, <1>3
    <3> QED
      BY <1>1, <1>2, <1>3, <3>1
  <2>4. ASSUME NEW x \in Range(q), q[s].id <= x.id, x.id < q[k].id
        PROVE  \E j \in s .. k - 1 : q[j] = x
    <3>1. PICK j \in 1 .. N : q[j] = x
      BY <1>4
    <3>2. s <= j /\ j < k
      BY <1>2, <1>3, <2>4, <3>1
    <3>3. j \in s .. k - 1
      BY <1>1, <3>2
    <3> QED
      BY <3>1, <3>3
  <2> QED
    BY <2>1, <2>2, <2>3, <2>4
<1>8. \/ /\ \A x \in Range(q) : x.kind # "compaction" /\ q[s].id <= x.id
         /\ prep.previous = {}
      \/ \E comp \in Range(q) :
           /\ comp.kind = "compaction" /\ prep.previous = comp.covers
           /\ \A x \in Range(q) : x.kind = "compaction" => x.id <= comp.id
           /\ comp.ref \in Ids(q) => q[s].id = comp.ref
           /\ comp.ref \notin Ids(q) => \A x \in Range(q) : comp.id < x.id => q[s].id <= x.id
  <2>1. s = BoundaryStart(q) /\ prep.previous = PreviousSummary(q)
    BY DEF PreparedAt
  <2>2. CASE (\A x \in Range(q) : x.kind # "compaction") /\ BoundaryStart(q) = 1 /\ PreviousSummary(q) = {}
    <3>1. ASSUME NEW x \in Range(q) PROVE q[s].id <= x.id
      <4>1. PICK i \in 1 .. N : q[i] = x
        BY <1>4
      <4>2. s <= i
        BY <1>1, <2>1, <2>2
      <4> QED
        BY <1>2, <1>3, <4>1, <4>2
    <3> QED
      BY <2>1, <2>2, <3>1
  <2>3. CASE \E j \in 1 .. Len(q) :
               /\ q[j].kind = "compaction" /\ PreviousSummary(q) = q[j].covers
               /\ \A i \in 1 .. Len(q) : q[i].kind = "compaction" => i <= j
               /\ \/ q[j].ref \in Ids(q) /\ q[BoundaryStart(q)].id = q[j].ref
                  \/ q[j].ref \notin Ids(q) /\ BoundaryStart(q) = j + 1
    <3>1. PICK j \in 1 .. N :
               /\ q[j].kind = "compaction" /\ PreviousSummary(q) = q[j].covers
               /\ \A i \in 1 .. N : q[i].kind = "compaction" => i <= j
               /\ \/ q[j].ref \in Ids(q) /\ q[BoundaryStart(q)].id = q[j].ref
                  \/ q[j].ref \notin Ids(q) /\ BoundaryStart(q) = j + 1
      BY <2>3 DEF N
    <3>2. \A x \in Range(q) : x.kind = "compaction" => x.id <= q[j].id
      BY <1>2, <1>4, <3>1
    <3>3. q[j] \in Range(q)
      BY <1>1
    <3>4. ASSUME q[j].ref \notin Ids(q), NEW x \in Range(q), q[j].id < x.id PROVE q[s].id <= x.id
      <4>1. s = j + 1
        BY <2>1, <3>1, <3>4
      <4>2. PICK i \in 1 .. N : q[i] = x
        BY <1>4
      <4>3. j < i
        BY <1>2, <3>4, <4>2
      <4>4. s <= i
        BY <1>1, <4>1, <4>3
      <4> QED
        BY <1>2, <1>3, <4>2, <4>4
    <3> QED
      BY <2>1, <3>1, <3>2, <3>3, <3>4
  <2> QED
    BY <2>2, <2>3, BoundaryIs
<1>9. \/ TokensFrom(q, c + 1) < keep
      \/ \E x \in Range(q) : /\ q[s].id <= x.id /\ IsMessage(x)
                             /\ \A z \in Range(q) : q[s].id <= z.id /\ z.id <= x.id => ~IsCutPoint(z)
  <2>1. CASE \E i \in s .. c - 1 : IsMessage(q[i]) /\ \A j \in s .. i : ~IsCutPoint(q[j])
    <3>1. PICK i \in s .. c - 1 : IsMessage(q[i]) /\ \A j \in s .. i : ~IsCutPoint(q[j])
      BY <2>1
    <3>2. i \in 1 .. N /\ s <= i
      BY <1>1, <1>3
    <3>3. ASSUME NEW z \in Range(q), q[s].id <= z.id, z.id <= q[i].id PROVE ~IsCutPoint(z)
      <4>1. PICK j \in 1 .. N : q[j] = z
        BY <1>4
      <4>2. s <= j /\ j <= i
        BY <1>2, <1>3, <3>2, <3>3, <4>1
      <4>3. j \in s .. i
        BY <1>1, <4>2
      <4> QED
        BY <3>1, <4>1, <4>3
    <3>4. q[i] \in Range(q) /\ q[s].id <= q[i].id
      BY <1>1, <1>2, <1>3, <3>2
    <3> QED
      BY <3>1, <3>3, <3>4
  <2> QED
    BY <2>1 DEF PreparedAt
<1>10. Cuts(q, prep, q[s], q[k], q[c])
  <2>1. /\ prep.firstKept = q[k].id /\ IsCutPoint(q[c]) /\ prep.history \cap prep.prefix = {}
        /\ prep.split \in BOOLEAN /\ (~prep.split => prep.prefix = {})
    BY DEF PreparedAt
  <2> QED
    BY <1>5, <1>6, <1>7, <1>8, <2>1 DEF Cuts
<1> QED
  BY <1>5, <1>9, <1>10

\* The summary of a compaction is made from its range and the previous summary,
\* but for the one that takes nothing over.
LEMMA CoversAre ==
  ASSUME NEW prep, prep.split \in BOOLEAN, ~prep.split => prep.prefix = {}
  PROVE  /\ prep.history \cup prep.prefix \subseteq CompactCovers(prep)
         /\ CompactCovers(prep) \subseteq prep.history \cup prep.prefix \cup prep.previous
         /\ ~TakesNothingOver(prep) => prep.previous \subseteq CompactCovers(prep)
  BY DEF CompactCovers, TakesNothingOver

\* The ids of a list are those of its entries.
LEMMA IdsAre == \A s : Ids(s) = {x.id : x \in Range(s)}
  BY DEF Ids, Range

\* What the invariant says of a path.
LEMMA PathFacts ==
  ASSUME CompactionInv, NEW id \in Nat
  PROVE  LET q == PathTo(entries, id)
         IN  /\ q \in Seq(EntriesUpTo(lastId)) /\ Ascending(q) /\ Range(q) \subseteq Range(entries)
             /\ \A x \in Range(q) : /\ x \in EntriesUpTo(lastId) /\ x.id \in Nat /\ x.parent \in Nat /\ x.ref \in Nat
                                    /\ Sound(entries, strays, gaps, x)
                                    /\ \A z \in Range(q) : z.id = x.id => z = x
                                    /\ Range(PathTo(entries, x.id)) = {z \in Range(q) : z.id <= x.id}
                                    /\ Range(PathTo(entries, x.parent)) = {z \in Range(q) : z.id < x.id}
<1>1. lastId \in Nat /\ entries \in Seq(EntriesUpTo(lastId)) /\ Ascending(entries)
  BY DEF CompactionInv, TypeInv, Tree
<1> DEFINE q == PathTo(entries, id)
<1>2. q \in Seq(EntriesUpTo(lastId)) /\ Ascending(q) /\ Range(q) \subseteq Range(entries)
  BY <1>1, PathType, PathInside
<1>3. ASSUME NEW x \in Range(q)
      PROVE  /\ x \in EntriesUpTo(lastId) /\ x.id \in Nat /\ x.parent \in Nat /\ x.ref \in Nat
             /\ Sound(entries, strays, gaps, x)
             /\ \A z \in Range(q) : z.id = x.id => z = x
             /\ Range(PathTo(entries, x.id)) = {z \in Range(q) : z.id <= x.id}
             /\ Range(PathTo(entries, x.parent)) = {z \in Range(q) : z.id < x.id}
  <2>1. x \in EntriesUpTo(lastId) /\ \A z \in Range(q) : z.id = x.id => z = x
    BY <1>1, <1>2, EntryAt
  <2>2. x.id \in Nat /\ x.parent \in Nat /\ x.ref \in Nat
    BY <1>1, <2>1, EntryFacts
  <2>3. Sound(entries, strays, gaps, x)
    BY <1>2 DEF CompactionInv
  <2>4. /\ Range(PathTo(entries, x.id)) = {z \in Range(q) : z.id <= x.id}
        /\ Range(PathTo(entries, x.parent)) = {z \in Range(q) : z.id < x.id}
    BY <1>1, PathUpTo
  <2> QED
    BY <2>1, <2>2, <2>3, <2>4
<1> QED
  BY <1>2, <1>3

\* The preparation whose summary is being generated.
LEMMA JobIs ==
  ASSUME CompactionInv, job.ok
  PROVE  LET q == PathTo(entries, tip)
         IN  /\ tip \in Nat
             /\ \E b, f, y \in Range(q) : Cuts(q, job, b, f, y)
             /\ job.firstKept \in Ids(q)
             /\ job.previous \subseteq Ids(entries) /\ CompactCovers(job) \subseteq Ids(entries)
<1> DEFINE q == PathTo(entries, tip)
<1>1. tip \in Nat /\ lastId \in Nat
  BY DEF CompactionInv, TypeInv
<1>2. job = PrepareCompaction(q, KeepRecent)
  <2>1. job # NothingToCompact
    BY DEF NothingToCompact
  <2> QED
    BY <2>1 DEF CompactionInv
<1>3. q \in Seq(EntriesUpTo(lastId)) /\ Ascending(q) /\ Range(q) \subseteq Range(entries)
  BY <1>1, PathFacts
<1>4. \A x \in Range(q) : x.id \in Nat /\ x.covers \subseteq Ids(entries)
  BY <1>1, PathFacts DEF Sound
<1> HIDE DEF q
<1>5. KeepRecent \in Nat \ {0}
  BY KeepRecentAssumption
<1>6. PICK s, k, c \in Nat : PreparedAt(q, KeepRecent, job, s, k, c)
  BY <1>1, <1>2, <1>3, <1>5, PrepareIs
<1>7. /\ Cuts(q, job, q[s], q[k], q[c])
      /\ q[s] \in Range(q) /\ q[k] \in Range(q) /\ q[c] \in Range(q)
  BY <1>1, <1>3, <1>5, <1>6, CutsAre
<1>8. job.firstKept \in Ids(q)
  BY <1>7, IdsAre DEF Cuts
<1>9. job.previous \subseteq Ids(entries)
  BY <1>4, <1>7 DEF Cuts
<1>10. job.history \cup job.prefix \subseteq Ids(entries)
  <2>1. Ids(q) \subseteq Ids(entries)
    BY <1>3, IdsAre
  <2>2. \A i \in job.history \cup job.prefix : \E x \in Range(q) : x.id = i
    BY <1>7 DEF Cuts
  <2> QED
    BY <2>1, <2>2, IdsAre
<1>11. CompactCovers(job) \subseteq Ids(entries)
  BY <1>7, <1>9, <1>10, CoversAre DEF Cuts
<1> QED
  BY <1>1, <1>7, <1>8, <1>9, <1>11 DEF q

\* The compaction that arrives on the path it was made from begins, there too,
\* with a cut point, and what it cuts off is in its summary.
LEMMA ArrivalIs ==
  ASSUME CompactionInv, job.ok, tip \in Ids(branch)
  PROVE  /\ job.firstKept \in Ids(branch) /\ BeginsAtCut(branch, job.firstKept)
         /\ ~TakesNothingOver(job) /\ (strays \cup gaps) \cap Ids(branch) = {} =>
              \A x \in Range(branch) :
                IsMessage(x) /\ x.kind # "compaction" /\ x.id < job.firstKept => x.id \in CompactCovers(job)
<1> DEFINE q == PathTo(entries, tip)
           p == PathTo(entries, leaf)
<1>1. tip \in Nat /\ leaf \in Nat
  <2>1. leaf \in 0 .. lastId /\ lastId \in Nat
    BY DEF CompactionInv, TypeInv
  <2> QED
    BY <2>1, JobIs
<1>2. /\ p = branch /\ Ids(p) = {x.id : x \in Range(p)} /\ Ids(q) = {x.id : x \in Range(q)}
      /\ \A x \in Range(p) :
           /\ x.id \in Nat /\ x.ref \in Nat /\ Sound(entries, strays, gaps, x)
           /\ Range(PathTo(entries, x.id)) = {z \in Range(p) : z.id <= x.id}
           /\ Range(PathTo(entries, x.parent)) = {z \in Range(p) : z.id < x.id}
  <2>1. p = branch
    BY DEF branch
  <2> QED
    BY <1>1, <2>1, PathFacts, IdsAre
<1>3. Range(q) = {z \in Range(p) : z.id <= tip}
  <2>1. PICK x \in Range(p) : x.id = tip
    BY <1>2
  <2> QED
    BY <1>2, <2>1
<1>4. PICK b \in Range(q), f \in Range(q), y \in Range(q) : Cuts(q, job, b, f, y)
  BY JobIs
<1> HIDE DEF p, q
<1>5. /\ b.id \in Nat /\ f.id \in Nat /\ y.id \in Nat /\ y.id <= tip /\ f.id <= tip
      /\ b \in Range(p) /\ f \in Range(p) /\ y \in Range(p)
  BY <1>2, <1>3
<1>6. b.id <= f.id /\ f.id <= y.id /\ job.firstKept = f.id /\ IsCutPoint(y)
      /\ \A x \in Range(q) : f.id <= x.id /\ x.id < y.id => ~IsMessage(x)
  BY <1>4 DEF Cuts
<1>7. BeginsAtCut(p, f.id)
  <2>1. \A x \in Range(p) : f.id <= x.id /\ x.id < y.id => ~IsMessage(x)
    <3>1. \A x \in Range(p) : x.id < y.id => x.id <= tip
      BY <1>1, <1>2, <1>5
    <3> QED
      BY <1>3, <1>6, <3>1
  <2> QED
    BY <1>5, <1>6, <2>1 DEF BeginsAtCut
<1>8. ASSUME ~TakesNothingOver(job), (strays \cup gaps) \cap Ids(p) = {},
             NEW x \in Range(p), IsMessage(x), x.kind # "compaction", x.id < f.id
      PROVE  x.id \in CompactCovers(job)
  <2>1. x \in Range(q) /\ x.id \in Nat
    <3>1. x.id <= tip /\ x.id \in Nat
      BY <1>1, <1>2, <1>5, <1>8
    <3> QED
      BY <1>3, <3>1
  <2>2. /\ job.history \cup job.prefix \subseteq CompactCovers(job)
        /\ job.previous \subseteq CompactCovers(job)
    BY <1>4, <1>8, CoversAre DEF Cuts
  <2>3. CASE b.id <= x.id
    <3>1. x.id \in job.history \cup job.prefix
      BY <1>4, <1>8, <2>1, <2>3 DEF Cuts
    <3> QED
      BY <2>2, <3>1
  <2>4. CASE ~(b.id <= x.id)
    <3>1. PICK comp \in Range(q) :
            /\ comp.kind = "compaction" /\ job.previous = comp.covers
            /\ comp.ref \in Ids(q) => b.id = comp.ref
      BY <1>4, <2>1, <2>4 DEF Cuts
    <3>2. /\ comp \in Range(p) /\ comp.id \in Nat /\ Sound(entries, strays, gaps, comp)
          /\ Range(PathTo(entries, comp.id)) = {z \in Range(p) : z.id <= comp.id}
          /\ Range(PathTo(entries, comp.parent)) = {z \in Range(p) : z.id < comp.id}
      BY <1>2, <1>3
    <3>3. comp.id <= tip
      BY <1>3
    <3>4. Ids(PathTo(entries, comp.id)) \subseteq Ids(p) /\ comp.id \in Ids(p)
      BY <1>2, <3>2, IdsAre
    <3>5. /\ comp.ref \in Ids(PathTo(entries, comp.parent))
          /\ \A z \in Range(PathTo(entries, comp.parent)) :
               IsMessage(z) /\ z.kind # "compaction" /\ z.id < comp.ref => z.id \in comp.covers
      BY <1>8, <3>1, <3>2, <3>4 DEF Sound
    <3>6. PICK r \in Range(p) : r.id = comp.ref /\ r.id < comp.id
      BY <3>2, <3>5, IdsAre
    <3>7. r.id \in Nat /\ r.id <= tip
      BY <1>1, <1>2, <3>2, <3>3, <3>6
    <3>8. comp.ref \in Ids(q)
      BY <1>2, <1>3, <3>6, <3>7
    <3>9. b.id = comp.ref
      BY <3>1, <3>8
    <3>10. x.id < comp.ref /\ x.id < comp.id
      BY <1>5, <2>1, <2>4, <3>2, <3>6, <3>9
    <3>11. x \in Range(PathTo(entries, comp.parent))
      BY <3>2, <3>10
    <3>12. x.id \in comp.covers
      BY <1>8, <3>5, <3>10, <3>11
    <3> QED
      BY <2>2, <3>1, <3>12
  <2> QED
    BY <2>3, <2>4
<1>9. job.firstKept \in Ids(p)
  BY <1>2, <1>5, <1>6
<1> QED
  BY <1>2, <1>6, <1>7, <1>8, <1>9

\* The summary arrives: a compaction is appended at the leaf.
LEMMA FinishAppends ==
  ASSUME CompactionInv, FinishCompaction
  PROVE  \E e : /\ Appends(e) /\ e.parent = leaf /\ e.kind = "compaction"
                /\ e.ref = job.firstKept /\ e.covers = CompactCovers(job) /\ e.covers \subseteq Ids(entries)
<1> DEFINE covers == CompactCovers(job)
           ref == job.firstKept
           e == NewEntry(leaf, "compaction", 1, ref, covers)
<1>1. TypeInv /\ lastId \in Nat /\ entries \in Seq(EntriesUpTo(lastId))
      /\ leaf \in 0 .. lastId /\ leaf \in Ids(entries) \cup {NoId} /\ tip \in Nat
  BY DEF CompactionInv, TypeInv
<1>2. job.ok /\ AppendSummary(ref, covers)
  BY DEF FinishCompaction
<1>3. Ids(entries) \subseteq 1 .. lastId
  BY <1>1, IdsType
<1>4. ref \in 0 .. lastId /\ covers \in SUBSET Nat /\ covers \subseteq Ids(entries)
  <2>1. ref \in Ids(PathTo(entries, tip)) /\ covers \subseteq Ids(entries)
    BY <1>2, JobIs
  <2>2. PathTo(entries, tip) \in Seq(EntriesUpTo(lastId))
    BY <1>1, PathType
  <2>3. Ids(PathTo(entries, tip)) \subseteq 1 .. lastId
    BY <1>1, <2>2, IdsType
  <2> QED
    BY <1>3, <2>1, <2>3
<1>5. "compaction" \in Kinds /\ 1 \in Nat
  BY DEF Kinds
<1>6. (Saved(e) \/ Unsaved(e)) /\ UNCHANGED labels
  BY <1>2 DEF AppendSummary
<1> HIDE DEF covers, ref
<1>7. e \in EntriesUpTo(lastId + 1) /\ e.id = lastId + 1 /\ e.parent = leaf /\ e.kind = "compaction"
  BY <1>1, <1>4, <1>5, NewEntryType
<1>8. e.covers = covers /\ e.ref = ref
  BY DEF NewEntry, Entry
<1> HIDE DEF e
<1>9. Relabel(labels, e) = labels
  BY <1>7 DEF Relabel, LabelKinds
<1>10. Appends(e)
  BY <1>1, <1>6, <1>7, <1>9 DEF Appends, Saved, Unsaved
<1> QED
  BY <1>4, <1>7, <1>8, <1>10 DEF covers, ref

\* The path to an entry that is appended at the leaf.
LEMMA PathGrows ==
  ASSUME CompactionInv, NEW e, Appends(e), e.parent = leaf
  PROVE  /\ entries' = Append(entries, e) /\ leaf' = e.id /\ e.id = lastId + 1 /\ lastId + 1 \in Nat
         /\ PathTo(entries', leaf) = branch /\ Ids(entries) \subseteq Ids(entries')
         /\ PathTo(entries', e.id) \in Seq(EntriesUpTo(lastId + 1)) /\ Ascending(PathTo(entries', e.id))
         /\ Range(PathTo(entries', e.id)) = Range(branch) \cup {e}
         /\ \A x \in Range(branch) : x.id < e.id
<1> DEFINE t == Append(entries, e)
<1>1. /\ lastId \in Nat /\ entries \in Seq(EntriesUpTo(lastId)) /\ Ascending(entries) /\ leaf \in 0 .. lastId
      /\ e \in EntriesUpTo(lastId + 1) /\ e.id = lastId + 1 /\ entries' = t /\ leaf' = e.id
  BY DEF CompactionInv, TypeInv, Tree, Appends, AppendEntry
<1>2. PathTo(t, leaf) = branch
  BY <1>1, PathStays DEF branch
<1>3. /\ t \in Seq(EntriesUpTo(lastId + 1)) /\ lastId + 1 \in Nat /\ Ascending(t)
      /\ e \in Range(t) /\ Ids(entries) \subseteq Ids(t)
  <2>1. lastId + 1 \in Nat /\ lastId <= lastId + 1
    BY <1>1
  <2>2. entries \in Seq(EntriesUpTo(lastId + 1))
    BY <1>1, <2>1, TypesGrow
  <2>3. Range(t) = Range(entries) \cup {e} /\ t \in Seq(EntriesUpTo(lastId + 1))
    BY <1>1, <2>2, RangeAppend
  <2>4. \A x \in EntriesUpTo(lastId + 1) : x.id \in Nat
    BY <2>1, EntryFacts
  <2>5. \A i \in 1 .. Len(entries) : entries[i].id < e.id
    <3>1. \A i \in 1 .. Len(entries) : entries[i].id \in Ids(entries)
      BY <1>1 DEF Ids
    <3>2. Ids(entries) \subseteq 1 .. lastId
      BY <1>1, IdsType
    <3> QED
      BY <1>1, <3>1, <3>2
  <2>6. Ascending(t)
    BY <1>1, <2>2, <2>4, <2>5, AscendAppend
  <2> QED
    BY <2>1, <2>3, <2>6, IdsAre
<1> HIDE DEF t
<1>4. Range(PathTo(t, e.id)) = Range(branch) \cup {e} /\ \A x \in Range(branch) : x.id < e.id
  BY <1>2, <1>3, PathRange
<1>5. PathTo(t, e.id) \in Seq(EntriesUpTo(lastId + 1)) /\ Ascending(PathTo(t, e.id))
  BY <1>1, <1>3, PathType
<1> QED
  BY <1>1, <1>2, <1>3, <1>4, <1>5 DEF t

\* That compaction is sound.
LEMMA FinishKeepsSound ==
  ASSUME CompactionInv, FinishCompaction
  PROVE  CompactionInv'
<1> DEFINE covers == CompactCovers(job)
           ref == job.firstKept
<1>1. /\ job.ok /\ job' = NothingToCompact /\ tip' = NoId
      /\ strays' = IF tip \in Ids(branch) THEN strays ELSE strays \cup {leaf'}
      /\ gaps' = IF TakesNothingOver(job) THEN gaps \cup {leaf'} ELSE gaps
  BY DEF FinishCompaction
<1>2. PICK e : /\ Appends(e) /\ e.parent = leaf /\ e.kind = "compaction"
               /\ e.ref = ref /\ e.covers = covers /\ e.covers \subseteq Ids(entries)
  BY FinishAppends
<1> HIDE DEF covers, ref
<1>3. /\ entries' = Append(entries, e) /\ leaf' = e.id /\ PathTo(entries', leaf) = branch
      /\ Ids(entries) \subseteq Ids(entries') /\ Range(PathTo(entries', e.id)) = Range(branch) \cup {e}
  BY <1>2, PathGrows
<1>4. strays \subseteq strays' /\ gaps \subseteq gaps'
  BY <1>1
<1>5. e.id \notin strays' => ref \in Ids(branch) /\ BeginsAtCut(branch, ref)
  BY <1>1, <1>3, ArrivalIs DEF ref
<1>6. (strays' \cup gaps') \cap Ids(PathTo(entries', e.id)) = {} =>
        \A x \in Range(branch) : IsMessage(x) /\ x.kind # "compaction" /\ x.id < ref => x.id \in covers
  <2> SUFFICES ASSUME (strays' \cup gaps') \cap Ids(PathTo(entries', e.id)) = {}
               PROVE  \A x \in Range(branch) :
                        IsMessage(x) /\ x.kind # "compaction" /\ x.id < ref => x.id \in covers
    OBVIOUS
  <2>1. e.id \in Ids(PathTo(entries', e.id)) /\ Ids(branch) \subseteq Ids(PathTo(entries', e.id))
    BY <1>3, IdsAre
  <2>2. tip \in Ids(branch) /\ ~TakesNothingOver(job)
    BY <1>1, <1>3, <2>1
  <2>3. (strays \cup gaps) \cap Ids(branch) = {}
    BY <1>4, <2>1
  <2> QED
    BY <1>1, <2>2, <2>3, ArrivalIs DEF covers, ref
<1>7. Sound(entries', strays', gaps', e)
  <2>1. e.covers \subseteq Ids(entries')
    BY <1>2, <1>3
  <2> QED
    BY <1>2, <1>3, <1>5, <1>6, <2>1 DEF Sound
<1> QED
  BY <1>1, <1>2, <1>3, <1>4, <1>7, AppendKeepsSound

\* The last message of a path, when it is an answer or a result.
LEMMA LastMessageIs ==
  ASSUME NEW n \in Nat, NEW p \in Seq(EntriesUpTo(n)), Ascending(p),
         LastMessageKind(p) \in {"assistant", "toolResult"}
  PROVE  FollowsCall(p)
<1> DEFINE I == {i \in 1 .. Len(p) : IsMessage(p[i])}
           last == SelectLastInSeq(p, IsMessage)
<1>1. Len(p) \in Nat /\ I \in SUBSET (0 .. Len(p))
  OBVIOUS
<1>2. last = IF I # {} THEN Max(I) ELSE 0
  BY DEF SelectLastInSeq
<1>3. LastMessageKind(p) = IF last = 0 THEN "none" ELSE p[last].kind
  BY DEF LastMessageKind
<1>4. I # {} /\ last = Max(I) /\ p[last].kind \in {"assistant", "toolResult"}
  <2> HIDE DEF I, last
  <2> QED
    BY <1>2, <1>3
<1>5. last \in I /\ \A i \in I : i <= last
  <2> HIDE DEF I
  <2> QED
    BY <1>1, <1>4, MaxIs
<1>6. last \in 1 .. Len(p) /\ \A i \in 1 .. Len(p) : IsMessage(p[i]) => i <= last
  BY <1>5
<1> HIDE DEF I, last
<1>7. \A z \in Range(p) : IsMessage(z) => z.id <= p[last].id
  <2> TAKE z \in Range(p)
  <2>1. PICK i \in 1 .. Len(p) : p[i] = z
    BY <1>1 DEF Range
  <2> QED
    BY <1>6, <2>1, InOrder
<1>8. p[last] \in Range(p)
  BY <1>6, InOrder
<1> QED
  BY <1>4, <1>7, <1>8 DEF FollowsCall

\* Every step keeps the invariant.
LEMMA StepKeepsSound ==
  ASSUME CompactionInv, [Converse]_allVars
  PROVE  CompactionInv'
<1>1. /\ TypeInv /\ lastId \in Nat /\ entries \in Seq(EntriesUpTo(lastId)) /\ Tree(entries) /\ Ascending(entries)
      /\ leaf \in 0 .. lastId /\ leaf \in Ids(entries) \cup {NoId} /\ tip \in 0 .. lastId
      /\ Ids(entries) \subseteq 1 .. lastId
  BY IdsType DEF CompactionInv, TypeInv, Tree
<1>2. CASE Say
  <2>1. PICK in \in Inputs :
          /\ in[1] = "toolResult" => LastMessageKind(branch) \in {"assistant", "toolResult"}
          /\ AppendMessage(in[1], in[2])
          /\ UNCHANGED <<job, moves, tip, strays, gaps>>
    BY <1>2 DEF Say
  <2>2. in[1] \in Kinds \ (LabelKinds \cup {"compaction"}) /\ in[2] \in Nat
    BY BoundsAssumption DEF Kinds, LabelKinds
  <2>3. in[1] = "toolResult" => FollowsCall(PathTo(entries, leaf))
    BY <1>1, <2>1, PathType, LastMessageIs DEF branch
  <2> QED
    BY <1>1, <2>1, <2>2, <2>3, SayingKeepsSound DEF AppendMessage
<1>3. CASE StartCompaction
  <2>1. /\ job' = PrepareCompaction(branch, KeepRecent) /\ job'.ok /\ tip' = leaf
        /\ UNCHANGED vars /\ UNCHANGED <<strays, gaps>>
    BY <1>3 DEF StartCompaction
  <2>2. TypeInv'
    BY <1>1, <2>1 DEF TypeInv, vars
  <2>3. UNCHANGED <<entries, leaf, lastId>>
    BY <2>1 DEF vars
  <2>4. tip' \in 0 .. lastId'
    BY <1>1, <2>1, <2>3
  <2>5. job'.ok /\ job' = PrepareCompaction(PathTo(entries', tip'), KeepRecent)
    BY <2>1, <2>3 DEF branch
  <2>6. \A e \in Range(entries') : Sound(entries', strays', gaps', e)
    BY <2>1, <2>3 DEF CompactionInv
  <2> QED
    BY <1>1, <2>2, <2>3, <2>4, <2>5, <2>6 DEF CompactionInv
<1>4. CASE FinishCompaction
  BY <1>4, FinishKeepsSound
<1>5. CASE CancelCompaction
  <2>1. job' = NothingToCompact /\ tip' = NoId /\ UNCHANGED vars /\ UNCHANGED <<strays, gaps>>
    BY <1>5 DEF CancelCompaction
  <2>2. TypeInv'
    BY <1>1, <2>1 DEF TypeInv, vars
  <2>3. UNCHANGED <<entries, leaf, lastId>>
    BY <2>1 DEF vars
  <2>4. tip' \in 0 .. lastId'
    BY <1>1, <2>1, <2>3 DEF NoId
  <2>5. \A e \in Range(entries') : Sound(entries', strays', gaps', e)
    BY <2>1, <2>3 DEF CompactionInv
  <2> QED
    BY <1>1, <2>1, <2>2, <2>3, <2>4, <2>5 DEF CompactionInv
<1>6. CASE Navigate
  <2>0. PICK i \in DOMAIN entries :
          LET to == IF entries[i].kind \in {"user", "custom"} THEN entries[i].parent ELSE entries[i].id
          IN  MoveLeaf(to) \/ SummarizeFrom(to)
    BY <1>6 DEF Navigate
  <2>1. PICK dest :
          /\ dest = IF entries[i].kind \in {"user", "custom"} THEN entries[i].parent ELSE entries[i].id
          /\ MoveLeaf(dest) \/ SummarizeFrom(dest)
          /\ UNCHANGED <<job, tip, strays, gaps>>
    BY <1>6, <2>0 DEF Navigate
  <2>2. dest \in Ids(entries) \cup {NoId}
    BY <1>1, <2>1 DEF Tree, Ids
  <2>3. CASE MoveLeaf(dest)
    <3>1. leaf' = dest /\ UNCHANGED <<files, session, entries, labels, flushed, lastId, faults>>
      BY <2>3 DEF MoveLeaf
    <3>2. dest \in 0 .. lastId
      BY <1>1, <2>2 DEF NoId
    <3>3. TypeInv'
      BY <1>1, <3>1, <3>2 DEF TypeInv
    <3>4. \/ job' = NothingToCompact
          \/ job'.ok /\ job' = PrepareCompaction(PathTo(entries', tip'), KeepRecent)
      BY <2>1, <3>1 DEF CompactionInv
    <3>5. \A e \in Range(entries') : Sound(entries', strays', gaps', e)
      BY <2>1, <3>1 DEF CompactionInv
    <3> QED
      BY <1>1, <2>1, <2>2, <3>1, <3>3, <3>4, <3>5 DEF CompactionInv
  <2>4. CASE SummarizeFrom(dest)
    <3>1. "summary" \in Kinds \ (LabelKinds \cup {"compaction"}) /\ 1 \in Nat /\ "summary" # "toolResult"
      BY DEF Kinds, LabelKinds
    <3> QED
      BY <2>1, <2>2, <2>4, <3>1, SayingKeepsSound DEF SummarizeFrom
  <2> QED
    BY <2>1, <2>3, <2>4
<1>7. CASE UNCHANGED allVars
  <2>1. UNCHANGED vars /\ UNCHANGED <<job, tip, strays, gaps>>
    BY <1>7 DEF allVars
  <2>2. TypeInv'
    BY <1>1, <2>1 DEF TypeInv, vars
  <2>3. UNCHANGED <<entries, leaf, lastId>>
    BY <2>1 DEF vars
  <2>4. \/ job' = NothingToCompact
        \/ job'.ok /\ job' = PrepareCompaction(PathTo(entries', tip'), KeepRecent)
    BY <2>1, <2>3 DEF CompactionInv
  <2>5. \A e \in Range(entries') : Sound(entries', strays', gaps', e)
    BY <2>1, <2>3 DEF CompactionInv
  <2> QED
    BY <1>1, <2>1, <2>2, <2>3, <2>4, <2>5 DEF CompactionInv
<1> QED
  BY <1>2, <1>3, <1>4, <1>5, <1>6, <1>7 DEF Converse

\* The invariant holds at the start.
LEMMA InitSound == InitCompaction => CompactionInv
<1> SUFFICES ASSUME InitCompaction PROVE CompactionInv
  OBVIOUS
<1>1. Init /\ job = NothingToCompact /\ tip = NoId
  BY DEF InitCompaction
<1>2. TypeInv /\ entries = <<>> /\ leaf = NoId /\ lastId = 0
  BY <1>1, InitTypes DEF Init
<1>3. DOMAIN entries = {}
  BY <1>2
<1>4. Tree(entries) /\ Range(entries) = {} /\ tip \in 0 .. lastId
  BY <1>1, <1>2, <1>3 DEF Tree, Ascending, Range, NoId
<1> QED
  BY <1>1, <1>2, <1>4 DEF CompactionInv

\* It is an invariant.
LEMMA AlwaysSound == SpecCompaction => []CompactionInv
<1>1. CompactionInv /\ [Converse]_allVars => CompactionInv'
  BY StepKeepsSound
<1> QED
  BY <1>1, InitSound, PTL DEF SpecCompaction

-----------------------------------------------------------------------------
\* The entries a summary is made from come before those that are kept.
LEMMA CutParts == CompactionInv => KeptIsNotSummarized
<1> SUFFICES ASSUME CompactionInv, job.ok PROVE KeptIsNotSummarized
  BY DEF KeptIsNotSummarized
<1> DEFINE q == PathTo(entries, tip)
<1>1. lastId \in Nat /\ entries \in Seq(EntriesUpTo(lastId)) /\ Ascending(entries)
  BY DEF CompactionInv, TypeInv, Tree
<1>2. tip \in Nat /\ job.firstKept \in Ids(q) /\ job.previous \subseteq Ids(entries)
  BY JobIs
<1>3. PICK b \in Range(q), f \in Range(q), y \in Range(q) : Cuts(q, job, b, f, y)
  BY JobIs
<1>4. Ids(q) \subseteq Ids(entries)
  BY <1>2, PathFacts, IdsAre
<1> HIDE DEF q
<1>5. job.firstKept = f.id /\ job.split \in BOOLEAN /\ job.history \cap job.prefix = {}
  BY <1>3 DEF Cuts
<1>6. ASSUME NEW id \in job.history \cup job.prefix
      PROVE  IndexOf(entries, id) \in 1 .. IndexOf(entries, job.firstKept) - 1
  <2>1. PICK x \in Range(q) : x.id = id /\ x.id < f.id
    BY <1>3 DEF Cuts
  <2>2. id \in Ids(entries) /\ f.id \in Ids(entries)
    BY <1>4, <2>1, IdsAre
  <2>3. /\ IndexOf(entries, id) \in 1 .. Len(entries) /\ entries[IndexOf(entries, id)].id = id
        /\ IndexOf(entries, f.id) \in 1 .. Len(entries) /\ entries[IndexOf(entries, f.id)].id = f.id
    BY <1>1, <2>2, IndexIs
  <2>4. IndexOf(entries, id) < IndexOf(entries, f.id)
    BY <1>1, <2>1, <2>3, InOrder
  <2>5. Len(entries) \in Nat
    BY <1>1
  <2> QED
    BY <1>5, <2>3, <2>4, <2>5
<1>7. job.firstKept \in Ids(entries)
  BY <1>2, <1>4
<1> QED
  BY <1>2, <1>5, <1>6, <1>7 DEF KeptIsNotSummarized

\* The part to cut begins with a cut point, metadata aside: neither with a tool
\* result nor with a compaction.
LEMMA CutPointComesFirst ==
  ASSUME CompactionInv, strays \cap Ids(branch) = {},
         NEW prep, NEW b \in Range(branch), NEW f, NEW y, Cuts(branch, prep, b, f, y),
         NEW x \in Range(branch), b.id <= x.id, IsMessage(x)
  PROVE  \E z \in Range(branch) : b.id <= z.id /\ z.id <= x.id /\ IsCutPoint(z)
<1> DEFINE p == PathTo(entries, leaf)
<1>1. leaf \in Nat
  BY DEF CompactionInv, TypeInv
<1>2. /\ p = branch /\ Ids(p) = {z.id : z \in Range(p)}
      /\ \A z \in Range(p) :
           /\ z.id \in Nat /\ z.ref \in Nat /\ Sound(entries, strays, gaps, z)
           /\ Range(PathTo(entries, z.parent)) = {w \in Range(p) : w.id < z.id}
  <2>1. p = branch
    BY DEF branch
  <2> QED
    BY <1>1, <2>1, PathFacts, IdsAre
<1> HIDE DEF p
<1>3. CASE \E comp \in Range(p) : comp.kind = "compaction" /\ (comp.ref \in Ids(p) => b.id = comp.ref)
  <2>1. PICK comp \in Range(p) : comp.kind = "compaction" /\ (comp.ref \in Ids(p) => b.id = comp.ref)
    BY <1>3
  <2>2. comp.id \in Ids(p) /\ comp.id \notin strays
    BY <1>2, <2>1
  <2> DEFINE r == PathTo(entries, comp.parent)
  <2>3. comp.ref \in Ids(r) /\ BeginsAtCut(r, comp.ref) /\ Range(r) = {w \in Range(p) : w.id < comp.id}
    BY <1>2, <2>1, <2>2 DEF Sound
  <2> HIDE DEF r
  <2>4. PICK c \in Range(r) : /\ IsCutPoint(c) /\ comp.ref <= c.id
                              /\ \A z \in Range(r) : comp.ref <= z.id /\ z.id < c.id => ~IsMessage(z)
    BY <2>3 DEF BeginsAtCut
  <2>5. comp.ref \in Ids(p)
    BY <1>2, <2>3, IdsAre
  <2>6. b.id = comp.ref /\ c \in Range(p) /\ c.id < comp.id /\ c.id \in Nat /\ x.id \in Nat /\ comp.id \in Nat
    BY <1>2, <2>1, <2>3, <2>5
  <2>7. CASE c.id <= x.id
    BY <1>2, <2>4, <2>6, <2>7
  <2>8. CASE x.id < c.id
    <3>1. x.id < comp.id
      BY <2>6, <2>8
    <3>2. x \in Range(r)
      BY <1>2, <2>3, <3>1
    <3> QED
      BY <2>4, <2>6, <2>8, <3>2
  <2> QED
    BY <2>6, <2>7, <2>8
<1>4. CASE \A z \in Range(p) : z.kind # "compaction" /\ b.id <= z.id
  <2> DEFINE M == {z.id : z \in {w \in Range(p) : IsMessage(w)}}
  <2>1. x.id \in M /\ M \in SUBSET Nat
    BY <1>2
  <2>2. PICK m \in M : \A i \in M : m <= i
    <3> HIDE DEF M
    <3> QED
      BY <2>1, Least
  <2>3. PICK z \in Range(p) : IsMessage(z) /\ z.id = m
    BY <2>2
  <2>4. \A w \in Range(p) : IsMessage(w) => z.id <= w.id
    BY <2>2, <2>3
  <2>5. z.kind # "toolResult"
    <3> SUFFICES ASSUME z.kind = "toolResult" PROVE FALSE
      OBVIOUS
    <3>1. PICK w \in Range(PathTo(entries, z.parent)) : w.kind \in {"assistant", "toolResult"}
      BY <1>2, <2>3 DEF Sound, FollowsCall
    <3>2. w \in Range(p) /\ w.id < z.id /\ IsMessage(w)
      BY <1>2, <2>3, <3>1 DEF IsMessage, LabelKinds
    <3>3. w.id \in Nat /\ z.id \in Nat
      BY <1>2, <2>3, <3>2
    <3> QED
      BY <2>4, <3>2, <3>3
  <2>6. z.kind \in Kinds
    <3>1. z \in EntriesUpTo(lastId)
      BY <1>1, <1>2, <2>3, PathFacts DEF p
    <3> QED
      BY <3>1 DEF EntriesUpTo
  <2>7. IsCutPoint(z)
    BY <1>4, <2>3, <2>5, <2>6 DEF IsCutPoint, IsMessage, Kinds, LabelKinds
  <2> QED
    BY <1>2, <1>4, <2>3, <2>4, <2>7
<1>5. \/ \A z \in Range(p) : z.kind # "compaction" /\ b.id <= z.id
      \/ \E comp \in Range(p) : comp.kind = "compaction" /\ (comp.ref \in Ids(p) => b.id = comp.ref)
  BY <1>2 DEF Cuts
<1> QED
  BY <1>3, <1>4, <1>5

\* What is kept after its first message is below the budget.
LEMMA StartKeepsBudget ==
  ASSUME CompactionInv, StartCompaction, strays \cap Ids(branch) = {}
  PROVE  LET first == SelectInSubSeq(branch, IndexOf(branch, job'.firstKept), Len(branch), IsMessage)
         IN  first # 0 /\ TokensFrom(branch, first + 1) < KeepRecent
<1>1. leaf \in Nat /\ lastId \in Nat /\ KeepRecent \in Nat \ {0}
  BY KeepRecentAssumption DEF CompactionInv, TypeInv
<1>2. branch \in Seq(EntriesUpTo(lastId)) /\ Ascending(branch)
  BY <1>1, PathFacts DEF branch
<1>3. PICK prep : prep = job'
  OBVIOUS
<1>4. prep = PrepareCompaction(branch, KeepRecent) /\ prep.ok
  BY <1>3 DEF StartCompaction
<1>5. PICK s, k, c \in Nat : PreparedAt(branch, KeepRecent, prep, s, k, c)
  BY <1>1, <1>2, <1>4, PrepareIs
<1>6. /\ Cuts(branch, prep, branch[s], branch[k], branch[c]) /\ branch[s] \in Range(branch)
      /\ \/ TokensFrom(branch, c + 1) < KeepRecent
         \/ \E x \in Range(branch) :
              /\ branch[s].id <= x.id /\ IsMessage(x)
              /\ \A z \in Range(branch) : branch[s].id <= z.id /\ z.id <= x.id => ~IsCutPoint(z)
  BY <1>1, <1>2, <1>5, CutsAre
<1>7. TokensFrom(branch, c + 1) < KeepRecent
  BY <1>6, CutPointComesFirst
<1>8. /\ Len(branch) \in Nat /\ k \in 1 .. Len(branch) /\ c \in 1 .. Len(branch) /\ k <= c
      /\ prep.firstKept = branch[k].id /\ IsCutPoint(branch[c]) /\ \A i \in k .. c - 1 : ~IsMessage(branch[i])
  <2>1. Len(branch) \in Nat
    BY <1>2
  <2> QED
    BY <1>5, <2>1 DEF PreparedAt
<1>9. IndexOf(branch, branch[k].id) = k
  <2>1. branch[k].id \in Ids(branch)
    BY <1>2, <1>8 DEF Ids
  <2> DEFINE i == IndexOf(branch, branch[k].id)
  <2>2. i \in 1 .. Len(branch) /\ branch[i].id = branch[k].id
    BY <1>2, <2>1, IndexIs
  <2> HIDE DEF i
  <2>3. i <= k /\ k <= i
    BY <1>1, <1>2, <1>8, <2>2, InOrder
  <2>4. i = k
    BY <1>8, <2>2, <2>3
  <2> QED
    BY <2>4 DEF i
<1> DEFINE first == SelectInSubSeq(branch, k, Len(branch), IsMessage)
           I == {i \in k .. Len(branch) : IsMessage(branch[i])}
<1>10. first = IF I # {} THEN Min(I) ELSE 0
  BY DEF SelectInSubSeq
<1>11. c \in I /\ I \in SUBSET Nat
  <2>1. c \in k .. Len(branch)
    BY <1>8
  <2>2. IsMessage(branch[c])
    BY <1>8 DEF IsCutPoint, IsMessage, LabelKinds
  <2> QED
    BY <1>8, <2>1, <2>2
<1>12. \A i \in I : c <= i
  <2> TAKE i \in I
  <2>1. i \in k .. Len(branch) /\ IsMessage(branch[i])
    OBVIOUS
  <2>2. i \notin k .. c - 1
    BY <1>8, <2>1
  <2> QED
    BY <1>8, <2>1, <2>2
<1>13. first = c
  <2> HIDE DEF I, first
  <2>1. Min(I) \in I /\ \A i \in I : Min(I) <= i
    BY <1>11, MinIs
  <2>2. Min(I) <= c /\ c <= Min(I) /\ Min(I) \in Nat /\ c \in Nat
    BY <1>11, <1>12, <2>1
  <2>3. Min(I) = c
    BY <2>2
  <2> QED
    BY <1>10, <1>11, <2>3
<1>14. first # 0 /\ TokensFrom(branch, first + 1) < KeepRecent
  <2> HIDE DEF first
  <2> QED
    BY <1>7, <1>8, <1>13
<1> QED
  BY <1>3, <1>8, <1>9, <1>14

\* Compacting keeps no more than it promises (findCutPoint), on every path whose
\* summaries were made from it.
THEOREM KeptFits == SpecCompaction => KeptWithinBudget
<1>1. CompactionInv /\ StartCompaction /\ strays \cap Ids(branch) = {} =>
        LET first == SelectInSubSeq(branch, IndexOf(branch, job'.firstKept), Len(branch), IsMessage)
        IN  first # 0 /\ TokensFrom(branch, first + 1) < KeepRecent
  BY StartKeepsBudget
<1>2. CompactionInv /\ [Converse]_allVars =>
        [StartCompaction /\ strays \cap Ids(branch) = {} =>
           LET first == SelectInSubSeq(branch, IndexOf(branch, job'.firstKept), Len(branch), IsMessage)
           IN  first # 0 /\ TokensFrom(branch, first + 1) < KeepRecent]_allVars
  BY <1>1
<1> QED
  BY <1>2, AlwaysSound, PTL DEF SpecCompaction, KeptWithinBudget

\* In an ascending list, the largest of the smaller numbers comes just before.
LEMMA JustBefore ==
  ASSUME NEW l \in Seq(Nat), Increasing(l), NEW i \in 1 .. Len(l), NEW w \in Range(l), w < l[i],
         \A v \in Range(l) : v < l[i] => v <= w
  PROVE  i - 1 \in 1 .. Len(l) /\ l[i - 1] = w
<1>1. Len(l) \in Nat /\ DOMAIN l = 1 .. Len(l) /\ \A k \in 1 .. Len(l) : l[k] \in Nat /\ l[k] \in Range(l)
  BY DEF Range
<1>2. PICK j \in 1 .. Len(l) : l[j] = w
  BY <1>1 DEF Range
<1>3. \A a, b \in 1 .. Len(l) : a < b => l[a] < l[b]
  BY <1>1 DEF Increasing
<1>4. j < i
  <2>1. ~(i < j) /\ i # j
    BY <1>1, <1>2, <1>3
  <2> QED
    BY <1>1, <2>1
<1>5. i - 1 \in 1 .. Len(l) /\ i - 1 < i /\ j <= i - 1
  BY <1>1, <1>4
<1>6. l[i - 1] <= w
  BY <1>1, <1>3, <1>5
<1>7. ~(j < i - 1)
  <2> SUFFICES ASSUME j < i - 1 PROVE FALSE
    OBVIOUS
  <2>1. l[j] < l[i - 1]
    BY <1>3, <1>5
  <2>2. l[j] \in Nat /\ l[i - 1] \in Nat
    BY <1>1, <1>5
  <2> QED
    BY <1>2, <1>6, <2>1, <2>2
<1>8. j = i - 1
  BY <1>1, <1>5, <1>7
<1> QED
  BY <1>2, <1>5, <1>8

\* The call of a tool result on the path, or the result before it.
LEMMA CallIs ==
  ASSUME CompactionInv, NEW x \in Range(branch), x.kind = "toolResult"
  PROVE  \E w \in Range(branch) : /\ w.kind \in {"assistant", "toolResult"} /\ IsMessage(w) /\ w.id < x.id
                                  /\ \A z \in Range(branch) : IsMessage(z) /\ z.id < x.id => z.id <= w.id
<1>1. leaf \in Nat
  BY DEF CompactionInv, TypeInv
<1>2. Sound(entries, strays, gaps, x)
      /\ Range(PathTo(entries, x.parent)) = {w \in Range(branch) : w.id < x.id}
  BY <1>1, PathFacts DEF branch
<1>3. FollowsCall(PathTo(entries, x.parent))
  BY <1>2 DEF Sound
<1> QED
  BY <1>2, <1>3 DEF FollowsCall, IsMessage, LabelKinds

\* What is kept with a compaction is kept with the calls.
LEMMA KeptWithCalls ==
  ASSUME CompactionInv, strays \cap Ids(branch) = {},
         NEW comp \in Range(branch), comp.kind = "compaction",
         NEW x \in Range(branch), x.kind = "toolResult", x.id \in RestIds(branch, comp),
         NEW w \in Range(branch), w.kind \in {"assistant", "toolResult"}, IsMessage(w), w.id < x.id,
         \A z \in Range(branch) : IsMessage(z) /\ z.id < x.id => z.id <= w.id
  PROVE  w.id \in RestIds(branch, comp)
<1> DEFINE p == PathTo(entries, leaf)
<1>1. leaf \in Nat
  BY DEF CompactionInv, TypeInv
<1>2. /\ p = branch /\ Ids(p) = {z.id : z \in Range(p)}
      /\ \A z \in Range(p) :
           /\ z.id \in Nat /\ z.ref \in Nat /\ Sound(entries, strays, gaps, z)
           /\ Range(PathTo(entries, z.parent)) = {v \in Range(p) : v.id < z.id}
           /\ \A v \in Range(p) : v.id = z.id => v = z
  <2>1. p = branch
    BY DEF branch
  <2> QED
    BY <1>1, <2>1, PathFacts, IdsAre
<1> HIDE DEF p
<1>3. comp.id < x.id \/ (comp.ref \in Ids(p) /\ comp.ref <= x.id /\ x.id < comp.id)
  BY <1>2 DEF RestIds
<1>4. x.id \in Nat /\ w.id \in Nat /\ comp.id \in Nat /\ comp.ref \in Nat /\ IsMessage(comp) /\ IsMessage(x)
  BY <1>2 DEF IsMessage, LabelKinds
<1>5. CASE comp.id < x.id
  <2>1. comp.id <= w.id /\ w # comp
    BY <1>4, <1>5
  <2>2. comp.id # w.id
    BY <1>2, <2>1
  <2>3. comp.id < w.id
    BY <1>4, <2>1, <2>2
  <2> QED
    BY <1>2, <2>3 DEF RestIds
<1>6. CASE comp.ref \in Ids(p) /\ comp.ref <= x.id /\ x.id < comp.id
  <2> DEFINE r == PathTo(entries, comp.parent)
  <2>1. BeginsAtCut(r, comp.ref) /\ Range(r) = {v \in Range(p) : v.id < comp.id}
    <3>1. comp.id \notin strays
      BY <1>2
    <3> QED
      BY <1>2, <3>1 DEF Sound
  <2> HIDE DEF r
  <2>2. PICK y \in Range(r) : /\ IsCutPoint(y) /\ comp.ref <= y.id
                              /\ \A v \in Range(r) : comp.ref <= v.id /\ v.id < y.id => ~IsMessage(v)
    BY <2>1 DEF BeginsAtCut
  <2>3. y \in Range(p) /\ y.id \in Nat /\ IsMessage(y) /\ y # x
    BY <1>2, <2>1, <2>2 DEF IsCutPoint, IsMessage, LabelKinds
  <2>4. x \in Range(r)
    BY <1>2, <1>6, <2>1
  <2>5. ~(x.id < y.id) /\ x.id # y.id
    BY <1>2, <1>4, <1>6, <2>2, <2>3, <2>4
  <2>6. y.id < x.id
    BY <1>4, <2>3, <2>5
  <2>7. y.id <= w.id
    BY <1>2, <2>3, <2>6
  <2>8. comp.ref <= w.id /\ w.id < comp.id
    BY <1>4, <1>6, <2>2, <2>3, <2>7
  <2> QED
    BY <1>2, <1>6, <2>8 DEF RestIds
<1> QED
  BY <1>3, <1>5, <1>6

\* No cut parts a call from its results.
LEMMA CallsAreKept == CompactionInv => ResultsKeepTheirCalls
<1> DEFINE m == ContextMessages(branch)
<1> SUFFICES ASSUME CompactionInv, strays \cap Ids(branch) = {}, NEW i \in DOMAIN m, m[i].kind = "toolResult"
             PROVE  i > 1 /\ m[i - 1].kind \in {"assistant", "toolResult"}
  BY DEF ResultsKeepTheirCalls
<1>1. leaf \in Nat /\ lastId \in Nat
  BY DEF CompactionInv, TypeInv
<1>2. branch \in Seq(EntriesUpTo(lastId)) /\ Ascending(branch)
  BY <1>1, PathFacts DEF branch
<1>3. /\ m \in Seq({z \in Range(branch) : IsMessage(z)})
      /\ \A z \in Range(branch) : z.id \in Nat /\ \A v \in Range(branch) : v.id = z.id => v = z
  BY <1>1, <1>2, ContextInside, PathFacts DEF branch
<1> HIDE DEF m
<1>4. /\ Len(m) \in Nat /\ DOMAIN m = 1 .. Len(m) /\ DOMAIN IdsInOrder(m) = 1 .. Len(m)
      /\ \A j \in 1 .. Len(m) : m[j] \in Range(branch) /\ IsMessage(m[j]) /\ IdsInOrder(m)[j] = m[j].id
  BY <1>3 DEF IdsInOrder
<1>5. PICK x \in Range(branch) : x = m[i] /\ IsMessage(x) /\ x.kind = "toolResult"
  BY <1>4
<1>6. PICK w \in Range(branch) : /\ w.kind \in {"assistant", "toolResult"} /\ IsMessage(w) /\ w.id < x.id
                                 /\ \A z \in Range(branch) : IsMessage(z) /\ z.id < x.id => z.id <= w.id
  BY <1>5, CallIs
<1>7. i \in 1 .. Len(m) /\ IdsInOrder(m)[i] = x.id
  BY <1>4, <1>5
<1>8. ASSUME NEW j \in 1 .. Len(m), m[j].id = w.id PROVE m[j].kind \in {"assistant", "toolResult"}
  BY <1>3, <1>4, <1>6, <1>8
<1>9. PICK l \in Seq(Nat) :
           /\ Increasing(l)
           /\ \/ IdsInOrder(m) = l /\ Range(l) = MessageIds(branch)
              \/ \E comp \in Range(branch) :
                   comp.kind = "compaction" /\ IdsInOrder(m) = <<comp.id>> \o l /\ Range(l) = RestIds(branch, comp)
  <2>1. PICK l \in Seq(Nat) :
           /\ Increasing(l)
           /\ \/ /\ LastCompaction(branch) = 0 /\ \A z \in Range(branch) : z.kind # "compaction"
                 /\ IdsInOrder(ContextMessages(branch)) = l /\ Range(l) = MessageIds(branch)
              \/ LET comp == branch[LastCompaction(branch)]
                 IN  /\ LastCompaction(branch) # 0 /\ comp \in Range(branch) /\ comp.kind = "compaction"
                     /\ \A z \in Range(branch) : z.kind = "compaction" => z.id <= comp.id
                     /\ IdsInOrder(ContextMessages(branch)) = <<comp.id>> \o l
                     /\ Range(l) = RestIds(branch, comp)
    BY <1>1, <1>2, ContextIs
  <2> QED
    BY <2>1 DEF m
<1>10. Len(l) \in Nat /\ DOMAIN l = 1 .. Len(l)
  OBVIOUS
<1>11. CASE IdsInOrder(m) = l /\ Range(l) = MessageIds(branch)
  <2>1. w.id \in Range(l) /\ i \in 1 .. Len(l) /\ w.id < l[i] /\ Len(l) = Len(m)
    BY <1>4, <1>6, <1>7, <1>10, <1>11 DEF MessageIds
  <2>2. \A v \in Range(l) : v < l[i] => v <= w.id
    BY <1>6, <1>7, <1>11 DEF MessageIds
  <2>3. i - 1 \in 1 .. Len(l) /\ l[i - 1] = w.id
    BY <1>9, <2>1, <2>2, JustBefore
  <2>4. i - 1 \in 1 .. Len(m) /\ m[i - 1].id = w.id
    BY <1>4, <1>11, <2>1, <2>3
  <2>5. i > 1
    BY <1>4, <1>7, <2>4
  <2> QED
    BY <1>8, <2>4, <2>5
<1>12. ASSUME NEW comp \in Range(branch), comp.kind = "compaction", IdsInOrder(m) = <<comp.id>> \o l,
              Range(l) = RestIds(branch, comp)
       PROVE  i > 1 /\ m[i - 1].kind \in {"assistant", "toolResult"}
  <2> DEFINE r == <<comp.id>> \o l
  <2>1. r \in Seq(Nat) /\ Len(r) = Len(l) + 1 /\ r[1] = comp.id /\ \A j \in 1 .. Len(l) : r[j + 1] = l[j]
    BY <1>3, ConsIs
  <2>2. IdsInOrder(m) = r
    BY <1>12
  <2> HIDE DEF r
  <2>3. DOMAIN r = 1 .. Len(l) + 1
    BY <1>10, <2>1
  <2>4. Len(m) = Len(l) + 1 /\ \A j \in 1 .. Len(m) : m[j].id = r[j]
    <3>1. 1 .. Len(m) = 1 .. Len(l) + 1
      BY <1>4, <2>2, <2>3
    <3>2. PICK a \in Nat, b \in Nat : a = Len(m) /\ b = Len(l)
      BY <1>4, <1>10
    <3>3. 1 .. a = 1 .. b + 1
      BY <3>1, <3>2
    <3>4. b + 1 \in 1 .. a
      BY <3>2, <3>3
    <3>5. a \in 1 .. b + 1
      BY <3>2, <3>3, <3>4
    <3>6. a = b + 1
      BY <3>4, <3>5
    <3>7. Len(m) = Len(l) + 1
      BY <3>2, <3>6
    <3>8. \A j \in 1 .. Len(m) : m[j].id = r[j]
      BY <1>4, <2>2
    <3> QED
      BY <3>7, <3>8
  <2>5. i # 1
    <3>1. x # comp
      BY <1>5, <1>12
    <3>2. x.id # comp.id
      BY <1>3, <1>12, <3>1
    <3> QED
      BY <1>5, <1>7, <2>1, <2>4, <3>2
  <2>6. i - 1 \in 1 .. Len(l) /\ i > 1
    BY <1>7, <1>10, <2>4, <2>5
  <2>7. l[i - 1] = x.id
    <3>1. PICK j \in 1 .. Len(l) : j = i - 1
      BY <2>6
    <3>2. j + 1 = i
      BY <1>7, <2>6, <3>1
    <3> QED
      BY <1>5, <1>7, <2>1, <2>4, <3>1, <3>2
  <2>8. x.id \in Range(l)
    BY <1>10, <2>6, <2>7 DEF Range
  <2>9. w.id \in Range(l)
    BY <1>5, <1>6, <1>12, <2>8, KeptWithCalls
  <2>10. \A v \in Range(l) : v < x.id => v <= w.id
    BY <1>6, <1>12 DEF RestIds
  <2>11. i - 2 \in 1 .. Len(l) /\ l[i - 2] = w.id
    <3>1. PICK j \in 1 .. Len(l) : j = i - 1
      BY <2>6
    <3>2. j - 1 \in 1 .. Len(l) /\ l[j - 1] = w.id
      BY <1>6, <1>9, <2>7, <2>9, <2>10, <3>1, JustBefore
    <3>3. j - 1 = i - 2
      BY <1>7, <2>6, <3>1
    <3> QED
      BY <3>2, <3>3
  <2>12. i - 1 \in 1 .. Len(m) /\ m[i - 1].id = w.id
    <3>1. PICK j \in 1 .. Len(l) : j = i - 2
      BY <2>11
    <3>2. j + 1 = i - 1 /\ j + 1 \in 1 .. Len(m)
      BY <1>7, <1>10, <2>4, <2>6, <3>1
    <3> QED
      BY <2>1, <2>4, <2>11, <3>1, <3>2
  <2> QED
    BY <1>8, <2>6, <2>12
<1> QED
  BY <1>9, <1>11, <1>12

\* Compaction cuts cleanly: it parts the entries into those that go into the
\* summary and those that are kept (prepareCompaction), and no call from its
\* results (findValidCutPoints).
THEOREM CutsAreClean == SpecCompaction => []CutIsClean
<1>1. CompactionInv => CutIsClean
  BY CutParts, CallsAreKept DEF CutIsClean
<1> QED
  BY <1>1, AlwaysSound, PTL

\* What is said on a path.
LEMMA MessagesAre ==
  \A p : Messages(p) = {x.id : x \in {z \in Range(p) : IsMessage(z) /\ z.kind # "compaction"}}
  BY DEF Messages, Range

\* Everything said is in the context or in a summary there.
LEMMA NothingLost == CompactionInv => (Unbroken => HistoryCovered)
<1> SUFFICES ASSUME CompactionInv, (strays \cup gaps) \cap Ids(branch) = {},
                    NEW x \in Range(branch), IsMessage(x), x.kind # "compaction"
             PROVE  x.id \in Known(branch)
  BY MessagesAre DEF Unbroken, HistoryCovered
<1>1. leaf \in Nat /\ lastId \in Nat
  BY DEF CompactionInv, TypeInv
<1>2. branch \in Seq(EntriesUpTo(lastId)) /\ Ascending(branch)
  BY <1>1, PathFacts DEF branch
<1>3. \A z \in Range(branch) :
        /\ z.id \in Nat /\ z.ref \in Nat /\ Sound(entries, strays, gaps, z)
        /\ Range(PathTo(entries, z.id)) = {v \in Range(branch) : v.id <= z.id}
        /\ Range(PathTo(entries, z.parent)) = {v \in Range(branch) : v.id < z.id}
        /\ \A v \in Range(branch) : v.id = z.id => v = z
  BY <1>1, PathFacts DEF branch
<1>4. CASE Shown(branch) = MessageIds(branch)
  BY <1>4 DEF Known, MessageIds
<1>5. ASSUME NEW comp \in Range(branch), comp.kind = "compaction", comp \in Range(ContextMessages(branch)),
             Shown(branch) = {comp.id} \cup RestIds(branch, comp)
      PROVE  x.id \in Known(branch)
  <2>1. comp.covers \cup RestIds(branch, comp) \subseteq Known(branch)
    BY <1>5 DEF Known
  <2>2. x.id # comp.id /\ x.id \in Nat /\ comp.id \in Nat /\ comp.ref \in Nat
    BY <1>3, <1>5
  <2>3. CASE comp.id < x.id
    BY <2>1, <2>3 DEF RestIds
  <2>4. CASE x.id < comp.id
    <3>1. /\ comp.id \in Ids(branch) /\ comp.id \notin strays
          /\ (strays \cup gaps) \cap Ids(PathTo(entries, comp.id)) = {}
      BY <1>3, <1>5, IdsAre
    <3>2. /\ comp.ref \in Ids(PathTo(entries, comp.parent))
          /\ x \in Range(PathTo(entries, comp.parent))
          /\ x.id < comp.ref => x.id \in comp.covers
      BY <1>3, <1>5, <2>4, <3>1 DEF Sound
    <3>3. comp.ref \in Ids(branch)
      BY <1>3, <1>5, <3>2, IdsAre
    <3>4. CASE x.id < comp.ref
      BY <2>1, <3>2, <3>4
    <3>5. CASE comp.ref <= x.id
      BY <2>1, <2>4, <3>3, <3>5 DEF RestIds
    <3> QED
      BY <2>2, <3>4, <3>5
  <2> QED
    BY <2>2, <2>3, <2>4
<1> QED
  BY <1>1, <1>2, <1>4, <1>5, ShownIs

\* A compaction that arrives on the path it was made from, the last one there
\* being the last one still, summarizes all that it takes from the context.
LEMMA FinishForgetsNothing ==
  ASSUME CompactionInv, FinishCompaction, tip \in Ids(branch), LastCompaction(branch) <= IndexOf(branch, tip)
  PROVE  LET after == PathTo(entries', leaf')
         IN  Shown(branch) \cap Messages(branch) \subseteq Shown(after) \cup CompactCovers(job)
<1> DEFINE q == PathTo(entries, tip)
           p == PathTo(entries, leaf)
           after == PathTo(entries', leaf')
<1>1. tip \in Nat /\ leaf \in Nat /\ lastId \in Nat /\ job.ok
  <2>1. leaf \in 0 .. lastId /\ lastId \in Nat /\ tip \in 0 .. lastId
    BY DEF CompactionInv, TypeInv
  <2> QED
    BY <2>1 DEF FinishCompaction
<1>2. /\ p = branch /\ p \in Seq(EntriesUpTo(lastId)) /\ Ascending(p)
      /\ \A z \in Range(p) :
           /\ z \in EntriesUpTo(lastId) /\ z.id \in Nat /\ z.ref \in Nat
           /\ Range(PathTo(entries, z.id)) = {v \in Range(p) : v.id <= z.id}
           /\ \A v \in Range(p) : v.id = z.id => v = z
  <2>1. p = branch
    BY DEF branch
  <2> QED
    BY <1>1, <2>1, PathFacts
<1>3. Range(q) = {z \in Range(p) : z.id <= tip} /\ Ids(q) = {z.id : z \in Range(q)}
      /\ Ids(p) = {z.id : z \in Range(p)}
  <2>1. \E z \in Range(p) : z.id = tip
    BY <1>2, IdsAre
  <2> QED
    BY <1>2, <2>1, IdsAre
<1>4. PICK b \in Range(q), f \in Range(q), y \in Range(q) : Cuts(q, job, b, f, y)
  BY <1>1, JobIs
<1>5. PICK e : Appends(e) /\ e.parent = leaf /\ e.kind = "compaction" /\ e.ref = job.firstKept
  BY FinishAppends
<1>6. /\ after \in Seq(EntriesUpTo(lastId + 1)) /\ lastId + 1 \in Nat /\ Ascending(after)
      /\ Range(after) = Range(p) \cup {e} /\ \A z \in Range(p) : z.id < e.id
  BY <1>2, <1>5, PathGrows
\* Every compaction of the path was there when the summary was begun.
<1>7. \A z \in Range(p) : z.kind = "compaction" => z \in Range(q)
  <2> DEFINE L == LastCompaction(p)
             I == IndexOf(p, tip)
  <2>1. L <= I
    BY <1>2
  <2>2. I \in 1 .. Len(p) /\ p[I].id = tip
    BY <1>2, IndexIs
  <2>3. \/ L = 0 /\ \A i \in 1 .. Len(p) : p[i].kind # "compaction"
        \/ L \in 1 .. Len(p) /\ \A i \in 1 .. Len(p) : p[i].kind = "compaction" => i <= L
    BY <1>2, LastCompactionIs
  <2> HIDE DEF L, I, p, q
  <2>4. Len(p) \in Nat
    BY <1>2
  <2> TAKE z \in Range(p)
  <2> HAVE z.kind = "compaction"
  <2>5. PICK i \in 1 .. Len(p) : p[i] = z
    BY <1>2 DEF Range
  <2>6. i <= I
    <3>1. L \in 1 .. Len(p) /\ i <= L
      BY <2>3, <2>5
    <3> QED
      BY <2>1, <2>2, <2>4, <2>5, <3>1
  <2>7. z.id <= tip
    BY <1>1, <1>2, <2>2, <2>5, <2>6, InOrder
  <2> QED
    BY <1>3, <2>7
<1> HIDE DEF p, q, after
<1>8. ASSUME NEW x \in Range(p), IsMessage(x), x.kind # "compaction", x.id \in Shown(p)
      PROVE  x.id \in Shown(after) \cup CompactCovers(job)
  <2>1. x.id \in Nat /\ b.id \in Nat /\ f.id \in Nat /\ f \in Range(p) /\ f.id <= tip /\ job.firstKept = f.id
    BY <1>2, <1>3, <1>4 DEF Cuts
  <2>2. CASE f.id <= x.id
    <3>1. PICK comp \in Range(after) :
            /\ \A z \in Range(after) : z.kind = "compaction" => z.id <= comp.id
            /\ Shown(after) = {comp.id} \cup RestIds(after, comp)
      <4>1. e \in Range(after) /\ e.kind = "compaction"
        BY <1>5, <1>6
      <4> QED
        BY <1>6, <4>1, ShownIs
    <3>2. comp = e
      <4>1. e.id <= comp.id /\ e.id \in Nat
        <5>1. e \in Range(after)
          BY <1>6
        <5>2. e.id = lastId + 1
          BY <1>5, PathGrows
        <5> QED
          BY <1>5, <1>6, <3>1, <5>1, <5>2
      <4>2. comp \in Range(p) => comp.id < e.id /\ comp.id \in Nat
        BY <1>2, <1>6
      <4> QED
        BY <1>6, <4>1, <4>2
    <3>3. x.id \in RestIds(after, e)
      <4>1. e.ref \in Ids(after)
        BY <1>5, <1>6, <2>1, IdsAre
      <4>2. x \in Range(after) /\ e.ref <= x.id /\ x.id < e.id
        BY <1>5, <1>6, <2>1, <2>2
      <4> QED
        BY <1>8, <4>1, <4>2 DEF RestIds
    <3> QED
      BY <3>1, <3>2, <3>3
  <2>3. CASE x.id < f.id
    <3>1. x.id <= tip
      BY <1>1, <2>1, <2>3
    <3>2. x \in Range(q)
      BY <1>3, <3>1
    <3>3. job.history \cup job.prefix \subseteq CompactCovers(job)
      BY <1>4, CoversAre DEF Cuts
    <3>4. b.id <= x.id
      <4> SUFFICES ASSUME x.id < b.id PROVE FALSE
        BY <2>1
      <4>1. PICK comp \in Range(q) :
              /\ comp.kind = "compaction"
              /\ \A z \in Range(q) : z.kind = "compaction" => z.id <= comp.id
              /\ comp.ref \in Ids(q) => b.id = comp.ref
              /\ comp.ref \notin Ids(q) => \A z \in Range(q) : comp.id < z.id => b.id <= z.id
        <5>1. ~(b.id <= x.id)
          BY <2>1
        <5> QED
          BY <1>4, <3>2, <5>1 DEF Cuts
      <4>2. comp \in Range(p) /\ comp.id \in Nat /\ comp.id <= tip /\ comp.ref \in Nat /\ comp.ref < comp.id
        <5>1. comp \in Range(p) /\ comp.id <= tip
          BY <1>3
        <5>2. comp \in EntriesUpTo(lastId)
          BY <1>2, <5>1
        <5> QED
          BY <1>1, <1>2, <5>1, <5>2, EntryFacts
      <4>3. Shown(p) = {comp.id} \cup RestIds(p, comp)
        <5>1. PICK last \in Range(p) :
                /\ last.kind = "compaction"
                /\ \A z \in Range(p) : z.kind = "compaction" => z.id <= last.id
                /\ Shown(p) = {last.id} \cup RestIds(p, last)
          BY <1>1, <1>2, <4>1, <4>2, ShownIs
        <5>2. last.id <= comp.id /\ comp.id <= last.id
          BY <1>7, <4>1, <4>2, <5>1
        <5>3. last.id = comp.id
          BY <1>2, <4>2, <5>2
        <5>4. last = comp
          BY <1>2, <4>2, <5>3
        <5> QED
          BY <5>1, <5>4
      <4>4. x.id # comp.id
        BY <1>2, <1>8, <4>1, <4>2
      <4>5. comp.id < x.id \/ (comp.ref \in Ids(p) /\ comp.ref <= x.id)
        <5>1. x.id \in RestIds(p, comp)
          BY <1>8, <4>3, <4>4
        <5> QED
          BY <5>1 DEF RestIds
      <4>6. CASE comp.ref \in Ids(q)
        BY <2>1, <4>1, <4>2, <4>5, <4>6
      <4>7. CASE comp.ref \notin Ids(q)
        <5>1. ~(comp.id < x.id)
          BY <2>1, <3>2, <4>1, <4>7
        <5>2. comp.ref \in Ids(p)
          BY <4>5, <5>1
        <5>3. comp.ref <= tip
          BY <1>1, <4>2
        <5>4. comp.ref \in Ids(q)
          BY <1>3, <5>2, <5>3
        <5> QED
          BY <4>7, <5>4
      <4> QED
        BY <4>6, <4>7
    <3>5. x.id \in job.history \cup job.prefix
      BY <1>4, <1>8, <2>3, <3>2, <3>4 DEF Cuts
    <3> QED
      BY <3>3, <3>5
  <2> QED
    BY <2>1, <2>2, <2>3
<1> QED
  BY <1>2, <1>8, MessagesAre DEF after

\* Compacting forgets nothing, for conversations of every length and any number
\* of compactions in them: what was said on a path is in the context or in a
\* summary there, but for the gaps and strays that the model names.
THEOREM NothingForgotten == SpecCompaction => CompactionForgetsNothing
<1>1. CompactionInv =>
        (FinishCompaction /\ tip \in Ids(branch) /\ LastCompaction(branch) <= IndexOf(branch, tip) =>
           Shown(branch) \cap Messages(branch) \subseteq Shown(PathTo(entries', leaf')) \cup CompactCovers(job))
  BY FinishForgetsNothing
<1>2. CompactionInv =>
        [LET after == PathTo(entries', leaf')
         IN  /\ FinishCompaction
             /\ tip \in Ids(branch) /\ LastCompaction(branch) <= IndexOf(branch, tip)
             => Shown(branch) \cap Messages(branch) \subseteq Shown(after) \cup CompactCovers(job)]_allVars
  BY <1>1
<1>3. SpecCompaction => ContextIsSummarized
  BY <1>2, AlwaysSound, PTL DEF ContextIsSummarized
<1>4. SpecCompaction => [](Unbroken => HistoryCovered)
  BY NothingLost, AlwaysSound, PTL
<1> QED
  BY <1>3, <1>4 DEF CompactionForgetsNothing
=============================================================================
