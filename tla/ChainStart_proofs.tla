------------------------- MODULE ChainStart_proofs -------------------------
(***************************************************************************)
(* Proofs about ChainStart, for every number of validators, full nodes,     *)
(* sidecars, relay chain nodes, parachains and wallets.                     *)
(*                                                                         *)
(* The argument: Start(family) is a script that leads Main through the      *)
(* phases of ChainStartPhases (the initial state), each step of Main or of  *)
(* a goroutine stays in the phase or leads to the next one (the induction   *)
(* step), and a phase is left only when its goroutines are done, so that    *)
(* whatever the phases before were to do is done.  The three properties     *)
(* follow from the phase a container is created or started in.              *)
(***************************************************************************)
EXTENDS ChainStartPhases, SequenceTheorems, FiniteSetTheorems, WellFoundedInduction, TLAPS

----------------------------------------------------------------------------
(* Sequences: the least number, and what FlattenSeq is made of. *)

\* A set of natural numbers that is not empty has a least element.
LEMMA Least ==
  ASSUME NEW A \in SUBSET Nat, A # {}
  PROVE  \E n \in A : \A m \in A : n <= m
<1> DEFINE T == {0..n : n \in A}
<1>1. T \subseteq FiniteSubsetsOf(Nat)
  <2> SUFFICES ASSUME NEW n \in A PROVE 0..n \in FiniteSubsetsOf(Nat)  OBVIOUS
  <2>1. IsFiniteSet(0..n)  BY FS_Interval
  <2> QED  BY <2>1 DEF FiniteSubsetsOf
<1>2. T # {}  OBVIOUS
<1>3. \E x \in T : \A y \in T : ~ (<<y, x>> \in StrictSubsetOrdering(Nat))
  BY <1>1, <1>2, FS_StrictSubsetOrderingWellFounded, WFMin
<1>4. PICK n \in A : \A m \in A : ~ (<<0..m, 0..n>> \in StrictSubsetOrdering(Nat))  BY <1>3
<1>5. ASSUME NEW m \in A, m < n PROVE FALSE
  <2>1. 0..m \subseteq 0..n /\ n \in 0..n /\ n \notin 0..m  BY <1>5
  <2>2. 0..m # 0..n  BY <2>1
  <2>3. 0..m \in SUBSET Nat /\ 0..n \in SUBSET Nat  OBVIOUS
  <2> QED  BY <1>4, <2>1, <2>2, <2>3 DEF StrictSubsetOrdering
<1> QED  BY <1>5

\* The concatenations of the first sequences of ss.
Grown(ss, f, n) == f = [i \in 1..n |-> IF i = 1 THEN ss[i] ELSE f[i-1] \o ss[i]]

\* They exist, for every number of sequences,
LEMMA Grows == ASSUME NEW ss PROVE \A n \in Nat : \E f : Grown(ss, f, n)
<1> DEFINE Bad == {n \in Nat : ~ \E f : Grown(ss, f, n)}
<1>1. SUFFICES ASSUME Bad # {} PROVE FALSE  OBVIOUS
<1>2. PICK n \in Bad : \A m \in Bad : n <= m  BY <1>1, Least
<1>3. n # 0
  <2>1. Grown(ss, [i \in 1..0 |-> ss], 0)  BY DEF Grown
  <2> QED  BY <1>2, <2>1
<1>4. n - 1 \in Nat /\ n - 1 \notin Bad  BY <1>2, <1>3
<1>5. PICK f : Grown(ss, f, n - 1)  BY <1>4
<1> DEFINE g == [i \in 1..n |-> IF i = n THEN (IF n = 1 THEN ss[1] ELSE f[n-1] \o ss[n]) ELSE f[i]]
<1>6. n \in Nat  BY <1>2
<1>7. ASSUME NEW i \in 1..n PROVE g[i] = IF i = 1 THEN ss[i] ELSE g[i-1] \o ss[i]
  <2>1. CASE i = n
    <3>1. i # 1 => g[i-1] = f[n-1]  BY <1>6, <2>1
    <3> QED  BY <2>1, <3>1
  <2>2. CASE i # n
    <3>1. i \in 1..(n-1) /\ g[i] = f[i]  BY <1>6, <2>2
    <3>2. f[i] = IF i = 1 THEN ss[i] ELSE f[i-1] \o ss[i]  BY <1>5, <3>1 DEF Grown
    <3>3. i # 1 => i-1 \in 1..n /\ i-1 # n  BY <1>6, <3>1
    <3> QED  BY <3>1, <3>2, <3>3
  <2> QED  BY <2>1, <2>2
<1>8. Grown(ss, g, n)  BY <1>7 DEF Grown
<1> QED  BY <1>2, <1>8

\* ... and FlattenSeq is the last of them.
LEMMA Flattened ==
  ASSUME NEW ss, Len(ss) \in Nat \ {0}
  PROVE  \E f : Grown(ss, f, Len(ss)) /\ FlattenSeq(ss) = f[Len(ss)]
<1> DEFINE fl == CHOOSE f : f = [i \in 1..Len(ss) |-> IF i = 1 THEN ss[i] ELSE f[i-1] \o ss[i]]
<1>1. \E f : f = [i \in 1..Len(ss) |-> IF i = 1 THEN ss[i] ELSE f[i-1] \o ss[i]]  BY Grows DEF Grown
<1>2. fl = [i \in 1..Len(ss) |-> IF i = 1 THEN ss[i] ELSE fl[i-1] \o ss[i]]  BY <1>1, Zenon
<1>3. FlattenSeq(ss) = fl[Len(ss)]  BY DEF FlattenSeq
<1> QED  BY <1>2, <1>3 DEF Grown

\* What is closed under concatenation and holds of every sequence holds of FlattenSeq.
LEMMA FlattenIn ==
  ASSUME NEW Good, NEW ss, Len(ss) \in Nat \ {0}, \A i \in 1..Len(ss) : ss[i] \in Good,
         \A a, b \in Good : a \o b \in Good
  PROVE  FlattenSeq(ss) \in Good
<1>1. PICK f : Grown(ss, f, Len(ss)) /\ FlattenSeq(ss) = f[Len(ss)]  BY Flattened
<1> DEFINE Bad == {n \in 1..Len(ss) : f[n] \notin Good}
<1>2. SUFFICES ASSUME Bad # {} PROVE FALSE  BY <1>1
<1>a. Bad \in SUBSET Nat  OBVIOUS
<1>3. PICK n \in Bad : \A m \in Bad : n <= m
  <2> HIDE DEF Bad
  <2> QED  BY <1>2, <1>a, Least
<1>4. n \in 1..Len(ss) /\ f[n] \notin Good  BY <1>3
<1>5. f[n] = IF n = 1 THEN ss[n] ELSE f[n-1] \o ss[n]  BY <1>1, <1>4 DEF Grown
<1>6. n # 1  BY <1>4, <1>5
<1>7. n - 1 \in 1..Len(ss) /\ n - 1 \notin Bad  BY <1>3, <1>4, <1>6
<1>8. f[n-1] \in Good  BY <1>7
<1> QED  BY <1>4, <1>5, <1>6, <1>8

\* It holds the elements of each of them.
LEMMA FlattenHolds ==
  ASSUME NEW S, NEW ss \in Seq(Seq(S)), NEW i \in 1..Len(ss), NEW l \in 1..Len(ss[i])
  PROVE  \E j \in 1..Len(FlattenSeq(ss)) : FlattenSeq(ss)[j] = ss[i][l]
<1>1. Len(ss) \in Nat \ {0} /\ \A k \in 1..Len(ss) : ss[k] \in Seq(S)  OBVIOUS
<1>2. PICK f : Grown(ss, f, Len(ss)) /\ FlattenSeq(ss) = f[Len(ss)]  BY <1>1, Flattened
<1>0. \A n \in 1..Len(ss) : f[n] = IF n = 1 THEN ss[n] ELSE f[n-1] \o ss[n]  BY <1>2 DEF Grown
<1> DEFINE Good(n) == f[n] \in Seq(S) /\ \E j \in 1..Len(f[n]) : f[n][j] = ss[i][l]
           Bad == {n \in i..Len(ss) : ~ Good(n)}
           BadSeq == {n \in 1..Len(ss) : f[n] \notin Seq(S)}
<1>3. BadSeq = {}
  <2> SUFFICES ASSUME BadSeq # {} PROVE FALSE  OBVIOUS
  <2>a. BadSeq \in SUBSET Nat  BY <1>1
  <2>1. PICK n \in BadSeq : \A m \in BadSeq : n <= m
    <3> HIDE DEF BadSeq
    <3> QED  BY <2>a, Least
  <2>2. f[n] = IF n = 1 THEN ss[n] ELSE f[n-1] \o ss[n]  BY <1>0
  <2>3. n # 1  BY <1>1, <2>2
  <2>4. n - 1 \in 1..Len(ss) /\ n - 1 \notin BadSeq  BY <1>1, <2>1, <2>3
  <2>5. f[n-1] \in Seq(S) /\ ss[n] \in Seq(S)  BY <1>1, <2>4
  <2>6. f[n-1] \o ss[n] \in Seq(S)  BY <2>5
  <2> QED  BY <2>2, <2>3, <2>6
<1>31. Len(ss) \in i..Len(ss) /\ FlattenSeq(ss) = f[Len(ss)]  BY <1>1, <1>2
<1>32. Bad = {} => \E j \in 1..Len(f[Len(ss)]) : f[Len(ss)][j] = ss[i][l]  BY <1>31
<1>4. SUFFICES ASSUME Bad # {} PROVE FALSE  BY <1>31, <1>32, Zenon
<1>a. Bad \in SUBSET Nat  BY <1>1
<1>5. PICK n \in Bad : \A m \in Bad : n <= m
  <2> HIDE DEF Bad
  <2> QED  BY <1>4, <1>a, Least
<1>7. n \in 1..Len(ss) /\ n \in i..Len(ss) /\ ~Good(n) /\ ss[n] \in Seq(S) /\ f[n] \in Seq(S)
  <2>1. n \in i..Len(ss) /\ ~Good(n)  BY <1>5
  <2>2. n \in 1..Len(ss)  BY <1>1, <2>1
  <2> QED  BY <1>1, <1>3, <2>1, <2>2
<1>6. f[n] = IF n = 1 THEN ss[n] ELSE f[n-1] \o ss[n]  BY <1>0, <1>7
<1>b. n # 1 => f[n-1] \in Seq(S)
  <2> SUFFICES ASSUME n # 1 PROVE f[n-1] \in Seq(S)  OBVIOUS
  <2>1. n - 1 \in 1..Len(ss)  BY <1>1, <1>7
  <2> QED  BY <1>3, <2>1
<1> HIDE DEF Bad, BadSeq
<1>8. CASE n = i
  <2>1. CASE n = 1  BY <1>6, <1>7, <1>8, <2>1
  <2>2. CASE n # 1
    <3> DEFINE a == f[n-1] b == ss[n]
    <3>1. a \in Seq(S) /\ b \in Seq(S) /\ f[n] = a \o b  BY <1>6, <1>7, <1>b, <2>2
    <3>2. l \in 1..Len(b) /\ b[l] = ss[i][l]  BY <1>8
    <3> HIDE DEF a, b
    <3>3. l + Len(a) \in 1..Len(a \o b) /\ (a \o b)[l + Len(a)] = b[l]  BY <3>1, <3>2
    <3> QED  BY <1>7, <3>1, <3>2, <3>3
  <2> QED  BY <2>1, <2>2
<1>9. CASE n # i
  <2>1. n - 1 \in i..Len(ss) /\ n - 1 \notin Bad /\ n # 1  BY <1>1, <1>5, <1>7, <1>9, SMTT(60)
  <2>2. f[n-1] \in Seq(S) /\ \E j \in 1..Len(f[n-1]) : f[n-1][j] = ss[i][l]  BY <2>1 DEF Bad
  <2>3. PICK j \in 1..Len(f[n-1]) : f[n-1][j] = ss[i][l]  BY <2>2
  <2> DEFINE a == f[n-1] b == ss[n]
  <2>4. a \in Seq(S) /\ b \in Seq(S) /\ f[n] = a \o b  BY <1>6, <1>7, <2>1, <2>2
  <2>5. j \in 1..Len(a) /\ a[j] = ss[i][l]  BY <2>3
  <2> HIDE DEF a, b
  <2>6. j \in 1..Len(a \o b) /\ (a \o b)[j] = a[j]  BY <2>4, <2>5
  <2> QED  BY <1>7, <2>4, <2>5, <2>6
<1> QED  BY <1>8, <1>9

----------------------------------------------------------------------------
(* What is left of a script that leads through the phases. *)

\* The tail of a sequence.
LEMMA TailSeq ==
  ASSUME NEW S, NEW s \in Seq(S), s # <<>>
  PROVE  /\ Tail(s) \in Seq(S) /\ Len(s) \in Nat \ {0} /\ Len(Tail(s)) = Len(s) - 1
         /\ \A i \in 1..(Len(s) - 1) : Tail(s)[i] = s[i+1]
         /\ s[1] \in S
<1>1. Len(s) \in Nat \ {0} /\ Len(Tail(s)) = Len(s) - 1 /\ Tail(s) \in Seq(S)  BY HeadTailProperties, EmptySeq
<1>2. \A i \in 1..(Len(s) - 1) : Tail(s)[i] = s[i+1]  BY <1>1, HeadTailProperties
<1> QED  BY <1>1, <1>2, ElementOfSeq

\* The first step of a script stays in its phase or leads to a later one, and its tail goes on from there.
LEMMA LeadsTail ==
  ASSUME NEW f, NEW s, NEW p, NEW q, NEW R, Leads(f, s, p, q, R), s # <<>>
  PROVE  /\ p \in 0..11
         /\ \/ Keeps(f, p, s[1]) /\ Leads(f, Tail(s), p, q, R \ {<<p, Tag(s[1])>>})
            \/ \E r \in 0..11 : /\ <<p, s[1], r>> \in Turns(f) /\ r >= p
                                /\ Leads(f, Tail(s), r, q, IF r = p THEN {} ELSE R)
                                /\ r # p => \A x \in R : x[1] >= r
<1> DEFINE S == Steps \cup GoSteps
<1>1. s \in Seq(S)  BY DEF Leads
<1>2. PICK ph : Labels(f, s, p, q, R, ph)  BY DEF Leads, Labels
<1> DEFINE t == Tail(s)
           qh == [i \in 1..(Len(t) + 1) |-> ph[i+1]]
<1>3. /\ t \in Seq(S) /\ Len(s) \in Nat \ {0} /\ Len(t) = Len(s) - 1
      /\ \A i \in 1..Len(t) : t[i] = s[i+1]
  BY <1>1, TailSeq
<1> HIDE DEF S, t
<1>4. /\ qh \in [1..(Len(t) + 1) -> 0..11] /\ qh[Len(t) + 1] = q /\ qh[1] = ph[2]
      /\ \A i \in 1..(Len(t)+1) : qh[i] = ph[i+1] /\ i+1 \in 1..(Len(s)+1)
  <2>1. \A i \in 1..(Len(t)+1) : i+1 \in 1..(Len(s)+1)  BY <1>3
  <2>2. \A i \in 1..(Len(s)+1) : ph[i] \in 0..11  BY <1>2 DEF Labels
  <2>3. \A i \in 1..(Len(t)+1) : ph[i+1] \in 0..11  BY <2>1, <2>2
  <2>4. qh \in [1..(Len(t) + 1) -> 0..11]  BY <2>3
  <2>5. 1 \in 1..(Len(t)+1) /\ Len(t)+1 \in 1..(Len(t)+1) /\ Len(t)+1+1 = Len(s)+1 /\ 1+1 = 2
    BY <1>3
  <2>6. ph[Len(s)+1] = q  BY <1>2 DEF Labels
  <2> QED  BY <2>1, <2>4, <2>5, <2>6
<1>5. \A i, j \in 1..(Len(t) + 1) : i <= j => qh[i] <= qh[j]
  <2> SUFFICES ASSUME NEW i \in 1..(Len(t) + 1), NEW j \in 1..(Len(t) + 1), i <= j PROVE qh[i] <= qh[j]  OBVIOUS
  <2>1. i+1 <= j+1 /\ i+1 \in 1..(Len(s)+1) /\ j+1 \in 1..(Len(s)+1)  BY <1>3
  <2>2. ph[i+1] <= ph[j+1]  BY <1>2, <2>1 DEF Labels
  <2> QED  BY <1>4, <2>2
<1>6. \A i \in 1..Len(t) :
       \/ qh[i+1] = qh[i] /\ Keeps(f, qh[i], t[i])
       \/ <<qh[i], t[i], qh[i+1]>> \in Turns(f)
  <2> SUFFICES ASSUME NEW i \in 1..Len(t)
               PROVE  \/ qh[i+1] = qh[i] /\ Keeps(f, qh[i], t[i])
                      \/ <<qh[i], t[i], qh[i+1]>> \in Turns(f)
    OBVIOUS
  <2>1. i+1 \in 1..Len(s) /\ i+1 \in 1..(Len(t)+1) /\ i \in 1..(Len(t)+1)  BY <1>3
  <2>2. \/ ph[i+2] = ph[i+1] /\ Keeps(f, ph[i+1], s[i+1])
        \/ <<ph[i+1], s[i+1], ph[i+2]>> \in Turns(f)
    <3>1. i + 1 + 1 = i + 2  BY <1>3
    <3> QED  BY <1>2, <2>1, <3>1 DEF Labels
  <2>3. qh[i] = ph[i+1] /\ qh[i+1] = ph[i+2] /\ t[i] = s[i+1]
    <3>1. i + 1 + 1 = i + 2  BY <1>3
    <3> QED  BY <1>3, <1>4, <2>1, <3>1
  <2> QED  BY <2>2, <2>3
<1>7. p \in 0..11 /\ ph[2] \in 0..11 /\ p <= ph[2] /\ ph[1] = p
  <2>1. 1 \in 1..(Len(s) + 1) /\ 2 \in 1..(Len(s) + 1) /\ 1 <= 2  BY <1>3
  <2> QED  BY <1>2, <2>1 DEF Labels
<1>8. ASSUME NEW Q, Q \subseteq R, \A x \in Q : x # <<p, Tag(s[1])>> \/ ph[2] # ph[1]
      PROVE  Leads(f, t, ph[2], q, Q)
  <2>1. \A x \in Q : \E i \in 1..Len(t) : qh[i+1] = qh[i] /\ x = <<qh[i], Tag(t[i])>>
    <3> SUFFICES ASSUME NEW x \in Q PROVE \E i \in 1..Len(t) : qh[i+1] = qh[i] /\ x = <<qh[i], Tag(t[i])>>  OBVIOUS
    <3>1. PICK i \in 1..Len(s) : ph[i+1] = ph[i] /\ x = <<ph[i], Tag(s[i])>>  BY <1>2, <1>8 DEF Labels
    <3>2. i # 1  BY <1>7, <1>8, <3>1
    <3>3. i - 1 \in 1..Len(t) /\ (i - 1) + 1 = i /\ i \in 1..(Len(t)+1) /\ i - 1 \in 1..(Len(t)+1)  BY <1>3, <3>2
    <3>4. qh[i-1] = ph[i] /\ qh[i] = ph[i+1] /\ t[i-1] = s[i]  BY <1>3, <1>4, <3>3
    <3> QED  BY <3>1, <3>3, <3>4
  <2> HIDE DEF qh
  <2>2. Labels(f, t, ph[2], q, Q, qh)  BY <1>4, <1>5, <1>6, <2>1 DEF Labels
  <2> QED  BY <1>3, <2>2 DEF Leads, Labels, S
<1> HIDE DEF qh
<1>9. \/ ph[2] = p /\ Keeps(f, p, s[1])
      \/ <<p, s[1], ph[2]>> \in Turns(f)
  <2>1. 1 \in 1..Len(s) /\ 1 + 1 = 2  BY <1>3
  <2> QED  BY <1>2, <2>1 DEF Labels
<1>10. CASE ph[2] = p /\ Keeps(f, p, s[1])
  <2>1. Leads(f, t, ph[2], q, R \ {<<p, Tag(s[1])>>})  BY <1>8
  <2> QED  BY <1>7, <1>10, <2>1 DEF t
<1>11. CASE <<p, s[1], ph[2]>> \in Turns(f)
  <2>1. CASE ph[2] = p
    <3>1. Leads(f, t, ph[2], q, {})  BY <1>8
    <3> QED  BY <1>7, <1>11, <2>1, <3>1 DEF t
  <2>2. CASE ph[2] # p
    <3>1. Leads(f, t, ph[2], q, R)  BY <1>7, <1>8, <2>2
    <3>2. \A x \in R : x[1] >= ph[2]
      <4> SUFFICES ASSUME NEW x \in R PROVE x[1] >= ph[2]  OBVIOUS
      <4>1. PICK i \in 1..Len(s) : ph[i+1] = ph[i] /\ x = <<ph[i], Tag(s[i])>>  BY <1>2 DEF Labels
      <4>2. i # 1  BY <1>7, <2>2, <4>1
      <4>3. 2 <= i /\ 2 \in 1..(Len(s)+1) /\ i \in 1..(Len(s)+1)  BY <1>3, <4>2
      <4>4. ph[2] <= ph[i] /\ ph[2] \in 0..11 /\ ph[i] \in 0..11  BY <1>2, <4>3 DEF Labels
      <4> QED  BY <4>1, <4>4
    <3> QED  BY <1>7, <1>11, <2>2, <3>1, <3>2 DEF t
  <2> QED  BY <2>1, <2>2
<1> QED  BY <1>7, <1>9, <1>10, <1>11 DEF t

\* A script that is done is in its last phase and leaves nothing to do.
LEMMA LeadsNil ==
  ASSUME NEW f, NEW p, NEW q, NEW R, Leads(f, <<>>, p, q, R)
  PROVE  p = q /\ R = {}
  BY DEF Leads, Labels

\* One script after another.
LEMMA LeadsConcat ==
  ASSUME NEW f, NEW a, NEW b, NEW p, NEW q, NEW r, NEW R, NEW T,
         Leads(f, a, p, q, R), Leads(f, b, q, r, T)
  PROVE  Leads(f, a \o b, p, r, R \cup T)
<1> DEFINE S == Steps \cup GoSteps
<1>1. a \in Seq(S) /\ b \in Seq(S)  BY DEF Leads
<1>2. PICK ph : Labels(f, a, p, q, R, ph)  BY DEF Leads, Labels
<1>3. PICK qh : Labels(f, b, q, r, T, qh)  BY DEF Leads, Labels
<1> DEFINE m == Len(a)
           n == Len(b)
           s == a \o b
           h == [i \in 1..(m + n + 1) |-> IF i <= m THEN ph[i] ELSE qh[i - m]]
<1> HIDE DEF S
<1>4. /\ s \in Seq(S) /\ m \in Nat /\ n \in Nat /\ Len(s) = m + n
      /\ \A i \in 1..m : s[i] = a[i]
      /\ \A i \in 1..n : s[m + i] = b[i]
  BY <1>1
<1> HIDE DEF m, n, s
<1>5. /\ ph \in [1..(m + 1) -> 0..11] /\ qh \in [1..(n + 1) -> 0..11]
      /\ ph[1] = p /\ ph[m + 1] = q /\ qh[1] = q /\ qh[n + 1] = r
  BY <1>2, <1>3 DEF Labels, m, n
<1>6. /\ \A i \in 1..(m + 1) : h[i] = ph[i]
      /\ \A i \in 1..(n + 1) : h[m + i] = qh[i]
      /\ h \in [1..(m + n + 1) -> 0..11]
  <2>1. ASSUME NEW i \in 1..(m+1) PROVE h[i] = ph[i]
    <3>1. CASE i <= m  BY <1>4, <3>1
    <3>2. CASE i = m + 1
      <4>1. i - m = 1 /\ i \in 1..(m + n + 1)  BY <1>4, <3>2
      <4> QED  BY <1>4, <1>5, <3>2, <4>1
    <3> QED  BY <1>4, <3>1, <3>2
  <2>2. ASSUME NEW i \in 1..(n+1) PROVE h[m + i] = qh[i]  BY <1>4
  <2>3. ASSUME NEW i \in 1..(m + n + 1) PROVE (IF i <= m THEN ph[i] ELSE qh[i - m]) \in 0..11
    <3>1. CASE i <= m  BY <1>4, <1>5, <3>1
    <3>2. CASE ~(i <= m)
      <4>1. i - m \in 1..(n+1)  BY <1>4, <3>2
      <4> QED  BY <1>5, <3>2, <4>1
    <3> QED  BY <3>1, <3>2
  <2> QED  BY <2>1, <2>2, <2>3
<1> HIDE DEF h
<1>7. /\ \A i, j \in 1..(m + 1) : i <= j => ph[i] <= ph[j]
      /\ \A i, j \in 1..(n + 1) : i <= j => qh[i] <= qh[j]
  BY <1>2, <1>3 DEF Labels, m, n
<1>8. ASSUME NEW i \in 1..(m + n + 1), NEW j \in 1..(m + n + 1), i <= j PROVE h[i] <= h[j]
  <2>1. CASE j <= m  BY <1>4, <1>6, <1>7, <1>8, <2>1
  <2>2. CASE i <= m /\ ~(j <= m)
    <3>1. j - m \in 1..(n+1) /\ h[j] = qh[j-m]
      <4>1. j - m \in 1..(n+1) /\ m + (j - m) = j  BY <1>4, <2>2
      <4> QED  BY <1>6, <4>1
    <3>2. h[i] = ph[i] /\ i \in 1..(m+1) /\ m+1 \in 1..(m+1) /\ i <= m+1  BY <1>4, <1>6, <2>2
    <3>3. ph[i] <= q  BY <1>5, <1>7, <3>2
    <3>4. q <= qh[j-m]
      <4>1. 1 \in 1..(n+1) /\ 1 <= j-m  BY <1>4, <3>1
      <4> QED  BY <1>5, <1>7, <3>1, <4>1
    <3>5. ph[i] \in 0..11 /\ q \in 0..11 /\ qh[j-m] \in 0..11  BY <1>4, <1>5, <3>1, <3>2
    <3> QED  BY <3>1, <3>2, <3>3, <3>4, <3>5
  <2>3. CASE ~(i <= m)
    <3>1. i - m \in 1..(n+1) /\ j - m \in 1..(n+1) /\ i - m <= j - m /\ m + (i-m) = i /\ m + (j-m) = j  BY <1>4, <1>8, <2>3
    <3>2. h[i] = qh[i-m] /\ h[j] = qh[j-m]  BY <1>6, <3>1
    <3> QED  BY <1>7, <3>1, <3>2
  <2> QED  BY <1>4, <1>8, <2>1, <2>2, <2>3
<1>9. ASSUME NEW i \in 1..(m + n)
      PROVE  \/ h[i+1] = h[i] /\ Keeps(f, h[i], s[i])
             \/ <<h[i], s[i], h[i+1]>> \in Turns(f)
  <2>1. CASE i <= m
    <3>1. i \in 1..m /\ i \in 1..(m+1) /\ i+1 \in 1..(m+1)  BY <1>4, <2>1
    <3>2. h[i] = ph[i] /\ h[i+1] = ph[i+1] /\ s[i] = a[i]  BY <1>4, <1>6, <3>1
    <3> QED  BY <1>2, <3>1, <3>2 DEF Labels, m
  <2>2. CASE ~(i <= m)
    <3>1. i - m \in 1..n /\ i - m \in 1..(n+1) /\ (i - m) + 1 \in 1..(n+1) /\ m + (i-m) = i /\ m + ((i-m)+1) = i+1  BY <1>4, <2>2
    <3>2. h[i] = qh[i-m] /\ h[i+1] = qh[(i-m)+1] /\ s[i] = b[i-m]
      <4>1. h[m + (i-m)] = qh[i-m]  BY <1>6, <3>1
      <4>2. h[m + ((i-m)+1)] = qh[(i-m)+1]  BY <1>6, <3>1
      <4>3. s[m + (i-m)] = b[i-m]  BY <1>4, <3>1
      <4> QED  BY <3>1, <4>1, <4>2, <4>3
    <3> QED  BY <1>3, <3>1, <3>2 DEF Labels, n
  <2> QED  BY <2>1, <2>2
<1>10. ASSUME NEW x \in R \cup T
       PROVE  \E i \in 1..(m + n) : h[i+1] = h[i] /\ x = <<h[i], Tag(s[i])>>
  <2>1. CASE x \in R
    <3>1. PICK i \in 1..m : ph[i+1] = ph[i] /\ x = <<ph[i], Tag(a[i])>>  BY <1>2, <2>1 DEF Labels, m
    <3>2. i \in 1..(m+1) /\ i+1 \in 1..(m+1) /\ i \in 1..(m+n)  BY <1>4
    <3>3. h[i] = ph[i] /\ h[i+1] = ph[i+1] /\ s[i] = a[i]  BY <1>4, <1>6, <3>2
    <3> QED  BY <3>1, <3>2, <3>3
  <2>2. CASE x \in T
    <3>1. PICK i \in 1..n : qh[i+1] = qh[i] /\ x = <<qh[i], Tag(b[i])>>  BY <1>3, <2>2 DEF Labels, n
    <3>2. i \in 1..(n+1) /\ i+1 \in 1..(n+1) /\ m+i \in 1..(m+n) /\ m+(i+1) = (m+i)+1  BY <1>4
    <3>3. h[m+i] = qh[i] /\ h[m+(i+1)] = qh[i+1] /\ s[m+i] = b[i]  BY <1>4, <1>6, <3>2
    <3> QED  BY <3>1, <3>2, <3>3
  <2> QED  BY <2>1, <2>2
<1>11. h[1] = p /\ h[(m+n)+1] = r
  <2>1. 1 \in 1..(m+1) /\ n+1 \in 1..(n+1) /\ m + (n+1) = (m+n)+1  BY <1>4
  <2> QED  BY <1>5, <1>6, <2>1
<1>12. Labels(f, s, p, r, R \cup T, h)  BY <1>4, <1>6, <1>8, <1>9, <1>10, <1>11 DEF Labels
<1> QED  BY <1>4, <1>12 DEF Leads, Labels, S, s

\* Steps that stay in one phase.
LEMMA LeadsKeeping ==
  ASSUME NEW f, NEW s \in Seq(Steps \cup GoSteps), NEW p \in 0..11, NEW R,
         \A i \in 1..Len(s) : Keeps(f, p, s[i]),
         \A x \in R : \E i \in 1..Len(s) : x = <<p, Tag(s[i])>>
  PROVE  Leads(f, s, p, p, R)
<1> DEFINE ph == [i \in 1..(Len(s) + 1) |-> p]
<1>1. Len(s) \in Nat  OBVIOUS
<1>2. \A i \in 1..Len(s) : i \in 1..(Len(s)+1) /\ i+1 \in 1..(Len(s)+1)  BY <1>1
<1>3. Labels(f, s, p, p, R, ph)  BY <1>1, <1>2 DEF Labels
<1> QED  BY <1>3 DEF Leads, Labels

\* A step that leads to another phase.
LEMMA LeadsTurning ==
  ASSUME NEW f, NEW st \in Steps, NEW p \in 0..11, NEW q \in 0..11, p < q, <<p, st, q>> \in Turns(f)
  PROVE  Leads(f, <<st>>, p, q, {})
<1> DEFINE s == <<st>>
           ph == [i \in 1..2 |-> IF i = 1 THEN p ELSE q]
<1>1. s \in Seq(Steps \cup GoSteps) /\ Len(s) = 1 /\ s[1] = st  OBVIOUS
<1> HIDE DEF s
<1>2. ph \in [1..2 -> 0..11] /\ ph[1] = p /\ ph[2] = q  OBVIOUS
<1> HIDE DEF ph
<1>3. \A i, j \in 1..2 : i <= j => ph[i] <= ph[j]
  <2> SUFFICES ASSUME NEW i \in 1..2, NEW j \in 1..2, i <= j PROVE ph[i] <= ph[j]  OBVIOUS
  <2>1. i \in {1, 2} /\ j \in {1, 2}  OBVIOUS
  <2> QED  BY <1>2, <2>1
<1>4. Labels(f, s, p, q, {}, ph)
  <2>1. Len(s) + 1 = 2 /\ \A i \in 1..1 : i = 1  BY <1>1
  <2> QED  BY <1>1, <1>2, <1>3, <2>1 DEF Labels
<1> QED  BY <1>1, <1>4 DEF Leads, Labels, s

\* A script that takes some steps takes fewer.
LEMMA LeadsLess ==
  ASSUME NEW f, NEW s, NEW p, NEW q, NEW R, NEW T, Leads(f, s, p, q, R), T \subseteq R
  PROVE  Leads(f, s, p, q, T)
  BY DEF Leads, Labels

----------------------------------------------------------------------------
(* Which steps there are in which phase. *)

\* In which family and phase a goroutine takes a step, by the step's name.
LEMMA MayNames ==
  ASSUME NEW f \in Families, NEW p \in 0..11, NEW u \in Containers, NEW st, May(f, p, u, st)
  PROVE
    LET n == st[1]
        validator == u[2] \in Validators
    IN
    /\ n = "define" => \/ f = "penumbra" /\ p = 1 /\ u[1] = "tm" /\ validator /\ st[2] = u[2]
                       \/ f = "thorchain" /\ p = 1 /\ u = <<"thor", 1>> /\ st[2] = 1
    /\ n = "fund" => f = "thorchain" /\ p = 1 /\ u = <<"thor", 1>> /\ st[2] = 1
    /\ n = "append" => f = "penumbra" /\ p = 1 /\ u[1] = "tm" /\ validator /\ st[2] = u[2]
    /\ n = "lock" => f = "penumbra" /\ p = 1
    /\ n = "lockGenesis" => f = "thorchainFork" /\ p = 3
    /\ n = "replace" => f = "thorchainFork" /\ p = 3 /\ u[1] = "thor" /\ validator /\ st[2] \in Range(NodeAccountFields)
    /\ n = "initFiles" => p = 1
    /\ n = "copySpec" => f = "polkadot" /\ p = 0 /\ u[1] = "para" /\ st[2] = u[2]
    /\ n = "copyRawSpec" => f = "polkadot" /\ p \in {8, 10} /\ st = <<"copyRawSpec">>
    /\ n = "readKeyOfNode" => f = "penumbra" /\ p = 3 /\ u[1] = "tm" /\ validator /\ st = <<"readKeyOfNode">>
    /\ n = "readValidatorWallet" => f = "namada" /\ p = 7 /\ u[1] = "val" /\ st = <<"readValidatorWallet">>
    /\ n = "writeKey" => /\ st = <<"writeKey">>
                         /\ \/ f = "penumbra" /\ p = 3 /\ u[1] = "tm" /\ validator
                            \/ f = "namada" /\ p = 7 /\ u[1] = "val"
    /\ n \in {"readArchive", "openArchive", "writeArchive"} =>
         st = <<n>> /\ f = "namada" /\ p = 7 /\ u[1] \in {"val", "full"}
    /\ n = "create" =>
         /\ st = <<"create">>
         /\ \/ p = 6 /\ f \in ThorFamilies /\ u[1] = "side"
            \/ p = 7 /\ f = "penumbra" /\ u[1] \in {"tm", "app"}
            \/ p = 7 /\ f = "namada" /\ u[1] \in {"val", "full"}
            \/ p = 7 /\ f \in ThorFamilies /\ u[1] = "thor"
            \/ p = 8 /\ f = "polkadot" /\ u[1] = "relay"
            \/ p = 10 /\ f = "polkadot" /\ u[1] = "para"
            \/ p = 10 /\ f = "penumbra" /\ u[1] = "client"
    /\ n = "start" =>
         /\ st = <<"start">>
         /\ \/ p = 6 /\ f \in ThorFamilies /\ u[1] = "side"
            \/ p = 8 /\ f = "penumbra" /\ u[1] \in {"tm", "app"}
            \/ p = 8 /\ f = "namada" /\ u[1] \in {"val", "full"}
            \/ p = 8 /\ f \in ThorFamilies /\ u[1] = "thor"
            \/ p = 8 /\ f = "polkadot" /\ u[1] = "relay"
            \/ p = 10 /\ f = "polkadot" /\ u[1] = "para"
            \/ p = 10 /\ f = "penumbra" /\ u[1] = "client"
    /\ n \notin {"export", "generateGenesisFile", "initNetwork", "generateRaw", "readGenesis", "modifyGenesis",
                 "writeGenesis", "setRunning", "go", "wait"}
<1> DEFINE X == {"export", "generateGenesisFile", "initNetwork", "generateRaw", "readGenesis", "modifyGenesis",
                 "writeGenesis", "setRunning", "go", "wait"}
<1>1. CASE f = "penumbra"  BY <1>1 DEF May, PenumbraMay, ThorFamilies
<1>2. CASE f = "namada"  BY <1>2 DEF May, NamadaMay, ThorFamilies
<1>3. CASE f = "polkadot"  BY <1>3 DEF May, PolkadotMay, ThorFamilies
<1>4. CASE f \in ThorFamilies  BY <1>4 DEF May, ThorchainMay, ThorFamilies
<1> QED  BY <1>1, <1>2, <1>3, <1>4 DEF May

\* ... and in which Main does.
LEMMA MainNames ==
  ASSUME NEW f \in Families, NEW p \in 0..11, NEW st, MainMay(f, p, st)
  PROVE
    LET n == st[1]
    IN
    /\ n = "define" => \/ f = "namada" /\ p = 2 /\ st[2] \in Validators
                       \/ f = "polkadot" /\ p = 2 /\ st[2] \in 1..NumRelay
                       \/ f = "thorchain" /\ p = 2 /\ st[2] \in 2..NumValidators
    /\ n = "fund" => \/ f = "namada" /\ p = 2 /\ st[2] \in Validators \cup {GasPayer} \cup Range(Wallets)
                     \/ f = "polkadot" /\ p = 2 /\ st[2] \in (1..NumRelay) \cup Range(Wallets)
                     \/ f = "thorchain" /\ p = 2 /\ st[2] \in (2..NumValidators) \cup Range(Wallets) \cup {Bond}
    /\ n = "lock" => f = "penumbra" /\ p = 1
    /\ n = "append" => f = "penumbra" /\ p = 1 /\ st[2] \in Range(Wallets)
    /\ n = "export" => f = "polkadot" /\ p = 2 /\ st[2] \in Paras
    /\ n = "writeGenesis" => \/ f = "penumbra" /\ p = 5 /\ \E m \in Nodes : st[2] = <<"tm", m>>
                             \/ f \in ThorFamilies /\ p = 5 /\ \E m \in Nodes : st[2] = <<"thor", m>>
    /\ n \in Calls \cup {"define", "fund", "lock", "append", "export", "writeGenesis", "setRunning"}
    /\ p \in {1, 5, 2, 9, 0}
    /\ p = 0 => f = "polkadot"
    /\ p = 1 => f = "penumbra" /\ n \in {"lock", "append"}
    /\ p = 2 => f # "penumbra"
<1>1. CASE f = "penumbra"  BY <1>1 DEF MainMay, ThorFamilies, Calls
<1>2. CASE f = "namada"  BY <1>2 DEF MainMay, ThorFamilies, Calls
<1>3. CASE f = "polkadot"  BY <1>3 DEF MainMay, ThorFamilies, Calls
<1>4. CASE f \in ThorFamilies  BY <1>4 DEF MainMay, ThorFamilies, Calls
<1> QED  BY <1>1, <1>2, <1>3, <1>4 DEF MainMay, ThorFamilies

\* Where the steps that lead to another phase lead.
LEMMA TurnNames ==
  ASSUME NEW f \in Families, NEW p, NEW st, NEW r, <<p, st, r>> \in Turns(f)
  PROVE
    LET n == st[1]
    IN
    /\ p \in 0..11 /\ r \in 0..11 /\ p < r
    /\ n \in {"wait", "generateGenesisFile", "readGenesis", "hashes", "separator", "waitForBlocks", "initNetwork",
              "generateRaw", "preGenesis", "modifyGenesis"}
    /\ n = "generateGenesisFile" => f = "penumbra" /\ p = 2 /\ r = 3
    /\ n = "readGenesis" => f \in {"penumbra", "polkadot"} /\ p = 4 /\ r \in {5, 8}
    /\ n = "initNetwork" => f = "namada" /\ p = 2
    /\ n = "generateRaw" => f = "polkadot" /\ p = 2 /\ r = 4
    /\ n = "preGenesis" => f = "thorchainFork" /\ p = 2 /\ r = 3
    /\ n = "modifyGenesis" => f \in ThorFamilies /\ p \in {2, 4} /\ (p = 2 => f = "thorchain") /\ r = 5
    /\ n \in {"hashes", "separator", "waitForBlocks"} => p \in {5, 6, 9} /\ (p = 6 => f = "penumbra")
    /\ n = "wait" => \/ r <= 2
                     \/ p >= 5
                     \/ p = 3 /\ f = "penumbra" /\ r = 4
                     \/ p = 3 /\ f = "thorchainFork" /\ r = 4
<1>0. f \in {"penumbra", "namada", "polkadot", "thorchain", "thorchainFork"}  BY StartAssumption
<1>1. CASE f = "penumbra"  BY <1>1 DEF Turns, ThorFamilies
<1>2. CASE f = "namada"  BY <1>2 DEF Turns, ThorFamilies
<1>3. CASE f = "polkadot"  BY <1>3 DEF Turns, ThorFamilies
<1>4. CASE f = "thorchain"  BY <1>4 DEF Turns, ThorFamilies, ThorTurns
<1>5. CASE f = "thorchainFork"  BY <1>5 DEF Turns, ThorFamilies, ThorTurns
<1> QED  BY <1>0, <1>1, <1>2, <1>3, <1>4, <1>5

----------------------------------------------------------------------------
(* What a step changes. *)

\* What docker's start makes of the container.
StartedAs(t) == IF family = "namada" /\ file[t] = Torn THEN "exited" ELSE "running"

\* What a step that does not fail changes, variable by variable.
Changes(t, n, a) ==
  /\ pc[t] # <<>> /\ pc' = [pc EXCEPT ![t] = Tail(@)] /\ UNCHANGED <<family, failed, result>>
  /\ n \notin {"go", "wait"}
  /\ defs' = IF n = "define" THEN defs \cup {<<a, a>>} ELSE IF n = "replace" THEN seen[t] \cup {<<t[2], a>>} ELSE defs
  /\ allocations' = IF n = "append" THEN seen[t] \cup {a} ELSE IF n = "fund" THEN allocations \cup {a} ELSE allocations
  /\ paras' = IF n = "export" THEN paras \cup {a} ELSE paras
  /\ genesis' = IF n \in {"generateGenesisFile", "initNetwork", "generateRaw"} THEN Generated ELSE genesis
  /\ n \in {"lock", "lockGenesis"} => mutex = None
  /\ mutex' = IF n \in {"lock", "lockGenesis"} THEN t ELSE IF n \in {"append", "replace"} THEN None ELSE mutex
  /\ seen' = CASE n = "lock" -> [seen EXCEPT ![t] = allocations]
               [] n = "lockGenesis" -> [seen EXCEPT ![t] = defs]
               [] n \in {"append", "replace"} -> [seen EXCEPT ![t] = {}]
               [] OTHER -> seen
  /\ n = "readGenesis" => buf' = [buf EXCEPT ![t] = genesis]
  /\ n = "modifyGenesis" => buf' = [buf EXCEPT ![t] = Generated]
  /\ n = "readArchive" => buf' = [buf EXCEPT ![t] = file[FirstValidator]]
  /\ n \in {"readKeyOfNode", "readValidatorWallet"} =>
       \E d \in genesis.defs : d[1] = t[2] /\ buf' = [buf EXCEPT ![t] = Key("genesis", d[2])]
  /\ n \notin {"readGenesis", "modifyGenesis", "readArchive", "readKeyOfNode", "readValidatorWallet"} => buf' = buf
  /\ file' = CASE n = "initNetwork" -> [file EXCEPT ![FirstValidator] = Generated]
               [] n = "generateRaw" -> [file EXCEPT ![<<"relay", 1>>] = Generated]
               [] n = "writeGenesis" -> [file EXCEPT ![a] = buf[t]]
               [] n = "copyRawSpec" -> [file EXCEPT ![t] = buf[Main]]
               [] n = "openArchive" -> [file EXCEPT ![t] = Torn]
               [] n = "writeArchive" -> [file EXCEPT ![t] = buf[t]]
               [] OTHER -> file
  /\ spec' = IF n = "copySpec" THEN [spec EXCEPT ![t] = a] ELSE spec
  /\ key' = CASE n = "initFiles" -> [key EXCEPT ![t] = Key("tendermint", t[2])]
              [] n = "writeKey" -> [key EXCEPT ![t] = buf[t]]
              [] OTHER -> key
  /\ container' = CASE n = "create" -> [container EXCEPT ![t] = "created"]
                    [] n = "start" -> [container EXCEPT ![t] = StartedAs(t)]
                    [] OTHER -> container

\* Every step fails or changes what Changes says.
LEMMA StepChanges ==
  ASSUME NEW t \in Procs, Step(t)
  PROVE  Fail(t) \/ CreateWriter(t) \/ Changes(t, pc[t][1][1], pc[t][1][2])
<1>1. CASE Call(t)  BY <1>1 DEF Call, Advance, At, Busy, Name, Arg, Changes, localVars, genesisVars, volumeVars, chainVars, Calls
<1>2. CASE InitFiles(t)  BY <1>2 DEF InitFiles, Advance, At, Busy, Name, Arg, Changes, localVars, genesisVars, volumeVars, chainVars
<1>3. CASE Define(t)  BY <1>3 DEF Define, Advance, At, Busy, Name, Arg, Changes, localVars, genesisVars, volumeVars, chainVars
<1>4. CASE Lock(t)  BY <1>4 DEF Lock, Advance, At, Busy, Name, Arg, Changes, localVars, genesisVars, volumeVars, chainVars
<1>5. CASE AppendAllocation(t)  BY <1>5 DEF AppendAllocation, Advance, At, Busy, Name, Arg, Changes, localVars, genesisVars, volumeVars, chainVars
<1>6. CASE Fund(t)  BY <1>6 DEF Fund, Advance, At, Busy, Name, Arg, Changes, localVars, genesisVars, volumeVars, chainVars
<1>7. CASE Export(t)  BY <1>7 DEF Export, Advance, At, Busy, Name, Arg, Changes, localVars, genesisVars, volumeVars, chainVars
<1>8. CASE GenerateGenesisFile(t)  BY <1>8 DEF GenerateGenesisFile, Advance, At, Busy, Name, Arg, Changes, localVars, genesisVars, volumeVars, chainVars
<1>9. CASE InitNetwork(t)  BY <1>9 DEF InitNetwork, Advance, At, Busy, Name, Arg, Changes, localVars, genesisVars, volumeVars, chainVars
<1>10. CASE GenerateChainSpecRaw(t)  BY <1>10 DEF GenerateChainSpecRaw, Advance, At, Busy, Name, Arg, Changes, localVars, genesisVars, volumeVars, chainVars
<1>11. CASE ReadGenesis(t)  BY <1>11 DEF ReadGenesis, Advance, At, Busy, Name, Arg, Changes, localVars, genesisVars, volumeVars, chainVars
<1>12. CASE ModifyGenesis(t)  BY <1>12 DEF ModifyGenesis, Advance, At, Busy, Name, Arg, Changes, localVars, genesisVars, volumeVars, chainVars
<1>13. CASE LockGenesis(t)  BY <1>13 DEF LockGenesis, Advance, At, Busy, Name, Arg, Changes, localVars, genesisVars, volumeVars, chainVars
<1>14. CASE Replace(t)  BY <1>14 DEF Replace, Advance, At, Busy, Name, Arg, Changes, localVars, genesisVars, volumeVars, chainVars
<1>15. CASE WriteGenesis(t)  BY <1>15 DEF WriteGenesis, Advance, At, Busy, Name, Arg, Changes, localVars, genesisVars, volumeVars, chainVars
<1>16. CASE CopyRawSpec(t)  BY <1>16 DEF CopyRawSpec, Advance, At, Busy, Name, Arg, Changes, localVars, genesisVars, volumeVars, chainVars
<1>17. CASE CopySpec(t)  BY <1>17 DEF CopySpec, Advance, At, Busy, Name, Arg, Changes, localVars, genesisVars, volumeVars, chainVars
<1>18. CASE ReadValidatorKey(t)  BY <1>18 DEF ReadValidatorKey, Advance, At, Busy, Name, Arg, Changes, localVars, genesisVars, volumeVars, chainVars
<1>19. CASE WriteKey(t)  BY <1>19 DEF WriteKey, Advance, At, Busy, Name, Arg, Changes, localVars, genesisVars, volumeVars, chainVars
<1>20. CASE ReadArchive(t)  BY <1>20 DEF ReadArchive, Advance, At, Busy, Name, Arg, Changes, localVars, genesisVars, volumeVars, chainVars
<1>21. CASE OpenArchive(t)  BY <1>21 DEF OpenArchive, Advance, At, Busy, Name, Arg, Changes, localVars, genesisVars, volumeVars, chainVars
<1>22. CASE WriteArchive(t)  BY <1>22 DEF WriteArchive, Advance, At, Busy, Name, Arg, Changes, localVars, genesisVars, volumeVars, chainVars
<1>23. CASE CreateContainer(t)  BY <1>23 DEF CreateContainer, Advance, At, Busy, Name, Arg, Changes, localVars, genesisVars, volumeVars, chainVars
<1>24. CASE StartContainer(t)  BY <1>24 DEF StartContainer, StartedAs, Advance, At, Busy, Name, Arg, Changes, localVars, genesisVars, volumeVars, chainVars
<1>25. CASE Register(t)  BY <1>25 DEF Register, Advance, At, Busy, Name, Arg, Changes, localVars, genesisVars, volumeVars, chainVars
<1>26. CASE SetRunning(t)  BY <1>26 DEF SetRunning, Advance, At, Busy, Name, Arg, Changes, localVars, genesisVars, volumeVars, chainVars
<1> QED  BY <1>1, <1>2, <1>3, <1>4, <1>5, <1>6, <1>7, <1>8, <1>9, <1>10, <1>11, <1>12, <1>13, <1>14, <1>15, <1>16, <1>17, <1>18, <1>19, <1>20, <1>21, <1>22, <1>23, <1>24, <1>25, <1>26 DEF Step

----------------------------------------------------------------------------
(* Steps of a goroutine: what they keep. *)

\* Ranks are numbers.
LEMMA RankNat == \A n : Rank(n) \in Nat
  BY DEF Rank

\* The tail of a goroutine's script is one.
LEMMA UnitTail ==
  ASSUME NEW f, NEW p, NEW u, NEW s \in Seq(Steps), s # <<>>, Sorted(s), Linked(s), Whole(f, p, u, s)
  PROVE  /\ Tail(s) \in Seq(Steps) /\ Sorted(Tail(s)) /\ Linked(Tail(s)) /\ Whole(f, p, u, Tail(s))
         /\ 1 \in 1..Len(s) /\ s[1] \in Steps
         /\ \A i \in 1..Len(Tail(s)) : i + 1 \in 1..Len(s) /\ Tail(s)[i] = s[i+1]
         /\ \A x : In(x, Tail(s)) => In(x, s)
         /\ \A x : In(x, s) => x = s[1] \/ In(x, Tail(s))
         /\ \A x : In(x, Tail(s)) /\ Rank(x[1]) # 0 /\ Rank(s[1][1]) # 0 => Rank(s[1][1]) < Rank(x[1])
         /\ \A st \in Steps : Must(f, p, u, st) /\ Rank(s[1][1]) # 0 /\ Rank(s[1][1]) < Rank(st[1]) => In(st, Tail(s))
         /\ Tail(s) # <<>> /\ Tail(s)[1][1] = "append" => s[1][1] = "lock"
         /\ Tail(s) # <<>> /\ Tail(s)[1][1] = "replace" => s[1][1] = "lockGenesis"
<1> DEFINE t == Tail(s)
<1>1. /\ t \in Seq(Steps) /\ Len(s) \in Nat \ {0} /\ Len(t) = Len(s) - 1 /\ s[1] \in Steps
      /\ \A i \in 1..(Len(s) - 1) : t[i] = s[i+1]
  BY TailSeq
<1> HIDE DEF t
<1>2. \A i \in 1..Len(t) : i + 1 \in 1..Len(s) /\ t[i] = s[i+1]  BY <1>1
<1>3. 1 \in 1..Len(s)  BY <1>1
<1>4. Sorted(t)
  <2> SUFFICES ASSUME NEW i \in 1..Len(t), NEW j \in 1..Len(t), i < j, Rank(t[i][1]) # 0, Rank(t[j][1]) # 0
               PROVE  Rank(t[i][1]) < Rank(t[j][1])
    BY DEF Sorted
  <2>1. i+1 \in 1..Len(s) /\ j+1 \in 1..Len(s) /\ i+1 < j+1 /\ t[i] = s[i+1] /\ t[j] = s[j+1]  BY <1>2
  <2> QED  BY <2>1 DEF Sorted
<1>5. Linked(t)
  <2> SUFFICES ASSUME NEW i \in 2..Len(t)
               PROVE  (t[i][1] = "append" => t[i-1][1] = "lock") /\ (t[i][1] = "replace" => t[i-1][1] = "lockGenesis")
    BY DEF Linked
  <2>1. i \in 1..Len(t) /\ i-1 \in 1..Len(t) /\ i+1 \in 2..Len(s) /\ (i-1)+1 = i /\ (i+1)-1 = i  BY <1>1
  <2>2. t[i] = s[i+1] /\ t[i-1] = s[i]  BY <1>2, <2>1
  <2> QED  BY <2>1, <2>2 DEF Linked
<1>6. \A x : In(x, t) => In(x, s)  BY <1>2 DEF In
<1>7. \A x : In(x, s) => x = s[1] \/ In(x, t)
  <2> SUFFICES ASSUME NEW i \in 1..Len(s), i # 1 PROVE In(s[i], t)  BY DEF In
  <2>1. i-1 \in 1..Len(t) /\ (i-1)+1 = i  BY <1>1
  <2>2. t[i-1] = s[i]  BY <1>2, <2>1
  <2> QED  BY <2>1, <2>2 DEF In
<1>8. ASSUME NEW i \in 1..Len(t), Rank(t[i][1]) # 0, Rank(s[1][1]) # 0 PROVE Rank(s[1][1]) < Rank(t[i][1])
  <2>1. i+1 \in 1..Len(s) /\ 1 < i+1 /\ t[i] = s[i+1]  BY <1>2
  <2> QED  BY <1>3, <1>8, <2>1 DEF Sorted
<1>9. \A x : In(x, t) /\ Rank(x[1]) # 0 /\ Rank(s[1][1]) # 0 => Rank(s[1][1]) < Rank(x[1])  BY <1>8 DEF In
<1>10. \A st \in Steps : Must(f, p, u, st) /\ Rank(s[1][1]) # 0 /\ Rank(s[1][1]) < Rank(st[1]) => In(st, t)
  <2> SUFFICES ASSUME NEW st \in Steps, Must(f, p, u, st), Rank(s[1][1]) # 0, Rank(s[1][1]) < Rank(st[1])
               PROVE  In(st, t)
    OBVIOUS
  <2>1. Rank(s[1][1]) <= Rank(st[1])  BY RankNat
  <2>2. In(st, s)  BY <1>3, <2>1 DEF Whole
  <2>3. st # s[1]  BY RankNat
  <2> QED  BY <1>7, <2>2, <2>3
<1>11. Whole(f, p, u, t)
  <2> SUFFICES ASSUME NEW st \in Steps, NEW i \in 1..Len(t), Must(f, p, u, st), Rank(t[i][1]) # 0, Rank(t[i][1]) <= Rank(st[1])
               PROVE  In(st, t)
    BY DEF Whole
  <2>1. i+1 \in 1..Len(s) /\ t[i] = s[i+1]  BY <1>2
  <2>2. In(st, s)  BY <2>1 DEF Whole
  <2>3. CASE st = s[1]
    <3>1. Rank(st[1]) # 0  BY RankNat
    <3>2. Rank(s[1][1]) < Rank(t[i][1])  BY <1>8, <2>3, <3>1
    <3> QED  BY <2>3, <3>2, RankNat
  <2> QED  BY <1>7, <2>2, <2>3
<1>12. /\ t # <<>> /\ t[1][1] = "append" => s[1][1] = "lock"
       /\ t # <<>> /\ t[1][1] = "replace" => s[1][1] = "lockGenesis"
  <2> SUFFICES ASSUME t # <<>>
               PROVE  (t[1][1] = "append" => s[1][1] = "lock") /\ (t[1][1] = "replace" => s[1][1] = "lockGenesis")
    OBVIOUS
  <2>1. Len(t) # 0  BY <1>1
  <2>2. 1 \in 1..Len(t) /\ 1 + 1 = 2 /\ 2 - 1 = 1 /\ 2 \in 2..Len(s)  BY <1>1, <2>1
  <2>3. t[1] = s[2]  BY <1>2, <2>2
  <2> QED  BY <2>2, <2>3 DEF Linked
<1> QED  BY <1>1, <1>2, <1>3, <1>4, <1>5, <1>6, <1>7, <1>9, <1>10, <1>11, <1>12 DEF t

\* What a phase needs of a goroutine is among what the goroutine may do in it.
LEMMA MustMay ==
  ASSUME NEW f \in Families, NEW p \in 0..11, NEW u \in Containers, NEW st, Must(f, p, u, st)
  PROVE  May(f, p, u, st)
<1>1. CASE f = "penumbra"  BY <1>1 DEF May, PenumbraMay, Must, ThorFamilies
<1>2. CASE f = "namada"  BY <1>2 DEF May, NamadaMay, Must, ThorFamilies
<1>3. CASE f = "polkadot"  BY <1>3 DEF May, PolkadotMay, Must, ThorFamilies
<1>4. CASE f \in ThorFamilies  BY <1>4 DEF May, ThorchainMay, Must, ThorFamilies
<1> QED  BY <1>1, <1>2, <1>3, <1>4 DEF Must, ThorFamilies

\* What a step of phase p does to the data.
Keeping(p) ==
  /\ family' = family /\ defs \subseteq defs' /\ allocations \subseteq allocations' /\ paras \subseteq paras'
  /\ \A u \in Containers :
       /\ spec'[u] \in {spec[u], u[2]}
       /\ p >= 3 => key'[u] \in {key[u], Key("genesis", u[2])}
       /\ file'[u] \in {file[u], CompleteGenesis} \/ (family = "namada" /\ p = 7 /\ file'[u] = Torn)
       /\ \/ container'[u] = container[u]
          \/ container'[u] = "created" /\ May(family, p, u, <<"create">>)
          \/ container'[u] = "running" /\ May(family, p, u, <<"start">>)
          \/ container'[u] = "exited" /\ family = "namada" /\ May(family, p, u, <<"start">>)

\* What a goroutine had to do stays done,
LEMMA EffectKept ==
  ASSUME NEW p \in 0..11, NEW q \in 0..11, q <= p, family \in Families, Keeping(p),
         NEW u \in Containers, NEW st \in Steps, Must(family, q, u, st), Effect(u, st),
         q < p \/ st # <<"start">> \/ container'[u] # "created"
  PROVE  Effect(u, st)'
<1>1. May(family, q, u, st)  BY MustMay
<1>2. CompleteGenesis' = CompleteGenesis  BY DEF CompleteGenesis, Authorities, Keeping
<1> DEFINE n == st[1]
<1>3. n = "define" => (<<st[2], st[2]>> \in defs)'  BY DEF Effect, Keeping
<1>4. n = "replace" => (<<u[2], st[2]>> \in defs)'  BY DEF Effect, Keeping
<1>5. n \in {"append", "fund"} => (st[2] \in allocations)'  BY DEF Effect, Keeping
<1>6. n # "export" /\ n # "writeGenesis"  BY <1>1, MayNames
<1>7. n = "copySpec" => (spec[u] = u[2])'  BY DEF Effect, Keeping
<1>8. n = "writeKey" => (key[u] = Key("genesis", u[2]))'
  <2>1. n = "writeKey" => p >= 3  BY <1>1, MayNames
  <2>2. Key("genesis", u[2])' = Key("genesis", u[2])  BY DEF Key
  <2> QED  BY <2>1, <2>2 DEF Effect, Keeping
<1>9. n = "copyRawSpec" => (file[u] = CompleteGenesis)'
  <2>1. n = "copyRawSpec" => family # "namada"  BY <1>1, MayNames
  <2> QED  BY <1>2, <2>1 DEF Effect, Keeping
<1>10. n = "writeArchive" => (file[u] \in {CompleteGenesis, Torn})'
  BY <1>2 DEF Effect, Keeping
<1>11. n = "create" => (container[u] # "none")'  BY DEF Effect, Keeping
<1>12. n = "start" /\ family # "namada" => (container[u] = "running")'
  <2> SUFFICES ASSUME n = "start", family # "namada" PROVE container'[u] = "running"  OBVIOUS
  <2>1. container[u] = "running"  BY DEF Effect
  <2>2. container'[u] = "created" => May(family, p, u, <<"create">>)  BY <2>1 DEF Keeping
  <2>3. st = <<"start">>  BY <1>1, MayNames
  <2>4. container'[u] # "created"
    <3> SUFFICES ASSUME container'[u] = "created", q < p PROVE FALSE  BY <2>3
    <3>1. <<"create">>[1] = "create" /\ May(family, p, u, <<"create">>)  BY <2>2
    <3>2. \/ p = 6 /\ u[1] = "side"
          \/ p = 7 /\ u[1] \in {"tm", "app", "val", "full", "thor"}
          \/ p = 8 /\ u[1] = "relay"
          \/ p = 10 /\ u[1] \in {"para", "client"}
      BY <3>1, MayNames
    <3>3. \/ q = 6 /\ u[1] = "side"
          \/ q = 8 /\ u[1] \in {"tm", "app", "val", "full", "thor", "relay"}
          \/ q = 10 /\ u[1] \in {"para", "client"}
      BY <1>1, MayNames
    <3> QED  BY <3>2, <3>3
  <2> QED  BY <2>1, <2>4 DEF Keeping
<1>13. family' = family  BY DEF Keeping
<1> QED  BY <1>3, <1>4, <1>5, <1>6, <1>7, <1>8, <1>9, <1>10, <1>11, <1>12, <1>13 DEF Effect

\* The nodes Main writes genesis files for.
LEMMA InContainers ==
  /\ "penumbra" \in Families => {"tm", "app"} \X Nodes \subseteq Containers
  /\ \A f \in Families \cap ThorFamilies : {"thor"} \X Nodes \subseteq Containers
<1>1. \A f \in Families : ContainersOf(f) \subseteq Containers  BY DEF Containers
<1> QED  BY <1>1 DEF ContainersOf, ThorFamilies

\* ... and so does what Main had to do.
LEMMA MainEffectKept ==
  ASSUME NEW p \in 0..11, NEW q \in 0..11, q <= p, family \in Families, Keeping(p),
         NEW st \in Steps, MainMust(family, q, st), Effect(Main, st)
  PROVE  Effect(Main, st)'
<1>1. CompleteGenesis' = CompleteGenesis  BY DEF CompleteGenesis, Authorities, Keeping
<1> DEFINE n == st[1]
<1>2. MainMay(family, q, st) /\ n \in {"append", "define", "fund", "export", "writeGenesis"}  BY DEF MainMust
<1>3. n = "define" => (<<st[2], st[2]>> \in defs)'  BY DEF Effect, Keeping
<1>4. n \in {"append", "fund"} => (st[2] \in allocations)'  BY DEF Effect, Keeping
<1>5. n = "export" => (st[2] \in paras)'  BY DEF Effect, Keeping
<1>6. n = "writeGenesis" => (file[st[2]] = CompleteGenesis)'
  <2> SUFFICES ASSUME n = "writeGenesis" PROVE file'[st[2]] = CompleteGenesis'  OBVIOUS
  <2>1. file[st[2]] = CompleteGenesis  BY DEF Effect
  <2>2. family # "namada" /\ st[2] \in Containers
    <3>1. \/ family = "penumbra" /\ \E m \in Nodes : st[2] = <<"tm", m>>
          \/ family \in ThorFamilies /\ \E m \in Nodes : st[2] = <<"thor", m>>
      BY <1>2, MainNames
    <3> QED  BY <3>1, InContainers DEF ThorFamilies
  <2> QED  BY <1>1, <2>1, <2>2 DEF Keeping
<1> QED  BY <1>2, <1>3, <1>4, <1>5, <1>6 DEF Effect

\* A container is of one of the families, and is named after what it is.
LEMMA ContainerTags ==
  ASSUME NEW u \in Containers
  PROVE  /\ u # Main
         /\ u[1] = "tm" => "penumbra" \in Families /\ u[2] \in Nodes /\ u = <<"tm", u[2]>>
         /\ u[1] = "app" => "penumbra" \in Families /\ u[2] \in Nodes
         /\ u[1] = "client" => "penumbra" \in Families /\ u[2] \in Validators
         /\ u[1] = "val" => "namada" \in Families /\ u[2] \in Validators
         /\ u[1] = "full" => "namada" \in Families /\ u[2] \in 1..NumFullNodes
         /\ u[1] = "relay" => "polkadot" \in Families /\ u[2] \in 1..NumRelay /\ u = <<"relay", u[2]>>
         /\ u[1] = "para" => "polkadot" \in Families /\ u[2] \in Paras
         /\ u[1] = "thor" => u[2] \in Nodes /\ u = <<"thor", u[2]>>
         /\ u[1] = "side" => u[2] \in 1..NumSidecars
         /\ u[1] \in {"tm", "app", "client", "val", "full", "relay", "para", "thor", "side"}
         /\ u[1] \in {"tm", "app", "client"} => u \in ContainersOf("penumbra")
         /\ u[1] \in {"val", "full"} => u \in ContainersOf("namada")
         /\ u[1] \in {"relay", "para"} => u \in ContainersOf("polkadot")
         /\ u[1] \in {"thor", "side"} => u \in ContainersOf("thorchain") /\ u \in ContainersOf("thorchainFork")
<1>1. PICK f \in Families : u \in ContainersOf(f)  BY DEF Containers
<1>2. f \in {"penumbra", "namada", "polkadot", "thorchain", "thorchainFork"}  BY StartAssumption
<1>3. CASE f = "penumbra"  BY <1>1, <1>3 DEF ContainersOf, Main
<1>4. CASE f = "namada"  BY <1>1, <1>4 DEF ContainersOf, Main
<1>5. CASE f = "polkadot"
  <2>1. CASE u \in {"relay"} \X (1..NumRelay)  BY <1>5, <2>1 DEF ContainersOf, Main
  <2>2. CASE \E p \in Paras : \E i \in 1..Parachains[p] : u = <<"para", p, i>>
    <3>1. PICK p \in Paras : \E i \in 1..Parachains[p] : u = <<"para", p, i>>  BY <2>2
    <3>2. PICK i \in 1..Parachains[p] : u = <<"para", p, i>>  BY <3>1
    <3>3. u[1] = "para" /\ u[2] = p /\ u # Main  BY <3>2 DEF Main
    <3>4. u \in ContainersOf("polkadot")  BY <1>1, <1>5
    <3> QED  BY <1>5, <3>3, <3>4
  <2> QED  BY <1>1, <1>5, <2>1, <2>2 DEF ContainersOf
<1>6. CASE f \in {"thorchain", "thorchainFork"}  BY <1>1, <1>6 DEF ContainersOf, Main
<1> QED  BY <1>2, <1>3, <1>4, <1>5, <1>6

\* Goroutines are Main and the containers' own.
LEMMA Members ==
  /\ \A f \in Families : ContainersOf(f) \subseteq Containers
  /\ "namada" \in Families => FirstValidator \in Containers
  /\ "polkadot" \in Families => <<"relay", 1>> \in Containers
  /\ Main \in Procs /\ Containers \subseteq Procs /\ Main \notin Containers
  /\ \A t \in Procs : t = Main \/ t \in Containers
<1>1. \A f \in Families : ContainersOf(f) \subseteq Containers  BY DEF Containers
<1>2. NumValidators \in Nat \ {0} /\ NumRelay \in Nat \ {0}  BY StartAssumption
<1>3. "namada" \in Families => FirstValidator \in Containers
  BY <1>1, <1>2 DEF ContainersOf, FirstValidator, Validators
<1>4. "polkadot" \in Families => <<"relay", 1>> \in Containers
  <2>1. <<"relay", 1>> \in {"relay"} \X (1..NumRelay)  BY <1>2
  <2>2. {"relay"} \X (1..NumRelay) \subseteq ContainersOf("polkadot")  BY DEF ContainersOf
  <2> QED  BY <1>1, <2>1, <2>2
<1> QED  BY <1>1, <1>3, <1>4, ContainerTags DEF Procs

\* A name, and a name with an argument, is a step.
LEMMA InSteps ==
  /\ \A n \in Names : <<n>> \in Steps
  /\ \A n \in Names, a \in Args : <<n, a>> \in Steps
<1>1. ASSUME NEW n \in Names PROVE <<n>> \in {<<m>> : m \in Names}  OBVIOUS
<1>2. ASSUME NEW n \in Names, NEW a \in Args PROVE <<n, a>> \in Names \X Args  OBVIOUS
<1> QED  BY <1>1, <1>2 DEF Steps

\* A goroutine's step: its script, and what is left of it.
LEMMA UnitFacts ==
  ASSUME NEW p, NEW R, StartInv(p, R), NEW t \in Containers, Changes(t, pc[t][1][1], pc[t][1][2])
  PROVE  LET s == pc[t]
             st == pc[t][1]
         IN
         /\ p \in 0..11 /\ family \in Families
         /\ s \in Seq(Steps) /\ s # <<>> /\ Sorted(s) /\ Linked(s) /\ Whole(family, p, t, s)
         /\ st \in Steps /\ May(family, p, t, st) /\ In(st, s)
         /\ pc'[t] = Tail(s)
         /\ \A u \in Procs : u # t => pc'[u] = pc[u]
         /\ \A u \in Containers : \A x : In(x, pc'[u]) => In(x, pc[u])
         /\ Tail(s) \in Seq(Steps) /\ Sorted(Tail(s)) /\ Linked(Tail(s)) /\ Whole(family, p, t, Tail(s))
         /\ \A i \in 1..Len(Tail(s)) : i + 1 \in 1..Len(s) /\ Tail(s)[i] = s[i+1]
<1>1. /\ p \in 0..11 /\ family \in Families /\ DOMAIN pc = Procs
      /\ pc[t] \in Seq(Steps) /\ Sorted(pc[t]) /\ Linked(pc[t]) /\ Whole(family, p, t, pc[t])
      /\ \A i \in 1..Len(pc[t]) : May(family, p, t, pc[t][i])
  BY DEF StartInv, MainLeft, Types, Left
<1>2. pc[t] # <<>> /\ pc' = [pc EXCEPT ![t] = Tail(@)]  BY DEF Changes
<1>3. pc'[t] = Tail(pc[t]) /\ \A u \in Procs : u # t => pc'[u] = pc[u]  BY <1>1, <1>2, Members
<1> DEFINE s == pc[t]
<1>4. /\ Tail(s) \in Seq(Steps) /\ Sorted(Tail(s)) /\ Linked(Tail(s)) /\ Whole(family, p, t, Tail(s))
      /\ 1 \in 1..Len(s) /\ s[1] \in Steps
      /\ \A i \in 1..Len(Tail(s)) : i + 1 \in 1..Len(s) /\ Tail(s)[i] = s[i+1]
      /\ \A x : In(x, Tail(s)) => In(x, s)
  BY <1>1, <1>2, UnitTail
<1>5. \A u \in Containers : \A x : In(x, pc'[u]) => In(x, pc[u])  BY <1>3, <1>4, Members
<1>6. May(family, p, t, s[1]) /\ In(s[1], s)  BY <1>1, <1>4 DEF In
<1> QED  BY <1>1, <1>2, <1>3, <1>4, <1>5, <1>6

\* It keeps every part of the invariant that is about scripts.
LEMMA UnitControl ==
  ASSUME NEW p, NEW R, StartInv(p, R), NEW t \in Containers, Changes(t, pc[t][1][1], pc[t][1][2])
  PROVE  (Types /\ MainLeft(p, R) /\ Left(p) /\ Fresh(p, R) /\ QuietOK(p) /\ NilOK(p))'
<1>1. /\ p \in 0..11 /\ family \in Families
      /\ pc'[t] = Tail(pc[t]) /\ pc[t] # <<>>
      /\ \A u \in Procs : u # t => pc'[u] = pc[u]
      /\ \A u \in Containers : \A x : In(x, pc'[u]) => In(x, pc[u])
  BY UnitFacts
<1>2. UNCHANGED <<family, failed, result>>  BY DEF Changes
<1>3. pc'[Main] = pc[Main]  BY <1>1, Members
<1>4. MainLeft(p, R)'  BY <1>2, <1>3 DEF StartInv, MainLeft
<1>5. Left(p)'
  <2> SUFFICES ASSUME NEW u \in Containers
               PROVE  /\ pc'[u] \in Seq(Steps) /\ Sorted(pc'[u]) /\ Linked(pc'[u]) /\ Whole(family, p, u, pc'[u])
                      /\ \A i \in 1..Len(pc'[u]) : May(family, p, u, pc'[u][i])
    BY <1>2 DEF Left
  <2>1. CASE u # t  BY <1>1, <2>1, Members DEF StartInv, Left
  <2>2. CASE u = t
    <3>1. \A i \in 1..Len(pc[t]) : May(family, p, t, pc[t][i])  BY DEF StartInv, Left
    <3>2. \A i \in 1..Len(Tail(pc[t])) : May(family, p, t, Tail(pc[t])[i])
      <4>1. \A i \in 1..Len(Tail(pc[t])) : i + 1 \in 1..Len(pc[t]) /\ Tail(pc[t])[i] = pc[t][i+1]  BY UnitFacts
      <4> QED  BY <3>1, <4>1
    <3> QED  BY <1>1, <2>2, <3>2, UnitFacts
  <2> QED  BY <2>1, <2>2
<1>6. Fresh(p, R)'
  <2> SUFFICES ASSUME NEW u \in Containers, <<p, u>> \in R, result' # "err" PROVE pc'[u] = <<>>  BY DEF Fresh
  <2>1. pc[u] = <<>>  BY <1>2 DEF StartInv, Fresh
  <2> QED  BY <1>1, <2>1, Members
<1>7. QuietOK(p)'  BY <1>1, <1>2 DEF StartInv, QuietOK, Quieted
<1>8. NilOK(p)'  BY <1>2 DEF StartInv, NilOK
<1>9. Types'
  <2>1. Types  BY DEF StartInv
  <2> HIDE DEF Types
  <2>2. DOMAIN pc' = DOMAIN pc /\ DOMAIN seen' = DOMAIN seen /\ DOMAIN buf' = DOMAIN buf  BY DEF Changes
  <2>3. DOMAIN file' = DOMAIN file /\ DOMAIN spec' = DOMAIN spec /\ DOMAIN key' = DOMAIN key
    BY DEF Changes
  <2>4. DOMAIN container' = DOMAIN container  BY DEF Changes
  <2> QED  BY <1>2, <2>1, <2>2, <2>3, <2>4 DEF Types
<1> QED  BY <1>4, <1>5, <1>6, <1>7, <1>8, <1>9

\* The key a goroutine is about to write is the one the genesis has for it.
LEMMA UnitBuffers ==
  ASSUME NEW p, NEW R, StartInv(p, R), NEW t \in Containers, Changes(t, pc[t][1][1], pc[t][1][2])
  PROVE  /\ pc[t][1][1] = "writeKey" => buf[t] = Key("genesis", t[2])
         /\ pc[t][1][1] = "writeArchive" => buf[t] \in {CompleteGenesis, Torn}
<1> DEFINE s == pc[t]
<1>1. /\ p \in 0..11 /\ family \in Families /\ s \in Seq(Steps) /\ Sorted(s) /\ s # <<>>
      /\ May(family, p, t, s[1]) /\ In(s[1], s)
      /\ \A x : In(x, s) => x = s[1] \/ In(x, Tail(s))
      /\ \A x : In(x, Tail(s)) /\ Rank(x[1]) # 0 /\ Rank(s[1][1]) # 0 => Rank(s[1][1]) < Rank(x[1])
  BY UnitFacts, UnitTail
<1>2. ASSUME NEW x, In(x, s), Rank(x[1]) # 0, Rank(s[1][1]) # 0, Rank(x[1]) < Rank(s[1][1]) PROVE FALSE
  BY <1>1, <1>2, RankNat
<1>3. ASSUME s[1][1] = "writeKey" PROVE buf[t] = Key("genesis", t[2])
  <2>1. s[1] = <<"writeKey">>  BY <1>1, <1>3, MayNames
  <2>2. /\ Rank(s[1][1]) = 5 /\ Rank(<<"readKeyOfNode">>[1]) = 4 /\ Rank(<<"readValidatorWallet">>[1]) = 4
    BY <1>3 DEF Rank
  <2>3. ~In(<<"readKeyOfNode">>, s) /\ ~In(<<"readValidatorWallet">>, s)  BY <1>2, <2>2
  <2> QED  BY <1>1, <2>1, <2>3 DEF StartInv, BufOK
<1>4. ASSUME s[1][1] = "writeArchive" PROVE buf[t] \in {CompleteGenesis, Torn}
  <2>1. s[1] = <<"writeArchive">>  BY <1>1, <1>4, MayNames
  <2>2. Rank(s[1][1]) = 3 /\ Rank(<<"readArchive">>[1]) = 1  BY <1>4 DEF Rank
  <2>3. ~In(<<"readArchive">>, s)  BY <1>2, <2>2
  <2> QED  BY <1>1, <2>1, <2>3 DEF StartInv, BufOK
<1> QED  BY <1>3, <1>4

\* It does its effect, and undoes nothing.
LEMMA UnitKeeping ==
  ASSUME NEW p, NEW R, StartInv(p, R), NEW t \in Containers, Changes(t, pc[t][1][1], pc[t][1][2])
  PROVE  Keeping(p) /\ \A st : st = pc[t][1] => Effect(t, st)'
<1> SUFFICES ASSUME NEW st, st = pc[t][1] PROVE Keeping(p) /\ Effect(t, st)'
  OBVIOUS
<1> DEFINE n == st[1]
           a == st[2]
<1>0. Changes(t, n, a)  OBVIOUS
<1>1. /\ p \in 0..11 /\ family \in Families /\ May(family, p, t, st) /\ pc[t] # <<>>
      /\ t \in Procs /\ Main \in Procs /\ t # Main
  BY UnitFacts, Members
<1>2. /\ DOMAIN seen = Procs /\ DOMAIN buf = Procs /\ DOMAIN file = Containers /\ DOMAIN spec = Containers
      /\ DOMAIN key = Containers /\ DOMAIN container = Containers
  BY DEF StartInv, Types
<1>3. UNCHANGED family /\ CompleteGenesis' = CompleteGenesis  BY <1>0 DEF Changes, CompleteGenesis, Authorities
<1>4. (n = "append" => seen[t] = allocations) /\ (n = "replace" => seen[t] = defs)
  BY <1>1 DEF StartInv, MutexOK, At, Busy, Name
<1>5. /\ defs \subseteq defs' /\ allocations \subseteq allocations' /\ paras \subseteq paras'
      /\ n = "define" => <<a, a>> \in defs'
      /\ n = "replace" => <<t[2], a>> \in defs'
      /\ n \in {"append", "fund"} => a \in allocations'
  BY <1>0, <1>4 DEF Changes
<1>6. (n = "copySpec" => spec'[t] = t[2]) /\ \A u \in Containers : spec'[u] \in {spec[u], u[2]}
  <2>1. n = "copySpec" => a = t[2]  BY <1>1, MayNames
  <2>2. spec' = IF n = "copySpec" THEN [spec EXCEPT ![t] = a] ELSE spec  BY <1>0 DEF Changes
  <2> QED  BY <1>2, <2>1, <2>2
<1>7. /\ n = "writeKey" => key'[t] = Key("genesis", t[2])
      /\ p >= 3 => \A u \in Containers : key'[u] \in {key[u], Key("genesis", u[2])}
  <2>1. n = "initFiles" => p = 1  BY <1>1, MayNames
  <2>2. n = "initFiles" \/ n = "writeKey" \/ key' = key  BY <1>0 DEF Changes
  <2>3. n = "writeKey" => key' = [key EXCEPT ![t] = buf[t]]  BY <1>0 DEF Changes
  <2>4. n = "writeKey" => buf[t] = Key("genesis", t[2])  BY UnitBuffers
  <2> QED  BY <1>1, <1>2, <2>1, <2>2, <2>3, <2>4
<1>8. /\ n = "copyRawSpec" => file'[t] = CompleteGenesis
      /\ n = "writeArchive" => file'[t] \in {CompleteGenesis, Torn}
      /\ \A u \in Containers : \/ file'[u] \in {file[u], CompleteGenesis}
                               \/ family = "namada" /\ p = 7 /\ file'[u] = Torn
  <2>1. /\ n \notin {"initNetwork", "generateRaw", "writeGenesis"}
        /\ n = "copyRawSpec" => family = "polkadot" /\ p \in {8, 10}
        /\ n \in {"openArchive", "writeArchive"} => family = "namada" /\ p = 7
    BY <1>1, MayNames
  <2>2. n = "copyRawSpec" => buf[Main] = CompleteGenesis  BY <2>1 DEF StartInv, GenesisOK
  <2>3. n = "writeArchive" => buf[t] \in {CompleteGenesis, Torn}  BY UnitBuffers
  <2>4. /\ n = "copyRawSpec" => file' = [file EXCEPT ![t] = buf[Main]]
        /\ n = "openArchive" => file' = [file EXCEPT ![t] = Torn]
        /\ n = "writeArchive" => file' = [file EXCEPT ![t] = buf[t]]
        /\ n \notin {"initNetwork", "generateRaw", "writeGenesis", "copyRawSpec", "openArchive", "writeArchive"} =>
             file' = file
    BY <1>0 DEF Changes
  <2>5. CASE n = "copyRawSpec"  BY <1>2, <2>2, <2>4, <2>5
  <2>6. CASE n = "openArchive"  BY <1>2, <2>1, <2>4, <2>6
  <2>7. CASE n = "writeArchive"  BY <1>2, <2>1, <2>3, <2>4, <2>7
  <2> QED  BY <2>1, <2>4, <2>5, <2>6, <2>7
<1>9. /\ n = "create" => container'[t] # "none"
      /\ n = "start" /\ family # "namada" => container'[t] = "running"
      /\ \A u \in Containers :
           \/ container'[u] = container[u]
           \/ container'[u] = "created" /\ May(family, p, u, <<"create">>)
           \/ container'[u] = "running" /\ May(family, p, u, <<"start">>)
           \/ container'[u] = "exited" /\ family = "namada" /\ May(family, p, u, <<"start">>)
  <2>1. (n = "create" => st = <<"create">>) /\ (n = "start" => st = <<"start">>)  BY <1>1, MayNames
  <2>2. /\ n = "create" => container' = [container EXCEPT ![t] = "created"]
        /\ n = "start" => container' = [container EXCEPT ![t] = StartedAs(t)]
        /\ n \notin {"create", "start"} => container' = container
    BY <1>0 DEF Changes
  <2>3. StartedAs(t) = "running" \/ (StartedAs(t) = "exited" /\ family = "namada")  BY DEF StartedAs
  <2> QED  BY <1>1, <1>2, <2>1, <2>2, <2>3
<1>10. n # "export" /\ n # "writeGenesis"  BY <1>1, MayNames
<1>11. Keeping(p)  BY <1>3, <1>5, <1>6, <1>7, <1>8, <1>9 DEF Keeping
<1>12. Key("genesis", t[2])' = Key("genesis", t[2])  BY DEF Key
<1>13. Effect(t, st)'  BY <1>3, <1>5, <1>6, <1>7, <1>8, <1>9, <1>10, <1>12 DEF Effect
<1> QED  BY <1>11, <1>13

\* The fields of the complete genesis.
LEMMA Complete ==
  ASSUME family \in Families
  PROVE  LET C == CompleteGenesis
         IN  /\ C.defs = IF family = "thorchainFork" THEN Validators \X Range(NodeAccountFields)
                         ELSE {<<v, v>> : v \in Authorities}
             /\ family # "thorchainFork" => \A v \in Authorities : <<v, v>> \in C.defs
             /\ family # "thorchainFork" => \A d \in C.defs : d[2] = d[1]
             /\ C.allocations = IF family = "thorchainFork" THEN {}
                                ELSE Authorities \cup Range(Wallets) \cup {x \in {GasPayer} : family = "namada"}
                                       \cup {x \in {Bond} : family = "thorchain"}
             /\ C.paras = IF family = "polkadot" THEN Paras ELSE {}
             /\ Authorities = IF family = "polkadot" THEN 1..NumRelay ELSE Validators
             /\ 1 \in Validators
<1>1. 1 \in Validators  BY StartAssumption DEF Validators
<1> QED  BY <1>1 DEF CompleteGenesis, Authorities

\* A change of a locked slice comes after the lock, in the tail too.
LEMMA LinkedTail ==
  ASSUME NEW S, NEW s \in Seq(S), s # <<>>, Linked(s)
  PROVE  /\ Linked(Tail(s))
         /\ Tail(s) # <<>> /\ Tail(s)[1][1] = "append" => s[1][1] = "lock"
         /\ Tail(s) # <<>> /\ Tail(s)[1][1] = "replace" => s[1][1] = "lockGenesis"
<1> DEFINE t == Tail(s)
<1>1. /\ t \in Seq(S) /\ Len(s) \in Nat \ {0} /\ Len(t) = Len(s) - 1
      /\ \A i \in 1..(Len(s) - 1) : t[i] = s[i+1]
  BY TailSeq
<1> HIDE DEF t
<1>2. \A i \in 1..Len(t) : i + 1 \in 1..Len(s) /\ t[i] = s[i+1]  BY <1>1
<1>3. 1 \in 1..Len(s)  BY <1>1
<1>5. Linked(t)
  <2> SUFFICES ASSUME NEW i \in 2..Len(t)
               PROVE  (t[i][1] = "append" => t[i-1][1] = "lock") /\ (t[i][1] = "replace" => t[i-1][1] = "lockGenesis")
    BY DEF Linked
  <2>1. i \in 1..Len(t) /\ i-1 \in 1..Len(t) /\ i+1 \in 2..Len(s) /\ (i-1)+1 = i /\ (i+1)-1 = i  BY <1>1
  <2>2. t[i] = s[i+1] /\ t[i-1] = s[i]  BY <1>2, <2>1
  <2> QED  BY <2>1, <2>2 DEF Linked
<1>12. /\ t # <<>> /\ t[1][1] = "append" => s[1][1] = "lock"
       /\ t # <<>> /\ t[1][1] = "replace" => s[1][1] = "lockGenesis"
  <2> SUFFICES ASSUME t # <<>>
               PROVE  (t[1][1] = "append" => s[1][1] = "lock") /\ (t[1][1] = "replace" => s[1][1] = "lockGenesis")
    OBVIOUS
  <2>1. Len(t) # 0  BY <1>1
  <2>2. 1 \in 1..Len(t) /\ 1 + 1 = 2 /\ 2 - 1 = 1 /\ 2 \in 2..Len(s)  BY <1>1, <2>1
  <2>3. t[1] = s[2]  BY <1>2, <2>2
  <2> QED  BY <2>2, <2>3 DEF Linked
<1> QED  BY <1>5, <1>12 DEF t

\* What Main is about to do.
LEMMA MainFacts ==
  ASSUME NEW p, NEW R, StartInv(p, R), pc[Main] # <<>>
  PROVE  LET s == pc[Main]
             st == pc[Main][1]
             q == LastPhase(family)
         IN
         /\ p \in 0..11 /\ family \in Families /\ result = "pending"
         /\ s \in Seq(Steps \cup GoSteps) /\ Linked(s) /\ Foreseen(family, p, R)
         /\ \/ /\ st \in Steps /\ MainMay(family, p, st) /\ st[1] \notin {"go", "wait"}
               /\ Leads(family, Tail(s), p, q, R \ {<<p, st>>})
            \/ /\ st \in GoSteps /\ st[1] = "go" /\ Fits(family, p, st[2], st[3])
               /\ Leads(family, Tail(s), p, q, R \ {<<p, st[2]>>})
            \/ \E r \in 0..11 : /\ <<p, st, r>> \in Turns(family) /\ r > p /\ st[1] # "go"
                                /\ Leads(family, Tail(s), r, q, R)
                                /\ \A x \in R : x[1] >= r
<1> DEFINE s == pc[Main]
           st == pc[Main][1]
           q == LastPhase(family)
<1>1. /\ p \in 0..11 /\ family \in Families /\ result = "pending"
      /\ Leads(family, s, p, q, R) /\ Linked(s) /\ Foreseen(family, p, R)
  BY DEF StartInv, MainLeft, Types
<1>2. \/ Keeps(family, p, s[1]) /\ Leads(family, Tail(s), p, q, R \ {<<p, Tag(s[1])>>})
      \/ \E r \in 0..11 : /\ <<p, s[1], r>> \in Turns(family) /\ r >= p
                          /\ Leads(family, Tail(s), r, q, IF r = p THEN {} ELSE R)
                          /\ r # p => \A x \in R : x[1] >= r
  BY <1>1, LeadsTail
<1>3. s \in Seq(Steps \cup GoSteps)  BY <1>1 DEF Leads
<1>4. CASE Keeps(family, p, s[1]) /\ Leads(family, Tail(s), p, q, R \ {<<p, Tag(s[1])>>})
  <2>1. CASE st \in Steps /\ MainMay(family, p, st)
    <3>1. st[1] \notin {"go", "wait"}  BY <1>1, <2>1, MainNames DEF Calls
    <3> QED  BY <1>1, <1>3, <1>4, <2>1, <3>1 DEF Tag
  <2>2. CASE st \in GoSteps /\ Fits(family, p, st[2], st[3])
    <3>1. st[1] = "go"  BY <2>2 DEF GoSteps
    <3> QED  BY <1>1, <1>3, <1>4, <2>2, <3>1 DEF Tag
  <2> QED  BY <1>4, <2>1, <2>2 DEF Keeps
<1>5. ASSUME NEW r \in 0..11, <<p, s[1], r>> \in Turns(family), Leads(family, Tail(s), r, q, IF r = p THEN {} ELSE R),
             r # p => \A x \in R : x[1] >= r
      PROVE  /\ r > p /\ st[1] # "go" /\ Leads(family, Tail(s), r, q, R)
             /\ \A x \in R : x[1] >= r
  <2>1. p < r /\ st[1] # "go"  BY <1>1, <1>5, TurnNames
  <2> QED  BY <1>1, <1>5, <2>1
<1> QED  BY <1>1, <1>2, <1>3, <1>4, <1>5

\* Whoever is about to change a locked slice has the lock and an up-to-date view.
LEMMA AtChange ==
  ASSUME NEW p, NEW R, StartInv(p, R), NEW t \in Procs
  PROVE  /\ At(t, {"append"}) => family = "penumbra" /\ mutex = t /\ seen[t] = allocations
         /\ At(t, {"replace"}) => family = "thorchainFork" /\ mutex = t /\ seen[t] = defs
         /\ Busy(t) => \E S : pc[t] \in Seq(S)
         /\ Busy(t) => Linked(pc[t])
<1>1. /\ At(t, {"append"}) => mutex = t /\ seen[t] = allocations
      /\ At(t, {"replace"}) => mutex = t /\ seen[t] = defs
  BY DEF StartInv, MutexOK
<1>2. CASE t = Main
  <2> SUFFICES ASSUME Busy(t)
               PROVE  /\ At(t, {"append"}) => family = "penumbra"
                      /\ ~At(t, {"replace"})
                      /\ \E S : pc[t] \in Seq(S)
                      /\ Linked(pc[t])
    BY <1>1 DEF At
  <2>1. pc[Main] # <<>>  BY <1>2 DEF Busy
  <2>2. /\ pc[t] \in Seq(Steps \cup GoSteps) /\ Linked(pc[t]) /\ family \in Families /\ p \in 0..11
    BY <1>2, <2>1, MainFacts
  <2> DEFINE st == pc[Main][1]
  <2>3. \/ MainMay(family, p, st)
        \/ st[1] = "go"
        \/ \E r : <<p, st, r>> \in Turns(family)
    BY <2>1, MainFacts
  <2> HIDE DEF st
  <2>4. (st[1] = "append" => family = "penumbra") /\ st[1] # "replace"
    <3>1. CASE MainMay(family, p, st)
      <4>1. st[1] = "append" => family = "penumbra"  BY <2>2, <3>1, MainNames
      <4>2. st[1] \in Calls \cup {"define", "fund", "lock", "append", "export", "writeGenesis", "setRunning"}
        BY <2>2, <3>1, MainNames
      <4> QED  BY <4>1, <4>2 DEF Calls
    <3>2. CASE st[1] = "go"  BY <3>2
    <3>3. ASSUME NEW r, <<p, st, r>> \in Turns(family) PROVE st[1] \notin {"append", "replace"}
      BY <2>2, <3>3, TurnNames
    <3> QED  BY <2>3, <3>1, <3>2, <3>3
  <2>5. (pc[Main][1][1] = "append" => family = "penumbra") /\ pc[Main][1][1] # "replace"  BY <2>4 DEF st
  <2> QED  BY <1>2, <2>2, <2>5 DEF At, Name
<1>3. CASE t \in Containers
  <2>1. /\ p \in 0..11 /\ family \in Families
        /\ pc[t] \in Seq(Steps) /\ Linked(pc[t])
        /\ \A i \in 1..Len(pc[t]) : May(family, p, t, pc[t][i])
    BY <1>3 DEF StartInv, MainLeft, Types, Left
  <2>2. Busy(t) => 1 \in 1..Len(pc[t])  BY <2>1 DEF Busy
  <2>3. At(t, {"append"}) => family = "penumbra"  BY <1>3, <2>1, <2>2, MayNames DEF At, Name
  <2>4. At(t, {"replace"}) => family = "thorchainFork"  BY <1>3, <2>1, <2>2, MayNames DEF At, Name
  <2> QED  BY <1>1, <2>1, <2>3, <2>4
<1> QED  BY <1>2, <1>3, Members

\* A step that changes the slices only under their lock keeps that.
LEMMA MutexKept ==
  ASSUME NEW p, NEW R, StartInv(p, R), NEW t \in Procs, Changes(t, pc[t][1][1], pc[t][1][2]),
         pc[t][1][1] = "fund" => family # "penumbra",
         pc[t][1][1] = "define" => family # "thorchainFork"
  PROVE  MutexOK'
<1> DEFINE s == pc[t]
           n == pc[t][1][1]
<1>1. DOMAIN pc = Procs /\ DOMAIN seen = Procs  BY DEF StartInv, Types
<1>2. /\ s # <<>> /\ pc' = [pc EXCEPT ![t] = Tail(@)]
      /\ n \in {"lock", "lockGenesis"} => mutex = None
      /\ mutex' = IF n \in {"lock", "lockGenesis"} THEN t ELSE IF n \in {"append", "replace"} THEN None ELSE mutex
      /\ n = "lock" => seen' = [seen EXCEPT ![t] = allocations]
      /\ n = "lockGenesis" => seen' = [seen EXCEPT ![t] = defs]
      /\ n \notin {"define", "replace"} => defs' = defs
      /\ n \notin {"append", "fund"} => allocations' = allocations
  BY DEF Changes
<1>3. \A u \in Procs : u # t => seen'[u] = seen[u]  BY <1>1 DEF Changes
<1>4. pc'[t] = Tail(s) /\ \A u \in Procs : u # t => pc'[u] = pc[u]  BY <1>1, <1>2
<1>5. /\ Tail(s) # <<>> /\ Tail(s)[1][1] = "append" => n = "lock"
      /\ Tail(s) # <<>> /\ Tail(s)[1][1] = "replace" => n = "lockGenesis"
  <2>1. Busy(t)  BY <1>2 DEF Busy
  <2>2. PICK S : s \in Seq(S)  BY <2>1, AtChange
  <2>3. Linked(s)  BY <2>1, AtChange
  <2> QED  BY <1>2, <2>2, <2>3, LinkedTail
<1>6. SUFFICES ASSUME NEW u \in Procs
               PROVE  /\ pc'[u] # <<>> /\ pc'[u][1][1] = "append" => mutex' = u /\ seen'[u] = allocations'
                      /\ pc'[u] # <<>> /\ pc'[u][1][1] = "replace" => mutex' = u /\ seen'[u] = defs'
  BY DEF MutexOK, At, Busy, Name
<1>7. CASE u = t  BY <1>1, <1>2, <1>4, <1>5, <1>7
<1>8. CASE u # t
  <2>1. n \in {"append", "replace"} => mutex = t  BY <1>2, AtChange DEF At, Busy, Name
  <2>2. ASSUME pc[u] # <<>>, pc[u][1][1] = "append" PROVE mutex' = u /\ seen'[u] = allocations'
    <3>1. family = "penumbra" /\ mutex = u /\ seen[u] = allocations  BY <2>2, AtChange DEF At, Busy, Name
    <3>2. n \notin {"lock", "lockGenesis", "append", "replace"}  BY <1>2, <1>8, <2>1, <3>1, NobodyAssumption
    <3> QED  BY <1>2, <1>3, <1>8, <3>1, <3>2
  <2>3. ASSUME pc[u] # <<>>, pc[u][1][1] = "replace" PROVE mutex' = u /\ seen'[u] = defs'
    <3>1. family = "thorchainFork" /\ mutex = u /\ seen[u] = defs  BY <2>3, AtChange DEF At, Busy, Name
    <3>2. n \notin {"lock", "lockGenesis", "append", "replace"}  BY <1>2, <1>8, <2>1, <3>1, NobodyAssumption
    <3> QED  BY <1>2, <1>3, <1>8, <3>1, <3>2
  <2> QED  BY <1>4, <1>8, <2>2, <2>3
<1> QED  BY <1>7, <1>8

\* The genesis files that are complete stay so.
LEMMA GenesisKept ==
  ASSUME NEW p, NEW R, StartInv(p, R), Keeping(p), genesis' = genesis, buf'[Main] = buf[Main]
  PROVE  GenesisOK(p)'
<1>1. GenesisOK(p) /\ family \in Families /\ p \in 0..11  BY DEF StartInv, Types, MainLeft
<1>2. family' = family /\ CompleteGenesis' = CompleteGenesis  BY DEF Keeping, CompleteGenesis, Authorities
<1>3. \A u \in Containers : \/ file'[u] \in {file[u], CompleteGenesis}
                            \/ family = "namada" /\ p = 7 /\ file'[u] = Torn
  BY DEF Keeping
<1>4. (family = "namada" => FirstValidator \in Containers) /\ (family = "polkadot" => <<"relay", 1>> \in Containers)
  BY <1>1, Members
<1>5. (p >= 3 /\ family = "namada" => file[FirstValidator] \in {CompleteGenesis, Torn})'
  BY <1>1, <1>2, <1>3, <1>4 DEF GenesisOK, FirstValidator
<1>6. (p >= 3 /\ family = "polkadot" => file[<<"relay", 1>>] = CompleteGenesis)'
  BY <1>1, <1>2, <1>3, <1>4 DEF GenesisOK
<1> QED  BY <1>1, <1>2, <1>5, <1>6 DEF GenesisOK

\* A goroutine puts nothing into the genesis that does not belong there.
LEMMA UnitWithin ==
  ASSUME NEW p, NEW R, StartInv(p, R), NEW t \in Containers, Changes(t, pc[t][1][1], pc[t][1][2])
  PROVE  Within'
<1> DEFINE n == pc[t][1][1]
           a == pc[t][1][2]
<1>1. /\ p \in 0..11 /\ family \in Families /\ May(family, p, t, pc[t][1]) /\ pc[t] # <<>>
      /\ t \in Procs
  BY UnitFacts, Members
<1>2. CompleteGenesis' = CompleteGenesis  BY DEF Changes, CompleteGenesis, Authorities
<1>3. /\ n = "append" => seen[t] = allocations /\ family = "penumbra" /\ a \in Validators
      /\ n = "replace" => seen[t] = defs /\ family = "thorchainFork" /\ t[2] \in Validators /\ a \in Range(NodeAccountFields)
      /\ n = "fund" => family = "thorchain" /\ a = 1
      /\ n = "define" => a \in Validators /\ family \in {"penumbra", "thorchain"}
      /\ n # "export"
  <2>1. n \in {"append", "replace"} => At(t, {n})  BY <1>1 DEF At, Busy, Name
  <2>2. (n = "append" => seen[t] = allocations) /\ (n = "replace" => seen[t] = defs)  BY <1>1, <2>1, AtChange
  <2>3. 1 \in Validators  BY <1>1, Complete
  <2> QED  BY <1>1, <2>2, <2>3, MayNames
<1>4. Within  BY DEF StartInv
<1>5. defs' \subseteq CompleteGenesis.defs
  <2>1. CASE n = "define"
    <3>1. defs' = defs \cup {<<a, a>>}  BY <2>1 DEF Changes
    <3>2. <<a, a>> \in CompleteGenesis.defs  BY <1>1, <1>3, <2>1, Complete
    <3> QED  BY <1>4, <3>1, <3>2 DEF Within
  <2>2. CASE n = "replace"
    <3>1. defs' = defs \cup {<<t[2], a>>}  BY <1>3, <2>2 DEF Changes
    <3>2. <<t[2], a>> \in CompleteGenesis.defs
      <4>1. CompleteGenesis.defs = Validators \X Range(NodeAccountFields)  BY <1>1, <1>3, <2>2, Complete
      <4> QED  BY <1>3, <2>2, <4>1
    <3> QED  BY <1>4, <3>1, <3>2 DEF Within
  <2>3. CASE n \notin {"define", "replace"}
    <3>1. defs' = defs  BY <2>3 DEF Changes
    <3> QED  BY <1>4, <3>1 DEF Within
  <2> QED  BY <2>1, <2>2, <2>3
<1>6. allocations' \subseteq CompleteGenesis.allocations
  <2>1. CASE n \in {"append", "fund"}
    <3>1. allocations' = allocations \cup {a}  BY <1>3, <2>1 DEF Changes
    <3>2. a \in CompleteGenesis.allocations
      <4>1. /\ CompleteGenesis.allocations =
                 Authorities \cup Range(Wallets) \cup {x \in {GasPayer} : family = "namada"}
                   \cup {x \in {Bond} : family = "thorchain"}
            /\ Authorities = Validators /\ 1 \in Validators
        BY <1>1, <1>3, <2>1, Complete
      <4> QED  BY <1>3, <2>1, <4>1
    <3> QED  BY <1>4, <3>1, <3>2 DEF Within
  <2>2. CASE n \notin {"append", "fund"}
    <3>1. allocations' = allocations  BY <2>2 DEF Changes
    <3> QED  BY <1>4, <3>1 DEF Within
  <2> QED  BY <2>1, <2>2
<1>7. paras' \subseteq CompleteGenesis.paras  BY <1>3, <1>4 DEF Changes, Within
<1> QED  BY <1>2, <1>5, <1>6, <1>7 DEF Within

\* What a goroutine has read is what it is to write.
LEMMA UnitBufOK ==
  ASSUME NEW p, NEW R, StartInv(p, R), NEW t \in Containers, Changes(t, pc[t][1][1], pc[t][1][2])
  PROVE  BufOK'
<1> DEFINE s == pc[t]
           n == pc[t][1][1]
<1>1. /\ p \in 0..11 /\ family \in Families /\ s \in Seq(Steps) /\ s # <<>> /\ Sorted(s)
      /\ May(family, p, t, s[1])
      /\ pc'[t] = Tail(s) /\ \A u \in Procs : u # t => pc'[u] = pc[u]
  BY UnitFacts
<1>2. /\ \A x : In(x, Tail(s)) => In(x, s)
      /\ \A x : In(x, s) => x = s[1] \/ In(x, Tail(s))
      /\ \A x : In(x, Tail(s)) /\ Rank(x[1]) # 0 /\ Rank(s[1][1]) # 0 => Rank(s[1][1]) < Rank(x[1])
      /\ \A st \in Steps : Must(family, p, t, st) /\ Rank(s[1][1]) # 0 /\ Rank(s[1][1]) < Rank(st[1]) => In(st, Tail(s))
  BY <1>1, UnitFacts, UnitTail
<1>3. /\ BufOK /\ GenesisOK(p) /\ DOMAIN buf = Procs
      /\ \A i \in 1..Len(s) : May(family, p, t, s[i])
  BY DEF StartInv, Types, Left
<1>4. CompleteGenesis' = CompleteGenesis /\ \A v : Key("genesis", v)' = Key("genesis", v)
  BY DEF Changes, CompleteGenesis, Authorities, Key
<1>5. /\ n \notin {"readGenesis", "modifyGenesis"}
      /\ n = "readArchive" => s[1] = <<"readArchive">> /\ family = "namada" /\ p = 7
      /\ n = "readKeyOfNode" => family = "penumbra" /\ p = 3
      /\ n = "readValidatorWallet" => family = "namada" /\ p = 7
  BY <1>1, MayNames
<1>6. /\ n = "readArchive" => buf' = [buf EXCEPT ![t] = file[FirstValidator]]
      /\ n \in {"readKeyOfNode", "readValidatorWallet"} =>
           \E d \in genesis.defs : d[1] = t[2] /\ buf' = [buf EXCEPT ![t] = Key("genesis", d[2])]
      /\ n \notin {"readArchive", "readKeyOfNode", "readValidatorWallet"} => buf' = buf
  BY <1>5 DEF Changes
<1>7. \A u \in Containers : u # t => buf'[u] = buf[u]
  <2>1. CASE n \in {"readKeyOfNode", "readValidatorWallet"}
    <3>1. PICK d \in genesis.defs : d[1] = t[2] /\ buf' = [buf EXCEPT ![t] = Key("genesis", d[2])]  BY <1>6, <2>1
    <3> QED  BY <1>3, <3>1, Members
  <2>2. CASE n \notin {"readKeyOfNode", "readValidatorWallet"}  BY <1>3, <1>6, <2>2, Members
  <2> QED  BY <2>1, <2>2
<1>8. ASSUME In(<<"writeArchive">>, Tail(s)), ~In(<<"readArchive">>, Tail(s))
      PROVE  buf'[t] \in {CompleteGenesis, Torn}
  <2>1. CASE n = "readArchive"
    <3>1. file[FirstValidator] \in {CompleteGenesis, Torn}  BY <1>3, <1>5, <2>1 DEF GenesisOK
    <3> QED  BY <1>3, <1>6, <2>1, <3>1, Members
  <2>2. CASE n \in {"readKeyOfNode", "readValidatorWallet"}
    <3>1. Rank(n) = 4 /\ Rank(<<"writeArchive">>[1]) = 3  BY <2>2 DEF Rank
    <3> QED  BY <1>2, <1>8, <3>1
  <2>3. CASE n \notin {"readArchive", "readKeyOfNode", "readValidatorWallet"}
    <3>1. s[1] # <<"readArchive">>  BY <2>3
    <3>2. In(<<"writeArchive">>, s) /\ ~In(<<"readArchive">>, s)  BY <1>2, <1>8, <3>1
    <3> QED  BY <1>3, <1>6, <2>3, <3>2 DEF BufOK
  <2> QED  BY <2>1, <2>2, <2>3
<1>9. ASSUME In(<<"writeKey">>, Tail(s)), ~In(<<"readKeyOfNode">>, Tail(s)), ~In(<<"readValidatorWallet">>, Tail(s))
      PROVE  buf'[t] = Key("genesis", t[2])
  <2>1. CASE n = "readArchive"
    <3>1. In(<<"writeKey">>, s)  BY <1>2, <1>9
    <3>2. May(family, p, t, <<"writeKey">>)  BY <1>3, <3>1 DEF In
    <3>3. <<"writeKey">>[1] = "writeKey"  OBVIOUS
    <3>4. t[1] = "val"  BY <1>1, <1>5, <2>1, <3>2, <3>3, MayNames
    <3>5. Must(family, p, t, <<"readValidatorWallet">>)  BY <1>5, <2>1, <3>4 DEF Must
    <3>6. Rank(n) = 1 /\ Rank(<<"readValidatorWallet">>[1]) = 4  BY <2>1 DEF Rank
    <3>7. <<"readValidatorWallet">> \in Steps
      <4>1. "readValidatorWallet" \in Names  BY DEF Names
      <4> QED  BY <4>1, InSteps
    <3> QED  BY <1>2, <1>9, <3>5, <3>6, <3>7
  <2>2. CASE n \in {"readKeyOfNode", "readValidatorWallet"}
    <3>1. PICK d \in genesis.defs : d[1] = t[2] /\ buf' = [buf EXCEPT ![t] = Key("genesis", d[2])]  BY <1>6, <2>2
    <3>2. genesis = CompleteGenesis /\ family # "thorchainFork"  BY <1>3, <1>5, <2>2 DEF GenesisOK
    <3>3. d[2] = d[1]  BY <1>1, <3>1, <3>2, Complete
    <3> QED  BY <1>3, <3>1, <3>3, Members
  <2>3. CASE n \notin {"readArchive", "readKeyOfNode", "readValidatorWallet"}
    <3>1. s[1] # <<"readKeyOfNode">> /\ s[1] # <<"readValidatorWallet">>
      <4>1. <<"readKeyOfNode">>[1] = "readKeyOfNode" /\ <<"readValidatorWallet">>[1] = "readValidatorWallet"  OBVIOUS
      <4> QED  BY <2>3, <4>1
    <3>2. In(<<"writeKey">>, s) /\ ~In(<<"readKeyOfNode">>, s) /\ ~In(<<"readValidatorWallet">>, s)  BY <1>2, <1>9, <3>1
    <3> QED  BY <1>3, <1>6, <2>3, <3>2 DEF BufOK
  <2> QED  BY <2>1, <2>2, <2>3
<1>10. ASSUME NEW u \in Containers
       PROVE  /\ In(<<"writeArchive">>, pc'[u]) /\ ~In(<<"readArchive">>, pc'[u]) => buf'[u] \in {CompleteGenesis, Torn}
              /\ In(<<"writeKey">>, pc'[u]) /\ ~In(<<"readKeyOfNode">>, pc'[u]) /\ ~In(<<"readValidatorWallet">>, pc'[u])
                   => buf'[u] = Key("genesis", u[2])
  <2>1. CASE u = t  BY <1>1, <1>8, <1>9, <2>1
  <2>2. CASE u # t  BY <1>1, <1>3, <1>7, <2>2, Members DEF BufOK
  <2> QED  BY <2>1, <2>2
<1> QED  BY <1>4, <1>10 DEF BufOK
\* A container is started when everything about its node is in place.
LEMMA UnitReady ==
  ASSUME NEW p, NEW R, StartInv(p, R), NEW t \in Containers, Changes(t, pc[t][1][1], pc[t][1][2]),
         pc[t][1][1] = "start", StartedAs(t) = "running",
         t[1] \in {"tm", "val", "full", "relay", "para", "thor"}
  PROVE  file[t] = CompleteGenesis
<1> DEFINE s == pc[t]
<1>1. /\ p \in 0..11 /\ family \in Families /\ s \in Seq(Steps) /\ s # <<>> /\ Sorted(s)
      /\ May(family, p, t, s[1])
  BY UnitFacts
<1>2. /\ \A x : In(x, s) => x = s[1] \/ In(x, Tail(s))
      /\ \A x : In(x, Tail(s)) /\ Rank(x[1]) # 0 /\ Rank(s[1][1]) # 0 => Rank(s[1][1]) < Rank(x[1])
  BY <1>1, UnitFacts, UnitTail
<1>3. family = "namada" => file[t] # Torn  BY DEF StartedAs
<1>4. \/ p = 8 /\ family = "penumbra" /\ t[1] = "tm"
      \/ p = 8 /\ family = "namada" /\ t[1] \in {"val", "full"}
      \/ p = 8 /\ family \in ThorFamilies /\ t[1] = "thor"
      \/ p = 8 /\ family = "polkadot" /\ t[1] = "relay"
      \/ p = 10 /\ family = "polkadot" /\ t[1] = "para"
  BY <1>1, MayNames
<1>5. /\ ItemsOK(p, R) /\ MainItemsOK(p, R) /\ GenesisOK(p)  BY DEF StartInv
<1>6. {"writeGenesis", "writeArchive", "copyRawSpec"} \subseteq Names  BY DEF Names
<1>7. CASE family = "penumbra" \/ family \in ThorFamilies
  <2> DEFINE x == <<"writeGenesis", t>>
  <2>1. x \in Steps
    <3>1. t \in Args  BY DEF Args
    <3> QED  BY <1>6, <3>1, InSteps
  <2>2. x[1] = "writeGenesis" /\ x[2] = t  OBVIOUS
  <2>3. MainMay(family, 5, x)
    <3>1. CASE family = "penumbra"
      <4>1. t[2] \in Nodes /\ t = <<"tm", t[2]>>  BY <1>4, <3>1, ContainerTags DEF ThorFamilies
      <4> QED  BY <3>1, <4>1 DEF MainMay
    <3>2. CASE family \in ThorFamilies
      <4>1. t[2] \in Nodes /\ t = <<"thor", t[2]>>  BY <1>4, <3>2, ContainerTags DEF ThorFamilies
      <4> QED  BY <3>2, <4>1 DEF MainMay
    <3> QED  BY <1>7, <3>1, <3>2
  <2> HIDE DEF x
  <2>4. MainMust(family, 5, x) /\ 5 \in 0..11 /\ 5 < p  BY <1>4, <1>7, <2>1, <2>2, <2>3 DEF MainMust, ThorFamilies
  <2>5. Effect(Main, x)  BY <1>5, <2>1, <2>4 DEF MainItemsOK
  <2> QED  BY <2>2, <2>5 DEF Effect
<1>8. CASE family = "namada"
  <2> DEFINE x == <<"writeArchive">>
  <2>1. x \in Steps /\ x[1] = "writeArchive"  BY <1>6, InSteps
  <2>2. Must(family, 7, t, x) /\ 7 \in 0..11 /\ 7 < p  BY <1>4, <1>8 DEF Must, ThorFamilies
  <2> HIDE DEF x
  <2>3. Effect(t, x)  BY <1>5, <2>1, <2>2 DEF ItemsOK
  <2> QED  BY <1>3, <1>8, <2>1, <2>3 DEF Effect
<1>9. CASE family = "polkadot" /\ t = <<"relay", 1>>  BY <1>4, <1>5, <1>9 DEF GenesisOK
<1>10. CASE family = "polkadot" /\ t # <<"relay", 1>>
  <2> DEFINE x == <<"copyRawSpec">>
  <2>1. x \in Steps /\ x[1] = "copyRawSpec"  BY <1>6, InSteps
  <2>2. t[1] = "relay" => t[2] # 1  BY <1>10, ContainerTags
  <2>3. Must(family, p, t, x)  BY <1>4, <1>10, <2>2 DEF Must, ThorFamilies
  <2>4. ~In(x, s)
    <3>1. Rank(s[1][1]) = 8 /\ Rank(x[1]) = 6  BY DEF Rank
    <3> QED  BY <1>2, <2>1, <3>1
  <2> HIDE DEF x
  <2>5. Effect(t, x) \/ Pending(p, R, t, x)  BY <1>1, <1>5, <2>1, <2>3 DEF ItemsOK
  <2>6. Effect(t, x)  BY <1>1, <2>4, <2>5 DEF Pending
  <2> QED  BY <2>1, <2>6 DEF Effect
<1> QED  BY <1>4, <1>7, <1>8, <1>9, <1>10

\* Containers run in their phase, from the complete genesis.
LEMMA ContainersKept ==
  ASSUME NEW p, NEW R, StartInv(p, R), Keeping(p),
         \A u \in Containers : /\ container'[u] = "running" /\ container[u] # "running"
                               /\ u[1] \in {"tm", "val", "full", "relay", "para", "thor"}
                               => file[u] = CompleteGenesis
  PROVE  ContainersOK(p)'
<1>1. ContainersOK(p) /\ family \in Families /\ p \in 0..11  BY DEF StartInv, Types, MainLeft
<1>2. family' = family /\ CompleteGenesis' = CompleteGenesis  BY DEF Keeping, CompleteGenesis, Authorities
<1>3. <<"create">>[1] = "create" /\ <<"start">>[1] = "start"  OBVIOUS
<1>4. ASSUME NEW u \in Containers, NEW x, May(family, p, u, x), x = <<"create">> \/ x = <<"start">>
      PROVE  u \in ContainersOf(family) /\ p >= Moment(family, u, x[1])
             /\ p >= Moment(family, u, "create")
  <2>1. \/ family \in ThorFamilies /\ u[1] \in {"side", "thor"}
        \/ family = "penumbra" /\ u[1] \in {"tm", "app", "client"}
        \/ family = "namada" /\ u[1] \in {"val", "full"}
        \/ family = "polkadot" /\ u[1] \in {"relay", "para"}
    BY <1>1, <1>3, <1>4, MayNames
  <2>2. u \in ContainersOf(family)  BY <2>1, ContainerTags DEF ThorFamilies
  <2>3. CASE x = <<"create">>  BY <1>1, <1>3, <1>4, <2>2, <2>3, MayNames DEF Moment
  <2>4. CASE x = <<"start">>  BY <1>1, <1>3, <1>4, <2>2, <2>4, MayNames DEF Moment
  <2> QED  BY <1>4, <2>2, <2>3, <2>4, <1>3
<1>5. ASSUME NEW u \in Containers
      PROVE  /\ container'[u] # "none" => u \in ContainersOf(family) /\ p >= Moment(family, u, "create")
             /\ container'[u] \in {"running", "exited"} => p >= Moment(family, u, "start")
             /\ container'[u] = "running" /\ u[1] \in {"tm", "val", "full", "relay", "para", "thor"} =>
                  file'[u] = CompleteGenesis
  <2>1. CASE container'[u] = container[u]
    <3>1. /\ container[u] # "none" => u \in ContainersOf(family) /\ p >= Moment(family, u, "create")
          /\ container[u] \in {"running", "exited"} => p >= Moment(family, u, "start")
          /\ container[u] = "running" /\ u[1] \in {"tm", "val", "full", "relay", "para", "thor"} =>
               file[u] = CompleteGenesis
      BY <1>1 DEF ContainersOK
    <3>2. ASSUME container[u] = "running", u[1] \in {"tm", "val", "full", "relay", "para", "thor"}
          PROVE  file'[u] = CompleteGenesis
      <4>1. p # 7  BY <1>1, <3>1, <3>2 DEF Moment
      <4>2. file'[u] \in {file[u], CompleteGenesis}  BY <4>1 DEF Keeping
      <4> QED  BY <3>1, <3>2, <4>2
    <3> QED  BY <2>1, <3>1, <3>2
  <2>2. CASE container'[u] = "created" /\ May(family, p, u, <<"create">>)  BY <1>4, <2>2
  <2>3. CASE container[u] # "running" /\ container'[u] = "running" /\ May(family, p, u, <<"start">>)
    <3>1. u \in ContainersOf(family) /\ p >= Moment(family, u, "start") /\ p >= Moment(family, u, "create")
      BY <1>3, <1>4, <2>3
    <3>2. ASSUME u[1] \in {"tm", "val", "full", "relay", "para", "thor"} PROVE file'[u] = CompleteGenesis
      <4>1. p # 7  BY <1>1, <3>1, <3>2 DEF Moment
      <4>2. file'[u] \in {file[u], CompleteGenesis}  BY <4>1 DEF Keeping
      <4> QED  BY <2>3, <3>2, <4>2
    <3> QED  BY <2>3, <3>1, <3>2
  <2>4. CASE container'[u] = "exited" /\ May(family, p, u, <<"start">>)
    <3>1. u \in ContainersOf(family) /\ p >= Moment(family, u, "start") /\ p >= Moment(family, u, "create")
      BY <1>3, <1>4, <2>4
    <3> QED  BY <2>4, <3>1
  <2> QED  BY <2>1, <2>2, <2>3, <2>4 DEF Keeping
<1> QED  BY <1>2, <1>5 DEF ContainersOK, Moment

\* Steps that were needed are done or still ahead,
LEMMA ItemsKept ==
  ASSUME NEW p, NEW R, NEW T, StartInv(p, R), Keeping(p),
         \A u \in Containers, st \in Steps :
           Must(family, p, u, st) /\ Pending(p, R, u, st) => Effect(u, st)' \/ Pending(p, T, u, st)',
         \A u \in Containers :
           container'[u] = "created" /\ container[u] = "running" /\ Must(family, p, u, <<"start">>)
             => In(<<"start">>, pc'[u]),
         \A st \in Steps :
           MainMust(family, p, st) /\ <<p, st>> \in R => Effect(Main, st)' \/ <<p, st>> \in T,
         result = "err" => result' = "err"
  PROVE  ItemsOK(p, T)' /\ MainItemsOK(p, T)'
<1>1. ItemsOK(p, R) /\ MainItemsOK(p, R) /\ family \in Families /\ p \in 0..11  BY DEF StartInv, Types, MainLeft
<1>2. family' = family  BY DEF Keeping
<1>3. ASSUME NEW q \in 0..11, NEW u \in Containers, NEW st \in Steps, Must(family, q, u, st)
      PROVE  /\ q < p => Effect(u, st)'
             /\ q = p => Effect(u, st)' \/ Pending(p, T, u, st)'
  <2>1. ASSUME q < p PROVE Effect(u, st)'
    <3>1. Effect(u, st) /\ q <= p  BY <1>1, <1>3, <2>1 DEF ItemsOK
    <3> QED  BY <1>1, <1>3, <2>1, <3>1, EffectKept
  <2>2. ASSUME q = p PROVE Effect(u, st)' \/ Pending(p, T, u, st)'
    <3>1. Effect(u, st) \/ Pending(p, R, u, st)  BY <1>1, <1>3, <2>2 DEF ItemsOK
    <3>2. CASE Pending(p, R, u, st)  BY <1>3, <2>2, <3>2
    <3>3. CASE Effect(u, st) /\ ~ (st = <<"start">> /\ container'[u] = "created")
      <4>1. q <= p  BY <1>1, <2>2
      <4> QED  BY <1>1, <1>3, <3>3, <4>1, EffectKept
    <3>4. CASE Effect(u, st) /\ st = <<"start">> /\ container'[u] = "created"
      <4>1. st[1] = "start"  BY <3>4
      <4>2. container[u] = "running"
        <5>1. family # "namada"  BY <1>3, <3>4 DEF Must, ThorFamilies
        <5> QED  BY <3>4, <4>1, <5>1 DEF Effect
      <4>3. In(st, pc'[u])  BY <1>3, <2>2, <3>4, <4>2
      <4> QED  BY <4>3 DEF Pending
    <3> QED  BY <3>1, <3>2, <3>3, <3>4
  <2> QED  BY <2>1, <2>2
<1>4. ASSUME NEW q \in 0..11, NEW st \in Steps, MainMust(family, q, st)
      PROVE  /\ q < p => Effect(Main, st)'
             /\ q = p => Effect(Main, st)' \/ <<p, st>> \in T \/ result' = "err"
  <2>1. ASSUME q <= p, Effect(Main, st) PROVE Effect(Main, st)'  BY <1>1, <1>4, <2>1, MainEffectKept
  <2>2. ASSUME q < p PROVE Effect(Main, st)'
    <3>1. q <= p  BY <1>1, <2>2
    <3>2. MainItemsOK(p, R)  BY <1>1
    <3>3. Effect(Main, st)  BY <1>4, <2>2, <3>2 DEF MainItemsOK
    <3> QED  BY <2>1, <3>1, <3>3
  <2>3. ASSUME q = p PROVE Effect(Main, st)' \/ <<p, st>> \in T \/ result' = "err"
    <3>1. Effect(Main, st) \/ <<p, st>> \in R \/ result = "err"  BY <1>1, <1>4, <2>3 DEF MainItemsOK
    <3>2. q <= p  BY <1>1, <2>3
    <3> QED  BY <1>4, <2>1, <2>3, <3>1, <3>2
  <2> QED  BY <2>2, <2>3
<1>5. ItemsOK(p, T)'  BY <1>2, <1>3 DEF ItemsOK
<1>6. MainItemsOK(p, T)'  BY <1>2, <1>4 DEF MainItemsOK
<1> QED  BY <1>5, <1>6

\* ... after a goroutine's step too.
LEMMA UnitItems ==
  ASSUME NEW p, NEW R, StartInv(p, R), NEW t \in Containers, Changes(t, pc[t][1][1], pc[t][1][2])
  PROVE  ItemsOK(p, R)' /\ MainItemsOK(p, R)'
<1> DEFINE s == pc[t]
           n == pc[t][1][1]
<1>1. /\ p \in 0..11 /\ family \in Families /\ s \in Seq(Steps) /\ s # <<>> /\ Sorted(s) /\ Linked(s)
      /\ Whole(family, p, t, s) /\ May(family, p, t, s[1])
      /\ pc'[t] = Tail(s) /\ \A u \in Procs : u # t => pc'[u] = pc[u]
  BY UnitFacts
<1>2. /\ \A x : In(x, s) => x = s[1] \/ In(x, Tail(s))
      /\ \A st \in Steps : Must(family, p, t, st) /\ Rank(s[1][1]) # 0 /\ Rank(s[1][1]) < Rank(st[1]) => In(st, Tail(s))
  BY <1>1, UnitTail
<1>3. Keeping(p) /\ \A st : st = s[1] => Effect(t, st)'  BY UnitKeeping
<1>4. UNCHANGED <<family, failed, result>> /\ DOMAIN container = Containers  BY DEF Changes, StartInv, Types
<1>5. ASSUME NEW u \in Containers, NEW st \in Steps, Must(family, p, u, st), Pending(p, R, u, st)
      PROVE  Effect(u, st)' \/ Pending(p, R, u, st)'
  <2>1. CASE u # t
    <3>1. pc'[u] = pc[u]  BY <1>1, <2>1, Members
    <3> QED  BY <1>4, <1>5, <3>1 DEF Pending
  <2>2. CASE u = t
    <3>1. In(st, s)  BY <1>1, <1>5, <2>2 DEF Pending
    <3>2. CASE st = s[1]  BY <1>3, <2>2, <3>2
    <3>3. CASE In(st, Tail(s))
      <4>1. In(st, pc'[u])  BY <1>1, <2>2, <3>3
      <4> QED  BY <4>1 DEF Pending
    <3> QED  BY <1>2, <3>1, <3>2, <3>3
  <2> QED  BY <2>1, <2>2
<1>6. ASSUME NEW u \in Containers, container'[u] = "created", container[u] = "running",
             Must(family, p, u, <<"start">>)
      PROVE  In(<<"start">>, pc'[u])
  <2>1. container' = CASE n = "create" -> [container EXCEPT ![t] = "created"]
                       [] n = "start" -> [container EXCEPT ![t] = StartedAs(t)]
                       [] OTHER -> container
    BY DEF Changes
  <2>2. u = t /\ n = "create"
    <3>1. StartedAs(t) # "created"  BY DEF StartedAs
    <3> QED  BY <1>4, <1>6, <2>1, <3>1
  <2>3. Rank(n) = 7 /\ Rank(<<"start">>[1]) = 8  BY <2>2 DEF Rank
  <2>4. <<"start">> \in Steps
    <3>1. "start" \in Names  BY DEF Names
    <3> QED  BY <3>1, InSteps
  <2> QED  BY <1>1, <1>2, <1>6, <2>2, <2>3, <2>4
<1> QED  BY <1>3, <1>4, <1>5, <1>6, ItemsKept

\* A goroutine's step keeps the invariant.
LEMMA UnitStep ==
  ASSUME NEW p, NEW R, StartInv(p, R), NEW t \in Containers, Changes(t, pc[t][1][1], pc[t][1][2])
  PROVE  StartInv(p, R)'
<1> DEFINE n == pc[t][1][1]
<1>1. /\ p \in 0..11 /\ family \in Families /\ May(family, p, t, pc[t][1])
      /\ t \in Procs /\ Main \in Procs /\ t # Main
  BY UnitFacts, Members
<1>2. (Types /\ MainLeft(p, R) /\ Left(p) /\ Fresh(p, R) /\ QuietOK(p) /\ NilOK(p))'  BY UnitControl
<1>3. (ItemsOK(p, R) /\ MainItemsOK(p, R))'  BY UnitItems
<1>4. Keeping(p)  BY UnitKeeping
<1>5. MutexOK'
  <2>1. (n = "fund" => family # "penumbra") /\ (n = "define" => family # "thorchainFork")  BY <1>1, MayNames
  <2> QED  BY <1>1, <2>1, MutexKept
<1>6. Within' /\ BufOK'  BY UnitWithin, UnitBufOK
<1>7. GenesisOK(p)'
  <2>1. n \notin {"generateGenesisFile", "initNetwork", "generateRaw"}  BY <1>1, MayNames
  <2>2. genesis' = genesis  BY <2>1 DEF Changes
  <2>3. n \notin {"readGenesis", "modifyGenesis"}  BY <1>1, MayNames
  <2>4. buf'[Main] = buf[Main]
    <3>1. CASE n = "readArchive"
      <4>1. buf' = [buf EXCEPT ![t] = file[FirstValidator]]  BY <3>1 DEF Changes
      <4> QED  BY <1>1, <4>1 DEF StartInv, Types
    <3>2. CASE n \in {"readKeyOfNode", "readValidatorWallet"}
      <4>1. PICK d \in genesis.defs : buf' = [buf EXCEPT ![t] = Key("genesis", d[2])]  BY <3>2 DEF Changes
      <4>2. DOMAIN buf = Procs  BY DEF StartInv, Types
      <4> QED  BY <1>1, <4>1, <4>2
    <3>3. CASE n \notin {"readArchive", "readKeyOfNode", "readValidatorWallet"}
      <4>1. buf' = buf  BY <2>3, <3>3 DEF Changes
      <4> QED  BY <4>1
    <3> QED  BY <3>1, <3>2, <3>3
  <2> QED  BY <1>4, <2>2, <2>4, GenesisKept
<1>8. ContainersOK(p)'
  <2>1. ASSUME NEW u \in Containers, container'[u] = "running", container[u] # "running",
               u[1] \in {"tm", "val", "full", "relay", "para", "thor"}
        PROVE  file[u] = CompleteGenesis
    <3>1. container' = CASE n = "create" -> [container EXCEPT ![t] = "created"]
                         [] n = "start" -> [container EXCEPT ![t] = StartedAs(t)]
                         [] OTHER -> container
      BY DEF Changes
    <3>2. DOMAIN container = Containers  BY DEF StartInv, Types
    <3>3. u = t /\ n = "start" /\ StartedAs(t) = "running"  BY <2>1, <3>1, <3>2
    <3> QED  BY <2>1, <3>3, UnitReady
  <2> QED  BY <1>4, <2>1, ContainersKept
<1> QED  BY <1>2, <1>3, <1>5, <1>6, <1>7, <1>8 DEF StartInv

----------------------------------------------------------------------------
(* A goroutine or Main fails, Start returns. *)

dataVars == <<family, localVars, genesisVars, volumeVars, container, clients, isRunning>>

\* A step that changes no data keeps what is about data.
LEMMA Still ==
  ASSUME NEW p, NEW R, StartInv(p, R), UNCHANGED dataVars
  PROVE  /\ Keeping(p) /\ Within' /\ GenesisOK(p)' /\ ContainersOK(p)'
         /\ family' = family /\ CompleteGenesis' = CompleteGenesis
         /\ mutex' = mutex /\ seen' = seen /\ buf' = buf /\ container' = container
         /\ defs' = defs /\ allocations' = allocations
         /\ p \in 0..11 /\ family \in Families
<1>1. /\ family' = family /\ mutex' = mutex /\ seen' = seen /\ buf' = buf
      /\ defs' = defs /\ allocations' = allocations /\ paras' = paras /\ genesis' = genesis
      /\ file' = file /\ spec' = spec /\ key' = key /\ container' = container
  BY DEF dataVars, localVars, genesisVars, volumeVars
<1>2. CompleteGenesis' = CompleteGenesis  BY <1>1 DEF CompleteGenesis, Authorities
<1>3. Keeping(p)  BY <1>1 DEF Keeping
<1>4. GenesisOK(p)'  BY <1>1, <1>3, GenesisKept
<1>5. ContainersOK(p)'  BY <1>1, <1>3, ContainersKept
<1>6. Within'  BY <1>1, <1>2 DEF StartInv, Within
<1> QED  BY <1>1, <1>2, <1>3, <1>4, <1>5, <1>6 DEF StartInv, Types, MainLeft

\* The script of a goroutine that is done.
LEMMA EmptyScript ==
  ASSUME NEW f, NEW p, NEW u
  PROVE  /\ <<>> \in Seq(Steps) /\ Sorted(<<>>) /\ Linked(<<>>) /\ Whole(f, p, u, <<>>)
         /\ 1..Len(<<>>) = {} /\ \A x : ~In(x, <<>>)
<1>1. <<>> \in Seq(Steps) /\ Len(<<>>) = 0 /\ 1..0 = {} /\ 2..0 = {}  OBVIOUS
<1> QED  BY <1>1 DEF Sorted, Linked, Whole, In

\* A goroutine's call fails.
LEMMA UnitFail ==
  ASSUME NEW p, NEW R, StartInv(p, R), NEW t \in Containers, Fail(t)
  PROVE  StartInv(p, R)'
<1>1. DOMAIN pc = Procs /\ t \in Procs /\ t # Main /\ Main \in Procs  BY Members DEF StartInv, Types
<1>2. /\ pc' = [pc EXCEPT ![t] = <<>>] /\ failed' = TRUE /\ result' = result /\ UNCHANGED dataVars
  BY <1>1 DEF Fail, dataVars
<1>3. pc'[t] = <<>> /\ \A u \in Procs : u # t => pc'[u] = pc[u]  BY <1>1, <1>2
<1>4. /\ Keeping(p) /\ Within' /\ GenesisOK(p)' /\ ContainersOK(p)'
      /\ family' = family /\ CompleteGenesis' = CompleteGenesis
      /\ mutex' = mutex /\ seen' = seen /\ buf' = buf /\ container' = container
      /\ defs' = defs /\ allocations' = allocations
  BY <1>2, Still
<1>5. MainLeft(p, R)'
  <2>1. pc'[Main] = pc[Main]  BY <1>1, <1>3
  <2> QED  BY <1>2, <1>4, <2>1 DEF StartInv, MainLeft
<1>6. Left(p)'
  <2>1. ASSUME NEW u \in Containers
        PROVE  /\ pc'[u] \in Seq(Steps) /\ Sorted(pc'[u]) /\ Linked(pc'[u]) /\ Whole(family, p, u, pc'[u])
               /\ \A i \in 1..Len(pc'[u]) : May(family, p, u, pc'[u][i])
    <3>1. CASE u # t  BY <1>3, <3>1, Members DEF StartInv, Left
    <3>2. CASE u = t
      <4>1. pc'[u] = <<>>  BY <1>3, <3>2
      <4> QED  BY <4>1, EmptyScript
    <3> QED  BY <3>1, <3>2
  <2> QED  BY <1>4, <2>1 DEF Left
<1>7. ASSUME NEW u \in Containers, NEW x, In(x, pc'[u]) PROVE u # t /\ In(x, pc[u]) /\ pc'[u] = pc[u]
  BY <1>3, <1>7, EmptyScript, Members
<1>8. Fresh(p, R)'
  <2>1. ASSUME NEW u \in Containers, <<p, u>> \in R, result' # "err" PROVE pc'[u] = <<>>
    BY <1>2, <1>3, <2>1, Members DEF StartInv, Fresh
  <2> QED  BY <2>1 DEF Fresh
<1>9. ItemsOK(p, R)' /\ MainItemsOK(p, R)'
  <2>1. ASSUME NEW u \in Containers, NEW st \in Steps, Pending(p, R, u, st) PROVE Pending(p, R, u, st)'
    <3>1. CASE u = t  BY <1>2, <1>3, <3>1 DEF Pending
    <3>2. CASE u # t
      <4>1. pc'[u] = pc[u]  BY <1>3, <3>2, Members
      <4> QED  BY <1>2, <2>1, <4>1 DEF Pending
    <3> QED  BY <3>1, <3>2
  <2> QED  BY <1>2, <1>4, <2>1, ItemsKept
<1>10. MutexOK'
  <2>1. ASSUME NEW u \in Procs, pc'[u] # <<>> PROVE pc'[u] = pc[u]  BY <1>3, <2>1
  <2> QED  BY <1>4, <2>1 DEF StartInv, MutexOK, At, Busy, Name
<1>11. BufOK'
  <2>1. \A v : Key("genesis", v)' = Key("genesis", v)  BY DEF Key
  <2>2. ASSUME NEW u \in Containers
        PROVE  /\ In(<<"writeArchive">>, pc'[u]) /\ ~In(<<"readArchive">>, pc'[u]) => buf'[u] \in {CompleteGenesis, Torn}
               /\ In(<<"writeKey">>, pc'[u]) /\ ~In(<<"readKeyOfNode">>, pc'[u]) /\ ~In(<<"readValidatorWallet">>, pc'[u])
                    => buf'[u] = Key("genesis", u[2])
    BY <1>4, <1>7 DEF StartInv, BufOK
  <2> QED  BY <1>4, <2>1, <2>2 DEF BufOK
<1>12. QuietOK(p)' /\ NilOK(p)'
  <2>1. Quieted(p) => Quieted(p)'  BY <1>3, <1>4, Members DEF Quieted
  <2> QED  BY <1>2, <1>4, <2>1 DEF StartInv, QuietOK, NilOK
<1>13. Types'
  <2>1. /\ DOMAIN pc' = DOMAIN pc /\ UNCHANGED <<family, seen, buf, file, spec, key, container, result>>
    BY <1>2 DEF dataVars, localVars, genesisVars, volumeVars, chainVars
  <2> QED  BY <2>1 DEF StartInv, Types
<1> QED  BY <1>4, <1>5, <1>6, <1>8, <1>9, <1>10, <1>11, <1>12, <1>13 DEF StartInv

\* Steps of Main that leave the goroutines as they are.
LEMMA MainOnly ==
  ASSUME NEW p, NEW R, NEW T, StartInv(p, R), family' = family, failed => failed',
         result' # "err" => T \subseteq R,
         \A u \in Containers : pc'[u] = pc[u],
         result = "err" => result' = "err"
  PROVE  /\ Left(p)' /\ Fresh(p, T)'
         /\ \A u \in Containers, st \in Steps :
              Pending(p, R, u, st) /\ (<<p, u>> \in R => <<p, u>> \in T) => Pending(p, T, u, st)'
  BY DEF StartInv, Left, Fresh, Pending

\* Main's return keeps the invariant when no goroutine but a copy of a spec is at work:
LEMMA MainStops ==
  ASSUME NEW p, NEW R, StartInv(p, R), UNCHANGED dataVars, failed => failed',
         pc'[Main] = <<>>, DOMAIN pc' = DOMAIN pc, \A u \in Containers : pc'[u] = pc[u],
         result' \in {"err", "nil"}, result = "err" => result' = "err",
         result' = "nil" => pc[Main] = <<>>,
         Quieted(p)
  PROVE  StartInv(p, R)'
<1>1. /\ Keeping(p) /\ Within' /\ GenesisOK(p)' /\ ContainersOK(p)'
      /\ family' = family /\ CompleteGenesis' = CompleteGenesis
      /\ mutex' = mutex /\ seen' = seen /\ buf' = buf /\ container' = container
      /\ defs' = defs /\ allocations' = allocations
  BY Still
<1>2. /\ Left(p)' /\ Fresh(p, R)'
      /\ \A u \in Containers, st \in Steps : Pending(p, R, u, st) => Pending(p, R, u, st)'
  BY <1>1, MainOnly
<1>3. ItemsOK(p, R)' /\ MainItemsOK(p, R)'  BY <1>1, <1>2, ItemsKept
<1>4. result' = "nil" =>
        Leads(family, pc[Main], p, LastPhase(family), R) /\ Linked(pc[Main]) /\ Foreseen(family, p, R)
  BY DEF StartInv, MainLeft
<1>5. MainLeft(p, R)'
  <2>1. /\ p \in 0..11
        /\ result' # "pending" => pc'[Main] = <<>>
        /\ result' # "err" =>
             Leads(family, pc'[Main], p, LastPhase(family), R) /\ Linked(pc'[Main]) /\ Foreseen(family, p, R)
    BY <1>4 DEF StartInv, MainLeft
  <2> QED  BY <1>1, <2>1 DEF MainLeft
<1>6. NilOK(p)'
  <2>1. ASSUME result' = "nil" PROVE p = LastPhase(family)  BY <1>4, <2>1, LeadsNil
  <2> QED  BY <1>1, <2>1 DEF NilOK
<1>7. MutexOK'
  <2>1. ASSUME NEW u \in Procs, pc'[u] # <<>> PROVE pc'[u] = pc[u]  BY <2>1, Members
  <2> QED  BY <1>1, <2>1 DEF StartInv, MutexOK, At, Busy, Name
<1>8. BufOK'
  <2>1. \A v : Key("genesis", v)' = Key("genesis", v)  BY DEF Key
  <2> QED  BY <1>1, <2>1 DEF StartInv, BufOK
<1>9. QuietOK(p)'  BY <1>1 DEF QuietOK, Quieted
<1>10. Types'
  <2>1. UNCHANGED <<family, seen, buf, file, spec, key, container>>
    BY DEF dataVars, localVars, genesisVars, volumeVars
  <2> QED  BY <2>1 DEF StartInv, Types
<1> QED  BY <1>1, <1>2, <1>3, <1>5, <1>6, <1>7, <1>8, <1>9, <1>10 DEF StartInv

\* Main goes on by itself only when no goroutine has anything to do.
LEMMA NoMay ==
  ASSUME NEW f \in Families, NEW p, NEW x, NEW r, <<p, x, r>> \in Turns(f), x[1] # "wait",
         NEW u \in Containers, NEW st
  PROVE  ~May(f, p, u, st)
<1>1. /\ p \in 0..11
      /\ x[1] \in {"generateGenesisFile", "readGenesis", "hashes", "separator", "waitForBlocks", "initNetwork",
                   "generateRaw", "preGenesis", "modifyGenesis"}
      /\ x[1] = "generateGenesisFile" => f = "penumbra" /\ p = 2
      /\ x[1] = "readGenesis" => f \in {"penumbra", "polkadot"} /\ p = 4
      /\ x[1] = "initNetwork" => f = "namada" /\ p = 2
      /\ x[1] = "generateRaw" => f = "polkadot" /\ p = 2
      /\ x[1] = "preGenesis" => f = "thorchainFork" /\ p = 2
      /\ x[1] = "modifyGenesis" => f \in ThorFamilies /\ p \in {2, 4}
      /\ x[1] \in {"hashes", "separator", "waitForBlocks"} => p \in {5, 6, 9} /\ (p = 6 => f = "penumbra")
  BY TurnNames
<1>2. CASE f = "penumbra"
  <2>1. p \in {2, 4, 5, 6, 9}  BY <1>1, <1>2 DEF ThorFamilies
  <2> QED  BY <1>2, <2>1 DEF May, PenumbraMay, ThorFamilies
<1>3. CASE f = "namada"
  <2>1. p \in {2, 5, 9}  BY <1>1, <1>3 DEF ThorFamilies
  <2> QED  BY <1>3, <2>1 DEF May, NamadaMay, ThorFamilies
<1>4. CASE f = "polkadot"
  <2>1. p \in {2, 4, 5, 9}  BY <1>1, <1>4 DEF ThorFamilies
  <2> QED  BY <1>4, <2>1 DEF May, PolkadotMay, ThorFamilies
<1>5. CASE f \in ThorFamilies
  <2>1. p \in {2, 4, 5, 9}  BY <1>1, <1>5 DEF ThorFamilies
  <2> QED  BY <1>5, <2>1 DEF May, ThorchainMay, ThorFamilies
<1> QED  BY <1>2, <1>3, <1>4, <1>5 DEF May

\* The phases in which goroutines are at work.
LEMMA BusyPhases ==
  ASSUME NEW p, NEW R, StartInv(p, R), NEW u \in Containers, pc[u] # <<>>
  PROVE  /\ May(family, p, u, pc[u][1])
         /\ p \in {0, 1, 3, 6, 7, 8, 10}
<1>1. /\ family \in Families /\ p \in 0..11 /\ pc[u] \in Seq(Steps)
      /\ \A i \in 1..Len(pc[u]) : May(family, p, u, pc[u][i])
  BY DEF StartInv, Types, MainLeft, Left
<1>2. 1 \in 1..Len(pc[u])  BY <1>1
<1>3. May(family, p, u, pc[u][1])  BY <1>1, <1>2
<1> DEFINE st == pc[u][1]
<1> HIDE DEF st
<1>4. ASSUME May(family, p, u, st) PROVE p \in {0, 1, 3, 6, 7, 8, 10}
  <2>1. CASE family = "penumbra"  BY <1>4, <2>1 DEF May, PenumbraMay, ThorFamilies
  <2>2. CASE family = "namada"  BY <1>4, <2>2 DEF May, NamadaMay, ThorFamilies
  <2>3. CASE family = "polkadot"  BY <1>4, <2>3 DEF May, PolkadotMay, ThorFamilies
  <2>4. CASE family \in ThorFamilies  BY <1>4, <2>4 DEF May, ThorchainMay, ThorFamilies
  <2> QED  BY <1>4, <2>1, <2>2, <2>3, <2>4 DEF May
<1> QED  BY <1>3, <1>4 DEF st

\* While goroutines are at work no call of Main's can fail, but for polkadot's between its parachains.
LEMMA MainQuiet ==
  ASSUME NEW p, NEW R, StartInv(p, R), pc[Main] # <<>>, pc[Main][1][1] \notin Infallible
  PROVE  Quieted(p)
<1> SUFFICES ASSUME ~(family = "polkadot" /\ p = 0), NEW u \in Containers, pc[u] # <<>> PROVE FALSE
  BY DEF Quieted
<1>1. May(family, p, u, pc[u][1]) /\ p \in {0, 1, 3, 6, 7, 8, 10}  BY BusyPhases
<1> DEFINE st == pc[Main][1]
<1>2. /\ p \in 0..11 /\ family \in Families
      /\ MainMay(family, p, st) \/ st[1] = "go" \/ \E r \in 0..11 : <<p, st, r>> \in Turns(family)
  BY MainFacts
<1>3. st[1] \notin {"go", "wait", "lock", "append"}  BY DEF Infallible
<1> HIDE DEF st
<1>4. CASE MainMay(family, p, st)
  <2>1. p \in {1, 5, 2, 9, 0}  BY <1>2, <1>4, MainNames
  <2>2. p \notin {0, 1}  BY <1>2, <1>3, <1>4, MainNames
  <2> QED  BY <1>1, <2>1, <2>2
<1>5. ASSUME NEW r \in 0..11, <<p, st, r>> \in Turns(family) PROVE FALSE
  BY <1>1, <1>2, <1>3, <1>5, NoMay
<1> QED  BY <1>2, <1>3, <1>4, <1>5

\* ... when a call of its own fails,
LEMMA MainFail ==
  ASSUME NEW p, NEW R, StartInv(p, R), Fail(Main)
  PROVE  StartInv(p, R)'
<1>1. DOMAIN pc = Procs /\ Main \in Procs  BY Members DEF StartInv, Types
<1>2. /\ pc[Main] # <<>> /\ pc[Main][1][1] \notin Infallible
      /\ pc' = [pc EXCEPT ![Main] = <<>>] /\ result' = "err" /\ UNCHANGED dataVars
  BY DEF Fail, Busy, Name, dataVars
<1>3. Quieted(p)  BY <1>2, MainQuiet
<1>4. pc'[Main] = <<>> /\ DOMAIN pc' = DOMAIN pc /\ \A u \in Containers : pc'[u] = pc[u]  BY <1>1, <1>2, Members
<1>5. failed => failed'  BY DEF Fail
<1> QED  BY <1>2, <1>3, <1>4, <1>5, MainStops

\* ... when Start returns nil,
LEMMA Returns ==
  ASSUME NEW p, NEW R, StartInv(p, R), Return
  PROVE  StartInv(p, R)'
<1>1. pc[Main] = <<>> /\ result = "pending" /\ result' = "nil" /\ UNCHANGED <<pc, failed>> /\ UNCHANGED dataVars
  BY DEF Return, Busy, dataVars, chainVars
<1>2. Leads(family, <<>>, p, LastPhase(family), R)  BY <1>1 DEF StartInv, MainLeft
<1>3. p \in {9, 11}  BY <1>2, LeadsNil DEF LastPhase
<1>4. Quieted(p)  BY <1>3, BusyPhases DEF Quieted
<1> QED  BY <1>1, <1>4, MainStops

\* ... and when it returns the group's error.
LEMMA GroupFails ==
  ASSUME NEW p, NEW R, StartInv(p, R), WaitGroup, failed
  PROVE  StartInv(p, R)'
<1>1. DOMAIN pc = Procs /\ Main \in Procs  BY Members DEF StartInv, Types
<1>2. /\ \A u \in Containers : pc[u] = <<>>
      /\ pc' = [pc EXCEPT ![Main] = <<>>] /\ result' = "err" /\ UNCHANGED failed /\ UNCHANGED dataVars
  BY DEF WaitGroup, Busy, dataVars, chainVars
<1>3. Quieted(p)  BY <1>2 DEF Quieted
<1>4. pc'[Main] = <<>> /\ DOMAIN pc' = DOMAIN pc /\ \A u \in Containers : pc'[u] = pc[u]  BY <1>1, <1>2, Members
<1> QED  BY <1>2, <1>3, <1>4, MainStops

----------------------------------------------------------------------------
(* Main's steps within a phase. *)

\* A step is neither the start of a goroutine nor a container.
LEMMA StepsNames ==
  ASSUME NEW st \in Steps
  PROVE  st[1] \in Names /\ st[1] # "go" /\ st \notin Containers
<1>1. st[1] \in Names
  <2>1. CASE st \in {<<n>> : n \in Names}
    <3>1. PICK n \in Names : st = <<n>>  BY <2>1
    <3> QED  BY <3>1
  <2>2. CASE st \in Names \X Args  BY <2>2
  <2> QED  BY <2>1, <2>2 DEF Steps
<1>2. st[1] # "go" /\ st[1] \notin {"tm", "app", "client", "val", "full", "relay", "para", "thor", "side"}
  BY <1>1 DEF Names, Calls
<1> QED  BY <1>1, <1>2, ContainerTags

\* What Main has done in a phase is not foreseen for later ones.
LEMMA ForeseenLess ==
  ASSUME NEW f, NEW p \in 0..11, NEW R, NEW x, Foreseen(f, p, R), x[1] = p
  PROVE  Foreseen(f, p, R \ {x})
<1> SUFFICES ASSUME NEW q \in 0..11, q > p
             PROVE  /\ \A u \in Containers, st \in Steps : Must(f, q, u, st) => <<q, u>> \in R \ {x}
                    /\ \A st \in Steps : MainMust(f, q, st) => <<q, st>> \in R \ {x}
  BY DEF Foreseen
<1>1. \A y : <<q, y>> # x
  <2>1. \A y : <<q, y>>[1] = q  OBVIOUS
  <2> QED  BY <2>1
<1> QED  BY <1>1 DEF Foreseen

\* A goroutine's script begins with a read before what it writes.
LEMMA FitsBuffers ==
  ASSUME NEW f \in Families, NEW p \in 0..11, NEW u \in Containers, NEW sc, Fits(f, p, u, sc)
  PROVE  /\ In(<<"writeArchive">>, sc) => In(<<"readArchive">>, sc)
         /\ In(<<"writeKey">>, sc) => In(<<"readKeyOfNode">>, sc) \/ In(<<"readValidatorWallet">>, sc)
<1>1. /\ \A i \in 1..Len(sc) : May(f, p, u, sc[i])
      /\ \A st \in Steps : Must(f, p, u, st) => In(st, sc)
  BY DEF Fits
<1>2. {"readArchive", "readKeyOfNode", "readValidatorWallet"} \subseteq Names  BY DEF Names
<1>3. <<"readArchive">> \in Steps /\ <<"readKeyOfNode">> \in Steps /\ <<"readValidatorWallet">> \in Steps
  BY <1>2, InSteps
<1>4. ASSUME In(<<"writeArchive">>, sc) PROVE In(<<"readArchive">>, sc)
  <2>1. May(f, p, u, <<"writeArchive">>)  BY <1>1, <1>4 DEF In
  <2>2. <<"writeArchive">>[1] = "writeArchive"  OBVIOUS
  <2>3. f = "namada" /\ p = 7 /\ u[1] \in {"val", "full"}  BY <2>1, <2>2, MayNames
  <2>4. Must(f, p, u, <<"readArchive">>)  BY <2>3 DEF Must
  <2> QED  BY <1>1, <1>3, <2>4
<1>5. ASSUME In(<<"writeKey">>, sc) PROVE In(<<"readKeyOfNode">>, sc) \/ In(<<"readValidatorWallet">>, sc)
  <2>1. May(f, p, u, <<"writeKey">>)  BY <1>1, <1>5 DEF In
  <2>2. <<"writeKey">>[1] = "writeKey"  OBVIOUS
  <2>3. \/ f = "penumbra" /\ p = 3 /\ u[1] = "tm" /\ u[2] \in Validators
        \/ f = "namada" /\ p = 7 /\ u[1] = "val"
    BY <2>1, <2>2, MayNames
  <2>4. Must(f, p, u, <<"readKeyOfNode">>) \/ Must(f, p, u, <<"readValidatorWallet">>)  BY <2>3 DEF Must
  <2> QED  BY <1>1, <1>3, <2>4
<1> QED  BY <1>4, <1>5

\* Main begins a goroutine.
LEMMA Spawns ==
  ASSUME NEW p, NEW R, StartInv(p, R), Spawn
  PROVE  \E T : StartInv(p, T)'
<1>1. /\ DOMAIN pc = Procs /\ Main \in Procs /\ Main \notin Containers /\ Containers \subseteq Procs
      /\ \A t \in Procs : t = Main \/ t \in Containers
  BY Members DEF StartInv, Types
<1>2. pc[Main] # <<>> /\ pc[Main][1][1] = "go"  BY DEF Spawn, At, Busy, Name
<1> SUFFICES ASSUME NEW x, x = pc[Main][1] PROVE \E T : StartInv(p, T)'
  OBVIOUS
<1> DEFINE w == x[2]
           sc == x[3]
           T == R \ {<<p, w>>}
<1>3. /\ p \in 0..11 /\ family \in Families /\ result = "pending"
      /\ pc[Main] \in Seq(Steps \cup GoSteps) /\ Linked(pc[Main]) /\ Foreseen(family, p, R)
      /\ x \in GoSteps /\ Fits(family, p, w, sc)
      /\ Leads(family, Tail(pc[Main]), p, LastPhase(family), T)
  <2>1. \A r : ~ (<<p, x, r>> \in Turns(family) /\ x[1] # "go")  BY <1>2
  <2>2. x \notin Steps  BY <1>2, StepsNames
  <2> QED  BY <1>2, <2>1, <2>2, MainFacts
<1>4. w \in Containers /\ w # Main  BY <1>1, <1>3 DEF GoSteps
<1>5. /\ pc' = [pc EXCEPT ![Main] = Tail(@), ![w] = sc] /\ UNCHANGED <<failed, result>> /\ UNCHANGED dataVars
  BY DEF Spawn, dataVars, chainVars, Arg
<1>6. /\ pc'[Main] = Tail(pc[Main]) /\ pc'[w] = sc /\ DOMAIN pc' = DOMAIN pc
      /\ \A u \in Containers : u # w => pc'[u] = pc[u]
  BY <1>1, <1>4, <1>5
<1>7. /\ sc \in Seq(Steps) /\ Sorted(sc) /\ Linked(sc) /\ (sc # <<>> => sc[1][1] \notin {"append", "replace"})
      /\ \A i \in 1..Len(sc) : May(family, p, w, sc[i])
      /\ \A st \in Steps : Must(family, p, w, st) => In(st, sc)
  BY <1>3 DEF Fits, Closed
<1>8. /\ In(<<"writeArchive">>, sc) => In(<<"readArchive">>, sc)
      /\ In(<<"writeKey">>, sc) => In(<<"readKeyOfNode">>, sc) \/ In(<<"readValidatorWallet">>, sc)
  BY <1>3, <1>4, FitsBuffers
<1> HIDE DEF w, sc
<1>9. /\ Keeping(p) /\ Within' /\ GenesisOK(p)' /\ ContainersOK(p)'
      /\ family' = family /\ CompleteGenesis' = CompleteGenesis
      /\ mutex' = mutex /\ seen' = seen /\ buf' = buf /\ container' = container
      /\ defs' = defs /\ allocations' = allocations
  BY <1>5, Still
<1>10. MainLeft(p, T)'
  <2>1. Linked(Tail(pc[Main]))  BY <1>2, <1>3, LinkedTail
  <2>2. Foreseen(family, p, T)
    <3>1. <<p, w>>[1] = p  OBVIOUS
    <3> QED  BY <1>3, <3>1, ForeseenLess
  <2>3. /\ p \in 0..11 /\ result' = "pending"
        /\ Leads(family, pc'[Main], p, LastPhase(family), T) /\ Linked(pc'[Main]) /\ Foreseen(family, p, T)
    BY <1>3, <1>5, <1>6, <2>1, <2>2
  <2> QED  BY <1>9, <2>3 DEF MainLeft
<1>11. Left(p)'
  <2>1. ASSUME NEW u \in Containers
        PROVE  /\ pc'[u] \in Seq(Steps) /\ Sorted(pc'[u]) /\ Linked(pc'[u]) /\ Whole(family, p, u, pc'[u])
               /\ \A i \in 1..Len(pc'[u]) : May(family, p, u, pc'[u][i])
    <3>1. CASE u # w  BY <1>6, <3>1 DEF StartInv, Left
    <3>2. CASE u = w
      <4>1. Whole(family, p, w, sc)  BY <1>7 DEF Whole
      <4> QED  BY <1>6, <1>7, <3>2, <4>1
    <3> QED  BY <3>1, <3>2
  <2> QED  BY <1>9, <2>1 DEF Left
<1>12. Fresh(p, T)'
  <2>1. ASSUME NEW u \in Containers, <<p, u>> \in T, result' # "err" PROVE pc'[u] = <<>>
    <3>1. u # w /\ <<p, u>> \in R  BY <2>1
    <3>2. pc[u] = <<>>  BY <1>5, <2>1, <3>1 DEF StartInv, Fresh
    <3> QED  BY <1>6, <3>1, <3>2
  <2> QED  BY <2>1 DEF Fresh
<1>13. ItemsOK(p, T)' /\ MainItemsOK(p, T)'
  <2>1. ASSUME NEW u \in Containers, NEW st \in Steps, Must(family, p, u, st), Pending(p, R, u, st)
        PROVE  Pending(p, T, u, st)'
    <3>1. CASE u = w  BY <1>6, <1>7, <2>1, <3>1 DEF Pending
    <3>2. CASE u # w
      <4>1. pc'[u] = pc[u]  BY <1>6, <3>2
      <4>2. <<p, u>> \in R => <<p, u>> \in T
        <5>1. <<p, u>> # <<p, w>>  BY <3>2
        <5> QED  BY <5>1
      <4> QED  BY <1>5, <2>1, <4>1, <4>2 DEF Pending
    <3> QED  BY <3>1, <3>2
  <2>2. ASSUME NEW st \in Steps, <<p, st>> \in R PROVE <<p, st>> \in T
    <3>1. st # w  BY <1>4, StepsNames
    <3>2. <<p, st>> # <<p, w>>  BY <3>1
    <3> QED  BY <2>2, <3>2
  <2> HIDE DEF T
  <2> QED  BY <1>5, <1>9, <2>1, <2>2, ItemsKept
<1>14. MutexOK'
  <2>1. pc'[Main] # <<>> => pc'[Main][1][1] \notin {"append", "replace"}
    BY <1>2, <1>3, <1>6, LinkedTail
  <2>2. pc'[w] # <<>> => pc'[w][1][1] \notin {"append", "replace"}  BY <1>6, <1>7
  <2>3. ASSUME NEW u \in Procs, u # Main, u # w PROVE pc'[u] = pc[u]  BY <1>1, <1>6, <2>3
  <2> QED  BY <1>9, <2>1, <2>2, <2>3 DEF StartInv, MutexOK, At, Busy, Name
<1>15. BufOK'
  <2>1. \A v : Key("genesis", v)' = Key("genesis", v)  BY DEF Key
  <2>2. ASSUME NEW u \in Containers
        PROVE  /\ In(<<"writeArchive">>, pc'[u]) /\ ~In(<<"readArchive">>, pc'[u]) => buf'[u] \in {CompleteGenesis, Torn}
               /\ In(<<"writeKey">>, pc'[u]) /\ ~In(<<"readKeyOfNode">>, pc'[u]) /\ ~In(<<"readValidatorWallet">>, pc'[u])
                    => buf'[u] = Key("genesis", u[2])
    <3>1. CASE u = w  BY <1>6, <1>8, <3>1
    <3>2. CASE u # w
      <4>1. pc'[u] = pc[u]  BY <1>6, <3>2
      <4> QED  BY <1>9, <4>1 DEF StartInv, BufOK
    <3> QED  BY <3>1, <3>2
  <2> QED  BY <1>9, <2>1, <2>2 DEF BufOK
<1>16. QuietOK(p)' /\ NilOK(p)'  BY <1>3, <1>5 DEF QuietOK, NilOK
<1>17. Types'
  <2>1. UNCHANGED <<family, seen, buf, file, spec, key, container>>
    BY <1>5 DEF dataVars, localVars, genesisVars, volumeVars, chainVars
  <2> QED  BY <1>5, <1>6, <2>1 DEF StartInv, Types
<1> HIDE DEF T
<1>18. StartInv(p, T)'
  BY <1>9, <1>10, <1>11, <1>12, <1>13, <1>14, <1>15, <1>16, <1>17 DEF StartInv
<1> QED  BY <1>18

\* What Main's own step in a phase does to the data.
LEMMA MainKeeping ==
  ASSUME NEW p, NEW R, StartInv(p, R), NEW x, x = pc[Main][1], Changes(Main, x[1], x[2]), MainMay(family, p, x)
  PROVE  /\ Keeping(p) /\ Within' /\ Effect(Main, x)'
         /\ container' = container /\ genesis' = genesis /\ buf' = buf
<1> DEFINE n == x[1]
           a == x[2]
<1>1. /\ p \in 0..11 /\ family \in Families /\ Main \in Procs /\ pc[Main] # <<>>
  BY Members DEF StartInv, Types, MainLeft, Changes
<1>2. /\ DOMAIN seen = Procs /\ DOMAIN buf = Procs /\ DOMAIN file = Containers
  BY DEF StartInv, Types
<1>3. UNCHANGED family /\ CompleteGenesis' = CompleteGenesis  BY DEF Changes, CompleteGenesis, Authorities
<1>4. n \in Calls \cup {"define", "fund", "lock", "append", "export", "writeGenesis", "setRunning"}
  BY <1>1, MainNames
<1>5. (n = "append" => seen[Main] = allocations) /\ n # "replace"
  BY <1>1, <1>4, AtChange DEF At, Busy, Name, Calls
<1>6. /\ n \notin {"create", "start", "initFiles", "writeKey", "copySpec", "copyRawSpec", "openArchive", "writeArchive",
                   "initNetwork", "generateRaw", "generateGenesisFile", "readGenesis", "modifyGenesis", "readArchive",
                   "readKeyOfNode", "readValidatorWallet"}
  BY <1>4 DEF Calls
<1>7. /\ container' = container /\ genesis' = genesis /\ buf' = buf /\ spec' = spec /\ key' = key
      /\ n # "writeGenesis" => file' = file
      /\ n = "writeGenesis" => file' = [file EXCEPT ![a] = buf[Main]]
  BY <1>6 DEF Changes
<1>8. /\ defs' = IF n = "define" THEN defs \cup {<<a, a>>} ELSE defs
      /\ allocations' = IF n \in {"append", "fund"} THEN allocations \cup {a} ELSE allocations
      /\ paras' = IF n = "export" THEN paras \cup {a} ELSE paras
  BY <1>5 DEF Changes
<1>9. /\ n = "writeGenesis" => a \in Containers /\ file'[a] = CompleteGenesis
      /\ \A u \in Containers : file'[u] \in {file[u], CompleteGenesis}
  <2>1. CASE n = "writeGenesis"
    <3>1. \/ family = "penumbra" /\ p = 5 /\ \E m \in Nodes : a = <<"tm", m>>
          \/ family \in ThorFamilies /\ p = 5 /\ \E m \in Nodes : a = <<"thor", m>>
      BY <1>1, <2>1, MainNames
    <3>2. a \in Containers  BY <1>1, <3>1, InContainers DEF ThorFamilies
    <3>3. buf[Main] = CompleteGenesis  BY <3>1 DEF StartInv, GenesisOK, ThorFamilies
    <3> QED  BY <1>2, <1>7, <2>1, <3>2, <3>3
  <2>2. CASE n # "writeGenesis"  BY <1>7, <2>2
  <2> QED  BY <2>1, <2>2
<1>10. Keeping(p)  BY <1>3, <1>7, <1>8, <1>9 DEF Keeping
<1>11. Effect(Main, x)'  BY <1>3, <1>6, <1>8, <1>9, <1>5 DEF Effect
<1>12. Within'
  <2>1. /\ n = "define" => family # "thorchainFork" /\ a \in Authorities
        /\ n \in {"append", "fund"} => a \in CompleteGenesis.allocations
        /\ n = "export" => a \in CompleteGenesis.paras
    <3>1. /\ n = "define" => \/ family = "namada" /\ a \in Validators
                             \/ family = "polkadot" /\ a \in 1..NumRelay
                             \/ family = "thorchain" /\ a \in 2..NumValidators
          /\ n = "fund" => \/ family = "namada" /\ a \in Validators \cup {GasPayer} \cup Range(Wallets)
                           \/ family = "polkadot" /\ a \in (1..NumRelay) \cup Range(Wallets)
                           \/ family = "thorchain" /\ a \in (2..NumValidators) \cup Range(Wallets) \cup {Bond}
          /\ n = "append" => family = "penumbra" /\ a \in Range(Wallets)
          /\ n = "export" => family = "polkadot" /\ a \in Paras
      BY <1>1, MainNames
    <3>2. 2..NumValidators \subseteq Validators  BY StartAssumption DEF Validators
    <3>3. /\ family # "thorchainFork" => CompleteGenesis.allocations =
               Authorities \cup Range(Wallets) \cup {y \in {GasPayer} : family = "namada"}
                  \cup {y \in {Bond} : family = "thorchain"}
          /\ CompleteGenesis.paras = IF family = "polkadot" THEN Paras ELSE {}
          /\ Authorities = IF family = "polkadot" THEN 1..NumRelay ELSE Validators
      BY <1>1, Complete
    <3>4. n = "define" => family # "thorchainFork" /\ a \in Authorities  BY <3>1, <3>2, <3>3
    <3>5. n \in {"append", "fund"} => a \in CompleteGenesis.allocations  BY <3>1, <3>2, <3>3
    <3>6. n = "export" => a \in CompleteGenesis.paras  BY <3>1, <3>3
    <3> QED  BY <3>4, <3>5, <3>6
  <2>2. n = "define" => <<a, a>> \in CompleteGenesis.defs  BY <1>1, <2>1, Complete
  <2>3. Within  BY DEF StartInv
  <2>4. /\ defs' \subseteq CompleteGenesis.defs
        /\ allocations' \subseteq CompleteGenesis.allocations
        /\ paras' \subseteq CompleteGenesis.paras
    BY <1>8, <2>1, <2>2, <2>3 DEF Within
  <2> QED  BY <1>3, <2>4 DEF Within
<1> QED  BY <1>7, <1>10, <1>11, <1>12

\* Main's own step within a phase.
LEMMA MainKeeps ==
  ASSUME NEW p, NEW R, StartInv(p, R), NEW x, x = pc[Main][1], Changes(Main, x[1], x[2]),
         x \in Steps, MainMay(family, p, x),
         Leads(family, Tail(pc[Main]), p, LastPhase(family), R \ {<<p, x>>})
  PROVE  StartInv(p, R \ {<<p, x>>})'
<1> DEFINE n == x[1]
           T == R \ {<<p, x>>}
<1>1. /\ DOMAIN pc = Procs /\ Main \in Procs /\ Main \notin Containers /\ Containers \subseteq Procs
      /\ pc[Main] # <<>>
  BY Members DEF StartInv, Types, Changes
<1>2. /\ p \in 0..11 /\ family \in Families /\ result = "pending"
      /\ pc[Main] \in Seq(Steps \cup GoSteps) /\ Linked(pc[Main]) /\ Foreseen(family, p, R)
  BY <1>1, MainFacts
<1>3. /\ Keeping(p) /\ Within' /\ Effect(Main, x)'
      /\ container' = container /\ genesis' = genesis /\ buf' = buf
  BY MainKeeping
<1>4. pc' = [pc EXCEPT ![Main] = Tail(@)] /\ UNCHANGED <<family, failed, result>>  BY DEF Changes
<1>5. /\ pc'[Main] = Tail(pc[Main]) /\ DOMAIN pc' = DOMAIN pc
      /\ \A u \in Containers : pc'[u] = pc[u]
  BY <1>1, <1>4
<1>6. \A u \in Containers : <<p, u>> \in R => <<p, u>> \in T
  <2> SUFFICES ASSUME NEW u \in Containers PROVE <<p, u>> # <<p, x>>  OBVIOUS
  <2>1. u # x  BY StepsNames
  <2> QED  BY <2>1
<1>7. MainLeft(p, T)'
  <2>1. Linked(Tail(pc[Main]))  BY <1>1, <1>2, LinkedTail
  <2>2. Foreseen(family, p, T)
    <3>1. <<p, x>>[1] = p  OBVIOUS
    <3> QED  BY <1>2, <3>1, ForeseenLess
  <2>3. /\ p \in 0..11 /\ result' = "pending"
        /\ Leads(family, pc'[Main], p, LastPhase(family), T) /\ Linked(pc'[Main]) /\ Foreseen(family, p, T)
    BY <1>2, <1>4, <1>5, <2>1, <2>2
  <2> QED  BY <1>4, <2>3 DEF MainLeft
<1>8. /\ Left(p)' /\ Fresh(p, T)'
      /\ \A u \in Containers, st \in Steps : Pending(p, R, u, st) => Pending(p, T, u, st)'
  <2>1. T \subseteq R  OBVIOUS
  <2> HIDE DEF T
  <2> QED  BY <1>4, <1>5, <1>6, <2>1, MainOnly
<1>9. ItemsOK(p, T)' /\ MainItemsOK(p, T)'
  <2>1. ASSUME NEW st \in Steps, <<p, st>> \in R PROVE Effect(Main, st)' \/ <<p, st>> \in T
    <3>1. CASE st = x  BY <1>3, <3>1
    <3>2. CASE st # x
      <4>1. <<p, st>> # <<p, x>>  BY <3>2
      <4> QED  BY <2>1, <4>1
    <3> QED  BY <3>1, <3>2
  <2> HIDE DEF T
  <2> QED  BY <1>3, <1>4, <1>8, <2>1, ItemsKept
<1> HIDE DEF T
<1>10. MutexOK'
  <2>1. (n = "fund" => family # "penumbra") /\ (n = "define" => family # "thorchainFork")  BY <1>2, MainNames
  <2> QED  BY <1>1, <2>1, MutexKept
<1>11. GenesisOK(p)' /\ ContainersOK(p)'
  <2>1. GenesisOK(p)'  BY <1>3, GenesisKept
  <2>2. ContainersOK(p)'  BY <1>3, ContainersKept
  <2> QED  BY <2>1, <2>2
<1>12. BufOK'
  <2>1. \A v : Key("genesis", v)' = Key("genesis", v)  BY DEF Key
  <2>2. CompleteGenesis' = CompleteGenesis  BY <1>4 DEF CompleteGenesis, Authorities
  <2> QED  BY <1>3, <1>5, <2>1, <2>2 DEF StartInv, BufOK
<1>13. QuietOK(p)' /\ NilOK(p)'  BY <1>2, <1>4 DEF QuietOK, NilOK
<1>14. Types'
  <2>1. Types  BY DEF StartInv
  <2> HIDE DEF Types
  <2>2. DOMAIN seen' = DOMAIN seen /\ DOMAIN buf' = DOMAIN buf  BY <1>3 DEF Changes
  <2>3. DOMAIN file' = DOMAIN file /\ DOMAIN spec' = DOMAIN spec /\ DOMAIN key' = DOMAIN key
    BY DEF Changes
  <2>4. DOMAIN container' = DOMAIN container  BY DEF Changes
  <2> QED  BY <1>4, <1>5, <2>1, <2>2, <2>3, <2>4 DEF Types
<1>15. StartInv(p, T)'
  BY <1>3, <1>7, <1>8, <1>9, <1>10, <1>11, <1>12, <1>13, <1>14 DEF StartInv
<1> QED  BY <1>15 DEF T

----------------------------------------------------------------------------
(* Main's steps from a phase to the next. *)

\* x leads from p to r, and no goroutine is left behind.
Turning(p, R, x, r) ==
  /\ StartInv(p, R) /\ r \in 0..11 /\ pc[Main] # <<>> /\ x = pc[Main][1]
  /\ <<p, x, r>> \in Turns(family) /\ r > p
  /\ Leads(family, Tail(pc[Main]), r, LastPhase(family), R)
  /\ \A y \in R : y[1] >= r
  /\ x[1] = "wait" => ~failed /\ \A u \in Containers : pc[u] = <<>>

\* Every goroutine is done when Main goes on to another phase.
LEMMA TurnIdle ==
  ASSUME NEW p, NEW R, NEW x, NEW r, Turning(p, R, x, r)
  PROVE  \A u \in Containers : pc[u] = <<>>
<1>1. CASE x[1] = "wait"  BY <1>1 DEF Turning
<1>2. CASE x[1] # "wait"
  <2> SUFFICES ASSUME NEW u \in Containers, pc[u] # <<>> PROVE FALSE  OBVIOUS
  <2>1. /\ family \in Families /\ pc[u] \in Seq(Steps)
        /\ \A i \in 1..Len(pc[u]) : May(family, p, u, pc[u][i])
    BY DEF Turning, StartInv, Types, Left
  <2>2. 1 \in 1..Len(pc[u])  BY <2>1
  <2>3. <<p, x, r>> \in Turns(family)  BY DEF Turning
  <2> QED  BY <1>2, <2>1, <2>2, <2>3, NoMay
<1> QED  BY <1>1, <1>2

\* What the phases before r had to do is done.
LEMMA TurnDone ==
  ASSUME NEW p, NEW R, NEW x, NEW r, Turning(p, R, x, r), NEW q \in 0..11, q < r, NEW st \in Steps
  PROVE  /\ \A u \in Containers : Must(family, q, u, st) => Effect(u, st) /\ q <= p
         /\ MainMust(family, q, st) => Effect(Main, st) /\ q <= p
<1>1. /\ StartInv(p, R) /\ r \in 0..11 /\ r > p /\ <<p, x, r>> \in Turns(family)
      /\ \A y \in R : y[1] >= r
      /\ x[1] = "wait" => ~failed
  BY DEF Turning
<1>2. /\ p \in 0..11 /\ family \in Families /\ result = "pending" /\ Foreseen(family, p, R)
      /\ ItemsOK(p, R) /\ MainItemsOK(p, R)
  <2>1. pc[Main] # <<>>  BY DEF Turning
  <2> QED  BY <1>1, <2>1, MainFacts DEF StartInv
<1>3. \A y : <<q, y>>[1] = q  OBVIOUS
<1>4. \A y : <<q, y>> \notin R  BY <1>1, <1>2, <1>3
<1>5. ASSUME NEW u \in Containers, Must(family, q, u, st) PROVE Effect(u, st) /\ q <= p
  <2>1. q <= p
    <3> SUFFICES ASSUME q > p PROVE FALSE  BY <1>2
    <3>1. <<q, u>> \in R  BY <1>2, <1>5 DEF Foreseen
    <3> QED  BY <1>4, <3>1
  <2>2. CASE q < p  BY <1>2, <1>5, <2>1, <2>2 DEF ItemsOK
  <2>3. CASE q = p
    <3>1. Effect(u, st) \/ Pending(p, R, u, st)  BY <1>2, <1>5, <2>3 DEF ItemsOK
    <3>2. x[1] = "wait"  BY <1>1, <1>2, <1>5, <2>3, MustMay, NoMay
    <3>3. pc[u] = <<>>  BY TurnIdle
    <3>4. ~In(st, pc[u])  BY <3>3, EmptyScript
    <3>5. ~Pending(p, R, u, st)  BY <1>1, <1>2, <1>4, <2>3, <3>2, <3>4 DEF Pending
    <3> QED  BY <2>1, <3>1, <3>5
  <2> QED  BY <1>2, <2>1, <2>2, <2>3
<1>6. ASSUME MainMust(family, q, st) PROVE Effect(Main, st) /\ q <= p
  <2>1. q <= p
    <3> SUFFICES ASSUME q > p PROVE FALSE  BY <1>2
    <3>1. <<q, st>> \in R  BY <1>2, <1>6 DEF Foreseen
    <3> QED  BY <1>4, <3>1
  <2>2. CASE q < p
    <3>1. MainItemsOK(p, R)  BY <1>2
    <3> QED  BY <1>6, <2>1, <2>2, <3>1 DEF MainItemsOK
  <2>3. CASE q = p
    <3>1. Effect(Main, st) \/ <<p, st>> \in R \/ result = "err"  BY <1>2, <1>6, <2>3 DEF MainItemsOK
    <3> QED  BY <1>2, <1>4, <2>1, <2>3, <3>1
  <2> QED  BY <1>2, <2>1, <2>2, <2>3
<1> QED  BY <1>5, <1>6

\* A step to the next phase keeps the invariant if it leaves the genesis files as that phase has them.
LEMMA Turned ==
  ASSUME NEW p, NEW R, NEW x, NEW r, Turning(p, R, x, r),
         Keeping(p), UNCHANGED container, Within', GenesisOK(r)',
         pc' = [pc EXCEPT ![Main] = Tail(@)], UNCHANGED result,
         UNCHANGED <<DOMAIN seen, DOMAIN buf, DOMAIN file, DOMAIN spec, DOMAIN key>>
  PROVE  StartInv(r, R)'
<1>1. /\ DOMAIN pc = Procs /\ Main \in Procs /\ Main \notin Containers /\ Containers \subseteq Procs
      /\ \A t \in Procs : t = Main \/ t \in Containers
  BY Members DEF Turning, StartInv, Types
<1>2. /\ StartInv(p, R) /\ r \in 0..11 /\ r > p /\ <<p, x, r>> \in Turns(family)
      /\ \A y \in R : y[1] >= r
      /\ x[1] = "wait" => ~failed
      /\ pc[Main] # <<>> /\ x = pc[Main][1]
      /\ Leads(family, Tail(pc[Main]), r, LastPhase(family), R)
  BY DEF Turning
<1>3. /\ p \in 0..11 /\ family \in Families /\ result = "pending" /\ Foreseen(family, p, R)
      /\ pc[Main] \in Seq(Steps \cup GoSteps) /\ Linked(pc[Main])
  BY <1>2, MainFacts
<1>4. family' = family  BY DEF Keeping
<1>5. /\ pc'[Main] = Tail(pc[Main]) /\ DOMAIN pc' = DOMAIN pc
      /\ \A u \in Containers : pc'[u] = <<>>
  BY <1>1, TurnIdle
<1>6. Foreseen(family, r, R)
  <2> SUFFICES ASSUME NEW q \in 0..11, q > r
               PROVE  /\ \A u \in Containers, st \in Steps : Must(family, q, u, st) => <<q, u>> \in R
                      /\ \A st \in Steps : MainMust(family, q, st) => <<q, st>> \in R
    BY DEF Foreseen
  <2>1. q > p  BY <1>2, <1>3
  <2> QED  BY <1>3, <2>1 DEF Foreseen
<1>7. MainLeft(r, R)'
  <2>1. Linked(Tail(pc[Main]))  BY <1>2, <1>3, LinkedTail
  <2>2. /\ r \in 0..11 /\ result' = "pending"
        /\ Leads(family, pc'[Main], r, LastPhase(family), R) /\ Linked(pc'[Main]) /\ Foreseen(family, r, R)
    BY <1>2, <1>3, <1>5, <1>6, <2>1
  <2> QED  BY <1>4, <2>2 DEF MainLeft
<1>8. Left(r)'
  <2>1. ASSUME NEW u \in Containers
        PROVE  /\ pc'[u] \in Seq(Steps) /\ Sorted(pc'[u]) /\ Linked(pc'[u]) /\ Whole(family, r, u, pc'[u])
               /\ \A i \in 1..Len(pc'[u]) : May(family, r, u, pc'[u][i])
    <3>1. pc'[u] = <<>>  BY <1>5
    <3> QED  BY <3>1, EmptyScript
  <2> QED  BY <1>4, <2>1 DEF Left
<1>9. Fresh(r, R)'  BY <1>5 DEF Fresh
<1>10. ItemsOK(r, R)' /\ MainItemsOK(r, R)'
  <2>1. ASSUME NEW q \in 0..11, NEW u \in Containers, NEW st \in Steps, Must(family, q, u, st)
        PROVE  /\ q < r => Effect(u, st)'
               /\ q = r => Pending(r, R, u, st)'
    <3>1. ASSUME q < r PROVE Effect(u, st)'
      <4>1. Effect(u, st) /\ q <= p  BY <2>1, <3>1, TurnDone
      <4>2. st = <<"start">> => container[u] = "running"
        <5>1. <<"start">>[1] = "start"  OBVIOUS
        <5>2. st = <<"start">> => family # "namada"  BY <2>1 DEF Must, ThorFamilies
        <5> QED  BY <4>1, <5>1, <5>2 DEF Effect
      <4>3. st # <<"start">> \/ container'[u] # "created"  BY <4>2
      <4> QED  BY <1>3, <2>1, <4>1, <4>3, EffectKept
    <3>2. ASSUME q = r PROVE Pending(r, R, u, st)'
      <4>1. <<r, u>> \in R  BY <1>2, <1>3, <2>1, <3>2 DEF Foreseen
      <4> QED  BY <1>5, <4>1 DEF Pending
    <3> QED  BY <3>1, <3>2
  <2>2. ASSUME NEW q \in 0..11, NEW st \in Steps, MainMust(family, q, st)
        PROVE  /\ q < r => Effect(Main, st)'
               /\ q = r => <<r, st>> \in R
    <3>1. ASSUME q < r PROVE Effect(Main, st)'
      <4>1. Effect(Main, st) /\ q <= p  BY <2>2, <3>1, TurnDone
      <4> QED  BY <1>3, <2>2, <4>1, MainEffectKept
    <3>2. ASSUME q = r PROVE <<r, st>> \in R  BY <1>2, <1>3, <2>2, <3>2 DEF Foreseen
    <3> QED  BY <3>1, <3>2
  <2>3. ItemsOK(r, R)'  BY <1>4, <2>1 DEF ItemsOK
  <2>4. MainItemsOK(r, R)'  BY <1>4, <2>2 DEF MainItemsOK
  <2> QED  BY <2>3, <2>4
<1>11. MutexOK'
  <2>1. x[1] \notin {"lock", "lockGenesis"}  BY <1>2, <1>3, TurnNames, SMTT(60)
  <2>2. pc'[Main] # <<>> => pc'[Main][1][1] \notin {"append", "replace"}
    BY <1>2, <1>3, <1>5, <2>1, LinkedTail
  <2> QED  BY <1>1, <1>5, <2>2 DEF MutexOK, At, Busy, Name
<1>12. BufOK'
  <2>1. \A u \in Containers : \A y : ~In(y, pc'[u])  BY <1>5, EmptyScript
  <2> QED  BY <2>1 DEF BufOK
<1>13. ContainersOK(r)'
  <2>1. ContainersOK(p)'  BY <1>2, ContainersKept
  <2>2. \A u \in Containers, n \in {"create", "start"} : Moment(family', u, n) \in Nat  BY DEF Moment
  <2>3. \A u \in Containers, n \in {"create", "start"} : p >= Moment(family', u, n) => r >= Moment(family', u, n)
    BY <1>2, <1>3, <2>2
  <2> QED  BY <2>1, <2>3 DEF ContainersOK, Moment
<1>14. QuietOK(r)' /\ NilOK(r)'  BY <1>3 DEF QuietOK, NilOK
<1>15. Types'
  <2>1. Types  BY <1>2 DEF StartInv
  <2> QED  BY <1>4, <1>5, <2>1 DEF Types
<1> QED
  BY <1>7, <1>8, <1>9, <1>10, <1>11, <1>12, <1>13, <1>14, <1>15 DEF StartInv

\* By phase 3 every validator, wallet and parachain is in, and by phase 4 a fork's own values.
LEMMA FullGenesis ==
  ASSUME NEW p, NEW R, NEW x, NEW r, Turning(p, R, x, r), r >= 3, family = "thorchainFork" => r > 3
  PROVE  Generated = CompleteGenesis
<1>1. /\ family \in Families /\ r \in 0..11 /\ Within  BY DEF Turning, StartInv, Types
<1>2. ASSUME NEW q \in 0..3, q < r, NEW u \in Containers, NEW n \in Names, NEW a \in Args, Must(family, q, u, <<n, a>>)
      PROVE  Effect(u, <<n, a>>)
  <2>1. <<n, a>> \in Steps /\ q \in 0..11  BY InSteps
  <2> QED  BY <1>2, <2>1, TurnDone
<1>3. ASSUME NEW q \in 0..2, NEW n \in {"append", "define", "fund", "export"}, NEW a \in Args,
             MainMay(family, q, <<n, a>>)
      PROVE  Effect(Main, <<n, a>>)
  <2>1. n \in Names  BY DEF Names
  <2>2. <<n, a>> \in Steps /\ q \in 0..11 /\ q < r  BY <1>1, <2>1, InSteps
  <2>3. <<n, a>>[1] = n  OBVIOUS
  <2>4. MainMust(family, q, <<n, a>>)  BY <1>3, <2>2, <2>3 DEF MainMust
  <2> QED  BY <2>2, <2>4, TurnDone
<1>4. {"append", "define", "fund", "export", "replace"} \subseteq Names  BY DEF Names
<1>5. /\ Validators \subseteq Args /\ 1..NumRelay \subseteq Args /\ Paras \subseteq Args /\ Range(Wallets) \subseteq Args
      /\ GasPayer \in Args /\ Bond \in Args /\ Range(NodeAccountFields) \subseteq Args
  <2>1. Validators \subseteq Nodes  BY StartAssumption DEF Validators, Nodes
  <2> QED  BY <2>1 DEF Args
<1>6. \A n, a : <<n, a>>[1] = n /\ <<n, a>>[2] = a  OBVIOUS
<1>7. \A u, n, a : Effect(u, <<n, a>>) =>
        /\ n = "define" => <<a, a>> \in defs
        /\ n = "replace" => <<u[2], a>> \in defs
        /\ n \in {"append", "fund"} => a \in allocations
        /\ n = "export" => a \in paras
  BY <1>6 DEF Effect
<1>8. LET C == CompleteGenesis
      IN  C.defs \subseteq defs /\ C.allocations \subseteq allocations /\ C.paras \subseteq paras
  <2> DEFINE C == CompleteGenesis
  <2>1. CASE family = "penumbra"
    <3>1. /\ C.defs = {<<v, v>> : v \in Validators} /\ C.allocations = Validators \cup Range(Wallets) /\ C.paras = {}
      BY <2>1 DEF CompleteGenesis, Authorities
    <3>2. ASSUME NEW v \in Validators PROVE <<v, v>> \in defs /\ v \in allocations
      <4> DEFINE u == <<"tm", v>>
      <4>1. u \in Containers /\ u[1] = "tm" /\ u[2] = v
        <5>1. v \in Nodes  BY StartAssumption DEF Validators, Nodes
        <5> QED  BY <1>1, <2>1, <5>1, InContainers
      <4> HIDE DEF u
      <4>2. Must(family, 1, u, <<"define", v>>) /\ Must(family, 1, u, <<"append", v>>)  BY <2>1, <4>1 DEF Must
      <4>3. v \in Args /\ 1 \in 0..3 /\ 1 < r  BY <1>1, <1>5
      <4>4. Effect(u, <<"define", v>>) /\ Effect(u, <<"append", v>>)  BY <1>2, <1>4, <4>1, <4>2, <4>3
      <4> QED  BY <1>7, <4>4
    <3>3. ASSUME NEW w \in Range(Wallets) PROVE w \in allocations
      <4>1. MainMay(family, 1, <<"append", w>>)  BY <2>1 DEF MainMay
      <4>2. w \in Args /\ 1 \in 0..2  BY <1>5
      <4>3. Effect(Main, <<"append", w>>)  BY <1>3, <4>1, <4>2
      <4> QED  BY <1>7, <4>3
    <3> QED  BY <3>1, <3>2, <3>3
  <2>2. CASE family = "namada"
    <3>1. /\ C.defs = {<<v, v>> : v \in Validators}
          /\ C.allocations = Validators \cup Range(Wallets) \cup {GasPayer} /\ C.paras = {}
      BY <2>2 DEF CompleteGenesis, Authorities
    <3>2. ASSUME NEW v \in Validators PROVE <<v, v>> \in defs
      <4>1. MainMay(family, 2, <<"define", v>>)  BY <2>2 DEF MainMay
      <4>2. v \in Args /\ 2 \in 0..2  BY <1>5
      <4>3. Effect(Main, <<"define", v>>)  BY <1>3, <4>1, <4>2
      <4> QED  BY <1>7, <4>3
    <3>3. ASSUME NEW w \in Validators \cup Range(Wallets) \cup {GasPayer} PROVE w \in allocations
      <4>1. MainMay(family, 2, <<"fund", w>>)  BY <2>2 DEF MainMay
      <4>2. w \in Args /\ 2 \in 0..2  BY <1>5
      <4>3. Effect(Main, <<"fund", w>>)  BY <1>3, <4>1, <4>2
      <4> QED  BY <1>7, <4>3
    <3> QED  BY <3>1, <3>2, <3>3
  <2>3. CASE family = "polkadot"
    <3>1. /\ C.defs = {<<v, v>> : v \in 1..NumRelay}
          /\ C.allocations = (1..NumRelay) \cup Range(Wallets) /\ C.paras = Paras
      BY <2>3 DEF CompleteGenesis, Authorities
    <3>2. ASSUME NEW v \in 1..NumRelay PROVE <<v, v>> \in defs
      <4>1. MainMay(family, 2, <<"define", v>>)  BY <2>3 DEF MainMay
      <4>2. v \in Args /\ 2 \in 0..2  BY <1>5
      <4>3. Effect(Main, <<"define", v>>)  BY <1>3, <4>1, <4>2
      <4> QED  BY <1>7, <4>3
    <3>3. ASSUME NEW w \in (1..NumRelay) \cup Range(Wallets) PROVE w \in allocations
      <4>1. MainMay(family, 2, <<"fund", w>>)  BY <2>3 DEF MainMay
      <4>2. w \in Args /\ 2 \in 0..2  BY <1>5
      <4>3. Effect(Main, <<"fund", w>>)  BY <1>3, <4>1, <4>2
      <4> QED  BY <1>7, <4>3
    <3>4. ASSUME NEW i \in Paras PROVE i \in paras
      <4>1. MainMay(family, 2, <<"export", i>>)  BY <2>3 DEF MainMay
      <4>2. i \in Args /\ 2 \in 0..2  BY <1>5
      <4>3. Effect(Main, <<"export", i>>)  BY <1>3, <4>1, <4>2
      <4> QED  BY <1>7, <4>3
    <3> QED  BY <3>1, <3>2, <3>3, <3>4
  <2>4. CASE family = "thorchain"
    <3>1. /\ C.defs = {<<v, v>> : v \in Validators}
          /\ C.allocations = Validators \cup Range(Wallets) \cup {Bond} /\ C.paras = {}
      BY <2>4 DEF CompleteGenesis, Authorities
    <3>2. NumValidators \in Nat \ {0} /\ 1 \in Validators /\ \A v \in Validators : v = 1 \/ v \in 2..NumValidators
      BY StartAssumption DEF Validators
    <3>3. <<1, 1>> \in defs /\ 1 \in allocations
      <4> DEFINE u == <<"thor", 1>>
      <4>1. u \in Containers
        <5>1. 1 \in Nodes  BY StartAssumption DEF Nodes
        <5>2. "thorchain" \in Families \cap ThorFamilies  BY <1>1, <2>4 DEF ThorFamilies
        <5> QED  BY <5>1, <5>2, InContainers
      <4>2. Must(family, 1, u, <<"define", 1>>) /\ Must(family, 1, u, <<"fund", 1>>)  BY <2>4 DEF Must
      <4> HIDE DEF u
      <4>3. 1 \in Args /\ 1 \in 0..3 /\ 1 < r  BY <1>1, <1>5, <3>2
      <4>4. Effect(u, <<"define", 1>>) /\ Effect(u, <<"fund", 1>>)  BY <1>2, <1>4, <4>1, <4>2, <4>3
      <4> QED  BY <1>7, <4>4
    <3>4. ASSUME NEW v \in 2..NumValidators PROVE <<v, v>> \in defs
      <4>1. MainMay(family, 2, <<"define", v>>)  BY <2>4 DEF MainMay
      <4>2. v \in Args /\ 2 \in 0..2
        <5>1. v \in Validators  BY <3>2 DEF Validators
        <5> QED  BY <1>5, <5>1
      <4>3. Effect(Main, <<"define", v>>)  BY <1>3, <4>1, <4>2
      <4> QED  BY <1>7, <4>3
    <3>5. ASSUME NEW w \in (2..NumValidators) \cup Range(Wallets) \cup {Bond} PROVE w \in allocations
      <4>1. MainMay(family, 2, <<"fund", w>>)  BY <2>4 DEF MainMay
      <4>2. w \in Args /\ 2 \in 0..2
        <5>1. 2..NumValidators \subseteq Validators  BY <3>2 DEF Validators
        <5> QED  BY <1>5, <5>1
      <4>3. Effect(Main, <<"fund", w>>)  BY <1>3, <4>1, <4>2
      <4> QED  BY <1>7, <4>3
    <3>6. \A v \in Validators : <<v, v>> \in defs  BY <3>2, <3>3, <3>4
    <3>7. \A v \in Validators : v \in allocations  BY <3>2, <3>3, <3>5
    <3> QED  BY <3>1, <3>5, <3>6, <3>7
  <2>5. CASE family = "thorchainFork"
    <3>1. C.defs = Validators \X Range(NodeAccountFields) /\ C.allocations = {} /\ C.paras = {}
      BY <2>5 DEF CompleteGenesis, Authorities
    <3>2. ASSUME NEW v \in Validators, NEW y \in Range(NodeAccountFields) PROVE <<v, y>> \in defs
      <4> DEFINE u == <<"thor", v>>
      <4>1. u \in Containers /\ u[1] = "thor" /\ u[2] = v
        <5>1. v \in Nodes  BY StartAssumption DEF Validators, Nodes
        <5>2. "thorchainFork" \in Families \cap ThorFamilies  BY <1>1, <2>5 DEF ThorFamilies
        <5> QED  BY <5>1, <5>2, InContainers
      <4> HIDE DEF u
      <4>2. Must(family, 3, u, <<"replace", y>>)  BY <2>5, <4>1 DEF Must
      <4>3. y \in Args /\ 3 \in 0..3 /\ 3 < r  BY <1>1, <1>5, <2>5
      <4>4. Effect(u, <<"replace", y>>)  BY <1>2, <1>4, <4>1, <4>2, <4>3
      <4> QED  BY <1>7, <4>1, <4>4
    <3> QED  BY <3>1, <3>2
  <2>6. family \in {"penumbra", "namada", "polkadot", "thorchain", "thorchainFork"}  BY <1>1, StartAssumption
  <2> QED  BY <2>1, <2>2, <2>3, <2>4, <2>5, <2>6
<1>9. /\ defs = CompleteGenesis.defs /\ allocations = CompleteGenesis.allocations /\ paras = CompleteGenesis.paras
  BY <1>1, <1>8 DEF Within
<1> QED  BY <1>9 DEF Generated, CompleteGenesis

----------------------------------------------------------------------------
(* The induction step. *)

\* The group is done and Main goes on to the next phase.
LEMMA GroupDone ==
  ASSUME NEW p, NEW R, StartInv(p, R), WaitGroup, ~failed
  PROVE  \E r : StartInv(r, R)'
<1> DEFINE x == pc[Main][1]
<1>1. /\ pc[Main] # <<>> /\ x[1] = "wait" /\ \A u \in Containers : pc[u] = <<>>
      /\ pc' = [pc EXCEPT ![Main] = Tail(@)] /\ result' = result /\ UNCHANGED dataVars
  BY DEF WaitGroup, At, Busy, Name, dataVars, chainVars
<1>2. PICK r \in 0..11 : /\ <<p, x, r>> \in Turns(family) /\ r > p
                         /\ Leads(family, Tail(pc[Main]), r, LastPhase(family), R)
                         /\ \A y \in R : y[1] >= r
  <2>1. x[1] # "go"  BY <1>1
  <2> HIDE DEF x
  <2> QED  BY <1>1, <2>1, MainFacts DEF x
<1> HIDE DEF x
<1>3. Turning(p, R, x, r)  BY <1>1, <1>2 DEF Turning, x
<1>4. /\ Keeping(p) /\ Within' /\ GenesisOK(p)' /\ container' = container
      /\ family' = family /\ p \in 0..11 /\ family \in Families
  BY <1>1, Still
<1>5. /\ seen' = seen /\ buf' = buf /\ file' = file /\ spec' = spec /\ key' = key
  BY <1>1 DEF dataVars, localVars, volumeVars
<1>6. GenesisOK(r)'
  <2>1. \/ r <= 2
        \/ p >= 5
        \/ p = 3 /\ family = "penumbra" /\ r = 4
        \/ p = 3 /\ family = "thorchainFork" /\ r = 4
    BY <1>1, <1>2, <1>4, TurnNames
  <2>2. \A m \in {3, 5} : r >= m => p >= m
    BY <1>2, <1>4, <2>1
  <2> QED  BY <1>4, <2>2 DEF GenesisOK
<1>7. StartInv(r, R)'  BY <1>1, <1>3, <1>4, <1>5, <1>6, Turned
<1> QED  BY <1>7

\* Main's own step leads to the next phase.
LEMMA MainTurns ==
  ASSUME NEW p, NEW R, NEW x, NEW r, Turning(p, R, x, r), Changes(Main, x[1], x[2])
  PROVE  StartInv(r, R)'
<1> DEFINE n == x[1]
           a == x[2]
           C == CompleteGenesis
<1>1. /\ StartInv(p, R) /\ r \in 0..11 /\ r > p /\ <<p, x, r>> \in Turns(family)
  BY DEF Turning
<1>2. /\ p \in 0..11 /\ family \in Families /\ Main \in Procs /\ DOMAIN seen = Procs /\ DOMAIN buf = Procs
      /\ DOMAIN file = Containers /\ Within /\ GenesisOK(p)
  BY <1>1, Members DEF StartInv, Types, MainLeft
<1>3. /\ n \in {"generateGenesisFile", "readGenesis", "hashes", "separator", "waitForBlocks", "initNetwork",
                "generateRaw", "preGenesis", "modifyGenesis"}
      /\ n = "generateGenesisFile" => family = "penumbra" /\ p = 2 /\ r = 3
      /\ n = "readGenesis" => family \in {"penumbra", "polkadot"} /\ p = 4 /\ r \in {5, 8}
      /\ n = "initNetwork" => family = "namada" /\ p = 2
      /\ n = "generateRaw" => family = "polkadot" /\ p = 2 /\ r = 4
      /\ n = "preGenesis" => family = "thorchainFork" /\ r = 3
      /\ n = "modifyGenesis" => family \in ThorFamilies /\ r = 5
      /\ n \in {"hashes", "separator", "waitForBlocks"} => p \in {5, 6, 9}
  <2>1. n # "wait"  BY DEF Changes
  <2> QED  BY <1>1, <1>2, <2>1, TurnNames
<1>4. /\ pc' = [pc EXCEPT ![Main] = Tail(@)] /\ UNCHANGED <<family, failed, result>>
      /\ defs' = defs /\ allocations' = allocations /\ paras' = paras
      /\ seen' = seen /\ spec' = spec /\ key' = key /\ container' = container
  BY <1>3 DEF Changes
<1>5. /\ genesis' = IF n \in {"generateGenesisFile", "initNetwork", "generateRaw"} THEN Generated ELSE genesis
      /\ n = "readGenesis" => buf' = [buf EXCEPT ![Main] = genesis]
      /\ n = "modifyGenesis" => buf' = [buf EXCEPT ![Main] = Generated]
      /\ n \notin {"readGenesis", "modifyGenesis"} => buf' = buf
      /\ file' = CASE n = "initNetwork" -> [file EXCEPT ![FirstValidator] = Generated]
                   [] n = "generateRaw" -> [file EXCEPT ![<<"relay", 1>>] = Generated]
                   [] OTHER -> file
  BY <1>3 DEF Changes
<1>6. C' = C  BY <1>4 DEF CompleteGenesis, Authorities
<1>7. n \in {"generateGenesisFile", "initNetwork", "generateRaw", "modifyGenesis"} => Generated = C
  <2>1. n \in {"generateGenesisFile", "initNetwork", "generateRaw", "modifyGenesis"} =>
          r >= 3 /\ (family = "thorchainFork" => r > 3)
    BY <1>1, <1>2, <1>3
  <2> HIDE DEF n, C
  <2> QED  BY <2>1, FullGenesis DEF C
<1>8. (family = "namada" => FirstValidator \in Containers) /\ (family = "polkadot" => <<"relay", 1>> \in Containers)
  BY <1>2, Members
<1> DEFINE relay == <<"relay", 1>>
<1> HIDE DEF n, a, C, relay
<1>9. /\ \A u \in Containers : file'[u] \in {file[u], C}
      /\ n = "initNetwork" => file'[FirstValidator] = C
      /\ n = "generateRaw" => file'[relay] = C
      /\ n \notin {"initNetwork", "generateRaw"} => file' = file
  <2>1. CASE n = "initNetwork"  BY <1>2, <1>3, <1>5, <1>7, <1>8, <2>1
  <2>2. CASE n = "generateRaw"
    <3>1. file' = [file EXCEPT ![relay] = C] /\ relay \in DOMAIN file  BY <1>2, <1>3, <1>5, <1>7, <1>8, <2>2 DEF relay
    <3> QED  BY <1>2, <2>2, <3>1
  <2>3. CASE n \notin {"initNetwork", "generateRaw"}  BY <1>5, <2>3
  <2> QED  BY <2>1, <2>2, <2>3
<1>10. Keeping(p)  BY <1>4, <1>9 DEF Keeping, C
<1>11. Within'  BY <1>2, <1>4, <1>6 DEF Within, C
<1>12. GenesisOK(r)'
  <2>1. /\ p >= 3 /\ family \in {"penumbra", "namada", "polkadot"} => genesis = C
        /\ p >= 5 /\ family # "namada" => buf[Main] = C
        /\ p >= 3 /\ family = "namada" => file[FirstValidator] \in {C, Torn}
        /\ p >= 3 /\ family = "polkadot" => file[relay] = C
    BY <1>2 DEF GenesisOK, C, relay
  <2>2. /\ r >= 3 /\ family \in {"penumbra", "namada", "polkadot"} => genesis' = C
        /\ r >= 5 /\ family # "namada" => buf'[Main] = C
        /\ r >= 3 /\ family = "namada" => file'[FirstValidator] \in {C, Torn}
        /\ r >= 3 /\ family = "polkadot" => file'[relay] = C
    <3>1. CASE n = "generateGenesisFile"  BY <1>3, <1>5, <1>7, <3>1
    <3>2. CASE n = "initNetwork"  BY <1>3, <1>5, <1>7, <1>9, <3>2
    <3>3. CASE n = "generateRaw"  BY <1>3, <1>5, <1>7, <1>9, <3>3
    <3>4. CASE n = "modifyGenesis"
      <4>1. buf'[Main] = C  BY <1>2, <1>5, <1>7, <3>4
      <4> QED  BY <1>3, <3>4, <4>1 DEF ThorFamilies
    <3>5. CASE n = "readGenesis"
      <4>1. p = 4 /\ family # "namada" /\ genesis = C  BY <1>3, <2>1, <3>5
      <4>2. buf'[Main] = C /\ genesis' = C /\ file' = file  BY <1>2, <1>5, <1>9, <3>5, <4>1
      <4> QED  BY <2>1, <4>1, <4>2
    <3>6. CASE n \in {"hashes", "separator", "waitForBlocks"}
      <4>1. p >= 5 /\ genesis' = genesis /\ buf' = buf /\ file' = file  BY <1>3, <1>5, <1>9, <3>6
      <4> QED  BY <2>1, <1>2, <4>1
    <3>7. CASE n = "preGenesis"  BY <1>3, <3>7
    <3> QED  BY <1>3, <3>1, <3>2, <3>3, <3>4, <3>5, <3>6, <3>7
  <2> QED  BY <1>4, <1>6, <2>2 DEF GenesisOK, C, relay
<1>13. UNCHANGED <<DOMAIN seen, DOMAIN buf, DOMAIN file, DOMAIN spec, DOMAIN key>>
  <2>1. DOMAIN buf' = DOMAIN buf /\ DOMAIN file' = DOMAIN file  BY <1>3, <1>5
  <2> QED  BY <1>4, <2>1
<1> QED  BY <1>4, <1>10, <1>11, <1>12, <1>13, Turned

----------------------------------------------------------------------------
\* A step that changes nothing keeps the invariant.
LEMMA Stutters ==
  ASSUME NEW p, NEW R, StartInv(p, R), UNCHANGED dataVars, pc' = pc, failed' = failed, result' = result
  PROVE  StartInv(p, R)'
<1>1. /\ family' = family /\ mutex' = mutex /\ seen' = seen /\ buf' = buf
      /\ defs' = defs /\ allocations' = allocations /\ paras' = paras
      /\ file' = file /\ spec' = spec /\ key' = key /\ container' = container
  BY DEF dataVars, localVars, genesisVars, volumeVars
<1>2. CompleteGenesis' = CompleteGenesis  BY <1>1 DEF CompleteGenesis, Authorities
<1>3. Within' /\ GenesisOK(p)' /\ ContainersOK(p)'  BY Still
<1>4. Types' /\ MainLeft(p, R)'
  <2>1. Types /\ MainLeft(p, R)  BY DEF StartInv
  <2>2. Types'  BY <1>1, <2>1 DEF Types
  <2>3. MainLeft(p, R)'  BY <1>1, <2>1 DEF MainLeft
  <2> QED  BY <2>2, <2>3
<1>5. Left(p)' /\ Fresh(p, R)'
  <2>1. Left(p) /\ Fresh(p, R)  BY DEF StartInv
  <2>2. Left(p)'  BY <1>1, <2>1 DEF Left
  <2>3. Fresh(p, R)'  BY <1>1, <2>1 DEF Fresh
  <2> QED  BY <2>2, <2>3
<1>6. ItemsOK(p, R)' /\ MainItemsOK(p, R)'
  <2>1. ItemsOK(p, R) /\ MainItemsOK(p, R)  BY DEF StartInv
  <2>2. \A u, st : Effect(u, st)' = Effect(u, st)
    <3>1. \A v : Key("genesis", v)' = Key("genesis", v)  BY DEF Key
    <3> QED  BY <1>1, <1>2, <3>1 DEF Effect
  <2>3. \A u, st : Pending(p, R, u, st)' = Pending(p, R, u, st)  BY DEF Pending
  <2>4. ItemsOK(p, R)'  BY <1>1, <2>1, <2>2, <2>3 DEF ItemsOK
  <2>5. MainItemsOK(p, R)'
    <3>1. \A st : Effect(Main, st)' = Effect(Main, st)  BY <2>2
    <3> QED  BY <1>1, <2>1, <3>1 DEF MainItemsOK
  <2> QED  BY <2>4, <2>5
<1>7. MutexOK'  BY <1>1 DEF StartInv, MutexOK, At, Busy, Name
<1>8. BufOK'
  <2>1. \A v : Key("genesis", v)' = Key("genesis", v)  BY DEF Key
  <2> QED  BY <1>1, <1>2, <2>1 DEF StartInv, BufOK
<1>9. QuietOK(p)' /\ NilOK(p)'  BY <1>1 DEF StartInv, QuietOK, Quieted, NilOK
<1> QED  BY <1>3, <1>4, <1>5, <1>6, <1>7, <1>8, <1>9 DEF StartInv

\* A step of Main.
LEMMA MainStep ==
  ASSUME NEW p, NEW R, StartInv(p, R), Step(Main)
  PROVE  \E r, T : StartInv(r, T)'
<1> SUFFICES ASSUME NEW x, x = pc[Main][1] PROVE \E r, T : StartInv(r, T)'  OBVIOUS
<1>1. Main \in Procs  BY Members
<1>2. CASE Fail(Main)
  <2>1. StartInv(p, R)'  BY <1>2, MainFail
  <2> QED  BY <2>1
<1>3. CASE Changes(Main, x[1], x[2])
  <2>1. pc[Main] # <<>> /\ x[1] \notin {"go", "wait"}  BY <1>3 DEF Changes
  <2>2. \/ /\ x \in Steps /\ MainMay(family, p, x)
           /\ Leads(family, Tail(pc[Main]), p, LastPhase(family), R \ {<<p, x>>})
        \/ \E r \in 0..11 : /\ <<p, x, r>> \in Turns(family) /\ r > p
                            /\ Leads(family, Tail(pc[Main]), r, LastPhase(family), R)
                            /\ \A y \in R : y[1] >= r
    BY <2>1, MainFacts
  <2>3. CASE /\ x \in Steps /\ MainMay(family, p, x)
             /\ Leads(family, Tail(pc[Main]), p, LastPhase(family), R \ {<<p, x>>})
    <3>1. StartInv(p, R \ {<<p, x>>})'  BY <1>3, <2>3, MainKeeps
    <3> QED  BY <3>1
  <2>4. ASSUME NEW r \in 0..11, <<p, x, r>> \in Turns(family), r > p,
               Leads(family, Tail(pc[Main]), r, LastPhase(family), R), \A y \in R : y[1] >= r
        PROVE  StartInv(r, R)'
    <3>1. Turning(p, R, x, r)  BY <2>1, <2>4 DEF Turning
    <3> QED  BY <1>3, <3>1, MainTurns
  <2> QED  BY <2>2, <2>3, <2>4
<1>4. CASE CreateWriter(Main)
  <2>1. UNCHANGED dataVars /\ pc' = pc /\ failed' = failed /\ result' = result
    BY <1>4 DEF CreateWriter, dataVars
  <2>2. StartInv(p, R)'  BY <2>1, Stutters
  <2> QED  BY <2>2
<1> QED  BY <1>1, <1>2, <1>3, <1>4, StepChanges

\* Every step keeps the invariant.
LEMMA Inductive ==
  ASSUME NEW p, NEW R, StartInv(p, R), [Next]_vars
  PROVE  \E r, T : StartInv(r, T)'
<1>1. ASSUME NEW t \in Procs, Step(t) PROVE \E r, T : StartInv(r, T)'
  <2>1. CASE t = Main  BY <1>1, <2>1, MainStep
  <2>2. CASE t \in Containers
    <3>1. CASE CreateWriter(t)
      <4>1. UNCHANGED dataVars /\ pc' = pc /\ failed' = failed /\ result' = result
        BY <3>1 DEF CreateWriter, dataVars
      <4> QED  BY <4>1, Stutters
    <3>2. CASE ~CreateWriter(t)
      <4>1. StartInv(p, R)'  BY <1>1, <2>2, <3>2, StepChanges, UnitFail, UnitStep
      <4> QED  BY <4>1
    <3> QED  BY <3>1, <3>2
  <2> QED  BY <2>1, <2>2, Members
<1>2. CASE Spawn  BY <1>2, Spawns
<1>3. CASE WaitGroup
  <2>1. CASE failed  BY <1>3, <2>1, GroupFails
  <2>2. CASE ~failed  BY <1>3, <2>2, GroupDone
  <2> QED  BY <2>1, <2>2
<1>4. CASE Return  BY <1>4, Returns
<1>5. CASE UNCHANGED vars
  <2>1. UNCHANGED dataVars /\ pc' = pc /\ failed' = failed /\ result' = result  BY <1>5 DEF vars, dataVars, chainVars
  <2>2. StartInv(p, R)'  BY <2>1, Stutters
  <2> QED  BY <2>2
<1> QED  BY <1>1, <1>2, <1>3, <1>4, <1>5 DEF Next, Done

----------------------------------------------------------------------------
(* The initial state: scripts put together. *)

\* A script that does not leave phase p and has the steps that R names.
Stay(f, s, p, R) ==
  /\ p \in 0..11 /\ s \in Seq(Steps \cup GoSteps) /\ Closed(s)
  /\ \A i \in 1..Len(s) : Keeps(f, p, s[i])
  /\ \A x \in R : \E i \in 1..Len(s) : x = <<p, Tag(s[i])>>

\* A whole script that leads from phase p to phase q.
Script(f, s, p, q, R) == Leads(f, s, p, q, R) /\ Closed(s)

\* The elements of a concatenation.
LEMMA ConcatFacts ==
  ASSUME NEW S, NEW a \in Seq(S), NEW b \in Seq(S)
  PROVE  /\ a \o b \in Seq(S) /\ Len(a \o b) = Len(a) + Len(b) /\ Len(a) \in Nat /\ Len(b) \in Nat
         /\ \A i \in 1..Len(a) : (a \o b)[i] = a[i] /\ i \in 1..Len(a \o b)
         /\ \A i \in 1..Len(b) : (a \o b)[Len(a) + i] = b[i] /\ Len(a) + i \in 1..Len(a \o b)
         /\ \A i \in 1..Len(a \o b) : i \in 1..Len(a) \/ (i - Len(a) \in 1..Len(b) /\ (a \o b)[i] = b[i - Len(a)])
<1>1. a \o b \in Seq(S) /\ Len(a \o b) = Len(a) + Len(b) /\ Len(a) \in Nat /\ Len(b) \in Nat  OBVIOUS
<1>2. \A i \in 1..Len(a \o b) : (a \o b)[i] = IF i <= Len(a) THEN a[i] ELSE b[i - Len(a)]  OBVIOUS
<1>3. \A i \in 1..Len(a) : i \in 1..Len(a \o b) /\ i <= Len(a)  BY <1>1
<1>4. \A i \in 1..Len(b) : Len(a) + i \in 1..Len(a \o b) /\ ~(Len(a) + i <= Len(a)) /\ Len(a) + i - Len(a) = i  BY <1>1
<1>5. \A i \in 1..Len(a \o b) : i \in 1..Len(a) \/ (i - Len(a) \in 1..Len(b) /\ ~(i <= Len(a)))  BY <1>1
<1> HIDE <1>1
<1>6. \A i \in 1..Len(b) : (a \o b)[Len(a) + i] = b[i]  BY <1>2, <1>4
<1>7. \A i \in 1..Len(a) : (a \o b)[i] = a[i]  BY <1>2, <1>3
<1> QED  BY <1>1, <1>2, <1>3, <1>4, <1>5, <1>6, <1>7

\* Closed scripts, one after another, are closed.
LEMMA ClosedConcat ==
  ASSUME NEW S, NEW a \in Seq(S), NEW b \in Seq(S), Closed(a), Closed(b)
  PROVE  Closed(a \o b)
<1> DEFINE s == a \o b
<1>1. /\ s \in Seq(S) /\ Len(s) = Len(a) + Len(b) /\ Len(a) \in Nat /\ Len(b) \in Nat
      /\ \A i \in 1..Len(a) : s[i] = a[i]
      /\ \A i \in 1..Len(b) : s[Len(a) + i] = b[i]
  BY ConcatFacts
<1>2. (a # <<>> <=> Len(a) > 0) /\ (b # <<>> <=> Len(b) > 0)  OBVIOUS
<1> HIDE DEF s
<1>3. ASSUME NEW i \in 2..Len(s)
      PROVE  /\ s[i][1] = "append" => s[i-1][1] = "lock"
             /\ s[i][1] = "replace" => s[i-1][1] = "lockGenesis"
  <2>1. CASE i <= Len(a)
    <3>1. i \in 2..Len(a) /\ i \in 1..Len(a) /\ i - 1 \in 1..Len(a)  BY <1>1, <2>1
    <3> QED  BY <1>1, <3>1 DEF Closed, Linked
  <2>2. CASE i = Len(a) + 1
    <3>1. 1 \in 1..Len(b) /\ Len(b) > 0  BY <1>1, <2>2
    <3>2. s[i] = b[1]  BY <1>1, <2>2, <3>1
    <3> QED  BY <1>2, <3>1, <3>2 DEF Closed
  <2>3. CASE i > Len(a) + 1
    <3> DEFINE j == i - Len(a)
    <3>1. j \in 2..Len(b) /\ j \in 1..Len(b) /\ j - 1 \in 1..Len(b) /\ i = Len(a) + j /\ i - 1 = Len(a) + (j - 1)
      BY <1>1, <2>3
    <3> HIDE DEF j
    <3>2. s[i] = b[j] /\ s[i-1] = b[j-1]  BY <1>1, <3>1
    <3> QED  BY <3>1, <3>2 DEF Closed, Linked
  <2> QED  BY <1>1, <2>1, <2>2, <2>3
<1>4. s # <<>> => s[1][1] \notin {"append", "replace"}
  <2>1. CASE Len(a) > 0
    <3>1. 1 \in 1..Len(a)  BY <1>1, <2>1
    <3> QED  BY <1>1, <1>2, <2>1, <3>1 DEF Closed
  <2>2. CASE Len(a) = 0
    <3> SUFFICES ASSUME s # <<>> PROVE s[1][1] \notin {"append", "replace"}  OBVIOUS
    <3>1. 1 \in 1..Len(b) /\ Len(b) > 0 /\ Len(a) + 1 = 1  BY <1>1, <2>2
    <3> QED  BY <1>1, <1>2, <3>1 DEF Closed
  <2> QED  BY <1>1, <2>1, <2>2
<1> QED  BY <1>3, <1>4 DEF Closed, Linked, s

\* Two scripts that stay in a phase.
LEMMA StayConcat ==
  ASSUME NEW f, NEW a, NEW b, NEW p, NEW R, NEW T, Stay(f, a, p, R), Stay(f, b, p, T)
  PROVE  Stay(f, a \o b, p, R \cup T)
<1> DEFINE s == a \o b
<1>1. a \in Seq(Steps \cup GoSteps) /\ b \in Seq(Steps \cup GoSteps) /\ p \in 0..11  BY DEF Stay
<1>2. Closed(s)  BY <1>1, ClosedConcat DEF Stay
<1>3. /\ s \in Seq(Steps \cup GoSteps) /\ Len(s) = Len(a) + Len(b) /\ Len(a) \in Nat /\ Len(b) \in Nat
      /\ \A i \in 1..Len(a) : s[i] = a[i] /\ i \in 1..Len(s)
      /\ \A i \in 1..Len(b) : s[Len(a) + i] = b[i] /\ Len(a) + i \in 1..Len(s)
      /\ \A i \in 1..Len(s) : i \in 1..Len(a) \/ (i - Len(a) \in 1..Len(b) /\ s[i] = b[i - Len(a)])
  BY <1>1, ConcatFacts
<1> HIDE DEF s
<1>4. \A i \in 1..Len(s) : Keeps(f, p, s[i])  BY <1>3 DEF Stay
<1>5. \A x \in R \cup T : \E i \in 1..Len(s) : x = <<p, Tag(s[i])>>
  <2>1. ASSUME NEW x \in R PROVE \E i \in 1..Len(s) : x = <<p, Tag(s[i])>>
    <3>1. PICK i \in 1..Len(a) : x = <<p, Tag(a[i])>>  BY DEF Stay
    <3> QED  BY <1>3, <3>1
  <2>2. ASSUME NEW x \in T PROVE \E i \in 1..Len(s) : x = <<p, Tag(s[i])>>
    <3>1. PICK i \in 1..Len(b) : x = <<p, Tag(b[i])>>  BY DEF Stay
    <3> QED  BY <1>3, <3>1
  <2> QED  BY <2>1, <2>2
<1> QED  BY <1>1, <1>2, <1>3, <1>4, <1>5 DEF Stay, s

\* The empty script stays in any phase.
LEMMA StayNil == ASSUME NEW f, NEW p \in 0..11 PROVE Stay(f, <<>>, p, {})
<1>1. <<>> \in Seq(Steps \cup GoSteps) /\ 1..Len(<<>>) = {} /\ 2..Len(<<>>) = {}  OBVIOUS
<1> QED  BY <1>1 DEF Stay, Closed, Linked

\* A script that takes some steps takes fewer.
LEMMA StayLess ==
  ASSUME NEW f, NEW s, NEW p, NEW R, NEW T, Stay(f, s, p, R), T \subseteq R
  PROVE  Stay(f, s, p, T)
BY DEF Stay

\* Many scripts that stay in a phase.
LEMMA StayEach ==
  ASSUME NEW f, NEW n \in Nat, NEW ss, ss = [i \in 1..n |-> ss[i]], NEW p \in 0..11, NEW R,
         \A i \in 1..n : Stay(f, ss[i], p, {}),
         \A x \in R : \E i \in 1..n : Stay(f, ss[i], p, {x})
  PROVE  Stay(f, FlattenSeq(ss), p, R)
<1> DEFINE S == Steps \cup GoSteps
           s == FlattenSeq(ss)
<1>1. Len(ss) = n /\ ss \in Seq(Seq(S))
  <2>1. \A i \in 1..n : ss[i] \in Seq(S)  BY DEF Stay
  <2> HIDE DEF S
  <2>2. ss \in [1..n -> Seq(S)]  BY <2>1
  <2> QED  BY <2>2, SeqDef
<1>2. CASE n = 0
  <2>1. ss = <<>>  BY <1>1, <1>2
  <2>2. s = <<>>  BY <2>1 DEF FlattenSeq
  <2>3. R = {}  BY <1>2
  <2> QED  BY <2>2, <2>3, StayNil
<1>3. CASE n # 0
  <2> DEFINE Good == {a \in Seq(S) : Stay(f, a, p, {})}
  <2>1. Len(ss) \in Nat \ {0}  BY <1>1, <1>3
  <2>2. \A i \in 1..Len(ss) : ss[i] \in Good  BY <1>1 DEF Stay
  <2>3. \A a, b \in Good : a \o b \in Good
    <3>1. ASSUME NEW a \in Good, NEW b \in Good PROVE a \o b \in Good
      <4>1. Stay(f, a \o b, p, {} \cup {})  BY <3>1, StayConcat
      <4>2. a \o b \in Seq(S)  BY <4>1 DEF Stay
      <4> QED  BY <4>1, <4>2
    <3> QED  BY <3>1
  <2>4. s \in Good
    <3> HIDE DEF Good
    <3> QED  BY <2>1, <2>2, <2>3, FlattenIn
  <2>5. Stay(f, s, p, {})  BY <2>4
  <2>6. \A x \in R : \E j \in 1..Len(s) : x = <<p, Tag(s[j])>>
    <3> SUFFICES ASSUME NEW x \in R PROVE \E j \in 1..Len(s) : x = <<p, Tag(s[j])>>  OBVIOUS
    <3>1. PICK i \in 1..n : Stay(f, ss[i], p, {x})  OBVIOUS
    <3>2. PICK l \in 1..Len(ss[i]) : x = <<p, Tag(ss[i][l])>>  BY <3>1 DEF Stay
    <3> HIDE DEF S, s
    <3>3. i \in 1..Len(ss)  BY <1>1
    <3>4. PICK j \in 1..Len(s) : s[j] = ss[i][l]  BY <1>1, <3>3, FlattenHolds DEF s
    <3> QED  BY <3>2, <3>4
  <2> HIDE DEF s
  <2>7. Stay(f, s, p, R)  BY <2>5, <2>6 DEF Stay
  <2> QED  BY <2>7 DEF s
<1> QED  BY <1>2, <1>3

\* A script that stays in a phase leads from it to itself.
LEMMA ScriptStay ==
  ASSUME NEW f, NEW s, NEW p, NEW R, Stay(f, s, p, R)
  PROVE  Script(f, s, p, p, R)
BY LeadsKeeping DEF Stay, Script

\* A script of one step.
LEMMA OneStep ==
  ASSUME NEW st \in Steps \cup GoSteps, st[1] \notin {"append", "replace"}
  PROVE  /\ <<st>> \in Seq(Steps \cup GoSteps) /\ Closed(<<st>>) /\ Len(<<st>>) = 1 /\ <<st>>[1] = st
<1>1. <<st>> \in Seq(Steps \cup GoSteps) /\ Len(<<st>>) = 1 /\ <<st>>[1] = st /\ 2..1 = {}  OBVIOUS
<1> QED  BY <1>1 DEF Closed, Linked

\* A step that leads to another phase.
LEMMA ScriptTurn ==
  ASSUME NEW f, NEW st \in Steps, NEW p \in 0..11, NEW q \in 0..11, p < q, <<p, st, q>> \in Turns(f),
         st[1] \notin {"append", "replace"}
  PROVE  Script(f, <<st>>, p, q, {})
<1>1. Leads(f, <<st>>, p, q, {})  BY LeadsTurning
<1>2. Closed(<<st>>)  BY OneStep
<1> QED  BY <1>1, <1>2 DEF Script

\* One script after another.
LEMMA ScriptConcat ==
  ASSUME NEW f, NEW a, NEW b, NEW p, NEW q, NEW r, NEW R, NEW T, Script(f, a, p, q, R), Script(f, b, q, r, T)
  PROVE  Script(f, a \o b, p, r, R \cup T)
<1>1. Leads(f, a, p, q, R) /\ Leads(f, b, q, r, T) /\ Closed(a) /\ Closed(b)  BY DEF Script
<1>2. Leads(f, a \o b, p, r, R \cup T)  BY <1>1, LeadsConcat
<1>3. a \in Seq(Steps \cup GoSteps) /\ b \in Seq(Steps \cup GoSteps)  BY <1>1 DEF Leads
<1>4. Closed(a \o b)  BY <1>1, <1>3, ClosedConcat
<1> QED  BY <1>2, <1>4 DEF Script

\* One step of Main that stays in the phase.
LEMMA StayStep ==
  ASSUME NEW f, NEW p \in 0..11, NEW st \in Steps, MainMay(f, p, st), st[1] \notin {"append", "replace"}
  PROVE  Stay(f, <<st>>, p, {<<p, st>>})
<1>1. /\ <<st>> \in Seq(Steps \cup GoSteps) /\ Closed(<<st>>) /\ Len(<<st>>) = 1 /\ <<st>>[1] = st
  BY OneStep
<1>2. Tag(st) = st  BY StepsNames DEF Tag
<1>3. Keeps(f, p, st)  BY DEF Keeps
<1>4. \A i \in 1..1 : i = 1  OBVIOUS
<1> QED  BY <1>1, <1>2, <1>3, <1>4 DEF Stay

\* ... and two.
LEMMA StayTwo ==
  ASSUME NEW f, NEW p \in 0..11, NEW a \in Steps, NEW b \in Steps, MainMay(f, p, a), MainMay(f, p, b),
         a[1] \notin {"append", "replace"}, b[1] = "append" => a[1] = "lock", b[1] # "replace"
  PROVE  Stay(f, <<a, b>>, p, {<<p, a>>, <<p, b>>})
<1> DEFINE s == <<a, b>>
<1>1. /\ s \in Seq(Steps \cup GoSteps) /\ Len(s) = 2 /\ s[1] = a /\ s[2] = b  OBVIOUS
<1>2. Tag(a) = a /\ Tag(b) = b  BY StepsNames DEF Tag
<1>3. Keeps(f, p, a) /\ Keeps(f, p, b)  BY DEF Keeps
<1>4. (\A i \in 1..2 : i = 1 \/ i = 2) /\ (\A i \in 2..2 : i = 2) /\ 2 - 1 = 1 /\ 1 \in 1..2 /\ 2 \in 1..2 OBVIOUS
<1> HIDE DEF s
<1>5. Closed(s)  BY <1>1, <1>4 DEF Closed, Linked
<1>6. \A i \in 1..Len(s) : Keeps(f, p, s[i])  BY <1>1, <1>3, <1>4
<1>7. \A x \in {<<p, a>>, <<p, b>>} : \E i \in 1..Len(s) : x = <<p, Tag(s[i])>>  BY <1>1, <1>2, <1>4
<1> QED  BY <1>1, <1>5, <1>6, <1>7 DEF Stay, s

\* The beginning of a goroutine that does its part of the phase.
LEMMA StayGo ==
  ASSUME NEW f, NEW p \in 0..11, NEW u \in Containers, NEW sc, Fits(f, p, u, sc)
  PROVE  Stay(f, Go(u, sc), p, {<<p, u>>})
<1> DEFINE st == <<"go", u, sc>>
<1>1. st \in GoSteps /\ st[1] = "go" /\ st[2] = u /\ st[3] = sc  BY DEF GoSteps, Fits
<1> HIDE DEF st
<1>2. /\ <<st>> \in Seq(Steps \cup GoSteps) /\ Closed(<<st>>) /\ Len(<<st>>) = 1 /\ <<st>>[1] = st
  BY <1>1, OneStep
<1>3. Tag(st) = u  BY <1>1 DEF Tag
<1>4. Keeps(f, p, st)  BY <1>1 DEF Keeps
<1>5. \A i \in 1..1 : i = 1  OBVIOUS
<1>6. Stay(f, <<st>>, p, {<<p, u>>})  BY <1>2, <1>3, <1>4, <1>5 DEF Stay
<1> QED  BY <1>6 DEF Go, st

\* The elements of Do.
LEMMA DoSeq ==
  ASSUME NEW names \in Seq(Names)
  PROVE  /\ Do(names) \in Seq(Steps) /\ Len(Do(names)) = Len(names)
         /\ \A i \in 1..Len(names) : Do(names)[i] = <<names[i]>>
<1>1. DOMAIN names = 1..Len(names) /\ Len(names) \in Nat  OBVIOUS
<1>2. \A i \in 1..Len(names) : <<names[i]>> \in Steps  BY InSteps
<1>3. Do(names) = [i \in 1..Len(names) |-> <<names[i]>>]  BY <1>1 DEF Do
<1>4. Do(names) \in [1..Len(names) -> Steps]  BY <1>2, <1>3
<1> QED  BY <1>1, <1>3, <1>4, SeqDef

\* Do of one name,
LEMMA DoOne ==
  ASSUME NEW n
  PROVE  Do(<<n>>) = <<<<n>>>>
<1> DEFINE s == <<n>>
           t == <<<<n>>>>
<1>1. DOMAIN s = 1..1 /\ s[1] = n /\ DOMAIN t = 1..1 /\ t[1] = <<n>> /\ t = [i \in 1..1 |-> t[i]]  OBVIOUS
<1>2. \A i \in 1..1 : i = 1  OBVIOUS
<1> HIDE DEF s, t
<1>3. Do(s) = [i \in 1..1 |-> <<s[i]>>]  BY <1>1 DEF Do
<1>4. Do(s) = t  BY <1>1, <1>2, <1>3
<1> QED  BY <1>4 DEF s, t

\* ... of two.
LEMMA DoTwo ==
  ASSUME NEW a, NEW b
  PROVE  Do(<<a, b>>) = Do(<<a>>) \o Do(<<b>>)
<1> DEFINE s == <<a, b>>
           t == <<<<a>>>> \o <<<<b>>>>
<1>1. DOMAIN s = 1..2 /\ s[1] = a /\ s[2] = b  OBVIOUS
<1>2. DOMAIN t = 1..2 /\ t[1] = <<a>> /\ t[2] = <<b>> /\ t = [i \in 1..2 |-> t[i]]  OBVIOUS
<1>3. \A i \in 1..2 : i = 1 \/ i = 2  OBVIOUS
<1> HIDE DEF s, t
<1>4. Do(s) = [i \in 1..2 |-> <<s[i]>>]  BY <1>1 DEF Do
<1>5. Do(s) = t  BY <1>1, <1>2, <1>3, <1>4
<1> QED  BY <1>5, DoOne DEF s, t

\* Calls of Main that stay in the phase.
LEMMA StayDo ==
  ASSUME NEW f, NEW p \in 0..11, NEW names \in Seq(Names),
         \A i \in 1..Len(names) : names[i] \notin {"append", "replace"} /\ MainMay(f, p, <<names[i]>>)
  PROVE  Stay(f, Do(names), p, {})
<1>1. /\ Do(names) \in Seq(Steps) /\ Len(Do(names)) = Len(names) /\ Len(names) \in Nat
      /\ \A i \in 1..Len(names) : Do(names)[i] = <<names[i]>> /\ Do(names)[i] \in Steps
  BY DoSeq
<1> DEFINE s == Do(names)
<1> HIDE DEF s
<1>2. \A i \in 1..Len(s) : Keeps(f, p, s[i])
  <2> SUFFICES ASSUME NEW i \in 1..Len(s) PROVE Keeps(f, p, s[i])  OBVIOUS
  <2>1. i \in 1..Len(names) /\ s[i] = <<names[i]>> /\ s[i] \in Steps  BY <1>1 DEF s
  <2>2. MainMay(f, p, s[i])  BY <2>1
  <2> QED  BY <2>1, <2>2 DEF Keeps
<1>3. \A i \in 1..Len(s) : s[i][1] \notin {"append", "replace"}
  <2> SUFFICES ASSUME NEW i \in 1..Len(s) PROVE s[i][1] \notin {"append", "replace"}  OBVIOUS
  <2>1. i \in 1..Len(names) /\ s[i] = <<names[i]>>  BY <1>1 DEF s
  <2>2. <<names[i]>>[1] = names[i]  OBVIOUS
  <2> QED  BY <2>1, <2>2
<1>4. Closed(s)
  <2>1. \A i \in 2..Len(s) : i \in 1..Len(s)  BY <1>1 DEF s
  <2>2. s # <<>> => 1 \in 1..Len(s)  BY <1>1 DEF s
  <2> QED  BY <1>3, <2>1, <2>2 DEF Closed, Linked
<1>5. s \in Seq(Steps \cup GoSteps)  BY <1>1 DEF s
<1> QED  BY <1>2, <1>4, <1>5 DEF Stay, s

----------------------------------------------------------------------------
(* ... pieces of a goroutine's script, *)

\* A piece of a goroutine's script: its ranks are above lo and up to hi, and it has the steps M.
Part(f, p, u, s, lo, hi, M) ==
  /\ s \in Seq(Steps) /\ Closed(s) /\ Sorted(s) /\ lo \in Nat /\ hi \in Nat /\ lo <= hi
  /\ \A i \in 1..Len(s) : May(f, p, u, s[i]) /\ (Rank(s[i][1]) # 0 => lo < Rank(s[i][1]) /\ Rank(s[i][1]) <= hi)
  /\ \A x \in M : In(x, s)

\* Pieces with increasing ranks.
LEMMA PartConcat ==
  ASSUME NEW f, NEW p, NEW u, NEW a, NEW b, NEW lo, NEW m, NEW hi, NEW M, NEW N,
         Part(f, p, u, a, lo, m, M), Part(f, p, u, b, m, hi, N)
  PROVE  Part(f, p, u, a \o b, lo, hi, M \cup N)
<1> DEFINE s == a \o b
           r(x) == Rank(x[1])
<1>1. a \in Seq(Steps) /\ b \in Seq(Steps) /\ lo \in Nat /\ m \in Nat /\ hi \in Nat /\ lo <= m /\ m <= hi  BY DEF Part
<1>2. Closed(s)  BY <1>1, ClosedConcat DEF Part
<1>3. /\ s \in Seq(Steps) /\ Len(s) = Len(a) + Len(b) /\ Len(a) \in Nat /\ Len(b) \in Nat
      /\ \A i \in 1..Len(a) : s[i] = a[i] /\ i \in 1..Len(s)
      /\ \A i \in 1..Len(b) : s[Len(a) + i] = b[i] /\ Len(a) + i \in 1..Len(s)
      /\ \A i \in 1..Len(s) : i \in 1..Len(a) \/ (i - Len(a) \in 1..Len(b) /\ s[i] = b[i - Len(a)])
  BY <1>1, ConcatFacts
<1>4. \A x : r(x) \in Nat  BY RankNat
<1>5. /\ \A i \in 1..Len(a) : May(f, p, u, a[i]) /\ (r(a[i]) # 0 => lo < r(a[i]) /\ r(a[i]) <= m)
      /\ \A i \in 1..Len(b) : May(f, p, u, b[i]) /\ (r(b[i]) # 0 => m < r(b[i]) /\ r(b[i]) <= hi)
      /\ \A i, j \in 1..Len(a) : i < j /\ r(a[i]) # 0 /\ r(a[j]) # 0 => r(a[i]) < r(a[j])
      /\ \A i, j \in 1..Len(b) : i < j /\ r(b[i]) # 0 /\ r(b[j]) # 0 => r(b[i]) < r(b[j])
  BY DEF Part, Sorted
<1> HIDE DEF s, r
<1>6. \A i \in 1..Len(s) : May(f, p, u, s[i]) /\ (r(s[i]) # 0 => lo < r(s[i]) /\ r(s[i]) <= hi)
  <2> SUFFICES ASSUME NEW i \in 1..Len(s) PROVE May(f, p, u, s[i]) /\ (r(s[i]) # 0 => lo < r(s[i]) /\ r(s[i]) <= hi)
    OBVIOUS
  <2>1. CASE i \in 1..Len(a)
    <3>1. s[i] = a[i]  BY <1>3, <2>1
    <3> QED  BY <1>1, <1>4, <1>5, <2>1, <3>1
  <2>2. CASE i - Len(a) \in 1..Len(b) /\ s[i] = b[i - Len(a)]  BY <1>1, <1>4, <1>5, <2>2
  <2> QED  BY <1>3, <2>1, <2>2
<1>7. ASSUME NEW i \in 1..Len(s), NEW j \in 1..Len(s), i < j, r(s[i]) # 0, r(s[j]) # 0 PROVE r(s[i]) < r(s[j])
  <2>1. CASE j \in 1..Len(a)
    <3>1. i \in 1..Len(a) /\ s[i] = a[i] /\ s[j] = a[j]  BY <1>3, <1>7, <2>1
    <3> QED  BY <1>5, <1>7, <2>1, <3>1
  <2>2. CASE i \notin 1..Len(a)
    <3>1. j \notin 1..Len(a)  BY <1>3, <1>7, <2>2
    <3> DEFINE k == i - Len(a)
               l == j - Len(a)
    <3>2. k \in 1..Len(b) /\ s[i] = b[k] /\ l \in 1..Len(b) /\ s[j] = b[l]  BY <1>3, <2>2, <3>1
    <3>3. k < l  BY <1>3, <1>7
    <3> HIDE DEF k, l
    <3> QED  BY <1>5, <1>7, <3>2, <3>3
  <2>3. CASE i \in 1..Len(a) /\ j \notin 1..Len(a)
    <3> DEFINE l == j - Len(a)
    <3>1. s[i] = a[i] /\ l \in 1..Len(b) /\ s[j] = b[l]  BY <1>3, <2>3
    <3> HIDE DEF l
    <3>2. r(s[i]) <= m /\ m < r(s[j])  BY <1>5, <1>7, <2>3, <3>1
    <3> QED  BY <1>1, <1>4, <3>2
  <2> QED  BY <2>1, <2>2, <2>3
<1>8. \A x \in M \cup N : In(x, s)
  <2>1. ASSUME NEW x \in M PROVE In(x, s)
    <3>1. PICK i \in 1..Len(a) : a[i] = x  BY DEF Part, In
    <3> QED  BY <1>3, <3>1 DEF In
  <2>2. ASSUME NEW x \in N PROVE In(x, s)
    <3>1. PICK i \in 1..Len(b) : b[i] = x  BY DEF Part, In
    <3> QED  BY <1>3, <3>1 DEF In
  <2> QED  BY <2>1, <2>2
<1>9. Sorted(s)  BY <1>7 DEF Sorted, r
<1>10. lo <= hi  BY <1>1
<1>11. \A i \in 1..Len(s) : May(f, p, u, s[i]) /\ (Rank(s[i][1]) # 0 => lo < Rank(s[i][1]) /\ Rank(s[i][1]) <= hi)
  BY <1>6 DEF r
<1>12. Part(f, p, u, s, lo, hi, M \cup N)
  BY <1>1, <1>2, <1>3, <1>8, <1>9, <1>10, <1>11 DEF Part
<1> QED  BY <1>12 DEF s

\* The empty piece.
LEMMA PartNil == ASSUME NEW f, NEW p, NEW u, NEW lo \in Nat, NEW hi \in Nat, lo <= hi PROVE Part(f, p, u, <<>>, lo, hi, {})
<1>1. 2..Len(<<>>) = {} /\ 1..Len(<<>>) = {} /\ <<>> \in Seq(Steps)  OBVIOUS
<1> QED  BY <1>1 DEF Part, Closed, Linked, Sorted

\* A piece under a higher bound.
LEMMA PartUp ==
  ASSUME NEW f, NEW p, NEW u, NEW s, NEW lo, NEW hi, NEW M, Part(f, p, u, s, lo, hi, M), NEW h \in Nat, hi <= h
  PROVE  Part(f, p, u, s, lo, h, M)
<1>1. \A n : Rank(n) \in Nat  BY RankNat
<1> QED  BY <1>1 DEF Part

\* One step.
Piece(f, p, u, n, lo, hi) ==
  /\ n \in Names /\ May(f, p, u, <<n>>) /\ n \notin {"append", "replace"}
  /\ lo \in Nat /\ hi \in Nat /\ lo <= hi /\ (Rank(n) # 0 => lo < Rank(n) /\ Rank(n) <= hi)

\* A piece of one step.
LEMMA PartStep ==
  ASSUME NEW f, NEW p, NEW u, NEW st \in Steps, NEW lo \in Nat, NEW hi \in Nat, lo <= hi, May(f, p, u, st),
         st[1] \notin {"append", "replace"}, Rank(st[1]) # 0 => lo < Rank(st[1]) /\ Rank(st[1]) <= hi
  PROVE  Part(f, p, u, <<st>>, lo, hi, {st})
<1>1. <<st>> \in Seq(Steps) /\ Len(<<st>>) = 1 /\ <<st>>[1] = st /\ 2..1 = {} /\ 1 \in 1..1 /\ \A i \in 1..1 : i = 1
  OBVIOUS
<1>2. Closed(<<st>>)  BY OneStep
<1>3. Sorted(<<st>>)  BY <1>1 DEF Sorted
<1>4. In(st, <<st>>)  BY <1>1 DEF In
<1> QED  BY <1>1, <1>2, <1>3, <1>4 DEF Part

\* A call,
LEMMA PartOne ==
  ASSUME NEW f, NEW p, NEW u, NEW a, NEW lo, NEW hi, Piece(f, p, u, a, lo, hi)
  PROVE  Part(f, p, u, Do(<<a>>), lo, hi, {<<a>>})
<1>1. <<a>> \in Steps /\ <<a>>[1] = a  BY InSteps DEF Piece
<1>2. Part(f, p, u, <<<<a>>>>, lo, hi, {<<a>>})  BY <1>1, PartStep DEF Piece
<1> QED  BY <1>2, DoOne

\* ... two calls.
LEMMA PartTwo ==
  ASSUME NEW f, NEW p, NEW u, NEW a, NEW b, NEW lo, NEW m, NEW hi, Piece(f, p, u, a, lo, m), Piece(f, p, u, b, m, hi)
  PROVE  Part(f, p, u, Do(<<a, b>>), lo, hi, {<<a>>, <<b>>})
<1>1. Part(f, p, u, Do(<<a>>), lo, m, {<<a>>}) /\ Part(f, p, u, Do(<<b>>), m, hi, {<<b>>})  BY PartOne
<1>2. Part(f, p, u, Do(<<a>>) \o Do(<<b>>), lo, hi, {<<a>>} \cup {<<b>>})  BY <1>1, PartConcat
<1>3. {<<a>>} \cup {<<b>>} = {<<a>>, <<b>>}  OBVIOUS
<1> QED  BY <1>2, <1>3, DoTwo

\* Do of one list of names after another.
LEMMA DoConcat ==
  ASSUME NEW S, NEW a \in Seq(S), NEW b \in Seq(S)
  PROVE  Do(a \o b) = Do(a) \o Do(b)
<1> DEFINE s == a \o b
           T == {<<x>> : x \in S}
<1>1. /\ s \in Seq(S) /\ Len(s) = Len(a) + Len(b) /\ Len(a) \in Nat /\ Len(b) \in Nat
      /\ \A i \in 1..Len(a) : s[i] = a[i] /\ i \in 1..Len(s)
      /\ \A i \in 1..Len(b) : s[Len(a) + i] = b[i] /\ Len(a) + i \in 1..Len(s)
      /\ \A i \in 1..Len(s) : i \in 1..Len(a) \/ (i - Len(a) \in 1..Len(b) /\ s[i] = b[i - Len(a)])
  BY ConcatFacts
<1> HIDE DEF s
<1>2. \A x \in Seq(S) : /\ Do(x) \in Seq(T) /\ Len(Do(x)) = Len(x)
                        /\ \A i \in 1..Len(x) : Do(x)[i] = <<x[i]>>
  <2> SUFFICES ASSUME NEW x \in Seq(S)
               PROVE  Do(x) \in Seq(T) /\ Len(Do(x)) = Len(x) /\ \A i \in 1..Len(x) : Do(x)[i] = <<x[i]>>
    OBVIOUS
  <2>1. DOMAIN x = 1..Len(x) /\ Len(x) \in Nat  OBVIOUS
  <2>2. \A i \in 1..Len(x) : <<x[i]>> \in T  OBVIOUS
  <2> HIDE DEF T
  <2>3. Do(x) = [i \in 1..Len(x) |-> <<x[i]>>]  BY <2>1 DEF Do
  <2>4. Do(x) \in [1..Len(x) -> T]  BY <2>2, <2>3
  <2> QED  BY <2>1, <2>3, <2>4, SeqDef, SMTT(60)
<1> DEFINE x == Do(a)
           y == Do(b)
           z == Do(s)
<1>3. x \in Seq(T) /\ y \in Seq(T) /\ z \in Seq(T) /\ Len(x) = Len(a) /\ Len(y) = Len(b) /\ Len(z) = Len(s)
  BY <1>1, <1>2
<1>4. /\ \A i \in 1..Len(a) : x[i] = <<a[i]>>
      /\ \A i \in 1..Len(b) : y[i] = <<b[i]>>
      /\ \A i \in 1..Len(s) : z[i] = <<s[i]>>
  BY <1>1, <1>2
<1>0. x \in Seq(T) /\ y \in Seq(T)  BY <1>3
<1> HIDE DEF T, x, y, z
<1>5. /\ x \o y \in Seq(T) /\ Len(x \o y) = Len(x) + Len(y)
      /\ \A i \in 1..Len(x) : (x \o y)[i] = x[i]
      /\ \A i \in 1..Len(y) : (x \o y)[Len(x) + i] = y[i]
  BY <1>0, ConcatFacts
<1>6. ASSUME NEW i \in 1..Len(s) PROVE (x \o y)[i] = z[i]
  <2>1. CASE i \in 1..Len(a)
    <3>1. (x \o y)[i] = x[i]  BY <1>3, <1>5, <2>1
    <3>2. s[i] = a[i]  BY <1>1, <2>1
    <3>3. x[i] = <<a[i]>> /\ z[i] = <<s[i]>>  BY <1>4, <2>1
    <3> QED  BY <3>1, <3>2, <3>3
  <2>2. CASE i - Len(a) \in 1..Len(b) /\ s[i] = b[i - Len(a)]
    <3>1. i = Len(a) + (i - Len(a))  BY <1>1
    <3>2. (x \o y)[i] = y[i - Len(a)]
      <4> DEFINE j == i - Len(a)
      <4>1. j \in 1..Len(y) /\ i = Len(x) + j  BY <1>3, <2>2, <3>1
      <4> HIDE DEF j
      <4>2. (x \o y)[i] = y[j]  BY <1>5, <4>1
      <4> QED  BY <4>2 DEF j
    <3>3. y[i - Len(a)] = <<b[i - Len(a)]>> /\ z[i] = <<s[i]>>  BY <1>4, <2>2
    <3> QED  BY <2>2, <3>2, <3>3
  <2> QED  BY <1>1, <2>1, <2>2
<1>7. x \o y = z
  <2>1. Len(x \o y) = Len(z)  BY <1>1, <1>3, <1>5
  <2> QED  BY <1>3, <1>5, <1>6, <2>1, SeqEqual
<1> QED  BY <1>7 DEF s, x, y, z

\* Do of three names,
LEMMA DoThree ==
  ASSUME NEW a, NEW b, NEW c
  PROVE  Do(<<a, b, c>>) = Do(<<a, b>>) \o Do(<<c>>)
<1> DEFINE S == {a, b, c}
           s == <<a, b, c>>
           x == <<a, b>>
           y == <<c>>
<1>1. x \in Seq(S) /\ y \in Seq(S) /\ Len(x) = 2 /\ Len(y) = 1 /\ x[1] = a /\ x[2] = b /\ y[1] = c  OBVIOUS
<1>2. s \in Seq(S) /\ Len(s) = 3 /\ s[1] = a /\ s[2] = b /\ s[3] = c  BY SMTT(20)
<1>0. x \in Seq(S) /\ y \in Seq(S)  BY <1>1
<1> HIDE DEF S, s, x, y
<1>3. /\ x \o y \in Seq(S) /\ Len(x \o y) = Len(x) + Len(y)
      /\ \A i \in 1..Len(x) : (x \o y)[i] = x[i]
      /\ \A i \in 1..Len(y) : (x \o y)[Len(x) + i] = y[i]
  BY <1>0, ConcatFacts
<1>4. \A i \in 1..3 : i = 1 \/ i = 2 \/ i = 3  OBVIOUS
<1>a. (x \o y)[1] = s[1] /\ (x \o y)[2] = s[2] /\ (x \o y)[3] = s[3]
  BY <1>1, <1>2, <1>3
<1>b. Len(x \o y) = 3  BY <1>1, <1>3
<1>5. \A i \in 1..3 : (x \o y)[i] = s[i]  BY <1>4, <1>a
<1>6. x \o y = s  BY <1>2, <1>3, <1>5, <1>b, SeqEqual
<1>7. Do(x \o y) = Do(x) \o Do(y)  BY <1>1, DoConcat
<1> QED  BY <1>6, <1>7 DEF s, x, y

\* ... of four, in two halves.
Halves(a, b, c, d) == Do(<<a, b>>) \o Do(<<c, d>>)

\* Do of four names.
LEMMA DoFour ==
  ASSUME NEW a, NEW b, NEW c, NEW d
  PROVE  Do(<<a, b, c, d>>) = Halves(a, b, c, d)
<1> DEFINE S == {a, b, c, d}
           s == <<a, b, c, d>>
           x == <<a, b>>
           y == <<c, d>>
<1>1. /\ x \in Seq(S) /\ y \in Seq(S) /\ Len(x) = 2 /\ Len(y) = 2
      /\ x[1] = a /\ x[2] = b /\ y[1] = c /\ y[2] = d
  OBVIOUS
<1>2. s \in Seq(S) /\ Len(s) = 4 /\ s[1] = a /\ s[2] = b /\ s[3] = c /\ s[4] = d  BY SMTT(20)
<1>0. x \in Seq(S) /\ y \in Seq(S)  BY <1>1
<1> HIDE DEF S, s, x, y
<1>3. /\ x \o y \in Seq(S) /\ Len(x \o y) = Len(x) + Len(y)
      /\ \A i \in 1..Len(x) : (x \o y)[i] = x[i]
      /\ \A i \in 1..Len(y) : (x \o y)[Len(x) + i] = y[i]
  BY <1>0, ConcatFacts
<1>4. \A i \in 1..4 : i = 1 \/ i = 2 \/ i = 3 \/ i = 4  OBVIOUS
<1>a. (x \o y)[1] = s[1] /\ (x \o y)[2] = s[2] /\ (x \o y)[3] = s[3] /\ (x \o y)[4] = s[4]
  BY <1>1, <1>2, <1>3
<1>b. Len(x \o y) = 4  BY <1>1, <1>3
<1>5. \A i \in 1..4 : (x \o y)[i] = s[i]  BY <1>4, <1>a
<1>6. x \o y = s  BY <1>2, <1>3, <1>5, <1>b, SeqEqual
<1>7. Do(x \o y) = Do(x) \o Do(y)  BY <1>1, DoConcat
<1> QED  BY <1>6, <1>7 DEF s, x, y, Halves

\* Three calls in the order of their ranks,
LEMMA PartThree ==
  ASSUME NEW f, NEW p, NEW u, NEW a, NEW b, NEW c, NEW lo, NEW k, NEW m, NEW hi,
         Piece(f, p, u, a, lo, k), Piece(f, p, u, b, k, m), Piece(f, p, u, c, m, hi)
  PROVE  Part(f, p, u, Do(<<a, b, c>>), lo, hi, {<<a>>, <<b>>, <<c>>})
<1>1. Part(f, p, u, Do(<<a, b>>), lo, m, {<<a>>, <<b>>}) /\ Part(f, p, u, Do(<<c>>), m, hi, {<<c>>})
  BY PartOne, PartTwo
<1>2. Part(f, p, u, Do(<<a, b>>) \o Do(<<c>>), lo, hi, {<<a>>, <<b>>} \cup {<<c>>})  BY <1>1, PartConcat
<1>3. {<<a>>, <<b>>} \cup {<<c>>} = {<<a>>, <<b>>, <<c>>}  OBVIOUS
<1>4. Do(<<a, b, c>>) = Do(<<a, b>>) \o Do(<<c>>)  BY DoThree, Zenon
<1> DEFINE x == Do(<<a, b, c>>)
           y == Do(<<a, b>>) \o Do(<<c>>)
           M == {<<a>>, <<b>>} \cup {<<c>>}
           N == {<<a>>, <<b>>, <<c>>}
<1>5. x = y /\ M = N /\ Part(f, p, u, y, lo, hi, M)  BY <1>2, <1>3, <1>4
<1> HIDE DEF x, y, M, N
<1>6. Part(f, p, u, x, lo, hi, N)  BY <1>5
<1> QED  BY <1>6 DEF x, N

\* ... and four.
LEMMA PartFour ==
  ASSUME NEW f, NEW p, NEW u, NEW a, NEW b, NEW c, NEW d, NEW lo, NEW k, NEW l, NEW m, NEW hi,
         Piece(f, p, u, a, lo, k), Piece(f, p, u, b, k, l), Piece(f, p, u, c, l, m), Piece(f, p, u, d, m, hi)
  PROVE  Part(f, p, u, Do(<<a, b, c, d>>), lo, hi, {<<a>>, <<b>>, <<c>>, <<d>>})
<1>1. Part(f, p, u, Do(<<a, b>>), lo, l, {<<a>>, <<b>>}) /\ Part(f, p, u, Do(<<c, d>>), l, hi, {<<c>>, <<d>>})
  BY PartTwo
<1>2. Part(f, p, u, Do(<<a, b>>) \o Do(<<c, d>>), lo, hi, {<<a>>, <<b>>} \cup {<<c>>, <<d>>})  BY <1>1, PartConcat
<1>3. {<<a>>, <<b>>} \cup {<<c>>, <<d>>} = {<<a>>, <<b>>, <<c>>, <<d>>}  OBVIOUS
<1>4. Do(<<a, b, c, d>>) = Halves(a, b, c, d)  BY DoFour
<1> DEFINE x == Do(<<a, b, c, d>>)
           y == Halves(a, b, c, d)
           M == {<<a>>, <<b>>} \cup {<<c>>, <<d>>}
           N == {<<a>>, <<b>>, <<c>>, <<d>>}
<1>5. x = y /\ M = N /\ Part(f, p, u, y, lo, hi, M)  BY <1>2, <1>3, <1>4 DEF Halves
<1> HIDE DEF x, y, M, N
<1>6. Part(f, p, u, x, lo, hi, N)  BY <1>5
<1> QED  BY <1>6 DEF x, N

\* A piece that has all a phase needs is a script for it.
LEMMA PartFits ==
  ASSUME NEW f, NEW p, NEW u, NEW s, NEW lo, NEW hi, NEW M, Part(f, p, u, s, lo, hi, M),
         \A st \in Steps : Must(f, p, u, st) => st \in M
  PROVE  Fits(f, p, u, s)
BY DEF Part, Fits

\* The ranks of the names there are.
LEMMA Ranks ==
  /\ Rank("readArchive") = 1 /\ Rank("openArchive") = 2 /\ Rank("writeArchive") = 3
  /\ Rank("readKeyOfNode") = 4 /\ Rank("readValidatorWallet") = 4 /\ Rank("writeKey") = 5
  /\ Rank("copyRawSpec") = 6 /\ Rank("create") = 7 /\ Rank("start") = 8
  /\ \A n \in Calls \cup {"initFiles", "register", "newNode", "define", "lock", "append", "lockGenesis", "replace",
                          "fund", "copySpec"} : Rank(n) = 0
<1>1. \A n : n \notin {"readArchive", "openArchive", "writeArchive", "readKeyOfNode", "readValidatorWallet", "writeKey",
                       "copyRawSpec", "create", "start"} => Rank(n) = 0
  BY DEF Rank
<1>2. \A n \in Calls \cup {"initFiles", "register", "newNode", "define", "lock", "append", "lockGenesis", "replace",
                           "fund", "copySpec"} :
        n \notin {"readArchive", "openArchive", "writeArchive", "readKeyOfNode", "readValidatorWallet", "writeKey",
                  "copyRawSpec", "create", "start"}
  BY DEF Calls
<1>3. \A n \in Calls \cup {"initFiles", "register", "newNode", "define", "lock", "append", "lockGenesis", "replace",
                           "fund", "copySpec"} : Rank(n) = 0
  BY <1>1, <1>2
<1> QED  BY <1>3 DEF Rank

----------------------------------------------------------------------------
(* ... and the scripts of the goroutines. *)

\* What an argument may be, and the constants that are numbers.
LEMMA ArgsHave ==
  /\ Validators \subseteq Args /\ 1..NumRelay \subseteq Args /\ Paras \subseteq Args /\ Range(Wallets) \subseteq Args
  /\ GasPayer \in Args /\ Bond \in Args /\ Range(NodeAccountFields) \subseteq Args /\ Nodes \subseteq Args
  /\ Containers \subseteq Args
  /\ Validators \subseteq Nodes /\ 1 \in Validators /\ NumValidators \in Nat \ {0} /\ NumFullNodes \in Nat
  /\ NumSidecars \in Nat /\ NumRelay \in Nat \ {0} /\ 1 \in 1..NumRelay
<1>1. Validators \subseteq Nodes /\ 1 \in Validators /\ 1 \in 1..NumRelay  BY StartAssumption DEF Validators, Nodes
<1> QED  BY <1>1, StartAssumption DEF Args

\* Calls that have no rank.
Silent == Calls \cup {"initFiles", "register"}

\* A call without a rank fits anywhere.
LEMMA SilentPiece ==
  ASSUME NEW f, NEW p, NEW u, NEW n \in Silent, May(f, p, u, <<n>>), NEW m \in Nat
  PROVE  Piece(f, p, u, n, m, m)
<1>1. n \in Names /\ n \notin {"append", "replace"}  BY DEF Silent, Names, Calls
<1>2. Rank(n) = 0  BY Ranks DEF Silent
<1> QED  BY <1>1, <1>2 DEF Piece

\* A call with a rank fits between the bounds its rank lies in:
LEMMA RankedPiece ==
  ASSUME NEW f, NEW p, NEW u, NEW lo \in Nat, NEW hi \in Nat,
         NEW n \in {"readArchive", "openArchive", "writeArchive", "readKeyOfNode", "readValidatorWallet", "writeKey",
                    "copyRawSpec", "create", "start"},
         May(f, p, u, <<n>>), lo < Rank(n), Rank(n) <= hi
  PROVE  Piece(f, p, u, n, lo, hi)
<1>1. n \in Names /\ n \notin {"append", "replace"}  BY DEF Names
<1>2. Rank(n) \in Nat  BY RankNat
<1>3. lo <= hi  BY <1>2
<1> QED  BY <1>1, <1>2, <1>3 DEF Piece

\* ... a creation,
LEMMA CreatePiece ==
  ASSUME NEW f, NEW p, NEW u, May(f, p, u, <<"create">>), NEW lo \in 0..6
  PROVE  Piece(f, p, u, "create", lo, 7)
<1>1. Rank("create") = 7 /\ lo \in Nat /\ 7 \in Nat /\ lo < 7 /\ 7 <= 7  BY Ranks
<1> QED  BY <1>1, RankedPiece

\* ... a start.
LEMMA StartPiece ==
  ASSUME NEW f, NEW p, NEW u, May(f, p, u, <<"start">>), NEW lo \in 0..7
  PROVE  Piece(f, p, u, "start", lo, 8)
<1>1. Rank("start") = 8 /\ lo \in Nat /\ 8 \in Nat /\ lo < 8 /\ 8 <= 8  BY Ranks
<1> QED  BY <1>1, RankedPiece

\* Two pieces one after another.
LEMMA PartJoin ==
  ASSUME NEW f, NEW p, NEW u, NEW a, NEW b, NEW lo, NEW m, NEW hi,
         \E M : Part(f, p, u, a, lo, m, M), \E M : Part(f, p, u, b, m, hi, M)
  PROVE  \E M : Part(f, p, u, a \o b, lo, hi, M)
<1>1. PICK M : Part(f, p, u, a, lo, m, M)  OBVIOUS
<1>2. PICK N : Part(f, p, u, b, m, hi, N)  OBVIOUS
<1>3. Part(f, p, u, a \o b, lo, hi, M \cup N)  BY <1>1, <1>2, PartConcat
<1> QED  BY <1>3

----------------------------------------------------------------------------
(* penumbra *)

\* The script of a penumbra validator, with its lock and its append, does what phase 1 needs.
LEMMA FitsPenumbraValidator ==
  ASSUME NEW u, u[1] = "tm", u[2] \in Validators
  PROVE  Fits("penumbra", 1, u, PenumbraValidator(u[2]))
<1> DEFINE v == u[2]
           f == "penumbra"
<1>1. \A st \in {<<"initFiles">>, <<"readKey">>, <<"createKey">>, <<"template">>, <<"define", v>>, <<"lock">>,
                 <<"append", v>>} : May(f, 1, u, st)
  BY DEF May, PenumbraMay
<1>2. v \in Args  BY ArgsHave
<1> HIDE DEF v, f
<1>3. Part(f, 1, u, Do(<<"initFiles", "readKey", "createKey", "template">>), 0, 0,
           {<<"initFiles">>, <<"readKey">>, <<"createKey">>, <<"template">>})
  <2>1. /\ Piece(f, 1, u, "initFiles", 0, 0) /\ Piece(f, 1, u, "readKey", 0, 0)
        /\ Piece(f, 1, u, "createKey", 0, 0) /\ Piece(f, 1, u, "template", 0, 0)
    <3>1. {"initFiles", "readKey", "createKey", "template"} \subseteq Silent /\ 0 \in Nat  BY DEF Silent, Calls
    <3> QED  BY <1>1, <3>1, SilentPiece
  <2> QED  BY <2>1, PartFour
<1> DEFINE a == <<"define", v>>
           b == <<"lock">>
           c == <<"append", v>>
           s == <<a, b, c>>
<1>4. Part(f, 1, u, s, 0, 0, {a, b, c})
  <2>1. a \in Steps /\ b \in Steps /\ c \in Steps
    <3>1. "define" \in Names /\ "lock" \in Names /\ "append" \in Names  BY DEF Names
    <3> QED  BY <1>2, <3>1, InSteps
  <2>2. /\ a[1] = "define" /\ b[1] = "lock" /\ c[1] = "append" /\ May(f, 1, u, a) /\ May(f, 1, u, b) /\ May(f, 1, u, c)
    BY <1>1
  <2>3. Rank(a[1]) = 0 /\ Rank(b[1]) = 0 /\ Rank(c[1]) = 0  BY <2>2, Ranks
  <2> HIDE DEF a, b, c
  <2>4. s \in Seq(Steps) /\ Len(s) = 3 /\ s[1] = a /\ s[2] = b /\ s[3] = c  BY <2>1
  <2>5. (\A i \in 1..3 : i = 1 \/ i = 2 \/ i = 3) /\ (\A i \in 2..3 : i = 2 \/ i = 3) /\ 2 - 1 = 1 /\ 3 - 1 = 2
        /\ 1 \in 1..3 /\ 2 \in 1..3 /\ 3 \in 1..3
    OBVIOUS
  <2> HIDE DEF s
  <2>6. Closed(s)  BY <2>2, <2>4, <2>5 DEF Closed, Linked
  <2>7. \A i \in 1..3 : May(f, 1, u, s[i]) /\ Rank(s[i][1]) = 0  BY <2>2, <2>3, <2>4, <2>5
  <2>8. Sorted(s)  BY <2>4, <2>7 DEF Sorted
  <2>9. In(a, s) /\ In(b, s) /\ In(c, s)  BY <2>4, <2>5 DEF In
  <2> QED  BY <2>4, <2>6, <2>7, <2>8, <2>9 DEF Part
<1> DEFINE M == {<<"initFiles">>, <<"readKey">>, <<"createKey">>, <<"template">>} \cup {a, b, c}
<1>5. Part(f, 1, u, Do(<<"initFiles", "readKey", "createKey", "template">>) \o s, 0, 0, M)  BY <1>3, <1>4, PartConcat
<1>6. \A st \in Steps : Must(f, 1, u, st) => st \in M  BY DEF Must, v, f, ThorFamilies
<1>7. Fits(f, 1, u, Do(<<"initFiles", "readKey", "createKey", "template">>) \o s)
  <2> HIDE DEF M, s
  <2> QED  BY <1>5, <1>6, PartFits
<1> QED  BY <1>7 DEF PenumbraValidator, v, f

\* ... and the other scripts of a penumbra chain what their phases do.
LEMMA FitsPenumbra ==
  ASSUME NEW u
  PROVE  /\ u[1] = "tm" /\ u[2] \notin Validators => Fits("penumbra", 1, u, Do(<<"initFiles">>))
         /\ u[1] = "tm" /\ u[2] \in Validators => Fits("penumbra", 3, u, Do(<<"readKeyOfNode", "writeKey">>))
         /\ u[1] \in {"tm", "app"} => Fits("penumbra", 7, u, Do(<<"create">>))
         /\ u[1] = "tm" => Fits("penumbra", 8, u, SetConfigAndPeers \o TendermintStartContainer)
         /\ u[1] = "app" => Fits("penumbra", 8, u, AppStartContainer)
         /\ u[1] = "client" => Fits("penumbra", 10, u, Do(<<"readConfig">>) \o CreateClientNode)
<1> DEFINE f == "penumbra"
<1>1. ASSUME u[1] = "tm", u[2] \notin Validators PROVE Fits("penumbra", 1, u, Do(<<"initFiles">>))
  <2>1. May(f, 1, u, <<"initFiles">>)  BY <1>1 DEF May, PenumbraMay
  <2>2. \A st \in Steps : Must(f, 1, u, st) => st \in {<<"initFiles">>}  BY <1>1 DEF Must, ThorFamilies
  <2> HIDE DEF f
  <2>3. Piece(f, 1, u, "initFiles", 0, 0)  BY <2>1, SilentPiece DEF Silent
  <2>4. Fits(f, 1, u, Do(<<"initFiles">>))  BY <2>2, <2>3, PartOne, PartFits
  <2> QED  BY <2>4 DEF f
<1>2. ASSUME u[1] = "tm", u[2] \in Validators PROVE Fits("penumbra", 3, u, Do(<<"readKeyOfNode", "writeKey">>))
  <2>1. May(f, 3, u, <<"readKeyOfNode">>) /\ May(f, 3, u, <<"writeKey">>)  BY <1>2 DEF May, PenumbraMay
  <2>2. \A st \in Steps : Must(f, 3, u, st) => st \in {<<"readKeyOfNode">>, <<"writeKey">>}
    BY <1>2 DEF Must, ThorFamilies
  <2> HIDE DEF f
  <2>3. Piece(f, 3, u, "readKeyOfNode", 0, 4) /\ Piece(f, 3, u, "writeKey", 4, 5)  BY <2>1, RankedPiece, Ranks
  <2>4. Fits(f, 3, u, Do(<<"readKeyOfNode", "writeKey">>))  BY <2>2, <2>3, PartTwo, PartFits
  <2> QED  BY <2>4 DEF f
<1>3. ASSUME u[1] \in {"tm", "app"} PROVE Fits("penumbra", 7, u, Do(<<"create">>))
  <2>1. May(f, 7, u, <<"create">>)  BY <1>3 DEF May, PenumbraMay
  <2>2. \A st \in Steps : Must(f, 7, u, st) => st \in {<<"create">>}  BY <1>3 DEF Must, ThorFamilies
  <2> HIDE DEF f
  <2>3. Piece(f, 7, u, "create", 0, 7)  BY <2>1, CreatePiece
  <2>4. Fits(f, 7, u, Do(<<"create">>))  BY <2>2, <2>3, PartOne, PartFits
  <2> QED  BY <2>4 DEF f
<1>4. ASSUME u[1] \in {"tm", "app"}
      PROVE  /\ \A st \in {<<"config">>, <<"start">>, <<"ready">>, <<"ports">>} : May(f, 8, u, st)
             /\ \A st \in Steps : Must(f, 8, u, st) => st = <<"start">>
             /\ Piece(f, 8, u, "config", 0, 0) /\ Piece(f, 8, u, "start", 0, 8)
             /\ Piece(f, 8, u, "ready", 8, 8) /\ Piece(f, 8, u, "ports", 8, 8)
  <2>1. \A st \in {<<"config">>, <<"start">>, <<"ready">>, <<"ports">>} : May(f, 8, u, st)
    BY <1>4 DEF May, PenumbraMay
  <2>2. \A st \in Steps : Must(f, 8, u, st) => st = <<"start">>  BY <1>4 DEF Must, ThorFamilies
  <2> HIDE DEF f
  <2>3. {"config", "ready", "ports"} \subseteq Silent  BY DEF Silent, Calls
  <2>4. Piece(f, 8, u, "config", 0, 0) /\ Piece(f, 8, u, "ready", 8, 8) /\ Piece(f, 8, u, "ports", 8, 8)
    BY <2>1, <2>3, SilentPiece
  <2>5. Piece(f, 8, u, "start", 0, 8)  BY <2>1, RankedPiece, Ranks
  <2> QED  BY <2>1, <2>2, <2>4, <2>5
<1>5. ASSUME u[1] = "tm" PROVE Fits("penumbra", 8, u, SetConfigAndPeers \o TendermintStartContainer)
  <2> HIDE DEF f
  <2>1. Part(f, 8, u, Do(<<"config">>), 0, 0, {<<"config">>})  BY <1>4, <1>5, PartOne
  <2>2. Part(f, 8, u, Do(<<"start", "ready">>), 0, 8, {<<"start">>, <<"ready">>})  BY <1>4, <1>5, PartTwo
  <2>3. Part(f, 8, u, Do(<<"config">>) \o Do(<<"start", "ready">>), 0, 8, {<<"config">>} \cup {<<"start">>, <<"ready">>})
    BY <2>1, <2>2, PartConcat
  <2>4. \A st \in Steps : Must(f, 8, u, st) => st \in {<<"config">>} \cup {<<"start">>, <<"ready">>}  BY <1>4, <1>5
  <2>5. Fits(f, 8, u, Do(<<"config">>) \o Do(<<"start", "ready">>))  BY <2>3, <2>4, PartFits
  <2> QED  BY <2>5 DEF SetConfigAndPeers, TendermintStartContainer, f
<1>6. ASSUME u[1] = "app" PROVE Fits("penumbra", 8, u, AppStartContainer)
  <2> HIDE DEF f
  <2>1. Part(f, 8, u, Do(<<"start", "ports">>), 0, 8, {<<"start">>, <<"ports">>})  BY <1>4, <1>6, PartTwo
  <2>2. \A st \in Steps : Must(f, 8, u, st) => st \in {<<"start">>, <<"ports">>}  BY <1>4, <1>6
  <2>3. Fits(f, 8, u, Do(<<"start", "ports">>))  BY <2>1, <2>2, PartFits
  <2> QED  BY <2>3 DEF AppStartContainer, f
<1>7. ASSUME u[1] = "client" PROVE Fits("penumbra", 10, u, Do(<<"readConfig">>) \o CreateClientNode)
  <2>1. \A st \in {<<"readConfig">>, <<"address">>, <<"register">>, <<"initialize">>, <<"create">>, <<"start">>,
                   <<"ports">>} : May(f, 10, u, st)
    BY <1>7 DEF May, PenumbraMay
  <2>2. \A st \in Steps : ~Must(f, 10, u, st)  BY <1>7 DEF Must, ThorFamilies
  <2> HIDE DEF f
  <2>3. {"readConfig", "address", "register", "initialize", "ports"} \subseteq Silent  BY DEF Silent, Calls
  <2>4. /\ Piece(f, 10, u, "readConfig", 0, 0) /\ Piece(f, 10, u, "address", 0, 0) /\ Piece(f, 10, u, "register", 0, 0)
        /\ Piece(f, 10, u, "initialize", 0, 0) /\ Piece(f, 10, u, "ports", 8, 8)
    BY <2>1, <2>3, SilentPiece
  <2>5. Piece(f, 10, u, "create", 0, 7) /\ Piece(f, 10, u, "start", 7, 8)  BY <2>1, RankedPiece, Ranks
  <2> DEFINE a == Do(<<"readConfig">>)
             b == Do(<<"address", "register", "initialize", "create">>)
             c == Do(<<"start", "ports">>)
  <2>6. \E M : Part(f, 10, u, a, 0, 0, M)  BY <2>4, PartOne
  <2>7. \E M : Part(f, 10, u, b, 0, 7, M)
    <3>1. Part(f, 10, u, b, 0, 7, {<<"address">>, <<"register">>, <<"initialize">>, <<"create">>})
      BY <2>4, <2>5, PartFour
    <3> QED  BY <3>1
  <2>8. \E M : Part(f, 10, u, c, 7, 8, M)  BY <2>4, <2>5, PartTwo
  <2> HIDE DEF a, b, c
  <2>9. \E M : Part(f, 10, u, b \o c, 0, 8, M)  BY <2>7, <2>8, PartJoin
  <2>10. \E M : Part(f, 10, u, a \o (b \o c), 0, 8, M)  BY <2>6, <2>9, PartJoin
  <2>11. Fits(f, 10, u, a \o (b \o c))  BY <2>2, <2>10, PartFits
  <2> QED  BY <2>11 DEF CreateClientNode, ClientStartContainer, a, b, c, f
<1> QED  BY <1>1, <1>2, <1>3, <1>5, <1>6, <1>7

----------------------------------------------------------------------------
(* namada *)

\* The scripts of namada's goroutines do what their phases need.
LEMMA FitsNamada ==
  ASSUME NEW u
  PROVE  /\ u[1] = "val" => Fits("namada", 7, u, CopyGenesisFiles \o CopyValidatorWallet \o Do(<<"create">>))
         /\ u[1] = "full" => Fits("namada", 7, u, CopyGenesisFiles \o Do(<<"create">>))
         /\ u[1] \in {"val", "full"} => Fits("namada", 8, u, NamadaStartContainer)
<1> DEFINE f == "namada"
           a == Do(<<"readArchive", "openArchive", "writeArchive", "wallet">>)
           b == Do(<<"readValidatorWallet", "writeKey">>)
           c == Do(<<"create">>)
           A == {<<"readArchive">>, <<"openArchive">>, <<"writeArchive">>, <<"wallet">>}
           B == {<<"readValidatorWallet">>, <<"writeKey">>}
           C == {<<"create">>}
<1>1. ASSUME u[1] \in {"val", "full"} PROVE Part(f, 7, u, a, 0, 3, A)
  <2>1. \A st \in A : May(f, 7, u, st)  BY <1>1 DEF May, NamadaMay
  <2> HIDE DEF f
  <2>2. Piece(f, 7, u, "readArchive", 0, 1) /\ Piece(f, 7, u, "openArchive", 1, 2) /\ Piece(f, 7, u, "writeArchive", 2, 3)
    BY <2>1, RankedPiece, Ranks
  <2>3. "wallet" \in Silent  BY DEF Silent, Calls
  <2>4. Piece(f, 7, u, "wallet", 3, 3)  BY <2>1, <2>3, SilentPiece
  <2> QED  BY <2>2, <2>4, PartFour
<1>2. ASSUME u[1] = "val" PROVE Part(f, 7, u, b, 3, 5, B)
  <2>1. May(f, 7, u, <<"readValidatorWallet">>) /\ May(f, 7, u, <<"writeKey">>)  BY <1>2 DEF May, NamadaMay
  <2> HIDE DEF f
  <2>2. Piece(f, 7, u, "readValidatorWallet", 3, 4) /\ Piece(f, 7, u, "writeKey", 4, 5)
    BY <2>1, RankedPiece, Ranks
  <2> QED  BY <2>2, PartTwo
<1>3. ASSUME u[1] \in {"val", "full"}, NEW lo \in 0..6 PROVE Part(f, 7, u, c, lo, 7, C)
  <2>1. May(f, 7, u, <<"create">>)  BY <1>3 DEF May, NamadaMay
  <2> HIDE DEF f
  <2> QED  BY <2>1, CreatePiece, PartOne
<1>4. ASSUME u[1] = "val" PROVE Fits(f, 7, u, CopyGenesisFiles \o CopyValidatorWallet \o Do(<<"create">>))
  <2>1. Part(f, 7, u, a, 0, 3, A) /\ Part(f, 7, u, b, 3, 5, B) /\ Part(f, 7, u, c, 5, 7, C)  BY <1>1, <1>2, <1>3, <1>4
  <2>2. \A st \in Steps : Must(f, 7, u, st) => st \in (A \cup B) \cup C  BY <1>4 DEF Must, ThorFamilies
  <2> HIDE DEF f, a, b, c, A, B, C
  <2>3. Part(f, 7, u, (a \o b) \o c, 0, 7, (A \cup B) \cup C)  BY <2>1, PartConcat
  <2>4. Fits(f, 7, u, (a \o b) \o c)  BY <2>2, <2>3, PartFits
  <2> QED  BY <2>4 DEF CopyGenesisFiles, CopyValidatorWallet, a, b, c
<1>5. ASSUME u[1] = "full" PROVE Fits(f, 7, u, CopyGenesisFiles \o Do(<<"create">>))
  <2>1. Part(f, 7, u, a, 0, 3, A) /\ Part(f, 7, u, c, 3, 7, C)  BY <1>1, <1>3, <1>5
  <2>2. \A st \in Steps : Must(f, 7, u, st) => st \in A \cup C  BY <1>5 DEF Must, ThorFamilies
  <2> HIDE DEF f, a, c, A, C
  <2>3. Part(f, 7, u, a \o c, 0, 7, A \cup C)  BY <2>1, PartConcat
  <2>4. Fits(f, 7, u, a \o c)  BY <2>2, <2>3, PartFits
  <2> QED  BY <2>4 DEF CopyGenesisFiles, a, c
<1>6. ASSUME u[1] \in {"val", "full"} PROVE Fits(f, 8, u, NamadaStartContainer)
  <2>1. \A st \in {<<"start">>, <<"masp">>, <<"ready">>} : May(f, 8, u, st)  BY <1>6 DEF May, NamadaMay
  <2>2. \A st \in Steps : ~Must(f, 8, u, st)  BY <1>6 DEF Must, ThorFamilies
  <2> HIDE DEF f
  <2>3. "masp" \in Silent /\ "ready" \in Silent  BY DEF Silent, Calls
  <2>4. Piece(f, 8, u, "start", 0, 8)  BY <2>1, StartPiece
  <2>5. Piece(f, 8, u, "masp", 8, 8) /\ Piece(f, 8, u, "ready", 8, 8)  BY <2>1, <2>3, SilentPiece
  <2>6. Part(f, 8, u, Do(<<"start", "masp", "ready">>), 0, 8, {<<"start">>, <<"masp">>, <<"ready">>})
    BY <2>4, <2>5, PartThree
  <2>7. Fits(f, 8, u, Do(<<"start", "masp", "ready">>))  BY <2>2, <2>6, PartFits
  <2> QED  BY <2>7 DEF NamadaStartContainer
<1> QED  BY <1>4, <1>5, <1>6

----------------------------------------------------------------------------
(* polkadot *)

\* The scripts of polkadot's goroutines do what their phases need.
LEMMA FitsPolkadot ==
  ASSUME NEW u
  PROVE  /\ u[1] = "para" /\ u[2] \in Paras => Fits("polkadot", 0, u, <<<<"copySpec", u[2]>>>>)
         /\ u[1] = "relay" =>
              Fits("polkadot", 8, u,
                   (IF u[2] = 1 THEN <<>> ELSE Do(<<"copyRawSpec">>)) \o Do(<<"create">>) \o RelayStartContainer)
         /\ u[1] = "para" => Fits("polkadot", 10, u, Do(<<"copyRawSpec", "create">>) \o CollatorStartContainer)
<1> DEFINE f == "polkadot"
<1>1. ASSUME u[1] = "para", u[2] \in Paras PROVE Fits(f, 0, u, <<<<"copySpec", u[2]>>>>)
  <2> DEFINE st == <<"copySpec", u[2]>>
  <2>1. May(f, 0, u, st)  BY <1>1 DEF May, PolkadotMay
  <2>2. \A x \in Steps : Must(f, 0, u, x) => x \in {st}  BY <1>1 DEF Must, ThorFamilies
  <2>3. st \in Steps
    <3>1. "copySpec" \in Names /\ u[2] \in Args  BY <1>1, ArgsHave DEF Names
    <3> QED  BY <3>1, InSteps
  <2>4. st[1] = "copySpec" /\ Rank(st[1]) = 0  BY Ranks
  <2> HIDE DEF st, f
  <2>5. Part(f, 0, u, <<st>>, 0, 0, {st})  BY <2>1, <2>3, <2>4, PartStep
  <2>6. Fits(f, 0, u, <<st>>)  BY <2>2, <2>5, PartFits
  <2> QED  BY <2>6 DEF st
<1>2. ASSUME NEW p, (p = 8 /\ u[1] = "relay") \/ (p = 10 /\ u[1] = "para")
      PROVE  /\ Piece(f, p, u, "copyRawSpec", 0, 6) /\ Piece(f, p, u, "create", 6, 7) /\ Piece(f, p, u, "start", 7, 8)
             /\ Piece(f, p, u, "ready", 8, 8)
  <2>1. \A st \in {<<"copyRawSpec">>, <<"create">>, <<"start">>, <<"ready">>} : May(f, p, u, st)
    BY <1>2 DEF May, PolkadotMay
  <2> HIDE DEF f
  <2>2. "ready" \in Silent  BY DEF Silent, Calls
  <2>3. Piece(f, p, u, "create", 6, 7) /\ Piece(f, p, u, "start", 7, 8)  BY <2>1, CreatePiece, StartPiece
  <2>4. Piece(f, p, u, "copyRawSpec", 0, 6)  BY <2>1, RankedPiece, Ranks
  <2>5. Piece(f, p, u, "ready", 8, 8)  BY <2>1, <2>2, SilentPiece
  <2> QED  BY <2>3, <2>4, <2>5
<1> DEFINE a == IF u[2] = 1 THEN <<>> ELSE Do(<<"copyRawSpec">>)
           A == IF u[2] = 1 THEN {} ELSE {<<"copyRawSpec">>}
           b == Do(<<"create">>)
           B == {<<"create">>}
           c == Do(<<"start", "ready">>)
           C == {<<"start">>, <<"ready">>}
<1>3. ASSUME u[1] = "relay"
      PROVE  Fits(f, 8, u, (IF u[2] = 1 THEN <<>> ELSE Do(<<"copyRawSpec">>)) \o Do(<<"create">>) \o RelayStartContainer)
  <2>1. \A x \in Steps : Must(f, 8, u, x) => x \in (A \cup B) \cup C  BY <1>3 DEF Must, ThorFamilies
  <2> HIDE DEF f
  <2>2. Part(f, 8, u, a, 0, 6, A)
    <3>1. Part(f, 8, u, <<>>, 0, 6, {})  BY PartNil
    <3>2. Part(f, 8, u, Do(<<"copyRawSpec">>), 0, 6, {<<"copyRawSpec">>})  BY <1>2, <1>3, PartOne
    <3> QED  BY <3>1, <3>2
  <2>3. Part(f, 8, u, b, 6, 7, B)  BY <1>2, <1>3, PartOne
  <2>4. Part(f, 8, u, c, 7, 8, C)  BY <1>2, <1>3, PartTwo
  <2> HIDE DEF a, b, c, A, B, C
  <2>5. Part(f, 8, u, (a \o b) \o c, 0, 8, (A \cup B) \cup C)  BY <2>2, <2>3, <2>4, PartConcat
  <2>6. Fits(f, 8, u, (a \o b) \o c)  BY <2>1, <2>5, PartFits
  <2> QED  BY <2>6 DEF RelayStartContainer, a, b, c
<1>4. ASSUME u[1] = "para" PROVE Fits(f, 10, u, Do(<<"copyRawSpec", "create">>) \o CollatorStartContainer)
  <2> DEFINE d == Do(<<"copyRawSpec", "create">>)
             D == {<<"copyRawSpec">>, <<"create">>}
  <2>1. \A x \in Steps : Must(f, 10, u, x) => x \in D \cup C  BY <1>4 DEF Must, ThorFamilies
  <2> HIDE DEF f
  <2>2. Part(f, 10, u, d, 0, 7, D)  BY <1>2, <1>4, PartTwo
  <2>3. Part(f, 10, u, c, 7, 8, C)  BY <1>2, <1>4, PartTwo
  <2> HIDE DEF c, d, C, D
  <2>4. Part(f, 10, u, d \o c, 0, 8, D \cup C)  BY <2>2, <2>3, PartConcat
  <2>5. Fits(f, 10, u, d \o c)  BY <2>1, <2>4, PartFits
  <2> QED  BY <2>5 DEF CollatorStartContainer, c, d
<1> QED  BY <1>1, <1>3, <1>4

\* Many pieces without ranks.
LEMMA PartEach ==
  ASSUME NEW f, NEW p, NEW u, NEW n \in Nat, NEW ss, ss = [i \in 1..n |-> ss[i]], NEW M,
         \A i \in 1..n : Part(f, p, u, ss[i], 0, 0, {}),
         \A x \in M : \E i \in 1..n : Part(f, p, u, ss[i], 0, 0, {x})
  PROVE  Part(f, p, u, FlattenSeq(ss), 0, 0, M)
<1> DEFINE s == FlattenSeq(ss)
<1>1. Len(ss) = n /\ ss \in Seq(Seq(Steps))
  <2>1. \A i \in 1..n : ss[i] \in Seq(Steps)  BY DEF Part
  <2>2. ss \in [1..n -> Seq(Steps)]  BY <2>1
  <2> QED  BY <2>2, SeqDef
<1>2. CASE n = 0
  <2>1. ss = <<>>  BY <1>1, <1>2
  <2>2. s = <<>>  BY <2>1 DEF FlattenSeq
  <2>3. M = {}  BY <1>2
  <2>4. Part(f, p, u, <<>>, 0, 0, {})  BY PartNil
  <2> QED  BY <2>2, <2>3, <2>4
<1>3. CASE n # 0
  <2> DEFINE Good == {a \in Seq(Steps) : Part(f, p, u, a, 0, 0, {})}
  <2>1. Len(ss) \in Nat \ {0}  BY <1>1, <1>3
  <2>2. \A i \in 1..Len(ss) : ss[i] \in Good  BY <1>1 DEF Part
  <2>3. \A a, b \in Good : a \o b \in Good
    <3>1. ASSUME NEW a \in Good, NEW b \in Good PROVE a \o b \in Good
      <4>1. Part(f, p, u, a \o b, 0, 0, {} \cup {})  BY <3>1, PartConcat
      <4>2. a \o b \in Seq(Steps)  BY <4>1 DEF Part
      <4> QED  BY <4>1, <4>2
    <3> QED  BY <3>1
  <2>4. s \in Good
    <3> HIDE DEF Good
    <3> QED  BY <2>1, <2>2, <2>3, FlattenIn
  <2>5. Part(f, p, u, s, 0, 0, {})  BY <2>4
  <2>6. \A x \in M : In(x, s)
    <3> SUFFICES ASSUME NEW x \in M PROVE In(x, s)  OBVIOUS
    <3>1. PICK i \in 1..n : Part(f, p, u, ss[i], 0, 0, {x})  OBVIOUS
    <3>2. In(x, ss[i])  BY <3>1 DEF Part
    <3>3. PICK l \in 1..Len(ss[i]) : ss[i][l] = x  BY <3>2 DEF In
    <3> HIDE DEF s
    <3>4. i \in 1..Len(ss)  BY <1>1
    <3>5. PICK j \in 1..Len(s) : s[j] = ss[i][l]  BY <1>1, <3>4, FlattenHolds DEF s
    <3> QED  BY <3>3, <3>5 DEF In
  <2> HIDE DEF s
  <2>7. Part(f, p, u, s, 0, 0, M)  BY <2>5, <2>6 DEF Part
  <2> QED  BY <2>7 DEF s
<1> QED  BY <1>2, <1>3

----------------------------------------------------------------------------
(* thorchain *)

\* What the goroutine about a validator of a new thorchain does to the genesis file.
LEMMA ThorGenesis ==
  ASSUME NEW f \in ThorFamilies, NEW v \in Validators, NEW u, u = <<"thor", v>>, f = "thorchain"
  PROVE  /\ \E M : Part(f, 1, u, AddGenesisAccount(v, v), 0, 0, M) /\ (v = 1 => <<"fund", 1>> \in M)
         /\ \E M : Part(f, 1, u, AddNodeAccount(v, v), 0, 0, M) /\ (v = 1 => <<"define", 1>> \in M)
<1>1. CASE v = 1
  <2>1. ASSUME NEW n \in {"fund", "define"} PROVE Part(f, 1, u, <<<<n, 1>>>>, 0, 0, {<<n, 1>>})
    <3> DEFINE st == <<n, 1>>
    <3>1. May(f, 1, u, st)  BY <1>1 DEF May, ThorchainMay, ThorFamilies
    <3>2. st \in Steps
      <4>1. n \in Names /\ 1 \in Args  BY ArgsHave DEF Names
      <4> QED  BY <4>1, InSteps
    <3>3. st[1] = n /\ Rank(st[1]) = 0  BY Ranks
    <3> HIDE DEF st
    <3>4. Part(f, 1, u, <<st>>, 0, 0, {st})  BY <3>1, <3>2, <3>3, PartStep
    <3> QED  BY <3>4 DEF st
  <2>2. AddGenesisAccount(v, v) = <<<<"fund", 1>>>> /\ AddNodeAccount(v, v) = <<<<"define", 1>>>>
    BY <1>1 DEF AddGenesisAccount, AddNodeAccount
  <2>3. /\ Part(f, 1, u, AddGenesisAccount(v, v), 0, 0, {<<"fund", 1>>})
        /\ Part(f, 1, u, AddNodeAccount(v, v), 0, 0, {<<"define", 1>>})
    BY <2>1, <2>2
  <2> QED  BY <2>3
<1>2. CASE v # 1
  <2>1. May(f, 1, u, <<"ownGenesis">>)  BY DEF May, ThorchainMay, ThorFamilies
  <2>2. "ownGenesis" \in Silent  BY DEF Silent, Calls
  <2>3. Piece(f, 1, u, "ownGenesis", 0, 0)  BY <2>1, <2>2, SilentPiece
  <2>4. Part(f, 1, u, Do(<<"ownGenesis">>), 0, 0, {<<"ownGenesis">>})  BY <2>3, PartOne
  <2>5. AddGenesisAccount(v, v) = Do(<<"ownGenesis">>) /\ AddNodeAccount(v, v) = Do(<<"ownGenesis">>)
    BY <1>2 DEF AddGenesisAccount, AddNodeAccount
  <2> QED  BY <1>2, <2>4, <2>5
<1> QED  BY <1>1, <1>2

\* The calls of a thorchain node's preparation.
LEMMA ThorPieces ==
  ASSUME NEW f \in ThorFamilies, NEW u, u[1] = "thor"
  PROVE  \A n \in {"initFiles", "config", "createKey", "address", "ownGenesis", "nodeAccount"} : Piece(f, 1, u, n, 0, 0)
<1>1. \A n \in {"initFiles", "config", "createKey", "address", "ownGenesis", "nodeAccount"} : May(f, 1, u, <<n>>)
  BY DEF May, ThorchainMay
<1>2. {"initFiles", "config", "createKey", "address", "ownGenesis", "nodeAccount"} \subseteq Silent
  BY DEF Silent, Calls
<1> QED  BY <1>1, <1>2, SilentPiece

\* The script of a thorchain validator does what phase 1 needs.
LEMMA FitsThorValidator ==
  ASSUME NEW f \in ThorFamilies, NEW v \in Validators, NEW u, u = <<"thor", v>>
  PROVE  Fits(f, 1, u, ThorValidator(f, v))
<1>1. u[1] = "thor" /\ u[2] = v  OBVIOUS
<1>2. \A n \in {"initFiles", "config", "createKey", "address", "ownGenesis", "nodeAccount"} : Piece(f, 1, u, n, 0, 0)
  BY <1>1, ThorPieces
<1> DEFINE a == Do(<<"initFiles", "config">>)
           b == Do(<<"config", "createKey">>)
           c == IF f = "thorchain" THEN InitValidatorGenTx(v) ELSE <<>>
           d == Do(<<"nodeAccount">>)
           e == IF f = "thorchain" THEN AddNodeAccount(v, v) ELSE Do(<<"ownGenesis">>)
           must == f = "thorchain" /\ v = 1
<1>3. PICK A : Part(f, 1, u, a, 0, 0, A)
  <2>1. Part(f, 1, u, a, 0, 0, {<<"initFiles">>, <<"config">>})  BY <1>2, PartTwo
  <2> QED  BY <2>1
<1>4. PICK B : Part(f, 1, u, b, 0, 0, B)
  <2>1. Part(f, 1, u, b, 0, 0, {<<"config">>, <<"createKey">>})  BY <1>2, PartTwo
  <2> QED  BY <2>1
<1>5. PICK C : Part(f, 1, u, c, 0, 0, C) /\ (must => <<"fund", 1>> \in C)
  <2>1. CASE f = "thorchain"
    <3>1. PICK M : Part(f, 1, u, AddGenesisAccount(v, v), 0, 0, M) /\ (v = 1 => <<"fund", 1>> \in M)
      BY <2>1, ThorGenesis
    <3>2. Part(f, 1, u, Do(<<"address">>), 0, 0, {<<"address">>})  BY <1>2, PartOne
    <3>3. Part(f, 1, u, Do(<<"address">>) \o AddGenesisAccount(v, v), 0, 0, {<<"address">>} \cup M)
      BY <3>1, <3>2, PartConcat
    <3>4. c = Do(<<"address">>) \o AddGenesisAccount(v, v)  BY <2>1 DEF InitValidatorGenTx
    <3> HIDE DEF c
    <3>5. Part(f, 1, u, c, 0, 0, {<<"address">>} \cup M)  BY <3>3, <3>4
    <3>6. must => <<"fund", 1>> \in {<<"address">>} \cup M  BY <3>1
    <3> QED  BY <3>5, <3>6
  <2>2. CASE f # "thorchain"
    <3>1. Part(f, 1, u, <<>>, 0, 0, {})  BY PartNil
    <3> QED  BY <2>2, <3>1
  <2> QED  BY <2>1, <2>2
<1>6. PICK D : Part(f, 1, u, d, 0, 0, D)
  <2>1. Part(f, 1, u, d, 0, 0, {<<"nodeAccount">>})  BY <1>2, PartOne
  <2> QED  BY <2>1
<1>7. PICK E : Part(f, 1, u, e, 0, 0, E) /\ (must => <<"define", 1>> \in E)
  <2>1. CASE f = "thorchain"
    <3>1. PICK M : Part(f, 1, u, AddNodeAccount(v, v), 0, 0, M) /\ (v = 1 => <<"define", 1>> \in M)
      BY <2>1, ThorGenesis
    <3>2. e = AddNodeAccount(v, v)  BY <2>1
    <3> QED  BY <3>1, <3>2
  <2>2. CASE f # "thorchain"
    <3>1. Part(f, 1, u, Do(<<"ownGenesis">>), 0, 0, {<<"ownGenesis">>})  BY <1>2, PartOne
    <3> QED  BY <2>2, <3>1
  <2> QED  BY <2>1, <2>2
<1> DEFINE M == (((A \cup B) \cup C) \cup D) \cup E
<1>8. \A st \in Steps : Must(f, 1, u, st) => st \in M
  <2> SUFFICES ASSUME NEW st \in Steps, Must(f, 1, u, st) PROVE st \in M  OBVIOUS
  <2>1. must /\ st \in {<<"fund", 1>>, <<"define", 1>>}  BY <1>1 DEF Must, ThorFamilies
  <2> HIDE DEF must
  <2> QED  BY <1>5, <1>7, <2>1
<1> HIDE DEF a, b, c, d, e, must, M
<1>9. Part(f, 1, u, (((a \o b) \o c) \o d) \o e, 0, 0, M)
  <2>1. Part(f, 1, u, a \o b, 0, 0, A \cup B)  BY <1>3, <1>4, PartConcat
  <2>2. Part(f, 1, u, (a \o b) \o c, 0, 0, (A \cup B) \cup C)  BY <1>5, <2>1, PartConcat
  <2>3. Part(f, 1, u, ((a \o b) \o c) \o d, 0, 0, ((A \cup B) \cup C) \cup D)  BY <1>6, <2>2, PartConcat
  <2>4. Part(f, 1, u, (((a \o b) \o c) \o d) \o e, 0, 0, (((A \cup B) \cup C) \cup D) \cup E)
    BY <1>7, <2>3, PartConcat
  <2> QED  BY <2>4 DEF M
<1>10. Fits(f, 1, u, (((a \o b) \o c) \o d) \o e)  BY <1>8, <1>9, PartFits
<1>11. ThorValidator(f, v) = (((a \o b) \o c) \o d) \o e
  BY DEF ThorValidator, InitFullNodeFiles, GetNodeAccount, a, b, c, d, e
<1> QED  BY <1>10, <1>11

\* A fork's goroutine replaces every field of its validator.
LEMMA FitsReplace ==
  ASSUME NEW u, u[1] = "thor", u[2] \in Validators
  PROVE  Fits("thorchainFork", 3, u, Each(NodeAccountFields, LAMBDA x : <<<<"lockGenesis">>, <<"replace", x>>>>))
<1> DEFINE f == "thorchainFork"
           n == Len(NodeAccountFields)
           ss == [i \in DOMAIN NodeAccountFields |-> <<<<"lockGenesis">>, <<"replace", NodeAccountFields[i]>>>>]
           M == {<<"replace", x>> : x \in Range(NodeAccountFields)}
<1>1. n = 5 /\ DOMAIN NodeAccountFields = 1..n
  BY DEF NodeAccountFields
<1>2. \A x \in Range(NodeAccountFields) : \E i \in 1..n : x = NodeAccountFields[i]  BY <1>1 DEF Range
<1>3. \A i \in 1..n : NodeAccountFields[i] \in Range(NodeAccountFields)  BY <1>1 DEF Range
<1>4. ASSUME NEW x \in Range(NodeAccountFields)
      PROVE  Part(f, 3, u, <<<<"lockGenesis">>, <<"replace", x>>>>, 0, 0, {<<"replace", x>>})
  <2> DEFINE a == <<"lockGenesis">>
             b == <<"replace", x>>
             s == <<a, b>>
  <2>1. May(f, 3, u, a) /\ May(f, 3, u, b)  BY DEF May, ThorchainMay, ThorFamilies
  <2>2. a \in Steps /\ b \in Steps
    <3>1. "lockGenesis" \in Names /\ "replace" \in Names /\ x \in Args  BY ArgsHave DEF Names
    <3> QED  BY <3>1, InSteps
  <2>3. a[1] = "lockGenesis" /\ b[1] = "replace" /\ Rank(a[1]) = 0 /\ Rank(b[1]) = 0  BY Ranks
  <2> HIDE DEF a, b, f
  <2>4. s \in Seq(Steps) /\ Len(s) = 2 /\ s[1] = a /\ s[2] = b  BY <2>2
  <2>5. (\A i \in 1..2 : i = 1 \/ i = 2) /\ (\A i \in 2..2 : i = 2) /\ 2 - 1 = 1 /\ 1 \in 1..2 /\ 2 \in 1..2  OBVIOUS
  <2> HIDE DEF s
  <2>6. Closed(s)  BY <2>3, <2>4, <2>5 DEF Closed, Linked
  <2>7. \A i \in 1..2 : May(f, 3, u, s[i]) /\ Rank(s[i][1]) = 0  BY <2>1, <2>3, <2>4, <2>5
  <2>8. Sorted(s)  BY <2>4, <2>7 DEF Sorted
  <2>9. In(b, s)  BY <2>4, <2>5 DEF In
  <2>10. Part(f, 3, u, s, 0, 0, {b})  BY <2>4, <2>6, <2>7, <2>8, <2>9 DEF Part
  <2> QED  BY <2>10 DEF s, a, b
<1>5. \A st \in Steps : Must(f, 3, u, st) => st \in M  BY DEF Must, ThorFamilies
<1>6. ss = [i \in 1..n |-> ss[i]] /\ \A i \in 1..n : ss[i] = <<<<"lockGenesis">>, <<"replace", NodeAccountFields[i]>>>>
  BY <1>1
<1>7. \A i \in 1..n : Part(f, 3, u, ss[i], 0, 0, {<<"replace", NodeAccountFields[i]>>})  BY <1>3, <1>4, <1>6
<1>8. n \in Nat  BY <1>1
<1> HIDE DEF ss, n, f
<1>9. \A i \in 1..n : Part(f, 3, u, ss[i], 0, 0, {})  BY <1>7 DEF Part
<1>10. \A x \in M : \E i \in 1..n : Part(f, 3, u, ss[i], 0, 0, {x})  BY <1>2, <1>7
<1> HIDE DEF M
<1>11. Part(f, 3, u, FlattenSeq(ss), 0, 0, M)  BY <1>6, <1>8, <1>9, <1>10, PartEach
<1>12. Fits(f, 3, u, FlattenSeq(ss))  BY <1>5, <1>11, PartFits
<1> QED  BY <1>12 DEF Each, ss, f

\* The other scripts of a thorchain do what their phases need.
LEMMA FitsThorchain ==
  ASSUME NEW f \in ThorFamilies, NEW u
  PROVE  /\ u[1] = "thor" /\ f = "thorchainFork" => Fits(f, 0, u, Do(<<"newNode">>))
         /\ u[1] = "thor" /\ u[2] # 1 => Fits(f, 1, u, InitFullNodeFiles \o Do(<<"config">>))
         /\ u[1] = "side" => Fits(f, 6, u, Do(<<"create", "start">>))
         /\ u[1] = "thor" => Fits(f, 7, u, Do(<<"create">>))
         /\ u[1] = "thor" => Fits(f, 8, u, Do(<<"config">>) \o ThorStartContainer)
<1>1. ASSUME u[1] = "thor", f = "thorchainFork" PROVE Fits(f, 0, u, Do(<<"newNode">>))
  <2>1. May(f, 0, u, <<"newNode">>)  BY <1>1 DEF May, ThorchainMay
  <2>2. "newNode" \in Silent  BY DEF Silent, Calls
  <2>3. \A st \in Steps : ~Must(f, 0, u, st)  BY <1>1 DEF Must
  <2>4. Piece(f, 0, u, "newNode", 0, 0)  BY <2>1, <2>2, SilentPiece
  <2>5. Part(f, 0, u, Do(<<"newNode">>), 0, 0, {<<"newNode">>})  BY <2>4, PartOne
  <2> QED  BY <2>3, <2>5, PartFits
<1>2. ASSUME u[1] = "thor", u[2] # 1 PROVE Fits(f, 1, u, InitFullNodeFiles \o Do(<<"config">>))
  <2>1. Part(f, 1, u, Do(<<"initFiles", "config">>), 0, 0, {<<"initFiles">>, <<"config">>})
    BY <1>2, ThorPieces, PartTwo
  <2>2. Part(f, 1, u, Do(<<"config">>), 0, 0, {<<"config">>})  BY <1>2, ThorPieces, PartOne
  <2>3. \A st \in Steps : ~Must(f, 1, u, st)
    <3>1. u # <<"thor", 1>>  BY <1>2
    <3> QED  BY <1>2, <3>1 DEF Must, ThorFamilies
  <2> DEFINE a == Do(<<"initFiles", "config">>)
             b == Do(<<"config">>)
  <2>4. \E M : Part(f, 1, u, a, 0, 0, M)  BY <2>1
  <2>5. \E M : Part(f, 1, u, b, 0, 0, M)  BY <2>2
  <2> HIDE DEF a, b
  <2>6. PICK M : Part(f, 1, u, a \o b, 0, 0, M)  BY <2>4, <2>5, PartJoin
  <2>7. Fits(f, 1, u, a \o b)  BY <2>3, <2>6, PartFits
  <2> QED  BY <2>7 DEF InitFullNodeFiles, a, b
<1>3. ASSUME u[1] = "side" PROVE Fits(f, 6, u, Do(<<"create", "start">>))
  <2>1. May(f, 6, u, <<"create">>) /\ May(f, 6, u, <<"start">>)  BY <1>3 DEF May, ThorchainMay
  <2>2. \A st \in Steps : Must(f, 6, u, st) => st \in {<<"create">>, <<"start">>}  BY <1>3 DEF Must, ThorFamilies
  <2>3. Piece(f, 6, u, "create", 0, 7) /\ Piece(f, 6, u, "start", 7, 8)  BY <2>1, CreatePiece, StartPiece
  <2>4. Part(f, 6, u, Do(<<"create", "start">>), 0, 8, {<<"create">>, <<"start">>})  BY <2>3, PartTwo
  <2> QED  BY <2>2, <2>4, PartFits
<1>4. ASSUME u[1] = "thor" PROVE Fits(f, 7, u, Do(<<"create">>))
  <2>1. May(f, 7, u, <<"create">>)  BY <1>4 DEF May, ThorchainMay
  <2>2. \A st \in Steps : Must(f, 7, u, st) => st \in {<<"create">>}  BY <1>4 DEF Must, ThorFamilies
  <2>3. Piece(f, 7, u, "create", 0, 7)  BY <2>1, CreatePiece
  <2>4. Part(f, 7, u, Do(<<"create">>), 0, 7, {<<"create">>})  BY <2>3, PartOne
  <2> QED  BY <2>2, <2>4, PartFits
<1>5. ASSUME u[1] = "thor" PROVE Fits(f, 8, u, Do(<<"config">>) \o ThorStartContainer)
  <2>1. \A n \in {"config", "sidecars", "start", "ports", "ready"} : May(f, 8, u, <<n>>)
    BY <1>5 DEF May, ThorchainMay
  <2>2. \A st \in Steps : ~Must(f, 8, u, st)  BY <1>5 DEF Must, ThorFamilies
  <2>3. {"config", "sidecars", "ports", "ready"} \subseteq Silent  BY DEF Silent, Calls
  <2>4. Piece(f, 8, u, "start", 0, 8)  BY <2>1, StartPiece
  <2>5. /\ Piece(f, 8, u, "config", 0, 0) /\ Piece(f, 8, u, "sidecars", 0, 0)
        /\ Piece(f, 8, u, "ports", 8, 8) /\ Piece(f, 8, u, "ready", 8, 8)
    BY <2>1, <2>3, SilentPiece
  <2> DEFINE a == Do(<<"config">>)
             b == Do(<<"sidecars", "start", "ports", "ready">>)
  <2>6. \E M : Part(f, 8, u, a, 0, 0, M)
    <3>1. Part(f, 8, u, a, 0, 0, {<<"config">>})  BY <2>5, PartOne
    <3> QED  BY <3>1
  <2>7. \E M : Part(f, 8, u, b, 0, 8, M)
    <3>1. Part(f, 8, u, b, 0, 8, {<<"sidecars">>, <<"start">>, <<"ports">>, <<"ready">>})  BY <2>4, <2>5, PartFour
    <3> QED  BY <3>1
  <2> HIDE DEF a, b
  <2>8. PICK M : Part(f, 8, u, a \o b, 0, 8, M)  BY <2>6, <2>7, PartJoin
  <2>9. Fits(f, 8, u, a \o b)  BY <2>2, <2>8, PartFits
  <2> QED  BY <2>9 DEF ThorStartContainer, a, b
<1> QED  BY <1>1, <1>2, <1>3, <1>4, <1>5

----------------------------------------------------------------------------
(* The steps of Main for each node, wallet or parachain. *)

\* The empty script, in every phase.
LEMMA Nothing ==
  ASSUME NEW f
  PROVE  /\ Stay(f, <<>>, 0, {}) /\ Stay(f, <<>>, 1, {}) /\ Stay(f, <<>>, 2, {}) /\ Stay(f, <<>>, 3, {})
         /\ Stay(f, <<>>, 5, {}) /\ Stay(f, <<>>, 6, {}) /\ Stay(f, <<>>, 7, {}) /\ Stay(f, <<>>, 8, {})
         /\ Stay(f, <<>>, 9, {}) /\ Stay(f, <<>>, 10, {})
<1>1. \A p \in 0..11 : Stay(f, <<>>, p, {})  BY StayNil
<1> QED  BY <1>1

\* What a script for a goroutine adds to a phase.
LEMMA StayGoes ==
  ASSUME NEW f, NEW p, Stay(f, <<>>, p, {}), NEW u \in Containers, NEW sc, Fits(f, p, u, sc)
  PROVE  Stay(f, Go(u, sc), p, {<<p, u>>})
<1>1. p \in 0..11  BY DEF Stay
<1> QED  BY <1>1, StayGo

\* What two steps of Main add to it.
LEMMA StayBoth ==
  ASSUME NEW f, NEW p, Stay(f, <<>>, p, {}), NEW a \in Steps, NEW b \in Steps, MainMay(f, p, a), MainMay(f, p, b),
         a[1] \notin {"append", "replace"}, b[1] = "append" => a[1] = "lock", b[1] # "replace"
  PROVE  Stay(f, <<a, b>>, p, {<<p, a>>, <<p, b>>})
<1>1. p \in 0..11  BY DEF Stay
<1> QED  BY <1>1, StayTwo

\* A script made of pieces that stay in a phase.
LEMMA StayAll ==
  ASSUME NEW f, NEW n \in Nat, NEW ss, ss = [i \in 1..n |-> ss[i]], NEW p, Stay(f, <<>>, p, {}), NEW R, NEW T,
         \A i \in 1..n : Stay(f, ss[i], p, T[i]),
         \A x \in R : \E i \in 1..n : x \in T[i]
  PROVE  Stay(f, FlattenSeq(ss), p, R)
<1>1. \A i \in 1..n : Stay(f, ss[i], p, {})
  <2> SUFFICES ASSUME NEW i \in 1..n PROVE Stay(f, ss[i], p, {})  OBVIOUS
  <2>1. {} \subseteq T[i]  OBVIOUS
  <2> QED  BY <2>1, StayLess
<1>2. \A x \in R : \E i \in 1..n : Stay(f, ss[i], p, {x})
  <2> SUFFICES ASSUME NEW x \in R PROVE \E i \in 1..n : Stay(f, ss[i], p, {x})  OBVIOUS
  <2>1. PICK i \in 1..n : x \in T[i]  OBVIOUS
  <2>2. {x} \subseteq T[i]  BY <2>1
  <2>3. Stay(f, ss[i], p, {x})  BY <2>2, StayLess
  <2> QED  BY <2>3
<1>3. p \in 0..11  BY DEF Stay
<1> QED  BY <1>1, <1>2, <1>3, StayEach

\* The containers of a chain.
LEMMA Boxes ==
  /\ "penumbra" \in Families => /\ \A n \in Nodes : <<"tm", n>> \in Containers /\ <<"app", n>> \in Containers
                               /\ \A v \in Validators : <<"client", v>> \in Containers
  /\ "namada" \in Families => /\ \A v \in Validators : <<"val", v>> \in Containers
                             /\ \A i \in 1..NumFullNodes : <<"full", i>> \in Containers
  /\ "polkadot" \in Families => /\ \A i \in 1..NumRelay : <<"relay", i>> \in Containers
                               /\ \A p \in Paras : \A i \in 1..Parachains[p] : <<"para", p, i>> \in Containers
  /\ \A f \in Families \cap ThorFamilies : /\ \A n \in Nodes : <<"thor", n>> \in Containers
                                         /\ \A i \in 1..NumSidecars : <<"side", i>> \in Containers
<1>1. "penumbra" \in Families => /\ \A n \in Nodes : <<"tm", n>> \in Containers /\ <<"app", n>> \in Containers
                                /\ \A v \in Validators : <<"client", v>> \in Containers
  <2> SUFFICES ASSUME "penumbra" \in Families
               PROVE  /\ \A n \in Nodes : <<"tm", n>> \in Containers /\ <<"app", n>> \in Containers
                      /\ \A v \in Validators : <<"client", v>> \in Containers
    OBVIOUS
  <2>1. ContainersOf("penumbra") \subseteq Containers  BY Members
  <2>2. ContainersOf("penumbra") = ({"tm", "app"} \X Nodes) \cup ({"client"} \X Validators)  BY DEF ContainersOf
  <2> QED  BY <2>1, <2>2
<1>2. "namada" \in Families => /\ \A v \in Validators : <<"val", v>> \in Containers
                              /\ \A i \in 1..NumFullNodes : <<"full", i>> \in Containers
  <2> SUFFICES ASSUME "namada" \in Families
               PROVE  /\ \A v \in Validators : <<"val", v>> \in Containers
                      /\ \A i \in 1..NumFullNodes : <<"full", i>> \in Containers
    OBVIOUS
  <2>1. ContainersOf("namada") \subseteq Containers  BY Members
  <2>2. ContainersOf("namada") = ({"val"} \X Validators) \cup ({"full"} \X (1..NumFullNodes))  BY DEF ContainersOf
  <2> QED  BY <2>1, <2>2
<1>3. "polkadot" \in Families => /\ \A i \in 1..NumRelay : <<"relay", i>> \in Containers
                                /\ \A p \in Paras : \A i \in 1..Parachains[p] : <<"para", p, i>> \in Containers
  <2> SUFFICES ASSUME "polkadot" \in Families
               PROVE  /\ \A i \in 1..NumRelay : <<"relay", i>> \in Containers
                      /\ \A p \in Paras : \A i \in 1..Parachains[p] : <<"para", p, i>> \in Containers
    OBVIOUS
  <2>1. ContainersOf("polkadot") \subseteq Containers  BY Members
  <2>2. ContainersOf("polkadot") =
          ({"relay"} \X (1..NumRelay)) \cup UNION {{<<"para", p, i>> : i \in 1..Parachains[p]} : p \in Paras}
    BY DEF ContainersOf
  <2>3. \A i \in 1..NumRelay : <<"relay", i>> \in Containers  BY <2>1, <2>2
  <2>4. ASSUME NEW p \in Paras, NEW i \in 1..Parachains[p] PROVE <<"para", p, i>> \in Containers
    <3>1. <<"para", p, i>> \in {<<"para", p, j>> : j \in 1..Parachains[p]}  OBVIOUS
    <3> QED  BY <2>1, <2>2, <3>1
  <2> QED  BY <2>3, <2>4
<1>4. ASSUME NEW f \in Families \cap ThorFamilies
      PROVE  /\ \A n \in Nodes : <<"thor", n>> \in Containers
             /\ \A i \in 1..NumSidecars : <<"side", i>> \in Containers
  <2>1. ContainersOf(f) \subseteq Containers  BY Members
  <2>2. ContainersOf(f) = ({"thor"} \X Nodes) \cup ({"side"} \X (1..NumSidecars))
    BY DEF ContainersOf, ThorFamilies
  <2> QED  BY <2>1, <2>2
<1> QED  BY <1>1, <1>2, <1>3, <1>4

\* A step that Main takes in a phase.
LEMMA StayArg ==
  ASSUME NEW f, NEW p, Stay(f, <<>>, p, {}), NEW n \in {"define", "fund", "export", "writeGenesis"}, NEW a \in Args,
         MainMay(f, p, <<n, a>>)
  PROVE  Stay(f, <<<<n, a>>>>, p, {<<p, <<n, a>>>>})
<1> DEFINE st == <<n, a>>
<1>1. n \in Names  BY DEF Names
<1>2. st \in Steps  BY <1>1, InSteps
<1>3. st[1] \notin {"append", "replace"}  OBVIOUS
<1>4. MainMay(f, p, st)  OBVIOUS
<1> HIDE DEF st
<1>6. p \in 0..11  BY DEF Stay
<1>5. Stay(f, <<st>>, p, {<<p, st>>})  BY <1>6, <1>2, <1>3, <1>4, StayStep
<1> QED  BY <1>5 DEF st

----------------------------------------------------------------------------
(* penumbra *)

\* Every validator gets its goroutine.
LEMMA PenumbraValidators ==
  ASSUME "penumbra" \in Families
  PROVE  Stay("penumbra", Each(UpTo(NumValidators), LAMBDA v : Go(<<"tm", v>>, PenumbraValidator(v))),
       1, {<<1, <<"tm", v>>>> : v \in Validators})
<1> DEFINE n == NumValidators
           ss == [i \in DOMAIN (UpTo(NumValidators)) |-> Go(<<"tm", (UpTo(NumValidators))[i]>>, PenumbraValidator((UpTo(NumValidators))[i]))]
           T == [i \in 1..n |-> {<<1, <<"tm", i>>>>}]
           R == {<<1, <<"tm", v>>>> : v \in Validators}
<1>1. n \in Nat /\ DOMAIN (UpTo(NumValidators)) = 1..n /\ \A i \in 1..n : (UpTo(NumValidators))[i] = i
  BY ArgsHave DEF UpTo
<1>2. ss = [i \in 1..n |-> ss[i]] /\ \A i \in 1..n : ss[i] = Go(<<"tm", i>>, PenumbraValidator(i))
  BY <1>1
<1>3. ASSUME NEW i \in 1..n PROVE Stay("penumbra", Go(<<"tm", i>>, PenumbraValidator(i)), 1, {<<1, <<"tm", i>>>>})
  <2> DEFINE u == <<"tm", i>>
  <2>1. i \in Validators /\ i \in Nodes  BY ArgsHave DEF Validators
  <2>2. u \in Containers /\ u[1] = "tm" /\ u[2] = i  BY <2>1, Boxes
  <2> HIDE DEF u
  <2>3. Fits("penumbra", 1, u, PenumbraValidator(i))
    <3>1. Fits("penumbra", 1, u, PenumbraValidator(u[2]))  BY <2>1, <2>2, FitsPenumbraValidator
    <3> QED  BY <2>2, <3>1
  <2>4. Stay("penumbra", Go(u, PenumbraValidator(i)), 1, {<<1, u>>})  BY <2>2, <2>3, StayGoes, Nothing
  <2> QED  BY <2>4 DEF u
<1>4. \A x \in R : \E i \in 1..n : x \in T[i]
  BY DEF Validators
<1>5. \A i \in 1..n : Stay("penumbra", ss[i], 1, T[i])  BY <1>2, <1>3
<1>6. n \in Nat /\ ss = [i \in 1..n |-> ss[i]]  BY <1>1, <1>2
<1> HIDE DEF n, ss, T, R
<1>7. Stay("penumbra", FlattenSeq(ss), 1, R)  BY <1>4, <1>5, <1>6, StayAll, Nothing
<1> QED  BY <1>7 DEF Each, ss, R

\* ... and another for its key.
LEMMA PenumbraKeys ==
  ASSUME "penumbra" \in Families
  PROVE  Stay("penumbra", Each(UpTo(NumValidators), LAMBDA v : Go(<<"tm", v>>, Do(<<"readKeyOfNode", "writeKey">>))),
       3, {<<3, <<"tm", v>>>> : v \in Validators})
<1> DEFINE n == NumValidators
           ss == [i \in DOMAIN (UpTo(NumValidators)) |-> Go(<<"tm", (UpTo(NumValidators))[i]>>, Do(<<"readKeyOfNode", "writeKey">>))]
           T == [i \in 1..n |-> {<<3, <<"tm", i>>>>}]
           R == {<<3, <<"tm", v>>>> : v \in Validators}
<1>1. n \in Nat /\ DOMAIN (UpTo(NumValidators)) = 1..n /\ \A i \in 1..n : (UpTo(NumValidators))[i] = i
  BY ArgsHave DEF UpTo
<1>2. ss = [i \in 1..n |-> ss[i]] /\ \A i \in 1..n : ss[i] = Go(<<"tm", i>>, Do(<<"readKeyOfNode", "writeKey">>))
  BY <1>1
<1>3. ASSUME NEW i \in 1..n PROVE Stay("penumbra", Go(<<"tm", i>>, Do(<<"readKeyOfNode", "writeKey">>)), 3, {<<3, <<"tm", i>>>>})
  <2> DEFINE u == <<"tm", i>>
  <2>1. i \in Validators /\ i \in Nodes  BY ArgsHave DEF Validators
  <2>2. u \in Containers /\ u[1] = "tm" /\ u[2] = i  BY <2>1, Boxes
  <2> HIDE DEF u
  <2>3. Fits("penumbra", 3, u, Do(<<"readKeyOfNode", "writeKey">>))
    BY <2>1, <2>2, FitsPenumbra
  <2>4. Stay("penumbra", Go(u, Do(<<"readKeyOfNode", "writeKey">>)), 3, {<<3, u>>})  BY <2>2, <2>3, StayGoes, Nothing
  <2> QED  BY <2>4 DEF u
<1>4. \A x \in R : \E i \in 1..n : x \in T[i]
  BY DEF Validators
<1>5. \A i \in 1..n : Stay("penumbra", ss[i], 3, T[i])  BY <1>2, <1>3
<1>6. n \in Nat /\ ss = [i \in 1..n |-> ss[i]]  BY <1>1, <1>2
<1> HIDE DEF n, ss, T, R
<1>7. Stay("penumbra", FlattenSeq(ss), 3, R)  BY <1>4, <1>5, <1>6, StayAll, Nothing
<1> QED  BY <1>7 DEF Each, ss, R

\* ... and another for its pclientd.
LEMMA PenumbraClients ==
  ASSUME "penumbra" \in Families
  PROVE  Stay("penumbra", Each(UpTo(NumValidators), LAMBDA v : Go(<<"client", v>>, Do(<<"readConfig">>) \o CreateClientNode)),
       10, {<<10, <<"client", v>>>> : v \in Validators})
<1> DEFINE n == NumValidators
           ss == [i \in DOMAIN (UpTo(NumValidators)) |-> Go(<<"client", (UpTo(NumValidators))[i]>>, Do(<<"readConfig">>) \o CreateClientNode)]
           T == [i \in 1..n |-> {<<10, <<"client", i>>>>}]
           R == {<<10, <<"client", v>>>> : v \in Validators}
<1>1. n \in Nat /\ DOMAIN (UpTo(NumValidators)) = 1..n /\ \A i \in 1..n : (UpTo(NumValidators))[i] = i
  BY ArgsHave DEF UpTo
<1>2. ss = [i \in 1..n |-> ss[i]] /\ \A i \in 1..n : ss[i] = Go(<<"client", i>>, Do(<<"readConfig">>) \o CreateClientNode)
  BY <1>1
<1>3. ASSUME NEW i \in 1..n PROVE Stay("penumbra", Go(<<"client", i>>, Do(<<"readConfig">>) \o CreateClientNode), 10, {<<10, <<"client", i>>>>})
  <2> DEFINE u == <<"client", i>>
  <2>1. i \in Validators /\ i \in Nodes  BY ArgsHave DEF Validators
  <2>2. u \in Containers /\ u[1] = "client" /\ u[2] = i  BY <2>1, Boxes
  <2> HIDE DEF u
  <2>3. Fits("penumbra", 10, u, Do(<<"readConfig">>) \o CreateClientNode)
    BY <2>1, <2>2, FitsPenumbra
  <2>4. Stay("penumbra", Go(u, Do(<<"readConfig">>) \o CreateClientNode), 10, {<<10, u>>})  BY <2>2, <2>3, StayGoes, Nothing
  <2> QED  BY <2>4 DEF u
<1>4. \A x \in R : \E i \in 1..n : x \in T[i]
  BY DEF Validators
<1>5. \A i \in 1..n : Stay("penumbra", ss[i], 10, T[i])  BY <1>2, <1>3
<1>6. n \in Nat /\ ss = [i \in 1..n |-> ss[i]]  BY <1>1, <1>2
<1> HIDE DEF n, ss, T, R
<1>7. Stay("penumbra", FlattenSeq(ss), 10, R)  BY <1>4, <1>5, <1>6, StayAll, Nothing
<1> QED  BY <1>7 DEF Each, ss, R

\* Full nodes only have their files made.
LEMMA PenumbraFullNodes ==
  ASSUME "penumbra" \in Families
  PROVE  Stay("penumbra", Each(UpTo(NumFullNodes), LAMBDA v : Go(<<"tm", NumValidators + v>>, Do(<<"initFiles">>))),
       1, {})
<1> DEFINE n == NumFullNodes
           ss == [i \in DOMAIN (UpTo(NumFullNodes)) |-> Go(<<"tm", NumValidators + (UpTo(NumFullNodes))[i]>>, Do(<<"initFiles">>))]
           T == [i \in 1..n |-> {<<1, <<"tm", NumValidators + i>>>>}]
           R == {}
<1>1. n \in Nat /\ DOMAIN (UpTo(NumFullNodes)) = 1..n /\ \A i \in 1..n : (UpTo(NumFullNodes))[i] = i
  BY ArgsHave DEF UpTo
<1>2. ss = [i \in 1..n |-> ss[i]] /\ \A i \in 1..n : ss[i] = Go(<<"tm", NumValidators + i>>, Do(<<"initFiles">>))
  BY <1>1
<1>3. ASSUME NEW i \in 1..n PROVE Stay("penumbra", Go(<<"tm", NumValidators + i>>, Do(<<"initFiles">>)), 1, {<<1, <<"tm", NumValidators + i>>>>})
  <2> DEFINE u == <<"tm", NumValidators + i>>
  <2>1. NumValidators + i \in Nodes /\ NumValidators + i \notin Validators  BY ArgsHave DEF Nodes, Validators
  <2>2. u \in Containers /\ u[1] = "tm" /\ u[2] = NumValidators + i  BY <2>1, Boxes
  <2> HIDE DEF u
  <2>3. Fits("penumbra", 1, u, Do(<<"initFiles">>))  BY <2>1, <2>2, FitsPenumbra
  <2>4. Stay("penumbra", Go(u, Do(<<"initFiles">>)), 1, {<<1, u>>})  BY <2>2, <2>3, StayGoes, Nothing
  <2> QED  BY <2>4 DEF u
<1>4. \A x \in R : \E i \in 1..n : x \in T[i]
  OBVIOUS
<1>5. \A i \in 1..n : Stay("penumbra", ss[i], 1, T[i])  BY <1>2, <1>3
<1>6. n \in Nat /\ ss = [i \in 1..n |-> ss[i]]  BY <1>1, <1>2
<1> HIDE DEF n, ss, T, R
<1>7. Stay("penumbra", FlattenSeq(ss), 1, R)  BY <1>4, <1>5, <1>6, StayAll, Nothing
<1> QED  BY <1>7 DEF Each, ss, R

\* Main appends the wallets' allocations.
LEMMA PenumbraWallets ==
  Stay("penumbra", Each(Wallets, LAMBDA v : <<<<"lock">>, <<"append", v>>>>),
       1, {<<1, <<"append", w>>>> : w \in Range(Wallets)})
<1> DEFINE n == Len(Wallets)
           ss == [i \in DOMAIN (Wallets) |-> <<<<"lock">>, <<"append", (Wallets)[i]>>>>]
           T == [i \in 1..n |-> {<<1, <<"append", Wallets[i]>>>>}]
           R == {<<1, <<"append", w>>>> : w \in Range(Wallets)}
<1>1. n \in Nat /\ DOMAIN (Wallets) = 1..n /\ \A i \in 1..n : (Wallets)[i] = Wallets[i]
  BY StartAssumption
<1>2. ss = [i \in 1..n |-> ss[i]] /\ \A i \in 1..n : ss[i] = <<<<"lock">>, <<"append", Wallets[i]>>>>
  BY <1>1
<1>3. ASSUME NEW i \in 1..n PROVE Stay("penumbra", <<<<"lock">>, <<"append", Wallets[i]>>>>, 1, {<<1, <<"append", Wallets[i]>>>>})
  <2> DEFINE w == Wallets[i]
             a == <<"lock">>
             b == <<"append", w>>
  <2>1. w \in Range(Wallets)  BY <1>1 DEF Range
  <2>2. MainMay("penumbra", 1, a) /\ MainMay("penumbra", 1, b)  BY <2>1 DEF MainMay
  <2>3. a \in Steps /\ b \in Steps
    <3>1. "lock" \in Names /\ "append" \in Names /\ w \in Args  BY <2>1, ArgsHave DEF Names
    <3> HIDE DEF w
    <3> QED  BY <3>1, InSteps
  <2>4. a[1] = "lock" /\ b[1] = "append"  OBVIOUS
  <2> HIDE DEF a, b
  <2>5. Stay("penumbra", <<a, b>>, 1, {<<1, a>>, <<1, b>>})  BY <2>2, <2>3, <2>4, StayBoth, Nothing
  <2>6. Stay("penumbra", <<a, b>>, 1, {<<1, b>>})  BY <2>5, StayLess
  <2> QED  BY <2>6 DEF a, b
<1>4. \A x \in R : \E i \in 1..n : x \in T[i]
  <2>1. \A w \in Range(Wallets) : \E i \in 1..n : w = Wallets[i]  BY <1>1 DEF Range
  <2> QED  BY <2>1
<1>5. \A i \in 1..n : Stay("penumbra", ss[i], 1, T[i])  BY <1>2, <1>3
<1>6. n \in Nat /\ ss = [i \in 1..n |-> ss[i]]  BY <1>1, <1>2
<1> HIDE DEF n, ss, T, R
<1>7. Stay("penumbra", FlattenSeq(ss), 1, R)  BY <1>4, <1>5, <1>6, StayAll, Nothing
<1> QED  BY <1>7 DEF Each, ss, R

\* Main writes the genesis file of every node.
LEMMA PenumbraGenesis ==
  ASSUME "penumbra" \in Families
  PROVE  Stay("penumbra", Each(AllNodes, LAMBDA v : <<<<"writeGenesis", <<"tm", v>>>>>>),
       5, {<<5, <<"writeGenesis", <<"tm", v>>>>>> : v \in Nodes})
<1> DEFINE n == NumValidators + NumFullNodes
           ss == [i \in DOMAIN (AllNodes) |-> <<<<"writeGenesis", <<"tm", (AllNodes)[i]>>>>>>]
           T == [i \in 1..n |-> {<<5, <<"writeGenesis", <<"tm", i>>>>>>}]
           R == {<<5, <<"writeGenesis", <<"tm", v>>>>>> : v \in Nodes}
<1>1. n \in Nat /\ DOMAIN (AllNodes) = 1..n /\ \A i \in 1..n : (AllNodes)[i] = i
  BY ArgsHave DEF AllNodes, UpTo
<1>2. ss = [i \in 1..n |-> ss[i]] /\ \A i \in 1..n : ss[i] = <<<<"writeGenesis", <<"tm", i>>>>>>
  BY <1>1
<1>3. ASSUME NEW i \in 1..n PROVE Stay("penumbra", <<<<"writeGenesis", <<"tm", i>>>>>>, 5, {<<5, <<"writeGenesis", <<"tm", i>>>>>>})
  <2>1. i \in Nodes  BY DEF Nodes
  <2> DEFINE u == <<"tm", i>>
  <2>2. u \in Args  BY <2>1, Boxes, ArgsHave
  <2>3. MainMay("penumbra", 5, <<"writeGenesis", u>>)  BY <2>1 DEF MainMay
  <2> HIDE DEF u
  <2>4. Stay("penumbra", <<<<"writeGenesis", u>>>>, 5, {<<5, <<"writeGenesis", u>>>>})  BY <2>2, <2>3, StayArg, Nothing
  <2> QED  BY <2>4 DEF u
<1>4. \A x \in R : \E i \in 1..n : x \in T[i]
  BY DEF Nodes
<1>5. \A i \in 1..n : Stay("penumbra", ss[i], 5, T[i])  BY <1>2, <1>3
<1>6. n \in Nat /\ ss = [i \in 1..n |-> ss[i]]  BY <1>1, <1>2
<1> HIDE DEF n, ss, T, R
<1>7. Stay("penumbra", FlattenSeq(ss), 5, R)  BY <1>4, <1>5, <1>6, StayAll, Nothing
<1> QED  BY <1>7 DEF Each, ss, R

\* The containers of every node are created.
LEMMA PenumbraCreates ==
  ASSUME "penumbra" \in Families
  PROVE  Stay("penumbra", Each(AllNodes, LAMBDA v : Go(<<"tm", v>>, Do(<<"create">>)) \o Go(<<"app", v>>, Do(<<"create">>))),
       7, ({7} \X ({"tm", "app"} \X Nodes)))
<1> DEFINE n == NumValidators + NumFullNodes
           ss == [i \in DOMAIN (AllNodes) |-> Go(<<"tm", (AllNodes)[i]>>, Do(<<"create">>)) \o Go(<<"app", (AllNodes)[i]>>, Do(<<"create">>))]
           T == [i \in 1..n |-> {<<7, <<"tm", i>>>>, <<7, <<"app", i>>>>}]
           R == ({7} \X ({"tm", "app"} \X Nodes))
<1>1. n \in Nat /\ DOMAIN (AllNodes) = 1..n /\ \A i \in 1..n : (AllNodes)[i] = i
  BY ArgsHave DEF AllNodes, UpTo
<1>2. ss = [i \in 1..n |-> ss[i]] /\ \A i \in 1..n : ss[i] = Go(<<"tm", i>>, Do(<<"create">>)) \o Go(<<"app", i>>, Do(<<"create">>))
  BY <1>1
<1>3. ASSUME NEW i \in 1..n PROVE Stay("penumbra", Go(<<"tm", i>>, Do(<<"create">>)) \o Go(<<"app", i>>, Do(<<"create">>)), 7, {<<7, <<"tm", i>>>>, <<7, <<"app", i>>>>})
  <2> DEFINE u == <<"tm", i>>
             w == <<"app", i>>
  <2>1. i \in Nodes  BY DEF Nodes
  <2>2. /\ u \in Containers /\ u[1] = "tm" /\ u[2] = i
        /\ w \in Containers /\ w[1] = "app"
    BY <2>1, Boxes
  <2> HIDE DEF u, w
  <2>3. Fits("penumbra", 7, u, Do(<<"create">>)) /\ Fits("penumbra", 7, w, Do(<<"create">>))
    BY <2>2, FitsPenumbra
  <2>4. /\ Stay("penumbra", Go(u, Do(<<"create">>)), 7, {<<7, u>>})
        /\ Stay("penumbra", Go(w, Do(<<"create">>)), 7, {<<7, w>>})
    BY <2>2, <2>3, StayGoes, Nothing
  <2>5. Stay("penumbra", Go(u, Do(<<"create">>)) \o Go(w, Do(<<"create">>)), 7, {<<7, u>>} \cup {<<7, w>>})
    BY <2>4, StayConcat
  <2>6. {<<7, u>>} \cup {<<7, w>>} = {<<7, u>>, <<7, w>>}  OBVIOUS
  <2>7. Stay("penumbra", Go(u, Do(<<"create">>)) \o Go(w, Do(<<"create">>)), 7, {<<7, u>>, <<7, w>>})
    BY <2>5, <2>6
  <2> QED  BY <2>7 DEF u, w
<1>4. \A x \in R : \E i \in 1..n : x \in T[i]
  <2> SUFFICES ASSUME NEW c \in {"tm", "app"}, NEW i \in Nodes PROVE \E j \in 1..n : <<7, <<c, i>>>> \in T[j]
    OBVIOUS
  <2>1. i \in 1..n  BY DEF Nodes
  <2>2. <<7, <<c, i>>>> \in T[i]  BY <2>1
  <2> QED  BY <2>1, <2>2
<1>5. \A i \in 1..n : Stay("penumbra", ss[i], 7, T[i])  BY <1>2, <1>3
<1>6. n \in Nat /\ ss = [i \in 1..n |-> ss[i]]  BY <1>1, <1>2
<1> HIDE DEF n, ss, T, R
<1>7. Stay("penumbra", FlattenSeq(ss), 7, R)  BY <1>4, <1>5, <1>6, StayAll, Nothing
<1> QED  BY <1>7 DEF Each, ss, R

\* ... and started.
LEMMA PenumbraRuns ==
  ASSUME "penumbra" \in Families
  PROVE  Stay("penumbra", Each(AllNodes, LAMBDA v : Go(<<"tm", v>>, SetConfigAndPeers \o TendermintStartContainer) \o Go(<<"app", v>>, AppStartContainer)),
       8, ({8} \X ({"tm", "app"} \X Nodes)))
<1> DEFINE n == NumValidators + NumFullNodes
           ss == [i \in DOMAIN (AllNodes) |-> Go(<<"tm", (AllNodes)[i]>>, SetConfigAndPeers \o TendermintStartContainer) \o Go(<<"app", (AllNodes)[i]>>, AppStartContainer)]
           T == [i \in 1..n |-> {<<8, <<"tm", i>>>>, <<8, <<"app", i>>>>}]
           R == ({8} \X ({"tm", "app"} \X Nodes))
<1>1. n \in Nat /\ DOMAIN (AllNodes) = 1..n /\ \A i \in 1..n : (AllNodes)[i] = i
  BY ArgsHave DEF AllNodes, UpTo
<1>2. ss = [i \in 1..n |-> ss[i]] /\ \A i \in 1..n : ss[i] = Go(<<"tm", i>>, SetConfigAndPeers \o TendermintStartContainer) \o Go(<<"app", i>>, AppStartContainer)
  BY <1>1
<1>3. ASSUME NEW i \in 1..n PROVE Stay("penumbra", Go(<<"tm", i>>, SetConfigAndPeers \o TendermintStartContainer) \o Go(<<"app", i>>, AppStartContainer), 8, {<<8, <<"tm", i>>>>, <<8, <<"app", i>>>>})
  <2> DEFINE u == <<"tm", i>>
             w == <<"app", i>>
  <2>1. i \in Nodes  BY DEF Nodes
  <2>2. /\ u \in Containers /\ u[1] = "tm" /\ u[2] = i
        /\ w \in Containers /\ w[1] = "app"
    BY <2>1, Boxes
  <2> HIDE DEF u, w
  <2>3. Fits("penumbra", 8, u, SetConfigAndPeers \o TendermintStartContainer) /\ Fits("penumbra", 8, w, AppStartContainer)
    BY <2>2, FitsPenumbra
  <2>4. /\ Stay("penumbra", Go(u, SetConfigAndPeers \o TendermintStartContainer), 8, {<<8, u>>})
        /\ Stay("penumbra", Go(w, AppStartContainer), 8, {<<8, w>>})
    BY <2>2, <2>3, StayGoes, Nothing
  <2>5. Stay("penumbra", Go(u, SetConfigAndPeers \o TendermintStartContainer) \o Go(w, AppStartContainer), 8, {<<8, u>>} \cup {<<8, w>>})
    BY <2>4, StayConcat
  <2>6. {<<8, u>>} \cup {<<8, w>>} = {<<8, u>>, <<8, w>>}  OBVIOUS
  <2>7. Stay("penumbra", Go(u, SetConfigAndPeers \o TendermintStartContainer) \o Go(w, AppStartContainer), 8, {<<8, u>>, <<8, w>>})
    BY <2>5, <2>6
  <2> QED  BY <2>7 DEF u, w
<1>4. \A x \in R : \E i \in 1..n : x \in T[i]
  <2> SUFFICES ASSUME NEW c \in {"tm", "app"}, NEW i \in Nodes PROVE \E j \in 1..n : <<8, <<c, i>>>> \in T[j]
    OBVIOUS
  <2>1. i \in 1..n  BY DEF Nodes
  <2>2. <<8, <<c, i>>>> \in T[i]  BY <2>1
  <2> QED  BY <2>1, <2>2
<1>5. \A i \in 1..n : Stay("penumbra", ss[i], 8, T[i])  BY <1>2, <1>3
<1>6. n \in Nat /\ ss = [i \in 1..n |-> ss[i]]  BY <1>1, <1>2
<1> HIDE DEF n, ss, T, R
<1>7. Stay("penumbra", FlattenSeq(ss), 8, R)  BY <1>4, <1>5, <1>6, StayAll, Nothing
<1> QED  BY <1>7 DEF Each, ss, R

----------------------------------------------------------------------------
(* namada *)

\* What plain calls of Main add to a phase.
LEMMA StayDoes ==
  ASSUME NEW f, NEW p, Stay(f, <<>>, p, {}), NEW names \in Seq(Names),
         \A i \in 1..Len(names) : names[i] \notin {"append", "replace"} /\ MainMay(f, p, <<names[i]>>)
  PROVE  Stay(f, Do(names), p, {})
<1>1. p \in 0..11  BY DEF Stay
<1> QED  BY <1>1, StayDo

\* Whom a namada chain's genesis funds, in order.
Payees == UpTo(NumValidators) \o <<GasPayer>> \o Wallets

\* Their number and who they are.
LEMMA PayeesAre ==
  /\ NumValidators + 1 + Len(Wallets) \in Nat /\ DOMAIN Payees = 1..(NumValidators + 1 + Len(Wallets))
  /\ \A i \in 1..(NumValidators + 1 + Len(Wallets)) : Payees[i] \in Validators \cup {GasPayer} \cup Range(Wallets)
  /\ \A w \in Validators \cup {GasPayer} \cup Range(Wallets) :
       \E i \in 1..(NumValidators + 1 + Len(Wallets)) : Payees[i] = w
<1> DEFINE a == UpTo(NumValidators)
           b == <<GasPayer>>
           c == a \o b
           S == Validators \cup {GasPayer} \cup Range(Wallets)
           k == NumValidators
<1>1. k \in Nat /\ a \in [1..k -> S] /\ \A i \in 1..k : a[i] = i  BY ArgsHave DEF UpTo, Validators
<1>2. a \in Seq(S) /\ Len(a) = k
  <2> HIDE DEF a, S, k
  <2> QED  BY <1>1, SeqDef
<1>3. b \in Seq(S) /\ Len(b) = 1 /\ b[1] = GasPayer  OBVIOUS
<1>4. Wallets \in Seq(S) /\ \A w \in Range(Wallets) : \E i \in 1..Len(Wallets) : Wallets[i] = w
  <2>1. Wallets \in Seq(Range(Wallets))  BY StartAssumption
  <2>2. DOMAIN Wallets = 1..Len(Wallets)  BY <2>1
  <2> QED  BY <2>1, <2>2 DEF Range
<1>5. S = Validators \cup {GasPayer} \cup Range(Wallets) /\ Validators = 1..k  BY DEF Validators
<1> HIDE DEF a, b, c, S, k
<1>6. /\ c \in Seq(S) /\ Len(c) = k + 1
      /\ \A i \in 1..k : c[i] = a[i]
      /\ \A i \in 1..1 : c[k + i] = b[i]
  <2>1. c = a \o b  BY DEF c
  <2>2. a \in Seq(S) /\ b \in Seq(S)  BY <1>2, <1>3
  <2>3. /\ a \o b \in Seq(S) /\ Len(a \o b) = Len(a) + Len(b)
        /\ \A i \in 1..Len(a) : (a \o b)[i] = a[i]
        /\ \A i \in 1..Len(b) : (a \o b)[Len(a) + i] = b[i]
    <3>1. a \in Seq(S)  BY <2>2
    <3>2. b \in Seq(S)  BY <2>2
    <3> QED  BY <3>1, <3>2, ConcatFacts
  <2> QED  BY <1>2, <1>3, <2>1, <2>3
<1>7. /\ c \o Wallets \in Seq(S) /\ Len(c \o Wallets) = k + 1 + Len(Wallets) /\ Len(Wallets) \in Nat
      /\ \A i \in 1..(k + 1) : (c \o Wallets)[i] = c[i]
      /\ \A i \in 1..Len(Wallets) : (c \o Wallets)[k + 1 + i] = Wallets[i]
  <2>1. c \in Seq(S)  BY <1>6
  <2>2. Wallets \in Seq(S)  BY <1>4
  <2>3. /\ c \o Wallets \in Seq(S) /\ Len(c \o Wallets) = Len(c) + Len(Wallets) /\ Len(Wallets) \in Nat
        /\ \A i \in 1..Len(c) : (c \o Wallets)[i] = c[i]
        /\ \A i \in 1..Len(Wallets) : (c \o Wallets)[Len(c) + i] = Wallets[i]
    BY <2>1, <2>2, ConcatFacts
  <2> QED  BY <1>1, <1>6, <2>3
<1>8. Payees = c \o Wallets  BY DEF Payees, a, b, c
<1> DEFINE m == k + 1 + Len(Wallets)
<1>9. Payees \in Seq(S) /\ Len(Payees) = m /\ m \in Nat  BY <1>1, <1>7, <1>8
<1>10. DOMAIN Payees = 1..m /\ \A i \in 1..m : Payees[i] \in S
  <2> HIDE DEF m
  <2> QED  BY <1>9
<1>11. ASSUME NEW w \in S PROVE \E i \in 1..m : Payees[i] = w
  <2>1. CASE w \in Validators
    <3>1. w \in 1..k /\ w \in 1..(k + 1) /\ w \in 1..m  BY <1>1, <1>5, <1>7, <2>1
    <3> QED  BY <1>1, <1>6, <1>7, <1>8, <3>1
  <2>2. CASE w = GasPayer
    <3>1. 1 \in 1..1 /\ k + 1 \in 1..(k + 1) /\ k + 1 \in 1..m  BY <1>1, <1>7
    <3> QED  BY <1>3, <1>6, <1>7, <1>8, <2>2, <3>1
  <2>3. CASE w \in Range(Wallets)
    <3>1. PICK i \in 1..Len(Wallets) : Wallets[i] = w  BY <1>4, <2>3
    <3>2. k + 1 + i \in 1..m  BY <1>1, <1>7
    <3> QED  BY <1>7, <1>8, <3>1, <3>2
  <2> QED  BY <1>5, <2>1, <2>2, <2>3
<1> QED  BY <1>5, <1>9, <1>10, <1>11 DEF k

\* Main enters every validator.
LEMMA NamadaDefines ==
  Stay("namada", Each(UpTo(NumValidators), LAMBDA v : <<<<"define", v>>>>),
       2, {<<2, <<"define", v>>>> : v \in Validators})
<1> DEFINE n == NumValidators
           ss == [i \in DOMAIN (UpTo(NumValidators)) |-> <<<<"define", (UpTo(NumValidators))[i]>>>>]
           T == [i \in 1..n |-> {<<2, <<"define", i>>>>}]
           R == {<<2, <<"define", v>>>> : v \in Validators}
<1>1. n \in Nat /\ DOMAIN (UpTo(NumValidators)) = 1..n /\ \A i \in 1..n : (UpTo(NumValidators))[i] = i
  BY ArgsHave DEF UpTo
<1>2. ss = [i \in 1..n |-> ss[i]] /\ \A i \in 1..n : ss[i] = <<<<"define", i>>>>
  BY <1>1
<1>3. ASSUME NEW i \in 1..n PROVE Stay("namada", <<<<"define", i>>>>, 2, {<<2, <<"define", i>>>>})
  <2> DEFINE w == i
  <2>1. w \in Validators /\ w \in Args  BY ArgsHave DEF Validators
  <2>2. MainMay("namada", 2, <<"define", w>>)  BY <2>1 DEF MainMay
  <2> HIDE DEF w
  <2>3. Stay("namada", <<<<"define", w>>>>, 2, {<<2, <<"define", w>>>>})  BY <2>1, <2>2, StayArg, Nothing
  <2> QED  BY <2>3 DEF w
<1>4. \A x \in R : \E i \in 1..n : x \in T[i]
  BY DEF Validators
<1>5. \A i \in 1..n : Stay("namada", ss[i], 2, T[i])  BY <1>2, <1>3
<1>6. n \in Nat /\ ss = [i \in 1..n |-> ss[i]]  BY <1>1, <1>2
<1> HIDE DEF n, ss, T, R
<1>7. Stay("namada", FlattenSeq(ss), 2, R)  BY <1>4, <1>5, <1>6, StayAll, Nothing
<1> QED  BY <1>7 DEF Each, ss, R

\* ... and funds whom Start was given.
LEMMA NamadaFunds ==
  Stay("namada", Each(Payees, LAMBDA v : <<<<"fund", v>>>>),
       2, {<<2, <<"fund", w>>>> : w \in Validators \cup {GasPayer} \cup Range(Wallets)})
<1> DEFINE n == NumValidators + 1 + Len(Wallets)
           ss == [i \in DOMAIN (Payees) |-> <<<<"fund", (Payees)[i]>>>>]
           T == [i \in 1..n |-> {<<2, <<"fund", Payees[i]>>>>}]
           R == {<<2, <<"fund", w>>>> : w \in Validators \cup {GasPayer} \cup Range(Wallets)}
<1>1. n \in Nat /\ DOMAIN (Payees) = 1..n /\ \A i \in 1..n : (Payees)[i] = Payees[i]
  BY PayeesAre
<1>2. ss = [i \in 1..n |-> ss[i]] /\ \A i \in 1..n : ss[i] = <<<<"fund", Payees[i]>>>>
  BY <1>1
<1>3. ASSUME NEW i \in 1..n PROVE Stay("namada", <<<<"fund", Payees[i]>>>>, 2, {<<2, <<"fund", Payees[i]>>>>})
  <2> DEFINE w == Payees[i]
  <2>1. w \in Validators \cup {GasPayer} \cup Range(Wallets) /\ w \in Args  BY PayeesAre, ArgsHave
  <2>2. MainMay("namada", 2, <<"fund", w>>)  BY <2>1 DEF MainMay
  <2> HIDE DEF w
  <2>3. Stay("namada", <<<<"fund", w>>>>, 2, {<<2, <<"fund", w>>>>})  BY <2>1, <2>2, StayArg, Nothing
  <2> QED  BY <2>3 DEF w
<1>4. \A x \in R : \E i \in 1..n : x \in T[i]
  <2>1. \A w \in Validators \cup {GasPayer} \cup Range(Wallets) : \E i \in 1..n : w = Payees[i]  BY PayeesAre
  <2> QED  BY <2>1
<1>5. \A i \in 1..n : Stay("namada", ss[i], 2, T[i])  BY <1>2, <1>3
<1>6. n \in Nat /\ ss = [i \in 1..n |-> ss[i]]  BY <1>1, <1>2
<1> HIDE DEF n, ss, T, R
<1>7. Stay("namada", FlattenSeq(ss), 2, R)  BY <1>4, <1>5, <1>6, StayAll, Nothing
<1> QED  BY <1>7 DEF Each, ss, R

\* Every validator gets its goroutine.
LEMMA NamadaValidators ==
  ASSUME "namada" \in Families
  PROVE  Stay("namada", Each(UpTo(NumValidators), LAMBDA v : Go(<<"val", v>>, CopyGenesisFiles \o CopyValidatorWallet \o Do(<<"create">>))),
       7, {<<7, <<"val", v>>>> : v \in Validators})
<1> DEFINE n == NumValidators
           ss == [i \in DOMAIN (UpTo(NumValidators)) |-> Go(<<"val", (UpTo(NumValidators))[i]>>, CopyGenesisFiles \o CopyValidatorWallet \o Do(<<"create">>))]
           T == [i \in 1..n |-> {<<7, <<"val", i>>>>}]
           R == {<<7, <<"val", v>>>> : v \in Validators}
<1>1. n \in Nat /\ DOMAIN (UpTo(NumValidators)) = 1..n /\ \A i \in 1..n : (UpTo(NumValidators))[i] = i
  BY ArgsHave DEF UpTo
<1>2. ss = [i \in 1..n |-> ss[i]] /\ \A i \in 1..n : ss[i] = Go(<<"val", i>>, CopyGenesisFiles \o CopyValidatorWallet \o Do(<<"create">>))
  BY <1>1
<1>3. ASSUME NEW i \in 1..n PROVE Stay("namada", Go(<<"val", i>>, CopyGenesisFiles \o CopyValidatorWallet \o Do(<<"create">>)), 7, {<<7, <<"val", i>>>>})
  <2> DEFINE u == <<"val", i>>
  <2>1. i \in Validators  BY DEF Validators
  <2>2. u \in Containers /\ u[1] = "val" /\ u[2] = i  BY <2>1, Boxes
  <2> HIDE DEF u
  <2>3. Fits("namada", 7, u, CopyGenesisFiles \o CopyValidatorWallet \o Do(<<"create">>))
    BY <2>2, FitsNamada
  <2>4. Stay("namada", Go(u, CopyGenesisFiles \o CopyValidatorWallet \o Do(<<"create">>)), 7, {<<7, u>>})  BY <2>2, <2>3, StayGoes, Nothing
  <2> QED  BY <2>4 DEF u
<1>4. \A x \in R : \E i \in 1..n : x \in T[i]
  BY DEF Validators
<1>5. \A i \in 1..n : Stay("namada", ss[i], 7, T[i])  BY <1>2, <1>3
<1>6. n \in Nat /\ ss = [i \in 1..n |-> ss[i]]  BY <1>1, <1>2
<1> HIDE DEF n, ss, T, R
<1>7. Stay("namada", FlattenSeq(ss), 7, R)  BY <1>4, <1>5, <1>6, StayAll, Nothing
<1> QED  BY <1>7 DEF Each, ss, R

\* ... and so does every full node.
LEMMA NamadaFullNodes ==
  ASSUME "namada" \in Families
  PROVE  Stay("namada", Each(UpTo(NumFullNodes), LAMBDA v : Go(<<"full", v>>, CopyGenesisFiles \o Do(<<"create">>))),
       7, {<<7, <<"full", v>>>> : v \in 1..NumFullNodes})
<1> DEFINE n == NumFullNodes
           ss == [i \in DOMAIN (UpTo(NumFullNodes)) |-> Go(<<"full", (UpTo(NumFullNodes))[i]>>, CopyGenesisFiles \o Do(<<"create">>))]
           T == [i \in 1..n |-> {<<7, <<"full", i>>>>}]
           R == {<<7, <<"full", v>>>> : v \in 1..NumFullNodes}
<1>1. n \in Nat /\ DOMAIN (UpTo(NumFullNodes)) = 1..n /\ \A i \in 1..n : (UpTo(NumFullNodes))[i] = i
  BY ArgsHave DEF UpTo
<1>2. ss = [i \in 1..n |-> ss[i]] /\ \A i \in 1..n : ss[i] = Go(<<"full", i>>, CopyGenesisFiles \o Do(<<"create">>))
  BY <1>1
<1>3. ASSUME NEW i \in 1..n PROVE Stay("namada", Go(<<"full", i>>, CopyGenesisFiles \o Do(<<"create">>)), 7, {<<7, <<"full", i>>>>})
  <2> DEFINE u == <<"full", i>>
  <2>1. i \in 1..NumFullNodes  OBVIOUS
  <2>2. u \in Containers /\ u[1] = "full" /\ u[2] = i  BY <2>1, Boxes
  <2> HIDE DEF u
  <2>3. Fits("namada", 7, u, CopyGenesisFiles \o Do(<<"create">>))
    BY <2>2, FitsNamada
  <2>4. Stay("namada", Go(u, CopyGenesisFiles \o Do(<<"create">>)), 7, {<<7, u>>})  BY <2>2, <2>3, StayGoes, Nothing
  <2> QED  BY <2>4 DEF u
<1>4. \A x \in R : \E i \in 1..n : x \in T[i]
  OBVIOUS
<1>5. \A i \in 1..n : Stay("namada", ss[i], 7, T[i])  BY <1>2, <1>3
<1>6. n \in Nat /\ ss = [i \in 1..n |-> ss[i]]  BY <1>1, <1>2
<1> HIDE DEF n, ss, T, R
<1>7. Stay("namada", FlattenSeq(ss), 7, R)  BY <1>4, <1>5, <1>6, StayAll, Nothing
<1> QED  BY <1>7 DEF Each, ss, R

\* They are started,
LEMMA NamadaValidatorsRun ==
  ASSUME "namada" \in Families
  PROVE  Stay("namada", Each(UpTo(NumValidators), LAMBDA v : Go(<<"val", v>>, NamadaStartContainer)),
       8, {<<8, <<"val", v>>>> : v \in Validators})
<1> DEFINE n == NumValidators
           ss == [i \in DOMAIN (UpTo(NumValidators)) |-> Go(<<"val", (UpTo(NumValidators))[i]>>, NamadaStartContainer)]
           T == [i \in 1..n |-> {<<8, <<"val", i>>>>}]
           R == {<<8, <<"val", v>>>> : v \in Validators}
<1>1. n \in Nat /\ DOMAIN (UpTo(NumValidators)) = 1..n /\ \A i \in 1..n : (UpTo(NumValidators))[i] = i
  BY ArgsHave DEF UpTo
<1>2. ss = [i \in 1..n |-> ss[i]] /\ \A i \in 1..n : ss[i] = Go(<<"val", i>>, NamadaStartContainer)
  BY <1>1
<1>3. ASSUME NEW i \in 1..n PROVE Stay("namada", Go(<<"val", i>>, NamadaStartContainer), 8, {<<8, <<"val", i>>>>})
  <2> DEFINE u == <<"val", i>>
  <2>1. i \in Validators  BY DEF Validators
  <2>2. u \in Containers /\ u[1] = "val" /\ u[2] = i  BY <2>1, Boxes
  <2> HIDE DEF u
  <2>3. Fits("namada", 8, u, NamadaStartContainer)
    BY <2>2, FitsNamada
  <2>4. Stay("namada", Go(u, NamadaStartContainer), 8, {<<8, u>>})  BY <2>2, <2>3, StayGoes, Nothing
  <2> QED  BY <2>4 DEF u
<1>4. \A x \in R : \E i \in 1..n : x \in T[i]
  BY DEF Validators
<1>5. \A i \in 1..n : Stay("namada", ss[i], 8, T[i])  BY <1>2, <1>3
<1>6. n \in Nat /\ ss = [i \in 1..n |-> ss[i]]  BY <1>1, <1>2
<1> HIDE DEF n, ss, T, R
<1>7. Stay("namada", FlattenSeq(ss), 8, R)  BY <1>4, <1>5, <1>6, StayAll, Nothing
<1> QED  BY <1>7 DEF Each, ss, R

\* ... all of them.
LEMMA NamadaFullNodesRun ==
  ASSUME "namada" \in Families
  PROVE  Stay("namada", Each(UpTo(NumFullNodes), LAMBDA v : Go(<<"full", v>>, NamadaStartContainer)),
       8, {<<8, <<"full", v>>>> : v \in 1..NumFullNodes})
<1> DEFINE n == NumFullNodes
           ss == [i \in DOMAIN (UpTo(NumFullNodes)) |-> Go(<<"full", (UpTo(NumFullNodes))[i]>>, NamadaStartContainer)]
           T == [i \in 1..n |-> {<<8, <<"full", i>>>>}]
           R == {<<8, <<"full", v>>>> : v \in 1..NumFullNodes}
<1>1. n \in Nat /\ DOMAIN (UpTo(NumFullNodes)) = 1..n /\ \A i \in 1..n : (UpTo(NumFullNodes))[i] = i
  BY ArgsHave DEF UpTo
<1>2. ss = [i \in 1..n |-> ss[i]] /\ \A i \in 1..n : ss[i] = Go(<<"full", i>>, NamadaStartContainer)
  BY <1>1
<1>3. ASSUME NEW i \in 1..n PROVE Stay("namada", Go(<<"full", i>>, NamadaStartContainer), 8, {<<8, <<"full", i>>>>})
  <2> DEFINE u == <<"full", i>>
  <2>1. i \in 1..NumFullNodes  OBVIOUS
  <2>2. u \in Containers /\ u[1] = "full" /\ u[2] = i  BY <2>1, Boxes
  <2> HIDE DEF u
  <2>3. Fits("namada", 8, u, NamadaStartContainer)
    BY <2>2, FitsNamada
  <2>4. Stay("namada", Go(u, NamadaStartContainer), 8, {<<8, u>>})  BY <2>2, <2>3, StayGoes, Nothing
  <2> QED  BY <2>4 DEF u
<1>4. \A x \in R : \E i \in 1..n : x \in T[i]
  OBVIOUS
<1>5. \A i \in 1..n : Stay("namada", ss[i], 8, T[i])  BY <1>2, <1>3
<1>6. n \in Nat /\ ss = [i \in 1..n |-> ss[i]]  BY <1>1, <1>2
<1> HIDE DEF n, ss, T, R
<1>7. Stay("namada", FlattenSeq(ss), 8, R)  BY <1>4, <1>5, <1>6, StayAll, Nothing
<1> QED  BY <1>7 DEF Each, ss, R

----------------------------------------------------------------------------
(* polkadot *)

\* Main enters and funds every node of the relay chain.
LEMMA PolkadotAuthorities ==
  Stay("polkadot", Each(UpTo(NumRelay), LAMBDA v : <<<<"define", v>>, <<"fund", v>>>>),
       2, ({2} \X ({"define", "fund"} \X (1..NumRelay))))
<1> DEFINE n == NumRelay
           ss == [i \in DOMAIN (UpTo(NumRelay)) |-> <<<<"define", (UpTo(NumRelay))[i]>>, <<"fund", (UpTo(NumRelay))[i]>>>>]
           T == [i \in 1..n |-> {<<2, <<"define", i>>>>, <<2, <<"fund", i>>>>}]
           R == ({2} \X ({"define", "fund"} \X (1..NumRelay)))
<1>1. n \in Nat /\ DOMAIN (UpTo(NumRelay)) = 1..n /\ \A i \in 1..n : (UpTo(NumRelay))[i] = i
  BY ArgsHave DEF UpTo
<1>2. ss = [i \in 1..n |-> ss[i]] /\ \A i \in 1..n : ss[i] = <<<<"define", i>>, <<"fund", i>>>>
  BY <1>1
<1>3. ASSUME NEW i \in 1..n PROVE Stay("polkadot", <<<<"define", i>>, <<"fund", i>>>>, 2, {<<2, <<"define", i>>>>, <<2, <<"fund", i>>>>})
  <2> DEFINE a == <<"define", i>>
             b == <<"fund", i>>
  <2>1. i \in 1..NumRelay /\ i \in Args  BY ArgsHave
  <2>2. MainMay("polkadot", 2, a) /\ MainMay("polkadot", 2, b)  BY <2>1 DEF MainMay
  <2>3. a \in Steps /\ b \in Steps
    <3>1. "define" \in Names /\ "fund" \in Names  BY DEF Names
    <3> QED  BY <2>1, <3>1, InSteps
  <2>4. a[1] = "define" /\ b[1] = "fund"  OBVIOUS
  <2> HIDE DEF a, b
  <2>5. Stay("polkadot", <<a, b>>, 2, {<<2, a>>, <<2, b>>})  BY <2>2, <2>3, <2>4, StayBoth, Nothing
  <2> QED  BY <2>5 DEF a, b
<1>4. \A x \in R : \E i \in 1..n : x \in T[i]
  <2> SUFFICES ASSUME NEW x \in {"define", "fund"}, NEW v \in 1..NumRelay PROVE \E j \in 1..n : <<2, <<x, v>>>> \in T[j]
    OBVIOUS
  <2> QED  OBVIOUS
<1>5. \A i \in 1..n : Stay("polkadot", ss[i], 2, T[i])  BY <1>2, <1>3
<1>6. n \in Nat /\ ss = [i \in 1..n |-> ss[i]]  BY <1>1, <1>2
<1> HIDE DEF n, ss, T, R
<1>7. Stay("polkadot", FlattenSeq(ss), 2, R)  BY <1>4, <1>5, <1>6, StayAll, Nothing
<1> QED  BY <1>7 DEF Each, ss, R

\* ... and every wallet,
LEMMA PolkadotWallets ==
  Stay("polkadot", Each(Wallets, LAMBDA v : <<<<"fund", v>>>>),
       2, {<<2, <<"fund", w>>>> : w \in Range(Wallets)})
<1> DEFINE n == Len(Wallets)
           ss == [i \in DOMAIN (Wallets) |-> <<<<"fund", (Wallets)[i]>>>>]
           T == [i \in 1..n |-> {<<2, <<"fund", Wallets[i]>>>>}]
           R == {<<2, <<"fund", w>>>> : w \in Range(Wallets)}
<1>1. n \in Nat /\ DOMAIN (Wallets) = 1..n /\ \A i \in 1..n : (Wallets)[i] = Wallets[i]
  BY StartAssumption
<1>2. ss = [i \in 1..n |-> ss[i]] /\ \A i \in 1..n : ss[i] = <<<<"fund", Wallets[i]>>>>
  BY <1>1
<1>3. ASSUME NEW i \in 1..n PROVE Stay("polkadot", <<<<"fund", Wallets[i]>>>>, 2, {<<2, <<"fund", Wallets[i]>>>>})
  <2> DEFINE w == Wallets[i]
  <2>1. w \in Range(Wallets) /\ w \in Args  BY <1>1, ArgsHave DEF Range
  <2>2. MainMay("polkadot", 2, <<"fund", w>>)  BY <2>1 DEF MainMay
  <2> HIDE DEF w
  <2>3. Stay("polkadot", <<<<"fund", w>>>>, 2, {<<2, <<"fund", w>>>>})  BY <2>1, <2>2, StayArg, Nothing
  <2> QED  BY <2>3 DEF w
<1>4. \A x \in R : \E i \in 1..n : x \in T[i]
  <2>1. \A w \in Range(Wallets) : \E i \in 1..n : w = Wallets[i]  BY <1>1 DEF Range
  <2> QED  BY <2>1
<1>5. \A i \in 1..n : Stay("polkadot", ss[i], 2, T[i])  BY <1>2, <1>3
<1>6. n \in Nat /\ ss = [i \in 1..n |-> ss[i]]  BY <1>1, <1>2
<1> HIDE DEF n, ss, T, R
<1>7. Stay("polkadot", FlattenSeq(ss), 2, R)  BY <1>4, <1>5, <1>6, StayAll, Nothing
<1> QED  BY <1>7 DEF Each, ss, R

\* The parachains are numbered.
LEMMA ParasAre == Paras = 1..Len(Parachains) /\ Len(Parachains) \in Nat /\ \A x \in Paras : Parachains[x] \in Nat \ {0}
BY StartAssumption DEF Paras

\* ... and exports every parachain.
LEMMA PolkadotExports ==
  Stay("polkadot", Each(UpTo(Len(Parachains)), LAMBDA v : <<<<"export", v>>>>),
       2, {<<2, <<"export", x>>>> : x \in Paras})
<1> DEFINE n == Len(Parachains)
           ss == [i \in DOMAIN (UpTo(Len(Parachains))) |-> <<<<"export", (UpTo(Len(Parachains)))[i]>>>>]
           T == [i \in 1..n |-> {<<2, <<"export", i>>>>}]
           R == {<<2, <<"export", x>>>> : x \in Paras}
<1>1. n \in Nat /\ DOMAIN (UpTo(Len(Parachains))) = 1..n /\ \A i \in 1..n : (UpTo(Len(Parachains)))[i] = i
  BY StartAssumption DEF UpTo
<1>2. ss = [i \in 1..n |-> ss[i]] /\ \A i \in 1..n : ss[i] = <<<<"export", i>>>>
  BY <1>1
<1>3. ASSUME NEW i \in 1..n PROVE Stay("polkadot", <<<<"export", i>>>>, 2, {<<2, <<"export", i>>>>})
  <2> DEFINE w == i
  <2>1. w \in Paras /\ w \in Args  BY ParasAre, ArgsHave
  <2>2. MainMay("polkadot", 2, <<"export", w>>)  BY <2>1 DEF MainMay
  <2> HIDE DEF w
  <2>3. Stay("polkadot", <<<<"export", w>>>>, 2, {<<2, <<"export", w>>>>})  BY <2>1, <2>2, StayArg, Nothing
  <2> QED  BY <2>3 DEF w
<1>4. \A x \in R : \E i \in 1..n : x \in T[i]
  BY ParasAre
<1>5. \A i \in 1..n : Stay("polkadot", ss[i], 2, T[i])  BY <1>2, <1>3
<1>6. n \in Nat /\ ss = [i \in 1..n |-> ss[i]]  BY <1>1, <1>2
<1> HIDE DEF n, ss, T, R
<1>7. Stay("polkadot", FlattenSeq(ss), 2, R)  BY <1>4, <1>5, <1>6, StayAll, Nothing
<1> QED  BY <1>7 DEF Each, ss, R

\* Every node of the relay chain gets its goroutine.
LEMMA PolkadotRelays ==
  ASSUME "polkadot" \in Families
  PROVE  Stay("polkadot", Each(UpTo(NumRelay), LAMBDA v : Go(<<"relay", v>>, (IF v = 1 THEN <<>> ELSE Do(<<"copyRawSpec">>)) \o Do(<<"create">>) \o RelayStartContainer)),
       8, {<<8, <<"relay", v>>>> : v \in 1..NumRelay})
<1> DEFINE n == NumRelay
           ss == [i \in DOMAIN (UpTo(NumRelay)) |-> Go(<<"relay", (UpTo(NumRelay))[i]>>, (IF (UpTo(NumRelay))[i] = 1 THEN <<>> ELSE Do(<<"copyRawSpec">>)) \o Do(<<"create">>) \o RelayStartContainer)]
           T == [i \in 1..n |-> {<<8, <<"relay", i>>>>}]
           R == {<<8, <<"relay", v>>>> : v \in 1..NumRelay}
<1>1. n \in Nat /\ DOMAIN (UpTo(NumRelay)) = 1..n /\ \A i \in 1..n : (UpTo(NumRelay))[i] = i
  BY ArgsHave DEF UpTo
<1>2. ss = [i \in 1..n |-> ss[i]] /\ \A i \in 1..n : ss[i] = Go(<<"relay", i>>, (IF i = 1 THEN <<>> ELSE Do(<<"copyRawSpec">>)) \o Do(<<"create">>) \o RelayStartContainer)
  BY <1>1
<1>3. ASSUME NEW i \in 1..n PROVE Stay("polkadot", Go(<<"relay", i>>, (IF i = 1 THEN <<>> ELSE Do(<<"copyRawSpec">>)) \o Do(<<"create">>) \o RelayStartContainer), 8, {<<8, <<"relay", i>>>>})
  <2> DEFINE u == <<"relay", i>>
  <2>1. i \in 1..NumRelay  OBVIOUS
  <2>2. u \in Containers /\ u[1] = "relay" /\ u[2] = i  BY <2>1, Boxes
  <2> HIDE DEF u
  <2>3. Fits("polkadot", 8, u, (IF i = 1 THEN <<>> ELSE Do(<<"copyRawSpec">>)) \o Do(<<"create">>) \o RelayStartContainer)
    BY <2>2, FitsPolkadot
  <2>4. Stay("polkadot", Go(u, (IF i = 1 THEN <<>> ELSE Do(<<"copyRawSpec">>)) \o Do(<<"create">>) \o RelayStartContainer), 8, {<<8, u>>})  BY <2>2, <2>3, StayGoes, Nothing
  <2> QED  BY <2>4 DEF u
<1>4. \A x \in R : \E i \in 1..n : x \in T[i]
  OBVIOUS
<1>5. \A i \in 1..n : Stay("polkadot", ss[i], 8, T[i])  BY <1>2, <1>3
<1>6. n \in Nat /\ ss = [i \in 1..n |-> ss[i]]  BY <1>1, <1>2
<1> HIDE DEF n, ss, T, R
<1>7. Stay("polkadot", FlattenSeq(ss), 8, R)  BY <1>4, <1>5, <1>6, StayAll, Nothing
<1> QED  BY <1>7 DEF Each, ss, R

\* A parachain's nodes get its spec.
LEMMA PolkadotSpecs ==
  ASSUME "polkadot" \in Families, NEW k \in Paras
  PROVE  Stay("polkadot", Each(ParachainNodes(k), LAMBDA v : Go(v, <<<<"copySpec", k>>>>)),
       0, {<<0, <<"para", k, j>>>> : j \in 1..Parachains[k]})
<1> DEFINE n == Parachains[k]
           ss == [i \in DOMAIN (ParachainNodes(k)) |-> Go((ParachainNodes(k))[i], <<<<"copySpec", k>>>>)]
           T == [i \in 1..n |-> {<<0, <<"para", k, i>>>>}]
           R == {<<0, <<"para", k, j>>>> : j \in 1..Parachains[k]}
<1>1. n \in Nat /\ DOMAIN (ParachainNodes(k)) = 1..n /\ \A i \in 1..n : (ParachainNodes(k))[i] = <<"para", k, i>>
  BY ParasAre DEF ParachainNodes
<1>2. ss = [i \in 1..n |-> ss[i]] /\ \A i \in 1..n : ss[i] = Go(<<"para", k, i>>, <<<<"copySpec", k>>>>)
  BY <1>1
<1>3. ASSUME NEW i \in 1..n PROVE Stay("polkadot", Go(<<"para", k, i>>, <<<<"copySpec", k>>>>), 0, {<<0, <<"para", k, i>>>>})
  <2> DEFINE u == <<"para", k, i>>
  <2>1. u \in Containers /\ u[1] = "para" /\ u[2] = k  BY Boxes
  <2> HIDE DEF u
  <2>2. Fits("polkadot", 0, u, <<<<"copySpec", k>>>>)  BY <2>1, FitsPolkadot
  <2>3. Stay("polkadot", Go(u, <<<<"copySpec", k>>>>), 0, {<<0, u>>})  BY <2>1, <2>2, StayGoes, Nothing
  <2> QED  BY <2>3 DEF u
<1>4. \A x \in R : \E i \in 1..n : x \in T[i]
  OBVIOUS
<1>5. \A i \in 1..n : Stay("polkadot", ss[i], 0, T[i])  BY <1>2, <1>3
<1>6. n \in Nat /\ ss = [i \in 1..n |-> ss[i]]  BY <1>1, <1>2
<1> HIDE DEF n, ss, T, R
<1>7. Stay("polkadot", FlattenSeq(ss), 0, R)  BY <1>4, <1>5, <1>6, StayAll, Nothing
<1> QED  BY <1>7 DEF Each, ss, R

\* ... and their goroutines.
LEMMA PolkadotCollators ==
  ASSUME "polkadot" \in Families, NEW k \in Paras
  PROVE  Stay("polkadot", Each(ParachainNodes(k), LAMBDA v : Go(v, Do(<<"copyRawSpec", "create">>) \o CollatorStartContainer)),
       10, {<<10, <<"para", k, j>>>> : j \in 1..Parachains[k]})
<1> DEFINE n == Parachains[k]
           ss == [i \in DOMAIN (ParachainNodes(k)) |-> Go((ParachainNodes(k))[i], Do(<<"copyRawSpec", "create">>) \o CollatorStartContainer)]
           T == [i \in 1..n |-> {<<10, <<"para", k, i>>>>}]
           R == {<<10, <<"para", k, j>>>> : j \in 1..Parachains[k]}
<1>1. n \in Nat /\ DOMAIN (ParachainNodes(k)) = 1..n /\ \A i \in 1..n : (ParachainNodes(k))[i] = <<"para", k, i>>
  BY ParasAre DEF ParachainNodes
<1>2. ss = [i \in 1..n |-> ss[i]] /\ \A i \in 1..n : ss[i] = Go(<<"para", k, i>>, Do(<<"copyRawSpec", "create">>) \o CollatorStartContainer)
  BY <1>1
<1>3. ASSUME NEW i \in 1..n PROVE Stay("polkadot", Go(<<"para", k, i>>, Do(<<"copyRawSpec", "create">>) \o CollatorStartContainer), 10, {<<10, <<"para", k, i>>>>})
  <2> DEFINE u == <<"para", k, i>>
  <2>1. u \in Containers /\ u[1] = "para" /\ u[2] = k  BY Boxes
  <2> HIDE DEF u
  <2>2. Fits("polkadot", 10, u, Do(<<"copyRawSpec", "create">>) \o CollatorStartContainer)  BY <2>1, FitsPolkadot
  <2>3. Stay("polkadot", Go(u, Do(<<"copyRawSpec", "create">>) \o CollatorStartContainer), 10, {<<10, u>>})  BY <2>1, <2>2, StayGoes, Nothing
  <2> QED  BY <2>3 DEF u
<1>4. \A x \in R : \E i \in 1..n : x \in T[i]
  OBVIOUS
<1>5. \A i \in 1..n : Stay("polkadot", ss[i], 10, T[i])  BY <1>2, <1>3
<1>6. n \in Nat /\ ss = [i \in 1..n |-> ss[i]]  BY <1>1, <1>2
<1> HIDE DEF n, ss, T, R
<1>7. Stay("polkadot", FlattenSeq(ss), 10, R)  BY <1>4, <1>5, <1>6, StayAll, Nothing
<1> QED  BY <1>7 DEF Each, ss, R

\* What CopySpecs has for a parachain, and CollatorNodes.
SpecsOf(k) ==
  GenerateParachainGenesisFile \o Each(ParachainNodes(k), LAMBDA u : Go(u, <<<<"copySpec", k>>>>))

\* ... and CollatorNodes.
CollatorsOf(k) ==
  Each(ParachainNodes(k), LAMBDA u : Go(u, Do(<<"copyRawSpec", "create">>) \o CollatorStartContainer))

\* The nodes of all parachains.
ParaNodes == UNION {{<<"para", k, j>> : j \in 1..Parachains[k]} : k \in Paras}

\* All parachains' nodes get their specs.
LEMMA PolkadotCopies ==
  ASSUME "polkadot" \in Families
  PROVE  Stay("polkadot", Each(UpTo(Len(Parachains)), LAMBDA v : SpecsOf(v)),
       0, ({0} \X ParaNodes))
<1> DEFINE n == Len(Parachains)
           ss == [i \in DOMAIN (UpTo(Len(Parachains))) |-> SpecsOf((UpTo(Len(Parachains)))[i])]
           T == [i \in 1..n |-> {<<0, <<"para", i, j>>>> : j \in 1..Parachains[i]}]
           R == ({0} \X ParaNodes)
<1>1. n \in Nat /\ DOMAIN (UpTo(Len(Parachains))) = 1..n /\ \A i \in 1..n : (UpTo(Len(Parachains)))[i] = i
  BY StartAssumption DEF UpTo
<1>2. ss = [i \in 1..n |-> ss[i]] /\ \A i \in 1..n : ss[i] = SpecsOf(i)
  BY <1>1
<1>3. ASSUME NEW i \in 1..n PROVE Stay("polkadot", SpecsOf(i), 0, {<<0, <<"para", i, j>>>> : j \in 1..Parachains[i]})
  <2>1. i \in Paras  BY ParasAre
  <2>2. Stay("polkadot", GenerateParachainGenesisFile, 0, {})
    <3> DEFINE names == <<"parachainGenesis">>
    <3>1. names \in Seq(Names) /\ Len(names) = 1 /\ names[1] = "parachainGenesis"  BY DEF Names, Calls
    <3>2. MainMay("polkadot", 0, <<"parachainGenesis">>)  BY DEF MainMay
    <3>3. \A j \in 1..1 : j = 1  OBVIOUS
    <3> HIDE DEF names
    <3>4. \A j \in 1..Len(names) : names[j] \notin {"append", "replace"} /\ MainMay("polkadot", 0, <<names[j]>>)
      BY <3>1, <3>2, <3>3
    <3>5. names \in Seq(Names)  BY <3>1
    <3>6. Stay("polkadot", Do(names), 0, {})  BY <3>4, <3>5, StayDoes, Nothing
    <3> QED  BY <3>6 DEF names, GenerateParachainGenesisFile
  <2> DEFINE a == Each(ParachainNodes(i), LAMBDA v : Go(v, <<<<"copySpec", i>>>>))
             M == {<<0, <<"para", i, j>>>> : j \in 1..Parachains[i]}
  <2>3. Stay("polkadot", a, 0, M)  BY <2>1, PolkadotSpecs
  <2>4. SpecsOf(i) = GenerateParachainGenesisFile \o a  BY DEF SpecsOf
  <2> HIDE DEF a, M
  <2>5. Stay("polkadot", GenerateParachainGenesisFile \o a, 0, {} \cup M)  BY <2>2, <2>3, StayConcat
  <2>6. {} \cup M = M  OBVIOUS
  <2>7. Stay("polkadot", SpecsOf(i), 0, M)  BY <2>4, <2>5, <2>6
  <2> QED  BY <2>7 DEF M
<1>4. \A x \in R : \E i \in 1..n : x \in T[i]
  <2> SUFFICES ASSUME NEW u \in ParaNodes PROVE \E i \in 1..n : <<0, u>> \in T[i]  OBVIOUS
  <2>1. PICK k \in Paras : \E j \in 1..Parachains[k] : u = <<"para", k, j>>  BY DEF ParaNodes
  <2>2. k \in 1..n  BY ParasAre
  <2> QED  BY <2>1, <2>2
<1>5. \A i \in 1..n : Stay("polkadot", ss[i], 0, T[i])  BY <1>2, <1>3
<1>6. n \in Nat /\ ss = [i \in 1..n |-> ss[i]]  BY <1>1, <1>2
<1> HIDE DEF n, ss, T, R
<1>7. Stay("polkadot", FlattenSeq(ss), 0, R)  BY <1>4, <1>5, <1>6, StayAll, Nothing
<1> QED  BY <1>7 DEF Each, ss, R

\* ... and are started.
LEMMA PolkadotRuns ==
  ASSUME "polkadot" \in Families
  PROVE  Stay("polkadot", Each(UpTo(Len(Parachains)), LAMBDA v : CollatorsOf(v)),
       10, ({10} \X ParaNodes))
<1> DEFINE n == Len(Parachains)
           ss == [i \in DOMAIN (UpTo(Len(Parachains))) |-> CollatorsOf((UpTo(Len(Parachains)))[i])]
           T == [i \in 1..n |-> {<<10, <<"para", i, j>>>> : j \in 1..Parachains[i]}]
           R == ({10} \X ParaNodes)
<1>1. n \in Nat /\ DOMAIN (UpTo(Len(Parachains))) = 1..n /\ \A i \in 1..n : (UpTo(Len(Parachains)))[i] = i
  BY StartAssumption DEF UpTo
<1>2. ss = [i \in 1..n |-> ss[i]] /\ \A i \in 1..n : ss[i] = CollatorsOf(i)
  BY <1>1
<1>3. ASSUME NEW i \in 1..n PROVE Stay("polkadot", CollatorsOf(i), 10, {<<10, <<"para", i, j>>>> : j \in 1..Parachains[i]})
  <2>1. i \in Paras  BY ParasAre
  <2> QED  BY <2>1, PolkadotCollators DEF CollatorsOf
<1>4. \A x \in R : \E i \in 1..n : x \in T[i]
  <2> SUFFICES ASSUME NEW u \in ParaNodes PROVE \E i \in 1..n : <<10, u>> \in T[i]  OBVIOUS
  <2>1. PICK k \in Paras : \E j \in 1..Parachains[k] : u = <<"para", k, j>>  BY DEF ParaNodes
  <2>2. k \in 1..n  BY ParasAre
  <2> QED  BY <2>1, <2>2
<1>5. \A i \in 1..n : Stay("polkadot", ss[i], 10, T[i])  BY <1>2, <1>3
<1>6. n \in Nat /\ ss = [i \in 1..n |-> ss[i]]  BY <1>1, <1>2
<1> HIDE DEF n, ss, T, R
<1>7. Stay("polkadot", FlattenSeq(ss), 10, R)  BY <1>4, <1>5, <1>6, StayAll, Nothing
<1> QED  BY <1>7 DEF Each, ss, R

----------------------------------------------------------------------------
(* thorchain *)

\* All validators but the first.
LEMMA TailUp ==
  /\ NumValidators - 1 \in Nat /\ DOMAIN Tail(UpTo(NumValidators)) = 1..(NumValidators - 1)
  /\ \A i \in 1..(NumValidators - 1) : Tail(UpTo(NumValidators))[i] = i + 1
<1> DEFINE a == UpTo(NumValidators)
           k == NumValidators
<1>1. k \in Nat \ {0} /\ a \in [1..k -> Nat] /\ \A i \in 1..k : a[i] = i  BY ArgsHave DEF UpTo
<1>2. a \in Seq(Nat) /\ Len(a) = k
  <2> HIDE DEF a, k
  <2> QED  BY <1>1, SeqDef
<1> HIDE DEF a, k
<1>3. a # <<>>  BY <1>1, <1>2
<1>4. /\ Tail(a) \in Seq(Nat) /\ Len(Tail(a)) = k - 1
      /\ \A i \in 1..(k - 1) : Tail(a)[i] = a[i+1]
  BY <1>2, <1>3, TailSeq
<1>5. \A i \in 1..(k - 1) : i + 1 \in 1..k  BY <1>1
<1>6. DOMAIN Tail(a) = 1..(k - 1)  BY <1>4
<1>7. k - 1 \in Nat  BY <1>1
<1> QED  BY <1>1, <1>4, <1>5, <1>6, <1>7 DEF a, k

\* A fork makes the nodes of the other validators.
LEMMA ThorMore ==
  ASSUME "thorchainFork" \in Families
  PROVE  Stay("thorchainFork", Each(Tail(UpTo(NumValidators)), LAMBDA v : Go(<<"thor", v>>, Do(<<"newNode">>))),
       0, {})
<1> DEFINE n == NumValidators - 1
           ss == [i \in DOMAIN (Tail(UpTo(NumValidators))) |-> Go(<<"thor", (Tail(UpTo(NumValidators)))[i]>>, Do(<<"newNode">>))]
           T == [i \in 1..n |-> {<<0, <<"thor", (i + 1)>>>>}]
           R == {}
<1>1. n \in Nat /\ DOMAIN (Tail(UpTo(NumValidators))) = 1..n /\ \A i \in 1..n : (Tail(UpTo(NumValidators)))[i] = (i + 1)
  BY TailUp
<1>2. ss = [i \in 1..n |-> ss[i]] /\ \A i \in 1..n : ss[i] = Go(<<"thor", (i + 1)>>, Do(<<"newNode">>))
  BY <1>1
<1>3. ASSUME NEW i \in 1..n PROVE Stay("thorchainFork", Go(<<"thor", (i + 1)>>, Do(<<"newNode">>)), 0, {<<0, <<"thor", (i + 1)>>>>})
  <2> DEFINE u == <<"thor", (i + 1)>>
  <2>1. i + 1 \in Nodes /\ "thorchainFork" \in ThorFamilies  BY TailUp, ArgsHave DEF Nodes, ThorFamilies
  <2>2. u \in Containers /\ u[1] = "thor" /\ u[2] = (i + 1)  BY <2>1, Boxes
  <2> HIDE DEF u
  <2>3. Fits("thorchainFork", 0, u, Do(<<"newNode">>))
    BY <2>1, <2>2, FitsThorchain
  <2>4. Stay("thorchainFork", Go(u, Do(<<"newNode">>)), 0, {<<0, u>>})  BY <2>2, <2>3, StayGoes, Nothing
  <2> QED  BY <2>4 DEF u
<1>4. \A x \in R : \E i \in 1..n : x \in T[i]
  OBVIOUS
<1>5. \A i \in 1..n : Stay("thorchainFork", ss[i], 0, T[i])  BY <1>2, <1>3
<1>6. n \in Nat /\ ss = [i \in 1..n |-> ss[i]]  BY <1>1, <1>2
<1> HIDE DEF n, ss, T, R
<1>7. Stay("thorchainFork", FlattenSeq(ss), 0, R)  BY <1>4, <1>5, <1>6, StayAll, Nothing
<1> QED  BY <1>7 DEF Each, ss, R

\* Every validator gets its goroutine.
LEMMA ThorValidators ==
  ASSUME NEW f \in Families \cap ThorFamilies
  PROVE  Stay(f, Each(UpTo(NumValidators), LAMBDA v : Go(<<"thor", v>>, ThorValidator(f, v))),
       1, {<<1, <<"thor", v>>>> : v \in Validators})
<1> DEFINE n == NumValidators
           ss == [i \in DOMAIN (UpTo(NumValidators)) |-> Go(<<"thor", (UpTo(NumValidators))[i]>>, ThorValidator(f, (UpTo(NumValidators))[i]))]
           T == [i \in 1..n |-> {<<1, <<"thor", i>>>>}]
           R == {<<1, <<"thor", v>>>> : v \in Validators}
<1>1. n \in Nat /\ DOMAIN (UpTo(NumValidators)) = 1..n /\ \A i \in 1..n : (UpTo(NumValidators))[i] = i
  BY ArgsHave DEF UpTo
<1>2. ss = [i \in 1..n |-> ss[i]] /\ \A i \in 1..n : ss[i] = Go(<<"thor", i>>, ThorValidator(f, i))
  BY <1>1
<1>3. ASSUME NEW i \in 1..n PROVE Stay(f, Go(<<"thor", i>>, ThorValidator(f, i)), 1, {<<1, <<"thor", i>>>>})
  <2> DEFINE u == <<"thor", i>>
  <2>1. i \in Validators /\ i \in Nodes  BY ArgsHave DEF Validators
  <2>2. u \in Containers /\ u[1] = "thor" /\ u[2] = i  BY <2>1, Boxes
  <2> HIDE DEF u
  <2>3. Fits(f, 1, u, ThorValidator(f, i))
    BY <2>1, FitsThorValidator DEF u
  <2>4. Stay(f, Go(u, ThorValidator(f, i)), 1, {<<1, u>>})  BY <2>2, <2>3, StayGoes, Nothing
  <2> QED  BY <2>4 DEF u
<1>4. \A x \in R : \E i \in 1..n : x \in T[i]
  BY DEF Validators
<1>5. \A i \in 1..n : Stay(f, ss[i], 1, T[i])  BY <1>2, <1>3
<1>6. n \in Nat /\ ss = [i \in 1..n |-> ss[i]]  BY <1>1, <1>2
<1> HIDE DEF n, ss, T, R
<1>7. Stay(f, FlattenSeq(ss), 1, R)  BY <1>4, <1>5, <1>6, StayAll, Nothing
<1> QED  BY <1>7 DEF Each, ss, R

\* ... and so does every full node.
LEMMA ThorFullNodes ==
  ASSUME NEW f \in Families \cap ThorFamilies
  PROVE  Stay(f, Each(UpTo(NumFullNodes), LAMBDA v : Go(<<"thor", NumValidators + v>>, InitFullNodeFiles \o Do(<<"config">>))),
       1, {})
<1> DEFINE n == NumFullNodes
           ss == [i \in DOMAIN (UpTo(NumFullNodes)) |-> Go(<<"thor", NumValidators + (UpTo(NumFullNodes))[i]>>, InitFullNodeFiles \o Do(<<"config">>))]
           T == [i \in 1..n |-> {<<1, <<"thor", NumValidators + i>>>>}]
           R == {}
<1>1. n \in Nat /\ DOMAIN (UpTo(NumFullNodes)) = 1..n /\ \A i \in 1..n : (UpTo(NumFullNodes))[i] = i
  BY ArgsHave DEF UpTo
<1>2. ss = [i \in 1..n |-> ss[i]] /\ \A i \in 1..n : ss[i] = Go(<<"thor", NumValidators + i>>, InitFullNodeFiles \o Do(<<"config">>))
  BY <1>1
<1>3. ASSUME NEW i \in 1..n PROVE Stay(f, Go(<<"thor", NumValidators + i>>, InitFullNodeFiles \o Do(<<"config">>)), 1, {<<1, <<"thor", NumValidators + i>>>>})
  <2> DEFINE u == <<"thor", NumValidators + i>>
  <2>1. NumValidators + i \in Nodes /\ NumValidators + i # 1  BY ArgsHave DEF Nodes
  <2>2. u \in Containers /\ u[1] = "thor" /\ u[2] = NumValidators + i  BY <2>1, Boxes
  <2> HIDE DEF u
  <2>3. Fits(f, 1, u, InitFullNodeFiles \o Do(<<"config">>))
    BY <2>1, <2>2, FitsThorchain
  <2>4. Stay(f, Go(u, InitFullNodeFiles \o Do(<<"config">>)), 1, {<<1, u>>})  BY <2>2, <2>3, StayGoes, Nothing
  <2> QED  BY <2>4 DEF u
<1>4. \A x \in R : \E i \in 1..n : x \in T[i]
  OBVIOUS
<1>5. \A i \in 1..n : Stay(f, ss[i], 1, T[i])  BY <1>2, <1>3
<1>6. n \in Nat /\ ss = [i \in 1..n |-> ss[i]]  BY <1>1, <1>2
<1> HIDE DEF n, ss, T, R
<1>7. Stay(f, FlattenSeq(ss), 1, R)  BY <1>4, <1>5, <1>6, StayAll, Nothing
<1> QED  BY <1>7 DEF Each, ss, R

\* What CollectGenesis has for a validator, and GenBzReplace for each.
CollectOf(v) == Do(<<"address">>) \o AddGenesisAccount(1, v) \o AddNodeAccount(1, v)

\* What GenBzReplace has for each validator of a fork.
Replacements == Each(NodeAccountFields, LAMBDA x : <<<<"lockGenesis">>, <<"replace", x>>>>)

\* Main's entry of another validator.
LEMMA ThorCollects ==
  ASSUME NEW v \in 2..NumValidators
  PROVE  Stay("thorchain", CollectOf(v), 2, {<<2, <<"define", v>>>>, <<2, <<"fund", v>>>>})
<1>1. v \in Args  BY ArgsHave DEF Validators
<1>2. /\ MainMay("thorchain", 2, <<"address">>) /\ MainMay("thorchain", 2, <<"fund", v>>)
      /\ MainMay("thorchain", 2, <<"define", v>>)
  BY DEF MainMay, ThorFamilies
<1>3. Stay("thorchain", Do(<<"address">>), 2, {})
  <2> DEFINE names == <<"address">>
  <2>1. names \in Seq(Names) /\ Len(names) = 1 /\ names[1] = "address"  BY DEF Names, Calls
  <2>2. \A j \in 1..1 : j = 1  OBVIOUS
  <2> HIDE DEF names
  <2>3. \A j \in 1..Len(names) : names[j] \notin {"append", "replace"} /\ MainMay("thorchain", 2, <<names[j]>>)
    BY <1>2, <2>1, <2>2
  <2>4. names \in Seq(Names)  BY <2>1
  <2>5. Stay("thorchain", Do(names), 2, {})  BY <2>3, <2>4, StayDoes, Nothing
  <2> QED  BY <2>5 DEF names
<1>4. Stay("thorchain", AddGenesisAccount(1, v), 2, {<<2, <<"fund", v>>>>})
  BY <1>1, <1>2, StayArg, Nothing DEF AddGenesisAccount
<1>5. Stay("thorchain", AddNodeAccount(1, v), 2, {<<2, <<"define", v>>>>})
  BY <1>1, <1>2, StayArg, Nothing DEF AddNodeAccount
<1> DEFINE a == Do(<<"address">>)
           b == AddGenesisAccount(1, v)
           c == AddNodeAccount(1, v)
           M == {<<2, <<"fund", v>>>>}
           N == {<<2, <<"define", v>>>>}
<1>6. ({} \cup M) \cup N = {<<2, <<"define", v>>>>, <<2, <<"fund", v>>>>}  OBVIOUS
<1>7. CollectOf(v) = (a \o b) \o c  BY DEF CollectOf
<1> HIDE DEF a, b, c, M, N
<1>8. Stay("thorchain", a \o b, 2, {} \cup M)  BY <1>3, <1>4, StayConcat DEF a, b, M
<1>9. Stay("thorchain", (a \o b) \o c, 2, ({} \cup M) \cup N)  BY <1>5, <1>8, StayConcat DEF c, N
<1> QED  BY <1>6, <1>7, <1>9

\* ... of all of them.
LEMMA ThorRest ==
  Stay("thorchain", Each(Tail(UpTo(NumValidators)), LAMBDA v : CollectOf(v)),
       2, ({2} \X ({"define", "fund"} \X (2..NumValidators))))
<1> DEFINE n == NumValidators - 1
           ss == [i \in DOMAIN (Tail(UpTo(NumValidators))) |-> CollectOf((Tail(UpTo(NumValidators)))[i])]
           T == [i \in 1..n |-> {<<2, <<"define", (i + 1)>>>>, <<2, <<"fund", (i + 1)>>>>}]
           R == ({2} \X ({"define", "fund"} \X (2..NumValidators)))
<1>1. n \in Nat /\ DOMAIN (Tail(UpTo(NumValidators))) = 1..n /\ \A i \in 1..n : (Tail(UpTo(NumValidators)))[i] = (i + 1)
  BY TailUp
<1>2. ss = [i \in 1..n |-> ss[i]] /\ \A i \in 1..n : ss[i] = CollectOf((i + 1))
  BY <1>1
<1>3. ASSUME NEW i \in 1..n PROVE Stay("thorchain", CollectOf((i + 1)), 2, {<<2, <<"define", (i + 1)>>>>, <<2, <<"fund", (i + 1)>>>>})
  <2>1. i + 1 \in 2..NumValidators  BY ArgsHave
  <2> QED  BY <2>1, ThorCollects
<1>4. \A x \in R : \E i \in 1..n : x \in T[i]
  <2> SUFFICES ASSUME NEW k \in {"define", "fund"}, NEW v \in 2..NumValidators PROVE \E j \in 1..n : <<2, <<k, v>>>> \in T[j]
    OBVIOUS
  <2>1. v - 1 \in 1..n /\ (v - 1) + 1 = v  BY ArgsHave
  <2>2. <<2, <<k, v>>>> \in T[v - 1]  BY <2>1
  <2> QED  BY <2>1, <2>2
<1>5. \A i \in 1..n : Stay("thorchain", ss[i], 2, T[i])  BY <1>2, <1>3
<1>6. n \in Nat /\ ss = [i \in 1..n |-> ss[i]]  BY <1>1, <1>2
<1> HIDE DEF n, ss, T, R
<1>7. Stay("thorchain", FlattenSeq(ss), 2, R)  BY <1>4, <1>5, <1>6, StayAll, Nothing
<1> QED  BY <1>7 DEF Each, ss, R

\* ... and of the wallets.
LEMMA ThorWallets ==
  Stay("thorchain", Each(Wallets, LAMBDA v : AddGenesisAccount(1, v)),
       2, {<<2, <<"fund", w>>>> : w \in Range(Wallets)})
<1> DEFINE n == Len(Wallets)
           ss == [i \in DOMAIN (Wallets) |-> AddGenesisAccount(1, (Wallets)[i])]
           T == [i \in 1..n |-> {<<2, <<"fund", Wallets[i]>>>>}]
           R == {<<2, <<"fund", w>>>> : w \in Range(Wallets)}
<1>1. n \in Nat /\ DOMAIN (Wallets) = 1..n /\ \A i \in 1..n : (Wallets)[i] = Wallets[i]
  BY StartAssumption
<1>2. ss = [i \in 1..n |-> ss[i]] /\ \A i \in 1..n : ss[i] = AddGenesisAccount(1, Wallets[i])
  BY <1>1
<1>3. ASSUME NEW i \in 1..n PROVE Stay("thorchain", AddGenesisAccount(1, Wallets[i]), 2, {<<2, <<"fund", Wallets[i]>>>>})
  <2> DEFINE w == Wallets[i]
  <2>1. w \in Range(Wallets) /\ w \in Args  BY <1>1, ArgsHave DEF Range
  <2>2. MainMay("thorchain", 2, <<"fund", w>>)  BY <2>1 DEF MainMay
  <2> HIDE DEF w
  <2>3. Stay("thorchain", <<<<"fund", w>>>>, 2, {<<2, <<"fund", w>>>>})  BY <2>1, <2>2, StayArg, Nothing
  <2>4. AddGenesisAccount(1, w) = <<<<"fund", w>>>>  BY DEF AddGenesisAccount
  <2>5. Stay("thorchain", AddGenesisAccount(1, w), 2, {<<2, <<"fund", w>>>>})  BY <2>3, <2>4
  <2> QED  BY <2>5 DEF w
<1>4. \A x \in R : \E i \in 1..n : x \in T[i]
  <2>1. \A w \in Range(Wallets) : \E i \in 1..n : w = Wallets[i]  BY <1>1 DEF Range
  <2> QED  BY <2>1
<1>5. \A i \in 1..n : Stay("thorchain", ss[i], 2, T[i])  BY <1>2, <1>3
<1>6. n \in Nat /\ ss = [i \in 1..n |-> ss[i]]  BY <1>1, <1>2
<1> HIDE DEF n, ss, T, R
<1>7. Stay("thorchain", FlattenSeq(ss), 2, R)  BY <1>4, <1>5, <1>6, StayAll, Nothing
<1> QED  BY <1>7 DEF Each, ss, R

\* A fork replaces what it has of its own.
LEMMA ThorReplaces ==
  ASSUME "thorchainFork" \in Families
  PROVE  Stay("thorchainFork", Each(UpTo(NumValidators), LAMBDA v : Go(<<"thor", v>>, Replacements)),
       3, {<<3, <<"thor", v>>>> : v \in Validators})
<1> DEFINE n == NumValidators
           ss == [i \in DOMAIN (UpTo(NumValidators)) |-> Go(<<"thor", (UpTo(NumValidators))[i]>>, Replacements)]
           T == [i \in 1..n |-> {<<3, <<"thor", i>>>>}]
           R == {<<3, <<"thor", v>>>> : v \in Validators}
<1>1. n \in Nat /\ DOMAIN (UpTo(NumValidators)) = 1..n /\ \A i \in 1..n : (UpTo(NumValidators))[i] = i
  BY ArgsHave DEF UpTo
<1>2. ss = [i \in 1..n |-> ss[i]] /\ \A i \in 1..n : ss[i] = Go(<<"thor", i>>, Replacements)
  BY <1>1
<1>3. ASSUME NEW i \in 1..n PROVE Stay("thorchainFork", Go(<<"thor", i>>, Replacements), 3, {<<3, <<"thor", i>>>>})
  <2> DEFINE u == <<"thor", i>>
  <2>1. i \in Validators /\ i \in Nodes /\ "thorchainFork" \in ThorFamilies  BY ArgsHave DEF Validators, ThorFamilies
  <2>2. u \in Containers /\ u[1] = "thor" /\ u[2] = i  BY <2>1, Boxes
  <2> HIDE DEF u
  <2>3. Fits("thorchainFork", 3, u, Replacements)
    BY <2>1, <2>2, FitsReplace DEF Replacements
  <2>4. Stay("thorchainFork", Go(u, Replacements), 3, {<<3, u>>})  BY <2>2, <2>3, StayGoes, Nothing
  <2> QED  BY <2>4 DEF u
<1>4. \A x \in R : \E i \in 1..n : x \in T[i]
  BY DEF Validators
<1>5. \A i \in 1..n : Stay("thorchainFork", ss[i], 3, T[i])  BY <1>2, <1>3
<1>6. n \in Nat /\ ss = [i \in 1..n |-> ss[i]]  BY <1>1, <1>2
<1> HIDE DEF n, ss, T, R
<1>7. Stay("thorchainFork", FlattenSeq(ss), 3, R)  BY <1>4, <1>5, <1>6, StayAll, Nothing
<1> QED  BY <1>7 DEF Each, ss, R

\* Main writes the genesis file of every node.
LEMMA ThorGenesisFiles ==
  ASSUME NEW f \in Families \cap ThorFamilies
  PROVE  Stay(f, Each(AllNodes, LAMBDA v : <<<<"writeGenesis", <<"thor", v>>>>>>),
       5, {<<5, <<"writeGenesis", <<"thor", v>>>>>> : v \in Nodes})
<1> DEFINE n == NumValidators + NumFullNodes
           ss == [i \in DOMAIN (AllNodes) |-> <<<<"writeGenesis", <<"thor", (AllNodes)[i]>>>>>>]
           T == [i \in 1..n |-> {<<5, <<"writeGenesis", <<"thor", i>>>>>>}]
           R == {<<5, <<"writeGenesis", <<"thor", v>>>>>> : v \in Nodes}
<1>1. n \in Nat /\ DOMAIN (AllNodes) = 1..n /\ \A i \in 1..n : (AllNodes)[i] = i
  BY ArgsHave DEF AllNodes, UpTo
<1>2. ss = [i \in 1..n |-> ss[i]] /\ \A i \in 1..n : ss[i] = <<<<"writeGenesis", <<"thor", i>>>>>>
  BY <1>1
<1>3. ASSUME NEW i \in 1..n PROVE Stay(f, <<<<"writeGenesis", <<"thor", i>>>>>>, 5, {<<5, <<"writeGenesis", <<"thor", i>>>>>>})
  <2>1. i \in Nodes  BY DEF Nodes
  <2> DEFINE u == <<"thor", i>>
  <2>2. u \in Args  BY <2>1, Boxes, ArgsHave
  <2>3. MainMay(f, 5, <<"writeGenesis", u>>)  BY <2>1 DEF MainMay
  <2> HIDE DEF u
  <2>4. Stay(f, <<<<"writeGenesis", u>>>>, 5, {<<5, <<"writeGenesis", u>>>>})  BY <2>2, <2>3, StayArg, Nothing
  <2> QED  BY <2>4 DEF u
<1>4. \A x \in R : \E i \in 1..n : x \in T[i]
  BY DEF Nodes
<1>5. \A i \in 1..n : Stay(f, ss[i], 5, T[i])  BY <1>2, <1>3
<1>6. n \in Nat /\ ss = [i \in 1..n |-> ss[i]]  BY <1>1, <1>2
<1> HIDE DEF n, ss, T, R
<1>7. Stay(f, FlattenSeq(ss), 5, R)  BY <1>4, <1>5, <1>6, StayAll, Nothing
<1> QED  BY <1>7 DEF Each, ss, R

\* The sidecars come first,
LEMMA ThorSides ==
  ASSUME NEW f \in Families \cap ThorFamilies
  PROVE  Stay(f, Each(UpTo(NumSidecars), LAMBDA v : Go(<<"side", v>>, Do(<<"create", "start">>))),
       6, {<<6, <<"side", v>>>> : v \in 1..NumSidecars})
<1> DEFINE n == NumSidecars
           ss == [i \in DOMAIN (UpTo(NumSidecars)) |-> Go(<<"side", (UpTo(NumSidecars))[i]>>, Do(<<"create", "start">>))]
           T == [i \in 1..n |-> {<<6, <<"side", i>>>>}]
           R == {<<6, <<"side", v>>>> : v \in 1..NumSidecars}
<1>1. n \in Nat /\ DOMAIN (UpTo(NumSidecars)) = 1..n /\ \A i \in 1..n : (UpTo(NumSidecars))[i] = i
  BY ArgsHave DEF UpTo
<1>2. ss = [i \in 1..n |-> ss[i]] /\ \A i \in 1..n : ss[i] = Go(<<"side", i>>, Do(<<"create", "start">>))
  BY <1>1
<1>3. ASSUME NEW i \in 1..n PROVE Stay(f, Go(<<"side", i>>, Do(<<"create", "start">>)), 6, {<<6, <<"side", i>>>>})
  <2> DEFINE u == <<"side", i>>
  <2>1. i \in 1..NumSidecars  OBVIOUS
  <2>2. u \in Containers /\ u[1] = "side" /\ u[2] = i  BY <2>1, Boxes
  <2> HIDE DEF u
  <2>3. Fits(f, 6, u, Do(<<"create", "start">>))
    BY <2>2, FitsThorchain
  <2>4. Stay(f, Go(u, Do(<<"create", "start">>)), 6, {<<6, u>>})  BY <2>2, <2>3, StayGoes, Nothing
  <2> QED  BY <2>4 DEF u
<1>4. \A x \in R : \E i \in 1..n : x \in T[i]
  OBVIOUS
<1>5. \A i \in 1..n : Stay(f, ss[i], 6, T[i])  BY <1>2, <1>3
<1>6. n \in Nat /\ ss = [i \in 1..n |-> ss[i]]  BY <1>1, <1>2
<1> HIDE DEF n, ss, T, R
<1>7. Stay(f, FlattenSeq(ss), 6, R)  BY <1>4, <1>5, <1>6, StayAll, Nothing
<1> QED  BY <1>7 DEF Each, ss, R

\* ... then the containers of all nodes,
LEMMA ThorCreates ==
  ASSUME NEW f \in Families \cap ThorFamilies
  PROVE  Stay(f, Each(AllNodes, LAMBDA v : Go(<<"thor", v>>, Do(<<"create">>))),
       7, {<<7, <<"thor", v>>>> : v \in Nodes})
<1> DEFINE n == NumValidators + NumFullNodes
           ss == [i \in DOMAIN (AllNodes) |-> Go(<<"thor", (AllNodes)[i]>>, Do(<<"create">>))]
           T == [i \in 1..n |-> {<<7, <<"thor", i>>>>}]
           R == {<<7, <<"thor", v>>>> : v \in Nodes}
<1>1. n \in Nat /\ DOMAIN (AllNodes) = 1..n /\ \A i \in 1..n : (AllNodes)[i] = i
  BY ArgsHave DEF AllNodes, UpTo
<1>2. ss = [i \in 1..n |-> ss[i]] /\ \A i \in 1..n : ss[i] = Go(<<"thor", i>>, Do(<<"create">>))
  BY <1>1
<1>3. ASSUME NEW i \in 1..n PROVE Stay(f, Go(<<"thor", i>>, Do(<<"create">>)), 7, {<<7, <<"thor", i>>>>})
  <2> DEFINE u == <<"thor", i>>
  <2>1. i \in Nodes  BY DEF Nodes
  <2>2. u \in Containers /\ u[1] = "thor" /\ u[2] = i  BY <2>1, Boxes
  <2> HIDE DEF u
  <2>3. Fits(f, 7, u, Do(<<"create">>))
    BY <2>2, FitsThorchain
  <2>4. Stay(f, Go(u, Do(<<"create">>)), 7, {<<7, u>>})  BY <2>2, <2>3, StayGoes, Nothing
  <2> QED  BY <2>4 DEF u
<1>4. \A x \in R : \E i \in 1..n : x \in T[i]
  BY DEF Nodes
<1>5. \A i \in 1..n : Stay(f, ss[i], 7, T[i])  BY <1>2, <1>3
<1>6. n \in Nat /\ ss = [i \in 1..n |-> ss[i]]  BY <1>1, <1>2
<1> HIDE DEF n, ss, T, R
<1>7. Stay(f, FlattenSeq(ss), 7, R)  BY <1>4, <1>5, <1>6, StayAll, Nothing
<1> QED  BY <1>7 DEF Each, ss, R

\* ... which are started.
LEMMA ThorRuns ==
  ASSUME NEW f \in Families \cap ThorFamilies
  PROVE  Stay(f, Each(AllNodes, LAMBDA v : Go(<<"thor", v>>, Do(<<"config">>) \o ThorStartContainer)),
       8, {<<8, <<"thor", v>>>> : v \in Nodes})
<1> DEFINE n == NumValidators + NumFullNodes
           ss == [i \in DOMAIN (AllNodes) |-> Go(<<"thor", (AllNodes)[i]>>, Do(<<"config">>) \o ThorStartContainer)]
           T == [i \in 1..n |-> {<<8, <<"thor", i>>>>}]
           R == {<<8, <<"thor", v>>>> : v \in Nodes}
<1>1. n \in Nat /\ DOMAIN (AllNodes) = 1..n /\ \A i \in 1..n : (AllNodes)[i] = i
  BY ArgsHave DEF AllNodes, UpTo
<1>2. ss = [i \in 1..n |-> ss[i]] /\ \A i \in 1..n : ss[i] = Go(<<"thor", i>>, Do(<<"config">>) \o ThorStartContainer)
  BY <1>1
<1>3. ASSUME NEW i \in 1..n PROVE Stay(f, Go(<<"thor", i>>, Do(<<"config">>) \o ThorStartContainer), 8, {<<8, <<"thor", i>>>>})
  <2> DEFINE u == <<"thor", i>>
  <2>1. i \in Nodes  BY DEF Nodes
  <2>2. u \in Containers /\ u[1] = "thor" /\ u[2] = i  BY <2>1, Boxes
  <2> HIDE DEF u
  <2>3. Fits(f, 8, u, Do(<<"config">>) \o ThorStartContainer)
    BY <2>2, FitsThorchain
  <2>4. Stay(f, Go(u, Do(<<"config">>) \o ThorStartContainer), 8, {<<8, u>>})  BY <2>2, <2>3, StayGoes, Nothing
  <2> QED  BY <2>4 DEF u
<1>4. \A x \in R : \E i \in 1..n : x \in T[i]
  BY DEF Nodes
<1>5. \A i \in 1..n : Stay(f, ss[i], 8, T[i])  BY <1>2, <1>3
<1>6. n \in Nat /\ ss = [i \in 1..n |-> ss[i]]  BY <1>1, <1>2
<1> HIDE DEF n, ss, T, R
<1>7. Stay(f, FlattenSeq(ss), 8, R)  BY <1>4, <1>5, <1>6, StayAll, Nothing
<1> QED  BY <1>7 DEF Each, ss, R

----------------------------------------------------------------------------
(* The scripts of the families. *)

\* A step that leads from a phase to another.
LEMMA TurnScript ==
  ASSUME NEW f \in Families, NEW n, NEW p, NEW q, <<p, <<n>>, q>> \in Turns(f)
  PROVE  Script(f, Do(<<n>>), p, q, {})
<1> DEFINE st == <<n>>
<1>1. st[1] = n /\ <<p, st, q>> \in Turns(f)  OBVIOUS
<1> HIDE DEF st
<1>2. /\ p \in 0..11 /\ q \in 0..11 /\ p < q
      /\ st[1] \in {"wait", "generateGenesisFile", "readGenesis", "hashes", "separator", "waitForBlocks", "initNetwork",
                    "generateRaw", "preGenesis", "modifyGenesis"}
  BY <1>1, TurnNames
<1>3. st[1] \in Names /\ st[1] \notin {"append", "replace"}  BY <1>2 DEF Names, Calls
<1>4. <<st[1]>> = st  BY <1>1 DEF st
<1>5. st \in Steps  BY <1>3, <1>4, InSteps
<1>6. Script(f, <<st>>, p, q, {})  BY <1>1, <1>2, <1>3, <1>5, ScriptTurn
<1>7. Do(<<n>>) = <<st>>  BY DoOne DEF st
<1> QED  BY <1>6, <1>7

\* A call of Main.
LEMMA CallScript ==
  ASSUME NEW f, NEW p, Stay(f, <<>>, p, {}), NEW n \in Calls \cup {"setRunning"}, MainMay(f, p, <<n>>)
  PROVE  Script(f, Do(<<n>>), p, p, {})
<1>1. n \in Names /\ n \notin {"append", "replace"}  BY DEF Names, Calls
<1> DEFINE names == <<n>>
<1>2. names \in Seq(Names) /\ Len(names) = 1 /\ names[1] = n  BY <1>1
<1>3. \A i \in 1..1 : i = 1  OBVIOUS
<1> HIDE DEF names
<1>4. \A i \in 1..Len(names) : names[i] \notin {"append", "replace"} /\ MainMay(f, p, <<names[i]>>)
  BY <1>1, <1>2, <1>3
<1>5. names \in Seq(Names)  BY <1>2
<1>6. Stay(f, Do(names), p, {})  BY <1>4, <1>5, StayDoes
<1> QED  BY <1>6, ScriptStay DEF names

\* Two steps of Main.
LEMMA TwoScript ==
  ASSUME NEW f, NEW a, NEW b, NEW p, NEW q, NEW r, Script(f, Do(<<a>>), p, q, {}), Script(f, Do(<<b>>), q, r, {})
  PROVE  Script(f, Do(<<a, b>>), p, r, {})
<1>1. Script(f, Do(<<a>>) \o Do(<<b>>), p, r, {} \cup {})  BY ScriptConcat
<1>2. Do(<<a, b>>) = Do(<<a>>) \o Do(<<b>>)  BY DoTwo
<1>3. {} \cup {} = {}  OBVIOUS
<1> QED  BY <1>1, <1>2, <1>3

\* Three steps of Main.
LEMMA ThreeScript ==
  ASSUME NEW f, NEW a, NEW b, NEW c, NEW p, NEW q, NEW r, NEW s, Script(f, Do(<<a>>), p, q, {}),
         Script(f, Do(<<b>>), q, r, {}), Script(f, Do(<<c>>), r, s, {})
  PROVE  Script(f, Do(<<a, b, c>>), p, s, {})
<1>1. Script(f, Do(<<a, b>>), p, r, {})  BY TwoScript
<1>2. Script(f, Do(<<a, b>>) \o Do(<<c>>), p, s, {} \cup {})  BY <1>1, ScriptConcat
<1>3. Do(<<a, b, c>>) = Do(<<a, b>>) \o Do(<<c>>)  BY DoThree
<1>4. {} \cup {} = {}  OBVIOUS
<1> QED  BY <1>2, <1>3, <1>4

\* A script that takes some steps takes fewer.
LEMMA ScriptLess ==
  ASSUME NEW f, NEW s, NEW p, NEW q, NEW R, NEW T, Script(f, s, p, q, R), T \subseteq R
  PROVE  Script(f, s, p, q, T)
BY LeadsLess DEF Script

----------------------------------------------------------------------------
(* penumbra *)

\* What PenumbraStart has Main do and begin before the nodes are started,
PenumbraBegun ==
  {<<1, <<"tm", v>>>> : v \in Validators} \cup {<<1, <<"append", w>>>> : w \in Range(Wallets)}
    \cup {<<3, <<"tm", v>>>> : v \in Validators}

\* ... and after it.
NodesBegun ==
  {<<5, <<"writeGenesis", <<"tm", v>>>>>> : v \in Nodes} \cup ({7} \X ({"tm", "app"} \X Nodes))
    \cup ({8} \X ({"tm", "app"} \X Nodes))

\* start.
LEMMA NodesScript ==
  ASSUME "penumbra" \in Families
  PROVE  Script("penumbra", PenumbraStartNodes, 4, 11, NodesBegun)
<1> DEFINE a1 == Do(<<"readGenesis">>)
           a2 == Each(AllNodes, LAMBDA v : <<<<"writeGenesis", <<"tm", v>>>>>>)
           a3 == Do(<<"hashes", "separator">>)
           a4 == Each(AllNodes, LAMBDA v : Go(<<"tm", v>>, Do(<<"create">>)) \o Go(<<"app", v>>, Do(<<"create">>)))
           a5 == Wait
           a6 == Each(AllNodes, LAMBDA v : Go(<<"tm", v>>, SetConfigAndPeers \o TendermintStartContainer) \o Go(<<"app", v>>, AppStartContainer))
           a7 == Wait
           a8 == Do(<<"waitForBlocks">>)
           a9 == Each(UpTo(NumValidators), LAMBDA v : Go(<<"client", v>>, Do(<<"readConfig">>) \o CreateClientNode))
           a10 == Wait
           r1 == {}
           r2 == {<<5, <<"writeGenesis", <<"tm", v>>>>>> : v \in Nodes}
           r3 == {}
           r4 == ({7} \X ({"tm", "app"} \X Nodes))
           r5 == {}
           r6 == ({8} \X ({"tm", "app"} \X Nodes))
           r7 == {}
           r8 == {}
           r9 == {}
           r10 == {}
<1>1. Script("penumbra", a1, 4, 5, r1)
  <2>1. <<4, <<"readGenesis">>, 5>> \in Turns("penumbra")  BY DEF Turns, ThorTurns, ThorFamilies
  <2> QED  BY <2>1, TurnScript
<1>2. Script("penumbra", a2, 5, 5, r2)
  <2>1. Stay("penumbra", a2, 5, r2)  BY PenumbraGenesis
  <2> HIDE DEF a2, r2
  <2> QED  BY <2>1, ScriptStay
<1>3. Script("penumbra", a3, 5, 7, r3)
  <2>1. /\ <<5, <<"hashes">>, 6>> \in Turns("penumbra")
        /\ <<6, <<"separator">>, 7>> \in Turns("penumbra")
    BY DEF Turns
  <2> QED  BY <2>1, TurnScript, TwoScript
<1>4. Script("penumbra", a4, 7, 7, r4)
  <2>1. Stay("penumbra", a4, 7, r4)  BY PenumbraCreates
  <2> HIDE DEF a4, r4
  <2> QED  BY <2>1, ScriptStay
<1>5. Script("penumbra", a5, 7, 8, r5)
  <2>1. <<7, <<"wait">>, 8>> \in Turns("penumbra")  BY DEF Turns, ThorTurns, ThorFamilies
  <2>2. a5 = Do(<<"wait">>)  BY DoOne DEF Wait
  <2> QED  BY <2>1, <2>2, TurnScript
<1>6. Script("penumbra", a6, 8, 8, r6)
  <2>1. Stay("penumbra", a6, 8, r6)  BY PenumbraRuns
  <2> HIDE DEF a6, r6
  <2> QED  BY <2>1, ScriptStay
<1>7. Script("penumbra", a7, 8, 9, r7)
  <2>1. <<8, <<"wait">>, 9>> \in Turns("penumbra")  BY DEF Turns, ThorTurns, ThorFamilies
  <2>2. a7 = Do(<<"wait">>)  BY DoOne DEF Wait
  <2> QED  BY <2>1, <2>2, TurnScript
<1>8. Script("penumbra", a8, 9, 10, r8)
  <2>1. <<9, <<"waitForBlocks">>, 10>> \in Turns("penumbra")  BY DEF Turns, ThorTurns, ThorFamilies
  <2> QED  BY <2>1, TurnScript
<1>9. Script("penumbra", a9, 10, 10, r9)
  <2>1. Stay("penumbra", a9, 10, r9)  BY PenumbraClients, StayLess
  <2> HIDE DEF a9, r9
  <2> QED  BY <2>1, ScriptStay
<1>10. Script("penumbra", a10, 10, 11, r10)
  <2>1. <<10, <<"wait">>, 11>> \in Turns("penumbra")  BY DEF Turns, ThorTurns, ThorFamilies
  <2>2. a10 = Do(<<"wait">>)  BY DoOne DEF Wait
  <2> QED  BY <2>1, <2>2, TurnScript
<1> DEFINE x1 == a1
           x2 == x1 \o a2
           x3 == x2 \o a3
           x4 == x3 \o a4
           x5 == x4 \o a5
           x6 == x5 \o a6
           x7 == x6 \o a7
           x8 == x7 \o a8
           x9 == x8 \o a9
           x10 == x9 \o a10
           t1 == r1
           t2 == t1 \cup r2
           t3 == t2 \cup r3
           t4 == t3 \cup r4
           t5 == t4 \cup r5
           t6 == t5 \cup r6
           t7 == t6 \cup r7
           t8 == t7 \cup r8
           t9 == t8 \cup r9
           t10 == t9 \cup r10
<1>11. PenumbraStartNodes = x10  BY DEF PenumbraStartNodes
<1>12. NodesBegun = r2 \cup r4 \cup r6  BY DEF NodesBegun
<1> HIDE DEF r1, r2, r3, r4, r5, r6, r7, r8, r9, r10
<1>13. NodesBegun \subseteq t10  BY <1>12
<1> HIDE DEF a1, a2, a3, a4, a5, a6, a7, a8, a9, a10, x2, x3, x4, x5, x6, x7, x8, x9, x10, t2, t3, t4, t5, t6, t7, t8, t9, t10
<1>14. Script("penumbra", x2, 4, 5, t2)  BY <1>1, <1>2, ScriptConcat DEF x2, t2
<1>15. Script("penumbra", x3, 4, 7, t3)  BY <1>14, <1>3, ScriptConcat DEF x3, t3
<1>16. Script("penumbra", x4, 4, 7, t4)  BY <1>15, <1>4, ScriptConcat DEF x4, t4
<1>17. Script("penumbra", x5, 4, 8, t5)  BY <1>16, <1>5, ScriptConcat DEF x5, t5
<1>18. Script("penumbra", x6, 4, 8, t6)  BY <1>17, <1>6, ScriptConcat DEF x6, t6
<1>19. Script("penumbra", x7, 4, 9, t7)  BY <1>18, <1>7, ScriptConcat DEF x7, t7
<1>20. Script("penumbra", x8, 4, 10, t8)  BY <1>19, <1>8, ScriptConcat DEF x8, t8
<1>21. Script("penumbra", x9, 4, 10, t9)  BY <1>20, <1>9, ScriptConcat DEF x9, t9
<1>22. Script("penumbra", x10, 4, 11, t10)  BY <1>21, <1>10, ScriptConcat DEF x10, t10
<1> QED  BY <1>22, <1>11, <1>13, ScriptLess

\* Start of a penumbra chain.
LEMMA PenumbraScript ==
  ASSUME "penumbra" \in Families
  PROVE  Script("penumbra", PenumbraStart, 1, 11, (PenumbraBegun \cup NodesBegun))
<1> DEFINE a1 == Each(UpTo(NumValidators), LAMBDA v : Go(<<"tm", v>>, PenumbraValidator(v)))
           a2 == Each(Wallets, LAMBDA v : <<<<"lock">>, <<"append", v>>>>)
           a3 == Each(UpTo(NumFullNodes), LAMBDA v : Go(<<"tm", NumValidators + v>>, Do(<<"initFiles">>)))
           a4 == Wait
           a5 == Do(<<"generateGenesisFile">>)
           a6 == Each(UpTo(NumValidators), LAMBDA v : Go(<<"tm", v>>, Do(<<"readKeyOfNode", "writeKey">>)))
           a7 == Wait
           a8 == PenumbraStartNodes
           r1 == {<<1, <<"tm", v>>>> : v \in Validators}
           r2 == {<<1, <<"append", w>>>> : w \in Range(Wallets)}
           r3 == {}
           r4 == {}
           r5 == {}
           r6 == {<<3, <<"tm", v>>>> : v \in Validators}
           r7 == {}
           r8 == NodesBegun
<1>1. Script("penumbra", a1, 1, 1, r1)
  <2>1. Stay("penumbra", a1, 1, r1)  BY PenumbraValidators
  <2> HIDE DEF a1, r1
  <2> QED  BY <2>1, ScriptStay
<1>2. Script("penumbra", a2, 1, 1, r2)
  <2>1. Stay("penumbra", a2, 1, r2)  BY PenumbraWallets
  <2> HIDE DEF a2, r2
  <2> QED  BY <2>1, ScriptStay
<1>3. Script("penumbra", a3, 1, 1, r3)
  <2>1. Stay("penumbra", a3, 1, r3)  BY PenumbraFullNodes
  <2> HIDE DEF a3, r3
  <2> QED  BY <2>1, ScriptStay
<1>4. Script("penumbra", a4, 1, 2, r4)
  <2>1. <<1, <<"wait">>, 2>> \in Turns("penumbra")  BY DEF Turns, ThorTurns, ThorFamilies
  <2>2. a4 = Do(<<"wait">>)  BY DoOne DEF Wait
  <2> QED  BY <2>1, <2>2, TurnScript
<1>5. Script("penumbra", a5, 2, 3, r5)
  <2>1. <<2, <<"generateGenesisFile">>, 3>> \in Turns("penumbra")  BY DEF Turns, ThorTurns, ThorFamilies
  <2> QED  BY <2>1, TurnScript
<1>6. Script("penumbra", a6, 3, 3, r6)
  <2>1. Stay("penumbra", a6, 3, r6)  BY PenumbraKeys
  <2> HIDE DEF a6, r6
  <2> QED  BY <2>1, ScriptStay
<1>7. Script("penumbra", a7, 3, 4, r7)
  <2>1. <<3, <<"wait">>, 4>> \in Turns("penumbra")  BY DEF Turns, ThorTurns, ThorFamilies
  <2>2. a7 = Do(<<"wait">>)  BY DoOne DEF Wait
  <2> QED  BY <2>1, <2>2, TurnScript
<1>8. Script("penumbra", a8, 4, 11, r8)
  BY NodesScript
<1> DEFINE x1 == a1
           x2 == x1 \o a2
           x3 == x2 \o a3
           x4 == x3 \o a4
           x5 == x4 \o a5
           x6 == x5 \o a6
           x7 == x6 \o a7
           x8 == x7 \o a8
           t1 == r1
           t2 == t1 \cup r2
           t3 == t2 \cup r3
           t4 == t3 \cup r4
           t5 == t4 \cup r5
           t6 == t5 \cup r6
           t7 == t6 \cup r7
           t8 == t7 \cup r8
<1>9. PenumbraStart = x8  BY DEF PenumbraStart
<1>10. (PenumbraBegun \cup NodesBegun) = r1 \cup r2 \cup r6 \cup r8  BY DEF PenumbraBegun
<1> HIDE DEF r1, r2, r3, r4, r5, r6, r7, r8
<1>11. (PenumbraBegun \cup NodesBegun) \subseteq t8  BY <1>10
<1> HIDE DEF a1, a2, a3, a4, a5, a6, a7, a8, x2, x3, x4, x5, x6, x7, x8, t2, t3, t4, t5, t6, t7, t8
<1>12. Script("penumbra", x2, 1, 1, t2)  BY <1>1, <1>2, ScriptConcat DEF x2, t2
<1>13. Script("penumbra", x3, 1, 1, t3)  BY <1>12, <1>3, ScriptConcat DEF x3, t3
<1>14. Script("penumbra", x4, 1, 2, t4)  BY <1>13, <1>4, ScriptConcat DEF x4, t4
<1>15. Script("penumbra", x5, 1, 3, t5)  BY <1>14, <1>5, ScriptConcat DEF x5, t5
<1>16. Script("penumbra", x6, 1, 3, t6)  BY <1>15, <1>6, ScriptConcat DEF x6, t6
<1>17. Script("penumbra", x7, 1, 4, t7)  BY <1>16, <1>7, ScriptConcat DEF x7, t7
<1>18. Script("penumbra", x8, 1, 11, t8)  BY <1>17, <1>8, ScriptConcat DEF x8, t8
<1> QED  BY <1>18, <1>9, <1>11, ScriptLess

----------------------------------------------------------------------------
(* namada *)

\* What NamadaStart has Main do and begin.
NamadaBegun ==
  {<<2, <<"define", v>>>> : v \in Validators}
    \cup {<<2, <<"fund", w>>>> : w \in Validators \cup {GasPayer} \cup Range(Wallets)}
    \cup {<<7, <<"val", v>>>> : v \in Validators} \cup {<<7, <<"full", v>>>> : v \in 1..NumFullNodes}

\* SetValidators.
LEMMA SetValidatorsScript ==
  ASSUME "namada" \in Families
  PROVE  Script("namada", SetValidators, 2, 2, {<<2, <<"define", v>>>> : v \in Validators})
<1> DEFINE a1 == Do(<<"transactions">>)
           a2 == Each(UpTo(NumValidators), LAMBDA v : <<<<"define", v>>>>)
           r1 == {}
           r2 == {<<2, <<"define", v>>>> : v \in Validators}
<1>1. Script("namada", a1, 2, 2, r1)
  <2>1. MainMay("namada", 2, <<"transactions">>) /\ "transactions" \in Calls \cup {"setRunning"}  BY DEF MainMay, Calls, ThorFamilies
  <2> QED  BY <2>1, CallScript, Nothing
<1>2. Script("namada", a2, 2, 2, r2)
  <2>1. Stay("namada", a2, 2, r2)  BY NamadaDefines
  <2> HIDE DEF a2, r2
  <2> QED  BY <2>1, ScriptStay
<1> DEFINE x1 == a1
           x2 == x1 \o a2
           t1 == r1
           t2 == t1 \cup r2
<1>3. SetValidators = x2  BY DEF SetValidators
<1>4. {<<2, <<"define", v>>>> : v \in Validators} = r2  OBVIOUS
<1> HIDE DEF r1, r2
<1>5. {<<2, <<"define", v>>>> : v \in Validators} \subseteq t2  BY <1>4
<1> HIDE DEF a1, a2, x2, t2
<1>6. Script("namada", x2, 2, 2, t2)  BY <1>1, <1>2, ScriptConcat DEF x2, t2
<1> QED  BY <1>6, <1>3, <1>5, ScriptLess

\* InitAccounts.
LEMMA InitAccountsScript ==
  ASSUME "namada" \in Families
  PROVE  Script("namada", InitAccounts, 2, 2, {<<2, <<"fund", w>>>> : w \in Validators \cup {GasPayer} \cup Range(Wallets)})
<1> DEFINE a1 == Do(<<"balances">>)
           a2 == Each(Payees, LAMBDA v : <<<<"fund", v>>>>)
           a3 == Do(<<"accounts">>)
           r1 == {}
           r2 == {<<2, <<"fund", w>>>> : w \in Validators \cup {GasPayer} \cup Range(Wallets)}
           r3 == {}
<1>1. Script("namada", a1, 2, 2, r1)
  <2>1. MainMay("namada", 2, <<"balances">>) /\ "balances" \in Calls \cup {"setRunning"}  BY DEF MainMay, Calls, ThorFamilies
  <2> QED  BY <2>1, CallScript, Nothing
<1>2. Script("namada", a2, 2, 2, r2)
  <2>1. Stay("namada", a2, 2, r2)  BY NamadaFunds
  <2> HIDE DEF a2, r2
  <2> QED  BY <2>1, ScriptStay
<1>3. Script("namada", a3, 2, 2, r3)
  <2>1. MainMay("namada", 2, <<"accounts">>) /\ "accounts" \in Calls \cup {"setRunning"}  BY DEF MainMay, Calls, ThorFamilies
  <2> QED  BY <2>1, CallScript, Nothing
<1> DEFINE x1 == a1
           x2 == x1 \o a2
           x3 == x2 \o a3
           t1 == r1
           t2 == t1 \cup r2
           t3 == t2 \cup r3
<1>4. InitAccounts = x3  BY DEF InitAccounts, Payees
<1>5. {<<2, <<"fund", w>>>> : w \in Validators \cup {GasPayer} \cup Range(Wallets)} = r2  OBVIOUS
<1> HIDE DEF r1, r2, r3
<1>6. {<<2, <<"fund", w>>>> : w \in Validators \cup {GasPayer} \cup Range(Wallets)} \subseteq t3  BY <1>5
<1> HIDE DEF a1, a2, a3, x2, x3, t2, t3
<1>7. Script("namada", x2, 2, 2, t2)  BY <1>1, <1>2, ScriptConcat DEF x2, t2
<1>8. Script("namada", x3, 2, 2, t3)  BY <1>7, <1>3, ScriptConcat DEF x3, t3
<1> QED  BY <1>8, <1>4, <1>6, ScriptLess

\* Start of a namada chain.
LEMMA NamadaScript ==
  ASSUME "namada" \in Families
  PROVE  Script("namada", NamadaStart, 2, 9, NamadaBegun)
<1> DEFINE a1 == DownloadTemplates
           a2 == DownloadWasms
           a3 == SetValidators
           a4 == InitAccounts
           a5 == UpdateParameters
           a6 == Do(<<"initNetwork">>)
           a7 == Each(UpTo(NumValidators), LAMBDA v : Go(<<"val", v>>, CopyGenesisFiles \o CopyValidatorWallet \o Do(<<"create">>)))
           a8 == Each(UpTo(NumFullNodes), LAMBDA v : Go(<<"full", v>>, CopyGenesisFiles \o Do(<<"create">>)))
           a9 == Wait
           a10 == Each(UpTo(NumValidators), LAMBDA v : Go(<<"val", v>>, NamadaStartContainer))
           a11 == Each(UpTo(NumFullNodes), LAMBDA v : Go(<<"full", v>>, NamadaStartContainer))
           a12 == Wait
           a13 == Do(<<"waitForBlocks", "setRunning">>)
           r1 == {}
           r2 == {}
           r3 == {<<2, <<"define", v>>>> : v \in Validators}
           r4 == {<<2, <<"fund", w>>>> : w \in Validators \cup {GasPayer} \cup Range(Wallets)}
           r5 == {}
           r6 == {}
           r7 == {<<7, <<"val", v>>>> : v \in Validators}
           r8 == {<<7, <<"full", v>>>> : v \in 1..NumFullNodes}
           r9 == {}
           r10 == {}
           r11 == {}
           r12 == {}
           r13 == {}
<1>1. Script("namada", a1, 2, 2, r1)
  <2>1. MainMay("namada", 2, <<"templates">>) /\ "templates" \in Calls \cup {"setRunning"}  BY DEF MainMay, Calls, ThorFamilies
  <2> QED  BY <2>1, CallScript, Nothing DEF DownloadTemplates
<1>2. Script("namada", a2, 2, 2, r2)
  <2>1. MainMay("namada", 2, <<"wasms">>) /\ "wasms" \in Calls \cup {"setRunning"}  BY DEF MainMay, Calls, ThorFamilies
  <2> QED  BY <2>1, CallScript, Nothing DEF DownloadWasms
<1>3. Script("namada", a3, 2, 2, r3)
  BY SetValidatorsScript
<1>4. Script("namada", a4, 2, 2, r4)
  BY InitAccountsScript
<1>5. Script("namada", a5, 2, 2, r5)
  <2>1. MainMay("namada", 2, <<"parameters">>) /\ "parameters" \in Calls \cup {"setRunning"}  BY DEF MainMay, Calls, ThorFamilies
  <2> QED  BY <2>1, CallScript, Nothing DEF UpdateParameters
<1>6. Script("namada", a6, 2, 7, r6)
  <2>1. <<2, <<"initNetwork">>, 7>> \in Turns("namada")  BY DEF Turns, ThorTurns, ThorFamilies
  <2> QED  BY <2>1, TurnScript
<1>7. Script("namada", a7, 7, 7, r7)
  <2>1. Stay("namada", a7, 7, r7)  BY NamadaValidators
  <2> HIDE DEF a7, r7
  <2> QED  BY <2>1, ScriptStay
<1>8. Script("namada", a8, 7, 7, r8)
  <2>1. Stay("namada", a8, 7, r8)  BY NamadaFullNodes
  <2> HIDE DEF a8, r8
  <2> QED  BY <2>1, ScriptStay
<1>9. Script("namada", a9, 7, 8, r9)
  <2>1. <<7, <<"wait">>, 8>> \in Turns("namada")  BY DEF Turns, ThorTurns, ThorFamilies
  <2>2. a9 = Do(<<"wait">>)  BY DoOne DEF Wait
  <2> QED  BY <2>1, <2>2, TurnScript
<1>10. Script("namada", a10, 8, 8, r10)
  <2>1. Stay("namada", a10, 8, r10)  BY NamadaValidatorsRun, StayLess
  <2> HIDE DEF a10, r10
  <2> QED  BY <2>1, ScriptStay
<1>11. Script("namada", a11, 8, 8, r11)
  <2>1. Stay("namada", a11, 8, r11)  BY NamadaFullNodesRun, StayLess
  <2> HIDE DEF a11, r11
  <2> QED  BY <2>1, ScriptStay
<1>12. Script("namada", a12, 8, 9, r12)
  <2>1. <<8, <<"wait">>, 9>> \in Turns("namada")  BY DEF Turns, ThorTurns, ThorFamilies
  <2>2. a12 = Do(<<"wait">>)  BY DoOne DEF Wait
  <2> QED  BY <2>1, <2>2, TurnScript
<1>13. Script("namada", a13, 9, 9, r13)
  <2>1. /\ MainMay("namada", 9, <<"waitForBlocks">>) /\ "waitForBlocks" \in Calls \cup {"setRunning"}
        /\ MainMay("namada", 9, <<"setRunning">>) /\ "setRunning" \in Calls \cup {"setRunning"}
    BY DEF MainMay, Calls
  <2> QED  BY <2>1, CallScript, Nothing, TwoScript
<1> DEFINE x1 == a1
           x2 == x1 \o a2
           x3 == x2 \o a3
           x4 == x3 \o a4
           x5 == x4 \o a5
           x6 == x5 \o a6
           x7 == x6 \o a7
           x8 == x7 \o a8
           x9 == x8 \o a9
           x10 == x9 \o a10
           x11 == x10 \o a11
           x12 == x11 \o a12
           x13 == x12 \o a13
           t1 == r1
           t2 == t1 \cup r2
           t3 == t2 \cup r3
           t4 == t3 \cup r4
           t5 == t4 \cup r5
           t6 == t5 \cup r6
           t7 == t6 \cup r7
           t8 == t7 \cup r8
           t9 == t8 \cup r9
           t10 == t9 \cup r10
           t11 == t10 \cup r11
           t12 == t11 \cup r12
           t13 == t12 \cup r13
<1>14. NamadaStart = x13  BY DEF NamadaStart
<1>15. NamadaBegun = r3 \cup r4 \cup r7 \cup r8  BY DEF NamadaBegun
<1> HIDE DEF r1, r2, r3, r4, r5, r6, r7, r8, r9, r10, r11, r12, r13
<1>16. NamadaBegun \subseteq t13  BY <1>15
<1> HIDE DEF a1, a2, a3, a4, a5, a6, a7, a8, a9, a10, a11, a12, a13, x2, x3, x4, x5, x6, x7, x8, x9, x10, x11, x12, x13, t2, t3, t4, t5, t6, t7, t8, t9, t10, t11, t12, t13
<1>17. Script("namada", x2, 2, 2, t2)  BY <1>1, <1>2, ScriptConcat DEF x2, t2
<1>18. Script("namada", x3, 2, 2, t3)  BY <1>17, <1>3, ScriptConcat DEF x3, t3
<1>19. Script("namada", x4, 2, 2, t4)  BY <1>18, <1>4, ScriptConcat DEF x4, t4
<1>20. Script("namada", x5, 2, 2, t5)  BY <1>19, <1>5, ScriptConcat DEF x5, t5
<1>21. Script("namada", x6, 2, 7, t6)  BY <1>20, <1>6, ScriptConcat DEF x6, t6
<1>22. Script("namada", x7, 2, 7, t7)  BY <1>21, <1>7, ScriptConcat DEF x7, t7
<1>23. Script("namada", x8, 2, 7, t8)  BY <1>22, <1>8, ScriptConcat DEF x8, t8
<1>24. Script("namada", x9, 2, 8, t9)  BY <1>23, <1>9, ScriptConcat DEF x9, t9
<1>25. Script("namada", x10, 2, 8, t10)  BY <1>24, <1>10, ScriptConcat DEF x10, t10
<1>26. Script("namada", x11, 2, 8, t11)  BY <1>25, <1>11, ScriptConcat DEF x11, t11
<1>27. Script("namada", x12, 2, 9, t12)  BY <1>26, <1>12, ScriptConcat DEF x12, t12
<1>28. Script("namada", x13, 2, 9, t13)  BY <1>27, <1>13, ScriptConcat DEF x13, t13
<1> QED  BY <1>28, <1>14, <1>16, ScriptLess

----------------------------------------------------------------------------
(* polkadot *)

\* What PolkadotStart has Main do and begin,
PolkadotBegun ==
  ({0} \X ParaNodes)
    \cup ({2} \X ({"define", "fund"} \X (1..NumRelay)))
    \cup {<<2, <<"fund", w>>>> : w \in Range(Wallets)} \cup {<<2, <<"export", x>>>> : x \in Paras}
    \cup {<<8, <<"relay", v>>>> : v \in 1..NumRelay} \cup ({10} \X ParaNodes)

\* ... of it, what goes into the chain spec.
SpecBegun ==
  ({2} \X ({"define", "fund"} \X (1..NumRelay)))
    \cup {<<2, <<"fund", w>>>> : w \in Range(Wallets)} \cup {<<2, <<"export", x>>>> : x \in Paras}

\* ModifyRelayChainGenesis.
LEMMA SpecScript ==
  ASSUME "polkadot" \in Families
  PROVE  Script("polkadot", ModifyRelayChainGenesis, 2, 2, SpecBegun)
<1> DEFINE a1 == Each(UpTo(NumRelay), LAMBDA v : <<<<"define", v>>, <<"fund", v>>>>)
           a2 == Each(Wallets, LAMBDA v : <<<<"fund", v>>>>)
           a3 == Each(UpTo(Len(Parachains)), LAMBDA v : <<<<"export", v>>>>)
           r1 == ({2} \X ({"define", "fund"} \X (1..NumRelay)))
           r2 == {<<2, <<"fund", w>>>> : w \in Range(Wallets)}
           r3 == {<<2, <<"export", x>>>> : x \in Paras}
<1>1. Script("polkadot", a1, 2, 2, r1)
  <2>1. Stay("polkadot", a1, 2, r1)  BY PolkadotAuthorities
  <2> HIDE DEF a1, r1
  <2> QED  BY <2>1, ScriptStay
<1>2. Script("polkadot", a2, 2, 2, r2)
  <2>1. Stay("polkadot", a2, 2, r2)  BY PolkadotWallets
  <2> HIDE DEF a2, r2
  <2> QED  BY <2>1, ScriptStay
<1>3. Script("polkadot", a3, 2, 2, r3)
  <2>1. Stay("polkadot", a3, 2, r3)  BY PolkadotExports
  <2> HIDE DEF a3, r3
  <2> QED  BY <2>1, ScriptStay
<1> DEFINE x1 == a1
           x2 == x1 \o a2
           x3 == x2 \o a3
           t1 == r1
           t2 == t1 \cup r2
           t3 == t2 \cup r3
<1>4. ModifyRelayChainGenesis = x3  BY DEF ModifyRelayChainGenesis
<1>5. SpecBegun = r1 \cup r2 \cup r3  BY DEF SpecBegun
<1> HIDE DEF r1, r2, r3
<1>6. SpecBegun \subseteq t3  BY <1>5
<1> HIDE DEF a1, a2, a3, x2, x3, t2, t3
<1>7. Script("polkadot", x2, 2, 2, t2)  BY <1>1, <1>2, ScriptConcat DEF x2, t2
<1>8. Script("polkadot", x3, 2, 2, t3)  BY <1>7, <1>3, ScriptConcat DEF x3, t3
<1> QED  BY <1>8, <1>4, <1>6, ScriptLess

\* Start of a polkadot chain.
LEMMA PolkadotScript ==
  ASSUME "polkadot" \in Families
  PROVE  Script("polkadot", PolkadotStart, 0, 11, PolkadotBegun)
<1> DEFINE a1 == CopySpecs
           a2 == Wait
           a3 == Do(<<"chainSpec">>)
           a4 == ModifyRelayChainGenesis
           a5 == Do(<<"editSpec", "generateRaw", "readGenesis">>)
           a6 == RelayChainNodes
           a7 == Wait
           a8 == CollatorNodes
           a9 == Wait
           r1 == ({0} \X ParaNodes)
           r2 == {}
           r3 == {}
           r4 == SpecBegun
           r5 == {}
           r6 == {<<8, <<"relay", v>>>> : v \in 1..NumRelay}
           r7 == {}
           r8 == ({10} \X ParaNodes)
           r9 == {}
<1>1. Script("polkadot", a1, 0, 0, r1)
  <2>1. Stay("polkadot", a1, 0, r1)  BY PolkadotCopies DEF CopySpecs, SpecsOf
  <2> HIDE DEF a1, r1
  <2> QED  BY <2>1, ScriptStay
<1>2. Script("polkadot", a2, 0, 2, r2)
  <2>1. <<0, <<"wait">>, 2>> \in Turns("polkadot")  BY DEF Turns, ThorTurns, ThorFamilies
  <2>2. a2 = Do(<<"wait">>)  BY DoOne DEF Wait
  <2> QED  BY <2>1, <2>2, TurnScript
<1>3. Script("polkadot", a3, 2, 2, r3)
  <2>1. MainMay("polkadot", 2, <<"chainSpec">>) /\ "chainSpec" \in Calls \cup {"setRunning"}  BY DEF MainMay, Calls, ThorFamilies
  <2> QED  BY <2>1, CallScript, Nothing
<1>4. Script("polkadot", a4, 2, 2, r4)
  BY SpecScript
<1>5. Script("polkadot", a5, 2, 8, r5)
  <2>1. /\ MainMay("polkadot", 2, <<"editSpec">>) /\ "editSpec" \in Calls \cup {"setRunning"}
        /\ <<2, <<"generateRaw">>, 4>> \in Turns("polkadot")
        /\ <<4, <<"readGenesis">>, 8>> \in Turns("polkadot")
    BY DEF MainMay, Calls, Turns
  <2>2. /\ Script("polkadot", Do(<<"editSpec">>), 2, 2, {})
        /\ Script("polkadot", Do(<<"generateRaw">>), 2, 4, {})
        /\ Script("polkadot", Do(<<"readGenesis">>), 4, 8, {})
    BY <2>1, CallScript, Nothing, TurnScript
  <2> QED  BY <2>2, ThreeScript
<1>6. Script("polkadot", a6, 8, 8, r6)
  <2>1. Stay("polkadot", a6, 8, r6)  BY PolkadotRelays DEF RelayChainNodes
  <2> HIDE DEF a6, r6
  <2> QED  BY <2>1, ScriptStay
<1>7. Script("polkadot", a7, 8, 10, r7)
  <2>1. <<8, <<"wait">>, 10>> \in Turns("polkadot")  BY DEF Turns, ThorTurns, ThorFamilies
  <2>2. a7 = Do(<<"wait">>)  BY DoOne DEF Wait
  <2> QED  BY <2>1, <2>2, TurnScript
<1>8. Script("polkadot", a8, 10, 10, r8)
  <2>1. Stay("polkadot", a8, 10, r8)  BY PolkadotRuns DEF CollatorNodes, CollatorsOf
  <2> HIDE DEF a8, r8
  <2> QED  BY <2>1, ScriptStay
<1>9. Script("polkadot", a9, 10, 11, r9)
  <2>1. <<10, <<"wait">>, 11>> \in Turns("polkadot")  BY DEF Turns, ThorTurns, ThorFamilies
  <2>2. a9 = Do(<<"wait">>)  BY DoOne DEF Wait
  <2> QED  BY <2>1, <2>2, TurnScript
<1> DEFINE x1 == a1
           x2 == x1 \o a2
           x3 == x2 \o a3
           x4 == x3 \o a4
           x5 == x4 \o a5
           x6 == x5 \o a6
           x7 == x6 \o a7
           x8 == x7 \o a8
           x9 == x8 \o a9
           t1 == r1
           t2 == t1 \cup r2
           t3 == t2 \cup r3
           t4 == t3 \cup r4
           t5 == t4 \cup r5
           t6 == t5 \cup r6
           t7 == t6 \cup r7
           t8 == t7 \cup r8
           t9 == t8 \cup r9
<1>10. PolkadotStart = x9  BY DEF PolkadotStart
<1>11. PolkadotBegun = r1 \cup r4 \cup r6 \cup r8  BY DEF PolkadotBegun, SpecBegun
<1> HIDE DEF r1, r2, r3, r4, r5, r6, r7, r8, r9
<1>12. PolkadotBegun \subseteq t9  BY <1>11
<1> HIDE DEF a1, a2, a3, a4, a5, a6, a7, a8, a9, x2, x3, x4, x5, x6, x7, x8, x9, t2, t3, t4, t5, t6, t7, t8, t9
<1>13. Script("polkadot", x2, 0, 2, t2)  BY <1>1, <1>2, ScriptConcat DEF x2, t2
<1>14. Script("polkadot", x3, 0, 2, t3)  BY <1>13, <1>3, ScriptConcat DEF x3, t3
<1>15. Script("polkadot", x4, 0, 2, t4)  BY <1>14, <1>4, ScriptConcat DEF x4, t4
<1>16. Script("polkadot", x5, 0, 8, t5)  BY <1>15, <1>5, ScriptConcat DEF x5, t5
<1>17. Script("polkadot", x6, 0, 8, t6)  BY <1>16, <1>6, ScriptConcat DEF x6, t6
<1>18. Script("polkadot", x7, 0, 10, t7)  BY <1>17, <1>7, ScriptConcat DEF x7, t7
<1>19. Script("polkadot", x8, 0, 10, t8)  BY <1>18, <1>8, ScriptConcat DEF x8, t8
<1>20. Script("polkadot", x9, 0, 11, t9)  BY <1>19, <1>9, ScriptConcat DEF x9, t9
<1> QED  BY <1>20, <1>10, <1>12, ScriptLess

----------------------------------------------------------------------------
(* thorchain *)

\* What a thorchain's Start has Main do for the genesis,
ThorCollected ==
  ({2} \X ({"define", "fund"} \X (2..NumValidators)))
    \cup {<<2, <<"fund", w>>>> : w \in Range(Wallets)} \cup {<<2, <<"fund", Bond>>>>}

\* ... after it,
ThorLast ==
  {<<5, <<"writeGenesis", <<"thor", v>>>>>> : v \in Nodes} \cup {<<6, <<"side", v>>>> : v \in 1..NumSidecars}
    \cup {<<7, <<"thor", v>>>> : v \in Nodes}

\* ... and in all.
ThorBegun(f) ==
  {<<1, <<"thor", v>>>> : v \in Validators}
    \cup (IF f = "thorchain" THEN ThorCollected ELSE {<<3, <<"thor", v>>>> : v \in Validators}) \cup ThorLast

\* PrepNodes.
LEMMA PrepScript ==
  ASSUME NEW f \in Families \cap ThorFamilies
  PROVE  Script(f, PrepNodes(f), 1, 2, {<<1, <<"thor", v>>>> : v \in Validators})
<1>0. <<1, <<"wait">>, 2>> \in Turns(f)  BY DEF Turns, ThorFamilies
<1> DEFINE a1 == Each(UpTo(NumValidators), LAMBDA v : Go(<<"thor", v>>, ThorValidator(f, v)))
           a2 == Each(UpTo(NumFullNodes), LAMBDA v : Go(<<"thor", NumValidators + v>>, InitFullNodeFiles \o Do(<<"config">>)))
           a3 == Wait
           r1 == {<<1, <<"thor", v>>>> : v \in Validators}
           r2 == {}
           r3 == {}
<1>1. Script(f, a1, 1, 1, r1)
  <2>1. Stay(f, a1, 1, r1)  BY ThorValidators
  <2> HIDE DEF a1, r1
  <2> QED  BY <2>1, ScriptStay
<1>2. Script(f, a2, 1, 1, r2)
  <2>1. Stay(f, a2, 1, r2)  BY ThorFullNodes
  <2> HIDE DEF a2, r2
  <2> QED  BY <2>1, ScriptStay
<1>3. Script(f, a3, 1, 2, r3)
  <2>1. <<1, <<"wait">>, 2>> \in Turns(f)  BY DEF Turns, ThorTurns, ThorFamilies
  <2>2. a3 = Do(<<"wait">>)  BY DoOne DEF Wait
  <2> QED  BY <2>1, <2>2, TurnScript
<1> DEFINE x1 == a1
           x2 == x1 \o a2
           x3 == x2 \o a3
           t1 == r1
           t2 == t1 \cup r2
           t3 == t2 \cup r3
<1>4. PrepNodes(f) = x3  BY DEF PrepNodes
<1>5. {<<1, <<"thor", v>>>> : v \in Validators} = r1  OBVIOUS
<1> HIDE DEF r1, r2, r3
<1>6. {<<1, <<"thor", v>>>> : v \in Validators} \subseteq t3  BY <1>5
<1> HIDE DEF a1, a2, a3, x2, x3, t2, t3
<1>7. Script(f, x2, 1, 1, t2)  BY <1>1, <1>2, ScriptConcat DEF x2, t2
<1>8. Script(f, x3, 1, 2, t3)  BY <1>7, <1>3, ScriptConcat DEF x3, t3
<1> QED  BY <1>8, <1>4, <1>6, ScriptLess

\* CollectGenesis.
LEMMA CollectScript ==
  ASSUME "thorchain" \in Families
  PROVE  Script("thorchain", CollectGenesis, 2, 2, ThorCollected)
<1> DEFINE a1 == Each(Tail(UpTo(NumValidators)), LAMBDA v : CollectOf(v))
           a2 == Each(Wallets, LAMBDA v : AddGenesisAccount(1, v))
           a3 == AddBondModule
           a4 == Do(<<"readFile">>)
           r1 == ({2} \X ({"define", "fund"} \X (2..NumValidators)))
           r2 == {<<2, <<"fund", w>>>> : w \in Range(Wallets)}
           r3 == {<<2, <<"fund", Bond>>>>}
           r4 == {}
<1>1. Script("thorchain", a1, 2, 2, r1)
  <2>1. Stay("thorchain", a1, 2, r1)  BY ThorRest
  <2> HIDE DEF a1, r1
  <2> QED  BY <2>1, ScriptStay
<1>2. Script("thorchain", a2, 2, 2, r2)
  <2>1. Stay("thorchain", a2, 2, r2)  BY ThorWallets DEF AddGenesisAccount
  <2> HIDE DEF a2, r2
  <2> QED  BY <2>1, ScriptStay
<1>3. Script("thorchain", a3, 2, 2, r3)
  <2>1. Stay("thorchain", a3, 2, r3)  
    <3>1. MainMay("thorchain", 2, <<"fund", Bond>>)  BY DEF MainMay
    <3>2. Bond \in Args  BY ArgsHave
    <3> QED  BY <3>1, <3>2, StayArg, Nothing DEF AddBondModule, AddGenesisAccount
  <2> HIDE DEF a3, r3
  <2> QED  BY <2>1, ScriptStay
<1>4. Script("thorchain", a4, 2, 2, r4)
  <2>1. MainMay("thorchain", 2, <<"readFile">>) /\ "readFile" \in Calls \cup {"setRunning"}  BY DEF MainMay, Calls, ThorFamilies
  <2> QED  BY <2>1, CallScript, Nothing
<1> DEFINE x1 == a1
           x2 == x1 \o a2
           x3 == x2 \o a3
           x4 == x3 \o a4
           t1 == r1
           t2 == t1 \cup r2
           t3 == t2 \cup r3
           t4 == t3 \cup r4
<1>5. CollectGenesis = x4  BY DEF CollectGenesis, CollectOf
<1>6. ThorCollected = r1 \cup r2 \cup r3  BY DEF ThorCollected
<1> HIDE DEF r1, r2, r3, r4
<1>7. ThorCollected \subseteq t4  BY <1>6
<1> HIDE DEF a1, a2, a3, a4, x2, x3, x4, t2, t3, t4
<1>8. Script("thorchain", x2, 2, 2, t2)  BY <1>1, <1>2, ScriptConcat DEF x2, t2
<1>9. Script("thorchain", x3, 2, 2, t3)  BY <1>8, <1>3, ScriptConcat DEF x3, t3
<1>10. Script("thorchain", x4, 2, 2, t4)  BY <1>9, <1>4, ScriptConcat DEF x4, t4
<1> QED  BY <1>10, <1>5, <1>7, ScriptLess

\* GenBzReplace.
LEMMA ReplaceScript ==
  ASSUME "thorchainFork" \in Families
  PROVE  Script("thorchainFork", GenBzReplace, 3, 4, {<<3, <<"thor", v>>>> : v \in Validators})
<1> DEFINE a1 == Each(UpTo(NumValidators), LAMBDA v : Go(<<"thor", v>>, Replacements))
           a2 == Wait
           r1 == {<<3, <<"thor", v>>>> : v \in Validators}
           r2 == {}
<1>1. Script("thorchainFork", a1, 3, 3, r1)
  <2>1. Stay("thorchainFork", a1, 3, r1)  BY ThorReplaces
  <2> HIDE DEF a1, r1
  <2> QED  BY <2>1, ScriptStay
<1>2. Script("thorchainFork", a2, 3, 4, r2)
  <2>1. <<3, <<"wait">>, 4>> \in Turns("thorchainFork")  BY DEF Turns, ThorTurns, ThorFamilies
  <2>2. a2 = Do(<<"wait">>)  BY DoOne DEF Wait
  <2> QED  BY <2>1, <2>2, TurnScript
<1> DEFINE x1 == a1
           x2 == x1 \o a2
           t1 == r1
           t2 == t1 \cup r2
<1>3. GenBzReplace = x2  BY DEF GenBzReplace, Replacements
<1>4. {<<3, <<"thor", v>>>> : v \in Validators} = r1  OBVIOUS
<1> HIDE DEF r1, r2
<1>5. {<<3, <<"thor", v>>>> : v \in Validators} \subseteq t2  BY <1>4
<1> HIDE DEF a1, a2, x2, t2
<1>6. Script("thorchainFork", x2, 3, 4, t2)  BY <1>1, <1>2, ScriptConcat DEF x2, t2
<1> QED  BY <1>6, <1>3, <1>5, ScriptLess

\* A fork's other nodes.
LEMMA MoreScript ==
  ASSUME "thorchainFork" \in Families
  PROVE  Script("thorchainFork", ThorNewNodes("thorchainFork"), 0, 1, {})
<1> DEFINE a1 == Each(Tail(UpTo(NumValidators)), LAMBDA v : Go(<<"thor", v>>, Do(<<"newNode">>)))
           a2 == Wait
           r1 == {}
           r2 == {}
<1>1. Script("thorchainFork", a1, 0, 0, r1)
  <2>1. Stay("thorchainFork", a1, 0, r1)  BY ThorMore
  <2> HIDE DEF a1, r1
  <2> QED  BY <2>1, ScriptStay
<1>2. Script("thorchainFork", a2, 0, 1, r2)
  <2>1. <<0, <<"wait">>, 1>> \in Turns("thorchainFork")  BY DEF Turns, ThorTurns, ThorFamilies
  <2>2. a2 = Do(<<"wait">>)  BY DoOne DEF Wait
  <2> QED  BY <2>1, <2>2, TurnScript
<1> DEFINE x1 == a1
           x2 == x1 \o a2
           t1 == r1
           t2 == t1 \cup r2
<1>3. ThorNewNodes("thorchainFork") = x2  BY DEF ThorNewNodes
<1>4. {} = {}  OBVIOUS
<1> HIDE DEF r1, r2
<1>5. {} \subseteq t2  BY <1>4
<1> HIDE DEF a1, a2, x2, t2
<1>6. Script("thorchainFork", x2, 0, 1, t2)  BY <1>1, <1>2, ScriptConcat DEF x2, t2
<1> QED  BY <1>6, <1>3, <1>5, ScriptLess

\* Start of a thorchain.
LEMMA ThorScript ==
  ASSUME "thorchain" \in Families
  PROVE  Script("thorchain", ThorchainStart("thorchain"), 1, 9, ThorBegun("thorchain"))
<1>0. "thorchain" \in Families \cap ThorFamilies  BY DEF ThorFamilies
<1> DEFINE a1 == ThorNewNodes("thorchain")
           a2 == PrepNodes("thorchain")
           a3 == Do(<<"preGenesis">>)
           a4 == CollectGenesis
           a5 == Do(<<"modifyGenesis">>)
           a6 == Each(AllNodes, LAMBDA v : <<<<"writeGenesis", <<"thor", v>>>>>>)
           a7 == Do(<<"hashes">>)
           a8 == Each(UpTo(NumSidecars), LAMBDA v : Go(<<"side", v>>, Do(<<"create", "start">>)))
           a9 == Wait
           a10 == Each(AllNodes, LAMBDA v : Go(<<"thor", v>>, Do(<<"create">>)))
           a11 == Wait
           a12 == Each(AllNodes, LAMBDA v : Go(<<"thor", v>>, Do(<<"config">>) \o ThorStartContainer))
           a13 == Wait
           a14 == Do(<<"waitForBlocks">>)
           r1 == {}
           r2 == {<<1, <<"thor", v>>>> : v \in Validators}
           r3 == {}
           r4 == ThorCollected
           r5 == {}
           r6 == {<<5, <<"writeGenesis", <<"thor", v>>>>>> : v \in Nodes}
           r7 == {}
           r8 == {<<6, <<"side", v>>>> : v \in 1..NumSidecars}
           r9 == {}
           r10 == {<<7, <<"thor", v>>>> : v \in Nodes}
           r11 == {}
           r12 == {}
           r13 == {}
           r14 == {}
<1>1. Script("thorchain", a1, 1, 1, r1)
  <2>1. Stay("thorchain", a1, 1, r1)  BY Nothing DEF ThorNewNodes
  <2> HIDE DEF a1, r1
  <2> QED  BY <2>1, ScriptStay
<1>2. Script("thorchain", a2, 1, 2, r2)
  BY <1>0, PrepScript
<1>3. Script("thorchain", a3, 2, 2, r3)
  <2>1. MainMay("thorchain", 2, <<"preGenesis">>) /\ "preGenesis" \in Calls \cup {"setRunning"}  BY DEF MainMay, Calls, ThorFamilies
  <2> QED  BY <2>1, CallScript, Nothing
<1>4. Script("thorchain", a4, 2, 2, r4)
  BY CollectScript
<1>5. Script("thorchain", a5, 2, 5, r5)
  <2>1. <<2, <<"modifyGenesis">>, 5>> \in Turns("thorchain")  BY DEF Turns, ThorTurns, ThorFamilies
  <2> QED  BY <2>1, TurnScript
<1>6. Script("thorchain", a6, 5, 5, r6)
  <2>1. Stay("thorchain", a6, 5, r6)  BY <1>0, ThorGenesisFiles
  <2> HIDE DEF a6, r6
  <2> QED  BY <2>1, ScriptStay
<1>7. Script("thorchain", a7, 5, 6, r7)
  <2>1. <<5, <<"hashes">>, 6>> \in Turns("thorchain")  BY DEF Turns, ThorTurns, ThorFamilies
  <2> QED  BY <2>1, TurnScript
<1>8. Script("thorchain", a8, 6, 6, r8)
  <2>1. Stay("thorchain", a8, 6, r8)  BY <1>0, ThorSides
  <2> HIDE DEF a8, r8
  <2> QED  BY <2>1, ScriptStay
<1>9. Script("thorchain", a9, 6, 7, r9)
  <2>1. <<6, <<"wait">>, 7>> \in Turns("thorchain")  BY DEF Turns, ThorTurns, ThorFamilies
  <2>2. a9 = Do(<<"wait">>)  BY DoOne DEF Wait
  <2> QED  BY <2>1, <2>2, TurnScript
<1>10. Script("thorchain", a10, 7, 7, r10)
  <2>1. Stay("thorchain", a10, 7, r10)  BY <1>0, ThorCreates
  <2> HIDE DEF a10, r10
  <2> QED  BY <2>1, ScriptStay
<1>11. Script("thorchain", a11, 7, 8, r11)
  <2>1. <<7, <<"wait">>, 8>> \in Turns("thorchain")  BY DEF Turns, ThorTurns, ThorFamilies
  <2>2. a11 = Do(<<"wait">>)  BY DoOne DEF Wait
  <2> QED  BY <2>1, <2>2, TurnScript
<1>12. Script("thorchain", a12, 8, 8, r12)
  <2>1. Stay("thorchain", a12, 8, r12)  BY <1>0, ThorRuns, StayLess
  <2> HIDE DEF a12, r12
  <2> QED  BY <2>1, ScriptStay
<1>13. Script("thorchain", a13, 8, 9, r13)
  <2>1. <<8, <<"wait">>, 9>> \in Turns("thorchain")  BY DEF Turns, ThorTurns, ThorFamilies
  <2>2. a13 = Do(<<"wait">>)  BY DoOne DEF Wait
  <2> QED  BY <2>1, <2>2, TurnScript
<1>14. Script("thorchain", a14, 9, 9, r14)
  <2>1. MainMay("thorchain", 9, <<"waitForBlocks">>) /\ "waitForBlocks" \in Calls \cup {"setRunning"}  BY DEF MainMay, Calls, ThorFamilies
  <2> QED  BY <2>1, CallScript, Nothing
<1> DEFINE x1 == a1
           x2 == x1 \o a2
           x3 == x2 \o a3
           x4 == x3 \o a4
           x5 == x4 \o a5
           x6 == x5 \o a6
           x7 == x6 \o a7
           x8 == x7 \o a8
           x9 == x8 \o a9
           x10 == x9 \o a10
           x11 == x10 \o a11
           x12 == x11 \o a12
           x13 == x12 \o a13
           x14 == x13 \o a14
           t1 == r1
           t2 == t1 \cup r2
           t3 == t2 \cup r3
           t4 == t3 \cup r4
           t5 == t4 \cup r5
           t6 == t5 \cup r6
           t7 == t6 \cup r7
           t8 == t7 \cup r8
           t9 == t8 \cup r9
           t10 == t9 \cup r10
           t11 == t10 \cup r11
           t12 == t11 \cup r12
           t13 == t12 \cup r13
           t14 == t13 \cup r14
<1>15. ThorchainStart("thorchain") = x14  BY DEF ThorchainStart
<1>16. ThorBegun("thorchain") = r2 \cup r4 \cup r6 \cup r8 \cup r10  BY DEF ThorBegun, ThorLast
<1> HIDE DEF r1, r2, r3, r4, r5, r6, r7, r8, r9, r10, r11, r12, r13, r14
<1>17. ThorBegun("thorchain") \subseteq t14  BY <1>16
<1> HIDE DEF a1, a2, a3, a4, a5, a6, a7, a8, a9, a10, a11, a12, a13, a14, x2, x3, x4, x5, x6, x7, x8, x9, x10, x11, x12, x13, x14, t2, t3, t4, t5, t6, t7, t8, t9, t10, t11, t12, t13, t14
<1>18. Script("thorchain", x2, 1, 2, t2)  BY <1>1, <1>2, ScriptConcat DEF x2, t2
<1>19. Script("thorchain", x3, 1, 2, t3)  BY <1>18, <1>3, ScriptConcat DEF x3, t3
<1>20. Script("thorchain", x4, 1, 2, t4)  BY <1>19, <1>4, ScriptConcat DEF x4, t4
<1>21. Script("thorchain", x5, 1, 5, t5)  BY <1>20, <1>5, ScriptConcat DEF x5, t5
<1>22. Script("thorchain", x6, 1, 5, t6)  BY <1>21, <1>6, ScriptConcat DEF x6, t6
<1>23. Script("thorchain", x7, 1, 6, t7)  BY <1>22, <1>7, ScriptConcat DEF x7, t7
<1>24. Script("thorchain", x8, 1, 6, t8)  BY <1>23, <1>8, ScriptConcat DEF x8, t8
<1>25. Script("thorchain", x9, 1, 7, t9)  BY <1>24, <1>9, ScriptConcat DEF x9, t9
<1>26. Script("thorchain", x10, 1, 7, t10)  BY <1>25, <1>10, ScriptConcat DEF x10, t10
<1>27. Script("thorchain", x11, 1, 8, t11)  BY <1>26, <1>11, ScriptConcat DEF x11, t11
<1>28. Script("thorchain", x12, 1, 8, t12)  BY <1>27, <1>12, ScriptConcat DEF x12, t12
<1>29. Script("thorchain", x13, 1, 9, t13)  BY <1>28, <1>13, ScriptConcat DEF x13, t13
<1>30. Script("thorchain", x14, 1, 9, t14)  BY <1>29, <1>14, ScriptConcat DEF x14, t14
<1> QED  BY <1>30, <1>15, <1>17, ScriptLess

\* Start of a fork.
LEMMA ForkScript ==
  ASSUME "thorchainFork" \in Families
  PROVE  Script("thorchainFork", ThorchainStart("thorchainFork"), 0, 9, ThorBegun("thorchainFork"))
<1>0. "thorchainFork" \in Families \cap ThorFamilies  BY DEF ThorFamilies
<1> DEFINE a1 == ThorNewNodes("thorchainFork")
           a2 == PrepNodes("thorchainFork")
           a3 == Do(<<"preGenesis">>)
           a4 == GenBzReplace
           a5 == Do(<<"modifyGenesis">>)
           a6 == Each(AllNodes, LAMBDA v : <<<<"writeGenesis", <<"thor", v>>>>>>)
           a7 == Do(<<"hashes">>)
           a8 == Each(UpTo(NumSidecars), LAMBDA v : Go(<<"side", v>>, Do(<<"create", "start">>)))
           a9 == Wait
           a10 == Each(AllNodes, LAMBDA v : Go(<<"thor", v>>, Do(<<"create">>)))
           a11 == Wait
           a12 == Each(AllNodes, LAMBDA v : Go(<<"thor", v>>, Do(<<"config">>) \o ThorStartContainer))
           a13 == Wait
           a14 == Do(<<"waitForBlocks">>)
           r1 == {}
           r2 == {<<1, <<"thor", v>>>> : v \in Validators}
           r3 == {}
           r4 == {<<3, <<"thor", v>>>> : v \in Validators}
           r5 == {}
           r6 == {<<5, <<"writeGenesis", <<"thor", v>>>>>> : v \in Nodes}
           r7 == {}
           r8 == {<<6, <<"side", v>>>> : v \in 1..NumSidecars}
           r9 == {}
           r10 == {<<7, <<"thor", v>>>> : v \in Nodes}
           r11 == {}
           r12 == {}
           r13 == {}
           r14 == {}
<1>1. Script("thorchainFork", a1, 0, 1, r1)
  BY MoreScript
<1>2. Script("thorchainFork", a2, 1, 2, r2)
  BY <1>0, PrepScript
<1>3. Script("thorchainFork", a3, 2, 3, r3)
  <2>1. <<2, <<"preGenesis">>, 3>> \in Turns("thorchainFork")  BY DEF Turns, ThorTurns, ThorFamilies
  <2> QED  BY <2>1, TurnScript
<1>4. Script("thorchainFork", a4, 3, 4, r4)
  BY ReplaceScript
<1>5. Script("thorchainFork", a5, 4, 5, r5)
  <2>1. <<4, <<"modifyGenesis">>, 5>> \in Turns("thorchainFork")  BY DEF Turns, ThorTurns, ThorFamilies
  <2> QED  BY <2>1, TurnScript
<1>6. Script("thorchainFork", a6, 5, 5, r6)
  <2>1. Stay("thorchainFork", a6, 5, r6)  BY <1>0, ThorGenesisFiles
  <2> HIDE DEF a6, r6
  <2> QED  BY <2>1, ScriptStay
<1>7. Script("thorchainFork", a7, 5, 6, r7)
  <2>1. <<5, <<"hashes">>, 6>> \in Turns("thorchainFork")  BY DEF Turns, ThorTurns, ThorFamilies
  <2> QED  BY <2>1, TurnScript
<1>8. Script("thorchainFork", a8, 6, 6, r8)
  <2>1. Stay("thorchainFork", a8, 6, r8)  BY <1>0, ThorSides
  <2> HIDE DEF a8, r8
  <2> QED  BY <2>1, ScriptStay
<1>9. Script("thorchainFork", a9, 6, 7, r9)
  <2>1. <<6, <<"wait">>, 7>> \in Turns("thorchainFork")  BY DEF Turns, ThorTurns, ThorFamilies
  <2>2. a9 = Do(<<"wait">>)  BY DoOne DEF Wait
  <2> QED  BY <2>1, <2>2, TurnScript
<1>10. Script("thorchainFork", a10, 7, 7, r10)
  <2>1. Stay("thorchainFork", a10, 7, r10)  BY <1>0, ThorCreates
  <2> HIDE DEF a10, r10
  <2> QED  BY <2>1, ScriptStay
<1>11. Script("thorchainFork", a11, 7, 8, r11)
  <2>1. <<7, <<"wait">>, 8>> \in Turns("thorchainFork")  BY DEF Turns, ThorTurns, ThorFamilies
  <2>2. a11 = Do(<<"wait">>)  BY DoOne DEF Wait
  <2> QED  BY <2>1, <2>2, TurnScript
<1>12. Script("thorchainFork", a12, 8, 8, r12)
  <2>1. Stay("thorchainFork", a12, 8, r12)  BY <1>0, ThorRuns, StayLess
  <2> HIDE DEF a12, r12
  <2> QED  BY <2>1, ScriptStay
<1>13. Script("thorchainFork", a13, 8, 9, r13)
  <2>1. <<8, <<"wait">>, 9>> \in Turns("thorchainFork")  BY DEF Turns, ThorTurns, ThorFamilies
  <2>2. a13 = Do(<<"wait">>)  BY DoOne DEF Wait
  <2> QED  BY <2>1, <2>2, TurnScript
<1>14. Script("thorchainFork", a14, 9, 9, r14)
  <2>1. MainMay("thorchainFork", 9, <<"waitForBlocks">>) /\ "waitForBlocks" \in Calls \cup {"setRunning"}  BY DEF MainMay, Calls, ThorFamilies
  <2> QED  BY <2>1, CallScript, Nothing
<1> DEFINE x1 == a1
           x2 == x1 \o a2
           x3 == x2 \o a3
           x4 == x3 \o a4
           x5 == x4 \o a5
           x6 == x5 \o a6
           x7 == x6 \o a7
           x8 == x7 \o a8
           x9 == x8 \o a9
           x10 == x9 \o a10
           x11 == x10 \o a11
           x12 == x11 \o a12
           x13 == x12 \o a13
           x14 == x13 \o a14
           t1 == r1
           t2 == t1 \cup r2
           t3 == t2 \cup r3
           t4 == t3 \cup r4
           t5 == t4 \cup r5
           t6 == t5 \cup r6
           t7 == t6 \cup r7
           t8 == t7 \cup r8
           t9 == t8 \cup r9
           t10 == t9 \cup r10
           t11 == t10 \cup r11
           t12 == t11 \cup r12
           t13 == t12 \cup r13
           t14 == t13 \cup r14
<1>15. ThorchainStart("thorchainFork") = x14  BY DEF ThorchainStart
<1>16. ThorBegun("thorchainFork") = r2 \cup r4 \cup r6 \cup r8 \cup r10  BY DEF ThorBegun, ThorLast
<1> HIDE DEF r1, r2, r3, r4, r5, r6, r7, r8, r9, r10, r11, r12, r13, r14
<1>17. ThorBegun("thorchainFork") \subseteq t14  BY <1>16
<1> HIDE DEF a1, a2, a3, a4, a5, a6, a7, a8, a9, a10, a11, a12, a13, a14, x2, x3, x4, x5, x6, x7, x8, x9, x10, x11, x12, x13, x14, t2, t3, t4, t5, t6, t7, t8, t9, t10, t11, t12, t13, t14
<1>18. Script("thorchainFork", x2, 0, 2, t2)  BY <1>1, <1>2, ScriptConcat DEF x2, t2
<1>19. Script("thorchainFork", x3, 0, 3, t3)  BY <1>18, <1>3, ScriptConcat DEF x3, t3
<1>20. Script("thorchainFork", x4, 0, 4, t4)  BY <1>19, <1>4, ScriptConcat DEF x4, t4
<1>21. Script("thorchainFork", x5, 0, 5, t5)  BY <1>20, <1>5, ScriptConcat DEF x5, t5
<1>22. Script("thorchainFork", x6, 0, 5, t6)  BY <1>21, <1>6, ScriptConcat DEF x6, t6
<1>23. Script("thorchainFork", x7, 0, 6, t7)  BY <1>22, <1>7, ScriptConcat DEF x7, t7
<1>24. Script("thorchainFork", x8, 0, 6, t8)  BY <1>23, <1>8, ScriptConcat DEF x8, t8
<1>25. Script("thorchainFork", x9, 0, 7, t9)  BY <1>24, <1>9, ScriptConcat DEF x9, t9
<1>26. Script("thorchainFork", x10, 0, 7, t10)  BY <1>25, <1>10, ScriptConcat DEF x10, t10
<1>27. Script("thorchainFork", x11, 0, 8, t11)  BY <1>26, <1>11, ScriptConcat DEF x11, t11
<1>28. Script("thorchainFork", x12, 0, 8, t12)  BY <1>27, <1>12, ScriptConcat DEF x12, t12
<1>29. Script("thorchainFork", x13, 0, 9, t13)  BY <1>28, <1>13, ScriptConcat DEF x13, t13
<1>30. Script("thorchainFork", x14, 0, 9, t14)  BY <1>29, <1>14, ScriptConcat DEF x14, t14
<1> QED  BY <1>30, <1>15, <1>17, ScriptLess

----------------------------------------------------------------------------
(* The beginning. *)

\* What Start has Main do and begin.
Begun(f) ==
  CASE f = "penumbra" -> PenumbraBegun \cup NodesBegun
    [] f = "namada" -> NamadaBegun
    [] f = "polkadot" -> PolkadotBegun
    [] f \in ThorFamilies -> ThorBegun(f)

\* The whole of Start leads from the first phase to the last one.
LEMMA StartScript ==
  ASSUME NEW f \in Families
  PROVE  Script(f, Start(f), FirstPhase(f), LastPhase(f), Begun(f))
<1>1. f \in {"penumbra", "namada", "polkadot", "thorchain", "thorchainFork"}  BY StartAssumption
<1>2. CASE f = "penumbra"
  <2>1. Start(f) = PenumbraStart /\ FirstPhase(f) = 1 /\ LastPhase(f) = 11 /\ Begun(f) = PenumbraBegun \cup NodesBegun
    BY <1>2 DEF Start, FirstPhase, LastPhase, Begun, ThorFamilies
  <2> QED  BY <1>2, <2>1, PenumbraScript
<1>3. CASE f = "namada"
  <2>1. Start(f) = NamadaStart /\ FirstPhase(f) = 2 /\ LastPhase(f) = 9 /\ Begun(f) = NamadaBegun
    BY <1>3 DEF Start, FirstPhase, LastPhase, Begun, ThorFamilies
  <2> QED  BY <1>3, <2>1, NamadaScript
<1>4. CASE f = "polkadot"
  <2>1. Start(f) = PolkadotStart /\ FirstPhase(f) = 0 /\ LastPhase(f) = 11 /\ Begun(f) = PolkadotBegun
    BY <1>4 DEF Start, FirstPhase, LastPhase, Begun, ThorFamilies
  <2> QED  BY <1>4, <2>1, PolkadotScript
<1>5. CASE f = "thorchain"
  <2>1. Start(f) = ThorchainStart("thorchain") /\ FirstPhase(f) = 1 /\ LastPhase(f) = 9 /\ Begun(f) = ThorBegun("thorchain")
    BY <1>5 DEF Start, FirstPhase, LastPhase, Begun, ThorFamilies
  <2> QED  BY <1>5, <2>1, ThorScript
<1>6. CASE f = "thorchainFork"
  <2>1. /\ Start(f) = ThorchainStart("thorchainFork") /\ FirstPhase(f) = 0 /\ LastPhase(f) = 9
        /\ Begun(f) = ThorBegun("thorchainFork")
    BY <1>6 DEF Start, FirstPhase, LastPhase, Begun, ThorFamilies
  <2> QED  BY <1>6, <2>1, ForkScript
<1> QED  BY <1>1, <1>2, <1>3, <1>4, <1>5, <1>6

\* A container is named after what it is and its index.
LEMMA Named ==
  ASSUME NEW u \in Containers
  PROVE  /\ u[1] \in {"tm", "app"} => u \in {"tm", "app"} \X Nodes
         /\ u[1] = "val" => u = <<"val", u[2]>> /\ u[2] \in Validators
         /\ u[1] = "full" => u = <<"full", u[2]>> /\ u[2] \in 1..NumFullNodes
         /\ u[1] = "para" => u \in ParaNodes
         /\ u[1] = "side" => u = <<"side", u[2]>> /\ u[2] \in 1..NumSidecars
<1>1. PICK f \in Families : u \in ContainersOf(f)  BY DEF Containers
<1>2. f \in {"penumbra", "namada", "polkadot", "thorchain", "thorchainFork"}  BY StartAssumption
<1>3. CASE f = "penumbra"
  <2>1. u \in ({"tm", "app"} \X Nodes) \cup ({"client"} \X Validators)  BY <1>1, <1>3 DEF ContainersOf
  <2> QED  BY <2>1
<1>4. CASE f = "namada"
  <2>1. u \in ({"val"} \X Validators) \cup ({"full"} \X (1..NumFullNodes))  BY <1>1, <1>4 DEF ContainersOf
  <2> QED  BY <2>1
<1>5. CASE f = "polkadot"
  <2>1. u \in ({"relay"} \X (1..NumRelay)) \cup ParaNodes  BY <1>1, <1>5 DEF ContainersOf, ParaNodes
  <2>2. CASE u \in {"relay"} \X (1..NumRelay)  BY <2>2
  <2>3. CASE u \in ParaNodes
    <3>1. PICK k \in Paras : \E j \in 1..Parachains[k] : u = <<"para", k, j>>  BY <2>3 DEF ParaNodes
    <3>2. u[1] = "para"  BY <3>1
    <3> QED  BY <2>3, <3>2
  <2> QED  BY <2>1, <2>2, <2>3
<1>6. CASE f \in ThorFamilies
  <2>1. u \in ({"thor"} \X Nodes) \cup ({"side"} \X (1..NumSidecars))  BY <1>1, <1>6 DEF ContainersOf, ThorFamilies
  <2> QED  BY <2>1
<1> QED  BY <1>2, <1>3, <1>4, <1>5, <1>6 DEF ThorFamilies

\* Whatever a phase needs of a goroutine is begun in it.
LEMMA MustBegun ==
  ASSUME NEW f \in Families, NEW q \in 0..11, NEW u \in Containers, NEW st, Must(f, q, u, st)
  PROVE  <<q, u>> \in Begun(f)
<1>1. f \in {"penumbra", "namada", "polkadot", "thorchain", "thorchainFork"}  BY StartAssumption
<1>2. CASE f = "penumbra"
  <2>1. \/ q \in {1, 3} /\ u[1] = "tm" /\ u[2] \in Validators
        \/ q \in {7, 8} /\ u[1] \in {"tm", "app"}
    BY <1>2 DEF Must, ThorFamilies
  <2>2. Begun(f) = PenumbraBegun \cup NodesBegun  BY <1>2 DEF Begun, ThorFamilies
  <2>3. CASE q \in {1, 3} /\ u[1] = "tm" /\ u[2] \in Validators
    <3>1. u = <<"tm", u[2]>>  BY <2>3, ContainerTags
    <3>2. <<q, u>> \in PenumbraBegun  BY <2>3, <3>1 DEF PenumbraBegun
    <3> QED  BY <2>2, <3>2
  <2>4. CASE q \in {7, 8} /\ u[1] \in {"tm", "app"}
    <3>1. u \in {"tm", "app"} \X Nodes  BY <2>4, Named
    <3>2. <<q, u>> \in NodesBegun  BY <2>4, <3>1 DEF NodesBegun
    <3> QED  BY <2>2, <3>2
  <2> QED  BY <2>1, <2>3, <2>4
<1>3. CASE f = "namada"
  <2>1. q = 7 /\ u[1] \in {"val", "full"}  BY <1>3 DEF Must, ThorFamilies
  <2>2. Begun(f) = NamadaBegun  BY <1>3 DEF Begun, ThorFamilies
  <2>3. CASE u[1] = "val"
    <3>1. u = <<"val", u[2]>> /\ u[2] \in Validators  BY <2>3, Named
    <3> QED  BY <2>1, <2>2, <3>1 DEF NamadaBegun
  <2>4. CASE u[1] = "full"
    <3>1. u = <<"full", u[2]>> /\ u[2] \in 1..NumFullNodes  BY <2>4, Named
    <3> QED  BY <2>1, <2>2, <3>1 DEF NamadaBegun
  <2> QED  BY <2>1, <2>3, <2>4
<1>4. CASE f = "polkadot"
  <2>1. \/ q \in {0, 10} /\ u[1] = "para"
        \/ q = 8 /\ u[1] = "relay"
    BY <1>4 DEF Must, ThorFamilies
  <2>2. Begun(f) = PolkadotBegun  BY <1>4 DEF Begun, ThorFamilies
  <2>3. CASE q \in {0, 10} /\ u[1] = "para"
    <3>1. u \in ParaNodes  BY <2>3, Named
    <3> QED  BY <2>2, <2>3, <3>1 DEF PolkadotBegun
  <2>4. CASE q = 8 /\ u[1] = "relay"
    <3>1. u = <<"relay", u[2]>> /\ u[2] \in 1..NumRelay  BY <2>4, ContainerTags
    <3> QED  BY <2>2, <2>4, <3>1 DEF PolkadotBegun
  <2> QED  BY <2>1, <2>3, <2>4
<1>5. CASE f \in ThorFamilies
  <2>1. \/ f = "thorchain" /\ q = 1 /\ u = <<"thor", 1>>
        \/ f = "thorchainFork" /\ q = 3 /\ u[1] = "thor" /\ u[2] \in Validators
        \/ q = 6 /\ u[1] = "side"
        \/ q = 7 /\ u[1] = "thor"
    BY <1>5 DEF Must, ThorFamilies
  <2>2. Begun(f) = ThorBegun(f)  BY <1>5 DEF Begun, ThorFamilies
  <2>3. CASE f = "thorchain" /\ q = 1 /\ u = <<"thor", 1>>
    <3>1. 1 \in Validators  BY ArgsHave
    <3>2. <<q, u>> \in {<<1, <<"thor", v>>>> : v \in Validators}  BY <2>3, <3>1
    <3> QED  BY <2>2, <3>2 DEF ThorBegun
  <2>4. CASE f = "thorchainFork" /\ q = 3 /\ u[1] = "thor" /\ u[2] \in Validators
    <3>1. u = <<"thor", u[2]>>  BY <2>4, ContainerTags
    <3>2. <<q, u>> \in {<<3, <<"thor", v>>>> : v \in Validators}  BY <2>4, <3>1
    <3> QED  BY <2>2, <2>4, <3>2 DEF ThorBegun
  <2>5. CASE q = 6 /\ u[1] = "side"
    <3>1. u = <<"side", u[2]>> /\ u[2] \in 1..NumSidecars  BY <2>5, Named
    <3>2. <<q, u>> \in ThorLast  BY <2>5, <3>1 DEF ThorLast
    <3> QED  BY <2>2, <3>2 DEF ThorBegun
  <2>6. CASE q = 7 /\ u[1] = "thor"
    <3>1. u = <<"thor", u[2]>> /\ u[2] \in Nodes  BY <2>6, ContainerTags
    <3>2. <<q, u>> \in ThorLast  BY <2>6, <3>1 DEF ThorLast
    <3> QED  BY <2>2, <3>2 DEF ThorBegun
  <2> QED  BY <2>1, <2>3, <2>4, <2>5, <2>6
<1> QED  BY <1>1, <1>2, <1>3, <1>4, <1>5 DEF ThorFamilies

\* ... and whatever it needs of Main is done in it.
LEMMA MainMustBegun ==
  ASSUME NEW f \in Families, NEW q \in 0..11, NEW st, MainMust(f, q, st)
  PROVE  <<q, st>> \in Begun(f)
<1>1. f \in {"penumbra", "namada", "polkadot", "thorchain", "thorchainFork"}  BY StartAssumption
<1>2. MainMay(f, q, st) /\ st[1] \in {"append", "define", "fund", "export", "writeGenesis"}  BY DEF MainMust
<1>3. CASE f = "penumbra"
  <2>1. \/ q = 1 /\ st \in {<<"append", w>> : w \in Range(Wallets)}
        \/ q = 5 /\ st \in {<<"writeGenesis", <<"tm", n>>>> : n \in Nodes}
    <3>1. <<"lock">>[1] = "lock"  OBVIOUS
    <3> QED  BY <1>2, <1>3, <3>1 DEF MainMay, ThorFamilies
  <2>2. Begun(f) = PenumbraBegun \cup NodesBegun  BY <1>3 DEF Begun, ThorFamilies
  <2>3. CASE q = 1 /\ st \in {<<"append", w>> : w \in Range(Wallets)}
    BY <2>2, <2>3 DEF PenumbraBegun
  <2>4. CASE q = 5 /\ st \in {<<"writeGenesis", <<"tm", n>>>> : n \in Nodes}
    BY <2>2, <2>4 DEF NodesBegun
  <2> QED  BY <2>1, <2>3, <2>4
<1>4. CASE f = "namada"
  <2>1. /\ q = 2
        /\ \/ st \in {<<"define", v>> : v \in Validators}
           \/ st \in {<<"fund", w>> : w \in Validators \cup {GasPayer} \cup Range(Wallets)}
    <3>1. \A n \in {"templates", "wasms", "transactions", "balances", "accounts", "parameters", "waitForBlocks", "setRunning"} :
            <<n>>[1] \notin {"append", "define", "fund", "export", "writeGenesis"}
      OBVIOUS
    <3> QED  BY <1>2, <1>4, <3>1 DEF MainMay, ThorFamilies
  <2>2. Begun(f) = NamadaBegun  BY <1>4 DEF Begun, ThorFamilies
  <2> QED  BY <2>1, <2>2 DEF NamadaBegun
<1>5. CASE f = "polkadot"
  <2>1. /\ q = 2
        /\ \/ st \in {<<"define", i>> : i \in 1..NumRelay}
           \/ st \in {<<"fund", w>> : w \in (1..NumRelay) \cup Range(Wallets)}
           \/ st \in {<<"export", i>> : i \in Paras}
    <3>1. \A n \in {"parachainGenesis", "chainSpec", "editSpec"} :
            <<n>>[1] \notin {"append", "define", "fund", "export", "writeGenesis"}
      OBVIOUS
    <3> QED  BY <1>2, <1>5, <3>1 DEF MainMay, ThorFamilies
  <2>2. Begun(f) = PolkadotBegun  BY <1>5 DEF Begun, ThorFamilies
  <2>3. CASE st \in {<<"define", i>> : i \in 1..NumRelay}
    <3>1. st \in {"define", "fund"} \X (1..NumRelay)  BY <2>3
    <3> QED  BY <2>1, <2>2, <3>1 DEF PolkadotBegun
  <2>4. CASE st \in {<<"fund", w>> : w \in (1..NumRelay) \cup Range(Wallets)}
    <3>1. st \in {"define", "fund"} \X (1..NumRelay) \/ \E w \in Range(Wallets) : st = <<"fund", w>>  BY <2>4
    <3> QED  BY <2>1, <2>2, <3>1 DEF PolkadotBegun
  <2>5. CASE st \in {<<"export", i>> : i \in Paras}
    BY <2>1, <2>2, <2>5 DEF PolkadotBegun
  <2> QED  BY <2>1, <2>3, <2>4, <2>5
<1>6. CASE f \in ThorFamilies
  <2>1. \/ /\ q = 2 /\ f = "thorchain"
           /\ \/ st \in {<<"define", v>> : v \in 2..NumValidators}
              \/ st \in {<<"fund", w>> : w \in (2..NumValidators) \cup Range(Wallets) \cup {Bond}}
        \/ q = 5 /\ st \in {<<"writeGenesis", <<"thor", n>>>> : n \in Nodes}
    <3>1. \A n \in {"preGenesis", "address", "readFile", "waitForBlocks"} :
            <<n>>[1] \notin {"append", "define", "fund", "export", "writeGenesis"}
      OBVIOUS
    <3> QED  BY <1>2, <1>6, <3>1 DEF MainMay, ThorFamilies
  <2>2. Begun(f) = ThorBegun(f)  BY <1>6 DEF Begun, ThorFamilies
  <2>3. CASE q = 5 /\ st \in {<<"writeGenesis", <<"thor", n>>>> : n \in Nodes}
    <3>1. <<q, st>> \in ThorLast  BY <2>3 DEF ThorLast
    <3> QED  BY <2>2, <3>1 DEF ThorBegun
  <2>4. CASE q = 2 /\ f = "thorchain" /\ st \in {<<"define", v>> : v \in 2..NumValidators}
    <3>1. st \in {"define", "fund"} \X (2..NumValidators)  BY <2>4
    <3>2. <<q, st>> \in ThorCollected  BY <2>4, <3>1 DEF ThorCollected
    <3> QED  BY <2>2, <2>4, <3>2 DEF ThorBegun
  <2>5. CASE /\ q = 2 /\ f = "thorchain"
             /\ st \in {<<"fund", w>> : w \in (2..NumValidators) \cup Range(Wallets) \cup {Bond}}
    <3>1. \/ st \in {"define", "fund"} \X (2..NumValidators)
          \/ \E w \in Range(Wallets) : st = <<"fund", w>>
          \/ st = <<"fund", Bond>>
      BY <2>5
    <3>2. <<q, st>> \in ThorCollected  BY <2>5, <3>1 DEF ThorCollected
    <3> QED  BY <2>2, <2>5, <3>2 DEF ThorBegun
  <2> QED  BY <2>1, <2>3, <2>4, <2>5
<1> QED  BY <1>1, <1>3, <1>4, <1>5, <1>6 DEF ThorFamilies

\* Start begins in its first phase, with everything before it.
LEMMA Starts ==
  ASSUME Init
  PROVE  \E p, R : StartInv(p, R)
<1> DEFINE p == FirstPhase(family)
           R == Begun(family)
<1>1. family \in Families /\ family \in {"penumbra", "namada", "polkadot", "thorchain", "thorchainFork"}
  BY StartAssumption DEF Init
<1>2. p \in 0..2  BY <1>1 DEF FirstPhase
<1>3. Main \in Procs /\ Main \notin Containers /\ Containers \subseteq Procs /\ \A t \in Procs : t = Main \/ t \in Containers
  BY Members
<1>4. DOMAIN pc = Procs /\ pc[Main] = Start(family) /\ \A u \in Containers : pc[u] = <<>>
  BY <1>3 DEF Init
<1>5. Script(family, pc[Main], p, LastPhase(family), R)  BY <1>1, <1>4, StartScript
<1> HIDE DEF p, R
<1>6. Types  BY <1>1, <1>4 DEF Types, Init
<1>7. /\ \A q \in 0..11, u \in Containers, st \in Steps : Must(family, q, u, st) => <<q, u>> \in R
      /\ \A q \in 0..11, st \in Steps : MainMust(family, q, st) => <<q, st>> \in R
  BY <1>1, MustBegun, MainMustBegun DEF R
<1>8. MainLeft(p, R)
  <2>1. result = "pending" /\ p \in 0..11  BY <1>2 DEF Init
  <2>2. Leads(family, pc[Main], p, LastPhase(family), R) /\ Linked(pc[Main])  BY <1>5 DEF Script, Closed
  <2>3. Foreseen(family, p, R)  BY <1>7 DEF Foreseen
  <2> QED  BY <2>1, <2>2, <2>3 DEF MainLeft
<1>9. Left(p)  BY <1>4, EmptyScript DEF Left
<1>10. Fresh(p, R)  BY <1>4 DEF Fresh
<1>11. \A q \in 0..11, u \in Containers, st \in Steps : Must(family, q, u, st) => q >= p
  <2> SUFFICES ASSUME NEW q \in 0..11, NEW u \in Containers, NEW st \in Steps, Must(family, q, u, st) PROVE q >= p
    OBVIOUS
  <2> QED  BY <1>1 DEF Must, p, FirstPhase, ThorFamilies
<1>12. \A q \in 0..11, st \in Steps : MainMust(family, q, st) => q >= p
  <2> SUFFICES ASSUME NEW q \in 0..11, NEW st \in Steps, MainMust(family, q, st) PROVE q >= p
    OBVIOUS
  <2> QED  BY <1>1 DEF MainMust, MainMay, p, FirstPhase, ThorFamilies
<1>13. ItemsOK(p, R)
  <2> SUFFICES ASSUME NEW q \in 0..11, NEW u \in Containers, NEW st \in Steps, Must(family, q, u, st)
               PROVE  /\ ~(q < p)
                      /\ q = p => Pending(p, R, u, st)
    BY DEF ItemsOK
  <2>1. q >= p /\ <<q, u>> \in R  BY <1>7, <1>11
  <2> QED  BY <1>2, <1>4, <2>1 DEF Pending
<1>14. MainItemsOK(p, R)
  <2> SUFFICES ASSUME NEW q \in 0..11, NEW st \in Steps, MainMust(family, q, st)
               PROVE  /\ ~(q < p)
                      /\ q = p => <<p, st>> \in R
    BY DEF MainItemsOK
  <2>1. q >= p /\ <<q, st>> \in R  BY <1>7, <1>12
  <2> QED  BY <1>2, <2>1
<1>15. MutexOK
  <2> SUFFICES ASSUME NEW t \in Procs PROVE ~At(t, {"append"}) /\ ~At(t, {"replace"})
    BY DEF MutexOK
  <2>1. CASE t = Main
    <3>1. pc[Main] # <<>> => pc[Main][1][1] \notin {"append", "replace"}  BY <1>5 DEF Script, Closed
    <3> QED  BY <2>1, <3>1 DEF At, Busy, Name
  <2>2. CASE t \in Containers  BY <1>4, <2>2 DEF At, Busy
  <2> QED  BY <1>3, <2>1, <2>2
<1>16. Within  BY DEF Within, Init
<1>17. GenesisOK(p)  BY <1>2 DEF GenesisOK
<1>18. BufOK
  <2>1. \A u \in Containers, x \in {<<"writeArchive">>, <<"writeKey">>} : ~In(x, pc[u])  BY <1>4, EmptyScript
  <2> QED  BY <2>1 DEF BufOK
<1>19. ContainersOK(p)  BY DEF ContainersOK, Init
<1>20. QuietOK(p) /\ NilOK(p)  BY DEF QuietOK, NilOK, Init
<1> QED  BY <1>6, <1>8, <1>9, <1>10, <1>13, <1>14, <1>15, <1>16, <1>17, <1>18, <1>19, <1>20 DEF StartInv

----------------------------------------------------------------------------
(* The theorems. *)

\* The inductive invariant: Start is in some phase, with some of it left to Main.
IInv == \E p, R : StartInv(p, R)

\* Whatever the interleaving of the goroutines and whichever calls fail, Start is in one of its
\* phases: every goroutine has only steps of that phase left, and all earlier phases have done
\* their part.
THEOREM StartIsInAPhase == Spec => []IInv
<1>1. Init => IInv  BY Starts DEF IInv
<1>2. IInv /\ [Next]_vars => IInv'
  <2> SUFFICES ASSUME IInv, [Next]_vars PROVE IInv'  OBVIOUS
  <2>1. PICK p, R : StartInv(p, R)  BY DEF IInv
  <2>2. \E r, T : StartInv(r, T)'  BY <2>1, Inductive
  <2> QED  BY <2>2 DEF IInv
<1> QED  BY <1>1, <1>2, PTL DEF Spec

\* Whose containers are whose.
LEMMA FamilyOf ==
  ASSUME NEW f \in Families, NEW u \in ContainersOf(f)
  PROVE  /\ u \in Containers
         /\ u[1] \in {"tm", "app", "client"} <=> f = "penumbra"
         /\ u[1] \in {"val", "full"} <=> f = "namada"
         /\ u[1] \in {"relay", "para"} <=> f = "polkadot"
         /\ u[1] \in {"thor", "side"} <=> f \in ThorFamilies
<1>1. f \in {"penumbra", "namada", "polkadot", "thorchain", "thorchainFork"}  BY StartAssumption
<1>2. u \in Containers  BY Members
<1>3. CASE f = "penumbra"
  <2>1. u \in ({"tm", "app"} \X Nodes) \cup ({"client"} \X Validators)  BY <1>3 DEF ContainersOf
  <2>2. u[1] \in {"tm", "app", "client"}  BY <2>1
  <2> QED  BY <1>2, <1>3, <2>2 DEF ThorFamilies
<1>4. CASE f = "namada"
  <2>1. u \in ({"val"} \X Validators) \cup ({"full"} \X (1..NumFullNodes))  BY <1>4 DEF ContainersOf
  <2>2. u[1] \in {"val", "full"}  BY <2>1
  <2> QED  BY <1>2, <1>4, <2>2 DEF ThorFamilies
<1>5. CASE f = "polkadot"
  <2>1. u \in ({"relay"} \X (1..NumRelay)) \cup ParaNodes  BY <1>5 DEF ContainersOf, ParaNodes
  <2>2. u \in ParaNodes => u[1] = "para"
    <3> SUFFICES ASSUME u \in ParaNodes PROVE u[1] = "para"  OBVIOUS
    <3>1. PICK k \in Paras : \E j \in 1..Parachains[k] : u = <<"para", k, j>>  BY DEF ParaNodes
    <3> QED  BY <3>1
  <2>3. u \in {"relay"} \X (1..NumRelay) => u[1] = "relay"  OBVIOUS
  <2>4. u[1] \in {"relay", "para"}  BY <2>1, <2>2, <2>3
  <2> QED  BY <1>2, <1>5, <2>4 DEF ThorFamilies
<1>6. CASE f \in ThorFamilies
  <2>1. u \in ({"thor"} \X Nodes) \cup ({"side"} \X (1..NumSidecars))  BY <1>6 DEF ContainersOf, ThorFamilies
  <2>2. u[1] \in {"thor", "side"}  BY <2>1
  <2> QED  BY <1>2, <1>6, <2>2 DEF ThorFamilies
<1> QED  BY <1>1, <1>3, <1>4, <1>5, <1>6 DEF ThorFamilies

\* What a phase that is over has done.
LEMMA DoneBefore ==
  ASSUME NEW p, NEW R, StartInv(p, R), NEW q \in 0..11, q < p, NEW u \in Containers,
         NEW st \in Steps, Must(family, q, u, st)
  PROVE  Effect(u, st)
BY DEF StartInv, ItemsOK

\* Steps that the properties look at.
LEMMA PlainSteps ==
  <<"writeKey">> \in Steps /\ <<"create">> \in Steps /\ <<"start">> \in Steps
  /\ \A a \in Args : <<"copySpec", a>> \in Steps
<1>1. {"writeKey", "create", "start", "copySpec"} \subseteq Names  BY DEF Names
<1> QED  BY <1>1, InSteps

\* Start's genesis is one of those it may be.
LEMMA CompleteIsOne == CompleteGenesis \in Geneses
<1> DEFINE C == CompleteGenesis
           A == IF family = "thorchainFork" THEN SUBSET Range(Wallets) ELSE {C.allocations}
<1>1. C = [C EXCEPT !.allocations = C.allocations]  BY DEF CompleteGenesis
<1>2. C.allocations \in A  BY DEF CompleteGenesis
<1>3. Geneses = {[C EXCEPT !.allocations = a] : a \in A}  BY DEF Geneses
<1> HIDE DEF C, A
<1>4. C \in Geneses  BY <1>1, <1>2, <1>3
<1> QED  BY <1>4 DEF C

\* In every phase, what runs runs from its genesis.
LEMMA Genesis ==
  ASSUME NEW p, NEW R, StartInv(p, R)
  PROVE  RunsWithItsGenesis
<1>1. /\ family \in Families /\ p \in 0..11
      /\ \A u \in Containers : container[u] = "running" =>
           /\ container[u] # "none" /\ u \in ContainersOf(family)
           /\ p >= Moment(family, u, "start")
           /\ u[1] \in {"tm", "val", "full", "relay", "para", "thor"} => file[u] = CompleteGenesis
  BY DEF StartInv, Types, MainLeft, ContainersOK
<1> SUFFICES ASSUME NEW u \in Containers, container[u] = "running"
             PROVE  /\ u[1] \in {"tm", "val", "full", "relay", "para", "thor"} => file[u] \in Geneses
                    /\ u[1] = "val" \/ (u[1] = "tm" /\ u[2] \in Validators) => key[u] = Key("genesis", u[2])
                    /\ u[1] = "para" => spec[u] = u[2]
  BY DEF RunsWithItsGenesis
<1>2. u \in ContainersOf(family) /\ p >= Moment(family, u, "start")  BY <1>1
<1>6. u[1] \in {"tm", "val", "full", "relay", "para", "thor"} => file[u] \in Geneses  BY <1>1, CompleteIsOne
<1>3. CASE u[1] = "val"
  <2>1. family = "namada"  BY <1>1, <1>2, <1>3, FamilyOf
  <2>2. p >= 8  BY <1>2, <1>3 DEF Moment
  <2>3. Must(family, 7, u, <<"writeKey">>)  BY <1>3, <2>1 DEF Must
  <2>4. 7 \in 0..11 /\ 7 < p  BY <1>1, <2>2
  <2>5. Effect(u, <<"writeKey">>)  BY <2>3, <2>4, DoneBefore, PlainSteps
  <2> QED  BY <1>3, <1>6, <2>5 DEF Effect
<1>4. CASE u[1] = "tm" /\ u[2] \in Validators
  <2>1. family = "penumbra"  BY <1>1, <1>2, <1>4, FamilyOf
  <2>2. p >= 8  BY <1>2, <1>4 DEF Moment
  <2>3. Must(family, 3, u, <<"writeKey">>)  BY <1>4, <2>1 DEF Must
  <2>4. 3 \in 0..11 /\ 3 < p  BY <1>1, <2>2
  <2>5. Effect(u, <<"writeKey">>)  BY <2>3, <2>4, DoneBefore, PlainSteps
  <2> QED  BY <1>4, <1>6, <2>5 DEF Effect
<1>5. CASE u[1] = "para"
  <2>1. family = "polkadot"  BY <1>1, <1>2, <1>5, FamilyOf
  <2>2. p >= 10  BY <1>2, <1>5 DEF Moment
  <2>3. Must(family, 0, u, <<"copySpec", u[2]>>)  BY <1>5, <2>1 DEF Must
  <2>4. 0 \in 0..11 /\ 0 < p  BY <1>1, <2>2
  <2>5. <<"copySpec", u[2]>> \in Steps  BY <1>5, ContainerTags, ArgsHave, PlainSteps
  <2>6. Effect(u, <<"copySpec", u[2]>>)  BY <2>3, <2>4, <2>5, DoneBefore
  <2> QED  BY <1>5, <1>6, <2>6 DEF Effect
<1> QED  BY <1>3, <1>4, <1>5, <1>6

\* In every phase, what exists has what it needs.
LEMMA Order ==
  ASSUME NEW p, NEW R, StartInv(p, R)
  PROVE  StartsAfterItsNeeds
<1>1. /\ family \in Families /\ p \in 0..11
      /\ \A u \in Containers : container[u] # "none" => u \in ContainersOf(family) /\ p >= Moment(family, u, "create")
      /\ \A u \in Containers : container[u] \in {"running", "exited"} => p >= Moment(family, u, "start")
  BY DEF StartInv, Types, MainLeft, ContainersOK
<1>2. ASSUME NEW u \in Containers, container[u] # "none", NEW w \in Needs(u)
      PROVE  container[w] = "running"
  <2>1. u \in ContainersOf(family) /\ p >= Moment(family, u, "create")  BY <1>1, <1>2
  <2>2. CASE u[1] = "para"
    <3>1. family = "polkadot" /\ p >= 10  BY <1>1, <2>1, <2>2, FamilyOf DEF Moment
    <3>2. w \in {"relay"} \X (1..NumRelay)  BY <1>2, <2>2 DEF Needs
    <3>3. w \in Containers /\ w[1] = "relay"  BY <1>1, <3>1, <3>2, Boxes
    <3>4. Must(family, 8, w, <<"start">>)  BY <3>1, <3>3 DEF Must
    <3>5. 8 \in 0..11 /\ 8 < p  BY <1>1, <3>1
    <3>6. Effect(w, <<"start">>)  BY <3>3, <3>4, <3>5, DoneBefore, PlainSteps
    <3> QED  BY <3>1, <3>6 DEF Effect, ThorFamilies
  <2>3. CASE u[1] = "client"
    <3>1. family = "penumbra" /\ p >= 10  BY <1>1, <2>1, <2>3, FamilyOf DEF Moment
    <3>2. w \in {"tm", "app"} \X Nodes  BY <1>2, <2>3 DEF Needs
    <3>3. w \in Containers /\ w[1] \in {"tm", "app"}
      <4>1. PICK k \in Nodes : w = <<"tm", k>> \/ w = <<"app", k>>  BY <3>2
      <4>2. <<"tm", k>> \in Containers /\ <<"app", k>> \in Containers  BY <1>1, <3>1, Boxes
      <4>3. <<"tm", k>>[1] = "tm" /\ <<"app", k>>[1] = "app"  OBVIOUS
      <4>4. CASE w = <<"tm", k>>  BY <4>2, <4>3, <4>4
      <4>5. CASE w = <<"app", k>>  BY <4>2, <4>3, <4>5
      <4> QED  BY <4>1, <4>4, <4>5
    <3>4. Must(family, 8, w, <<"start">>)  BY <3>1, <3>3 DEF Must
    <3>5. 8 \in 0..11 /\ 8 < p  BY <1>1, <3>1
    <3>6. Effect(w, <<"start">>)  BY <3>3, <3>4, <3>5, DoneBefore, PlainSteps
    <3> QED  BY <3>1, <3>6 DEF Effect, ThorFamilies
  <2>4. CASE u[1] = "thor"
    <3>1. family \in ThorFamilies /\ p >= 7  BY <1>1, <2>1, <2>4, FamilyOf DEF Moment
    <3>2. w \in {"side"} \X (1..NumSidecars)  BY <1>2, <2>4 DEF Needs
    <3>3. w \in Containers /\ w[1] = "side"  BY <1>1, <3>1, <3>2, Boxes
    <3>4. Must(family, 6, w, <<"start">>)  BY <3>1, <3>3 DEF Must
    <3>5. 6 \in 0..11 /\ 6 < p  BY <1>1, <3>1
    <3>6. Effect(w, <<"start">>)  BY <3>3, <3>4, <3>5, DoneBefore, PlainSteps
    <3> QED  BY <3>1, <3>6 DEF Effect, ThorFamilies
  <2>5. CASE u[1] \notin {"para", "client", "thor"}
    <3>1. Needs(u) = {}  BY <2>5 DEF Needs
    <3> QED  BY <1>2, <3>1
  <2> QED  BY <2>2, <2>3, <2>4, <2>5
<1>3. ASSUME family # "polkadot",
             NEW u \in {c \in ContainersOf(family) : c[1] \notin {"client", "side"}},
             NEW w \in {c \in ContainersOf(family) : c[1] \notin {"client", "side"}},
             container[u] \in {"running", "exited"}
      PROVE  container[w] # "none"
  <2>1. u \in ContainersOf(family) /\ w \in ContainersOf(family)  BY <1>3
  <2>2. /\ family \in {"penumbra", "namada", "polkadot"} \cup ThorFamilies
        /\ u \in Containers /\ w \in Containers
        /\ u[1] \in {"tm", "app", "val", "full", "thor"} /\ w[1] \in {"tm", "app", "val", "full", "thor"}
    <3>1. family \in {"penumbra", "namada", "polkadot"} \cup ThorFamilies  BY <1>1, StartAssumption DEF ThorFamilies
    <3>2. u \in Containers /\ w \in Containers  BY <1>1, <2>1, FamilyOf
    <3>3. u[1] \notin {"client", "side", "relay", "para"} /\ w[1] \notin {"client", "side", "relay", "para"}
      BY <1>1, <1>3, <2>1, FamilyOf
    <3> QED  BY <3>1, <3>2, <3>3, ContainerTags
  <2>3. Moment(family, u, "start") = 8  BY <2>2 DEF Moment
  <2>4. 7 \in 0..11 /\ 7 < p  BY <1>1, <1>3, <2>2, <2>3
  <2>5. Must(family, 7, w, <<"create">>)  BY <1>1, <1>3, <2>1, <2>2, FamilyOf DEF Must
  <2>6. Effect(w, <<"create">>)  BY <2>2, <2>4, <2>5, DoneBefore, PlainSteps
  <2> QED  BY <2>6 DEF Effect
<1> QED  BY <1>2, <1>3 DEF StartsAfterItsNeeds

\* What a step may do once Start has returned.
Quiet ==
  /\ UNCHANGED container
  /\ \A t \in Procs : Busy(t) => family = "polkadot" /\ Name(t) = "copySpec"
  /\ writers' \ writers \subseteq {t \in Containers : Busy(t)}

\* After Start's return only specs are copied.
LEMMA QuietSteps ==
  ASSUME NEW p, NEW R, StartInv(p, R), [Next]_vars, result # "pending"
  PROVE  Quiet
<1>1. /\ pc[Main] = <<>> /\ p \in 0..11 /\ family \in Families
      /\ (family = "polkadot" /\ p = 0) \/ \A u \in Containers : pc[u] = <<>>
  BY DEF StartInv, MainLeft, QuietOK, Quieted, Types
<1>2. ASSUME NEW t \in Procs, Busy(t) PROVE t \in Containers /\ family = "polkadot" /\ Name(t) = "copySpec"
  <2>1. t \in Containers /\ pc[t] # <<>>  BY <1>1, <1>2, Members DEF Busy
  <2>2. family = "polkadot" /\ p = 0  BY <1>1, <2>1
  <2>3. May(family, 0, t, pc[t][1])  BY <2>1, <2>2, BusyPhases
  <2>4. pc[t][1] = <<"copySpec", t[2]>>  BY <2>2, <2>3 DEF May, PolkadotMay, ThorFamilies
  <2> QED  BY <2>1, <2>2, <2>4 DEF Name
<1>3. ASSUME NEW t \in Procs, Step(t) PROVE container' = container /\ writers' \ writers \subseteq {u \in Containers : Busy(u)}
  <2>1. ~CreateContainer(t) /\ ~StartContainer(t)  BY <1>2 DEF CreateContainer, StartContainer, At
  <2>2. CASE CreateWriter(t)
    <3>1. t \in Containers /\ Busy(t)  BY <1>2, <2>2 DEF CreateWriter, At
    <3> QED  BY <2>2, <3>1 DEF CreateWriter
  <2>3. CASE Fail(t) \/ CopySpec(t)  BY <2>3 DEF Fail, CopySpec
  <2>4. CASE ~CreateWriter(t) /\ ~Fail(t) /\ ~CopySpec(t)
    <3>1. UNCHANGED chainVars \/ (container' = container /\ writers' = writers)
      BY <1>3, <2>1, <2>4 DEF Step, Call, InitFiles, Define, Lock, AppendAllocation, Fund, Export, GenerateGenesisFile,
         InitNetwork, GenerateChainSpecRaw, ReadGenesis, ModifyGenesis, LockGenesis, Replace, WriteGenesis, CopyRawSpec,
         ReadValidatorKey, WriteKey, ReadArchive, OpenArchive, WriteArchive, Register, SetRunning
    <3> QED  BY <3>1 DEF chainVars
  <2> QED  BY <2>2, <2>3, <2>4
<1>4. CASE \E t \in Procs : Step(t)  BY <1>2, <1>3, <1>4 DEF Quiet
<1>5. CASE Spawn \/ WaitGroup \/ Return
  <2>1. container' = container /\ writers' = writers  BY <1>5 DEF Spawn, WaitGroup, Return, chainVars
  <2> QED  BY <1>2, <2>1 DEF Quiet
<1>6. CASE Done \/ UNCHANGED vars
  <2>1. container' = container /\ writers' = writers  BY <1>6 DEF Done, vars, chainVars
  <2> QED  BY <1>2, <2>1 DEF Quiet
<1> QED  BY <1>4, <1>5, <1>6 DEF Next

\* Every node that runs the chain runs it from the same, complete genesis, and with the key or the
\* spec that is its own, for any number of validators, nodes, parachains and wallets.
THEOREM RunsWithItsGenesisHolds == Spec => []RunsWithItsGenesis
<1>1. IInv => RunsWithItsGenesis  BY Genesis DEF IInv
<1> QED  BY <1>1, StartIsInAPhase, PTL

\* Collators come after the whole relay chain, pclientds after the whole penumbra network, a
\* thorchain's nodes after their sidecars, and no node runs before all containers exist.
THEOREM StartsAfterItsNeedsHolds == Spec => []StartsAfterItsNeeds
<1>1. IInv => StartsAfterItsNeeds  BY Order DEF IInv
<1> QED  BY <1>1, StartIsInAPhase, PTL

\* Once Start has returned, with whatever error, no goroutine it left creates or starts the container
\* of a node, and none is at work but those of polkadot that copy a parachain's spec (polkadot_chain.go:430),
\* which are also the only ones to make a one-off container.
THEOREM QuietAfterReturnHolds == Spec => QuietAfterReturn
<1>1. IInv /\ [Next]_vars => [result # "pending" => Quiet]_vars
  <2> SUFFICES ASSUME IInv, [Next]_vars, result # "pending" PROVE Quiet  OBVIOUS
  <2>1. PICK p, R : StartInv(p, R)  BY DEF IInv
  <2> QED  BY <2>1, QuietSteps
<1> QED  BY <1>1, StartIsInAPhase, PTL DEF Spec, QuietAfterReturn, Quiet

============================================================================
