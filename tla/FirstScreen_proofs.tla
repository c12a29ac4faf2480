-------------------------- MODULE FirstScreen_proofs --------------------------
(***************************************************************************)
(* Proofs about FirstScreen, for any portfolio, any lanes and any limits.  *)
(*                                                                         *)
(* The one thing to prove of the walk of selectFirstScreen is that it      *)
(* picks what the rules ask for.  Along the way the cards picked so far    *)
(* are the best ones among the candidates passed; counting them is         *)
(* counting the candidates the rules compare, because of the first few of  *)
(* a set there are as many as of the set until there are enough (FewSoFar).*)
(* What is said of the two lists then follows from the rules.              *)
(***************************************************************************)
EXTENDS FirstScreen, TLAPS, FiniteSetTheorems, WellFoundedInduction

-----------------------------------------------------------------------------
\* Naturals.

LEMMA Least ==
    ASSUME NEW T, T \subseteq Nat, T # {}
    PROVE  \E n \in T : \A m \in T : n <= m
  <1> DEFINE R == {ss \in Nat \X Nat : ss[1] < ss[2]}
  <1>1. IsWellFoundedOn(R, Nat)
    BY NatLessThanWellFounded DEF OpToRel
  <1>2. \A m, n \in Nat : m < n => <<m, n>> \in R
    OBVIOUS
  <1> HIDE DEF R
  <1>3. PICK n \in T : \A m \in T : ~ (<<m, n>> \in R)
    BY <1>1, WFMin
  <1>4. \A m \in T : ~ (m < n)
    BY <1>2, <1>3
  <1>5. \A m \in T : m \in Nat /\ n \in Nat
    BY <1>3
  <1> QED
    BY <1>3, <1>4, <1>5

\* Induction on the members of a set, up to a bound.
LEMMA AllUpTo ==
    ASSUME NEW n \in Nat, NEW S, 0 \in S, \A i \in 1 .. n : i - 1 \in S => i \in S
    PROVE  0 .. n \subseteq S
  <1> DEFINE T == (0 .. n) \ S
  <1> SUFFICES ASSUME T # {} PROVE FALSE
    OBVIOUS
  <1>1. PICK i \in T : \A m \in T : i <= m
    <2>1. T \subseteq Nat
      OBVIOUS
    <2> HIDE DEF T
    <2> QED
      BY <2>1, Least
  <1>2. i \in 1 .. n /\ i \notin S
    BY <1>1
  <1>3. i - 1 \in 0 .. n /\ i - 1 \notin T
    BY <1>1, <1>2
  <1> QED
    BY <1>2, <1>3

-----------------------------------------------------------------------------
\* The ranking.

\* Every candidate has a rank, and none shares it.
LEMMA Ranking ==
    /\ Rank \in [Candidate -> 1 .. Len(Ranked)]
    /\ \A c \in Candidate : Ranked[Rank[c]] = c
    /\ \A i \in 1 .. Len(Ranked) : Ranked[i] \in Candidate /\ Rank[Ranked[i]] = i
    /\ Len(Ranked) \in Nat
    /\ \A c, d \in Candidate : Rank[c] = Rank[d] => c = d
  <1>1. Len(Ranked) \in Nat /\ DOMAIN Ranked = 1 .. Len(Ranked)
    BY FirstScreenAssumption
  <1>2. \A c \in Candidate : \E i \in DOMAIN Ranked : Ranked[i] = c
    BY FirstScreenAssumption DEF Range
  <1>3. \A i, j \in DOMAIN Ranked : Ranked[i] = Ranked[j] => i = j
    BY FirstScreenAssumption DEF IsInjective
  <1>4. \A i \in DOMAIN Ranked : Ranked[i] \in Candidate
    BY FirstScreenAssumption DEF Range
  <1>5. \A c \in Candidate : Rank[c] \in DOMAIN Ranked /\ Ranked[Rank[c]] = c
    BY <1>2 DEF Rank
  <1>6. Rank \in [Candidate -> 1 .. Len(Ranked)]
    BY <1>1, <1>5 DEF Rank
  <1>7. \A i \in 1 .. Len(Ranked) : Ranked[i] \in Candidate /\ Rank[Ranked[i]] = i
    BY <1>1, <1>3, <1>4, <1>5
  <1> QED
    BY <1>1, <1>5, <1>6, <1>7

\* There are finitely many candidates.
LEMMA Finite ==
    ASSUME NEW S \in SUBSET Candidate
    PROVE  IsFiniteSet(S) /\ Cardinality(S) \in Nat
  <1>1. Rank \in Injection(Candidate, 1 .. Len(Ranked))
    BY Ranking DEF Injection, IsInjective
  <1>2. IsFiniteSet(1 .. Len(Ranked))
    BY Ranking, FS_Interval
  <1>3. IsFiniteSet(Candidate)
    BY <1>1, <1>2, FS_Injection
  <1> QED
    BY <1>3, FS_Subset, FS_CardinalityType

LEMMA Fewer ==
    ASSUME NEW S \in SUBSET Candidate, NEW T \in SUBSET S
    PROVE  /\ Cardinality(T) \in Nat /\ Cardinality(S) \in Nat
           /\ Cardinality(T) <= Cardinality(S)
           /\ \A c \in S \ T : Cardinality(T) < Cardinality(S)
  <1>1. IsFiniteSet(S) /\ T \in SUBSET Candidate
    BY Finite
  <1>2. Cardinality(T) \in Nat /\ Cardinality(S) \in Nat
    BY <1>1, Finite
  <1>3. Cardinality(T) <= Cardinality(S) /\ (Cardinality(S) = Cardinality(T) => S = T)
    BY <1>1, FS_Subset
  <1> QED
    BY <1>2, <1>3

\* Of every set of candidates one comes first.
LEMMA First ==
    ASSUME NEW S \in SUBSET Candidate, S # {}
    PROVE  \E c \in S : S \cap Before(c) = {}
  <1> DEFINE T == {Rank[c] : c \in S}
  <1>1. T \subseteq Nat /\ T # {}
    BY Ranking
  <1>2. PICK n \in T : \A m \in T : n <= m
    <2> HIDE DEF T
    <2> QED
      BY <1>1, Least
  <1>3. PICK c \in S : Rank[c] = n
    BY <1>2
  <1>4. \A d \in S : Rank[c] <= Rank[d] /\ Rank[c] \in Nat /\ Rank[d] \in Nat
    BY <1>2, <1>3, Ranking
  <1>5. S \cap Before(c) = {}
    BY <1>4 DEF Before
  <1> QED
    BY <1>5

\* ... and one comes last.
LEMMA Last ==
    ASSUME NEW S \in SUBSET Candidate, S # {}
    PROVE  \E c \in S : S \ {c} \subseteq Before(c)
  <1> DEFINE T == {Len(Ranked) - Rank[c] : c \in S}
  <1>0. \A c \in S : Rank[c] \in 1 .. Len(Ranked)
    BY Ranking
  <1>1. T \subseteq Nat /\ T # {}
    BY <1>0, Ranking
  <1>2. PICK n \in T : \A m \in T : n <= m
    <2> HIDE DEF T
    <2> QED
      BY <1>1, Least
  <1>3. PICK c \in S : Len(Ranked) - Rank[c] = n
    BY <1>2
  <1>4. \A d \in S : Len(Ranked) - Rank[c] <= Len(Ranked) - Rank[d]
    BY <1>2, <1>3
  <1>5. \A d \in S : Rank[d] <= Rank[c]
    BY <1>0, <1>4, Ranking
  <1>6. \A d \in S : d # c => Rank[d] # Rank[c]
    BY Ranking
  <1>7. S \ {c} \subseteq Before(c)
    BY <1>0, <1>5, <1>6 DEF Before
  <1> QED
    BY <1>7

LEMMA BeforeFacts ==
    ASSUME NEW c \in Candidate
    PROVE  /\ Before(c) \subseteq Candidate /\ c \notin Before(c)
           /\ \A d \in Before(c) : Before(d) \subseteq Before(c)
           /\ \A d \in Candidate : d = c \/ d \in Before(c) \/ c \in Before(d)
  BY Ranking DEF Before

-----------------------------------------------------------------------------
\* The first k of a set.

Few(E, k) == {e \in E : Cardinality(E \cap Before(e)) < k}

\* Before c there are as many of the first k as of the set itself, until there
\* are k.
LEMMA FewSoFar ==
    ASSUME NEW E \in SUBSET Candidate, NEW k \in Nat, NEW c \in Candidate
    PROVE  /\ Cardinality(Few(E, k) \cap Before(c)) < k
                  <=> Cardinality(E \cap Before(c)) < k
           /\ Cardinality(E \cap Before(c)) < k =>
                  Few(E, k) \cap Before(c) = E \cap Before(c)
  <1> DEFINE F == Few(E, k)
  <1>1. F \subseteq E
    BY DEF Few
  <1>2. ASSUME Cardinality(E \cap Before(c)) < k
        PROVE  F \cap Before(c) = E \cap Before(c)
    <2>1. ASSUME NEW e \in E \cap Before(c)
          PROVE  e \in F
      <3>1. E \cap Before(e) \subseteq E \cap Before(c)
        BY <2>1, BeforeFacts
      <3>2. Cardinality(E \cap Before(e)) \in Nat /\ Cardinality(E \cap Before(c)) \in Nat
              /\ Cardinality(E \cap Before(e)) <= Cardinality(E \cap Before(c))
        BY <3>1, Fewer
      <3> QED
        BY <1>2, <2>1, <3>2 DEF Few
    <2> QED
      BY <1>1, <2>1
  <1>3. ASSUME Cardinality(F \cap Before(c)) < k, ~(Cardinality(E \cap Before(c)) < k)
        PROVE  FALSE
    <2> DEFINE Rest == (E \ F) \cap Before(c)
    <2>1. Rest # {}
      <3>1. Rest = {} => E \cap Before(c) = F \cap Before(c)
        BY <1>1
      <3> QED
        BY <1>3, <3>1
    <2>2. PICK e \in Rest : Rest \cap Before(e) = {}
      <3>1. Rest \in SUBSET Candidate
        OBVIOUS
      <3> HIDE DEF Rest
      <3> QED
        BY <2>1, <3>1, First
    <2>3. E \cap Before(e) \subseteq F \cap Before(c)
      BY <2>2, BeforeFacts
    <2>4. Cardinality(E \cap Before(e)) \in Nat /\ Cardinality(F \cap Before(c)) \in Nat
            /\ Cardinality(E \cap Before(e)) <= Cardinality(F \cap Before(c))
      BY <1>1, <2>3, Fewer
    <2>5. Cardinality(E \cap Before(e)) < k
      BY <1>3, <2>4
    <2> QED
      BY <2>2, <2>5 DEF Few
  <1> QED
    BY <1>2, <1>3

\* The first k are k at most.
LEMMA FewAreFew ==
    ASSUME NEW E \in SUBSET Candidate, NEW k \in Nat
    PROVE  Cardinality(Few(E, k)) <= k
  <1> DEFINE F == Few(E, k)
  <1>1. F \subseteq E /\ F \subseteq Candidate
    BY DEF Few
  <1>2. CASE F = {}
    BY <1>2, FS_EmptySet
  <1>3. CASE F # {}
    <2>1. PICK c \in F : F \ {c} \subseteq Before(c)
      BY <1>1, <1>3, Last
    <2>2. F \ {c} \subseteq E \cap Before(c)
      BY <1>1, <2>1
    <2>3. Cardinality(E \cap Before(c)) < k
      BY <2>1 DEF Few
    <2>4. Cardinality(E \cap Before(c)) \in Nat /\ Cardinality(F \ {c}) \in Nat
            /\ Cardinality(F \ {c}) <= Cardinality(E \cap Before(c))
      BY <2>2, Fewer
    <2>5. IsFiniteSet(F) /\ Cardinality(F) \in Nat
      BY <1>1, Finite
    <2>6. Cardinality(F \ {c}) = Cardinality(F) - 1
      BY <2>1, <2>5, FS_RemoveElement
    <2> QED
      BY <2>3, <2>4, <2>5, <2>6
  <1> QED
    BY <1>2, <1>3

-----------------------------------------------------------------------------
\* Walks along a list.  A recursive function is one that satisfies its own
\* definition, if there is any: there is one for every step.

WalkBy(F, n, start, step) ==
    F = [i \in 0 .. n |-> IF i = 0 THEN start ELSE step[i, F[i - 1]]]

LEMMA WalkExists ==
    ASSUME NEW n \in Nat, NEW X, NEW start \in X, NEW step \in [(1 .. n) \X X -> X]
    PROVE  \E F \in [0 .. n -> X] : WalkBy(F, n, start, step)
  <1> DEFINE S == {k \in 0 .. n : \E F \in [0 .. k -> X] : WalkBy(F, k, start, step)}
  <1>1. 0 \in S
    <2> DEFINE F == [i \in 0 .. 0 |-> start]
    <2>1. F \in [0 .. 0 -> X]
      OBVIOUS
    <2>2. F = [i \in 0 .. 0 |-> IF i = 0 THEN start ELSE step[i, F[i - 1]]]
      OBVIOUS
    <2> HIDE DEF F
    <2>3. WalkBy(F, 0, start, step)
      BY <2>2 DEF WalkBy
    <2> QED
      BY <2>1, <2>3
  <1>2. ASSUME NEW k \in 1 .. n, k - 1 \in S
        PROVE  k \in S
    <2>1. PICK F \in [0 .. k - 1 -> X] : WalkBy(F, k - 1, start, step)
      BY <1>2
    <2> DEFINE last == step[k, F[k - 1]]
               G == [i \in 0 .. k |-> IF i = k THEN last ELSE F[i]]
    <2>2. last \in X
      <3>1. F[k - 1] \in X
        OBVIOUS
      <3> QED
        BY <3>1
    <2>0. \A i \in 0 .. k : i = k \/ (i \in 0 .. k - 1 /\ i # k)
      OBVIOUS
    <2>3. G \in [0 .. k -> X]
      <3> HIDE DEF last, S
      <3>1. \A i \in 0 .. k : (IF i = k THEN last ELSE F[i]) \in X
        BY <2>0, <2>2
      <3> QED
        BY <3>1
    <2>4. ASSUME NEW i \in 0 .. k
          PROVE  G[i] = IF i = 0 THEN start ELSE step[i, G[i - 1]]
      <3>0. \A j \in 0 .. k - 1 : F[j] = IF j = 0 THEN start ELSE step[j, F[j - 1]]
        BY <2>1 DEF WalkBy
      <3>1. CASE i = k
        <4>1. G[k] = last /\ G[k - 1] = F[k - 1] /\ k # 0
          <5> HIDE DEF last
          <5> QED
            OBVIOUS
        <4> HIDE DEF G
        <4> QED
          BY <3>1, <4>1
      <3>2. CASE i # k
        <4>1. i \in 0 .. k - 1
          BY <2>0, <3>2
        <4>2. G[i] = F[i] /\ (i # 0 => G[i - 1] = F[i - 1])
          <5> HIDE DEF last
          <5>1. i # 0 => i - 1 \in 0 .. k /\ i - 1 # k
            BY <4>1
          <5> QED
            BY <3>2, <5>1
        <4> HIDE DEF G
        <4> QED
          BY <3>0, <4>1, <4>2
      <3> QED
        BY <3>1, <3>2
    <2> HIDE DEF last
    <2>5. G = [i \in 0 .. k |-> G[i]]
      OBVIOUS
    <2> HIDE DEF G
    <2>6. G = [i \in 0 .. k |-> IF i = 0 THEN start ELSE step[i, G[i - 1]]]
      BY <2>4, <2>5
    <2>7. WalkBy(G, k, start, step)
      BY <2>6 DEF WalkBy
    <2> QED
      BY <2>3, <2>7
  <1>3. 0 .. n \subseteq S
    <2> HIDE DEF S
    <2> QED
      BY <1>1, <1>2, AllUpTo
  <1> QED
    BY <1>3

\* Only takes along the members of set.
Keeps(F, seq, set) ==
    F = [i \in 0 .. Len(seq) |->
            IF i = 0 THEN <<>>
            ELSE IF seq[i] \in set THEN Append(F[i - 1], seq[i])
            ELSE F[i - 1]]

LEMMA OnlyKeeps ==
    ASSUME NEW seq \in Seq(Candidate), NEW set
    PROVE  \E F \in [0 .. Len(seq) -> Seq(Candidate)] :
               Keeps(F, seq, set) /\ Only(seq, set) = F[Len(seq)]
  <1> DEFINE X == Seq(Candidate)
             n == Len(seq)
             step == [p \in (1 .. n) \X X |->
                         IF seq[p[1]] \in set THEN Append(p[2], seq[p[1]]) ELSE p[2]]
  <1>1. n \in Nat /\ <<>> \in X
    OBVIOUS
  <1>2. step \in [(1 .. n) \X X -> X]
    <2>1. \A i \in 1 .. n : seq[i] \in Candidate
      OBVIOUS
    <2>2. \A p \in (1 .. n) \X X : p[1] \in 1 .. n /\ p[2] \in X
      OBVIOUS
    <2>3. \A t \in X, c \in Candidate : Append(t, c) \in X
      OBVIOUS
    <2>4. \A p \in (1 .. n) \X X :
              (IF seq[p[1]] \in set THEN Append(p[2], seq[p[1]]) ELSE p[2]) \in X
      BY <2>1, <2>2, <2>3
    <2> QED
      BY <2>4
  <1>3. \A i \in 1 .. n, t \in X :
            step[i, t] = IF seq[i] \in set THEN Append(t, seq[i]) ELSE t
    OBVIOUS
  <1> HIDE DEF step
  <1>4. PICK F \in [0 .. n -> X] : WalkBy(F, n, <<>>, step)
    <2> HIDE DEF n, X
    <2> QED
      BY <1>1, <1>2, WalkExists
  <1>5. \A i \in 0 .. n : F[i] = IF i = 0 THEN <<>>
                                 ELSE IF seq[i] \in set THEN Append(F[i - 1], seq[i])
                                 ELSE F[i - 1]
    <2>1. \A i \in 0 .. n : F[i] = IF i = 0 THEN <<>> ELSE step[i, F[i - 1]]
      BY <1>4 DEF WalkBy
    <2>2. \A i \in 1 .. n : F[i - 1] \in X
      BY <1>1
    <2> HIDE DEF X, n
    <2>3. \A i \in 0 .. n : i = 0 \/ i \in 1 .. n
      BY <1>1
    <2> QED
      BY <1>3, <2>1, <2>2, <2>3
  <1>6. Keeps(F, seq, set)
    <2>1. F = [i \in 0 .. n |-> F[i]]
      OBVIOUS
    <2> QED
      BY <1>5, <2>1 DEF Keeps
  <1> HIDE DEF X
  <1>7. Keeps(CHOOSE G : Keeps(G, seq, set), seq, set)
    BY <1>6
  <1>8. Only(seq, set) = (CHOOSE G : Keeps(G, seq, set))[n]
    BY DEF Only, Keeps
  <1> DEFINE H == CHOOSE G : Keeps(G, seq, set)
  <1>9. H = F
    <2>1. Keeps(H, seq, set)
      BY <1>7
    <2> HIDE DEF H
    <2> DEFINE S == {i \in 0 .. n : H[i] = F[i]}
    <2>2. \A i \in 0 .. n : H[i] = IF i = 0 THEN <<>>
                                   ELSE IF seq[i] \in set THEN Append(H[i - 1], seq[i])
                                   ELSE H[i - 1]
      BY <2>1 DEF Keeps
    <2>3. 0 \in S
      BY <1>1, <1>5, <2>2
    <2>4. ASSUME NEW i \in 1 .. n, i - 1 \in S
          PROVE  i \in S
      <3>1. i \in 0 .. n /\ i # 0 /\ H[i - 1] = F[i - 1]
        BY <2>4
      <3>2. H[i] = F[i]
        <4> HIDE DEF n, S
        <4> QED
          BY <1>5, <2>2, <3>1
      <3> QED
        BY <3>1, <3>2
    <2>5. 0 .. n \subseteq S
      <3> HIDE DEF S
      <3> QED
        BY <1>1, <2>3, <2>4, AllUpTo
    <2>6. H = [i \in 0 .. n |-> H[i]] /\ F = [i \in 0 .. n |-> F[i]]
      BY <1>4, <2>1 DEF Keeps
    <2> QED
      BY <2>5, <2>6
  <1> QED
    BY <1>6, <1>8, <1>9 DEF X

LEMMA AppendFacts ==
    ASSUME NEW t \in Seq(Candidate), NEW c \in Candidate
    PROVE  /\ Append(t, c) \in Seq(Candidate)
           /\ Range(Append(t, c)) = Range(t) \cup {c}
           /\ Len(Append(t, c)) = Len(t) + 1 /\ Append(t, c)[Len(t) + 1] = c
           /\ \A i \in 1 .. Len(t) : Append(t, c)[i] = t[i]
           /\ IsInjective(t) /\ c \notin Range(t) => IsInjective(Append(t, c))
  <1> DEFINE u == Append(t, c)
             n == Len(t)
  <1>1. /\ n \in Nat /\ u \in Seq(Candidate) /\ Len(u) = n + 1 /\ u[n + 1] = c
        /\ \A i \in 1 .. n : u[i] = t[i]
        /\ DOMAIN t = 1 .. n /\ DOMAIN u = 1 .. n + 1
    OBVIOUS
  <1> HIDE DEF u, n
  <1>2. \A i \in 1 .. n + 1 : i = n + 1 \/ i \in 1 .. n
    BY <1>1
  <1>3. Range(u) = Range(t) \cup {c}
    BY <1>1, <1>2 DEF Range
  <1>4. ASSUME IsInjective(t), c \notin Range(t)
        PROVE  IsInjective(u)
    BY <1>1, <1>2, <1>4 DEF Range, IsInjective
  <1> QED
    BY <1>1, <1>3, <1>4 DEF u, n

\* What has been kept of the first i of a list without repetitions.
LEMMA KeptSoFar ==
    ASSUME NEW seq \in Seq(Candidate), IsInjective(seq), NEW set,
           NEW F \in [0 .. Len(seq) -> Seq(Candidate)], Keeps(F, seq, set)
    PROVE  \A i \in 0 .. Len(seq) :
               /\ Range(F[i]) = {seq[j] : j \in 1 .. i} \cap set
               /\ IsInjective(F[i])
               /\ Range(seq) \subseteq set =>
                      Len(F[i]) = i /\ \A j \in 1 .. i : F[i][j] = seq[j]
  <1> DEFINE n == Len(seq)
             upto(i) == {seq[j] : j \in 1 .. i}
  <1>2. /\ n \in Nat /\ DOMAIN seq = 1 .. n
        /\ \A i \in 1 .. n : seq[i] \in Candidate
        /\ \A i, j \in 1 .. n : seq[i] = seq[j] => i = j
    BY DEF IsInjective
  <1> DEFINE S == {i \in 0 .. n :
                     /\ Range(F[i]) = upto(i) \cap set
                     /\ IsInjective(F[i])
                     /\ Range(seq) \subseteq set =>
                            Len(F[i]) = i /\ \A j \in 1 .. i : F[i][j] = seq[j]}
  <1>3. 0 \in S
    <2>1. F[0] = <<>>
      BY <1>2 DEF Keeps
    <2>2. Range(<<>>) = {} /\ IsInjective(<<>>) /\ Len(<<>>) = 0 /\ 1 .. 0 = {}
      BY DEF Range, IsInjective
    <2> QED
      BY <1>2, <2>1, <2>2
  <1>4. ASSUME NEW i \in 1 .. n, i - 1 \in S
        PROVE  i \in S
    <2> DEFINE c == seq[i]
               t == F[i - 1]
    <2>1. /\ i \in 0 .. n /\ i - 1 \in 0 .. n /\ t \in Seq(Candidate) /\ c \in Candidate
          /\ F[i] = IF c \in set THEN Append(t, c) ELSE t
      <3>1. i \in 0 .. n /\ i - 1 \in 0 .. n /\ i # 0
        BY <1>2
      <3>2. \A k \in 0 .. n : F[k] = IF k = 0 THEN <<>>
                                     ELSE IF seq[k] \in set THEN Append(F[k - 1], seq[k])
                                     ELSE F[k - 1]
        BY DEF Keeps
      <3>3. t \in Seq(Candidate)
        BY <3>1
      <3>4. c \in Candidate
        BY <1>2
      <3>5. F[i] = IF c \in set THEN Append(t, c) ELSE t
        <4> HIDE DEF n
        <4> QED
          BY <3>1, <3>2
      <3> QED
        BY <3>1, <3>3, <3>4, <3>5
    <2>2. /\ Range(t) = upto(i - 1) \cap set /\ IsInjective(t)
          /\ Range(seq) \subseteq set =>
                 Len(t) = i - 1 /\ \A j \in 1 .. i - 1 : t[j] = seq[j]
      BY <1>4
    <2>3. upto(i) = upto(i - 1) \cup {c} /\ c \notin upto(i - 1)
      <3>1. \A j \in 1 .. i : j = i \/ j \in 1 .. i - 1
        OBVIOUS
      <3>2. \A j \in 1 .. i - 1 : j # i /\ j \in 1 .. i /\ j \in 1 .. n
        BY <1>2
      <3>3. i \in 1 .. i /\ i \in 1 .. n
        BY <1>2
      <3> HIDE DEF n
      <3>4. c \notin upto(i - 1)
        BY <1>2, <3>2, <3>3
      <3>5. upto(i) \subseteq upto(i - 1) \cup {c}
        BY <3>1
      <3>6. upto(i - 1) \subseteq upto(i) /\ c \in upto(i)
        BY <3>2, <3>3
      <3> QED
        BY <3>4, <3>5, <3>6
    <2>4. c \in Range(seq)
      BY <1>2 DEF Range
    <2> HIDE DEF t, c, upto, n
    <2>5. CASE c \in set
      <3>1. F[i] = Append(t, c)
        BY <2>1, <2>5
      <3>2. c \notin Range(t)
        BY <2>2, <2>3
      <3>3. Range(F[i]) = upto(i) \cap set /\ IsInjective(F[i])
        BY <2>1, <2>2, <2>3, <2>5, <3>1, <3>2, AppendFacts
      <3>4. ASSUME Range(seq) \subseteq set
            PROVE  Len(F[i]) = i /\ \A j \in 1 .. i : F[i][j] = seq[j]
        <4>1. Len(t) = i - 1 /\ \A j \in 1 .. i - 1 : t[j] = seq[j]
          BY <2>2, <3>4
        <4>2. \A j \in 1 .. i : j = i \/ j \in 1 .. i - 1
          OBVIOUS
        <4>3. /\ Len(F[i]) = Len(t) + 1 /\ F[i][Len(t) + 1] = c
              /\ \A j \in 1 .. Len(t) : F[i][j] = t[j]
          BY <2>1, <3>1, AppendFacts
        <4>4. Len(t) + 1 = i
          BY <1>2, <4>1
        <4> QED
          BY <4>1, <4>2, <4>3, <4>4 DEF c
      <3> QED
        BY <2>1, <3>3, <3>4
    <2>6. CASE c \notin set
      BY <2>1, <2>2, <2>3, <2>4, <2>6
    <2> QED
      BY <2>5, <2>6
  <1>5. 0 .. n \subseteq S
    <2> HIDE DEF S
    <2> QED
      BY <1>2, <1>3, <1>4, AllUpTo
  <1> QED
    BY <1>5

\* What Only returns of such a list.
LEMMA OnlyFacts ==
    ASSUME NEW seq \in Seq(Candidate), IsInjective(seq), NEW set
    PROVE  /\ Only(seq, set) \in Seq(Candidate) /\ IsInjective(Only(seq, set))
           /\ Range(Only(seq, set)) = Range(seq) \cap set
           /\ Range(seq) \subseteq set => Only(seq, set) = seq
  <1> DEFINE n == Len(seq)
             all == {seq[j] : j \in 1 .. n}
  <1>1. PICK F \in [0 .. n -> Seq(Candidate)] :
            Keeps(F, seq, set) /\ Only(seq, set) = F[n]
    BY OnlyKeeps
  <1>2. n \in Nat /\ DOMAIN seq = 1 .. n /\ n \in 0 .. n
    OBVIOUS
  <1>3. all = Range(seq)
    BY <1>2 DEF Range
  <1>4. F[n] \in Seq(Candidate)
    BY <1>2
  <1>5. /\ Range(F[n]) = all \cap set /\ IsInjective(F[n])
        /\ Range(seq) \subseteq set => Len(F[n]) = n /\ \A j \in 1 .. n : F[n][j] = seq[j]
    <2>1. \A i \in 0 .. n :
              /\ Range(F[i]) = {seq[j] : j \in 1 .. i} \cap set
              /\ IsInjective(F[i])
              /\ Range(seq) \subseteq set =>
                     Len(F[i]) = i /\ \A j \in 1 .. i : F[i][j] = seq[j]
      BY <1>1, KeptSoFar
    <2> QED
      BY <1>2, <2>1
  <1>6. ASSUME Range(seq) \subseteq set
        PROVE  F[n] = seq
    <2>1. Len(F[n]) = n /\ \A j \in 1 .. n : F[n][j] = seq[j]
      BY <1>5, <1>6
    <2> QED
      BY <1>4, <2>1
  <1> QED
    BY <1>1, <1>3, <1>4, <1>5, <1>6

\* Taking one candidate out of a list moves those behind it up by one.
LEMMA ButOne ==
    ASSUME NEW seq \in Seq(Candidate), IsInjective(seq), NEW c \in Candidate
    PROVE  \A j \in 1 .. Len(Only(seq, Candidate \ {c})) :
               \E h \in 1 .. Len(seq) : h <= j + 1 /\ Only(seq, Candidate \ {c})[j] = seq[h]
  <1> DEFINE n == Len(seq)
             set == Candidate \ {c}
             upto(i) == {seq[j] : j \in 1 .. i}
  <1>1. PICK F \in [0 .. n -> Seq(Candidate)] :
            Keeps(F, seq, set) /\ Only(seq, set) = F[n]
    BY OnlyKeeps
  <1>2. /\ n \in Nat /\ n \in 0 .. n
        /\ \A i \in 1 .. n : seq[i] \in Candidate
        /\ \A i, j \in 1 .. n : seq[i] = seq[j] => i = j
    BY DEF IsInjective
  <1>3. \A k \in 0 .. n : F[k] \in Seq(Candidate)
                          /\ F[k] = IF k = 0 THEN <<>>
                                    ELSE IF seq[k] \in set THEN Append(F[k - 1], seq[k])
                                    ELSE F[k - 1]
    BY <1>1 DEF Keeps
  <1> DEFINE S == {i \in 0 .. n :
                     /\ Len(F[i]) = IF c \in upto(i) THEN i - 1 ELSE i
                     /\ \A j \in 1 .. Len(F[i]) :
                            \E h \in 1 .. n : h <= j + 1 /\ F[i][j] = seq[h]}
  <1>4. 0 \in S
    <2>1. F[0] = <<>> /\ Len(<<>>) = 0 /\ upto(0) = {} /\ 0 \in 0 .. n /\ 1 .. 0 = {}
      BY <1>2, <1>3
    <2> QED
      BY <2>1
  <1>5. ASSUME NEW i \in 1 .. n, i - 1 \in S
        PROVE  i \in S
    <2> DEFINE t == F[i - 1]
    <2>1. /\ i \in 0 .. n /\ t \in Seq(Candidate) /\ seq[i] \in Candidate /\ Len(t) \in Nat
          /\ F[i] = IF seq[i] = c THEN t ELSE Append(t, seq[i])
      <3>1. i \in 0 .. n /\ i - 1 \in 0 .. n /\ i # 0 /\ seq[i] \in Candidate
        BY <1>2
      <3>2. t \in Seq(Candidate) /\ Len(t) \in Nat
        BY <1>3, <3>1
      <3> QED
        BY <1>3, <3>1, <3>2
    <2>2. /\ Len(t) = IF c \in upto(i - 1) THEN i - 2 ELSE i - 1
          /\ \A j \in 1 .. Len(t) : \E h \in 1 .. n : h <= j + 1 /\ t[j] = seq[h]
      BY <1>5
    <2>3. /\ c \in upto(i) <=> c \in upto(i - 1) \/ c = seq[i]
          /\ ~(c \in upto(i - 1) /\ c = seq[i])
      <3>1. \A j \in 1 .. i : j = i \/ j \in 1 .. i - 1
        OBVIOUS
      <3>2. \A j \in 1 .. i - 1 : j # i /\ j \in 1 .. i /\ j \in 1 .. n
        BY <1>2
      <3>3. i \in 1 .. i /\ i \in 1 .. n
        BY <1>2
      <3> QED
        BY <1>2, <3>1, <3>2, <3>3
    <2> HIDE DEF t, upto
    <2>4. CASE seq[i] = c
      BY <1>2, <2>1, <2>2, <2>3, <2>4
    <2>5. CASE seq[i] # c
      <3>1. F[i] = Append(t, seq[i])
        BY <2>1, <2>5
      <3>2. /\ Len(F[i]) = Len(t) + 1 /\ F[i][Len(t) + 1] = seq[i]
            /\ \A j \in 1 .. Len(t) : F[i][j] = t[j]
        BY <2>1, <3>1, AppendFacts
      <3>3. i <= Len(t) + 2
        BY <2>2
      <3>4. ASSUME NEW j \in 1 .. Len(F[i])
            PROVE  \E h \in 1 .. n : h <= j + 1 /\ F[i][j] = seq[h]
        <4>1. j = Len(t) + 1 \/ j \in 1 .. Len(t)
          BY <2>1, <3>2
        <4>2. CASE j = Len(t) + 1
          BY <2>1, <3>2, <3>3, <4>2
        <4>3. CASE j \in 1 .. Len(t)
          BY <2>2, <3>2, <4>3
        <4> QED
          BY <4>1, <4>2, <4>3
      <3>5. Len(F[i]) = IF c \in upto(i) THEN i - 1 ELSE i
        BY <2>2, <2>3, <2>5, <3>2
      <3> QED
        BY <2>1, <3>4, <3>5
    <2> QED
      BY <2>4, <2>5
  <1>6. 0 .. n \subseteq S
    <2> HIDE DEF S
    <2> QED
      BY <1>2, <1>4, <1>5, AllUpTo
  <1> QED
    BY <1>1, <1>2, <1>6

\* One candidate put in front of a list that does not hold it.
LEMMA FrontFacts ==
    ASSUME NEW others \in Seq(Candidate), IsInjective(others),
           NEW c \in Candidate, c \notin Range(others)
    PROVE  /\ <<c>> \o others \in Seq(Candidate) /\ IsInjective(<<c>> \o others)
           /\ Range(<<c>> \o others) = Range(others) \cup {c}
           /\ Len(<<c>> \o others) = Len(others) + 1
           /\ (<<c>> \o others)[1] = c
           /\ \A i \in 2 .. Len(others) + 1 : (<<c>> \o others)[i] = others[i - 1]
  <1> DEFINE u == <<c>> \o others
             n == Len(others)
  <1>1. /\ u \in Seq(Candidate) /\ n \in Nat /\ DOMAIN u = 1 .. n + 1 /\ DOMAIN others = 1 .. n
        /\ Len(u) = n + 1 /\ u[1] = c /\ \A i \in 2 .. n + 1 : u[i] = others[i - 1]
    OBVIOUS
  <1> HIDE DEF u
  <1>2. IsInjective(u)
    <2> SUFFICES ASSUME NEW i \in 1 .. n + 1, NEW j \in 1 .. n + 1, u[i] = u[j]
                 PROVE  i = j
      BY <1>1 DEF IsInjective
    <2>1. \A k \in 2 .. n + 1 : u[k] # c /\ k - 1 \in DOMAIN others
      <3> TAKE k \in 2 .. n + 1
      <3>1. k - 1 \in DOMAIN others
        BY <1>1
      <3>2. others[k - 1] \in Range(others)
        BY <3>1 DEF Range
      <3> QED
        BY <1>1, <3>1, <3>2
    <2>2. CASE i = 1 \/ j = 1
      BY <1>1, <2>1, <2>2
    <2>3. CASE i # 1 /\ j # 1
      <3>1. i \in 2 .. n + 1 /\ j \in 2 .. n + 1
        BY <1>1, <2>3
      <3>2. others[i - 1] = others[j - 1]
        BY <1>1, <3>1
      <3>3. i - 1 = j - 1
        BY <2>1, <3>1, <3>2 DEF IsInjective
      <3> QED
        BY <3>1, <3>3
    <2> QED
      BY <2>2, <2>3
  <1>3. Range(u) = Range(others) \cup {c}
    <2>1. \A k \in 1 .. n + 1 : u[k] \in Range(others) \cup {c}
      BY <1>1 DEF Range
    <2>2. \A k \in 1 .. n : others[k] = u[k + 1] /\ k + 1 \in 1 .. n + 1
      BY <1>1
    <2>3. Range(u) \subseteq Range(others) \cup {c}
      BY <1>1, <2>1 DEF Range
    <2>4. Range(others) \subseteq Range(u)
      BY <1>1, <2>2 DEF Range
    <2>5. c \in Range(u)
      BY <1>1 DEF Range
    <2> QED
      BY <2>3, <2>4, <2>5
  <1> QED
    BY <1>1, <1>2, <1>3 DEF u

\* A list without repetitions is as long as it has members; of one lane it
\* has as many as there are of that lane among them.
LEMMA Counting ==
    ASSUME NEW t \in Seq(Candidate), IsInjective(t)
    PROVE  /\ Len(t) = Cardinality(Range(t)) /\ Range(t) \subseteq Candidate
           /\ \A l : CardsOf(l, t) = Cardinality({d \in Range(t) : lane[d] = l})
  <1> DEFINE n == Len(t)
  <1>1. n \in Nat /\ DOMAIN t = 1 .. n /\ \A i \in 1 .. n : t[i] \in Candidate
    OBVIOUS
  <1>2. Range(t) \subseteq Candidate
    BY <1>1 DEF Range
  <1> HIDE DEF n
  <1>3. \A i, j \in 1 .. n : t[i] = t[j] => i = j
    BY <1>1 DEF IsInjective
  <1>4. ASSUME NEW I \in SUBSET (1 .. n), NEW D, D = {t[i] : i \in I}
        PROVE  Cardinality(I) = Cardinality(D)
    <2> DEFINE f == [i \in I |-> t[i]]
    <2>1. \A i \in I : f[i] = t[i]
      OBVIOUS
    <2>2. f \in [I -> D]
      BY <1>4
    <2> HIDE DEF f
    <2>3. IsInjective(f)
      BY <1>3, <2>1, <2>2 DEF IsInjective
    <2>4. \A d \in D : \E i \in I : f[i] = d
      BY <1>4, <2>1
    <2>5. f \in Bijection(I, D)
      BY <2>2, <2>3, <2>4 DEF Bijection, Injection, Surjection
    <2>6. IsFiniteSet(I)
      <3>1. n \in Int /\ 1 \in Int
        BY <1>1
      <3>2. IsFiniteSet(1 .. n)
        BY <3>1, FS_Interval
      <3> QED
        BY <3>2, FS_Subset
    <2> QED
      BY <2>5, <2>6, FS_Bijection DEF ExistsBijection
  <1>5. Len(t) = Cardinality(Range(t))
    <2>1. Cardinality(1 .. n) = n
      BY <1>1, FS_Interval
    <2>2. Range(t) = {t[i] : i \in 1 .. n}
      BY <1>1 DEF Range
    <2> QED
      BY <1>4, <2>1, <2>2 DEF n
  <1>6. ASSUME NEW l
        PROVE  CardsOf(l, t) = Cardinality({d \in Range(t) : lane[d] = l})
    <2> DEFINE I == {i \in DOMAIN t : lane[t[i]] = l}
               D == {d \in Range(t) : lane[d] = l}
    <2>1. I \subseteq 1 .. n /\ D = {t[i] : i \in I}
      BY <1>1 DEF Range
    <2>2. CardsOf(l, t) = Cardinality(I)
      BY DEF CardsOf
    <2> HIDE DEF I, D
    <2>3. Cardinality(I) = Cardinality(D)
      BY <1>4, <2>1
    <2> QED
      BY <2>2, <2>3 DEF D
  <1> QED
    BY <1>2, <1>5, <1>6

-----------------------------------------------------------------------------
\* The rules.

OfLane(set, l) == {d \in set : Eligible(d) /\ lane[d] = l}

LEMMA Rules ==
    ASSUME NEW set \in SUBSET Candidate
    PROVE  /\ Admitted(set) \subseteq set /\ Best(set) = Few(Admitted(set), Limit)
           /\ Best(set) \subseteq Admitted(set)
           /\ \A c \in Candidate :
                 /\ c \in Admitted(set) <=>
                       /\ c \in set /\ Eligible(c)
                       /\ Capped(set) => c \in Few(OfLane(set, lane[c]), CapOf(lane[c]))
                 /\ c \in Best(set) <=>
                       c \in Admitted(set) /\ Cardinality(Admitted(set) \cap Before(c)) < Limit
           /\ \A l : CapOf(l) \in Nat /\ CapOf(l) >= 1
  <1>1. \A l : CapOf(l) \in Nat /\ CapOf(l) >= 1
    BY FirstScreenAssumption DEF CapOf
  <1>2. Admitted(set) \subseteq set /\ Best(set) = Few(Admitted(set), Limit)
    BY DEF Admitted, Best, Few
  <1>3. ASSUME NEW c \in Candidate
        PROVE  c \in Admitted(set) <=>
                  /\ c \in set /\ Eligible(c)
                  /\ Capped(set) => c \in Few(OfLane(set, lane[c]), CapOf(lane[c]))
    <2> DEFINE E == {d \in set \cap Before(c) : Eligible(d) /\ lane[d] = lane[c]}
               l == lane[c]
    <2>1. E = OfLane(set, l) \cap Before(c)
      BY DEF OfLane
    <2>2. c \in Admitted(set) <=>
            c \in set /\ Eligible(c) /\ (Capped(set) => Cardinality(E) < CapOf(l))
      BY DEF Admitted
    <2>3. c \in OfLane(set, l) <=> c \in set /\ Eligible(c)
      BY DEF OfLane
    <2> HIDE DEF E
    <2>4. c \in Few(OfLane(set, l), CapOf(l)) <=>
            c \in OfLane(set, l) /\ Cardinality(E) < CapOf(l)
      BY <2>1 DEF Few
    <2> QED
      BY <2>2, <2>3, <2>4
  <1>4. \A c \in Candidate :
            c \in Best(set) <=>
               c \in Admitted(set) /\ Cardinality(Admitted(set) \cap Before(c)) < Limit
    BY DEF Best
  <1>5. Best(set) \subseteq Admitted(set)
    BY DEF Best
  <1> QED
    BY <1>1, <1>2, <1>3, <1>4, <1>5

\* After the best candidates before c the walk takes c if and only if it is one.
LEMMA TakesTheBest ==
    ASSUME NEW set \in SUBSET Candidate, NEW c \in Candidate,
           NEW cards \in Seq(Candidate), IsInjective(cards),
           Range(cards) = Best(set) \cap Before(c)
    PROVE  c \in set /\ Reason(c, cards, Capped(set)) = "none" <=> c \in Best(set)
  <1> DEFINE l == lane[c]
             E == OfLane(set, l)
             A == Admitted(set)
             picked == {d \in Range(cards) : lane[d] = l}
  <1>0. Limit \in Nat /\ LaneCap \in Nat /\ LaneCap >= 1
    BY FirstScreenAssumption
  <1>1. /\ A \subseteq Candidate /\ E \subseteq Candidate /\ CapOf(l) \in Nat
        /\ Best(set) = Few(A, Limit)
    BY Rules DEF OfLane
  <1>2. /\ Len(cards) = Cardinality(Few(A, Limit) \cap Before(c))
        /\ CardsOf(l, cards) = Cardinality(picked)
        /\ picked \subseteq Candidate
    BY <1>1, Counting
  <1>3. Cardinality(picked) \in Nat /\ Len(cards) \in Nat
    BY <1>2, Finite
  <1>4. Reason(c, cards, Capped(set)) = "none" <=>
            /\ Eligible(c)
            /\ ~(Len(cards) >= Limit)
            /\ Capped(set) => /\ ~(l = Curiosity /\ CardsOf(l, cards) >= 1)
                              /\ ~(CardsOf(l, cards) >= LaneCap)
    BY DEF Reason, Eligible
  <1>5. Reason(c, cards, Capped(set)) = "none" <=>
            /\ Eligible(c)
            /\ Len(cards) < Limit
            /\ Capped(set) => Cardinality(picked) < CapOf(l)
    <2> HIDE DEF l, picked
    <2>1. ~(Len(cards) >= Limit) <=> Len(cards) < Limit
      BY <1>0, <1>3
    <2>2. ~(l = Curiosity /\ CardsOf(l, cards) >= 1) /\ ~(CardsOf(l, cards) >= LaneCap)
             <=> Cardinality(picked) < CapOf(l)
      BY <1>0, <1>2, <1>3 DEF CapOf
    <2> QED
      BY <1>4, <2>1, <2>2
  <1>6. /\ Len(cards) < Limit <=> Cardinality(A \cap Before(c)) < Limit
        /\ Len(cards) < Limit => Range(cards) = A \cap Before(c)
    <2>1. Range(cards) = Few(A, Limit) \cap Before(c)
      BY <1>1
    <2> HIDE DEF A, picked, E
    <2>2. /\ Cardinality(Few(A, Limit) \cap Before(c)) < Limit
                <=> Cardinality(A \cap Before(c)) < Limit
          /\ Cardinality(A \cap Before(c)) < Limit =>
                Few(A, Limit) \cap Before(c) = A \cap Before(c)
      BY <1>0, <1>1, FewSoFar
    <2> QED
      BY <1>2, <2>1, <2>2
  <1>7. ASSUME Len(cards) < Limit, Capped(set), c \in set, Eligible(c)
        PROVE  Cardinality(picked) < CapOf(l) <=> c \in A
    <2>1. A \cap {d \in Candidate : lane[d] = l} = Few(E, CapOf(l))
      <3>1. \A d \in Few(E, CapOf(l)) : d \in set /\ Eligible(d) /\ lane[d] = l
        BY DEF Few, OfLane
      <3>2. \A d \in Candidate : lane[d] = l =>
                (d \in A <=> d \in set /\ Eligible(d) /\ d \in Few(E, CapOf(l)))
        BY <1>7, Rules
      <3> QED
        BY <3>1, <3>2
    <2>2. picked = Few(E, CapOf(l)) \cap Before(c)
      <3>1. picked = (A \cap Before(c)) \cap {d \in Candidate : lane[d] = l}
        BY <1>1, <1>6, <1>7
      <3> QED
        BY <2>1, <3>1
    <2>3. Cardinality(picked) < CapOf(l) <=> Cardinality(E \cap Before(c)) < CapOf(l)
      <3> HIDE DEF picked, E, l
      <3> QED
        BY <1>1, <2>2, FewSoFar
    <2>4. c \in A <=> c \in Few(E, CapOf(l))
      BY <1>7, Rules
    <2>5. c \in Few(E, CapOf(l)) <=> Cardinality(E \cap Before(c)) < CapOf(l)
      BY <1>7 DEF Few, OfLane
    <2> QED
      BY <2>3, <2>4, <2>5
  <1>8. c \in Best(set) <=> c \in A /\ Len(cards) < Limit
    BY <1>6, Rules
  <1>9. ~Capped(set) => (c \in A <=> c \in set /\ Eligible(c))
    BY Rules
  <1>10. c \in A => c \in set /\ Eligible(c)
    BY Rules
  <1> HIDE DEF A, picked
  <1> QED
    BY <1>5, <1>7, <1>8, <1>9, <1>10

Picks(F, set, capped) ==
    F = [i \in 0 .. Len(Ranked) |->
            IF i = 0 THEN <<>>
            ELSE IF Ranked[i] \in set /\ Reason(Ranked[i], F[i - 1], capped) = "none"
                 THEN Append(F[i - 1], Ranked[i])
            ELSE F[i - 1]]

\* The walk of selectFirstScreen picks the best candidates, in the order of
\* their scores.
LEMMA SelectionIsBest ==
    ASSUME NEW set \in SUBSET Candidate
    PROVE  selectFirstScreen(set) = Only(Ranked, Best(set))
  <1> DEFINE n == Len(Ranked)
             capped == Capped(set)
  <1>1. /\ n \in Nat /\ Ranked \in Seq(Candidate) /\ IsInjective(Ranked)
        /\ \A i \in 1 .. n : Ranked[i] \in Candidate
    BY Ranking, FirstScreenAssumption
  <1>2. PICK F \in [0 .. n -> Seq(Candidate)] :
            Keeps(F, Ranked, Best(set)) /\ Only(Ranked, Best(set)) = F[n]
    BY <1>1, OnlyKeeps
  <1>3. \A i \in 0 .. n : F[i] = IF i = 0 THEN <<>>
                                 ELSE IF Ranked[i] \in Best(set)
                                      THEN Append(F[i - 1], Ranked[i])
                                 ELSE F[i - 1]
    BY <1>2 DEF Keeps
  <1>4. ASSUME NEW i \in 1 .. n
        PROVE  Ranked[i] \in set /\ Reason(Ranked[i], F[i - 1], capped) = "none"
                   <=> Ranked[i] \in Best(set)
    <2>1. i - 1 \in 0 .. n /\ i \in Nat /\ Ranked[i] \in Candidate
      BY <1>1
    <2>2. /\ Range(F[i - 1]) = {Ranked[j] : j \in 1 .. i - 1} \cap Best(set)
          /\ IsInjective(F[i - 1])
      <3>1. \A k \in 0 .. n : /\ Range(F[k]) = {Ranked[j] : j \in 1 .. k} \cap Best(set)
                              /\ IsInjective(F[k])
        BY <1>1, <1>2, KeptSoFar
      <3> QED
        BY <2>1, <3>1
    <2>3. {Ranked[j] : j \in 1 .. i - 1} = Before(Ranked[i])
      <3>1. Rank[Ranked[i]] = i
        BY Ranking
      <3>2. ASSUME NEW j \in 1 .. i - 1
            PROVE  Ranked[j] \in Before(Ranked[i])
        <4>1. j \in 1 .. n /\ j < i
          BY <1>1
        <4>2. Ranked[j] \in Candidate /\ Rank[Ranked[j]] = j
          BY <4>1, Ranking
        <4> QED
          BY <3>1, <4>1, <4>2 DEF Before
      <3>3. ASSUME NEW d \in Before(Ranked[i])
            PROVE  \E j \in 1 .. i - 1 : Ranked[j] = d
        <4>1. d \in Candidate /\ Rank[d] \in 1 .. n /\ Rank[d] < i
          BY <3>1, Ranking DEF Before
        <4>2. Ranked[Rank[d]] = d
          BY <4>1, Ranking
        <4>3. Rank[d] \in 1 .. i - 1
          BY <1>1, <2>1, <4>1
        <4> QED
          BY <4>2, <4>3
      <3> QED
        BY <3>2, <3>3
    <2>4. F[i - 1] \in Seq(Candidate)
      BY <1>2, <2>1
    <2>5. Range(F[i - 1]) = Best(set) \cap Before(Ranked[i])
      BY <2>2, <2>3
    <2> HIDE DEF n
    <2> QED
      BY <2>1, <2>2, <2>4, <2>5, TakesTheBest
  <1>5. Picks(F, set, capped)
    <2>1. F = [i \in 0 .. n |-> F[i]]
      BY <1>2
    <2>2. \A i \in 0 .. n : F[i] = IF i = 0 THEN <<>>
                                   ELSE IF /\ Ranked[i] \in set
                                           /\ Reason(Ranked[i], F[i - 1], capped) = "none"
                                        THEN Append(F[i - 1], Ranked[i])
                                   ELSE F[i - 1]
      <3>1. \A i \in 0 .. n : i = 0 \/ i \in 1 .. n
        BY <1>1
      <3> HIDE DEF n, capped
      <3> QED
        BY <1>3, <1>4, <3>1
    <2> HIDE DEF capped
    <2> QED
      BY <2>1, <2>2 DEF Picks
  <1> DEFINE H == CHOOSE G : Picks(G, set, capped)
  <1>6. selectFirstScreen(set) = H[n]
    BY DEF selectFirstScreen, Picks
  <1> HIDE DEF capped
  <1>7. Picks(H, set, capped)
    BY <1>5
  <1> HIDE DEF H
  <1>8. H[n] = F[n]
    <2> DEFINE S == {i \in 0 .. n : H[i] = F[i]}
    <2>1. \A i \in 0 .. n : H[i] = IF i = 0 THEN <<>>
                                   ELSE IF /\ Ranked[i] \in set
                                           /\ Reason(Ranked[i], H[i - 1], capped) = "none"
                                        THEN Append(H[i - 1], Ranked[i])
                                   ELSE H[i - 1]
      BY <1>7 DEF Picks
    <2>2. \A i \in 0 .. n : F[i] = IF i = 0 THEN <<>>
                                   ELSE IF /\ Ranked[i] \in set
                                           /\ Reason(Ranked[i], F[i - 1], capped) = "none"
                                        THEN Append(F[i - 1], Ranked[i])
                                   ELSE F[i - 1]
      BY <1>5 DEF Picks
    <2>3. 0 \in S
      BY <1>1, <2>1, <2>2
    <2>4. ASSUME NEW i \in 1 .. n, i - 1 \in S
          PROVE  i \in S
      <3>1. i \in 0 .. n /\ i # 0 /\ H[i - 1] = F[i - 1]
        BY <2>4
      <3>2. H[i] = F[i]
        <4> HIDE DEF n, S
        <4> QED
          BY <2>1, <2>2, <3>1
      <3> QED
        BY <3>1, <3>2
    <2>5. 0 .. n \subseteq S
      <3> HIDE DEF S
      <3> QED
        BY <1>1, <2>3, <2>4, AllUpTo
    <2> QED
      BY <1>1, <2>5
  <1> QED
    BY <1>2, <1>6, <1>8

LEMMA SelectionFacts ==
    ASSUME NEW set \in SUBSET Candidate
    PROVE  /\ Range(selectFirstScreen(set)) = Best(set) /\ Best(set) \subseteq set
           /\ selectFirstScreen(set) = <<>> <=> Best(set) = {}
  <1> DEFINE t == Only(Ranked, Best(set))
  <1>1. Best(set) \subseteq set
    BY Rules
  <1>2. t \in Seq(Candidate) /\ Range(t) = Best(set)
    <2>1. Ranked \in Seq(Candidate) /\ IsInjective(Ranked) /\ Range(Ranked) = Candidate
      BY FirstScreenAssumption
    <2>2. t \in Seq(Candidate) /\ Range(t) = Range(Ranked) \cap Best(set)
      BY <2>1, OnlyFacts
    <2> HIDE DEF t
    <2> QED
      BY <1>1, <2>1, <2>2
  <1> HIDE DEF t
  <1>3. t = <<>> <=> Range(t) = {}
    <2>1. CASE t = <<>>
      BY <2>1 DEF Range
    <2>2. CASE t # <<>>
      <3>1. 1 \in DOMAIN t
        BY <1>2, <2>2
      <3> QED
        BY <2>2, <3>1 DEF Range
    <2> QED
      BY <2>1, <2>2
  <1> QED
    BY <1>1, <1>2, <1>3, SelectionIsBest DEF t

-----------------------------------------------------------------------------
\* The inbox.

Shorter(n) == IF n < Limit THEN n ELSE Limit
FirstOf(line) == Range(SubSeq(line, 1, Shorter(Len(line))))
Lineup(p, rest) == p \o Only(Ranked, rest)

\* Those of p and rest line up once each, p in front as it is.
LEMMA LineupFacts ==
    ASSUME NEW p \in Seq(Candidate), IsInjective(p),
           NEW rest \in SUBSET Candidate, Range(p) \cap rest = {}
    PROVE  /\ Lineup(p, rest) \in Seq(Candidate) /\ IsInjective(Lineup(p, rest))
           /\ Range(Lineup(p, rest)) = Range(p) \cup rest
           /\ Len(p) \in Nat /\ Len(p) <= Len(Lineup(p, rest))
           /\ \A i \in 1 .. Len(p) : Lineup(p, rest)[i] = p[i]
           /\ \A i \in 1 .. Len(Lineup(p, rest)) :
                  i > Len(p) => Lineup(p, rest)[i] = Only(Ranked, rest)[i - Len(p)]
           /\ Len(Lineup(p, rest)) = Len(p) + Len(Only(Ranked, rest))
  <1> DEFINE b == Only(Ranked, rest)
             line == p \o b
  <1>1. b \in Seq(Candidate) /\ IsInjective(b) /\ Range(b) = rest
    <2>1. Ranked \in Seq(Candidate) /\ IsInjective(Ranked) /\ Range(Ranked) = Candidate
      BY FirstScreenAssumption
    <2>2. /\ b \in Seq(Candidate) /\ IsInjective(b)
          /\ Range(b) = Range(Ranked) \cap rest
      BY <2>1, OnlyFacts
    <2> HIDE DEF b
    <2> QED
      BY <2>1, <2>2
  <1> HIDE DEF b
  <1>2. /\ line \in Seq(Candidate) /\ Len(line) = Len(p) + Len(b)
        /\ Len(p) \in Nat /\ Len(b) \in Nat
        /\ \A i \in 1 .. Len(p) : line[i] = p[i]
        /\ \A i \in 1 .. Len(b) : line[Len(p) + i] = b[i]
        /\ DOMAIN p = 1 .. Len(p) /\ DOMAIN b = 1 .. Len(b) /\ DOMAIN line = 1 .. Len(line)
    BY <1>1
  <1> HIDE DEF line
  <1>3. \A i \in 1 .. Len(line) : i \in 1 .. Len(p)
                                  \/ \E j \in 1 .. Len(b) : i = Len(p) + j
    <2>1. ASSUME NEW i \in 1 .. Len(line), i \notin 1 .. Len(p)
          PROVE  i - Len(p) \in 1 .. Len(b) /\ i = Len(p) + (i - Len(p))
      BY <1>2, <2>1
    <2> QED
      BY <2>1
  <1>4. \A i, j \in 1 .. Len(line) : line[i] = line[j] => i = j
    <2> SUFFICES ASSUME NEW i \in 1 .. Len(line), NEW j \in 1 .. Len(line), line[i] = line[j]
                 PROVE  i = j
      OBVIOUS
    <2>1. CASE i \in 1 .. Len(p) /\ j \in 1 .. Len(p)
      BY <1>2, <2>1 DEF IsInjective
    <2>2. CASE i \notin 1 .. Len(p) /\ j \notin 1 .. Len(p)
      <3>1. PICK k \in 1 .. Len(b) : i = Len(p) + k
        BY <1>3, <2>2
      <3>2. PICK h \in 1 .. Len(b) : j = Len(p) + h
        BY <1>3, <2>2
      <3>3. b[k] = b[h]
        BY <1>2, <3>1, <3>2
      <3> QED
        BY <1>1, <1>2, <3>1, <3>2, <3>3 DEF IsInjective
    <2>3. ASSUME NEW e \in 1 .. Len(p), NEW k \in 1 .. Len(b),
                 line[e] = line[Len(p) + k]
          PROVE  FALSE
      <3>1. p[e] = b[k] /\ p[e] \in Range(p) /\ b[k] \in Range(b)
        BY <1>2, <2>3 DEF Range
      <3> QED
        BY <1>1, <3>1
    <2> QED
      BY <1>3, <2>1, <2>2, <2>3
  <1>5. Range(line) \subseteq Range(p) \cup Range(b)
    <2>1. \A i \in 1 .. Len(p) : line[i] \in Range(p)
      BY <1>2 DEF Range
    <2>2. \A i \in 1 .. Len(b) : line[Len(p) + i] \in Range(b)
      BY <1>2 DEF Range
    <2>3. \A i \in 1 .. Len(line) : line[i] \in Range(p) \cup Range(b)
      BY <1>3, <2>1, <2>2
    <2> QED
      BY <1>2, <2>3 DEF Range
  <1>6. Range(p) \subseteq Range(line) /\ Range(b) \subseteq Range(line)
    <2>1. \A i \in 1 .. Len(p) : i \in 1 .. Len(line)
      BY <1>2
    <2>2. \A i \in 1 .. Len(b) : Len(p) + i \in 1 .. Len(line)
      BY <1>2
    <2> QED
      BY <1>2, <2>1, <2>2 DEF Range
  <1>7. \A i \in 1 .. Len(line) : i > Len(p) => line[i] = b[i - Len(p)]
    <2>1. ASSUME NEW i \in 1 .. Len(line), i > Len(p)
          PROVE  i - Len(p) \in 1 .. Len(b) /\ i = Len(p) + (i - Len(p))
      BY <1>2, <2>1
    <2> QED
      BY <1>2, <2>1
  <1>8. IsInjective(line)
    BY <1>2, <1>4 DEF IsInjective
  <1> QED
    BY <1>1, <1>2, <1>5, <1>6, <1>7, <1>8 DEF Lineup, line, b

\* Cutting a list to the limit leaves its first ones; what is cut off finds the
\* limit reached.
LEMMA FirstOfFacts ==
    ASSUME NEW line \in Seq(Candidate), IsInjective(line)
    PROVE  /\ FirstOf(line) = {line[i] : i \in 1 .. Shorter(Len(line))}
           /\ FirstOf(line) \subseteq Range(line)
           /\ Len(line) \in Nat /\ Shorter(Len(line)) \in Nat
           /\ Shorter(Len(line)) <= Len(line) /\ Shorter(Len(line)) <= Limit
           /\ Shorter(Len(line)) < Limit => Shorter(Len(line)) = Len(line)
           /\ Cardinality(FirstOf(line)) = Shorter(Len(line))
           /\ Range(line) \ FirstOf(line) # {} => Shorter(Len(line)) = Limit
  <1> DEFINE n == Len(line)
             m == Shorter(n)
             first == SubSeq(line, 1, m)
  <1>1. /\ n \in Nat /\ DOMAIN line = 1 .. n
        /\ \A i \in 1 .. n : line[i] \in Candidate
    OBVIOUS
  <1> HIDE DEF n
  <1>2. /\ m \in Nat /\ m <= n /\ m <= Limit /\ Limit \in Nat
        /\ m < Limit => m = n
    BY <1>1, FirstScreenAssumption DEF Shorter
  <1> HIDE DEF m
  <1>3. /\ first \in Seq(Candidate) /\ Len(first) = m /\ DOMAIN first = 1 .. m
        /\ \A i \in 1 .. m : first[i] = line[i]
    <2>1. \A i \in 1 .. m : line[i] \in Candidate
      BY <1>1, <1>2
    <2> QED
      BY <1>1, <1>2, <2>1 DEF n
  <1> HIDE DEF first
  <1>4. FirstOf(line) = Range(first)
    BY DEF FirstOf, first, m, n
  <1>5. \A i \in 1 .. m : i \in 1 .. n
    BY <1>1, <1>2
  <1>6. IsInjective(first)
    BY <1>1, <1>3, <1>5 DEF IsInjective
  <1>7. Cardinality(Range(first)) = m
    BY <1>3, <1>6, Counting
  <1>8. Range(first) = {line[i] : i \in 1 .. m}
    BY <1>3 DEF Range
  <1>9. Range(first) \subseteq Range(line)
    BY <1>1, <1>5, <1>8 DEF Range
  <1>10. ASSUME NEW c \in Range(line) \ Range(first)
         PROVE  m = Limit
    <2>1. PICK i \in 1 .. n : line[i] = c
      BY <1>1 DEF Range
    <2>2. i \notin 1 .. m
      BY <1>8, <1>10, <2>1
    <2> QED
      BY <1>1, <1>2, <2>1, <2>2
  <1> QED
    BY <1>1, <1>2, <1>4, <1>7, <1>8, <1>9, <1>10 DEF m, n

\* The inbox is the front of the reviews and the others by score.
LEMMA InboxIsFront ==
    ASSUME TypeOK
    PROVE  /\ selectInboxCandidates = FirstOf(Lineup(pending, activeCandidates \ Range(pending)))
           /\ activeCandidates \subseteq Candidate /\ Range(pending) \subseteq activeCandidates
           /\ pending \in Seq(Candidate) /\ IsInjective(pending)
  BY DEF TypeOK, activeCandidates, Present, selectInboxCandidates, Shorter, FirstOf, Lineup

\* The inbox is cut to the limit; what is cut off finds it full.
LEMMA InboxFacts ==
    ASSUME TypeOK
    PROVE  /\ selectInboxCandidates \subseteq activeCandidates
           /\ activeCandidates \subseteq Candidate
           /\ Cardinality(selectInboxCandidates) <= Limit
           /\ activeCandidates \ selectInboxCandidates # {} =>
                  Cardinality(selectInboxCandidates) = Limit
           /\ \A p \in DOMAIN pending : p <= Limit => pending[p] \in selectInboxCandidates
  <1> DEFINE rest == activeCandidates \ Range(pending)
             line == Lineup(pending, rest)
             m == Shorter(Len(line))
  <1>1. /\ activeCandidates \subseteq Candidate /\ Range(pending) \subseteq activeCandidates
        /\ pending \in Seq(Candidate) /\ IsInjective(pending)
        /\ selectInboxCandidates = FirstOf(line)
    BY InboxIsFront
  <1>2. rest \in SUBSET Candidate /\ Range(pending) \cap rest = {}
        /\ Range(pending) \cup rest = activeCandidates
    BY <1>1
  <1>3. /\ line \in Seq(Candidate) /\ IsInjective(line) /\ Range(line) = activeCandidates
        /\ Len(pending) \in Nat /\ Len(pending) <= Len(line)
        /\ \A i \in 1 .. Len(pending) : line[i] = pending[i]
    <2> HIDE DEF rest
    <2> QED
      BY <1>1, <1>2, LineupFacts
  <1> HIDE DEF line
  <1>4. /\ FirstOf(line) = {line[i] : i \in 1 .. m} /\ FirstOf(line) \subseteq Range(line)
        /\ Len(line) \in Nat /\ m \in Nat /\ m <= Limit /\ (m < Limit => m = Len(line))
        /\ Cardinality(FirstOf(line)) = m
        /\ Range(line) \ FirstOf(line) # {} => m = Limit
    BY <1>3, FirstOfFacts
  <1> HIDE DEF m
  <1>5. ASSUME NEW p \in DOMAIN pending, p <= Limit
        PROVE  pending[p] \in FirstOf(line)
    <2>1. p \in 1 .. Len(pending) /\ line[p] = pending[p]
      BY <1>1, <1>3
    <2>2. p \in 1 .. m
      BY <1>3, <1>4, <1>5, <2>1, FirstScreenAssumption
    <2> QED
      BY <1>4, <2>1, <2>2
  <1> QED
    BY <1>1, <1>3, <1>4, <1>5

\* A review of the inbox that moves to its front takes nobody out.
LEMMA FrontKeepsTheFirst ==
    ASSUME NEW p \in Seq(Candidate), IsInjective(p),
           NEW rest \in SUBSET Candidate, Range(p) \cap rest = {},
           NEW c \in Range(p), c \in FirstOf(Lineup(p, rest))
    PROVE  FirstOf(Lineup(<<c>> \o Only(p, Candidate \ {c}), rest)) = FirstOf(Lineup(p, rest))
  <1> DEFINE others == Only(p, Candidate \ {c})
             q == <<c>> \o others
             line == Lineup(p, rest)
             next == Lineup(q, rest)
             m == Shorter(Len(line))
  <1>1. c \in Candidate /\ Range(p) \subseteq Candidate
    BY DEF Range
  <1>2. /\ others \in Seq(Candidate) /\ IsInjective(others)
        /\ Range(others) = Range(p) \cap (Candidate \ {c})
    BY OnlyFacts
  <1>3. \A j \in 1 .. Len(others) : \E h \in 1 .. Len(p) : h <= j + 1 /\ others[j] = p[h]
    BY <1>1, ButOne
  <1> HIDE DEF others
  <1>4. /\ q \in Seq(Candidate) /\ IsInjective(q) /\ Range(q) = Range(p)
        /\ Len(q) = Len(others) + 1 /\ q[1] = c /\ Len(others) \in Nat
        /\ \A i \in 2 .. Len(others) + 1 : q[i] = others[i - 1]
    <2>1. c \notin Range(others) /\ Range(others) \cup {c} = Range(p)
      BY <1>1, <1>2
    <2>2. Len(others) \in Nat
      BY <1>2
    <2>3. /\ q \in Seq(Candidate) /\ IsInjective(q) /\ Range(q) = Range(others) \cup {c}
          /\ Len(q) = Len(others) + 1 /\ q[1] = c
          /\ \A i \in 2 .. Len(others) + 1 : q[i] = others[i - 1]
      BY <1>1, <1>2, <2>1, FrontFacts
    <2> HIDE DEF q
    <2> QED
      BY <2>1, <2>2, <2>3
  <1> HIDE DEF q
  <1>5. Len(q) = Len(p)
    BY <1>4, Counting
  <1>6. /\ line \in Seq(Candidate) /\ IsInjective(line)
        /\ Len(p) \in Nat /\ Len(p) <= Len(line) /\ Len(line) = Len(p) + Len(Only(Ranked, rest))
        /\ \A i \in 1 .. Len(p) : line[i] = p[i]
        /\ \A i \in 1 .. Len(line) : i > Len(p) => line[i] = Only(Ranked, rest)[i - Len(p)]
    BY LineupFacts
  <1>7. /\ next \in Seq(Candidate) /\ IsInjective(next) /\ Len(next) = Len(line)
        /\ \A i \in 1 .. Len(p) : next[i] = q[i]
        /\ \A i \in 1 .. Len(line) : i > Len(p) => next[i] = line[i]
    <2>1. /\ next \in Seq(Candidate) /\ IsInjective(next)
          /\ Len(next) = Len(q) + Len(Only(Ranked, rest))
          /\ \A i \in 1 .. Len(q) : next[i] = q[i]
          /\ \A i \in 1 .. Len(next) : i > Len(q) => next[i] = Only(Ranked, rest)[i - Len(q)]
      BY <1>4, LineupFacts
    <2> HIDE DEF next, line
    <2> QED
      BY <1>5, <1>6, <2>1
  <1> HIDE DEF line, next
  <1>8. /\ FirstOf(line) = {line[i] : i \in 1 .. m} /\ m \in Nat /\ m <= Len(line)
        /\ Cardinality(FirstOf(line)) = m /\ Len(line) \in Nat
        /\ FirstOf(line) \subseteq Range(line)
    BY <1>6, FirstOfFacts
  <1>9. FirstOf(next) = {next[i] : i \in 1 .. m} /\ Cardinality(FirstOf(next)) = m
    BY <1>7, FirstOfFacts
  <1> HIDE DEF m
  <1>10. ASSUME NEW i \in 1 .. m
         PROVE  next[i] \in FirstOf(line)
    <2>1. i \in 1 .. Len(line)
      BY <1>8
    <2>2. CASE i > Len(p)
      BY <1>7, <1>8, <2>1, <2>2
    <2>3. CASE i = 1 /\ i <= Len(p)
      <3>1. next[1] = c
        BY <1>4, <1>7, <2>3
      <3> QED
        BY <2>3, <3>1 DEF line
    <2>4. CASE i # 1 /\ i <= Len(p)
      <3>1. i \in 2 .. Len(others) + 1 /\ i - 1 \in 1 .. Len(others)
        BY <1>4, <1>5, <1>6, <2>4
      <3>2. next[i] = others[i - 1]
        BY <1>4, <1>6, <1>7, <2>4, <3>1
      <3>3. PICK h \in 1 .. Len(p) : h <= (i - 1) + 1 /\ others[i - 1] = p[h]
        BY <1>3, <3>1
      <3>4. h \in 1 .. m /\ line[h] = p[h]
        BY <1>6, <1>8, <3>3
      <3> QED
        BY <1>8, <3>2, <3>3, <3>4
    <2> QED
      BY <1>6, <2>2, <2>3, <2>4
  <1>11. FirstOf(next) \subseteq FirstOf(line)
    BY <1>9, <1>10
  <1>12. IsFiniteSet(FirstOf(line))
    <2>1. Range(line) \subseteq Candidate
      BY <1>6 DEF Range
    <2> QED
      BY <1>8, <2>1, Finite
  <1>13. FirstOf(next) = FirstOf(line)
    BY <1>8, <1>9, <1>11, <1>12, FS_Subset
  <1> QED
    BY <1>13 DEF next, line, q, others

\* Among as many candidates as there are cards only the lane caps exclude.
LEMMA BestOfFew ==
    ASSUME NEW set \in SUBSET Candidate, Cardinality(set) <= Limit
    PROVE  Best(set) = Admitted(set)
  <1> SUFFICES ASSUME NEW c \in Admitted(set)
               PROVE  c \in Best(set)
    BY Rules
  <1> DEFINE T == Admitted(set) \cap Before(c)
  <1>1. c \in set /\ c \in Candidate /\ T \subseteq set /\ c \notin T
    BY Rules, BeforeFacts
  <1> HIDE DEF T
  <1>2. Cardinality(T) < Cardinality(set) /\ Cardinality(T) \in Nat /\ Cardinality(set) \in Nat
    BY <1>1, Fewer
  <1>3. Cardinality(T) < Limit
    BY <1>2, FirstScreenAssumption
  <1> QED
    BY <1>1, <1>3, Rules DEF T

LEMMA CappedGrows ==
    ASSUME NEW T \in SUBSET Candidate, NEW S \in SUBSET T, Capped(S)
    PROVE  Capped(T)
  <1> DEFINE lanes(set) == {lane[c] : c \in set}
             f == [c \in T |-> lane[c]]
  <1>1. f \in Surjection(T, lanes(T))
    <2>1. \A c \in T : f[c] = lane[c]
      OBVIOUS
    <2>2. f \in [T -> lanes(T)]
      OBVIOUS
    <2> HIDE DEF f
    <2> QED
      BY <2>1, <2>2 DEF Surjection
  <1>2. IsFiniteSet(T)
    BY Finite
  <1>3. IsFiniteSet(lanes(T))
    <2> HIDE DEF f, lanes
    <2> QED
      BY <1>1, <1>2, FS_Surjection
  <1>4. lanes(S) \subseteq lanes(T)
    OBVIOUS
  <1> HIDE DEF lanes
  <1>5. /\ Cardinality(lanes(S)) <= Cardinality(lanes(T))
        /\ Cardinality(lanes(S)) \in Nat /\ Cardinality(lanes(T)) \in Nat
    BY <1>3, <1>4, FS_Subset, FS_CardinalityType
  <1> QED
    BY <1>5 DEF Capped, lanes

\* Whoever the rules keep from a card in the inbox has a better candidate of
\* its lane on one.
LEMMA LaneIsServed ==
    ASSUME NEW set \in SUBSET Candidate, Cardinality(set) <= Limit,
           NEW c \in set, Eligible(c), c \notin Best(set)
    PROVE  \E d \in Best(set) : lane[d] = lane[c] /\ d \in Before(c)
  <1> DEFINE E == OfLane(set, lane[c])
             k == CapOf(lane[c])
  <1>1. Best(set) = Admitted(set)
    BY BestOfFew
  <1>2. c \notin Few(E, k) /\ k \in Nat /\ k >= 1
    BY <1>1, Rules
  <1>3. c \in E /\ E \in SUBSET Candidate /\ E \subseteq set
    BY DEF OfLane
  <1>4. E \cap Before(c) # {}
    <2>1. E \cap Before(c) = {} => Cardinality(E \cap Before(c)) = 0
      BY FS_EmptySet
    <2> HIDE DEF E, k
    <2> QED
      BY <1>2, <1>3, <2>1 DEF Few
  <1>5. PICK d \in E \cap Before(c) : (E \cap Before(c)) \cap Before(d) = {}
    <2>1. E \cap Before(c) \in SUBSET Candidate
      BY <1>3
    <2> HIDE DEF E
    <2> QED
      BY <1>4, <2>1, First
  <1>6. E \cap Before(d) = {}
    BY <1>5, BeforeFacts
  <1>7. d \in Few(E, k)
    <2>1. Cardinality(E \cap Before(d)) = 0
      BY <1>6, FS_EmptySet
    <2> HIDE DEF E, k
    <2> QED
      BY <1>2, <1>5, <2>1 DEF Few
  <1>8. d \in set /\ Eligible(d) /\ lane[d] = lane[c]
    BY <1>5 DEF OfLane
  <1>9. d \in Admitted(set)
    BY <1>7, <1>8, Rules
  <1> QED
    BY <1>1, <1>5, <1>8, <1>9

-----------------------------------------------------------------------------
\* The two lists.

LEMMA ListsAreBest ==
    ASSUME TypeOK
    PROVE  /\ Cards = Best(selectInboxCandidates)
           /\ Excluded = activeCandidates \ Best(activeCandidates)
           /\ EmptyReason <=> Best(activeCandidates) = {}
           /\ Cards \subseteq selectInboxCandidates
  BY InboxFacts, SelectionFacts DEF Cards, Excluded, EmptyReason

LEMMA RulesAreFollowed == TypeOK => CardsFollowTheRules
  <1> SUFFICES ASSUME TypeOK PROVE CardsFollowTheRules
    OBVIOUS
  <1>1. SelectionFollowsTheRules
    BY InboxFacts, SelectionIsBest DEF SelectionFollowsTheRules
  <1>2. ASSUME Capped(Cards), NEW l \in Lane
        PROVE  Cardinality({c \in Cards : lane[c] = l}) <= CapOf(l)
    <2> DEFINE set == selectInboxCandidates
               E == OfLane(set, l)
               D == {c \in Cards : lane[c] = l}
    <2>1. set \in SUBSET Candidate /\ Cards = Best(set) /\ Cards \subseteq set
      BY InboxFacts, ListsAreBest
    <2> HIDE DEF set
    <2>2. Capped(set)
      BY <1>2, <2>1, CappedGrows
    <2>3. E \subseteq Candidate /\ CapOf(l) \in Nat /\ Few(E, CapOf(l)) \subseteq Candidate
      BY <2>1, Rules DEF OfLane, Few
    <2>4. D \subseteq Few(E, CapOf(l))
      BY <2>1, <2>2, Rules
    <2> HIDE DEF D, E
    <2>5. /\ Cardinality(D) <= Cardinality(Few(E, CapOf(l)))
          /\ Cardinality(D) \in Nat /\ Cardinality(Few(E, CapOf(l))) \in Nat
      BY <2>3, <2>4, Fewer
    <2>6. Cardinality(Few(E, CapOf(l))) <= CapOf(l)
      BY <2>3, FewAreFew
    <2> QED
      BY <2>3, <2>5, <2>6 DEF D
  <1> QED
    BY <1>1, <1>2 DEF CardsFollowTheRules, DiversityOnScreen

LEMMA PendingIsSeen == TypeOK => PendingIsNotOutscored
  <1> SUFFICES ASSUME TypeOK, NEW c \in Range(pending), Eligible(c), c \notin Cards,
                      ~(Cardinality(NewerThan(c)) >= Limit)
               PROVE  \E d \in Cards : lane[d] = lane[c] /\ d \in Before(c)
    BY DEF PendingIsNotOutscored
  <1> DEFINE p == CHOOSE j \in DOMAIN pending : pending[j] = c
             newer == SubSeq(pending, 1, p - 1)
             set == selectInboxCandidates
  <1>1. p \in DOMAIN pending /\ pending[p] = c
    BY DEF Range
  <1>2. NewerThan(c) = {pending[i] : i \in 1 .. p - 1}
    BY DEF NewerThan
  <1> HIDE DEF p
  <1>3. /\ pending \in Seq(Candidate) /\ IsInjective(pending) /\ Len(pending) \in Nat
        /\ DOMAIN pending = 1 .. Len(pending)
    BY DEF TypeOK
  <1>4. /\ p \in 1 .. Len(pending) /\ p - 1 \in Nat /\ p - 1 <= Len(pending)
    BY <1>1, <1>3
  <1>5. /\ newer \in Seq(Candidate) /\ Len(newer) = p - 1 /\ DOMAIN newer = 1 .. p - 1
        /\ \A i \in 1 .. p - 1 : newer[i] = pending[i] /\ i \in 1 .. Len(pending)
    <2>1. \A i \in 1 .. p - 1 : pending[i] \in Candidate
      BY <1>3, <1>4
    <2> QED
      BY <1>3, <1>4, <2>1
  <1> HIDE DEF newer
  <1>6. IsInjective(newer)
    BY <1>3, <1>5 DEF IsInjective
  <1>7. Range(newer) = NewerThan(c)
    BY <1>2, <1>5 DEF Range
  <1>8. Cardinality(NewerThan(c)) = p - 1
    BY <1>5, <1>6, <1>7, Counting
  <1>9. p <= Limit
    BY <1>4, <1>8, FirstScreenAssumption
  <1>10. /\ c \in set /\ set \in SUBSET Candidate /\ Cardinality(set) <= Limit
         /\ Cards = Best(set)
    BY <1>1, <1>9, InboxFacts, ListsAreBest
  <1> HIDE DEF set
  <1> QED
    BY <1>10, LaneIsServed

LEMMA AbsenceHasReasons == TypeOK => AbsenceIsExplained
  <1> SUFFICES ASSUME TypeOK PROVE AbsenceIsExplained
    OBVIOUS
  <1> DEFINE set == selectInboxCandidates
             all == activeCandidates
  <1>1. /\ set \in SUBSET all /\ all \in SUBSET Candidate
        /\ Cardinality(set) <= Limit
        /\ all \ set # {} => Cardinality(set) = Limit
        /\ Cards = Best(set) /\ Excluded = all \ Best(all)
        /\ EmptyReason <=> Best(all) = {}
    BY InboxFacts, ListsAreBest
  <1> HIDE DEF set, all
  <1>2. Limit \in Nat /\ Limit >= 1 /\ \A l : CapOf(l) \in Nat
    BY <1>1, FirstScreenAssumption, Rules
  <1>3. ASSUME NEW c \in all \ (Cards \cup Excluded)
        PROVE  /\ Eligible(c) /\ c \notin set
               /\ \E d \in set : d \in Excluded \/ d \notin Before(c)
    <2>1. c \in Candidate /\ c \in Best(all) /\ c \in Admitted(all) /\ Eligible(c)
      BY <1>1, <1>3, Rules
    <2>2. ASSUME c \in set
          PROVE  FALSE
      <3> DEFINE l == lane[c]
      <3>1. c \notin Admitted(set)
        BY <1>1, <1>3, BestOfFew
      <3>2. Capped(set) /\ c \notin Few(OfLane(set, l), CapOf(l))
        BY <1>1, <2>1, <2>2, <3>1, Rules
      <3>3. Capped(all)
        BY <1>1, <3>2, CappedGrows
      <3>4. c \in Few(OfLane(all, l), CapOf(l))
        BY <1>1, <2>1, <3>3, Rules
      <3>5. /\ OfLane(set, l) \cap Before(c) \subseteq OfLane(all, l) \cap Before(c)
            /\ OfLane(all, l) \cap Before(c) \subseteq Candidate /\ c \in OfLane(set, l)
        BY <1>1, <2>1, <2>2 DEF OfLane
      <3>6. Cardinality(OfLane(all, l) \cap Before(c)) < CapOf(l)
        BY <3>4 DEF Few
      <3>7. ~(Cardinality(OfLane(set, l) \cap Before(c)) < CapOf(l))
        BY <3>2, <3>5 DEF Few
      <3>8. /\ Cardinality(OfLane(set, l) \cap Before(c)) \in Nat
            /\ Cardinality(OfLane(all, l) \cap Before(c)) \in Nat
            /\ Cardinality(OfLane(set, l) \cap Before(c))
                   <= Cardinality(OfLane(all, l) \cap Before(c))
        BY <3>5, Fewer
      <3> QED
        BY <1>2, <3>6, <3>7, <3>8
    <2>3. ASSUME \A d \in set : d \notin Excluded /\ d \in Before(c)
          PROVE  FALSE
      <3> DEFINE T == Admitted(all) \cap Before(c)
      <3>1. set \subseteq T
        BY <1>1, <2>3, Rules
      <3>2. T \in SUBSET Candidate /\ Cardinality(T) < Limit
        BY <1>1, <2>1, Rules
      <3> HIDE DEF T
      <3>3. /\ Cardinality(set) <= Cardinality(T)
            /\ Cardinality(set) \in Nat /\ Cardinality(T) \in Nat
        BY <3>1, <3>2, Fewer
      <3>4. Cardinality(set) = Limit
        BY <1>1, <1>3, <2>2
      <3> QED
        BY <1>2, <3>2, <3>3, <3>4
    <2> QED
      BY <2>1, <2>2, <2>3
  <1>4. \A c \in all : suppressed[c] => c \in Excluded \ Cards
    BY <1>1, Rules DEF Eligible
  <1>5. ASSUME EmptyReason
        PROVE  Cards = {}
    <2> SUFFICES ASSUME NEW c \in Cards PROVE FALSE
      OBVIOUS
    <2> DEFINE S == {d \in all : Eligible(d)}
    <2>1. c \in S
      BY <1>1, Rules
    <2>2. PICK d \in S : S \cap Before(d) = {}
      <3>1. S \in SUBSET Candidate /\ S # {}
        BY <1>1, <2>1
      <3> HIDE DEF S
      <3> QED
        BY <3>1, First
    <2>3. d \in Candidate /\ d \in all /\ Eligible(d)
      BY <1>1
    <2>4. Admitted(all) \cap Before(d) = {} /\ OfLane(all, lane[d]) \cap Before(d) = {}
      BY <1>1, <2>2, Rules DEF OfLane
    <2>5. d \in Few(OfLane(all, lane[d]), CapOf(lane[d]))
      <3>1. Cardinality(OfLane(all, lane[d]) \cap Before(d)) = 0
        BY <2>4, FS_EmptySet
      <3>2. CapOf(lane[d]) \in Nat /\ CapOf(lane[d]) >= 1
        BY <1>1, Rules
      <3> QED
        BY <2>3, <3>1, <3>2 DEF Few, OfLane
    <2>6. d \in Admitted(all)
      BY <1>1, <2>3, <2>5, Rules
    <2>7. Cardinality(Admitted(all) \cap Before(d)) < Limit
      BY <1>2, <2>4, FS_EmptySet
    <2>8. d \in Best(all)
      BY <1>1, <2>3, <2>6, <2>7, Rules
    <2> QED
      BY <1>1, <1>5, <2>8
  <1> QED
    BY <1>3, <1>4, <1>5
    DEF AbsenceIsExplained, MissingOnlyWhenCrowded, HiddenStaysRestorable, EmptyReasonIsTrue, set, all

-----------------------------------------------------------------------------
\* The steps.

\* A candidate that takes a state joins the reviews at their front or leaves
\* them; no other moves.
LEMMA ReviewsFollow ==
    ASSUME TypeOK, NEW c \in Candidate, NEW s \in State, Becomes(c, s)
    PROVE  /\ state' \in [Candidate -> State] /\ state'[c] = s
           /\ \A d \in Candidate \ {c} : state'[d] = state[d]
           /\ pending' \in Seq(Candidate) /\ IsInjective(pending')
           /\ Range(pending') = {d \in Candidate : state'[d] = "duplicate_review"}
           /\ c \notin Range(pending) /\ s # "duplicate_review" => pending' = pending
  <1> DEFINE others == Only(pending, Candidate \ {c})
             u == <<c>> \o others
  <1>1. /\ pending \in Seq(Candidate) /\ IsInjective(pending)
        /\ Range(pending) = {d \in Candidate : state[d] = "duplicate_review"}
    BY DEF TypeOK
  <1>2. /\ state' \in [Candidate -> State] /\ state'[c] = s
        /\ \A d \in Candidate \ {c} : state'[d] = state[d]
    BY DEF Becomes, TypeOK
  <1>3. pending' = IF s = "duplicate_review" THEN u ELSE others
    BY DEF Becomes
  <1>4. /\ others \in Seq(Candidate) /\ IsInjective(others)
        /\ Range(others) = Range(pending) \cap (Candidate \ {c})
        /\ Range(pending) \subseteq Candidate \ {c} => others = pending
    BY <1>1, OnlyFacts
  <1> HIDE DEF others
  <1>5. /\ u \in Seq(Candidate) /\ IsInjective(u) /\ Range(u) = Range(others) \cup {c}
    BY <1>4, FrontFacts
  <1> HIDE DEF u
  <1>6. pending' \in Seq(Candidate) /\ IsInjective(pending')
    BY <1>3, <1>4, <1>5
  <1>7. Range(pending') = {d \in Candidate : state'[d] = "duplicate_review"}
    BY <1>1, <1>2, <1>3, <1>4, <1>5
  <1>8. c \notin Range(pending) /\ s # "duplicate_review" => pending' = pending
    BY <1>1, <1>3, <1>4
  <1> QED
    BY <1>2, <1>6, <1>7, <1>8

\* A command about a candidate loses no review.
LEMMA TouchedFacts ==
    ASSUME TypeOK, NEW c \in Candidate
    PROVE  /\ Touched(c) \in Seq(Candidate) /\ IsInjective(Touched(c))
           /\ Range(Touched(c)) = Range(pending)
  <1> DEFINE others == Only(pending, Candidate \ {c})
  <1>1. pending \in Seq(Candidate) /\ IsInjective(pending)
    BY DEF TypeOK
  <1>2. /\ others \in Seq(Candidate) /\ IsInjective(others)
        /\ Range(others) = Range(pending) \cap (Candidate \ {c})
    BY <1>1, OnlyFacts
  <1>3. Range(pending) \subseteq Candidate
    BY <1>1 DEF Range
  <1> HIDE DEF others
  <1>4. /\ <<c>> \o others \in Seq(Candidate) /\ IsInjective(<<c>> \o others)
        /\ Range(<<c>> \o others) = Range(others) \cup {c}
    BY <1>2, FrontFacts
  <1>5. CASE c \in Range(pending)
    <2>1. Touched(c) = <<c>> \o others
      BY <1>5 DEF Touched, others
    <2> QED
      BY <1>2, <1>3, <1>4, <1>5, <2>1
  <1>6. CASE c \notin Range(pending)
    BY <1>1, <1>6 DEF Touched
  <1> QED
    BY <1>5, <1>6

LEMMA InitTyped == Init => TypeOK
  <1> SUFFICES ASSUME Init PROVE TypeOK
    OBVIOUS
  <1>1. <<>> \in Seq(Candidate) /\ IsInjective(<<>>) /\ Range(<<>>) = {}
    BY DEF IsInjective, Range
  <1> QED
    BY <1>1 DEF Init, TypeOK, State

LEMMA NextTyped == TypeOK /\ [Next]_vars => TypeOK'
  <1> SUFFICES ASSUME TypeOK, [Next]_vars PROVE TypeOK'
    OBVIOUS
  <1>1. /\ lane \in [Candidate -> Lane] /\ blocked \in [Candidate -> BOOLEAN]
        /\ suppressed \in [Candidate -> BOOLEAN] /\ state \in [Candidate -> State]
    BY DEF TypeOK
  <1>2. ASSUME NEW c \in Candidate, NEW s \in State, Becomes(c, s)
        PROVE  /\ state' \in [Candidate -> State]
               /\ pending' \in Seq(Candidate) /\ IsInjective(pending')
               /\ Range(pending') = {d \in Candidate : state'[d] = "duplicate_review"}
    BY <1>2, ReviewsFollow
  <1>3. {"open", "duplicate_review", "suppressed_duplicate", "decided"} \subseteq State
    BY DEF State
  <1>4. CASE ResetDemo
    <2>1. <<>> \in Seq(Candidate) /\ IsInjective(<<>>) /\ Range(<<>>) = {}
      BY DEF IsInjective, Range
    <2> QED
      BY <1>1, <1>4, <2>1 DEF ResetDemo, TypeOK, State
  <1>5. ASSUME NEW c \in Candidate, AddManualCandidate(c)
        PROVE  TypeOK'
    BY <1>1, <1>2, <1>3, <1>5 DEF AddManualCandidate, MatchedAnew, TypeOK
  <1>6. ASSUME NEW c \in Candidate, RequestVerification(c)
        PROVE  TypeOK'
    BY <1>1, <1>2, <1>3, <1>6 DEF RequestVerification, MatchedAnew, TypeOK
  <1>7. ASSUME NEW c \in Candidate, ReviewDecision(c)
        PROVE  TypeOK'
    BY <1>1, <1>2, <1>3, <1>7 DEF ReviewDecision, TypeOK
  <1>8. ASSUME NEW c \in Candidate, ResolveDuplicate(c)
        PROVE  TypeOK'
    BY <1>1, <1>2, <1>3, <1>8 DEF ResolveDuplicate, TypeOK
  <1>9. ASSUME NEW c \in Candidate, SuppressCandidate(c)
        PROVE  TypeOK'
    <2>1. suppressed' \in [Candidate -> BOOLEAN]
      BY <1>1, <1>9 DEF SuppressCandidate
    <2> QED
      BY <1>9, <2>1, TouchedFacts DEF SuppressCandidate, TypeOK
  <1>10. ASSUME NEW c \in Candidate, RestoreCandidate(c)
         PROVE  TypeOK'
    BY <1>1, <1>10, TouchedFacts DEF RestoreCandidate, TypeOK
  <1>11. CASE RulesEnd
    <2>1. suppressed' \in [Candidate -> BOOLEAN]
      BY <1>1, <1>11 DEF RulesEnd
    <2> QED
      BY <1>11, <2>1 DEF RulesEnd, TypeOK
  <1>12. CASE UNCHANGED vars
    BY <1>12 DEF vars, TypeOK
  <1> QED
    BY <1>4, <1>5, <1>6, <1>7, <1>8, <1>9, <1>10, <1>11, <1>12 DEF Next

\* The lists are always those of a well-formed portfolio: the reviews line up
\* once each, and exactly the candidates under review do.
THEOREM TypeCorrect == Spec => []TypeOK
  BY InitTyped, NextTyped, PTL DEF Spec

\* Whatever the portfolio, the walk of selectFirstScreen shows what the rules
\* ask for, the best of each lane up to its cap and the best of these up to the
\* limit, and cards of two lanes never exceed a cap.
THEOREM CardsAlwaysFollowTheRules == Spec => []CardsFollowTheRules
  BY TypeCorrect, RulesAreFollowed, PTL

\* A duplicate review that waits for the owner is never hidden by a mere score.
THEOREM PendingNeverOutscored == Spec => []PendingIsNotOutscored
  BY TypeCorrect, PendingIsSeen, PTL

\* What todayFromState leaves off both lists was crowded out of the inbox; what
\* the owner has hidden is always on the list that offers to restore it.
THEOREM AbsenceAlwaysExplained == Spec => []AbsenceIsExplained
  BY TypeCorrect, AbsenceHasReasons, PTL

-----------------------------------------------------------------------------
\* One candidate leaves.

\* c is decided or hidden, and of the others nothing changes, unless the command
\* brings a review into the inbox.
Leaves(c) ==
    /\ \A d \in Candidate \ {c} : state'[d] = state[d] /\ suppressed'[d] = suppressed[d]
    /\ state[c] # "suppressed_duplicate" /\ blocked' = blocked
    /\ \/ state[c] = "open" /\ state'[c] = "decided" /\ suppressed' = suppressed
       \/ /\ suppressed'[c] /\ state' = state
          /\ pending' = pending \/ (c \in selectInboxCandidates /\ pending' = Touched(c))

\* A step by which c leaves changes no lane and moves no review but c, and that
\* within the inbox.
LEMMA LeavingMovesNobody ==
    ASSUME TypeOK, Next, NEW c \in Candidate, Leaves(c)
    PROVE  /\ lane' = lane
           /\ pending' = pending \/ (c \in selectInboxCandidates /\ pending' = Touched(c))
  <1>1. lane' = lane
    BY DEF Next, ResetDemo, RulesEnd, AddManualCandidate, RequestVerification, ReviewDecision,
           ResolveDuplicate, SuppressCandidate, RestoreCandidate
  <1>2. ASSUME NEW e \in Candidate, NEW s \in State, Becomes(e, s), state'[c] # state[c],
               state[c] = "open", s # "duplicate_review"
        PROVE  pending' = pending
    <2>1. /\ state'[e] = s /\ \A d \in Candidate \ {e} : state'[d] = state[d]
          /\ e \notin Range(pending) /\ s # "duplicate_review" => pending' = pending
      BY <1>2, ReviewsFollow
    <2>2. e = c
      BY <1>2, <2>1
    <2>3. c \notin Range(pending)
      BY <1>2 DEF TypeOK
    <2> QED
      BY <1>2, <2>1, <2>2, <2>3
  <1>3. ASSUME state[c] = "open", state'[c] = "decided", suppressed' = suppressed
        PROVE  pending' = pending
    <2>1. {"open", "duplicate_review", "suppressed_duplicate", "decided"} \subseteq State
      BY DEF State
    <2>2. ASSUME NEW e \in Candidate, NEW s \in State, Becomes(e, s)
          PROVE  e = c /\ s = "decided"
      <3>1. state'[e] = s /\ \A d \in Candidate \ {e} : state'[d] = state[d]
        BY <2>2, ReviewsFollow
      <3> QED
        BY <1>3, <3>1
    <2>3. CASE ResetDemo
      BY <1>3, <2>3 DEF ResetDemo
    <2>4. ASSUME NEW e \in Candidate,
                 AddManualCandidate(e) \/ RequestVerification(e) \/ ResolveDuplicate(e)
          PROVE  FALSE
      BY <2>1, <2>2, <2>4 DEF AddManualCandidate, RequestVerification, ResolveDuplicate
    <2>5. ASSUME NEW e \in Candidate, ReviewDecision(e)
          PROVE  pending' = pending
      BY <1>2, <1>3, <2>1, <2>5 DEF ReviewDecision
    <2>6. ASSUME NEW e \in Candidate,
                 SuppressCandidate(e) \/ RestoreCandidate(e) \/ RulesEnd
          PROVE  pending' = pending
      BY <1>3, <2>6 DEF SuppressCandidate, RestoreCandidate, RulesEnd
    <2> QED
      BY <2>3, <2>4, <2>5, <2>6 DEF Next
  <1> QED
    BY <1>1, <1>3 DEF Leaves

\* The inbox is then as it was, c only stands in it without a claim to a card.
LEMMA LeavingKeepsInbox ==
    ASSUME TypeOK, TypeOK', NEW c \in Candidate, Leaves(c), lane' = lane,
           pending' = pending \/ (c \in selectInboxCandidates /\ pending' = Touched(c))
    PROVE  /\ selectInboxCandidates' = selectInboxCandidates
           /\ ~Eligible(c)'
           /\ \A d \in Candidate \ {c} : Eligible(d)' <=> Eligible(d)
  <1>1. \A d \in Candidate : state'[d] # "absent" <=> state[d] # "absent"
    BY DEF Leaves
  <1>2. \A d \in Candidate :
            state'[d] # "suppressed_duplicate" <=> state[d] # "suppressed_duplicate"
    BY DEF Leaves
  <1>3. activeCandidates' = activeCandidates
    BY <1>1, <1>2 DEF activeCandidates, Present
  <1>4. selectInboxCandidates' = selectInboxCandidates
    <2>1. CASE pending' = pending
      BY <1>3, <2>1 DEF selectInboxCandidates
    <2>2. CASE c \in selectInboxCandidates /\ c \in Range(pending) /\ pending' = Touched(c)
      <3> DEFINE rest == activeCandidates \ Range(pending)
      <3>1. /\ selectInboxCandidates = FirstOf(Lineup(pending, rest))
            /\ activeCandidates \subseteq Candidate
            /\ pending \in Seq(Candidate) /\ IsInjective(pending)
        BY InboxIsFront
      <3>2. pending' = <<c>> \o Only(pending, Candidate \ {c}) /\ Range(pending') = Range(pending)
        BY <2>2, TouchedFacts DEF Touched
      <3>3. selectInboxCandidates' = FirstOf(Lineup(pending', rest))
        BY <1>3, <3>2 DEF selectInboxCandidates, FirstOf, Lineup, Shorter
      <3>4. rest \in SUBSET Candidate /\ Range(pending) \cap rest = {}
        BY <3>1
      <3> HIDE DEF rest
      <3> QED
        BY <2>2, <3>1, <3>2, <3>3, <3>4, FrontKeepsTheFirst
    <2> QED
      BY <2>1, <2>2 DEF Touched
  <1>5. ~Eligible(c)'
    BY DEF Leaves, Eligible
  <1>6. \A d \in Candidate \ {c} : Eligible(d)' <=> Eligible(d)
    BY DEF Leaves, Eligible
  <1> QED
    BY <1>4, <1>5, <1>6

\* Then whoever had a card, c apart, still has one: in its lane no more than
\* before come first, and an inbox of at most Limit is never cut.
LEMMA LeavingFreesCards ==
    ASSUME TypeOK, TypeOK', Next, NEW c \in Candidate, Leaves(c)
    PROVE  Best(selectInboxCandidates) \ {c} \subseteq Best(selectInboxCandidates)'
  <1> DEFINE set == selectInboxCandidates
  <1>1. /\ lane' = lane
        /\ pending' = pending \/ (c \in set /\ pending' = Touched(c))
    BY LeavingMovesNobody
  <1>2. /\ set' = set /\ ~Eligible(c)'
        /\ \A d \in Candidate \ {c} : Eligible(d)' <=> Eligible(d)
    BY <1>1, LeavingKeepsInbox
  <1>3. set \in SUBSET Candidate /\ Cardinality(set) <= Limit
    BY InboxFacts
  <1> SUFFICES ASSUME NEW d \in Best(set), d # c
               PROVE  d \in Best(set)'
    OBVIOUS
  <1> DEFINE E == {e \in set \cap Before(d) : Eligible(e) /\ lane[e] = lane[d]}
             F == {e \in set \cap Before(d) : Eligible(e)' /\ lane[e] = lane[d]}
             A == {e \in set : e \in Admitted(set)'}
  <1>4. /\ d \in set /\ d \in Candidate /\ Eligible(d)
        /\ Capped(set) => Cardinality(E) < CapOf(lane[d])
    BY <1>3 DEF Best, Admitted
  <1>5. Cardinality(F) <= Cardinality(E) /\ Cardinality(F) \in Nat /\ Cardinality(E) \in Nat
    <2>1. F \subseteq E /\ E \in SUBSET Candidate
      BY <1>2, <1>3
    <2> HIDE DEF E, F
    <2> QED
      BY <2>1, Fewer
  <1>6. CapOf(lane[d]) \in Nat
    BY FirstScreenAssumption DEF CapOf
  <1>7. Capped(set)' <=> Capped(set)
    BY <1>1, <1>2 DEF Capped
  <1>8. d \in Admitted(set)' <=>
            d \in set' /\ Eligible(d)' /\ (Capped(set)' => Cardinality(F) < CapOf(lane[d]))
    BY <1>1, <1>2, <1>3, <1>4 DEF Admitted, Before, Rank, CapOf
  <1>9. d \in Admitted(set)'
    <2> HIDE DEF E, F, set
    <2> QED
      BY <1>2, <1>4, <1>5, <1>6, <1>7, <1>8
  <1>10. Admitted(set)' = A /\ A \subseteq set
    BY <1>2 DEF Admitted
  <1>11. Cardinality(A \cap Before(d)) < Limit
    <2>1. A \cap Before(d) \subseteq set /\ d \in set \ (A \cap Before(d))
      BY <1>4, <1>10, BeforeFacts
    <2>2. /\ Cardinality(A \cap Before(d)) < Cardinality(set)
          /\ Cardinality(A \cap Before(d)) \in Nat /\ Cardinality(set) \in Nat
      <3> DEFINE T == A \cap Before(d)
      <3>1. T \in SUBSET set /\ d \in set \ T
        BY <2>1
      <3> HIDE DEF T, set
      <3> QED
        BY <1>3, <3>1, Fewer DEF T
    <2> QED
      BY <1>3, <2>2, FirstScreenAssumption
  <1>12. d \in Best(set)' <=>
             d \in Admitted(set)' /\ Cardinality(Admitted(set)' \cap Before(d)) < Limit
    BY DEF Best, Before, Rank
  <1> QED
    BY <1>9, <1>10, <1>11, <1>12

\* Holding, rejecting or hiding one candidate never takes the card of another,
\* however many wait for the inbox and whatever their lanes, unless the command
\* brings a review into the inbox from behind.
THEOREM OthersAlwaysStay == Spec => OthersStayOnScreen
  <1>1. TypeOK /\ [Next]_vars =>
            [\A c \in Candidate :
               /\ \A d \in Candidate \ {c} : state'[d] = state[d] /\ suppressed'[d] = suppressed[d]
               /\ state[c] # "suppressed_duplicate" /\ blocked' = blocked
               /\ \/ state[c] = "open" /\ state'[c] = "decided" /\ suppressed' = suppressed
                  \/ /\ suppressed'[c] /\ state' = state
                     /\ pending' = pending \/ (c \in selectInboxCandidates /\ pending' = Touched(c))
               => Best(selectInboxCandidates) \ {c} \subseteq Best(selectInboxCandidates)']_vars
    BY NextTyped, LeavingFreesCards DEF Leaves
  <1> QED
    BY <1>1, TypeCorrect, PTL DEF Spec, OthersStayOnScreen
=============================================================================
