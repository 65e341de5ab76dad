--------------------------- MODULE EndToEndProofs ---------------------------
(***************************************************************************)
(* What holds of the network of endtoend for every table, traffic, width   *)
(* of the clock and pace: each router forwards along the longest matching  *)
(* prefix, in whatever order its routes stand, however long a datagram     *)
(* waits for the address of its next hop.                                  *)
(***************************************************************************)
EXTENDS EndToEnd, Lemmas

Rule ==
  [route_prefix : Nat, prefix_length : Nat, next_hop : Nat \cup {Direct},
   interface_num : Nat]

-----------------------------------------------------------------------------
(* A loop of `top' turns over values of S: the function of its states.     *)
Iterates(f, S, base, top, step) ==
  /\ f \in [0..top -> S] /\ f[0] = base
  /\ \A n \in 1..top : f[n] = step[n][f[n - 1]]

(* There is one.                                                           *)
LEMMA RecursionExists ==
  ASSUME NEW S, NEW base \in S, NEW top \in Nat, NEW step \in [1..top -> [S -> S]]
  PROVE  \E f : Iterates(f, S, base, top, step)
<1> DEFINE missing == {n \in 0..top : ~\E f : Iterates(f, S, base, n, step)}
<1>1. SUFFICES ASSUME missing # {} PROVE FALSE
  <2>1. top \in 0..top
    OBVIOUS
  <2> QED
    BY <2>1
<1>2. PICK n \in missing : \A j \in missing : n <= j
  <2>1. missing \subseteq Nat
    OBVIOUS
  <2> HIDE DEF missing
  <2> QED
    BY <1>1, <2>1, LeastExists
<1>3. n \in 0..top /\ ~\E f : Iterates(f, S, base, n, step)
  OBVIOUS
<1>4. CASE n = 0
  <2>1. Iterates([m \in 0..0 |-> base], S, base, 0, step)
    BY DEF Iterates
  <2> QED
    BY <1>3, <1>4, <2>1
<1>5. CASE n > 0
  <2>1. n - 1 \in 0..top /\ ~(n <= n - 1)
    BY <1>3, <1>5
  <2>2. PICK f : Iterates(f, S, base, n - 1, step)
    BY <1>2, <2>1
  <2>3. PICK last \in S : last = step[n][f[n - 1]]
    <3>1. n \in 1..top /\ n - 1 \in 0..(n - 1)
      BY <1>3, <1>5
    <3>2. f[n - 1] \in S
      BY <2>2, <3>1 DEF Iterates
    <3> QED
      BY <3>1, <3>2
  <2>4. PICK g : g = [m \in 0..n |-> IF m = n THEN last ELSE f[m]]
    OBVIOUS
  <2>5. \A m \in 0..(n - 1) : m \in 0..n /\ m # n /\ g[m] = f[m] /\ f[m] \in S
    BY <1>3, <2>2, <2>4 DEF Iterates
  <2>6. g[n] = last
    BY <1>3, <2>4
  <2>7. g \in [0..n -> S]
    <3>1. \A m \in 0..n : m = n \/ m \in 0..(n - 1)
      BY <1>3
    <3> QED
      BY <2>4, <2>5, <2>6, <3>1
  <2>8. g[0] = base
    <3>1. 0 \in 0..(n - 1)
      BY <1>3, <1>5
    <3> QED
      BY <2>2, <2>5, <3>1 DEF Iterates
  <2>9. ASSUME NEW m \in 1..n PROVE g[m] = step[m][g[m - 1]]
    <3>1. m - 1 \in 0..(n - 1) /\ (m = n \/ m \in 1..(n - 1))
      BY <1>3
    <3>2. CASE m = n
      BY <2>3, <2>5, <2>6, <3>1, <3>2
    <3>3. CASE m \in 1..(n - 1)
      <4>1. m \in 0..(n - 1)
        BY <1>3, <3>3
      <4> QED
        BY <2>2, <2>5, <3>1, <3>3, <4>1 DEF Iterates
    <3> QED
      BY <3>1, <3>2, <3>3
  <2>10. Iterates(g, S, base, n, step)
    BY <2>7, <2>8, <2>9 DEF Iterates
  <2> QED
    BY <1>3, <2>10
<1> QED
  BY <1>3, <1>4, <1>5

-----------------------------------------------------------------------------
(* The code's matching is the one of prefixes.                             *)
LEMMA MatchIs ==
  ASSUME NEW rule, NEW ip
  PROVE  is_rule_match(rule, ip) <=> Matches(rule, ip)
  BY Zenon DEF is_rule_match, Matches, Prefix

(* Of the first n rules `best' is the one that decides, or none matches.   *)
BestOf(table, ip, n, best) ==
  IF best = NoRule THEN \A m \in 1..n : ~Matches(table[m], ip)
  ELSE /\ \E m \in 1..n : best = table[m]
       /\ Matches(best, ip)
       /\ \A m \in 1..n :
            Matches(table[m], ip) => table[m].prefix_length <= best.prefix_length

(* What the loop over the routes leaves is the best of all of them.        *)
LEMMA BestIs ==
  ASSUME NEW table \in Seq(Rule), NoRule \notin Range(table), NEW ip
  PROVE  BestOf(table, ip, Len(table), best_rule(table, ip))
<1> DEFINE top == Len(table)
           S == Range(table) \cup {NoRule}
           Turn(n, b) == IF is_rule_match(table[n], ip) /\ Better(table[n], b)
                         THEN table[n] ELSE b
           step == [n \in 1..top |-> [b \in S |-> Turn(n, b)]]
           best == CHOOSE f : f = [n \in 0..top |->
                     IF n = 0 THEN NoRule
                     ELSE IF is_rule_match(table[n], ip) /\ Better(table[n], f[n - 1])
                          THEN table[n] ELSE f[n - 1]]
<1>1. /\ top \in Nat /\ DOMAIN table = 1..top
      /\ \A n \in 1..top : table[n] \in Rule /\ table[n] \in S /\ table[n] # NoRule
  BY LenProperties DEF Range
<1>2. best_rule(table, ip) = best[top]
  BY DEF best_rule
<1>3. \E f : Iterates(f, S, NoRule, top, step)
  <2>1. \A n \in 1..top : \A b \in S : Turn(n, b) \in S
    BY <1>1
  <2>2. step \in [1..top -> [S -> S]]
    BY <2>1
  <2>3. NoRule \in S
    OBVIOUS
  <2> HIDE DEF step, S, top
  <2> QED
    BY <1>1, <2>2, <2>3, RecursionExists
<1>4. \E f : f = [n \in 0..top |->
                    IF n = 0 THEN NoRule
                    ELSE IF is_rule_match(table[n], ip) /\ Better(table[n], f[n - 1])
                         THEN table[n] ELSE f[n - 1]]
  <2>1. PICK f : Iterates(f, S, NoRule, top, step)
    BY <1>3
  <2>2. f \in [0..top -> S] /\ f[0] = NoRule
    BY <2>1 DEF Iterates
  <2>3. ASSUME NEW n \in 1..top PROVE f[n] = Turn(n, f[n - 1])
    <3>1. n - 1 \in 0..top
      BY <1>1
    <3>2. f[n] = step[n][f[n - 1]] /\ f[n - 1] \in S
      BY <2>1, <2>2, <3>1 DEF Iterates
    <3> QED
      BY <3>2
  <2>4. \A n \in 0..top : f[n] = IF n = 0 THEN NoRule ELSE Turn(n, f[n - 1])
    <3>1. \A n \in 0..top : n = 0 \/ n \in 1..top
      BY <1>1
    <3> HIDE DEF Turn
    <3> QED
      BY <2>2, <2>3, <3>1
  <2>5. f = [n \in 0..top |-> IF n = 0 THEN NoRule ELSE Turn(n, f[n - 1])]
    <3> HIDE DEF Turn, S
    <3> QED
      BY <2>2, <2>4
  <2> QED
    BY <2>5
<1>5. best = [n \in 0..top |->
                IF n = 0 THEN NoRule
                ELSE IF is_rule_match(table[n], ip) /\ Better(table[n], best[n - 1])
                     THEN table[n] ELSE best[n - 1]]
  BY <1>4
<1> HIDE DEF best, top
<1>6. best[0] = NoRule
  BY <1>1, <1>5
<1>7. ASSUME NEW n \in 1..top
      PROVE  best[n] = IF Matches(table[n], ip) /\ Better(table[n], best[n - 1])
                       THEN table[n] ELSE best[n - 1]
  <2>1. n \in 0..top /\ n # 0
    BY <1>1
  <2> QED
    BY <1>5, <2>1, MatchIs
<1> DEFINE wrong == {n \in 0..top : ~BestOf(table, ip, n, best[n])}
<1>8. SUFFICES ASSUME wrong # {} PROVE FALSE
  <2>1. top \in 0..top
    BY <1>1
  <2> QED
    BY <1>2, <2>1 DEF top
<1>9. PICK n \in wrong : \A j \in wrong : n <= j
  <2>1. wrong \subseteq Nat
    BY <1>1
  <2> HIDE DEF wrong
  <2> QED
    BY <1>8, <2>1, LeastExists
<1>10. n \in 0..top /\ ~BestOf(table, ip, n, best[n])
  OBVIOUS
<1>11. n # 0
  BY <1>6, <1>10 DEF BestOf
<1>12. n \in 1..top /\ n - 1 \in 0..top /\ ~(n <= n - 1)
  BY <1>1, <1>10, <1>11
<1>13. BestOf(table, ip, n - 1, best[n - 1])
  BY <1>9, <1>12
<1> HIDE DEF wrong
<1>14. \A m \in 1..n : m = n \/ m \in 1..(n - 1)
  BY <1>12
<1>15. \A m \in 1..(n - 1) : m \in 1..n /\ m \in 1..top
  BY <1>1, <1>12
<1>16. PICK old, new, r : old = best[n - 1] /\ new = best[n] /\ r = table[n]
  OBVIOUS
<1>17. /\ r \in Rule /\ r # NoRule
       /\ new = IF Matches(r, ip) /\ Better(r, old) THEN r ELSE old
  BY <1>1, <1>7, <1>12, <1>16
<1>18. r.prefix_length \in Nat
  BY <1>17 DEF Rule
<1>19. CASE old = NoRule
  <2>1. Better(r, old)
    BY <1>19 DEF Better
  <2>2. \A m \in 1..(n - 1) : ~Matches(table[m], ip)
    BY <1>13, <1>16, <1>19 DEF BestOf
  <2>3. CASE Matches(r, ip)
    <3>1. new = r
      BY <1>17, <2>1, <2>3
    <3>2. \A m \in 1..n : Matches(table[m], ip) => table[m].prefix_length <= r.prefix_length
      BY <1>14, <1>16, <1>18, <2>2
    <3> QED
      BY <1>10, <1>12, <1>16, <1>17, <2>3, <3>1, <3>2 DEF BestOf
  <2>4. CASE ~Matches(r, ip)
    <3>1. new = NoRule
      BY <1>17, <1>19, <2>4
    <3>2. \A m \in 1..n : ~Matches(table[m], ip)
      BY <1>14, <1>16, <2>2, <2>4
    <3> QED
      BY <1>10, <1>16, <3>1, <3>2 DEF BestOf
  <2> QED
    BY <2>3, <2>4
<1>20. CASE old # NoRule
  <2>1. PICK k \in 1..(n - 1) : old = table[k]
    BY <1>13, <1>16, <1>20 DEF BestOf
  <2>2. old.prefix_length \in Nat
    BY <1>1, <1>15, <2>1 DEF Rule
  <2>3. /\ Matches(old, ip)
        /\ \A m \in 1..(n - 1) :
             Matches(table[m], ip) => table[m].prefix_length <= old.prefix_length
    BY <1>13, <1>16, <1>20 DEF BestOf
  <2>4. Better(r, old) <=> r.prefix_length > old.prefix_length
    BY <1>20 DEF Better
  <2>5. CASE Matches(r, ip) /\ Better(r, old)
    <3>1. new = r
      BY <1>17, <2>5
    <3>2. ASSUME NEW m \in 1..n, Matches(table[m], ip)
          PROVE  table[m].prefix_length <= r.prefix_length
      <4>1. CASE m = n
        BY <1>16, <1>18, <4>1
      <4>2. CASE m \in 1..(n - 1)
        <5>1. table[m].prefix_length \in Nat
          BY <1>1, <1>15, <4>2 DEF Rule
        <5> QED
          BY <1>18, <2>2, <2>3, <2>4, <2>5, <3>2, <4>2, <5>1
      <4> QED
        BY <1>14, <4>1, <4>2
    <3> QED
      BY <1>10, <1>12, <1>16, <1>17, <2>5, <3>1, <3>2 DEF BestOf
  <2>6. CASE ~(Matches(r, ip) /\ Better(r, old))
    <3>1. new = old
      BY <1>17, <2>6
    <3>2. ASSUME NEW m \in 1..n, Matches(table[m], ip)
          PROVE  table[m].prefix_length <= old.prefix_length
      <4>1. CASE m = n
        BY <1>16, <1>18, <2>2, <2>4, <2>6, <3>2, <4>1
      <4>2. CASE m \in 1..(n - 1)
        BY <2>3, <3>2, <4>2
      <4> QED
        BY <1>14, <4>1, <4>2
    <3>3. k \in 1..n
      BY <1>15, <2>1
    <3> QED
      BY <1>10, <1>16, <1>20, <2>1, <2>3, <3>1, <3>2, <3>3 DEF BestOf
  <2> QED
    BY <2>5, <2>6
<1> QED
  BY <1>19, <1>20

-----------------------------------------------------------------------------
(* How many elements of a sequence are in T.                               *)
On(s, T) == {i \in DOMAIN s : s[i] \in T}
Count(s, T) == Cardinality(On(s, T))

(* As many as there are, and not more than that.                           *)
LEMMA CountFacts ==
  ASSUME NEW S, NEW s \in Seq(S), NEW T
  PROVE  IsFiniteSet(On(s, T)) /\ Count(s, T) \in Nat
<1>1. PICK n \in Nat : DOMAIN s = 1..n
  BY LenProperties
<1>2. On(s, T) \in SUBSET (1..n) /\ IsFiniteSet(1..n)
  BY <1>1, FS_Interval DEF On
<1>3. IsFiniteSet(On(s, T))
  BY <1>2, FS_Subset
<1> QED
  BY <1>3, FS_CardinalityType DEF Count

(* The elements of a sequence, one by one replaced.                        *)
LEMMA CountSame ==
  ASSUME NEW s, NEW t, DOMAIN s = DOMAIN t, NEW T, NEW U,
         \A i \in DOMAIN s : s[i] \in T <=> t[i] \in U
  PROVE  Count(s, T) = Count(t, U)
<1>1. On(s, T) = On(t, U)
  BY DEF On
<1> QED
  BY <1>1 DEF Count

(* Of none, and of one.                                                    *)
LEMMA CountFew ==
  ASSUME NEW T
  PROVE  /\ Count(<< >>, T) = 0
         /\ \A x : Count(<<x>>, T) = IF x \in T THEN 1 ELSE 0
<1>1. On(<< >>, T) = {}
  BY DEF On
<1>2. Count(<< >>, T) = 0
  BY <1>1, FS_EmptySet DEF Count
<1>3. ASSUME NEW x PROVE Count(<<x>>, T) = IF x \in T THEN 1 ELSE 0
  <2>1. PICK s : s = <<x>> /\ DOMAIN s = {1} /\ s[1] = x
    <3>1. DOMAIN <<x>> = {1} /\ <<x>>[1] = x
      OBVIOUS
    <3> QED
      BY <3>1, Zenon
  <2>2. On(s, T) = IF x \in T THEN {1} ELSE {}
    BY <2>1 DEF On
  <2>3. Cardinality({1}) = 1 /\ Cardinality({}) = 0
    BY FS_Singleton, FS_EmptySet
  <2> QED
    BY <2>1, <2>2, <2>3 DEF Count
<1> QED
  BY <1>2, <1>3

(* Of one sequence after another.                                          *)
LEMMA CountConcat ==
  ASSUME NEW S, NEW s \in Seq(S), NEW t \in Seq(S), NEW T
  PROVE  Count(s \o t, T) = Count(s, T) + Count(t, T)
<1>1. PICK m, n \in Nat : m = Len(s) /\ n = Len(t) /\ DOMAIN s = 1..m /\ DOMAIN t = 1..n
  BY LenProperties
<1>2. PICK u : u = s \o t
  OBVIOUS
<1>3. /\ DOMAIN u = 1..(m + n)
      /\ \A i \in 1..m : u[i] = s[i]
      /\ \A i \in 1..n : u[m + i] = t[i]
  <2>1. u \in Seq(S) /\ Len(u) = m + n
    BY <1>1, <1>2
  <2>2. \A i \in 1..(m + n) : u[i] = IF i <= m THEN s[i] ELSE t[i - m]
    BY <1>1, <1>2
  <2>3. \A i \in 1..m : i \in 1..(m + n) /\ i <= m
    BY <1>1
  <2>4. \A i \in 1..n : m + i \in 1..(m + n) /\ ~(m + i <= m) /\ (m + i) - m = i
    BY <1>1
  <2>5. DOMAIN u = 1..(m + n)
    BY <1>1, <2>1, LenProperties
  <2> QED
    BY <2>2, <2>3, <2>4, <2>5
<1>4. PICK A, B, C : A = On(s, T) /\ C = On(t, T) /\ B = {i \in 1..(m + n) : i > m /\ u[i] \in T}
  OBVIOUS
<1>5. On(u, T) = A \cup B /\ A \cap B = {}
  <2>1. \A i \in 1..(m + n) : i > m \/ i \in 1..m
    BY <1>1
  <2>2. \A i \in 1..m : i \in 1..(m + n) /\ ~(i > m)
    BY <1>1
  <2> QED
    BY <1>1, <1>3, <1>4, <2>1, <2>2 DEF On
<1>6. IsFiniteSet(A) /\ IsFiniteSet(C)
  BY <1>4, CountFacts
<1>7. IsFiniteSet(B) /\ Cardinality(B) = Cardinality(C)
  <2>1. PICK f : f = [i \in C |-> m + i]
    OBVIOUS
  <2>2. \A i \in C : i \in 1..n /\ t[i] \in T
    BY <1>1, <1>4 DEF On
  <2>3. \A i \in C : f[i] \in B
    <3>1. ASSUME NEW i \in C PROVE f[i] \in B
      <4>1. i \in 1..n /\ u[m + i] \in T /\ f[i] = m + i
        BY <1>3, <2>1, <2>2
      <4>2. m + i \in 1..(m + n) /\ m + i > m
        BY <1>1, <4>1
      <4> QED
        BY <1>4, <4>1, <4>2
    <3> QED
      BY <3>1
  <2>4. \A i, j \in C : f[i] = f[j] => i = j
    BY <1>1, <2>1, <2>2
  <2>5. \A b \in B : \E i \in C : f[i] = b
    <3>1. ASSUME NEW b \in B PROVE \E i \in C : f[i] = b
      <4>1. b \in 1..(m + n) /\ b > m /\ u[b] \in T
        BY <1>4
      <4>2. PICK i \in 1..n : b = m + i
        <5>1. b - m \in 1..n /\ b = m + (b - m)
          BY <1>1, <4>1
        <5> QED
          BY <5>1
      <4>3. i \in C
        BY <1>1, <1>3, <1>4, <4>1, <4>2 DEF On
      <4> QED
        BY <2>1, <4>2, <4>3
    <3> QED
      BY <3>1
  <2>6. f \in [C -> B]
    BY <2>1, <2>3
  <2>7. f \in Bijection(C, B)
    BY <2>4, <2>5, <2>6 DEF Bijection, Injection, IsInjective, Surjection
  <2>8. ExistsBijection(C, B)
    BY <2>7 DEF ExistsBijection
  <2> QED
    BY <1>6, <2>8, FS_Bijection
<1>8. Cardinality(A \cup B) = Cardinality(A) + Cardinality(B) - Cardinality(A \cap B)
  BY <1>6, <1>7, FS_Union
<1>9. Cardinality(A \cap B) = 0 /\ Cardinality(A) \in Nat /\ Cardinality(B) \in Nat
  BY <1>5, <1>6, <1>7, FS_EmptySet, FS_CardinalityType
<1>10. PICK a, b \in Nat : a = Cardinality(A) /\ b = Cardinality(B)
  BY <1>9
<1>11. Cardinality(A \cup B) = a + b
  BY <1>8, <1>9, <1>10
<1>12. /\ Count(s \o t, T) = Cardinality(A \cup B)
       /\ Count(s, T) = Cardinality(A) /\ Count(t, T) = Cardinality(B)
  BY <1>2, <1>4, <1>5, <1>7, Zenon DEF Count
<1> QED
  BY <1>10, <1>11, <1>12

(* The first element of a sequence, and the others.                        *)
LEMMA FirstAndRest ==
  ASSUME NEW S, NEW s \in Seq(S), s # << >>
  PROVE  Head(s) \in S /\ Tail(s) \in Seq(S)
OBVIOUS

(* The elements of a sequence are finitely many, and no more than places.  *)
LEMMA CountRange ==
  ASSUME NEW S, NEW s \in Seq(S)
  PROVE  /\ IsFiniteSet(Range(s))
         /\ \A T : Cardinality(Range(s) \cap T) <= Count(s, T)
<1>1. ASSUME NEW T
      PROVE  /\ IsFiniteSet(Range(s) \cap T)
             /\ Cardinality(Range(s) \cap T) <= Count(s, T)
  <2>1. PICK I, R : I = On(s, T) /\ R = Range(s) \cap T
    OBVIOUS
  <2>2. PICK f : f = [i \in I |-> s[i]]
    OBVIOUS
  <2>3. f \in Surjection(I, R)
    <3>1. \A i \in I : s[i] \in R
      BY <2>1 DEF On, Range
    <3>2. \A x \in R : \E i \in I : s[i] = x
      BY <2>1 DEF On, Range
    <3> QED
      BY <2>2, <3>1, <3>2 DEF Surjection
  <2>4. IsFiniteSet(I)
    BY <2>1, CountFacts
  <2> QED
    BY <2>1, <2>3, <2>4, FS_Surjection DEF Count
<1>2. Range(s) \cap Range(s) = Range(s)
  OBVIOUS
<1> QED
  BY <1>1, <1>2

(* Of the first element and the others.                                    *)
LEMMA CountFirst ==
  ASSUME NEW S, NEW s \in Seq(S), s # << >>, NEW T
  PROVE  Count(s, T) = (IF Head(s) \in T THEN 1 ELSE 0) + Count(Tail(s), T)
<1>1. PICK x, t : x = Head(s) /\ t = Tail(s)
  OBVIOUS
<1>2. x \in S /\ t \in Seq(S) /\ <<x>> \in Seq(S)
  BY <1>1, FirstAndRest
<1>3. s = <<x>> \o t
  <2>1. PICK u : u = <<x>> \o t
    OBVIOUS
  <2>2. /\ Len(s) \in Nat \ {0} /\ Len(t) = Len(s) - 1 /\ u \in Seq(S)
        /\ Len(u) = Len(s)
    BY <1>1, <1>2, <2>1
  <2>3. \A i \in 1..Len(s) : u[i] = s[i]
    BY <1>1, <1>2, <2>1, <2>2
  <2> QED
    BY <2>1, <2>2, <2>3, SeqEqual
<1>4. Count(s, T) = Count(<<x>>, T) + Count(t, T)
  BY <1>2, <1>3, CountConcat
<1>5. Count(<<x>>, T) = IF x \in T THEN 1 ELSE 0
  BY CountFew
<1> QED
  BY <1>1, <1>4, <1>5

(* Ascending lists every number once.                                      *)
LEMMA AscendingGrows ==
  ASSUME NEW I, NEW n \in Nat
  PROVE  \A i, j \in DOMAIN Ascending(I, n) : i < j => Ascending(I, n)[i] < Ascending(I, n)[j]
<1>1. PICK f : IsAscent(f, I, n) /\ Ascending(I, n) = f[n]
  BY AscendingIs
<1>2. \A m \in 0..n :
        f[m] = IF m = 0 THEN << >> ELSE IF m \in I THEN Append(f[m - 1], m) ELSE f[m - 1]
  BY <1>1 DEF IsAscent
<1> DEFINE Grows(s, m) == /\ s \in Seq(Nat)
                          /\ \A i \in DOMAIN s : s[i] <= m
                          /\ \A i, j \in DOMAIN s : i < j => s[i] < s[j]
           wrong == {m \in 0..n : ~Grows(f[m], m)}
<1>3. SUFFICES ASSUME wrong # {} PROVE FALSE
  <2>1. n \in 0..n
    OBVIOUS
  <2> QED
    BY <1>1, <2>1
<1>4. PICK m \in wrong : \A j \in wrong : m <= j
  <2>1. wrong \subseteq Nat
    OBVIOUS
  <2> HIDE DEF wrong
  <2> QED
    BY <1>3, <2>1, LeastExists
<1>5. m \in 0..n /\ ~Grows(f[m], m)
  OBVIOUS
<1>6. m # 0
  <2>1. f[0] = << >>
    BY <1>2
  <2>2. Grows(<< >>, 0)
    OBVIOUS
  <2> HIDE DEF Grows
  <2> QED
    BY <1>5, <2>1, <2>2
<1>7. m - 1 \in 0..n /\ ~(m <= m - 1)
  BY <1>5, <1>6
<1>8. Grows(f[m - 1], m - 1)
  BY <1>4, <1>7
<1> HIDE DEF wrong
<1>9. PICK s, t : s = f[m - 1] /\ t = f[m]
  OBVIOUS
<1>10. t = IF m \in I THEN Append(s, m) ELSE s
  BY <1>2, <1>5, <1>6, <1>9
<1>11. PICK k \in Nat : k = Len(s) /\ DOMAIN s = 1..k
  BY <1>8, <1>9, LenProperties
<1>12. /\ s \in Seq(Nat) /\ \A i \in 1..k : s[i] <= m - 1 /\ s[i] \in Nat
       /\ \A i, j \in 1..k : i < j => s[i] < s[j]
  BY <1>8, <1>9, <1>11
<1> HIDE DEF Grows
<1>13. CASE m \in I
  <2>1. t \in Seq(Nat) /\ Len(t) = k + 1
    BY <1>5, <1>10, <1>11, <1>12, <1>13
  <2>2. DOMAIN t = 1..(k + 1)
    BY <2>1, LenProperties
  <2>3. t[k + 1] = m /\ \A i \in 1..k : t[i] = s[i]
    BY <1>5, <1>10, <1>11, <1>12, <1>13
  <2>4. \A i \in 1..(k + 1) : i = k + 1 \/ (i \in 1..k /\ i < k + 1)
    OBVIOUS
  <2>5. \A i \in 1..(k + 1) : t[i] <= m
    BY <1>5, <1>12, <2>3, <2>4
  <2>6. ASSUME NEW i \in 1..(k + 1), NEW j \in 1..(k + 1), i < j PROVE t[i] < t[j]
    <3>1. i \in 1..k
      BY <2>6
    <3>2. CASE j = k + 1
      BY <1>5, <1>12, <2>3, <3>1, <3>2
    <3>3. CASE j \in 1..k
      BY <1>12, <2>3, <2>6, <3>1, <3>3
    <3> QED
      BY <2>4, <3>2, <3>3
  <2>7. Grows(t, m)
    BY <2>1, <2>2, <2>5, <2>6 DEF Grows
  <2> QED
    BY <1>5, <1>9, <2>7
<1>14. CASE m \notin I
  <2>1. \A i \in 1..k : s[i] <= m
    BY <1>5, <1>12
  <2>2. Grows(s, m)
    BY <1>11, <1>12, <2>1 DEF Grows
  <2> QED
    BY <1>5, <1>9, <1>10, <1>14, <2>2
<1> QED
  BY <1>13, <1>14

(* What is chosen at two sets of places that have none in common is not    *)
(* more than there was.                                                    *)
LEMMA CountChosen ==
  ASSUME NEW S, NEW s \in Seq(S), NEW I, NEW J, I \cap J = {}, NEW T
  PROVE  /\ Count(Chosen(s, I), T) + Count(Chosen(s, J), T) <= Count(s, T)
         /\ Count(Chosen(s, I), T) <= Count(s, T)
<1>1. PICK n \in Nat : n = Len(s) /\ DOMAIN s = 1..n
  BY LenProperties
<1> DEFINE Here(K) == {i \in On(s, T) : i \in K}
<1>2. ASSUME NEW K PROVE /\ Count(Chosen(s, K), T) <= Cardinality(Here(K))
                         /\ Count(Chosen(s, K), T) \in Nat
                         /\ IsFiniteSet(Here(K))
  <2>1. PICK at : at = Ascending(K, n) /\ at \in Seq(K \cap (1..n))
    BY <1>1, AscendingType
  <2>2. PICK t : t = Chosen(s, K) /\ t = [j \in DOMAIN at |-> s[at[j]]]
    BY <1>1, <2>1 DEF Chosen
  <2>3. PICK k \in Nat : DOMAIN at = 1..k
    BY <2>1, LenProperties
  <2>4. \A j \in 1..k : at[j] \in K /\ at[j] \in 1..n
    BY <2>1, <2>3
  <2>5. \A i, j \in 1..k : i < j => at[i] < at[j]
    BY <2>1, <2>3, AscendingGrows
  <2>6. \A i, j \in 1..k : at[i] = at[j] => i = j
    <3>1. SUFFICES ASSUME NEW i \in 1..k, NEW j \in 1..k, at[i] = at[j] PROVE i = j
      OBVIOUS
    <3>2. at[i] \in Int /\ at[j] \in Int
      BY <2>4
    <3>3. ~(i < j) /\ ~(j < i)
      BY <2>5, <3>1, <3>2
    <3> QED
      BY <3>3
  <2>7. PICK A, B : A = On(t, T) /\ B = Here(K)
    OBVIOUS
  <2>8. \A j \in A : j \in 1..k /\ at[j] \in B
    BY <1>1, <2>2, <2>3, <2>4, <2>7 DEF On
  <2>9. PICK f : f = [j \in A |-> at[j]]
    OBVIOUS
  <2>10. f \in Injection(A, B)
    BY <2>6, <2>8, <2>9 DEF Injection, IsInjective
  <2>11. IsFiniteSet(B)
    <3>1. B \in SUBSET On(s, T) /\ IsFiniteSet(On(s, T))
      BY <2>7, CountFacts
    <3> QED
      BY <3>1, FS_Subset
  <2>12. Cardinality(A) <= Cardinality(B) /\ IsFiniteSet(A)
    BY <2>10, <2>11, FS_Injection
  <2>13. Cardinality(A) \in Nat
    BY <2>12, FS_CardinalityType
  <2> HIDE DEF Here
  <2> QED
    BY <2>2, <2>7, <2>11, <2>12, <2>13 DEF Count
<1>3. PICK A, B, C : A = Here(I) /\ B = Here(J) /\ C = On(s, T)
  OBVIOUS
<1>4. A \cap B = {} /\ A \cup B \in SUBSET C /\ A \in SUBSET C
  BY <1>3
<1> HIDE DEF Here
<1>5. IsFiniteSet(A) /\ IsFiniteSet(B) /\ IsFiniteSet(C) /\ Cardinality(C) \in Nat
  BY <1>2, <1>3, CountFacts, FS_CardinalityType
<1>6. Cardinality(A) \in Nat /\ Cardinality(B) \in Nat
  BY <1>5, FS_CardinalityType
<1>7. Cardinality(A \cup B) = Cardinality(A) + Cardinality(B)
  <2>1. Cardinality(A \cup B) = Cardinality(A) + Cardinality(B) - Cardinality(A \cap B)
    BY <1>5, FS_Union
  <2>2. Cardinality(A \cap B) = 0
    BY <1>4, FS_EmptySet
  <2> QED
    BY <1>6, <2>1, <2>2
<1>8. Cardinality(A \cup B) <= Cardinality(C) /\ Cardinality(A) <= Cardinality(C)
  BY <1>4, <1>5, FS_Subset
<1>9. /\ Count(Chosen(s, I), T) <= Cardinality(A) /\ Count(Chosen(s, I), T) \in Nat
      /\ Count(Chosen(s, J), T) <= Cardinality(B) /\ Count(Chosen(s, J), T) \in Nat
  BY <1>2, <1>3
<1>10. Count(s, T) = Cardinality(C)
  BY <1>3 DEF Count
<1> QED
  BY <1>5, <1>6, <1>7, <1>8, <1>9, <1>10
-----------------------------------------------------------------------------
(* What travels: the datagrams of the traffic, whatever became of their    *)
(* hop limits and checksums, and the frames that carry them or an ARP      *)
(* message.  An interface has one number for both of its addresses.        *)
Datagram ==
  [id : {dgram.id : dgram \in Traffic}, src : Nat, dst : Nat, ttl : Nat, cksum : Nat]

Waiter == [dgram : Datagram, next_hop : Nat, enqueue_time : Nat]

ArpMessage ==
  {m \in [opcode : {"REQUEST", "REPLY"}, supported : {TRUE},
          sender_ethernet_address : Nat, sender_ip_address : Nat,
          target_ethernet_address : Nat, target_ip_address : Nat] :
     m.sender_ethernet_address = m.sender_ip_address}

ArpFrames == [src : Nat, dst : Nat, type : {"ARP"}, payload : ArpMessage]
DataFrames == [src : Nat, dst : Nat, type : {"IPv4"}, payload : Datagram]
Frame == ArpFrames \cup DataFrames

(* A set P of pairs says which datagram may go to which next hop: what     *)
(* waits and what is transmitted must be among them.                       *)
Pair == Datagram \X Nat
Waiters(P) == {w \in Waiter : <<w.dgram, w.next_hop>> \in P}
FramesTo(P) == {frame \in Frame : IsDatagram(frame) => <<frame.payload, frame.dst>> \in P}

(* An interface that has learnt nothing but the truth.                     *)
IsInterface(n, P) ==
  /\ n = [ethernet_address |-> n.ethernet_address, ip_address |-> n.ip_address,
          datagrams_received |-> n.datagrams_received,
          ip_frames_out |-> n.ip_frames_out, arp_cache |-> n.arp_cache,
          arp_request_time |-> n.arp_request_time, now |-> n.now]
  /\ n.ip_address \in Nat /\ n.ethernet_address = n.ip_address
  /\ n.ip_frames_out \in Seq(Waiters(P))
  /\ \A ip \in DOMAIN n.arp_cache : n.arp_cache[ip].address = ip
  /\ n.now \in Nat

(* What an operation of n comes to.                                        *)
Sends(result, n, P) ==
  /\ IsInterface(result.nic, P) /\ result.nic.ip_address = n.ip_address
  /\ result.frames \in Seq(FramesTo(P))

(* What of datagram id waits in an interface, what it has received and not *)
(* handed on, and what is in frames.                                       *)
WaiterFor(id)   == {w \in Waiter : w.dgram.id = id}
DatagramFor(id) == {dgram \in Datagram : dgram.id = id}
FrameFor(id)    == {frame \in Frame : IsDatagram(frame) /\ frame.payload.id = id}

Waiting(n, id)     == Count(n.ip_frames_out, WaiterFor(id))
Held(n, id)        == Count(n.datagrams_received, DatagramFor(id))
Flying(frames, id) == Count(frames, FrameFor(id))

One(b) == IF b THEN 1 ELSE 0

(* They are numbers.                                                       *)
LEMMA Numbers ==
  ASSUME NEW P, NEW id
  PROVE  /\ \A n : IsInterface(n, P) => Waiting(n, id) \in Nat
         /\ \A frames \in Seq(FramesTo(P)) : Flying(frames, id) \in Nat
BY CountFacts DEF IsInterface, Waiting, Flying

(* The fields of an interface may be replaced one by one.                  *)
LEMMA InterfaceOf ==
  ASSUME NEW P, NEW a \in Nat, NEW received,
         NEW out \in Seq(Waiters(P)), NEW cache, NEW times, NEW now \in Nat,
         \A ip \in DOMAIN cache : cache[ip].address = ip,
         NEW n, n = [ethernet_address |-> a, ip_address |-> a,
                     datagrams_received |-> received, ip_frames_out |-> out,
                     arp_cache |-> cache, arp_request_time |-> times, now |-> now]
  PROVE  IsInterface(n, P)
<1>1. /\ n.ethernet_address = a /\ n.ip_address = a /\ n.datagrams_received = received
      /\ n.ip_frames_out = out /\ n.arp_cache = cache /\ n.arp_request_time = times
      /\ n.now = now
  OBVIOUS
<1> QED
  BY <1>1 DEF IsInterface

(* A new interface is one.                                                 *)
LEMMA NewKeeps ==
  ASSUME NEW P, NEW a \in Nat
  PROVE  /\ IsInterface(NewInterface(a, a), P)
         /\ NewInterface(a, a).datagrams_received = << >>
         /\ NewInterface(a, a).ip_address = a
         /\ \A id : Waiting(NewInterface(a, a), id) = 0
<1>1. << >> \in Seq(Waiters(P))
  OBVIOUS
<1>2. \A ip \in DOMAIN << >> : << >>[ip].address = ip
  OBVIOUS
<1>3. PICK n : n = NewInterface(a, a)
  OBVIOUS
<1>4. n = [ethernet_address |-> a, ip_address |-> a,
           datagrams_received |-> << >>, ip_frames_out |-> << >>,
           arp_cache |-> << >>, arp_request_time |-> << >>, now |-> 0]
  BY <1>3 DEF NewInterface
<1>5. PICK none : none = << >>
  OBVIOUS
<1>6. IsInterface(n, P)
  BY <1>1, <1>2, <1>4, <1>5, InterfaceOf
<1>7. \A id : Waiting(n, id) = 0
  <2>1. n.ip_frames_out = << >>
    BY <1>4
  <2> QED
    BY <2>1, CountFew DEF Waiting
<1> QED
  BY <1>3, <1>4, <1>6, <1>7

(* An ARP message, and a datagram, in a frame.                             *)
LEMMA FrameFacts ==
  ASSUME NEW P, NEW n, IsInterface(n, P), NEW dst \in Nat
  PROVE  /\ \A opcode \in {"REQUEST", "REPLY"} : \A ethernet, ip \in Nat :
              ArpFrame(n, dst, opcode, ethernet, ip) \in FramesTo(P)
         /\ \A dgram \in Datagram :
              /\ <<dgram, dst>> \in P => send_eth_datagram(n, dgram, dst) \in FramesTo(P)
              /\ \A id : send_eth_datagram(n, dgram, dst) \in FrameFor(id) <=> dgram.id = id
         /\ \A opcode, ethernet, ip, id :
              ArpFrame(n, dst, opcode, ethernet, ip) \notin FrameFor(id)
<1>1. n.ip_address \in Nat /\ n.ethernet_address = n.ip_address
  BY DEF IsInterface
<1>2. ASSUME NEW opcode \in {"REQUEST", "REPLY"}, NEW ethernet \in Nat, NEW ip \in Nat
      PROVE  ArpFrame(n, dst, opcode, ethernet, ip) \in FramesTo(P)
  <2>1. PICK frame : frame = ArpFrame(n, dst, opcode, ethernet, ip)
    OBVIOUS
  <2>2. PICK m : m = [opcode |-> opcode, supported |-> TRUE,
                      sender_ethernet_address |-> n.ethernet_address,
                      sender_ip_address |-> n.ip_address,
                      target_ethernet_address |-> ethernet, target_ip_address |-> ip]
    OBVIOUS
  <2>3. m \in ArpMessage
    BY <1>1, <2>2 DEF ArpMessage
  <2>4. frame = [src |-> n.ethernet_address, dst |-> dst, type |-> "ARP", payload |-> m]
    BY <2>1, <2>2 DEF ArpFrame
  <2>5. frame \in ArpFrames /\ frame.type = "ARP"
    BY <1>1, <2>3, <2>4 DEF ArpFrames
  <2> QED
    BY <2>1, <2>5 DEF FramesTo, Frame, IsDatagram
<1>3. ASSUME NEW dgram \in Datagram
      PROVE  /\ <<dgram, dst>> \in P => send_eth_datagram(n, dgram, dst) \in FramesTo(P)
             /\ \A id : send_eth_datagram(n, dgram, dst) \in FrameFor(id) <=> dgram.id = id
  <2>1. PICK frame : frame = send_eth_datagram(n, dgram, dst)
    OBVIOUS
  <2>2. frame = [src |-> n.ethernet_address, dst |-> dst, type |-> "IPv4", payload |-> dgram]
    BY <2>1 DEF send_eth_datagram
  <2>3. /\ frame \in DataFrames /\ frame.dst = dst /\ frame.payload = dgram
        /\ IsDatagram(frame)
    BY <1>1, <2>2 DEF DataFrames, IsDatagram
  <2> QED
    BY <2>1, <2>3 DEF FramesTo, FrameFor, Frame
<1>4. ASSUME NEW opcode, NEW ethernet, NEW ip, NEW id
      PROVE  ArpFrame(n, dst, opcode, ethernet, ip) \notin FrameFor(id)
  BY DEF ArpFrame, FrameFor, IsDatagram
<1> QED
  BY <1>2, <1>3, <1>4

(* What is sent goes to its next hop: to its address, which is known, or   *)
(* into the queue.                                                         *)
LEMMA SendKeeps ==
  ASSUME NEW P, NEW n, IsInterface(n, P), NEW dgram \in Datagram, NEW hop \in Nat,
         <<dgram, hop>> \in P
  PROVE  /\ Sends(send_datagram(n, dgram, hop), n, P)
         /\ send_datagram(n, dgram, hop).nic.datagrams_received = n.datagrams_received
         /\ \A id : Waiting(send_datagram(n, dgram, hop).nic, id)
                      + Flying(send_datagram(n, dgram, hop).frames, id)
                    = Waiting(n, id) + One(dgram.id = id)
<1>1. PICK result : result = send_datagram(n, dgram, hop)
  OBVIOUS
<1>2. CASE hop \in DOMAIN n.arp_cache
  <2>1. n.arp_cache[hop].address = hop
    BY <1>2 DEF IsInterface
  <2>2. PICK frame : frame = send_eth_datagram(n, dgram, hop)
    OBVIOUS
  <2>3. frame \in FramesTo(P)
    BY <2>2, FrameFacts
  <2>4. result = [nic |-> n, frames |-> <<frame>>]
    BY <1>1, <1>2, <2>1, <2>2 DEF send_datagram
  <2>5. result.nic = n /\ result.frames \in Seq(FramesTo(P))
    <3> HIDE DEF FramesTo
    <3> QED
      BY <2>3, <2>4
  <2>6. ASSUME NEW id PROVE Flying(<<frame>>, id) = One(dgram.id = id)
    <3>1. frame \in FrameFor(id) <=> dgram.id = id
      BY <2>2, FrameFacts
    <3> QED
      BY <3>1, CountFew DEF Flying, One
  <2>7. result.frames = <<frame>>
    BY <2>4
  <2> QED
    BY <1>1, <2>5, <2>6, <2>7 DEF Sends
<1>3. CASE hop \notin DOMAIN n.arp_cache
  <2>1. PICK asking, p, frames :
          /\ asking = Asked(n, hop) /\ p = asking.nic /\ frames = asking.frames
    OBVIOUS
  <2>2. result = [nic |-> Enqueue(p, dgram, hop), frames |-> frames]
    BY <1>1, <1>3, <2>1 DEF send_datagram
  <2>3. PICK times :
          /\ p = [ethernet_address |-> n.ip_address, ip_address |-> n.ip_address,
                  datagrams_received |-> n.datagrams_received,
                  ip_frames_out |-> n.ip_frames_out, arp_cache |-> n.arp_cache,
                  arp_request_time |-> times, now |-> n.now]
          /\ frames \in Seq(FramesTo(P)) /\ \A id : Flying(frames, id) = 0
    <3>1. CASE MayAsk(n, hop)
      <4>1. PICK frame : frame = send_arp_request(n, hop)
        OBVIOUS
      <4>2. frame \in FramesTo(P)
        BY <4>1, FrameFacts, NetworkAssumption DEF send_arp_request
      <4>3. frames = <<frame>>
        BY <2>1, <3>1, <4>1 DEF Asked
      <4>4. frames \in Seq(FramesTo(P))
        BY <4>2, <4>3
      <4>5. PICK times : times = Put(n.arp_request_time, hop, n.now)
        OBVIOUS
      <4>6. p = [n EXCEPT !.arp_request_time = times]
        BY <2>1, <3>1, <4>5 DEF Asked
      <4>7. p = [ethernet_address |-> n.ip_address, ip_address |-> n.ip_address,
                 datagrams_received |-> n.datagrams_received,
                 ip_frames_out |-> n.ip_frames_out, arp_cache |-> n.arp_cache,
                 arp_request_time |-> times, now |-> n.now]
        BY <4>6 DEF IsInterface
      <4>8. ASSUME NEW id PROVE Flying(frames, id) = 0
        <5>1. frame \notin FrameFor(id)
          BY <4>1, FrameFacts, NetworkAssumption DEF send_arp_request
        <5> QED
          BY <4>3, <5>1, CountFew DEF Flying
      <4> QED
        BY <4>4, <4>7, <4>8
    <3>2. CASE ~MayAsk(n, hop)
      <4>1. p = n /\ frames = << >>
        BY <2>1, <3>2 DEF Asked
      <4>2. \A id : Flying(frames, id) = 0
        BY <4>1, CountFew DEF Flying
      <4> QED
        BY <4>1, <4>2 DEF IsInterface
    <3> QED
      BY <3>1, <3>2
  <2>4. PICK w : w = [dgram |-> dgram, next_hop |-> hop, enqueue_time |-> n.now]
    OBVIOUS
  <2>5. w \in Waiters(P)
    BY <2>4 DEF Waiters, Waiter, IsInterface
  <2>6. PICK out : out = Append(n.ip_frames_out, w)
    OBVIOUS
  <2>7. out \in Seq(Waiters(P))
    BY <2>5, <2>6 DEF IsInterface
  <2>8. PICK q : q = Enqueue(p, dgram, hop)
    OBVIOUS
  <2>9. q = [ethernet_address |-> n.ip_address, ip_address |-> n.ip_address,
             datagrams_received |-> n.datagrams_received,
             ip_frames_out |-> out, arp_cache |-> n.arp_cache,
             arp_request_time |-> times, now |-> n.now]
    BY <2>3, <2>4, <2>6, <2>8 DEF Enqueue
  <2>10. /\ n.ip_address \in Nat /\ n.now \in Nat
         /\ \A ip \in DOMAIN n.arp_cache : n.arp_cache[ip].address = ip
    BY DEF IsInterface
  <2>11. IsInterface(q, P)
    BY <2>7, <2>9, <2>10, InterfaceOf
  <2>12. result.nic = q /\ result.frames = frames
    BY <2>2, <2>8
  <2>13. q.datagrams_received = n.datagrams_received /\ q.ip_address = n.ip_address
    BY <2>9
  <2>14. ASSUME NEW id PROVE Waiting(q, id) = Waiting(n, id) + One(dgram.id = id)
    <3>1. PICK old : old = n.ip_frames_out /\ old \in Seq(Waiters(P))
      BY DEF IsInterface
    <3>2. out = old \o <<w>> /\ <<w>> \in Seq(Waiters(P))
      <4> HIDE DEF Waiters
      <4> QED
        BY <2>5, <2>6, <3>1
    <3>3. w \in WaiterFor(id) <=> dgram.id = id
      BY <2>4, <2>5 DEF WaiterFor, Waiters
    <3>4. Count(out, WaiterFor(id)) = Count(old, WaiterFor(id)) + Count(<<w>>, WaiterFor(id))
      BY <3>1, <3>2, CountConcat
    <3>5. Count(<<w>>, WaiterFor(id)) = One(dgram.id = id)
      BY <3>3, CountFew DEF One
    <3>6. q.ip_frames_out = out
      BY <2>9
    <3> QED
      BY <3>1, <3>4, <3>5, <3>6 DEF Waiting
  <2>15. ASSUME NEW id
         PROVE  Waiting(q, id) + Flying(frames, id) = Waiting(n, id) + One(dgram.id = id)
    <3>1. PICK a \in Nat, b \in Nat : a = Waiting(n, id) /\ b = One(dgram.id = id)
      BY Numbers DEF One
    <3> QED
      BY <2>3, <2>14, <3>1
  <2> QED
    BY <1>1, <2>3, <2>11, <2>12, <2>13, <2>15 DEF Sends
<1> QED
  BY <1>2, <1>3

(* Time takes from the queue and from what was learnt.                     *)
LEMMA TickKeeps ==
  ASSUME NEW P, NEW n, IsInterface(n, P), NEW ms \in Nat
  PROVE  /\ IsInterface(tick(n, ms), P)
         /\ tick(n, ms).datagrams_received = n.datagrams_received
         /\ tick(n, ms).ip_address = n.ip_address
         /\ \A id : Waiting(tick(n, ms), id) <= Waiting(n, id)
<1>1. PICK now : now = (n.now + ms) % ClockSize
  OBVIOUS
<1>2. now \in Nat
  <2>1. n.now + ms \in Int /\ ClockSize \in Nat \ {0}
    BY NetworkAssumption DEF IsInterface
  <2>2. now \in 0..(ClockSize - 1)
    BY <1>1, <2>1, ModRange, Zenon
  <2> QED
    BY <2>1, <2>2
<1>3. PICK m : m = [n EXCEPT !.now = now]
  OBVIOUS
<1>4. m = [ethernet_address |-> n.ip_address, ip_address |-> n.ip_address,
           datagrams_received |-> n.datagrams_received,
           ip_frames_out |-> n.ip_frames_out, arp_cache |-> n.arp_cache,
           arp_request_time |-> n.arp_request_time, now |-> now]
  BY <1>3 DEF IsInterface
<1>5. m.arp_cache = n.arp_cache /\ m.ip_frames_out = n.ip_frames_out
  BY <1>4
<1>6. PICK live, kept : Expire(m) = [m EXCEPT !.arp_cache = Restrict(@, live),
                                              !.ip_frames_out = Chosen(@, kept)]
                        /\ live \subseteq DOMAIN n.arp_cache
  BY <1>5 DEF Expire
<1>7. PICK cache, out : cache = Restrict(n.arp_cache, live) /\ out = Chosen(n.ip_frames_out, kept)
  OBVIOUS
<1>8. PICK q : q = tick(n, ms)
  OBVIOUS
<1>9. q = Expire(m)
  BY <1>1, <1>3, <1>8 DEF tick
<1>10. q = [ethernet_address |-> n.ip_address, ip_address |-> n.ip_address,
            datagrams_received |-> n.datagrams_received,
            ip_frames_out |-> out, arp_cache |-> cache,
            arp_request_time |-> n.arp_request_time, now |-> now]
  BY <1>4, <1>5, <1>6, <1>7, <1>9
<1>11. \A ip \in DOMAIN cache : cache[ip].address = ip
  <2>1. \A ip \in DOMAIN n.arp_cache : n.arp_cache[ip].address = ip
    BY DEF IsInterface
  <2> QED
    BY <1>6, <1>7, <2>1 DEF Restrict
<1>12. out \in Seq(Waiters(P))
  BY <1>7, ChosenFacts DEF IsInterface
<1>13. n.ip_address \in Nat
  BY DEF IsInterface
<1>14. IsInterface(q, P)
  BY <1>2, <1>10, <1>11, <1>12, <1>13, InterfaceOf
<1>15. ASSUME NEW id PROVE Waiting(q, id) <= Waiting(n, id)
  <2>1. n.ip_frames_out \in Seq(Waiters(P)) /\ kept \cap {} = {}
    BY DEF IsInterface
  <2>2. Count(out, WaiterFor(id)) <= Count(n.ip_frames_out, WaiterFor(id))
    BY <1>7, <2>1, CountChosen
  <2>3. q.ip_frames_out = out
    BY <1>10
  <2> QED
    BY <2>2, <2>3 DEF Waiting
<1>16. q.datagrams_received = n.datagrams_received /\ q.ip_address = n.ip_address
  BY <1>10
<1> QED
  BY <1>8, <1>14, <1>15, <1>16

-----------------------------------------------------------------------------
(* Who sends an ARP message is learnt, and what waited for him leaves.     *)
LEMMA FlushKeeps ==
  ASSUME NEW P, NEW n, IsInterface(n, P), NEW ip \in Nat
  PROVE  /\ Sends(Flush(Learn(n, ip, ip), ip, ip), n, P)
         /\ Flush(Learn(n, ip, ip), ip, ip).nic.datagrams_received = n.datagrams_received
         /\ \A id : Waiting(Flush(Learn(n, ip, ip), ip, ip).nic, id)
                      + Flying(Flush(Learn(n, ip, ip), ip, ip).frames, id) <= Waiting(n, id)
<1>1. PICK cache, times : /\ cache = Put(n.arp_cache, ip, [address |-> ip, cache_time |-> n.now])
                          /\ times = Restrict(n.arp_request_time,
                                              DOMAIN n.arp_request_time \ {ip})
  OBVIOUS
<1>2. \A x \in DOMAIN cache : cache[x].address = x
  <2>1. \A x \in DOMAIN n.arp_cache : n.arp_cache[x].address = x
    BY DEF IsInterface
  <2>2. PICK entry : entry = [address |-> ip, cache_time |-> n.now]
    OBVIOUS
  <2>3. entry.address = ip
    BY <2>2
  <2>4. cache = [z \in DOMAIN n.arp_cache \cup {ip} |-> IF z = ip THEN entry ELSE n.arp_cache[z]]
    BY <1>1, <2>2 DEF Put
  <2> QED
    BY <2>1, <2>3, <2>4
<1>3. PICK m : m = Learn(n, ip, ip)
  OBVIOUS
<1>4. m = [ethernet_address |-> n.ip_address, ip_address |-> n.ip_address,
           datagrams_received |-> n.datagrams_received,
           ip_frames_out |-> n.ip_frames_out, arp_cache |-> cache,
           arp_request_time |-> times, now |-> n.now]
  BY <1>1, <1>3 DEF Learn, IsInterface
<1>5. m.ip_frames_out = n.ip_frames_out /\ m.ip_address = n.ip_address
  BY <1>4
<1>6. /\ n.ip_address \in Nat /\ n.now \in Nat
      /\ n.ip_frames_out \in Seq(Waiters(P))
  BY DEF IsInterface
<1>7. IsInterface(m, P)
  BY <1>2, <1>4, <1>6, InterfaceOf
<1>8. PICK queue, mine : queue = m.ip_frames_out
                         /\ mine = {i \in DOMAIN queue : queue[i].next_hop = ip}
  OBVIOUS
<1>9. PICK kept : kept = {i \in DOMAIN queue \ mine : Fresh(m, queue[i])}
  OBVIOUS
<1>10. PICK leaving, out : leaving = Chosen(queue, mine) /\ out = Chosen(queue, kept)
  OBVIOUS
<1>11. PICK result : result = Flush(Learn(n, ip, ip), ip, ip)
  OBVIOUS
<1>12. result = [nic |-> [m EXCEPT !.ip_frames_out = out],
                 frames |-> [i \in DOMAIN leaving |-> send_eth_datagram(m, leaving[i].dgram, ip)]]
  BY <1>3, <1>8, <1>9, <1>10, <1>11 DEF Flush
<1>13. queue \in Seq(Waiters(P))
  BY <1>5, <1>6, <1>8
<1>14. /\ out \in Seq(Waiters(P)) /\ leaving \in Seq(Waiters(P))
       /\ \A j \in DOMAIN leaving : \E i \in DOMAIN queue : i \in mine /\ leaving[j] = queue[i]
  BY <1>10, <1>13, ChosenFacts
<1>15. PICK q : q = result.nic
  OBVIOUS
<1>16. q = [ethernet_address |-> n.ip_address, ip_address |-> n.ip_address,
            datagrams_received |-> n.datagrams_received,
            ip_frames_out |-> out, arp_cache |-> cache,
            arp_request_time |-> times, now |-> n.now]
  BY <1>4, <1>12, <1>15
<1>17. IsInterface(q, P)
  BY <1>2, <1>6, <1>14, <1>16, InterfaceOf
<1>18. \A j \in DOMAIN leaving : send_eth_datagram(m, leaving[j].dgram, ip) \in FramesTo(P)
  <2>1. SUFFICES ASSUME NEW j \in DOMAIN leaving
                 PROVE  send_eth_datagram(m, leaving[j].dgram, ip) \in FramesTo(P)
    OBVIOUS
  <2>2. PICK i \in DOMAIN queue : i \in mine /\ leaving[j] = queue[i]
    BY <1>14
  <2>3. leaving[j].next_hop = ip
    BY <1>8, <2>2
  <2>4. leaving[j] \in Waiters(P)
    <3> HIDE DEF Waiters
    <3> QED
      BY <1>14
  <2>5. leaving[j].dgram \in Datagram /\ <<leaving[j].dgram, ip>> \in P
    BY <2>3, <2>4 DEF Waiters, Waiter
  <2> QED
    BY <1>7, <2>5, FrameFacts
<1>19. PICK k \in Nat : DOMAIN leaving = 1..k
  BY <1>14, LenProperties
<1>20. PICK frames : frames = result.frames
  OBVIOUS
<1>21. frames = [i \in 1..k |-> send_eth_datagram(m, leaving[i].dgram, ip)]
  BY <1>12, <1>19, <1>20
<1>22. frames \in Seq(FramesTo(P))
  <2> HIDE DEF FramesTo, send_eth_datagram
  <2> QED
    BY <1>18, <1>19, <1>21
<1>23. q.datagrams_received = n.datagrams_received /\ q.ip_address = n.ip_address
  BY <1>16
<1>24. ASSUME NEW id PROVE Waiting(q, id) + Flying(frames, id) <= Waiting(n, id)
  <2>1. mine \cap kept = {}
    BY <1>9
  <2>2. Count(leaving, WaiterFor(id)) + Count(out, WaiterFor(id)) <= Count(queue, WaiterFor(id))
    BY <1>10, <1>13, <2>1, CountChosen
  <2>3. ASSUME NEW j \in 1..k PROVE leaving[j] \in WaiterFor(id) <=> frames[j] \in FrameFor(id)
    <3>1. PICK w : w = leaving[j]
      OBVIOUS
    <3>2. w \in Waiters(P)
      BY <1>14, <1>19, <3>1
    <3>3. w \in Waiter /\ w.dgram \in Datagram
      BY <3>2 DEF Waiters, Waiter
    <3>4. PICK d \in Datagram : d = w.dgram
      BY <3>3
    <3>5. frames[j] \in FrameFor(id) <=> d.id = id
      <4>1. frames[j] = send_eth_datagram(m, d, ip)
        BY <1>21, <3>1, <3>4
      <4>2. send_eth_datagram(m, d, ip) \in FrameFor(id) <=> d.id = id
        BY <1>7, FrameFacts, Zenon
      <4> QED
        BY <4>1, <4>2
    <3> QED
      BY <3>1, <3>3, <3>4, <3>5 DEF WaiterFor
  <2>4. Count(leaving, WaiterFor(id)) = Count(frames, FrameFor(id))
    BY <1>19, <1>21, <2>3, CountSame
  <2>5. Count(leaving, WaiterFor(id)) \in Nat /\ Count(out, WaiterFor(id)) \in Nat
    BY <1>14, CountFacts
  <2>6. q.ip_frames_out = out /\ queue = n.ip_frames_out
    BY <1>5, <1>8, <1>16
  <2>7. Waiting(q, id) = Count(out, WaiterFor(id)) /\ Flying(frames, id) = Count(frames, FrameFor(id))
        /\ Waiting(n, id) = Count(queue, WaiterFor(id))
    BY <2>6 DEF Waiting, Flying
  <2>8. PICK a \in Nat, b \in Nat : a = Count(leaving, WaiterFor(id)) /\ b = Count(out, WaiterFor(id))
    BY <2>5
  <2> QED
    BY <2>2, <2>4, <2>7, <2>8
<1> QED
  BY <1>11, <1>15, <1>17, <1>20, <1>22, <1>23, <1>24 DEF Sends

(* An ARP message is answered, if it asks for this interface.              *)
LEMMA ArpKeeps ==
  ASSUME NEW P, NEW n, IsInterface(n, P), NEW message \in ArpMessage
  PROVE  /\ Sends(HandleArp(n, ParsedArp(message)), n, P)
         /\ HandleArp(n, ParsedArp(message)).nic.datagrams_received = n.datagrams_received
         /\ \A id : Waiting(HandleArp(n, ParsedArp(message)).nic, id)
                      + Flying(HandleArp(n, ParsedArp(message)).frames, id) <= Waiting(n, id)
<1>1. PICK ip : ip = message.sender_ip_address
  OBVIOUS
<1>2. /\ message.supported = TRUE /\ ip \in Nat
      /\ message.sender_ethernet_address = ip
  BY <1>1 DEF ArpMessage
<1>3. ParsedArp(message) = message
  BY <1>2 DEF ParsedArp
<1>4. PICK flushed, replies, result :
        /\ flushed = Flush(Learn(n, ip, ip), ip, ip) /\ replies = Reply(n, message)
        /\ result = HandleArp(n, ParsedArp(message))
  OBVIOUS
<1>5. result = [nic |-> flushed.nic, frames |-> replies \o flushed.frames]
  BY <1>1, <1>2, <1>3, <1>4 DEF HandleArp
<1>6. replies \in Seq(FramesTo(P)) /\ \A id : Flying(replies, id) = 0
  <2>1. PICK frame : frame = send_arp_reply(n, ip, ip)
    OBVIOUS
  <2>2. frame \in FramesTo(P)
    BY <1>2, <2>1, FrameFacts DEF send_arp_reply
  <2>3. replies = <<frame>> \/ replies = << >>
    BY <1>1, <1>2, <1>4, <2>1 DEF Reply
  <2>4. <<frame>> \in Seq(FramesTo(P)) /\ << >> \in Seq(FramesTo(P))
    BY <2>2
  <2>5. replies \in Seq(FramesTo(P))
    BY <2>3, <2>4, Zenon
  <2>6. ASSUME NEW id PROVE Flying(replies, id) = 0
    <3>1. frame \notin FrameFor(id)
      BY <1>2, <2>1, FrameFacts DEF send_arp_reply
    <3>2. Flying(<<frame>>, id) = 0 /\ Flying(<< >>, id) = 0
      BY <3>1, CountFew DEF Flying
    <3> QED
      BY <2>3, <3>2
  <2> QED
    BY <2>5, <2>6
<1>7. /\ Sends(flushed, n, P) /\ flushed.nic.datagrams_received = n.datagrams_received
      /\ \A id : Waiting(flushed.nic, id) + Flying(flushed.frames, id) <= Waiting(n, id)
  BY <1>2, <1>4, FlushKeeps
<1>8. result.nic = flushed.nic /\ result.frames = replies \o flushed.frames
  BY <1>5
<1>9. result.frames \in Seq(FramesTo(P))
  <2> HIDE DEF FramesTo
  <2> QED
    BY <1>6, <1>7, <1>8 DEF Sends
<1>10. ASSUME NEW id PROVE Flying(result.frames, id) = Flying(flushed.frames, id)
  <2>1. PICK more : more = flushed.frames /\ more \in Seq(FramesTo(P))
    BY <1>7 DEF Sends
  <2>2. Flying(replies \o more, id) = Flying(replies, id) + Flying(more, id)
    BY <1>6, <2>1, CountConcat DEF Flying
  <2>3. Flying(more, id) \in Nat
    BY <2>1, Numbers
  <2> QED
    BY <1>6, <1>8, <2>1, <2>2, <2>3
<1> QED
  BY <1>4, <1>7, <1>8, <1>9, <1>10 DEF Sends

(* An interface that has handed on what it received hears a frame.         *)
LEMMA HearKeeps ==
  ASSUME NEW P, NEW n, IsInterface(n, P), n.datagrams_received = << >>, NEW frame \in Frame
  PROVE  /\ Sends(recv_frame(n, frame), n, P)
         /\ LET received == recv_frame(n, frame).nic.datagrams_received
            IN  \/ received = << >>
                \/ /\ IsDatagram(frame) /\ frame.dst = n.ip_address
                   /\ received = <<ParsedDatagram(frame.payload)>>
         /\ \A id : Waiting(recv_frame(n, frame).nic, id) + Held(recv_frame(n, frame).nic, id)
                      + Flying(recv_frame(n, frame).frames, id)
                    <= Waiting(n, id) + One(frame \in FrameFor(id))
<1>1. PICK result : result = recv_frame(n, frame)
  OBVIOUS
<1>2. << >> \in Seq(FramesTo(P))
  OBVIOUS
<1> DEFINE Spares(id) == Waiting(result.nic, id) + Held(result.nic, id)
                           + Flying(result.frames, id)
                         <= Waiting(n, id) + One(frame \in FrameFor(id))
<1>3. ASSUME NEW id PROVE /\ Waiting(n, id) \in Nat /\ Held(n, id) = 0 /\ Flying(<< >>, id) = 0
                          /\ One(frame \in FrameFor(id)) \in Nat
  BY Numbers, CountFew DEF Held, Flying, One
<1>4. ASSUME result.nic = n, result.frames = << >> PROVE \A id : Spares(id)
  BY <1>3, <1>4
<1>5. CASE frame \in ArpFrames
  <2>1. frame.type = "ARP" /\ frame.type # "IPv4" /\ frame.payload \in ArpMessage
    BY <1>5 DEF ArpFrames
  <2>2. CASE frame.dst \in {n.ethernet_address, Broadcast}
    <3>1. result = HandleArp(n, ParsedArp(frame.payload))
      BY <1>1, <2>1, <2>2 DEF recv_frame
    <3>2. ASSUME NEW id PROVE Spares(id)
      <4>1. result.nic.datagrams_received = << >>
        BY <2>1, <3>1, ArpKeeps
      <4>2. Held(result.nic, id) = 0
        BY <4>1, CountFew DEF Held
      <4>3. Sends(result, n, P) /\ Waiting(result.nic, id) + Flying(result.frames, id) <= Waiting(n, id)
        BY <2>1, <3>1, ArpKeeps
      <4>4. Waiting(result.nic, id) \in Nat /\ Flying(result.frames, id) \in Nat
        BY <4>3, Numbers DEF Sends
      <4> QED
        BY <1>3, <4>2, <4>3, <4>4
    <3> HIDE DEF Spares
    <3>3. Sends(result, n, P) /\ result.nic.datagrams_received = << >>
      BY <2>1, <3>1, ArpKeeps
    <3> QED
      BY <1>1, <3>2, <3>3 DEF Spares
  <2>3. CASE frame.dst \notin {n.ethernet_address, Broadcast}
    <3>1. result = [nic |-> n, frames |-> << >>]
      BY <1>1, <2>1, <2>3 DEF recv_frame
    <3>2. result.nic = n /\ result.frames = << >>
      BY <3>1
    <3>3. \A id : Spares(id)
      BY <1>4, <3>2
    <3> HIDE DEF Spares
    <3>4. Sends(result, n, P)
      BY <1>2, <3>2 DEF Sends
    <3> QED
      BY <1>1, <3>2, <3>3, <3>4 DEF Spares
  <2> QED
    BY <2>2, <2>3
<1>6. CASE frame \in DataFrames
  <2>1. frame.type = "IPv4" /\ frame.type # "ARP" /\ frame.payload \in Datagram
    BY <1>6 DEF DataFrames
  <2>2. CASE frame.dst = n.ethernet_address
    <3>1. PICK dgram : dgram = ParsedDatagram(frame.payload)
      OBVIOUS
    <3>2. dgram \in Datagram
      BY <2>1, <3>1 DEF Datagram, ParsedDatagram
    <3>3. PICK received : received = Append(n.datagrams_received, dgram)
      OBVIOUS
    <3>4. received = <<dgram>>
      BY <3>3
    <3>5. IsDatagram(frame) /\ frame.dst = n.ip_address
      BY <2>1, <2>2 DEF IsInterface, IsDatagram
    <3>6. PICK q : q = [n EXCEPT !.datagrams_received = received]
      OBVIOUS
    <3>7. result = [nic |-> q, frames |-> << >>]
      BY <1>1, <2>1, <2>2, <3>1, <3>3, <3>6 DEF recv_frame
    <3>8. q = [ethernet_address |-> n.ip_address, ip_address |-> n.ip_address,
               datagrams_received |-> received,
               ip_frames_out |-> n.ip_frames_out, arp_cache |-> n.arp_cache,
               arp_request_time |-> n.arp_request_time, now |-> n.now]
      BY <3>6 DEF IsInterface
    <3>9. /\ n.ip_address \in Nat /\ n.now \in Nat
          /\ n.ip_frames_out \in Seq(Waiters(P))
          /\ \A ip \in DOMAIN n.arp_cache : n.arp_cache[ip].address = ip
      BY DEF IsInterface
    <3>10. IsInterface(q, P)
      BY <3>8, <3>9, InterfaceOf
    <3>11. /\ q.datagrams_received = received /\ q.ip_address = n.ip_address
           /\ result.nic = q /\ result.frames = << >>
      BY <3>7, <3>8
    <3>12. ASSUME NEW id PROVE Spares(id)
      <4>1. frame \in FrameFor(id) <=> dgram \in DatagramFor(id)
        BY <1>6, <2>1, <3>1, <3>2, <3>5 DEF FrameFor, DatagramFor, Frame, ParsedDatagram, Datagram
      <4>2. Held(q, id) = One(frame \in FrameFor(id))
        BY <3>4, <3>11, <4>1, CountFew DEF Held, One
      <4>3. Waiting(q, id) = Waiting(n, id)
        BY <3>8 DEF Waiting
      <4> QED
        BY <1>3, <3>11, <4>2, <4>3
    <3> HIDE DEF Spares
    <3>13. Sends(result, n, P)
      BY <1>2, <3>10, <3>11 DEF Sends
    <3> QED
      BY <1>1, <3>1, <3>4, <3>5, <3>11, <3>12, <3>13 DEF Spares
  <2>3. CASE frame.dst # n.ethernet_address
    <3>1. result = [nic |-> n, frames |-> << >>]
      BY <1>1, <2>1, <2>3 DEF recv_frame
    <3>2. result.nic = n /\ result.frames = << >>
      BY <3>1
    <3>3. \A id : Spares(id)
      BY <1>4, <3>2
    <3> HIDE DEF Spares
    <3>4. Sends(result, n, P)
      BY <1>2, <3>2 DEF Sends
    <3> QED
      BY <1>1, <3>2, <3>3, <3>4 DEF Spares
  <2> QED
    BY <2>2, <2>3
<1> QED
  BY <1>5, <1>6 DEF Frame

(* What was received is taken.                                             *)
LEMMA TakenKeeps ==
  ASSUME NEW P, NEW n, IsInterface(n, P)
  PROVE  /\ IsInterface([n EXCEPT !.datagrams_received = << >>], P)
         /\ [n EXCEPT !.datagrams_received = << >>].datagrams_received = << >>
         /\ [n EXCEPT !.datagrams_received = << >>].ip_address = n.ip_address
         /\ \A id : Waiting([n EXCEPT !.datagrams_received = << >>], id) = Waiting(n, id)
<1>1. PICK q : q = [n EXCEPT !.datagrams_received = << >>]
  OBVIOUS
<1>2. q = [ethernet_address |-> n.ip_address, ip_address |-> n.ip_address,
           datagrams_received |-> << >>,
           ip_frames_out |-> n.ip_frames_out, arp_cache |-> n.arp_cache,
           arp_request_time |-> n.arp_request_time, now |-> n.now]
  BY <1>1 DEF IsInterface
<1>3. /\ n.ip_address \in Nat /\ n.now \in Nat
      /\ n.ip_frames_out \in Seq(Waiters(P))
      /\ \A ip \in DOMAIN n.arp_cache : n.arp_cache[ip].address = ip
  BY DEF IsInterface
<1>4. PICK none : none = << >>
  OBVIOUS
<1>5. IsInterface(q, P)
  BY <1>2, <1>3, <1>4, InterfaceOf
<1>6. q.ip_frames_out = n.ip_frames_out
  BY <1>2
<1> QED
  BY <1>1, <1>2, <1>5, <1>6 DEF Waiting

-----------------------------------------------------------------------------
(* The way of a datagram: the longest matching prefix of the router's      *)
(* table leads out of interface i to this next hop.                        *)
Way(h, i, dgram, hop) ==
  \E rule \in Range(Table[h]) :
    /\ Decides(rule, Table[h], dgram.dst)
    /\ rule.interface_num = i - 1
    /\ hop = IF rule.next_hop = Direct THEN dgram.dst ELSE rule.next_hop

(* A datagram that was sent k hops ago.  If the tables are Homeward, then  *)
(* what is for a host enters a router with as many hops behind it as there *)
(* are routers on its way before this one, and what is for the router's    *)
(* own host leaves by the host's side only.                                *)
Aged(d, k) ==
  \E dgram \in Traffic :
    /\ d.id = dgram.id /\ d.src = dgram.src /\ d.dst = dgram.dst
    /\ d.ttl = dgram.ttl - k

Inbound(h) ==
  {d \in Datagram : Homeward =>
     \A g \in Host : d.dst = HostIP[g] => Aged(d, IF g = h THEN 1 ELSE 0)}

Outbound(h, i) ==
  {d \in Datagram : Homeward =>
     \A g \in Host : d.dst = HostIP[g] =>
       IF g = h THEN i = 1 /\ Aged(d, 2) ELSE Aged(d, 1)}

Ways(h, i) == {p \in Pair : Way(h, i, p[1], p[2]) /\ p[1] \in Outbound(h, i)}

(* What an interface has received and not handed on: at most one datagram. *)
Handed(received, Q) == received = << >> \/ \E dgram \in Q : received = <<dgram>>

(* A router with its table, whose interfaces send every datagram on its    *)
(* way; and what it transmits.                                             *)
IsRouter(h, r) ==
  /\ r = [interfaces |-> <<r.interfaces[1], r.interfaces[2]>>, routing_table |-> Table[h]]
  /\ \A i \in 1..2 : /\ IsInterface(r.interfaces[i], Ways(h, i))
                     /\ Handed(r.interfaces[i].datagrams_received, Inbound(h))

Sending(h) ==
  {s \in [interface : 1..2, frame : Frame] : s.frame \in FramesTo(Ways(h, s.interface))}

IsResult(h, result) ==
  /\ result = [router |-> result.router, sent |-> result.sent]
  /\ IsRouter(h, result.router) /\ result.sent \in Seq(Sending(h))

(* What of datagram id waits in a router, is sent, and both.               *)
SendingFor(id) == {s \in [interface : 1..2, frame : Frame] : s.frame \in FrameFor(id)}

Queues(r, id)      == Waiting(r.interfaces[1], id) + Waiting(r.interfaces[2], id)
Sent(sent, id)     == Count(sent, SendingFor(id))
Weight(result, id) == Queues(result.router, id) + Sent(result.sent, id)

Received(r, i) == r.interfaces[i].datagrams_received

(* One interface of a router may be replaced.                              *)
Replaced(r, i, n) == [r EXCEPT !.interfaces[i] = n]

(* It remains such a router.                                               *)
LEMMA RouterAt ==
  ASSUME NEW h \in Host, NEW r, IsRouter(h, r), NEW i \in 1..2,
         NEW n, IsInterface(n, Ways(h, i)), Handed(n.datagrams_received, Inbound(h)),
         NEW s, s = Replaced(r, i, n)
  PROVE  /\ IsRouter(h, s) /\ s.interfaces[i] = n
         /\ s.interfaces[3 - i] = r.interfaces[3 - i]
         /\ \A id : Queues(s, id) + Waiting(r.interfaces[i], id) = Queues(r, id) + Waiting(n, id)
<1>1. PICK a, b : /\ r = [interfaces |-> <<a, b>>, routing_table |-> Table[h]]
                  /\ IsInterface(a, Ways(h, 1)) /\ IsInterface(b, Ways(h, 2))
                  /\ Handed(a.datagrams_received, Inbound(h))
                  /\ Handed(b.datagrams_received, Inbound(h))
  BY DEF IsRouter
<1>2. ASSUME NEW id
      PROVE  Waiting(a, id) \in Nat /\ Waiting(b, id) \in Nat /\ Waiting(n, id) \in Nat
  BY <1>1, Numbers
<1>3. CASE i = 1
  <2>1. s = [interfaces |-> <<n, b>>, routing_table |-> Table[h]]
    BY <1>1, <1>3 DEF Replaced
  <2>2. /\ s.interfaces[1] = n /\ s.interfaces[2] = b /\ r.interfaces[2] = b
        /\ r.interfaces[1] = a
    BY <1>1, <2>1
  <2>3. IsRouter(h, s)
    <3>1. \A j \in 1..2 : j = 1 \/ j = 2
      OBVIOUS
    <3> QED
      BY <1>1, <1>3, <2>1, <2>2, <3>1 DEF IsRouter
  <2> QED
    BY <1>2, <1>3, <2>2, <2>3 DEF Queues
<1>4. CASE i = 2
  <2>1. s = [interfaces |-> <<a, n>>, routing_table |-> Table[h]]
    BY <1>1, <1>4 DEF Replaced
  <2>2. /\ s.interfaces[1] = a /\ s.interfaces[2] = n /\ r.interfaces[1] = a
        /\ r.interfaces[2] = b
    BY <1>1, <2>1
  <2>3. IsRouter(h, s)
    <3>1. \A j \in 1..2 : j = 1 \/ j = 2
      OBVIOUS
    <3> QED
      BY <1>1, <1>4, <2>1, <2>2, <3>1 DEF IsRouter
  <2> QED
    BY <1>2, <1>4, <2>2, <2>3 DEF Queues
<1> QED
  BY <1>3, <1>4

(* The interfaces of a router, by number.                                  *)
LEMMA RouterFields ==
  ASSUME NEW h \in Host, NEW r, IsRouter(h, r)
  PROVE  /\ r.routing_table = Table[h] /\ Len(r.interfaces) = 2
         /\ DOMAIN r.interfaces = 1..2
         /\ \A i \in 1..2 : /\ IsInterface(r.interfaces[i], Ways(h, i))
                            /\ Handed(r.interfaces[i].datagrams_received, Inbound(h))
<1>1. PICK a, b : r = [interfaces |-> <<a, b>>, routing_table |-> Table[h]]
  BY DEF IsRouter
<1>2. r.routing_table = Table[h] /\ r.interfaces = <<a, b>>
  BY <1>1
<1>3. \A i \in 1..2 : i = 1 \/ i = 2
  OBVIOUS
<1> QED
  BY <1>2, <1>3 DEF IsRouter

(* The numbers of a result.                                                *)
LEMMA ResultNumbers ==
  ASSUME NEW h \in Host, NEW id
  PROVE  /\ \A r : IsRouter(h, r) =>
              Queues(r, id) \in Nat /\ \A i \in 1..2 : Waiting(r.interfaces[i], id) \in Nat
         /\ \A sent \in Seq(Sending(h)) : Sent(sent, id) \in Nat
<1>1. ASSUME NEW r, IsRouter(h, r)
      PROVE  Queues(r, id) \in Nat /\ \A i \in 1..2 : Waiting(r.interfaces[i], id) \in Nat
  <2>1. \A i \in 1..2 : Waiting(r.interfaces[i], id) \in Nat
    BY <1>1, RouterFields, Numbers
  <2> QED
    BY <2>1 DEF Queues
<1> QED
  BY <1>1, CountFacts DEF Sent

(* What an interface transmits, as what the router does.                   *)
LEMMA SentBy ==
  ASSUME NEW h \in Host, NEW i \in 1..2, NEW frames \in Seq(FramesTo(Ways(h, i)))
  PROVE  LET s == [k \in DOMAIN frames |-> [interface |-> i, frame |-> frames[k]]]
         IN  s \in Seq(Sending(h)) /\ \A id : Sent(s, id) = Flying(frames, id)
<1>1. PICK m \in Nat : DOMAIN frames = 1..m
  BY LenProperties
<1>2. PICK s : s = [k \in 1..m |-> [interface |-> i, frame |-> frames[k]]]
  OBVIOUS
<1>3. ASSUME NEW k \in 1..m PROVE s[k] \in Sending(h)
  <2>1. frames[k] \in FramesTo(Ways(h, i))
    BY <1>1
  <2>2. PICK f, x : f = frames[k] /\ x = s[k]
    OBVIOUS
  <2>3. f \in Frame
    BY <2>1, <2>2 DEF FramesTo
  <2>4. x = [interface |-> i, frame |-> f]
    BY <1>2, <2>2
  <2>5. x \in [interface : 1..2, frame : Frame] /\ x.interface = i /\ x.frame = f
    BY <2>3, <2>4
  <2> QED
    BY <2>1, <2>2, <2>5 DEF Sending
<1>4. s \in Seq(Sending(h))
  <2>1. s = [k \in 1..m |-> s[k]]
    BY <1>2
  <2> QED
    BY <1>3, <2>1
<1>5. ASSUME NEW id PROVE Sent(s, id) = Flying(frames, id)
  <2>1. ASSUME NEW k \in 1..m PROVE frames[k] \in FrameFor(id) <=> s[k] \in SendingFor(id)
    <3>1. PICK x : x = s[k]
      OBVIOUS
    <3>2. x = [interface |-> i, frame |-> frames[k]]
      BY <1>2, <3>1
    <3>3. x \in Sending(h)
      BY <1>3, <3>1
    <3>4. x.frame = frames[k]
      BY <3>2
    <3>5. x \in [interface : 1..2, frame : Frame] /\ x.frame = frames[k]
      BY <3>3, <3>4 DEF Sending
    <3> QED
      BY <3>1, <3>5 DEF SendingFor
  <2>2. DOMAIN s = DOMAIN frames
    BY <1>1, <1>2
  <2> QED
    BY <1>1, <2>1, <2>2, CountSame DEF Sent, Flying
<1> QED
  BY <1>1, <1>2, <1>4, <1>5

(* One hop further.                                                        *)
LEMMA HopAges ==
  ASSUME NEW h \in Host, NEW i \in 1..2, NEW dgram \in Inbound(h), dgram.ttl > 1,
         NEW hop, Way(h, i, Hop(dgram), hop)
  PROVE  /\ Hop(dgram) \in Outbound(h, i)
         /\ Hop(dgram).dst = dgram.dst /\ Hop(dgram).id = dgram.id
<1>1. PICK d : d = Hop(dgram)
  OBVIOUS
<1>2. dgram \in Datagram /\ dgram.ttl \in Nat /\ dgram.ttl - 1 \in Nat
  BY DEF Inbound, Datagram
<1>3. d = [dgram EXCEPT !.ttl = dgram.ttl - 1]
  BY <1>1 DEF Hop
<1>4. /\ d \in Datagram /\ d.id = dgram.id /\ d.src = dgram.src /\ d.dst = dgram.dst
      /\ d.ttl = dgram.ttl - 1
  BY <1>2, <1>3 DEF Datagram
<1>5. ASSUME NEW k \in Nat, Aged(dgram, k) PROVE Aged(d, k + 1)
  <2>1. \A o \in Traffic : o.ttl \in Nat
    BY NetworkAssumption
  <2> QED
    BY <1>4, <1>5, <2>1 DEF Aged
<1>6. ASSUME Homeward, NEW g \in Host, d.dst = HostIP[g]
      PROVE  IF g = h THEN i = 1 /\ Aged(d, 2) ELSE Aged(d, 1)
  <2>1. Aged(dgram, IF g = h THEN 1 ELSE 0)
    BY <1>4, <1>6 DEF Inbound
  <2>2. CASE g = h
    <3>1. i = 1
      <4>1. PICK rule \in Range(Table[h]) :
              Decides(rule, Table[h], HostIP[h]) /\ rule.interface_num = i - 1
        BY <1>1, <1>6, <2>2 DEF Way
      <4> QED
        BY <1>6, <4>1 DEF Homeward
    <3> QED
      BY <1>5, <2>1, <2>2, <3>1
  <2>3. CASE g # h
    BY <1>5, <2>1, <2>3
  <2> QED
    BY <2>2, <2>3
<1> QED
  BY <1>1, <1>4, <1>6 DEF Outbound

(* What forwarding sends goes the way that the best rule leads.            *)
LEMMA ForwardKeeps ==
  ASSUME NEW h \in Host, NEW result, IsResult(h, result), NEW dgram \in Inbound(h)
  PROVE  /\ IsResult(h, Forward(result, dgram))
         /\ \A i \in 1..2 : Received(Forward(result, dgram).router, i)
                              = Received(result.router, i)
         /\ \A id : Weight(Forward(result, dgram), id) <= Weight(result, id) + One(dgram.id = id)
<1>1. PICK table, ip : table = Table[h] /\ ip = dgram.dst
  OBVIOUS
<1>2. table \in Seq(Rule) /\ NoRule \notin Range(table)
  BY <1>1, NetworkAssumption DEF Rule
<1>3. PICK rule : rule = best_rule(table, ip)
  OBVIOUS
<1>4. PICK final : final = Forward(result, dgram)
  OBVIOUS
<1>5. IsRouter(h, result.router)
  BY DEF IsResult
<1>6. result.router.routing_table = table /\ Len(result.router.interfaces) = 2
  BY <1>1, <1>5, RouterFields
<1>7. CASE dgram.ttl <= 1 \/ rule = NoRule \/ rule.interface_num >= 2
  <2>1. final = result
    BY <1>1, <1>3, <1>4, <1>6, <1>7 DEF Forward
  <2>2. ASSUME NEW id PROVE Weight(final, id) <= Weight(result, id) + One(dgram.id = id)
    <3>1. Weight(result, id) \in Nat
      BY ResultNumbers DEF IsResult, Weight
    <3> QED
      BY <2>1, <3>1 DEF One
  <2> QED
    BY <1>4, <2>1, <2>2
<1>8. CASE ~(dgram.ttl <= 1 \/ rule = NoRule \/ rule.interface_num >= 2)
  <2>1. BestOf(table, ip, Len(table), rule)
    BY <1>2, <1>3, BestIs
  <2>2. DOMAIN table = 1..Len(table) /\ Len(table) \in Nat
    BY <1>2, LenProperties
  <2>3. rule \in Range(table) /\ Decides(rule, table, ip)
    BY <1>8, <2>1, <2>2 DEF BestOf, Decides, Range
  <2>4. rule \in Rule
    BY <1>2, <2>2, <2>3 DEF Range
  <2>5. rule.interface_num \in 0..1 /\ rule.next_hop \in Nat \cup {Direct}
    BY <1>8, <2>4 DEF Rule
  <2>6. PICK i, d, hop : /\ i \in 1..2 /\ i = rule.interface_num + 1
                         /\ d = Hop(dgram) /\ hop = NextHop(rule, dgram)
    BY <2>5
  <2> i \in 1..2
    BY <2>6
  <2>7. d \in Datagram /\ d.dst = ip /\ ip \in Nat /\ d.id = dgram.id
    <3>1. dgram \in Datagram
      BY DEF Inbound
    <3>2. dgram.ttl \in Nat /\ dgram.ttl - 1 \in Nat
      BY <1>8, <3>1 DEF Datagram
    <3>3. d = [dgram EXCEPT !.ttl = dgram.ttl - 1]
      BY <2>6 DEF Hop
    <3> QED
      BY <1>1, <3>1, <3>2, <3>3 DEF Datagram
  <2>8. hop \in Nat /\ hop = IF rule.next_hop = Direct THEN d.dst ELSE rule.next_hop
    BY <1>1, <2>5, <2>6, <2>7 DEF NextHop
  <2>9. <<d, hop>> \in Ways(h, i)
    <3>1. <<d, hop>> \in Pair
      BY <2>7, <2>8 DEF Pair
    <3>2. Way(h, i, d, hop)
      BY <1>1, <2>3, <2>5, <2>6, <2>7, <2>8 DEF Way
    <3>3. d \in Outbound(h, i)
      <4>1. dgram.ttl > 1
        BY <1>8 DEF Inbound, Datagram
      <4> QED
        BY <2>6, <3>2, <4>1, HopAges
    <3> QED
      BY <3>1, <3>2, <3>3 DEF Ways
  <2>10. PICK n, done : n = result.router.interfaces[i] /\ done = send_datagram(n, d, hop)
    OBVIOUS
  <2>11. IsInterface(n, Ways(h, i))
    BY <1>5, <2>10, RouterFields
  <2>12. /\ IsInterface(done.nic, Ways(h, i)) /\ done.frames \in Seq(FramesTo(Ways(h, i)))
         /\ done.nic.datagrams_received = n.datagrams_received
         /\ \A id : Waiting(done.nic, id) + Flying(done.frames, id)
                    = Waiting(n, id) + One(d.id = id)
    BY <2>7, <2>8, <2>9, <2>10, <2>11, SendKeeps DEF Sends
  <2>13. PICK more : more = [k \in DOMAIN done.frames |-> [interface |-> i, frame |-> done.frames[k]]]
    OBVIOUS
  <2>14. PICK r : r = [result.router EXCEPT !.interfaces[i] = done.nic]
    OBVIOUS
  <2>15. final = [router |-> r, sent |-> result.sent \o more]
    <3>1. final = SendOn(result, rule.interface_num + 1, Hop(dgram), NextHop(rule, dgram))
      BY <1>1, <1>3, <1>4, <1>6, <1>8 DEF Forward
    <3>2. final = SendOn(result, i, d, hop)
      BY <2>6, <3>1
    <3> QED
      BY <2>10, <2>13, <2>14, <3>2 DEF SendOn
  <2>16. more \in Seq(Sending(h)) /\ \A id : Sent(more, id) = Flying(done.frames, id)
    BY <2>12, <2>13, SentBy
  <2>17. result.sent \o more \in Seq(Sending(h))
    BY <2>16 DEF IsResult
  <2>18. /\ IsRouter(h, r) /\ r.interfaces[i] = done.nic
         /\ r.interfaces[3 - i] = result.router.interfaces[3 - i]
         /\ \A id : Queues(r, id) + Waiting(n, id)
                    = Queues(result.router, id) + Waiting(done.nic, id)
    <3>1. Handed(done.nic.datagrams_received, Inbound(h))
      BY <1>5, <2>10, <2>12, RouterFields
    <3>2. PICK q, m : q = result.router /\ m = done.nic
      OBVIOUS
    <3>3. /\ IsRouter(h, q) /\ IsInterface(m, Ways(h, i))
          /\ Handed(m.datagrams_received, Inbound(h)) /\ r = Replaced(q, i, m)
      BY <1>5, <2>12, <2>14, <3>1, <3>2 DEF Replaced
    <3>4. /\ IsRouter(h, r) /\ r.interfaces[i] = m /\ r.interfaces[3 - i] = q.interfaces[3 - i]
          /\ \A id : Queues(r, id) + Waiting(q.interfaces[i], id) = Queues(q, id) + Waiting(m, id)
      BY <3>3, RouterAt
    <3> QED
      BY <2>10, <3>2, <3>4
  <2>19. final.router = r /\ final.sent = result.sent \o more
    BY <2>15
  <2>20. IsResult(h, final)
    BY <2>15, <2>17, <2>18, <2>19 DEF IsResult
  <2>21. \A j \in 1..2 : j = i \/ j = 3 - i
    OBVIOUS
  <2>22. ASSUME NEW id PROVE Weight(final, id) <= Weight(result, id) + One(dgram.id = id)
    <3>1. Sent(final.sent, id) = Sent(result.sent, id) + Flying(done.frames, id)
      <4>1. PICK s : s = result.sent /\ s \in Seq(Sending(h))
        BY DEF IsResult
      <4>2. Count(s \o more, SendingFor(id)) = Count(s, SendingFor(id)) + Count(more, SendingFor(id))
        BY <2>16, <4>1, CountConcat
      <4> QED
        BY <2>16, <2>19, <4>1, <4>2 DEF Sent
    <3>2. /\ Sent(result.sent, id) \in Nat /\ Queues(result.router, id) \in Nat
          /\ Queues(r, id) \in Nat
      BY <1>5, <2>18, ResultNumbers DEF IsResult
    <3>3. /\ Waiting(n, id) \in Nat /\ Waiting(done.nic, id) \in Nat
          /\ Flying(done.frames, id) \in Nat /\ One(dgram.id = id) \in Nat
      BY <2>11, <2>12, Numbers DEF One
    <3>4. /\ Waiting(done.nic, id) + Flying(done.frames, id) = Waiting(n, id) + One(dgram.id = id)
          /\ Queues(r, id) + Waiting(n, id) = Queues(result.router, id) + Waiting(done.nic, id)
      BY <2>7, <2>12, <2>18
    <3> QED
      BY <2>19, <3>1, <3>2, <3>3, <3>4 DEF Weight
  <2> QED
    BY <1>4, <2>10, <2>12, <2>18, <2>19, <2>20, <2>21, <2>22 DEF Received
<1> QED
  BY <1>7, <1>8

(* An interface's datagram is forwarded, if it has one, and taken.         *)
LEMMA RouteFromKeeps ==
  ASSUME NEW h \in Host, NEW result, IsResult(h, result), NEW i \in 1..2
  PROVE  /\ IsResult(h, RouteFrom(result, i))
         /\ Received(RouteFrom(result, i).router, i) = << >>
         /\ Received(RouteFrom(result, i).router, 3 - i) = Received(result.router, 3 - i)
         /\ \A id : Weight(RouteFrom(result, i), id)
                      <= Weight(result, id) + Held(result.router.interfaces[i], id)
<1>1. PICK received : received = Received(result.router, i)
  OBVIOUS
<1>2. IsRouter(h, result.router) /\ IsInterface(result.router.interfaces[i], Ways(h, i))
  BY RouterFields DEF IsResult
<1>3. Handed(received, Inbound(h))
  BY <1>1, <1>2, RouterFields DEF Received
<1>4. PICK base : base = [result EXCEPT !.router = Emptied(@, i)]
  OBVIOUS
<1>5. /\ IsResult(h, base) /\ Received(base.router, i) = << >>
      /\ Received(base.router, 3 - i) = Received(result.router, 3 - i)
      /\ \A id : Weight(base, id) = Weight(result, id)
  <2>1. PICK n : n = [result.router.interfaces[i] EXCEPT !.datagrams_received = << >>]
    OBVIOUS
  <2>2. /\ IsInterface(n, Ways(h, i)) /\ n.datagrams_received = << >>
        /\ \A id : Waiting(n, id) = Waiting(result.router.interfaces[i], id)
    BY <1>2, <2>1, TakenKeeps
  <2>3. PICK r : r = [result.router EXCEPT !.interfaces[i] = n]
    OBVIOUS
  <2>4. r = Emptied(result.router, i)
    BY <2>1, <2>3 DEF Emptied
  <2>5. /\ IsRouter(h, r) /\ r.interfaces[i] = n
        /\ r.interfaces[3 - i] = result.router.interfaces[3 - i]
        /\ \A id : Queues(r, id) = Queues(result.router, id)
    <3>1. Handed(n.datagrams_received, Inbound(h))
      BY <2>2 DEF Handed
    <3>2. PICK q : q = result.router
      OBVIOUS
    <3>3. IsRouter(h, q) /\ r = Replaced(q, i, n)
      BY <1>2, <2>3, <3>2 DEF Replaced
    <3>4. /\ IsRouter(h, r) /\ r.interfaces[i] = n /\ r.interfaces[3 - i] = q.interfaces[3 - i]
          /\ \A id : Queues(r, id) + Waiting(q.interfaces[i], id) = Queues(q, id) + Waiting(n, id)
      BY <2>2, <3>1, <3>3, RouterAt
    <3>5. ASSUME NEW id PROVE Queues(r, id) = Queues(q, id)
      <4>1. /\ Queues(r, id) \in Nat /\ Queues(q, id) \in Nat
            /\ Waiting(q.interfaces[i], id) \in Nat
        BY <3>3, <3>4, ResultNumbers
      <4> QED
        BY <2>2, <3>2, <3>4, <4>1
    <3> QED
      BY <3>2, <3>4, <3>5
  <2>6. base = [router |-> r, sent |-> result.sent]
    BY <1>4, <2>4 DEF IsResult
  <2>7. base.router = r /\ base.sent = result.sent
    BY <2>6
  <2> QED
    BY <2>2, <2>5, <2>6, <2>7 DEF IsResult, Received, Weight
<1>6. ASSUME NEW id
      PROVE  /\ Weight(result, id) \in Nat
             /\ Held(result.router.interfaces[i], id) = Count(received, DatagramFor(id))
  BY <1>1, ResultNumbers DEF IsResult, Weight, Held, Received
<1> DEFINE after == CHOOSE f : f = [n \in 0..Len(received) |->
                      IF n = 0 THEN [result EXCEPT !.router = Emptied(@, i)]
                      ELSE Forward(f[n - 1], received[n])]
<1>7. RouteFrom(result, i) = after[Len(received)]
  BY <1>1 DEF RouteFrom, Received
<1>8. CASE received = << >>
  <2>1. Len(received) = 0
    BY <1>8
  <2>2. PICK g : g = [n \in 0..0 |-> base]
    OBVIOUS
  <2>3. g = [n \in 0..Len(received) |->
               IF n = 0 THEN [result EXCEPT !.router = Emptied(@, i)]
               ELSE Forward(g[n - 1], received[n])]
    BY <1>4, <2>1, <2>2
  <2>4. after = [n \in 0..Len(received) |->
                   IF n = 0 THEN [result EXCEPT !.router = Emptied(@, i)]
                   ELSE Forward(after[n - 1], received[n])]
    BY <2>3
  <2> HIDE DEF after
  <2>5. after[0] = base
    BY <1>4, <2>1, <2>4
  <2>6. RouteFrom(result, i) = base
    BY <1>7, <2>1, <2>5
  <2>7. ASSUME NEW id
        PROVE  Weight(base, id) <= Weight(result, id) + Held(result.router.interfaces[i], id)
    <3>1. Held(result.router.interfaces[i], id) = 0
      BY <1>8, <1>6, CountFew
    <3> QED
      BY <1>5, <1>6, <3>1
  <2> QED
    BY <1>5, <2>6, <2>7
<1>9. CASE received # << >>
  <2>1. PICK dgram \in Inbound(h) : received = <<dgram>>
    BY <1>3, <1>9 DEF Handed
  <2>2. Len(received) = 1 /\ received[1] = dgram
    BY <2>1
  <2>3. PICK final : final = Forward(base, dgram)
    OBVIOUS
  <2>4. PICK g : g = [n \in 0..1 |-> IF n = 0 THEN base ELSE final]
    OBVIOUS
  <2>5. g[0] = base
    BY <2>4
  <2>6. \A n \in 0..1 : n # 0 => n = 1 /\ n - 1 = 0
    OBVIOUS
  <2>7. g = [n \in 0..Len(received) |->
               IF n = 0 THEN [result EXCEPT !.router = Emptied(@, i)]
               ELSE Forward(g[n - 1], received[n])]
    <3>1. \A n \in 0..1 : (IF n = 0 THEN base ELSE final)
                            = IF n = 0 THEN [result EXCEPT !.router = Emptied(@, i)]
                              ELSE Forward(g[n - 1], received[n])
      BY <1>4, <2>2, <2>3, <2>5, <2>6
    <3> QED
      BY <2>2, <2>4, <3>1
  <2>8. after = [n \in 0..Len(received) |->
                   IF n = 0 THEN [result EXCEPT !.router = Emptied(@, i)]
                   ELSE Forward(after[n - 1], received[n])]
    BY <2>7
  <2> HIDE DEF after
  <2>9. 0 \in 0..1 /\ 1 \in 0..1 /\ 1 - 1 = 0 /\ 1 # 0
    OBVIOUS
  <2>10. after[0] = base
    BY <1>4, <2>2, <2>8, <2>9
  <2>11. after[1] = Forward(after[0], received[1])
    BY <2>2, <2>8, <2>9
  <2>12. RouteFrom(result, i) = Forward(base, dgram)
    BY <1>7, <2>2, <2>10, <2>11
  <2>13. 3 - i \in 1..2
    OBVIOUS
  <2>14. ASSUME NEW id
         PROVE  Weight(Forward(base, dgram), id)
                  <= Weight(result, id) + Held(result.router.interfaces[i], id)
    <3>1. dgram \in DatagramFor(id) <=> dgram.id = id
      BY DEF Inbound, DatagramFor
    <3>2. Held(result.router.interfaces[i], id) = One(dgram.id = id)
      BY <1>6, <2>1, <3>1, CountFew DEF One
    <3>3. Weight(Forward(base, dgram), id) <= Weight(base, id) + One(dgram.id = id)
      BY <1>5, ForwardKeeps
    <3> QED
      BY <1>5, <3>2, <3>3
  <2>15. /\ IsResult(h, Forward(base, dgram))
         /\ Received(Forward(base, dgram).router, i) = Received(base.router, i)
         /\ Received(Forward(base, dgram).router, 3 - i) = Received(base.router, 3 - i)
    BY <1>5, <2>13, ForwardKeeps
  <2> QED
    BY <1>5, <2>12, <2>14, <2>15
<1> QED
  BY <1>8, <1>9

(* Routing leaves no interface with a datagram it has received.            *)
LEMMA RouteKeeps ==
  ASSUME NEW h \in Host, NEW r, IsRouter(h, r)
  PROVE  /\ IsResult(h, route(r))
         /\ \A i \in 1..2 : Received(route(r).router, i) = << >>
         /\ \A id : Weight(route(r), id)
                      <= Queues(r, id) + Held(r.interfaces[1], id) + Held(r.interfaces[2], id)
<1>1. Len(r.interfaces) = 2
  BY RouterFields
<1>2. PICK base, first, second : /\ base = [router |-> r, sent |-> << >>]
                                 /\ first = RouteFrom(base, 1)
                                 /\ second = RouteFrom(first, 2)
  OBVIOUS
<1> DEFINE after == CHOOSE f : f = [i \in 0..Len(r.interfaces) |->
                      IF i = 0 THEN [router |-> r, sent |-> << >>]
                      ELSE RouteFrom(f[i - 1], i)]
<1>3. route(r) = after[Len(r.interfaces)]
  BY DEF route
<1>4. after = [i \in 0..Len(r.interfaces) |->
                 IF i = 0 THEN [router |-> r, sent |-> << >>]
                 ELSE RouteFrom(after[i - 1], i)]
  <2>1. PICK g : g = [i \in 0..2 |-> IF i = 0 THEN base ELSE IF i = 1 THEN first ELSE second]
    OBVIOUS
  <2>2. g[0] = base /\ g[1] = first
    BY <2>1
  <2>3. \A i \in 0..2 : /\ i # 0 /\ i = 1 => i - 1 = 0
                        /\ i # 0 /\ i # 1 => i = 2 /\ i - 1 = 1
    OBVIOUS
  <2>4. \A i \in 0..2 : (IF i = 0 THEN base ELSE IF i = 1 THEN first ELSE second)
                          = IF i = 0 THEN base ELSE RouteFrom(g[i - 1], i)
    BY <1>2, <2>2, <2>3
  <2>5. g = [i \in 0..Len(r.interfaces) |->
               IF i = 0 THEN [router |-> r, sent |-> << >>] ELSE RouteFrom(g[i - 1], i)]
    BY <1>1, <1>2, <2>1, <2>4
  <2> QED
    BY <2>5
<1> HIDE DEF after
<1>5. /\ 0 \in 0..2 /\ 1 \in 0..2 /\ 2 \in 0..2 /\ 1 - 1 = 0 /\ 2 - 1 = 1
      /\ 1 # 0 /\ 2 # 0
  OBVIOUS
<1>6. after[0] = base
  BY <1>1, <1>2, <1>4, <1>5
<1>7. after[1] = first
  BY <1>1, <1>2, <1>4, <1>5, <1>6
<1>8. after[2] = second
  BY <1>1, <1>2, <1>4, <1>5, <1>7
<1>9. IsResult(h, base) /\ \A id : Weight(base, id) = Queues(r, id)
  <2>1. base.router = r /\ base.sent = << >>
    BY <1>2
  <2>2. << >> \in Seq(Sending(h))
    OBVIOUS
  <2>3. ASSUME NEW id PROVE Weight(base, id) = Queues(r, id)
    <3>1. Sent(<< >>, id) = 0
      BY CountFew DEF Sent
    <3>2. Queues(r, id) \in Nat
      BY ResultNumbers
    <3> QED
      BY <2>1, <3>1, <3>2 DEF Weight
  <2> QED
    BY <1>2, <2>1, <2>2, <2>3 DEF IsResult
<1>10. 1 \in 1..2 /\ 2 \in 1..2 /\ 3 - 1 = 2 /\ 3 - 2 = 1
  OBVIOUS
<1>11. /\ IsResult(h, first) /\ Received(first.router, 1) = << >>
       /\ Received(first.router, 2) = Received(r, 2)
       /\ \A id : Weight(first, id) <= Weight(base, id) + Held(r.interfaces[1], id)
  <2>1. base.router = r
    BY <1>2
  <2>2. /\ IsResult(h, RouteFrom(base, 1)) /\ Received(RouteFrom(base, 1).router, 1) = << >>
        /\ Received(RouteFrom(base, 1).router, 3 - 1) = Received(base.router, 3 - 1)
        /\ \A id : Weight(RouteFrom(base, 1), id)
                     <= Weight(base, id) + Held(base.router.interfaces[1], id)
    BY <1>9, <1>10, RouteFromKeeps
  <2> QED
    BY <1>2, <1>10, <2>1, <2>2
<1>12. /\ IsResult(h, second) /\ Received(second.router, 2) = << >>
       /\ Received(second.router, 1) = Received(first.router, 1)
       /\ \A id : Weight(second, id)
                    <= Weight(first, id) + Held(first.router.interfaces[2], id)
  <2>1. /\ IsResult(h, RouteFrom(first, 2)) /\ Received(RouteFrom(first, 2).router, 2) = << >>
        /\ Received(RouteFrom(first, 2).router, 3 - 2) = Received(first.router, 3 - 2)
        /\ \A id : Weight(RouteFrom(first, 2), id)
                     <= Weight(first, id) + Held(first.router.interfaces[2], id)
    BY <1>10, <1>11, RouteFromKeeps
  <2> QED
    BY <1>2, <1>10, <2>1
<1>13. \A i \in 1..2 : i = 1 \/ i = 2
  OBVIOUS
<1>14. ASSUME NEW id
       PROVE  Weight(second, id)
                <= Queues(r, id) + Held(r.interfaces[1], id) + Held(r.interfaces[2], id)
  <2>1. Held(first.router.interfaces[2], id) = Held(r.interfaces[2], id)
    BY <1>11 DEF Held, Received
  <2>2. /\ Weight(second, id) \in Nat /\ Weight(first, id) \in Nat /\ Queues(r, id) \in Nat
    BY <1>11, <1>12, ResultNumbers DEF IsResult, Weight
  <2>3. ASSUME NEW i \in 1..2 PROVE Held(r.interfaces[i], id) \in Nat
    <3>1. PICK received : received = r.interfaces[i].datagrams_received
                          /\ Handed(received, Inbound(h))
      BY RouterFields
    <3>2. Count(received, DatagramFor(id)) \in {0, 1}
      <4>1. \A x : Count(<<x>>, DatagramFor(id)) \in {0, 1}
        BY CountFew
      <4>2. Count(<< >>, DatagramFor(id)) \in {0, 1}
        BY CountFew
      <4> QED
        BY <3>1, <4>1, <4>2 DEF Handed
    <3> QED
      BY <3>1, <3>2 DEF Held
  <2>4. /\ Weight(first, id) <= Queues(r, id) + Held(r.interfaces[1], id)
        /\ Weight(second, id) <= Weight(first, id) + Held(r.interfaces[2], id)
    BY <1>9, <1>11, <1>12, <2>1
  <2> QED
    BY <1>10, <2>2, <2>3, <2>4
<1> QED
  BY <1>1, <1>3, <1>8, <1>11, <1>12, <1>13, <1>14

(* Of what a router sends, each interface transmits its own.               *)
LEMMA ToKeeps ==
  ASSUME NEW h \in Host, NEW sent \in Seq(Sending(h)), NEW i \in 1..2
  PROVE  /\ To(sent, i) \in Seq(FramesTo(Ways(h, i)))
         /\ \A id : Flying(To(sent, i), id)
              = Sent(Chosen(sent, {k \in DOMAIN sent : sent[k].interface = i}), id)
<1>1. PICK I : I = {k \in DOMAIN sent : sent[k].interface = i}
  OBVIOUS
<1>2. PICK on : on = Chosen(sent, I)
  OBVIOUS
<1>3. /\ on \in Seq(Sending(h))
      /\ \A j \in DOMAIN on : \E k \in DOMAIN sent : k \in I /\ on[j] = sent[k]
  BY <1>2, ChosenFacts
<1>4. PICK m \in Nat : DOMAIN on = 1..m
  BY <1>3, LenProperties
<1>5. PICK frames : frames = [j \in 1..m |-> on[j].frame]
  OBVIOUS
<1>6. ASSUME NEW j \in 1..m PROVE frames[j] \in FramesTo(Ways(h, i))
  <2>1. PICK s : s = on[j]
    OBVIOUS
  <2>2. s \in Sending(h)
    BY <1>3, <1>4, <2>1
  <2>3. s.interface = i
    BY <1>1, <1>3, <1>4, <2>1
  <2>4. s.frame \in FramesTo(Ways(h, i))
    BY <2>2, <2>3 DEF Sending
  <2> QED
    BY <1>5, <2>1, <2>4
<1>7. frames \in Seq(FramesTo(Ways(h, i)))
  <2>1. frames = [j \in 1..m |-> frames[j]]
    BY <1>5
  <2> QED
    BY <1>6, <2>1
<1>8. To(sent, i) = frames
  BY <1>1, <1>2, <1>4, <1>5 DEF To
<1>9. ASSUME NEW id PROVE Flying(frames, id) = Sent(on, id)
  <2>1. ASSUME NEW j \in 1..m PROVE on[j] \in SendingFor(id) <=> frames[j] \in FrameFor(id)
    <3>1. on[j] \in Sending(h) /\ frames[j] = on[j].frame
      BY <1>3, <1>4, <1>5
    <3>2. on[j] \in [interface : 1..2, frame : Frame]
      BY <3>1 DEF Sending
    <3> QED
      BY <3>1, <3>2 DEF SendingFor
  <2>2. DOMAIN frames = DOMAIN on
    BY <1>4, <1>5
  <2> QED
    BY <1>4, <2>1, <2>2, CountSame DEF Flying, Sent
<1> QED
  BY <1>1, <1>2, <1>7, <1>8, <1>9

(* Each frame is transmitted by one interface only.                        *)
LEMMA ToCounts ==
  ASSUME NEW h \in Host, NEW sent \in Seq(Sending(h)), NEW id
  PROVE  Flying(To(sent, 1), id) + Flying(To(sent, 2), id) <= Sent(sent, id)
<1>1. PICK I, J : /\ I = {k \in DOMAIN sent : sent[k].interface = 1}
                  /\ J = {k \in DOMAIN sent : sent[k].interface = 2}
  OBVIOUS
<1>2. I \cap J = {}
  BY <1>1
<1>3. Sent(Chosen(sent, I), id) + Sent(Chosen(sent, J), id) <= Sent(sent, id)
  BY <1>2, CountChosen DEF Sent
<1>4. 1 \in 1..2 /\ 2 \in 1..2
  OBVIOUS
<1>5. /\ Flying(To(sent, 1), id) = Sent(Chosen(sent, I), id)
      /\ Flying(To(sent, 2), id) = Sent(Chosen(sent, J), id)
  BY <1>1, <1>4, ToKeeps
<1> QED
  BY <1>3, <1>5

(* A datagram with its checksum as it should be.                           *)
LEMMA ParsedFacts ==
  ASSUME NEW dgram \in Datagram
  PROVE  LET d == ParsedDatagram(dgram)
         IN  /\ d \in Datagram /\ d.id = dgram.id /\ d.src = dgram.src
             /\ d.dst = dgram.dst /\ d.ttl = dgram.ttl /\ d.cksum = dgram.ttl
BY DEF ParsedDatagram, Datagram

(* What may come in at an interface: from the host what it has sent, from  *)
(* the internet what is on its way out of the other router.                *)
UpPairs(h) == {p \in Pair : p[1] \in Traffic /\ p[1].src = HostIP[h]}

Incoming(h, i) == IF i = 1 THEN FramesTo(UpPairs(h)) ELSE FramesTo(Ways(Peer(h), 2))

(* There are two hosts.                                                    *)
LEMMA PeerFacts ==
  ASSUME NEW h \in Host
  PROVE  /\ Peer(h) \in Host /\ Peer(h) # h /\ Host = {h, Peer(h)}
         /\ Peer(Peer(h)) = h
<1>1. PICK a, b \in Host : a # b /\ Host = {a, b}
  BY NetworkAssumption
<1>2. \A x, y \in Host : x # y => Peer(x) = y
  BY <1>1 DEF Peer
<1> QED
  BY <1>1, <1>2

(* A router may forward what comes in.                                     *)
LEMMA ComesIn ==
  ASSUME NEW h \in Host, NEW i \in 1..2, NEW frame \in Incoming(h, i), IsDatagram(frame)
  PROVE  ParsedDatagram(frame.payload) \in Inbound(h)
<1>1. PICK dgram, d : dgram = frame.payload /\ d = ParsedDatagram(dgram)
  OBVIOUS
<1>2. dgram \in Datagram
  BY <1>1 DEF Incoming, FramesTo, UpPairs, Ways, Pair
<1>3. /\ d \in Datagram /\ d.id = dgram.id /\ d.src = dgram.src /\ d.dst = dgram.dst
      /\ d.ttl = dgram.ttl
  BY <1>1, <1>2, ParsedFacts
<1>4. \A k : Aged(dgram, k) => Aged(d, k)
  BY <1>3 DEF Aged
<1>5. ASSUME Homeward, NEW g \in Host, dgram.dst = HostIP[g]
      PROVE  Aged(dgram, IF g = h THEN 1 ELSE 0)
  <2>1. CASE i = 1
    <3>1. dgram \in Traffic /\ dgram.src = HostIP[h]
      BY <1>1, <2>1 DEF Incoming, FramesTo, UpPairs
    <3>2. g # h
      BY <1>5, <3>1 DEF Homeward
    <3>3. dgram.ttl = dgram.ttl - 0
      BY <3>1, NetworkAssumption
    <3> QED
      BY <3>1, <3>2, <3>3 DEF Aged
  <2>2. CASE i = 2
    <3>1. dgram \in Outbound(Peer(h), 2)
      BY <1>1, <2>2 DEF Incoming, FramesTo, Ways
    <3>2. IF g = Peer(h) THEN 2 = 1 /\ Aged(dgram, 2) ELSE Aged(dgram, 1)
      BY <1>5, <3>1 DEF Outbound
    <3>3. g = h
      BY <3>2, PeerFacts
    <3> QED
      BY <3>2, <3>3
  <2> QED
    BY <2>1, <2>2
<1> QED
  BY <1>1, <1>3, <1>4, <1>5 DEF Inbound

(* Together: a frame comes in, and what came of it is routed.              *)
LEMMA HandleKeeps ==
  ASSUME NEW h \in Host, IsRouter(h, router[h]),
         \A j \in 1..2 : Received(router[h], j) = << >>,
         NEW i \in 1..2, NEW frame \in Incoming(h, i)
  PROVE  /\ IsRouter(h, Handle(h, i, frame).router)
         /\ \A j \in 1..2 : Received(Handle(h, i, frame).router, j) = << >>
         /\ Handle(h, i, frame).sent \in Seq(Sending(h))
         /\ \A id : Weight(Handle(h, i, frame), id)
                      <= Queues(router[h], id) + One(frame \in FrameFor(id))
<1>1. PICK r, n : r = router[h] /\ n = r.interfaces[i]
  OBVIOUS
<1>2. IsRouter(h, r) /\ IsInterface(n, Ways(h, i)) /\ n.datagrams_received = << >>
  BY <1>1, RouterFields DEF Received
<1>3. PICK heard : heard = recv_frame(n, frame)
  OBVIOUS
<1>4. /\ IsInterface(heard.nic, Ways(h, i)) /\ heard.frames \in Seq(FramesTo(Ways(h, i)))
      /\ Handed(heard.nic.datagrams_received, Inbound(h))
  <2>1. frame \in Frame
    BY DEF Incoming, FramesTo
  <2>2. PICK received : received = heard.nic.datagrams_received
    OBVIOUS
  <2>3. \/ received = << >>
        \/ IsDatagram(frame) /\ received = <<ParsedDatagram(frame.payload)>>
    BY <1>2, <1>3, <2>1, <2>2, HearKeeps
  <2>4. Handed(received, Inbound(h))
    BY <2>3, ComesIn DEF Handed
  <2> QED
    BY <1>2, <1>3, <2>1, <2>2, <2>4, HearKeeps DEF Sends
<1>5. ASSUME NEW id
       PROVE  Waiting(heard.nic, id) + Held(heard.nic, id) + Flying(heard.frames, id)
                <= Waiting(n, id) + One(frame \in FrameFor(id))
  <2>1. frame \in Frame
    BY DEF Incoming, FramesTo
  <2> QED
    BY <1>2, <1>3, <2>1, HearKeeps
<1>6. PICK s : s = [r EXCEPT !.interfaces[i] = heard.nic]
  OBVIOUS
<1>7. /\ IsRouter(h, s) /\ s.interfaces[i] = heard.nic
      /\ s.interfaces[3 - i] = r.interfaces[3 - i]
      /\ \A id : Queues(s, id) + Waiting(n, id) = Queues(r, id) + Waiting(heard.nic, id)
  <2>1. s = Replaced(r, i, heard.nic)
    BY <1>6 DEF Replaced
  <2> QED
    BY <1>1, <1>2, <1>4, <2>1, RouterAt
<1>8. PICK routed, own :
        /\ routed = route(s)
        /\ own = [k \in DOMAIN heard.frames |-> [interface |-> i, frame |-> heard.frames[k]]]
  OBVIOUS
<1>9. /\ IsResult(h, routed) /\ \A j \in 1..2 : Received(routed.router, j) = << >>
      /\ \A id : Weight(routed, id)
                   <= Queues(s, id) + Held(s.interfaces[1], id) + Held(s.interfaces[2], id)
  BY <1>7, <1>8, RouteKeeps
<1>10. own \in Seq(Sending(h)) /\ \A id : Sent(own, id) = Flying(heard.frames, id)
  BY <1>4, <1>8, SentBy
<1>11. PICK done : done = Handle(h, i, frame)
  OBVIOUS
<1>12. done = [router |-> routed.router, sent |-> own \o routed.sent]
  BY <1>1, <1>3, <1>6, <1>8, <1>11 DEF Handle
<1>13. done.router = routed.router /\ done.sent = own \o routed.sent
  BY <1>12
<1>14. own \o routed.sent \in Seq(Sending(h))
  BY <1>9, <1>10 DEF IsResult
<1>15. ASSUME NEW id PROVE Weight(done, id) <= Queues(r, id) + One(frame \in FrameFor(id))
  <2>1. Sent(done.sent, id) = Flying(heard.frames, id) + Sent(routed.sent, id)
    <3>1. PICK t : t = routed.sent /\ t \in Seq(Sending(h))
      BY <1>9 DEF IsResult
    <3>2. Count(own \o t, SendingFor(id)) = Count(own, SendingFor(id)) + Count(t, SendingFor(id))
      BY <1>10, <3>1, CountConcat
    <3> QED
      BY <1>10, <1>13, <3>1, <3>2 DEF Sent
  <2>2. Held(s.interfaces[1], id) + Held(s.interfaces[2], id) = Held(heard.nic, id)
        /\ Held(heard.nic, id) \in Nat
    <3>1. Held(s.interfaces[3 - i], id) = 0
      <4>1. 3 - i \in 1..2
        OBVIOUS
      <4>2. s.interfaces[3 - i].datagrams_received = << >>
        BY <1>1, <1>7, <4>1 DEF Received
      <4> QED
        BY <4>2, CountFew DEF Held
    <3>2. Held(heard.nic, id) \in Nat
      <4>1. PICK received : received = heard.nic.datagrams_received
                            /\ Handed(received, Inbound(h))
        BY <1>4
      <4>2. Count(<< >>, DatagramFor(id)) \in Nat
            /\ \A x : Count(<<x>>, DatagramFor(id)) \in Nat
        BY CountFew
      <4>3. Count(received, DatagramFor(id)) \in Nat
        BY <4>1, <4>2 DEF Handed
      <4> QED
        BY <4>1, <4>3 DEF Held
    <3>3. (i = 1 /\ 3 - i = 2) \/ (i = 2 /\ 3 - i = 1)
      OBVIOUS
    <3> QED
      BY <1>7, <3>1, <3>2, <3>3
  <2>3. /\ Queues(s, id) \in Nat /\ Queues(r, id) \in Nat /\ Waiting(n, id) \in Nat
        /\ Waiting(heard.nic, id) \in Nat /\ Flying(heard.frames, id) \in Nat
        /\ Queues(routed.router, id) \in Nat /\ Sent(routed.sent, id) \in Nat
        /\ One(frame \in FrameFor(id)) \in Nat
    BY <1>2, <1>4, <1>7, <1>9, ResultNumbers, Numbers DEF One, IsResult
  <2>4. /\ Queues(routed.router, id) + Sent(routed.sent, id)
             <= Queues(s, id) + Held(heard.nic, id)
        /\ Queues(s, id) + Waiting(n, id) = Queues(r, id) + Waiting(heard.nic, id)
        /\ Waiting(heard.nic, id) + Held(heard.nic, id) + Flying(heard.frames, id)
             <= Waiting(n, id) + One(frame \in FrameFor(id))
    <3>1. Held(s.interfaces[1], id) \in Int /\ Held(s.interfaces[2], id) \in Int
      <4>1. ASSUME NEW j \in 1..2 PROVE Held(s.interfaces[j], id) \in Int
        <5>1. PICK received : received = s.interfaces[j].datagrams_received
                              /\ Handed(received, Inbound(h))
          BY <1>7, RouterFields
        <5>2. Count(<< >>, DatagramFor(id)) \in Int
              /\ \A x : Count(<<x>>, DatagramFor(id)) \in Int
          BY CountFew
        <5>3. Count(received, DatagramFor(id)) \in Int
          BY <5>1, <5>2 DEF Handed
        <5> QED
          BY <5>1, <5>3 DEF Held
      <4> QED
        BY <4>1
    <3>2. Weight(routed, id)
            <= Queues(s, id) + Held(s.interfaces[1], id) + Held(s.interfaces[2], id)
      BY <1>9
    <3> QED
      BY <1>5, <1>7, <2>2, <2>3, <3>1, <3>2 DEF Weight
  <2>5. Weight(done, id) = Queues(routed.router, id) + Sent(done.sent, id)
    BY <1>13 DEF Weight
  <2>6. PICK qs, qr, wn, wh, fh, q, t, one, held :
          /\ qs = Queues(s, id) /\ qr = Queues(r, id) /\ wn = Waiting(n, id)
          /\ wh = Waiting(heard.nic, id) /\ fh = Flying(heard.frames, id)
          /\ q = Queues(routed.router, id) /\ t = Sent(routed.sent, id)
          /\ one = One(frame \in FrameFor(id)) /\ held = Held(heard.nic, id)
    OBVIOUS
  <2>7. /\ qs \in Nat /\ qr \in Nat /\ wn \in Nat /\ wh \in Nat /\ fh \in Nat
        /\ q \in Nat /\ t \in Nat /\ one \in Nat /\ held \in Nat
    BY <2>2, <2>3, <2>6
  <2>8. q + t <= qs + held /\ qs + wn = qr + wh /\ wh + held + fh <= wn + one
    BY <2>4, <2>6
  <2>9. q + (fh + t) <= qr + one
    BY <2>7, <2>8
  <2>10. Weight(done, id) = q + (fh + t)
    BY <2>1, <2>5, <2>6
  <2> QED
    BY <2>6, <2>9, <2>10
<1> QED
  BY <1>1, <1>9, <1>11, <1>13, <1>14, <1>15 DEF IsResult

-----------------------------------------------------------------------------
(* The invariant: every place holds only datagrams that are on their way.  *)
HostsWell ==
  /\ DOMAIN host = Host
  /\ \A h \in Host : /\ IsInterface(host[h], UpPairs(h)) /\ host[h].ip_address = HostIP[h]
                     /\ host[h].datagrams_received = << >>

RoutersWell ==
  /\ DOMAIN router = Host
  /\ \A h \in Host : /\ IsRouter(h, router[h])
                     /\ \A i \in 1..2 : Received(router[h], i) = << >>

CableWell(h, c) ==
  /\ c = [up |-> c.up, down |-> c.down]
  /\ c.up \in Seq(FramesTo(UpPairs(h))) /\ c.down \in Seq(FramesTo(Ways(h, 1)))

CablesWell == DOMAIN cable = Host /\ \A h \in Host : CableWell(h, cable[h])

InternetWell ==
  /\ DOMAIN internet = Host
  /\ \A h \in Host :
       internet[h] \subseteq FramesTo(Ways(Peer(h), 2)) /\ IsFiniteSet(internet[h])

(* What has arrived, if the tables are Homeward: a datagram for this host, *)
(* as it was sent, but for the two hops.                                   *)
Intact(h, a) ==
  \E dgram \in Traffic :
    dgram.dst = HostIP[h] /\ a = [dgram EXCEPT !.ttl = @ - 2, !.cksum = @ - 2]

ArrivedWell ==
  /\ DOMAIN arrived = Host
  /\ \A h \in Host : arrived[h] \subseteq Datagram /\ IsFiniteSet(arrived[h])
  /\ Homeward => \A h \in Host : \A a \in arrived[h] : Intact(h, a)

Placed ==
  /\ HostsWell /\ RoutersWell /\ CablesWell /\ InternetWell /\ ArrivedWell
  /\ unsent \subseteq Traffic

(* How many of T are in the set S.                                         *)
Kept(S, T) == Cardinality(S \cap T)

(* What there is of datagram id around a host: what waits in its interface *)
(* and in its router's, what travels to and from it, and what has arrived. *)
Load(h, id) ==
  Waiting(host[h], id) + Queues(router[h], id)
    + Flying(cable[h].up, id) + Flying(cable[h].down, id)
    + Kept(internet[h], FrameFor(id)) + Kept(arrived[h], DatagramFor(id))

Total(h, id) == Load(h, id) + Load(Peer(h), id)

(* One datagram, in one place.                                             *)
Single ==
  \A h \in Host : \A dgram \in Traffic :
    Total(h, dgram.id) + One(dgram \in unsent) <= 1

IInv == Placed /\ Single

(* What is kept of finite sets.                                            *)
LEMMA KeptFacts ==
  ASSUME NEW S, IsFiniteSet(S), NEW T
  PROVE  /\ Kept(S, T) \in Nat
         /\ \A R : IsFiniteSet(R) =>
              Kept(R, T) \in Nat /\ Kept(S \cup R, T) <= Kept(S, T) + Kept(R, T)
         /\ \A x \in S : Kept(S \ {x}, T) = Kept(S, T) - One(x \in T)
<1>1. PICK A : A = S \cap T /\ IsFiniteSet(A)
  BY FS_Intersection
<1>2. Cardinality(A) \in Nat
  BY <1>1, FS_CardinalityType
<1>3. ASSUME NEW R, IsFiniteSet(R)
      PROVE  Kept(R, T) \in Nat /\ Kept(S \cup R, T) <= Kept(S, T) + Kept(R, T)
  <2>1. PICK B : B = R \cap T /\ IsFiniteSet(B)
    BY <1>3, FS_Intersection
  <2>2. IsFiniteSet(A \cap B)
    BY <1>1, FS_Intersection
  <2>3. Cardinality(B) \in Nat /\ Cardinality(A \cap B) \in Nat
    BY <2>1, <2>2, FS_CardinalityType
  <2>4. Cardinality(A \cup B) = Cardinality(A) + Cardinality(B) - Cardinality(A \cap B)
    BY <1>1, <2>1, FS_Union
  <2>5. (S \cup R) \cap T = A \cup B
    BY <1>1, <2>1
  <2>6. /\ Kept(S \cup R, T) = Cardinality(A \cup B)
        /\ Kept(S, T) = Cardinality(A) /\ Kept(R, T) = Cardinality(B)
    BY <1>1, <2>1, <2>5, Zenon DEF Kept
  <2> QED
    BY <1>2, <2>3, <2>4, <2>6
<1>4. ASSUME NEW x \in S PROVE Kept(S \ {x}, T) = Kept(S, T) - One(x \in T)
  <2>1. Cardinality(A \ {x}) = IF x \in A THEN Cardinality(A) - 1 ELSE Cardinality(A)
    BY <1>1, FS_RemoveElement
  <2>2. (S \ {x}) \cap T = A \ {x} /\ (x \in A <=> x \in T)
    BY <1>1
  <2> QED
    BY <1>1, <1>2, <2>1, <2>2 DEF Kept, One
<1> QED
  BY <1>1, <1>2, <1>3, <1>4 DEF Kept

(* All these are numbers.                                                  *)
LEMMA LoadNumbers ==
  ASSUME NEW h \in Host, NEW n, IsInterface(n, UpPairs(h)), NEW r, IsRouter(h, r),
         NEW c, CableWell(h, c), NEW here, IsFiniteSet(here), NEW there, IsFiniteSet(there),
         NEW id
  PROVE  /\ Waiting(n, id) \in Nat /\ Queues(r, id) \in Nat
         /\ Flying(c.up, id) \in Nat /\ Flying(c.down, id) \in Nat
         /\ Kept(here, FrameFor(id)) \in Nat /\ Kept(there, DatagramFor(id)) \in Nat
BY Numbers, ResultNumbers, KeptFacts DEF CableWell

(* The same of what a state holds.                                         *)
LEMMA StateNumbers ==
  ASSUME Placed, NEW h \in Host, NEW id
  PROVE  /\ Waiting(host[h], id) \in Nat /\ Queues(router[h], id) \in Nat
         /\ Flying(cable[h].up, id) \in Nat /\ Flying(cable[h].down, id) \in Nat
         /\ Kept(internet[h], FrameFor(id)) \in Nat
         /\ Kept(arrived[h], DatagramFor(id)) \in Nat
         /\ Load(h, id) \in Nat /\ Total(h, id) \in Nat
<1>1. ASSUME NEW g \in Host
      PROVE  /\ Waiting(host[g], id) \in Nat /\ Queues(router[g], id) \in Nat
             /\ Flying(cable[g].up, id) \in Nat /\ Flying(cable[g].down, id) \in Nat
             /\ Kept(internet[g], FrameFor(id)) \in Nat
             /\ Kept(arrived[g], DatagramFor(id)) \in Nat
  BY LoadNumbers DEF Placed, HostsWell, RoutersWell, CablesWell, InternetWell, ArrivedWell
<1>2. ASSUME NEW g \in Host PROVE Load(g, id) \in Nat
  BY <1>1 DEF Load
<1> QED
  BY <1>1, <1>2, PeerFacts DEF Total

(* And of what the next one holds.                                         *)
LEMMA NextNumbers ==
  ASSUME Placed', NEW h \in Host, NEW id
  PROVE  /\ Waiting(host'[h], id) \in Nat /\ Queues(router'[h], id) \in Nat
         /\ Flying(cable'[h].up, id) \in Nat /\ Flying(cable'[h].down, id) \in Nat
         /\ Kept(internet'[h], FrameFor(id)) \in Nat
         /\ Kept(arrived'[h], DatagramFor(id)) \in Nat
         /\ Load(h, id)' \in Nat /\ Total(h, id)' \in Nat
<1>1. ASSUME NEW g \in Host
      PROVE  /\ Waiting(host'[g], id) \in Nat /\ Queues(router'[g], id) \in Nat
             /\ Flying(cable'[g].up, id) \in Nat /\ Flying(cable'[g].down, id) \in Nat
             /\ Kept(internet'[g], FrameFor(id)) \in Nat
             /\ Kept(arrived'[g], DatagramFor(id)) \in Nat
  BY LoadNumbers DEF Placed, HostsWell, RoutersWell, CablesWell, InternetWell, ArrivedWell
<1>2. ASSUME NEW g \in Host PROVE Load(g, id)' \in Nat
  BY <1>1 DEF Load
<1> QED
  BY <1>1, <1>2, PeerFacts DEF Total

(* A step that does not add to a datagram, or sends it, keeps it single.   *)
LEMMA Balance ==
  ASSUME Placed, Placed', Single, NEW h \in Host,
         \A dgram \in Traffic :
           Total(h, dgram.id)' + One(dgram \in unsent')
             <= Total(h, dgram.id) + One(dgram \in unsent)
  PROVE  Single'
<1>1. SUFFICES ASSUME NEW g \in Host, NEW dgram \in Traffic
               PROVE  Total(g, dgram.id)' + One(dgram \in unsent') <= 1
  BY DEF Single
<1>2. PICK id : id = dgram.id
  OBVIOUS
<1>3. Total(g, id)' = Total(h, id)'
  <2>1. Load(h, id)' \in Nat /\ Load(Peer(h), id)' \in Nat
    BY PeerFacts, NextNumbers
  <2>2. g = h \/ (g = Peer(h) /\ Peer(g) = h)
    BY PeerFacts
  <2> QED
    BY <2>1, <2>2 DEF Total
<1>4. Total(h, id)' \in Nat /\ Total(h, id) \in Nat
  BY StateNumbers, NextNumbers
<1>5. One(dgram \in unsent) \in Nat /\ One(dgram \in unsent') \in Nat
  BY DEF One
<1>6. Total(h, id) + One(dgram \in unsent) <= 1
  BY <1>2 DEF Single
<1>7. Total(h, id)' + One(dgram \in unsent') <= Total(h, id) + One(dgram \in unsent)
  BY <1>2
<1> QED
  BY <1>2, <1>3, <1>4, <1>5, <1>6, <1>7

(* The traffic is of datagrams.                                            *)
LEMMA TrafficFacts == Traffic \subseteq Datagram
<1>1. SUFFICES ASSUME NEW dgram \in Traffic PROVE dgram \in Datagram
  OBVIOUS
<1>2. /\ dgram = [id |-> dgram.id, src |-> dgram.src, dst |-> dgram.dst,
                  ttl |-> dgram.ttl, cksum |-> dgram.cksum]
      /\ dgram.src \in Nat /\ dgram.dst \in Nat /\ dgram.ttl \in Nat /\ dgram.cksum \in Nat
  BY NetworkAssumption
<1>3. dgram.id \in {d.id : d \in Traffic}
  OBVIOUS
<1> HIDE DEF Traffic
<1> QED
  BY <1>2, <1>3 DEF Datagram

(* At the start there is nothing anywhere.                                 *)
LEMMA InitPlaced == Init => Placed
<1>1. SUFFICES ASSUME Init PROVE Placed
  OBVIOUS
<1>2. HostsWell
  <2>1. \A h \in Host : HostIP[h] \in Nat
    BY NetworkAssumption
  <2> QED
    BY <1>1, <2>1, NewKeeps DEF Init, HostsWell
<1>3. RoutersWell
  <2>1. ASSUME NEW h \in Host
        PROVE  IsRouter(h, router[h]) /\ \A i \in 1..2 : Received(router[h], i) = << >>
    <3>1. PICK a, b, r : /\ a = NewInterface(HostSideIP[h], HostSideIP[h])
                         /\ b = NewInterface(InternetIP[h], InternetIP[h])
                         /\ r = router[h]
      OBVIOUS
    <3>2. r = [interfaces |-> <<a, b>>, routing_table |-> Table[h]]
      BY <1>1, <3>1 DEF Init, NewRouter
    <3>3. /\ IsInterface(a, Ways(h, 1)) /\ a.datagrams_received = << >>
          /\ IsInterface(b, Ways(h, 2)) /\ b.datagrams_received = << >>
      <4>1. HostSideIP[h] \in Nat /\ InternetIP[h] \in Nat
        BY NetworkAssumption
      <4> QED
        BY <3>1, <4>1, NewKeeps
    <3>4. r.interfaces[1] = a /\ r.interfaces[2] = b
      BY <3>2
    <3>5. \A i \in 1..2 : i = 1 \/ i = 2
      OBVIOUS
    <3> QED
      BY <3>1, <3>2, <3>3, <3>4, <3>5 DEF IsRouter, Received, Handed
  <2> QED
    BY <1>1, <2>1 DEF Init, RoutersWell
<1>4. CablesWell
  <2>1. PICK c : c = [up |-> << >>, down |-> << >>]
    OBVIOUS
  <2>2. c.up = << >> /\ c.down = << >>
    BY <2>1
  <2>3. \A S : << >> \in Seq(S)
    OBVIOUS
  <2>4. \A h \in Host : CableWell(h, c)
    BY <2>1, <2>2, <2>3 DEF CableWell
  <2> QED
    BY <1>1, <2>1, <2>4 DEF Init, CablesWell
<1>5. InternetWell
  BY <1>1, FS_EmptySet DEF Init, InternetWell
<1>6. unsent \subseteq Traffic /\ ArrivedWell
  BY <1>1, FS_EmptySet DEF Init, Traffic, ArrivedWell
<1> QED
  BY <1>2, <1>3, <1>4, <1>5, <1>6 DEF Placed

(* Nothing is around, but what has not been sent.                          *)
LEMMA InitHolds == Init => IInv
<1>1. SUFFICES ASSUME Init PROVE IInv
  OBVIOUS
<1>2. Placed
  BY <1>1, InitPlaced
<1>3. \A id : Flying(<< >>, id) = 0
  BY CountFew DEF Flying
<1>4. \A T : Kept({}, T) = 0
  <2>1. \A T : {} \cap T = {}
    OBVIOUS
  <2> QED
    BY <2>1, FS_EmptySet DEF Kept
<1>5. ASSUME NEW h \in Host, NEW id PROVE Load(h, id) = 0
  <2>1. PICK n, a, b : /\ n = NewInterface(HostIP[h], HostIP[h])
                       /\ a = NewInterface(HostSideIP[h], HostSideIP[h])
                       /\ b = NewInterface(InternetIP[h], InternetIP[h])
    OBVIOUS
  <2>2. Waiting(n, id) = 0 /\ Waiting(a, id) = 0 /\ Waiting(b, id) = 0
    <3>1. HostIP[h] \in Nat /\ HostSideIP[h] \in Nat /\ InternetIP[h] \in Nat
      BY NetworkAssumption
    <3> QED
      BY <2>1, <3>1, NewKeeps
  <2>3. host[h] = n /\ router[h].interfaces = <<a, b>>
    BY <1>1, <2>1 DEF Init, NewRouter
  <2>4. router[h].interfaces[1] = a /\ router[h].interfaces[2] = b
    BY <2>3
  <2>5. Waiting(host[h], id) = 0 /\ Queues(router[h], id) = 0
    BY <2>2, <2>3, <2>4 DEF Queues
  <2>6. cable[h].up = << >> /\ cable[h].down = << >> /\ internet[h] = {} /\ arrived[h] = {}
    BY <1>1 DEF Init
  <2> QED
    BY <1>3, <1>4, <2>5, <2>6 DEF Load
<1>6. ASSUME NEW h \in Host, NEW id PROVE Total(h, id) = 0
  BY <1>5, PeerFacts DEF Total
<1> QED
  BY <1>2, <1>6 DEF IInv, Single, One

(* More may come up a cable, and down it what is on its way.               *)
LEMMA CableMore ==
  ASSUME NEW h \in Host, NEW c, CableWell(h, c),
         NEW up \in Seq(FramesTo(UpPairs(h))), NEW down \in Seq(FramesTo(Ways(h, 1)))
  PROVE  /\ CableWell(h, [up |-> c.up \o up, down |-> c.down \o down])
         /\ CableWell(h, [up |-> up, down |-> c.down \o down])
         /\ CableWell(h, [up |-> c.up \o up, down |-> down])
<1>1. c.up \o up \in Seq(FramesTo(UpPairs(h))) /\ c.down \o down \in Seq(FramesTo(Ways(h, 1)))
  BY DEF CableWell
<1>2. ASSUME NEW u \in Seq(FramesTo(UpPairs(h))), NEW d \in Seq(FramesTo(Ways(h, 1)))
      PROVE  CableWell(h, [up |-> u, down |-> d])
  <2>1. PICK x : x = [up |-> u, down |-> d]
    OBVIOUS
  <2>2. x.up = u /\ x.down = d
    BY <2>1
  <2> QED
    BY <2>1, <2>2 DEF CableWell
<1> QED
  BY <1>1, <1>2

(* A datagram of the traffic goes to the router.                           *)
LEMMA HostWriteKeeps ==
  ASSUME IInv, NEW h \in Host, NEW dgram \in unsent, HostWrite(h, dgram)
  PROVE  IInv'
<1> Placed /\ Single /\ dgram \in Traffic
  BY DEF IInv, Placed
<1>1. PICK n, done, hop : /\ n = host[h] /\ done = send_datagram(n, dgram, hop)
                          /\ hop = HostSideIP[h]
  OBVIOUS
<1>2. dgram \in Datagram /\ hop \in Nat /\ <<dgram, hop>> \in UpPairs(h)
  <2>1. dgram.src = HostIP[h] /\ dgram \in Traffic
    BY DEF HostWrite, Placed
  <2>2. dgram \in Datagram /\ hop \in Nat
    BY <1>1, <2>1, TrafficFacts, NetworkAssumption
  <2> QED
    BY <2>1, <2>2 DEF UpPairs, Pair
<1>3. /\ IsInterface(n, UpPairs(h)) /\ n.datagrams_received = << >>
      /\ n.ip_address = HostIP[h]
  BY <1>1 DEF Placed, HostsWell
<1>4. /\ IsInterface(done.nic, UpPairs(h)) /\ done.nic.datagrams_received = << >>
      /\ done.nic.ip_address = HostIP[h]
      /\ done.frames \in Seq(FramesTo(UpPairs(h)))
  BY <1>1, <1>2, <1>3, SendKeeps DEF Sends
<1>5. /\ unsent' = unsent \ {dgram}
      /\ host' = [host EXCEPT ![h] = done.nic]
      /\ cable' = [cable EXCEPT ![h].up = @ \o done.frames]
      /\ router' = router /\ internet' = internet /\ arrived' = arrived
  BY <1>1 DEF HostWrite
<1>6. HostsWell'
  BY <1>4, <1>5 DEF Placed, HostsWell
<1>7. PICK c : c = cable[h] /\ CableWell(h, c)
  BY DEF Placed, CablesWell
<1>8. CablesWell' /\ cable'[h].up = c.up \o done.frames /\ cable'[h].down = c.down
  <2>1. DOMAIN cable = Host
    BY DEF Placed, CablesWell
  <2>2. cable' = [cable EXCEPT ![h] = [up |-> c.up \o done.frames, down |-> c.down]]
    <3>1. PICK d : d = [c EXCEPT !.up = @ \o done.frames]
      OBVIOUS
    <3>2. d = [up |-> c.up \o done.frames, down |-> c.down]
      BY <1>7, <3>1 DEF CableWell
    <3>3. cable' = [cable EXCEPT ![h] = d]
      BY <1>5, <1>7, <3>1
    <3> QED
      BY <3>2, <3>3
  <2>3. CableWell(h, [up |-> c.up \o done.frames, down |-> c.down])
    BY <1>4, <1>7, CableMore DEF CableWell
  <2>4. PICK d : d = [up |-> c.up \o done.frames, down |-> c.down] /\ cable'[h] = d
    BY <2>1, <2>2
  <2> QED
    BY <2>2, <2>3, <2>4 DEF Placed, CablesWell
<1>9. Placed'
  BY <1>5, <1>6, <1>8 DEF Placed, RoutersWell, InternetWell, ArrivedWell
<1>10. ASSUME NEW id PROVE Total(h, id)' = Total(h, id) + One(dgram.id = id)
  <2>1. Flying(cable'[h].up, id) = Flying(c.up, id) + Flying(done.frames, id)
    <3>1. c.up \in Seq(FramesTo(UpPairs(h)))
      BY <1>7 DEF CableWell
    <3> QED
      BY <1>4, <1>8, <3>1, CountConcat DEF Flying
  <2>2. Waiting(done.nic, id) + Flying(done.frames, id) = Waiting(n, id) + One(dgram.id = id)
    BY <1>1, <1>2, <1>3, SendKeeps
  <2>3. host'[h] = done.nic
    BY <1>5 DEF Placed, HostsWell
  <2>4. Load(h, id)' = Load(h, id) + One(dgram.id = id)
    <3>1. PICK w, v, q, u, f, d, net, arr, one :
            /\ w = Waiting(n, id) /\ v = Waiting(done.nic, id) /\ q = Queues(router[h], id)
            /\ u = Flying(c.up, id) /\ f = Flying(done.frames, id) /\ d = Flying(c.down, id)
            /\ net = Kept(internet[h], FrameFor(id)) /\ arr = Kept(arrived[h], DatagramFor(id))
            /\ one = One(dgram.id = id)
      OBVIOUS
    <3>2. /\ w \in Nat /\ v \in Nat /\ q \in Nat /\ u \in Nat /\ f \in Nat /\ d \in Nat
          /\ net \in Nat /\ arr \in Nat /\ one \in Nat
      BY <1>1, <1>3, <1>4, <1>7, <3>1, StateNumbers, Numbers DEF One
    <3>3. Load(h, id) = w + q + u + d + net + arr
      BY <1>1, <1>7, <3>1 DEF Load
    <3>4. Load(h, id)' = v + q + (u + f) + d + net + arr
      BY <1>5, <1>8, <2>1, <2>3, <3>1 DEF Load
    <3>5. v + f = w + one
      BY <2>2, <3>1
    <3> QED
      BY <3>1, <3>2, <3>3, <3>4, <3>5
  <2>5. Load(Peer(h), id)' = Load(Peer(h), id)
    <3>1. host'[Peer(h)] = host[Peer(h)] /\ cable'[Peer(h)] = cable[Peer(h)]
      BY <1>5, PeerFacts DEF Placed, HostsWell, CablesWell
    <3> QED
      BY <1>5, <3>1 DEF Load
  <2>6. Load(h, id) \in Nat /\ Load(Peer(h), id) \in Nat /\ One(dgram.id = id) \in Nat
    BY PeerFacts, StateNumbers DEF One
  <2> QED
    BY <2>4, <2>5, <2>6 DEF Total
<1>11. ASSUME NEW other \in Traffic
       PROVE  Total(h, other.id)' + One(other \in unsent')
                <= Total(h, other.id) + One(other \in unsent)
  <2>1. Total(h, other.id) \in Nat
    BY StateNumbers
  <2>2. dgram.id = other.id <=> dgram = other
    BY NetworkAssumption
  <2> QED
    BY <1>5, <1>10, <2>1, <2>2 DEF One
<1>12. Single'
  BY <1>9, <1>11, Balance
<1> QED
  BY <1>9, <1>12 DEF IInv

(* What a host takes has arrived as it was sent.                           *)
LEMMA TakenIntact ==
  ASSUME Homeward, NEW h \in Host, NEW frame \in FramesTo(Ways(h, 1)),
         IsDatagram(frame), frame.dst = HostIP[h]
  PROVE  Intact(h, ParsedDatagram(frame.payload))
<1>1. PICK dgram, d : dgram = frame.payload /\ d = ParsedDatagram(dgram)
  OBVIOUS
<1>2. Way(h, 1, dgram, HostIP[h]) /\ dgram \in Outbound(h, 1) /\ dgram \in Datagram
  BY <1>1 DEF FramesTo, Ways, Outbound
<1>3. dgram.dst = HostIP[h]
  BY <1>2 DEF Way, Homeward
<1>4. Aged(dgram, 2)
  BY <1>2, <1>3 DEF Outbound
<1>5. PICK o \in Traffic : /\ dgram.id = o.id /\ dgram.src = o.src /\ dgram.dst = o.dst
                          /\ dgram.ttl = o.ttl - 2
  BY <1>4 DEF Aged
<1>6. o.cksum = o.ttl
  BY DEF Homeward
<1>7. PICK ttl : ttl = o.ttl - 2
  OBVIOUS
<1>8. /\ d \in Datagram /\ d.id = o.id /\ d.src = o.src /\ d.dst = o.dst
      /\ d.ttl = ttl /\ d.cksum = ttl
  BY <1>1, <1>2, <1>5, <1>7, ParsedFacts
<1>9. d = [id |-> o.id, src |-> o.src, dst |-> o.dst, ttl |-> ttl, cksum |-> ttl]
  BY <1>8 DEF Datagram
<1>10. o = [id |-> o.id, src |-> o.src, dst |-> o.dst, ttl |-> o.ttl, cksum |-> o.cksum]
  BY NetworkAssumption
<1>11. [o EXCEPT !.ttl = @ - 2, !.cksum = @ - 2] = [o EXCEPT !.ttl = ttl, !.cksum = ttl]
  BY <1>6, <1>7, <1>10
<1>12. d = [o EXCEPT !.ttl = ttl, !.cksum = ttl]
  <2>1. PICK m : m = [o EXCEPT !.ttl = ttl]
    OBVIOUS
  <2>2. m = [id |-> o.id, src |-> o.src, dst |-> o.dst, ttl |-> ttl, cksum |-> o.cksum]
    BY <1>10, <2>1
  <2>3. [m EXCEPT !.cksum = ttl]
          = [id |-> o.id, src |-> o.src, dst |-> o.dst, ttl |-> ttl, cksum |-> ttl]
    BY <2>2
  <2>4. [o EXCEPT !.ttl = ttl, !.cksum = ttl] = [m EXCEPT !.cksum = ttl]
    BY <2>1
  <2> QED
    BY <1>9, <2>3, <2>4
<1> QED
  BY <1>1, <1>3, <1>5, <1>11, <1>12 DEF Intact

(* What a host hears, it answers, and a datagram for it has arrived.       *)
LEMMA HostReadKeeps ==
  ASSUME IInv, NEW h \in Host, HostRead(h)
  PROVE  IInv'
<1> Placed /\ Single
  BY DEF IInv
<1>1. PICK n, c, frame, done, taken :
        /\ n = host[h] /\ c = cable[h] /\ frame = Head(c.down)
        /\ done = recv_frame(n, frame) /\ taken = done.nic.datagrams_received
  OBVIOUS
<1>2. /\ c.down # << >> /\ router' = router /\ internet' = internet /\ unsent' = unsent
      /\ host' = [host EXCEPT ![h] = [done.nic EXCEPT !.datagrams_received = << >>]]
      /\ arrived' = [arrived EXCEPT ![h] = @ \cup {taken[i] : i \in DOMAIN taken}]
      /\ cable' = [cable EXCEPT ![h].down = Tail(@), ![h].up = @ \o done.frames]
  BY <1>1 DEF HostRead
<1>3. CableWell(h, c)
  BY <1>1 DEF Placed, CablesWell
<1>4. /\ frame \in Frame /\ frame \in FramesTo(Ways(h, 1))
      /\ Tail(c.down) \in Seq(FramesTo(Ways(h, 1)))
  <2>1. c.down \in Seq(FramesTo(Ways(h, 1)))
    BY <1>3 DEF CableWell
  <2>2. frame \in FramesTo(Ways(h, 1)) /\ Tail(c.down) \in Seq(FramesTo(Ways(h, 1)))
    BY <1>1, <1>2, <2>1, FirstAndRest
  <2> QED
    BY <2>2 DEF FramesTo
<1>5. /\ IsInterface(n, UpPairs(h)) /\ n.datagrams_received = << >>
      /\ n.ip_address = HostIP[h]
  BY <1>1 DEF Placed, HostsWell
<1>6. /\ IsInterface(done.nic, UpPairs(h)) /\ done.frames \in Seq(FramesTo(UpPairs(h)))
      /\ done.nic.ip_address = HostIP[h]
      /\ \/ taken = << >>
         \/ /\ IsDatagram(frame) /\ frame.dst = HostIP[h]
            /\ taken = <<ParsedDatagram(frame.payload)>>
  BY <1>1, <1>4, <1>5, HearKeeps DEF Sends
<1>7. PICK q : q = [done.nic EXCEPT !.datagrams_received = << >>]
  OBVIOUS
<1>8. /\ IsInterface(q, UpPairs(h)) /\ q.datagrams_received = << >>
      /\ q.ip_address = HostIP[h]
  BY <1>6, <1>7, TakenKeeps
<1>9. HostsWell'
  BY <1>2, <1>7, <1>8 DEF Placed, HostsWell
<1>10. CablesWell' /\ cable'[h].up = c.up \o done.frames /\ cable'[h].down = Tail(c.down)
  <2>1. cable' = [cable EXCEPT ![h] = [up |-> c.up \o done.frames, down |-> Tail(c.down)]]
    <3>1. PICK d, rest, up : /\ rest = Tail(c.down) /\ up = c.up \o done.frames
                             /\ d = [c EXCEPT !.down = rest, !.up = up]
      OBVIOUS
    <3>2. d = [up |-> up, down |-> rest]
      BY <1>3, <3>1 DEF CableWell
    <3>3. DOMAIN cable = Host /\ c = [up |-> c.up, down |-> c.down]
      BY <1>3 DEF Placed, CablesWell, CableWell
    <3>4. cable' = [cable EXCEPT ![h].down = rest, ![h].up = up]
      BY <1>1, <1>2, <3>1, <3>3
    <3>5. cable' = [cable EXCEPT ![h] = d]
      BY <1>1, <3>1, <3>3, <3>4
    <3> QED
      BY <3>1, <3>2, <3>5
  <2>2. CableWell(h, [up |-> c.up \o done.frames, down |-> Tail(c.down)])
    BY <1>3, <1>4, <1>6, CableMore
  <2>3. PICK d : /\ d = [up |-> c.up \o done.frames, down |-> Tail(c.down)]
                 /\ cable'[h] = d
    BY <2>1 DEF Placed, CablesWell
  <2> QED
    BY <2>1, <2>2, <2>3 DEF Placed, CablesWell
<1>11. PICK new : new = {taken[i] : i \in DOMAIN taken}
  OBVIOUS
<1>12. ArrivedWell'
  <2>1. ASSUME Homeward, NEW a \in new PROVE Intact(h, a)
    <3>1. PICK i \in DOMAIN taken : a = taken[i]
      BY <1>11, <2>1
    <3>2. /\ IsDatagram(frame) /\ frame.dst = HostIP[h]
          /\ taken = <<ParsedDatagram(frame.payload)>>
      BY <1>6, <3>1
    <3>3. a = ParsedDatagram(frame.payload)
      BY <3>1, <3>2
    <3> QED
      BY <1>4, <2>1, <3>2, <3>3, TakenIntact
  <2>2. /\ DOMAIN arrived' = Host
        /\ \A g \in Host : arrived'[g] = IF g = h THEN arrived[h] \cup new ELSE arrived[g]
    BY <1>2, <1>11 DEF Placed, ArrivedWell
  <2>3. new \subseteq Datagram /\ IsFiniteSet(new)
    <3>1. CASE taken = << >>
      <4>1. new = {}
        BY <1>11, <3>1
      <4> QED
        BY <4>1, FS_EmptySet
    <3>2. CASE IsDatagram(frame) /\ taken = <<ParsedDatagram(frame.payload)>>
      <4>1. PICK d : d = ParsedDatagram(frame.payload)
        OBVIOUS
      <4>2. frame.payload \in Datagram
        BY <1>4, <3>2 DEF Frame, ArpFrames, DataFrames, IsDatagram
      <4>3. new = {d} /\ d \in Datagram
        BY <1>11, <3>2, <4>1, <4>2, ParsedFacts
      <4> QED
        BY <4>3, FS_Singleton
    <3> QED
      BY <1>6, <3>1, <3>2
  <2>4. \A g \in Host : arrived'[g] \subseteq Datagram /\ IsFiniteSet(arrived'[g])
    <3>1. IsFiniteSet(arrived[h] \cup new) /\ arrived[h] \cup new \subseteq Datagram
      BY <2>3, FS_Union DEF Placed, ArrivedWell
    <3> QED
      BY <2>2, <3>1 DEF Placed, ArrivedWell
  <2>5. ASSUME Homeward, NEW g \in Host, NEW a \in arrived'[g] PROVE Intact(g, a)
    <3>1. a \in arrived[g] => Intact(g, a)
      BY <2>5 DEF Placed, ArrivedWell
    <3>2. a \in arrived[g] \/ (g = h /\ a \in new)
      BY <2>2, <2>5
    <3> QED
      BY <2>1, <2>5, <3>1, <3>2
  <2> QED
    BY <2>2, <2>4, <2>5 DEF ArrivedWell, Intact
<1>13. Placed'
  BY <1>2, <1>9, <1>10, <1>12 DEF Placed, RoutersWell, InternetWell
<1>14. ASSUME NEW id PROVE Total(h, id)' <= Total(h, id)
  <2>1. /\ Flying(cable'[h].up, id) = Flying(c.up, id) + Flying(done.frames, id)
        /\ Flying(c.down, id) = One(frame \in FrameFor(id)) + Flying(cable'[h].down, id)
    <3>1. c.up \in Seq(FramesTo(UpPairs(h))) /\ c.down \in Seq(FramesTo(Ways(h, 1)))
      BY <1>3 DEF CableWell
    <3>2. Flying(c.up \o done.frames, id) = Flying(c.up, id) + Flying(done.frames, id)
      BY <1>6, <3>1, CountConcat DEF Flying
    <3>3. Flying(c.down, id) = One(frame \in FrameFor(id)) + Flying(Tail(c.down), id)
      BY <1>1, <1>2, <3>1, CountFirst DEF Flying, One
    <3> QED
      BY <1>10, <3>2, <3>3
  <2>2. Waiting(done.nic, id) + Held(done.nic, id) + Flying(done.frames, id)
          <= Waiting(n, id) + One(frame \in FrameFor(id))
    BY <1>1, <1>4, <1>5, HearKeeps
  <2>3. Waiting(host'[h], id) = Waiting(done.nic, id)
    BY <1>2, <1>6, <1>7, TakenKeeps DEF Placed, HostsWell
  <2>4. /\ Held(done.nic, id) \in Nat
        /\ Kept(arrived'[h], DatagramFor(id))
             <= Kept(arrived[h], DatagramFor(id)) + Held(done.nic, id)
    <3>1. taken \in Seq(Range(taken)) /\ new = Range(taken)
      <4>1. \A x : << >> \in Seq({x}) /\ <<x>> \in Seq({x})
        OBVIOUS
      <4>2. \E S : taken \in Seq(S)
        BY <1>6, <4>1
      <4>3. \A S : \A t \in Seq(S) : t \in Seq(Range(t))
        BY DEF Range
      <4> QED
        BY <1>11, <4>2, <4>3 DEF Range
    <3>2. IsFiniteSet(new) /\ Kept(new, DatagramFor(id)) <= Held(done.nic, id)
      BY <1>1, <3>1, CountRange DEF Kept, Held
    <3>3. Held(done.nic, id) \in Nat
      BY <1>1, <3>1, CountFacts DEF Held
    <3>4. arrived'[h] = arrived[h] \cup new /\ IsFiniteSet(arrived[h])
      BY <1>2, <1>11 DEF Placed, ArrivedWell
    <3>5. /\ Kept(arrived[h], DatagramFor(id)) \in Nat /\ Kept(new, DatagramFor(id)) \in Nat
          /\ Kept(arrived'[h], DatagramFor(id))
               <= Kept(arrived[h], DatagramFor(id)) + Kept(new, DatagramFor(id))
      BY <3>2, <3>4, KeptFacts
    <3>6. Kept(arrived'[h], DatagramFor(id)) \in Nat
      BY <1>13, NextNumbers
    <3> QED
      BY <3>2, <3>3, <3>5, <3>6
  <2>5. Load(h, id)' <= Load(h, id)
    <3>1. PICK w, v, held, wait, u, f, d, rest, net, a, b, one :
            /\ w = Waiting(n, id) /\ v = Waiting(done.nic, id) /\ held = Held(done.nic, id)
            /\ wait = Queues(router[h], id)
            /\ u = Flying(c.up, id) /\ f = Flying(done.frames, id) /\ d = Flying(c.down, id)
            /\ rest = Flying(cable'[h].down, id)
            /\ net = Kept(internet[h], FrameFor(id)) /\ a = Kept(arrived[h], DatagramFor(id))
            /\ b = Kept(arrived'[h], DatagramFor(id)) /\ one = One(frame \in FrameFor(id))
      OBVIOUS
    <3>2. /\ w \in Nat /\ wait \in Nat /\ u \in Nat /\ d \in Nat /\ net \in Nat /\ a \in Nat
          /\ v \in Nat /\ rest \in Nat /\ b \in Nat
      BY <1>1, <1>13, <2>3, <3>1, StateNumbers, NextNumbers
    <3>3. f \in Nat /\ held \in Nat /\ one \in Nat
      BY <1>6, <2>4, <3>1, Numbers DEF One
    <3>4. Load(h, id) = w + wait + u + d + net + a
      BY <1>1, <3>1 DEF Load
    <3>5. Load(h, id)' = v + wait + (u + f) + rest + net + b
      BY <1>2, <2>1, <2>3, <3>1 DEF Load
    <3>6. v + held + f <= w + one /\ d = one + rest /\ b <= a + held
      BY <2>1, <2>2, <2>4, <3>1
    <3> QED
      BY <3>2, <3>3, <3>4, <3>5, <3>6
  <2>6. Load(Peer(h), id)' = Load(Peer(h), id)
    <3>1. /\ host'[Peer(h)] = host[Peer(h)] /\ cable'[Peer(h)] = cable[Peer(h)]
          /\ arrived'[Peer(h)] = arrived[Peer(h)]
      BY <1>2, PeerFacts DEF Placed, HostsWell, CablesWell, ArrivedWell
    <3> QED
      BY <1>2, <3>1 DEF Load
  <2>7. /\ Load(h, id) \in Nat /\ Load(Peer(h), id) \in Nat
        /\ Load(h, id)' \in Nat
    BY <1>13, PeerFacts, StateNumbers, NextNumbers
  <2> QED
    BY <2>5, <2>6, <2>7 DEF Total
<1>15. ASSUME NEW dgram \in Traffic
       PROVE  Total(h, dgram.id)' + One(dgram \in unsent')
                <= Total(h, dgram.id) + One(dgram \in unsent)
  <2>1. Total(h, dgram.id) \in Nat /\ Total(h, dgram.id)' \in Nat
    BY <1>13, StateNumbers, NextNumbers
  <2> QED
    BY <1>2, <1>14, <2>1 DEF One
<1>16. Single'
  BY <1>13, <1>15, Balance
<1> QED
  BY <1>13, <1>16 DEF IInv

(* A router's frames go down the cable and to the other router.            *)
LEMMA TransmitKeeps ==
  ASSUME Placed, NEW h \in Host, NEW sent \in Seq(Sending(h)),
         NEW up \in Seq(FramesTo(UpPairs(h))), NEW here \in SUBSET internet[h],
         RouterTransmits(h, sent, up, here)
  PROVE  /\ CablesWell' /\ InternetWell'
         /\ cable'[h].up = up /\ cable'[Peer(h)] = cable[Peer(h)] /\ internet'[h] = here
         /\ \A id : Flying(cable'[h].down, id) + Kept(internet'[Peer(h)], FrameFor(id))
                     <= Flying(cable[h].down, id) + Kept(internet[Peer(h)], FrameFor(id))
                          + Sent(sent, id)
<1>1. PICK down, over : down = To(sent, 1) /\ over = To(sent, 2)
  OBVIOUS
<1>2. down \in Seq(FramesTo(Ways(h, 1))) /\ over \in Seq(FramesTo(Ways(h, 2)))
  <2>1. 1 \in 1..2 /\ 2 \in 1..2
    OBVIOUS
  <2> QED
    BY <1>1, <2>1, ToKeeps
<1>3. /\ cable' = [cable EXCEPT ![h] = [up |-> up, down |-> @.down \o down]]
      /\ internet' = [internet EXCEPT ![h] = here, ![Peer(h)] = @ \cup Range(over)]
  BY <1>1 DEF RouterTransmits
<1>4. PICK c : c = cable[h] /\ CableWell(h, c)
  BY DEF Placed, CablesWell
<1>5. PICK g \in Host : g = Peer(h) /\ g # h /\ Host = {h, g} /\ Peer(g) = h
  BY PeerFacts
<1>6. /\ CablesWell' /\ cable'[g] = cable[g]
      /\ cable'[h].up = up /\ cable'[h].down = c.down \o down
  <2>1. DOMAIN cable = Host
    BY DEF Placed, CablesWell
  <2>2. cable' = [cable EXCEPT ![h] = [up |-> up, down |-> c.down \o down]]
    BY <1>3, <1>4
  <2>3. CableWell(h, [up |-> up, down |-> c.down \o down])
    BY <1>2, <1>4, CableMore
  <2>4. PICK d : d = [up |-> up, down |-> c.down \o down] /\ cable'[h] = d
    BY <2>1, <2>2
  <2> QED
    BY <1>5, <2>1, <2>2, <2>3, <2>4 DEF Placed, CablesWell
<1>7. /\ InternetWell' /\ internet'[h] = here
      /\ internet'[g] = internet[g] \cup Range(over)
  <2>1. /\ DOMAIN internet' = Host /\ internet'[h] = here
        /\ internet'[g] = internet[g] \cup Range(over)
    BY <1>3, <1>5 DEF Placed, InternetWell
  <2>2. here \subseteq FramesTo(Ways(g, 2)) /\ IsFiniteSet(here)
    <3>1. internet[h] \subseteq FramesTo(Ways(g, 2)) /\ IsFiniteSet(internet[h])
      BY <1>5 DEF Placed, InternetWell
    <3> QED
      BY <3>1, FS_Subset
  <2>3. /\ internet[g] \cup Range(over) \subseteq FramesTo(Ways(h, 2))
        /\ IsFiniteSet(internet[g] \cup Range(over))
    <3>1. internet[g] \subseteq FramesTo(Ways(h, 2)) /\ IsFiniteSet(internet[g])
      BY <1>5 DEF Placed, InternetWell
    <3>2. Range(over) \subseteq FramesTo(Ways(h, 2)) /\ IsFiniteSet(Range(over))
      BY <1>2, CountRange DEF Range
    <3> QED
      BY <3>1, <3>2, FS_Union
  <2> QED
    BY <1>5, <2>1, <2>2, <2>3 DEF InternetWell
<1>8. ASSUME NEW id
      PROVE  Flying(cable'[h].down, id) + Kept(internet'[g], FrameFor(id))
               <= Flying(c.down, id) + Kept(internet[g], FrameFor(id)) + Sent(sent, id)
  <2>1. Flying(c.down \o down, id) = Flying(c.down, id) + Flying(down, id)
    BY <1>2, <1>4, CountConcat DEF CableWell, Flying
  <2>2. Flying(down, id) + Flying(over, id) <= Sent(sent, id)
    BY <1>1, ToCounts
  <2>3. /\ IsFiniteSet(internet[g]) /\ IsFiniteSet(Range(over))
        /\ Kept(Range(over), FrameFor(id)) <= Flying(over, id)
    BY <1>2, CountRange DEF Placed, InternetWell, Kept, Flying
  <2>4. /\ Kept(internet[g], FrameFor(id)) \in Nat /\ Kept(Range(over), FrameFor(id)) \in Nat
        /\ Kept(internet'[g], FrameFor(id))
             <= Kept(internet[g], FrameFor(id)) + Kept(Range(over), FrameFor(id))
    BY <1>7, <2>3, KeptFacts
  <2>5. IsFiniteSet(internet'[g])
    BY <1>7 DEF InternetWell
  <2>6. /\ Flying(c.down, id) \in Nat /\ Flying(down, id) \in Nat
        /\ Flying(over, id) \in Nat /\ Sent(sent, id) \in Nat
        /\ Kept(internet'[g], FrameFor(id)) \in Nat
    BY <1>2, <1>4, <2>5, Numbers, ResultNumbers, KeptFacts DEF CableWell
  <2> QED
    BY <1>6, <2>1, <2>2, <2>3, <2>4, <2>6
<1> QED
  BY <1>4, <1>5, <1>6, <1>7, <1>8

(* A router has handled a frame.                                           *)
LEMMA RouterKeeps ==
  ASSUME Placed, NEW h \in Host, NEW i \in 1..2, NEW frame \in Incoming(h, i),
         router' = [router EXCEPT ![h] = Handle(h, i, frame).router]
  PROVE  /\ RoutersWell' /\ Handle(h, i, frame).sent \in Seq(Sending(h))
         /\ router'[Peer(h)] = router[Peer(h)]
         /\ \A id : Queues(router'[h], id) + Sent(Handle(h, i, frame).sent, id)
                     <= Queues(router[h], id) + One(frame \in FrameFor(id))
<1>1. IsRouter(h, router[h]) /\ \A j \in 1..2 : Received(router[h], j) = << >>
  BY DEF Placed, RoutersWell
<1>2. PICK done : done = Handle(h, i, frame)
  OBVIOUS
<1>3. /\ IsRouter(h, done.router) /\ done.sent \in Seq(Sending(h))
      /\ \A j \in 1..2 : Received(done.router, j) = << >>
      /\ \A id : Weight(done, id) <= Queues(router[h], id) + One(frame \in FrameFor(id))
  BY <1>1, <1>2, HandleKeeps
<1>4. router' = [router EXCEPT ![h] = done.router]
  BY <1>2
<1>5. /\ DOMAIN router' = Host
      /\ \A g \in Host : router'[g] = IF g = h THEN done.router ELSE router[g]
  BY <1>4 DEF Placed, RoutersWell
<1>6. RoutersWell'
  BY <1>3, <1>5 DEF Placed, RoutersWell, Received
<1> QED
  BY <1>2, <1>3, <1>5, <1>6, PeerFacts DEF Weight

(* Of no datagram there is more, if what it handles was taken from where   *)
(* frames come in.                                                         *)
LEMMA RouterTotal ==
  ASSUME Placed, Placed', NEW h \in Host, host' = host, arrived' = arrived,
         NEW sent \in Seq(Sending(h)), NEW id, NEW one \in Nat,
         cable'[Peer(h)] = cable[Peer(h)], router'[Peer(h)] = router[Peer(h)],
         Queues(router'[h], id) + Sent(sent, id) <= Queues(router[h], id) + one,
         Flying(cable'[h].up, id) + Kept(internet'[h], FrameFor(id)) + one
           <= Flying(cable[h].up, id) + Kept(internet[h], FrameFor(id)),
         Flying(cable'[h].down, id) + Kept(internet'[Peer(h)], FrameFor(id))
           <= Flying(cable[h].down, id) + Kept(internet[Peer(h)], FrameFor(id)) + Sent(sent, id)
  PROVE  Total(h, id)' <= Total(h, id)
<1>1. PICK g \in Host : g = Peer(h)
  BY PeerFacts
<1>2. PICK q, qq, t, u, uu, d, dd, here, heree, there, theree, w, a :
        /\ q = Queues(router[h], id) /\ qq = Queues(router'[h], id) /\ t = Sent(sent, id)
        /\ u = Flying(cable[h].up, id) /\ uu = Flying(cable'[h].up, id)
        /\ d = Flying(cable[h].down, id) /\ dd = Flying(cable'[h].down, id)
        /\ here = Kept(internet[h], FrameFor(id)) /\ heree = Kept(internet'[h], FrameFor(id))
        /\ there = Kept(internet[g], FrameFor(id)) /\ theree = Kept(internet'[g], FrameFor(id))
        /\ w = Waiting(host[h], id) /\ a = Kept(arrived[h], DatagramFor(id))
  OBVIOUS
<1>3. PICK wg, qg, ug, dg, ag :
        /\ wg = Waiting(host[g], id) /\ qg = Queues(router[g], id)
        /\ ug = Flying(cable[g].up, id) /\ dg = Flying(cable[g].down, id)
        /\ ag = Kept(arrived[g], DatagramFor(id))
  OBVIOUS
<1>4. /\ q \in Nat /\ qq \in Nat /\ t \in Nat /\ u \in Nat /\ uu \in Nat /\ d \in Nat
      /\ dd \in Nat /\ here \in Nat /\ heree \in Nat /\ there \in Nat /\ theree \in Nat
      /\ w \in Nat /\ a \in Nat
  BY <1>2, StateNumbers, NextNumbers, ResultNumbers
<1>5. wg \in Nat /\ qg \in Nat /\ ug \in Nat /\ dg \in Nat /\ ag \in Nat
  BY <1>3, StateNumbers
<1>6. /\ Load(h, id) = w + q + u + d + here + a
      /\ Load(h, id)' = w + qq + uu + dd + heree + a
  BY <1>2 DEF Load
<1>7. /\ Load(g, id) = wg + qg + ug + dg + there + ag
      /\ Load(g, id)' = wg + qg + ug + dg + theree + ag
  BY <1>1, <1>2, <1>3 DEF Load
<1>8. qq + t <= q + one /\ uu + heree + one <= u + here /\ dd + theree <= d + there + t
  BY <1>1, <1>2
<1>9. /\ Total(h, id) = Load(h, id) + Load(g, id)
      /\ Total(h, id)' = Load(h, id)' + Load(g, id)'
  BY <1>1 DEF Total
<1> QED
  BY <1>4, <1>5, <1>6, <1>7, <1>8, <1>9

(* A step that sends nothing new.                                          *)
LEMMA NothingNew ==
  ASSUME IInv, Placed', unsent' = unsent, NEW h \in Host,
         \A id : Total(h, id)' <= Total(h, id)
  PROVE  IInv'
<1> Placed /\ Single
  BY DEF IInv
<1>1. ASSUME NEW dgram \in Traffic
      PROVE  Total(h, dgram.id)' + One(dgram \in unsent')
               <= Total(h, dgram.id) + One(dgram \in unsent)
  <2>1. Total(h, dgram.id) \in Nat /\ Total(h, dgram.id)' \in Nat
    BY StateNumbers, NextNumbers
  <2> QED
    BY <2>1 DEF One
<1>2. Single'
  BY <1>1, Balance
<1> QED
  BY <1>2 DEF IInv

(* A frame from the host.                                                  *)
LEMMA FromHostKeeps ==
  ASSUME IInv, NEW h \in Host, FromHost(h)
  PROVE  IInv'
<1> Placed
  BY DEF IInv
<1>1. PICK frame : frame = Head(cable[h].up)
  OBVIOUS
<1>2. /\ frame \in Incoming(h, 1) /\ Tail(cable[h].up) \in Seq(FramesTo(UpPairs(h)))
      /\ \A id : Flying(cable[h].up, id)
                  = One(frame \in FrameFor(id)) + Flying(Tail(cable[h].up), id)
  <2>1. cable[h].up \in Seq(FramesTo(UpPairs(h))) /\ cable[h].up # << >>
    BY DEF Placed, CablesWell, CableWell, FromHost
  <2>2. frame \in FramesTo(UpPairs(h)) /\ Tail(cable[h].up) \in Seq(FramesTo(UpPairs(h)))
    BY <1>1, <2>1, FirstAndRest
  <2>3. \A id : Flying(cable[h].up, id)
                 = One(frame \in FrameFor(id)) + Flying(Tail(cable[h].up), id)
    BY <1>1, <2>1, CountFirst DEF Flying, One
  <2> QED
    BY <2>2, <2>3 DEF Incoming
<1>3. /\ router' = [router EXCEPT ![h] = Handle(h, 1, frame).router]
      /\ RouterTransmits(h, Handle(h, 1, frame).sent, Tail(cable[h].up), internet[h])
      /\ host' = host /\ unsent' = unsent /\ arrived' = arrived
  BY <1>1 DEF FromHost
<1>4. 1 \in 1..2
  OBVIOUS
<1>5. PICK sent : sent = Handle(h, 1, frame).sent
  OBVIOUS
<1>6. /\ RoutersWell' /\ sent \in Seq(Sending(h)) /\ router'[Peer(h)] = router[Peer(h)]
      /\ \A id : Queues(router'[h], id) + Sent(sent, id)
                  <= Queues(router[h], id) + One(frame \in FrameFor(id))
  BY <1>2, <1>3, <1>4, <1>5, RouterKeeps
<1>7. /\ CablesWell' /\ InternetWell' /\ cable'[h].up = Tail(cable[h].up)
      /\ cable'[Peer(h)] = cable[Peer(h)] /\ internet'[h] = internet[h]
      /\ \A id : Flying(cable'[h].down, id) + Kept(internet'[Peer(h)], FrameFor(id))
                  <= Flying(cable[h].down, id) + Kept(internet[Peer(h)], FrameFor(id))
                       + Sent(sent, id)
  <2>1. PICK up, here : up = Tail(cable[h].up) /\ here = internet[h]
    OBVIOUS
  <2>2. /\ up \in Seq(FramesTo(UpPairs(h))) /\ here \in SUBSET internet[h]
        /\ RouterTransmits(h, sent, up, here)
    BY <1>2, <1>3, <1>5, <2>1
  <2>3. sent \in Seq(Sending(h))
    BY <1>6
  <2>4. /\ CablesWell' /\ InternetWell'
        /\ cable'[h].up = up /\ cable'[Peer(h)] = cable[Peer(h)] /\ internet'[h] = here
        /\ \A id : Flying(cable'[h].down, id) + Kept(internet'[Peer(h)], FrameFor(id))
                    <= Flying(cable[h].down, id) + Kept(internet[Peer(h)], FrameFor(id))
                         + Sent(sent, id)
    BY <2>2, <2>3, TransmitKeeps, Zenon
  <2> QED
    BY <2>1, <2>4
<1>8. Placed'
  BY <1>3, <1>6, <1>7 DEF Placed, HostsWell, ArrivedWell
<1>9. ASSUME NEW id PROVE Total(h, id)' <= Total(h, id)
  <2>1. One(frame \in FrameFor(id)) \in Nat
    BY DEF One
  <2>2. Flying(cable'[h].up, id) + Kept(internet'[h], FrameFor(id)) + One(frame \in FrameFor(id))
          <= Flying(cable[h].up, id) + Kept(internet[h], FrameFor(id))
    <3>1. /\ Flying(cable'[h].up, id) \in Nat /\ Kept(internet[h], FrameFor(id)) \in Nat
      BY <1>8, StateNumbers, NextNumbers
    <3>2. Flying(cable[h].up, id) = One(frame \in FrameFor(id)) + Flying(cable'[h].up, id)
      BY <1>2, <1>7
    <3> QED
      BY <1>7, <2>1, <3>1, <3>2
  <2> QED
    BY <1>3, <1>6, <1>7, <1>8, <2>1, <2>2, RouterTotal
<1> QED
  BY <1>3, <1>8, <1>9, NothingNew

(* A frame from the other router.                                          *)
LEMMA FromInternetKeeps ==
  ASSUME IInv, NEW h \in Host, NEW frame \in internet[h], FromInternet(h, frame)
  PROVE  IInv'
<1> Placed
  BY DEF IInv
<1>1. frame \in Incoming(h, 2)
  BY DEF Placed, InternetWell, Incoming
<1>2. cable[h].up \in Seq(FramesTo(UpPairs(h)))
  BY DEF Placed, CablesWell, CableWell
<1>3. /\ router' = [router EXCEPT ![h] = Handle(h, 2, frame).router]
      /\ RouterTransmits(h, Handle(h, 2, frame).sent, cable[h].up, internet[h] \ {frame})
      /\ host' = host /\ unsent' = unsent /\ arrived' = arrived
  BY DEF FromInternet
<1>4. 2 \in 1..2 /\ internet[h] \ {frame} \in SUBSET internet[h]
  OBVIOUS
<1>5. PICK sent : sent = Handle(h, 2, frame).sent
  OBVIOUS
<1>6. /\ RoutersWell' /\ sent \in Seq(Sending(h)) /\ router'[Peer(h)] = router[Peer(h)]
      /\ \A id : Queues(router'[h], id) + Sent(sent, id)
                  <= Queues(router[h], id) + One(frame \in FrameFor(id))
  BY <1>1, <1>3, <1>4, <1>5, RouterKeeps
<1>7. /\ CablesWell' /\ InternetWell' /\ cable'[h].up = cable[h].up
      /\ cable'[Peer(h)] = cable[Peer(h)] /\ internet'[h] = internet[h] \ {frame}
      /\ \A id : Flying(cable'[h].down, id) + Kept(internet'[Peer(h)], FrameFor(id))
                  <= Flying(cable[h].down, id) + Kept(internet[Peer(h)], FrameFor(id))
                       + Sent(sent, id)
  BY <1>2, <1>3, <1>4, <1>5, <1>6, TransmitKeeps
<1>8. Placed'
  BY <1>3, <1>6, <1>7 DEF Placed, HostsWell, ArrivedWell
<1>9. ASSUME NEW id PROVE Total(h, id)' <= Total(h, id)
  <2>1. One(frame \in FrameFor(id)) \in Nat
    BY DEF One
  <2>2. Flying(cable'[h].up, id) + Kept(internet'[h], FrameFor(id)) + One(frame \in FrameFor(id))
          <= Flying(cable[h].up, id) + Kept(internet[h], FrameFor(id))
    <3>1. /\ Flying(cable[h].up, id) \in Nat /\ Kept(internet[h], FrameFor(id)) \in Nat
      BY StateNumbers
    <3>2. Kept(internet'[h], FrameFor(id))
            = Kept(internet[h], FrameFor(id)) - One(frame \in FrameFor(id))
      BY <1>7, KeptFacts DEF Placed, InternetWell
    <3> QED
      BY <1>7, <2>1, <3>1, <3>2
  <2> QED
    BY <1>3, <1>6, <1>7, <1>8, <2>1, <2>2, RouterTotal
<1> QED
  BY <1>3, <1>8, <1>9, NothingNew

(* A frame is lost.                                                        *)
LEMMA LoseKeeps ==
  ASSUME IInv, NEW h \in Host, NEW frame \in internet[h], Lose(h, frame)
  PROVE  IInv'
<1> Placed
  BY DEF IInv
<1>1. /\ internet' = [internet EXCEPT ![h] = @ \ {frame}]
      /\ host' = host /\ router' = router /\ cable' = cable /\ unsent' = unsent
      /\ arrived' = arrived
  BY DEF Lose
<1>2. InternetWell'
  <2>1. IsFiniteSet(internet[h] \ {frame})
    BY FS_RemoveElement DEF Placed, InternetWell
  <2> QED
    BY <1>1, <2>1 DEF Placed, InternetWell
<1>3. Placed'
  BY <1>1, <1>2 DEF Placed, HostsWell, RoutersWell, CablesWell, ArrivedWell
<1>4. ASSUME NEW id PROVE Total(h, id)' <= Total(h, id)
  <2>1. internet'[h] = internet[h] \ {frame} /\ internet'[Peer(h)] = internet[Peer(h)]
    BY <1>1, PeerFacts DEF Placed, InternetWell
  <2>2. Kept(internet'[h], FrameFor(id)) <= Kept(internet[h], FrameFor(id))
    <3>1. Kept(internet'[h], FrameFor(id))
            = Kept(internet[h], FrameFor(id)) - One(frame \in FrameFor(id))
      BY <2>1, KeptFacts DEF Placed, InternetWell
    <3> QED
      BY <3>1, StateNumbers DEF One
  <2>3. Load(h, id)' <= Load(h, id)
    <3>1. PICK w, q, u, d, m, n, a :
            /\ w = Waiting(host[h], id) /\ q = Queues(router[h], id)
            /\ u = Flying(cable[h].up, id) /\ d = Flying(cable[h].down, id)
            /\ m = Kept(internet[h], FrameFor(id)) /\ n = Kept(internet'[h], FrameFor(id))
            /\ a = Kept(arrived[h], DatagramFor(id))
      OBVIOUS
    <3>2. /\ w \in Nat /\ q \in Nat /\ u \in Nat /\ d \in Nat /\ m \in Nat /\ n \in Nat
          /\ a \in Nat
      BY <1>3, <3>1, StateNumbers, NextNumbers
    <3>3. Load(h, id) = w + q + u + d + m + a /\ Load(h, id)' = w + q + u + d + n + a
      BY <1>1, <3>1 DEF Load
    <3> QED
      BY <2>2, <3>1, <3>2, <3>3
  <2>4. Load(Peer(h), id)' = Load(Peer(h), id)
    BY <1>1, <2>1 DEF Load
  <2>5. /\ Load(h, id) \in Nat /\ Load(Peer(h), id) \in Nat /\ Load(h, id)' \in Nat
    BY <1>3, PeerFacts, StateNumbers, NextNumbers
  <2> QED
    BY <2>3, <2>4, <2>5 DEF Total
<1> QED
  BY <1>1, <1>3, <1>4, NothingNew

(* Time passes everywhere.                                                 *)
LEMMA ClocksKeep ==
  ASSUME IInv, NEW ms \in Step, Tick(ms)
  PROVE  IInv'
<1> Placed
  BY DEF IInv
<1>1. /\ host' = [h \in Host |-> tick(host[h], ms)]
      /\ router' = [h \in Host |->
           [router[h] EXCEPT !.interfaces = [i \in DOMAIN @ |-> tick(@[i], ms)]]]
      /\ cable' = cable /\ internet' = internet /\ unsent' = unsent /\ arrived' = arrived
  BY DEF Tick
<1>2. ms \in Nat
  BY NetworkAssumption
<1>3. HostsWell'
  BY <1>1, <1>2, TickKeeps DEF Placed, HostsWell
<1>4. ASSUME NEW h \in Host
      PROVE  /\ IsRouter(h, router'[h]) /\ \A i \in 1..2 : Received(router'[h], i) = << >>
             /\ \A id : Queues(router'[h], id) <= Queues(router[h], id)
  <2>1. PICK r, a, b : /\ r = router[h] /\ r = [interfaces |-> <<a, b>>, routing_table |-> Table[h]]
                       /\ IsInterface(a, Ways(h, 1)) /\ IsInterface(b, Ways(h, 2))
                       /\ a.datagrams_received = << >> /\ b.datagrams_received = << >>
    <3>1. /\ IsRouter(h, router[h])
          /\ Received(router[h], 1) = << >> /\ Received(router[h], 2) = << >>
      BY DEF Placed, RoutersWell
    <3> QED
      BY <3>1 DEF IsRouter, Received
  <2>2. PICK c, d, s : c = tick(a, ms) /\ d = tick(b, ms) /\ s = router'[h]
    OBVIOUS
  <2>3. s = [r EXCEPT !.interfaces = [i \in DOMAIN r.interfaces |-> tick(r.interfaces[i], ms)]]
    BY <1>1, <2>1, <2>2
  <2>4. /\ r.interfaces = <<a, b>> /\ DOMAIN r.interfaces = 1..2
        /\ r.interfaces[1] = a /\ r.interfaces[2] = b
    BY <2>1
  <2>5. [i \in 1..2 |-> tick(r.interfaces[i], ms)] = <<c, d>>
    <3>1. \A i \in 1..2 : i = 1 \/ i = 2
      OBVIOUS
    <3>2. PICK new : new = [i \in 1..2 |-> tick(r.interfaces[i], ms)]
      OBVIOUS
    <3>3. new[1] = c /\ new[2] = d
      BY <2>2, <2>4, <3>2
    <3>4. new = [i \in 1..2 |-> new[i]] /\ new \in Seq({c, d}) /\ Len(new) = 2
      BY <3>1, <3>2, <3>3
    <3> QED
      BY <3>2, <3>3, <3>4
  <2>6. s = [interfaces |-> <<c, d>>, routing_table |-> Table[h]]
    BY <2>1, <2>3, <2>4, <2>5
  <2>7. s.interfaces[1] = c /\ s.interfaces[2] = d
    BY <2>6
  <2>8. /\ IsInterface(c, Ways(h, 1)) /\ IsInterface(d, Ways(h, 2))
        /\ c.datagrams_received = << >> /\ d.datagrams_received = << >>
        /\ \A id : Waiting(c, id) <= Waiting(a, id) /\ Waiting(d, id) <= Waiting(b, id)
    BY <1>2, <2>1, <2>2, TickKeeps
  <2>9. \A i \in 1..2 : i = 1 \/ i = 2
    OBVIOUS
  <2>10. \A id : Queues(s, id) <= Queues(r, id)
    <3>1. ASSUME NEW id
          PROVE  /\ Waiting(a, id) \in Nat /\ Waiting(b, id) \in Nat
                 /\ Waiting(c, id) \in Nat /\ Waiting(d, id) \in Nat
      BY <2>1, <2>8, Numbers
    <3> QED
      BY <2>4, <2>7, <2>8, <3>1 DEF Queues
  <2> QED
    BY <2>1, <2>2, <2>6, <2>7, <2>8, <2>9, <2>10 DEF IsRouter, Received, Handed
<1>5. RoutersWell'
  <2>1. DOMAIN router' = Host
    BY <1>1
  <2> QED
    BY <1>4, <2>1 DEF RoutersWell, Received
<1>6. Placed'
  BY <1>1, <1>3, <1>5 DEF Placed, CablesWell, InternetWell, ArrivedWell
<1>7. ASSUME NEW h \in Host, NEW id PROVE Load(h, id)' <= Load(h, id)
  <2>1. /\ Waiting(host'[h], id) <= Waiting(host[h], id)
        /\ Queues(router'[h], id) <= Queues(router[h], id)
    BY <1>1, <1>2, <1>4, TickKeeps DEF Placed, HostsWell
  <2>2. PICK w, ww, q, qq, u, d, n, a :
          /\ w = Waiting(host[h], id) /\ ww = Waiting(host'[h], id)
          /\ q = Queues(router[h], id) /\ qq = Queues(router'[h], id)
          /\ u = Flying(cable[h].up, id) /\ d = Flying(cable[h].down, id)
          /\ n = Kept(internet[h], FrameFor(id)) /\ a = Kept(arrived[h], DatagramFor(id))
    OBVIOUS
  <2>3. /\ w \in Nat /\ ww \in Nat /\ q \in Nat /\ qq \in Nat /\ u \in Nat /\ d \in Nat
        /\ n \in Nat /\ a \in Nat
    BY <1>6, <2>2, StateNumbers, NextNumbers
  <2>4. Load(h, id) = w + q + u + d + n + a /\ Load(h, id)' = ww + qq + u + d + n + a
    BY <1>1, <2>2 DEF Load
  <2> QED
    BY <2>1, <2>2, <2>3, <2>4
<1>8. PICK h : h \in Host
  BY NetworkAssumption
<1>9. ASSUME NEW id PROVE Total(h, id)' <= Total(h, id)
  <2>1. /\ Load(h, id)' <= Load(h, id) /\ Load(Peer(h), id)' <= Load(Peer(h), id)
        /\ Load(h, id) \in Nat /\ Load(Peer(h), id) \in Nat
        /\ Load(h, id)' \in Nat /\ Load(Peer(h), id)' \in Nat
    BY <1>6, <1>7, <1>8, PeerFacts, StateNumbers, NextNumbers
  <2> QED
    BY <2>1 DEF Total
<1> QED
  BY <1>1, <1>6, <1>8, <1>9, NothingNew

(* Every step keeps everything on its way.                                 *)
LEMMA NextKeeps == IInv /\ [Next]_vars => IInv'
<1>1. SUFFICES ASSUME IInv, [Next]_vars PROVE IInv'
  OBVIOUS
<1>2. CASE UNCHANGED vars
  BY <1>1, <1>2
  DEF vars, IInv, Placed, HostsWell, RoutersWell, CablesWell, InternetWell, ArrivedWell,
      Single, Total, Load
<1>3. CASE \E h \in Host : \E dgram \in unsent : HostWrite(h, dgram)
  BY <1>1, <1>3, HostWriteKeeps
<1>4. CASE \E h \in Host : HostRead(h) \/ FromHost(h)
  BY <1>1, <1>4, HostReadKeeps, FromHostKeeps
<1>5. CASE \E h \in Host : \E frame \in internet[h] : FromInternet(h, frame) \/ Lose(h, frame)
  BY <1>1, <1>5, FromInternetKeeps, LoseKeeps
<1>6. CASE \E ms \in Step : Tick(ms)
  BY <1>1, <1>6, ClocksKeep
<1> QED
  BY <1>1, <1>2, <1>3, <1>4, <1>5, <1>6 DEF Next

(* In every state of every network of this shape.                          *)
THEOREM Invariant == Spec => []IInv
BY InitHolds, NextKeeps, PTL DEF Spec

(* Whatever the routing tables, the addresses and the traffic are: what a  *)
(* router has forwarded, and what waits in it for an address, goes where   *)
(* the longest matching prefix leads and to the next hop that rule names.  *)
THEOREM LongestPrefixLeads == Spec => []OnCourse
<1>1. IInv => OnCourse
  <2>1. SUFFICES ASSUME IInv, NEW h \in Host
                 PROVE  /\ \A i \in 1..2 : \A w \in Queued(router[h].interfaces[i]) :
                             Leads(h, i, w.dgram, w.next_hop)
                        /\ \A frame \in Range(cable[h].down) :
                             IsDatagram(frame) => Leads(h, 1, frame.payload, frame.dst)
                        /\ \A frame \in internet[Peer(h)] :
                             IsDatagram(frame) => Leads(h, 2, frame.payload, frame.dst)
    BY DEF OnCourse
  <2>2. IsRouter(h, router[h]) /\ router[h].routing_table = Table[h]
    BY <2>1, RouterFields DEF IInv, Placed, RoutersWell
  <2>3. \A i, dgram, hop : <<dgram, hop>> \in Ways(h, i) => Leads(h, i, dgram, hop)
    BY <2>2 DEF Ways, Way, Leads
  <2>4. ASSUME NEW i \in 1..2, NEW w \in Queued(router[h].interfaces[i])
        PROVE  Leads(h, i, w.dgram, w.next_hop)
    <3>1. PICK out : out = router[h].interfaces[i].ip_frames_out
      OBVIOUS
    <3>2. out \in Seq(Waiters(Ways(h, i)))
      BY <2>2, <3>1, RouterFields DEF IsInterface
    <3>3. PICK j \in DOMAIN out : w = out[j]
      BY <3>1 DEF Queued
    <3>4. w \in Waiters(Ways(h, i))
      BY <3>2, <3>3
    <3> QED
      BY <2>3, <3>4 DEF Waiters
  <2>5. ASSUME NEW frame \in Range(cable[h].down), IsDatagram(frame)
        PROVE  Leads(h, 1, frame.payload, frame.dst)
    <3>1. cable[h].down \in Seq(FramesTo(Ways(h, 1)))
      BY <2>1 DEF IInv, Placed, CablesWell, CableWell
    <3>2. frame \in FramesTo(Ways(h, 1))
      BY <3>1 DEF Range
    <3> QED
      BY <2>3, <2>5, <3>2 DEF FramesTo
  <2>6. ASSUME NEW frame \in internet[Peer(h)], IsDatagram(frame)
        PROVE  Leads(h, 2, frame.payload, frame.dst)
    <3>1. frame \in FramesTo(Ways(h, 2))
      BY <2>1, PeerFacts DEF IInv, Placed, InternetWell
    <3> QED
      BY <2>3, <2>6, <3>1 DEF FramesTo
  <2> QED
    BY <2>4, <2>5, <2>6
<1> QED
  BY <1>1, Invariant, PTL

(* A datagram that has gone around the network is nowhere twice.           *)
LEMMA CopiesAre ==
  ASSUME Placed, NEW h \in Host, NEW id
  PROVE  Load(h, id) = CopiesAt(id, h) + Cardinality({a \in arrived[h] : a.id = id})
<1>1. ASSUME NEW P, NEW n, IsInterface(n, P) PROVE WaitingOf(id, n) = Waiting(n, id)
  <2>1. PICK out : out = n.ip_frames_out /\ out \in Seq(Waiters(P))
    BY <1>1 DEF IsInterface
  <2>2. \A i \in DOMAIN out : out[i] \in Waiter
    <3>1. \A i \in DOMAIN out : out[i] \in Waiters(P)
      BY <2>1
    <3> QED
      BY <3>1 DEF Waiters
  <2>3. {i \in DOMAIN out : out[i].dgram.id = id} = On(out, WaiterFor(id))
    BY <2>2 DEF On, WaiterFor
  <2> QED
    BY <2>1, <2>3 DEF WaitingOf, Waiting, Count
<1>2. ASSUME NEW P, NEW frames \in Seq(FramesTo(P)) PROVE FramesOf(id, frames) = Flying(frames, id)
  <2>1. \A i \in DOMAIN frames : frames[i] \in Frame
    <3>1. \A i \in DOMAIN frames : frames[i] \in FramesTo(P)
      OBVIOUS
    <3> QED
      BY <3>1 DEF FramesTo
  <2>2. {i \in DOMAIN frames : IsDatagram(frames[i]) /\ frames[i].payload.id = id}
          = On(frames, FrameFor(id))
    BY <2>1 DEF On, FrameFor
  <2> QED
    BY <2>2 DEF FramesOf, Flying, Count
<1>3. /\ WaitingOf(id, host[h]) = Waiting(host[h], id)
      /\ WaitingOf(id, router[h].interfaces[1]) = Waiting(router[h].interfaces[1], id)
      /\ WaitingOf(id, router[h].interfaces[2]) = Waiting(router[h].interfaces[2], id)
  <2>1. 1 \in 1..2 /\ 2 \in 1..2
    OBVIOUS
  <2> QED
    BY <1>1, <2>1, RouterFields DEF Placed, HostsWell, RoutersWell
<1>4. /\ FramesOf(id, cable[h].up) = Flying(cable[h].up, id)
      /\ FramesOf(id, cable[h].down) = Flying(cable[h].down, id)
  BY <1>2 DEF Placed, CablesWell, CableWell
<1>5. Cardinality({f \in internet[h] : IsDatagram(f) /\ f.payload.id = id})
        = Kept(internet[h], FrameFor(id))
  <2>1. internet[h] \subseteq Frame
    BY DEF Placed, InternetWell, FramesTo
  <2>2. {f \in internet[h] : IsDatagram(f) /\ f.payload.id = id} = internet[h] \cap FrameFor(id)
    BY <2>1 DEF FrameFor
  <2> QED
    BY <2>2 DEF Kept
<1>6. Cardinality({a \in arrived[h] : a.id = id}) = Kept(arrived[h], DatagramFor(id))
  <2>1. arrived[h] \subseteq Datagram
    BY DEF Placed, ArrivedWell
  <2>2. {a \in arrived[h] : a.id = id} = arrived[h] \cap DatagramFor(id)
    BY <2>1 DEF DatagramFor
  <2> QED
    BY <2>2 DEF Kept
<1>7. PICK w, q1, q2, u, d, n, a :
        /\ w = Waiting(host[h], id) /\ q1 = Waiting(router[h].interfaces[1], id)
        /\ q2 = Waiting(router[h].interfaces[2], id)
        /\ u = Flying(cable[h].up, id) /\ d = Flying(cable[h].down, id)
        /\ n = Kept(internet[h], FrameFor(id)) /\ a = Kept(arrived[h], DatagramFor(id))
  OBVIOUS
<1>8. /\ w \in Nat /\ q1 \in Nat /\ q2 \in Nat /\ u \in Nat /\ d \in Nat /\ n \in Nat
      /\ a \in Nat
  <2>1. IsRouter(h, router[h]) /\ 1 \in 1..2 /\ 2 \in 1..2
    BY DEF Placed, RoutersWell
  <2> QED
    BY <1>7, <2>1, StateNumbers, ResultNumbers
<1>9. Load(h, id) = w + (q1 + q2) + u + d + n + a
  BY <1>7 DEF Load, Queues
<1>10. CopiesAt(id, h) = w + q1 + q2 + u + d + n
  BY <1>3, <1>4, <1>5, <1>7 DEF CopiesAt
<1> QED
  BY <1>6, <1>7, <1>8, <1>9, <1>10

(* What has arrived is what was sent under that identification.            *)
LEMMA ArrivedIs ==
  ASSUME Placed, NEW h \in Host, NEW a \in arrived[h], NEW dgram \in Traffic, a.id = dgram.id
  PROVE  HostIP[h] = dgram.dst /\ a = [dgram EXCEPT !.ttl = @ - 2, !.cksum = @ - 2]
<1>1. PICK o \in Traffic : o.dst = HostIP[h] /\ a = [o EXCEPT !.ttl = @ - 2, !.cksum = @ - 2]
  <2>1. Intact(h, a)
    BY HomeAssumption DEF Placed, ArrivedWell
  <2> QED
    BY <2>1 DEF Intact
<1>2. o = [id |-> o.id, src |-> o.src, dst |-> o.dst, ttl |-> o.ttl, cksum |-> o.cksum]
  BY NetworkAssumption
<1>3. a.id = o.id
  BY <1>1, <1>2
<1>4. o = dgram
  BY <1>3, NetworkAssumption
<1> QED
  BY <1>1, <1>4

(* Whatever the widths of clocks, the times, the traffic and the tables    *)
(* (of the kind that HomeAssumption describes): no address resolution,     *)
(* queue or forwarding ever makes two datagrams of one, and what arrives   *)
(* is what was sent, where it was sent to.                                 *)
THEOREM NothingTwice == Spec => []OnePlace
<1>1. IInv => OnePlace
  <2>1. SUFFICES ASSUME IInv, NEW dgram \in Traffic, NEW h \in Host
                 PROVE  /\ CopiesAt(dgram.id, h)
                             + Cardinality({a \in arrived[h] : a.id = dgram.id})
                             + (CopiesAt(dgram.id, Peer(h))
                                  + Cardinality({a \in arrived[Peer(h)] : a.id = dgram.id}))
                             + (IF dgram \in unsent THEN 1 ELSE 0) <= 1
                        /\ \A a \in {b \in arrived[h] : b.id = dgram.id} :
                             /\ HostIP[h] = dgram.dst
                             /\ a = [dgram EXCEPT !.ttl = @ - 2, !.cksum = @ - 2]
    BY DEF OnePlace
  <2>2. Placed /\ Peer(h) \in Host
    BY <2>1, PeerFacts DEF IInv
  <2>3. /\ Load(h, dgram.id)
            = CopiesAt(dgram.id, h) + Cardinality({a \in arrived[h] : a.id = dgram.id})
        /\ Load(Peer(h), dgram.id)
            = CopiesAt(dgram.id, Peer(h))
                + Cardinality({a \in arrived[Peer(h)] : a.id = dgram.id})
    BY <2>2, CopiesAre
  <2>4. Load(h, dgram.id) + Load(Peer(h), dgram.id) + (IF dgram \in unsent THEN 1 ELSE 0) <= 1
    BY <2>1 DEF IInv, Single, Total, One
  <2> QED
    BY <2>2, <2>3, <2>4, ArrivedIs
<1> QED
  BY <1>1, Invariant, PTL
=============================================================================
