---------------------------- MODULE Policies_proofs ----------------------------
(***************************************************************************)
(* Proofs about the pure functions, for inputs of any length, any largest  *)
(* address, any candidate window and any names.                            *)
(*                                                                         *)
(* Each function is a loop over a sequence, Scan.  Trajectory says once    *)
(* that a loop which stays in a set has a state after every turn; what     *)
(* the loop computes is then shown turn by turn with UpTo.                 *)
(***************************************************************************)
EXTENDS Policies, SequenceTheorems, FiniteSetTheorems, WellFoundedInduction, NaturalsInduction, TLAPS

-----------------------------------------------------------------------------
(* Induction over the turns of a loop.                                     *)

\* A set of numbers has a least.
LEMMA Least ==
  ASSUME NEW T \in SUBSET Nat, T # {}
  PROVE  \E x \in T : \A y \in T : x =< y
<1> DEFINE R == {p \in Nat \X Nat : p[1] < p[2]}
<1>1. IsWellFoundedOn(R, Nat)
  BY NatLessThanWellFounded DEF OpToRel
<1>2. PICK x \in T : \A y \in T : ~(<<y, x>> \in R)
  <2> HIDE DEF R
  <2> QED
    BY <1>1, WFMin
<1>3. \A y \in T : ~(y < x)
  BY <1>2
<1> QED
  BY <1>3

\* What holds of 0, and of a number when it holds of the one before, holds up to n.
LEMMA UpTo ==
  ASSUME NEW n \in Nat, NEW A, 0 \in A, \A i \in 1..n : i - 1 \in A => i \in A
  PROVE  \A i \in 0..n : i \in A
<1> SUFFICES ASSUME {i \in 0..n : i \notin A} # {} PROVE FALSE
  OBVIOUS
<1> DEFINE T == {i \in 0..n : i \notin A}
<1>1. T \in SUBSET Nat /\ T # {}
  OBVIOUS
<1>2. PICK x \in T : \A y \in T : x =< y
  <2> HIDE DEF T
  <2> QED
    BY <1>1, Least
<1>3. x \in 0..n /\ x \notin A
  OBVIOUS
<1>4. x \in 1..n /\ x - 1 \in 0..n /\ ~(x =< x - 1)
  <2>1. x # 0
    BY <1>3
  <2> QED
    BY <1>3, <2>1
<1>5. x - 1 \notin A
  BY <1>3, <1>4
<1> QED
  BY <1>2, <1>4, <1>5

\* The states of a loop after each of its first n turns.
Run(w, S, start, step, n) ==
  /\ w \in [0..n -> S] /\ w[0] = start
  /\ \A i \in 1..n : w[i] = step[i][w[i - 1]]

\* A loop that stays in S has a state in S after every turn.
LEMMA Trajectory ==
  ASSUME NEW S, NEW start \in S, NEW n \in Nat, NEW step \in [1..n -> [S -> S]]
  PROVE  \E w : Run(w, S, start, step, n)
<1> DEFINE A == {k \in 0..n : \E w : Run(w, S, start, step, k)}
<1>1. 0 \in A
  <2>1. Run([i \in 0..0 |-> start], S, start, step, 0)
    BY DEF Run
  <2> QED
    BY <2>1
<1>2. ASSUME NEW k \in 1..n, k - 1 \in A
      PROVE  k \in A
  <2>0. PICK w : Run(w, S, start, step, k - 1)
    BY <1>2
  <2>1. /\ w \in [0..(k - 1) -> S] /\ w[0] = start
        /\ \A i \in 1..(k - 1) : w[i] = step[i][w[i - 1]]
    BY <2>0 DEF Run
  <2> DEFINE v == [i \in 0..k |-> IF i = k THEN step[k][w[k - 1]] ELSE w[i]]
  <2>2. w[k - 1] \in S
    BY <2>1
  <2>2a. step[k][w[k - 1]] \in S
    BY <2>2
  <2>3. \A i \in 0..k : i = k \/ i \in 0..(k - 1)
    OBVIOUS
  <2>4. v \in [0..k -> S]
    BY <2>1, <2>2a, <2>3
  <2>5. v[0] = start
    BY <2>1
  <2>6. ASSUME NEW i \in 1..k
        PROVE  v[i] = step[i][v[i - 1]]
    <3>1. v[i - 1] = w[i - 1]
      OBVIOUS
    <3>2. CASE i = k
      BY <3>1, <3>2
    <3>3. CASE i \in 1..(k - 1)
      <4>1. v[i] = w[i]
        BY <3>3
      <4> QED
        BY <2>1, <3>1, <3>3, <4>1
    <3> QED
      BY <3>2, <3>3
  <2> HIDE DEF v
  <2>7. Run(v, S, start, step, k)
    BY <2>4, <2>5, <2>6 DEF Run
  <2> QED
    BY <2>7
<1>3. n \in A
  <2> HIDE DEF A
  <2>1. \A i \in 0..n : i \in A
    BY <1>1, <1>2, UpTo
  <2> QED
    BY <2>1
<1> QED
  BY <1>3

\* What a turn leaves in S if it was there is in S after every turn.
LEMMA Stays ==
  ASSUME NEW S, NEW n \in Nat, NEW w, w[0] \in S, \A i \in 1..n : w[i - 1] \in S => w[i] \in S
  PROVE  \A i \in 0..n : w[i] \in S
<1> DEFINE A == {i \in 0..n : w[i] \in S}
<1>1. 0 \in A /\ \A i \in 1..n : i - 1 \in A => i \in A
  OBVIOUS
<1>2. \A i \in 0..n : i \in A
  <2> HIDE DEF A
  <2> QED
    BY <1>1, UpTo
<1> QED
  BY <1>2

\* The smaller and the larger of two numbers.
LEMMA OfTwo ==
  ASSUME NEW a \in Int, NEW b \in Int
  PROVE  /\ Min({a, b}) = IF a =< b THEN a ELSE b
         /\ Max({a, b}) = IF a >= b THEN a ELSE b
<1> DEFINE low == IF a =< b THEN a ELSE b
           high == IF a >= b THEN a ELSE b
<1>1. low \in {a, b} /\ \A y \in {a, b} : low =< y
  OBVIOUS
<1>2. high \in {a, b} /\ \A y \in {a, b} : high >= y
  OBVIOUS
<1>3. \A x \in {a, b} : (\A y \in {a, b} : x =< y) => x = low
  OBVIOUS
<1>4. \A x \in {a, b} : (\A y \in {a, b} : x >= y) => x = high
  OBVIOUS
<1> HIDE DEF low, high
<1>5. Min({a, b}) = low
  BY <1>1, <1>3 DEF Min
<1>6. Max({a, b}) = high
  BY <1>2, <1>4 DEF Max
<1> QED
  BY <1>5, <1>6 DEF low, high

-----------------------------------------------------------------------------
(* memory_search.cpp and memory.search.                                    *)

\* The matches of the window that starts at cursor.
Hits(memory, pattern, cursor, count) ==
  Scan(LAMBDA found, k : IF MatchesAt(memory, pattern, k) THEN Append(found, k) ELSE found,
       <<>>, Counting(cursor, count))

\* The matches after each candidate of the window.
HitsAfter(w, memory, pattern, cursor, count) ==
  /\ w[0] = <<>> /\ Hits(memory, pattern, cursor, count) = w[count]
  /\ \A i \in 0..count : w[i] \in Seq(Nat)
  /\ \A i \in 1..count :
       w[i] = IF MatchesAt(memory, pattern, cursor + i - 1)
              THEN Append(w[i - 1], cursor + i - 1) ELSE w[i - 1]

\* There are such.
LEMMA HitsRun ==
  ASSUME NEW memory, NEW pattern, NEW cursor \in Nat, NEW count \in Nat
  PROVE  \E w : HitsAfter(w, memory, pattern, cursor, count)
<1> DEFINE s == Counting(cursor, count)
           S == Seq(Nat)
           P(f, i) == IF MatchesAt(memory, pattern, s[i]) THEN Append(f, s[i]) ELSE f
           step == [i \in 1..count |-> [f \in S |-> P(f, i)]]
           Def(w) == w = [i \in 0..Len(s) |-> IF i = 0 THEN <<>> ELSE P(w[i - 1], i)]
           W == CHOOSE v : Def(v)
<1>1. Len(s) = count /\ \A i \in 1..count : s[i] = cursor + i - 1 /\ s[i] \in Nat
  BY DEF Counting
<1>2. Hits(memory, pattern, cursor, count) = W[Len(s)]
  BY DEF Hits, Scan
<1> HIDE DEF s
<1>3. <<>> \in S /\ \A i \in 1..count : \A f \in S : P(f, i) \in S
  BY <1>1
<1>4. \A i \in 0..count : i = 0 \/ i \in 1..count
  OBVIOUS
<1> HIDE DEF S, P
<1>5. PICK w : Run(w, S, <<>>, step, count)
  <2>1. step \in [1..count -> [S -> S]]
    BY <1>3
  <2> QED
    BY <1>3, <2>1, Trajectory
<1>6. Def(w)
  <2>1. w \in [0..count -> S] /\ w[0] = <<>> /\ \A i \in 1..count : w[i] = step[i][w[i - 1]]
    BY <1>5 DEF Run
  <2>2. \A i \in 1..count : w[i - 1] \in S
    BY <2>1
  <2> QED
    BY <1>1, <1>4, <2>1, <2>2
<1>7. Def(W)
  BY <1>6
<1> HIDE DEF W
<1>8. W[0] = <<>> /\ \A i \in 1..count : W[i] = P(W[i - 1], i)
  BY <1>1, <1>7
<1>9. \A i \in 0..count : W[i] \in S
  BY <1>3, <1>8, Stays
<1>10. HitsAfter(W, memory, pattern, cursor, count)
  BY <1>1, <1>2, <1>8, <1>9 DEF P, S, HitsAfter
<1> QED
  BY <1>10

\* s holds the elements of A, each once, in ascending order.
Lists(s, A) ==
  /\ s \in Seq(Nat)
  /\ \A i \in 1..Len(s) : s[i] \in A
  /\ \A a \in A : \E i \in 1..Len(s) : s[i] = a
  /\ \A i, j \in 1..Len(s) : i < j => s[i] < s[j]

\* Such a list followed by one of larger numbers.
LEMMA ListsConcat ==
  ASSUME NEW s, NEW A, Lists(s, A), NEW t, NEW B, Lists(t, B), \A a \in A, b \in B : a < b
  PROVE  Lists(s \o t, A \cup B)
<1> DEFINE m == Len(s)
           n == Len(t)
           u == s \o t
<1>1. m \in Nat /\ n \in Nat /\ s \in Seq(Nat) /\ t \in Seq(Nat)
  BY DEF Lists
<1>2. /\ u \in Seq(Nat) /\ Len(u) = m + n
      /\ \A i \in 1..m : u[i] = s[i]
      /\ \A i \in 1..n : u[m + i] = t[i]
  BY <1>1
<1>3. \A i \in 1..(m + n) : i \in 1..m \/ (i - m \in 1..n /\ i = m + (i - m))
  BY <1>1
<1> HIDE DEF u, m, n
<1>4. ASSUME NEW i \in 1..(m + n)
      PROVE  u[i] \in A \cup B
  <2>1. CASE i \in 1..m
    BY <1>2, <2>1 DEF Lists, m
  <2>2. CASE i - m \in 1..n /\ i = m + (i - m)
    <3>1. u[i] = t[i - m]
      BY <1>2, <2>2
    <3> QED
      BY <2>2, <3>1 DEF Lists, n
  <2> QED
    BY <1>3, <2>1, <2>2
<1>5. ASSUME NEW a \in A \cup B
      PROVE  \E i \in 1..(m + n) : u[i] = a
  <2>1. CASE a \in A
    <3>1. PICK i \in 1..m : s[i] = a
      BY <2>1 DEF Lists, m
    <3>2. i \in 1..(m + n)
      BY <1>1
    <3> QED
      BY <1>2, <3>1, <3>2
  <2>2. CASE a \in B
    <3>1. PICK i \in 1..n : t[i] = a
      BY <2>2 DEF Lists, n
    <3>2. m + i \in 1..(m + n)
      BY <1>1
    <3> QED
      BY <1>2, <3>1, <3>2
  <2> QED
    BY <2>1, <2>2
<1>6. ASSUME NEW i \in 1..(m + n), NEW j \in 1..(m + n), i < j
      PROVE  u[i] < u[j]
  <2>1. CASE i \in 1..m /\ j \in 1..m
    <3>1. s[i] < s[j]
      BY <1>6, <2>1 DEF Lists, m
    <3> QED
      BY <1>2, <2>1, <3>1
  <2>2. CASE i \in 1..m /\ j - m \in 1..n /\ j = m + (j - m)
    <3>1. s[i] \in A /\ t[j - m] \in B
      BY <2>2 DEF Lists, m, n
    <3>2. u[i] = s[i] /\ u[j] = t[j - m]
      BY <1>2, <2>2
    <3> QED
      BY <3>1, <3>2
  <2>3. CASE /\ i - m \in 1..n /\ i = m + (i - m)
             /\ j - m \in 1..n /\ j = m + (j - m)
    <3>1. i - m < j - m
      BY <1>1, <1>6
    <3>2. t[i - m] < t[j - m]
      BY <2>3, <3>1 DEF Lists, n
    <3>3. u[i] = t[i - m] /\ u[j] = t[j - m]
      BY <1>2, <2>3
    <3> QED
      BY <3>2, <3>3
  <2>4. ~(i - m \in 1..n /\ j \in 1..m)
    BY <1>1, <1>6
  <2> QED
    BY <1>3, <2>1, <2>2, <2>3, <2>4
<1>7. Lists(u, A \cup B)
  BY <1>2, <1>4, <1>5, <1>6 DEF Lists
<1> QED
  BY <1>7 DEF u

\* The first k of such a list.
LEMMA ListsFirst ==
  ASSUME NEW s, NEW A, Lists(s, A), NEW k \in 1..Len(s)
  PROVE  Lists(SubSeq(s, 1, k), {a \in A : a =< s[k]})
<1> DEFINE n == Len(s)
           u == SubSeq(s, 1, k)
<1>1. n \in Nat /\ s \in Seq(Nat) /\ k \in 1..n /\ \A i \in 1..n : s[i] \in Nat
  BY DEF Lists
<1>2. u \in Seq(Nat) /\ Len(u) = k /\ \A i \in 1..k : u[i] = s[i]
  BY <1>1
<1>3. \A i \in 1..k : i \in 1..n /\ (i = k \/ i < k)
  BY <1>1
<1> HIDE DEF u, n
<1>4. \A i \in 1..k : s[i] \in A /\ s[i] =< s[k]
  BY <1>1, <1>3 DEF Lists, n
<1>5. ASSUME NEW a \in A, a =< s[k]
      PROVE  \E i \in 1..k : s[i] = a
  <2>1. PICK i \in 1..n : s[i] = a
    BY DEF Lists, n
  <2>2. ~(k < i)
    <3>1. k < i => s[k] < s[i]
      BY <1>1 DEF Lists, n
    <3> QED
      BY <1>1, <1>5, <2>1, <3>1
  <2>3. i \in 1..k
    BY <1>1, <2>2
  <2> QED
    BY <2>1, <2>3
<1>6. \A i, j \in 1..k : i < j => s[i] < s[j]
  BY <1>3 DEF Lists, n
<1>7. Lists(u, {a \in A : a =< s[k]})
  BY <1>2, <1>4, <1>5, <1>6 DEF Lists
<1> QED
  BY <1>7 DEF u

\* The candidates from lo up to hi, less hi, that match.
Matching(memory, pattern, lo, hi) == {k \in lo..hi - 1 : MatchesAt(memory, pattern, k)}

\* The loop finds the matches of its window.
LEMMA HitsAre ==
  ASSUME NEW memory, NEW pattern, NEW cursor \in Nat, NEW count \in Nat
  PROVE  Lists(Hits(memory, pattern, cursor, count),
               Matching(memory, pattern, cursor, cursor + count))
<1> DEFINE M(k) == Matching(memory, pattern, cursor, cursor + k)
           Is(k) == MatchesAt(memory, pattern, k)
<1>0. PICK w : HitsAfter(w, memory, pattern, cursor, count)
  BY HitsRun
<1>1. /\ w[0] = <<>> /\ Hits(memory, pattern, cursor, count) = w[count]
      /\ \A i \in 0..count : w[i] \in Seq(Nat)
      /\ \A i \in 1..count :
           w[i] = IF Is(cursor + i - 1) THEN Append(w[i - 1], cursor + i - 1) ELSE w[i - 1]
  BY <1>0 DEF HitsAfter
<1> DEFINE A == {i \in 0..count : Lists(w[i], M(i))}
<1>2. 0 \in A
  BY <1>1 DEF Matching, Lists
<1>3. ASSUME NEW i \in 1..count, i - 1 \in A
      PROVE  i \in A
  <2> DEFINE c == cursor + i - 1
  <2>1. Lists(w[i - 1], M(i - 1)) /\ c \in Nat /\ w[i - 1] \in Seq(Nat)
    BY <1>1, <1>3
  <2>2. M(i) = M(i - 1) \cup {k \in {c} : Is(k)}
    <3>1. \A k : k \in cursor..(cursor + i) - 1 <=>
                   k \in cursor..(cursor + (i - 1)) - 1 \/ k = c
      OBVIOUS
    <3> QED
      BY <3>1 DEF Matching
  <2>3. \A a \in M(i - 1) : a < c
    BY DEF Matching
  <2> HIDE DEF c
  <2>4. CASE Is(c)
    <3>1. w[i] = w[i - 1] \o <<c>>
      <4>1. w[i] = Append(w[i - 1], c)
        BY <1>1, <2>4 DEF c
      <4> QED
        BY <2>1, <4>1, AppendIsConcat
    <3>2. Lists(<<c>>, {c})
      BY <2>1 DEF Lists
    <3>3. Lists(w[i], M(i - 1) \cup {c})
      <4> HIDE DEF M
      <4> QED
        BY <2>1, <2>3, <3>1, <3>2, ListsConcat
    <3> QED
      BY <2>2, <2>4, <3>3
  <2>5. CASE ~Is(c)
    <3>1. w[i] = w[i - 1]
      BY <1>1, <2>5 DEF c
    <3>2. M(i) = M(i - 1)
      <4> HIDE DEF M
      <4> QED
        BY <2>2, <2>5
    <3> QED
      BY <2>1, <3>1, <3>2
  <2> QED
    BY <2>4, <2>5
<1>4. count \in A
  <2> HIDE DEF A
  <2>1. \A i \in 0..count : i \in A
    BY <1>2, <1>3, UpTo
  <2> QED
    BY <2>1
<1> QED
  BY <1>1, <1>4

\* A page holds the matches up to its next candidate, which it moves on to
\* unless the window is empty.
LEMMA PageIs ==
  ASSUME NEW memory, NEW pattern, NEW cursor \in Nat, NEW count \in Nat, NEW limit \in Nat \ {0}
  PROVE  LET page == FindMemoryPattern(memory, pattern, cursor, count, limit)
         IN /\ page.next \in cursor..cursor + count
            /\ Lists(page.offsets, Matching(memory, pattern, cursor, page.next))
<1> DEFINE hits == Hits(memory, pattern, cursor, count)
           page == FindMemoryPattern(memory, pattern, cursor, count, limit)
           M == Matching(memory, pattern, cursor, cursor + count)
<1>1. /\ page.offsets = SubSeq(hits, 1, Min({Len(hits), limit}))
      /\ page.next = LookedAt(hits, limit, cursor + count)
  BY DEF FindMemoryPattern, Hits
<1>2. Lists(hits, M)
  BY HitsAre
<1> HIDE DEF hits, page
<1>3. hits \in Seq(Nat) /\ Len(hits) \in Nat /\ \A i \in 1..Len(hits) : hits[i] \in M
  BY <1>2 DEF Lists
<1>4. CASE Len(hits) >= limit
  <2>1. limit \in 1..Len(hits) /\ Min({Len(hits), limit}) = limit
    BY <1>3, <1>4 DEF Min
  <2>2. page.next = hits[limit] + 1 /\ page.offsets = SubSeq(hits, 1, limit)
    BY <1>1, <1>4, <2>1 DEF LookedAt
  <2>3. hits[limit] \in cursor..(cursor + count) - 1
    BY <1>3, <2>1 DEF Matching
  <2>4. {a \in M : a =< hits[limit]} = Matching(memory, pattern, cursor, page.next)
    BY <2>2, <2>3 DEF Matching
  <2>5. Lists(page.offsets, {a \in M : a =< hits[limit]})
    BY <1>2, <2>1, <2>2, ListsFirst
  <2>6. page.next \in cursor..cursor + count
    BY <2>2, <2>3
  <2> QED
    BY <2>4, <2>5, <2>6 DEF page
<1>5. CASE ~(Len(hits) >= limit)
  <2>1. Min({Len(hits), limit}) = Len(hits)
    BY <1>3, <1>5 DEF Min
  <2>2. page.next = cursor + count
    BY <1>1, <1>5 DEF LookedAt
  <2>3. page.offsets = hits
    BY <1>1, <1>3, <2>1, SubSeqFull
  <2> QED
    BY <1>2, <2>2, <2>3 DEF page
<1> QED
  BY <1>4, <1>5

-----------------------------------------------------------------------------
(* The inputs, and the search that goes on page by page.                   *)

\* An input is a text in the alphabet of its kind.
InputOK == DOMAIN input = {"kind", "text"} /\ input.text \in Seq(Alphabet(input.kind))

\* A search that has been started: what it has found is what it has passed.
Searching(s) ==
  LET total == TotalCandidates(s.memory, s.pattern)
  IN /\ DOMAIN s = {"memory", "pattern", "limit", "cursor", "found", "complete"}
     /\ Len(s.memory) \in Nat /\ Len(s.pattern) \in Nat /\ s.limit \in Nat \ {0}
     /\ s.cursor \in 0..total
     /\ Lists(s.found, Matching(s.memory, s.pattern, 0, s.cursor))
     /\ s.complete => s.cursor = total

\* What is inductive: the inputs are texts, and a search is at its cursor.
PoliciesInv == InputOK /\ (search = NoSearch \/ Searching(search))

\* There are so many candidates, none when the pattern is longer than the memory.
LEMMA TotalIsNat ==
  ASSUME NEW memory, NEW pattern, Len(memory) \in Nat, Len(pattern) \in Nat
  PROVE  TotalCandidates(memory, pattern) \in Nat
<1> DEFINE d == Len(memory) - Len(pattern) + 1
<1>1. d \in Int
  OBVIOUS
<1> HIDE DEF d
<1>2. Max({0, d}) = IF 0 >= d THEN 0 ELSE d
  BY <1>1, OfTwo
<1> QED
  BY <1>1, <1>2 DEF TotalCandidates, d

\* At first there is no input and no search.
LEMMA PoliciesInitially ==
  Init => PoliciesInv
<1> SUFFICES ASSUME Init PROVE PoliciesInv
  OBVIOUS
<1>1. DOMAIN input = {"kind", "text"} /\ input.text = <<>>
  BY DEF Init
<1> QED
  BY <1>1 DEF Init, PoliciesInv, InputOK

\* A search that starts has passed nothing and found nothing.
LEMMA SearchStarts ==
  ASSUME InputOK, StartSearch
  PROVE  InputOK' /\ Searching(search')
<1>1. PICK pattern \in BoundedSeq(Cell \cup {Wildcard}, MaxPattern), limit \in 1..MaxLimit :
        search' = [NoSearch EXCEPT !.memory = input.text, !.pattern = pattern,
                                   !.limit = limit, !.complete = FALSE]
  BY DEF StartSearch
<1>2. /\ DOMAIN search' = {"memory", "pattern", "limit", "cursor", "found", "complete"}
      /\ search'.memory = input.text /\ search'.pattern = pattern /\ search'.limit = limit
      /\ search'.cursor = 0 /\ search'.found = <<>> /\ ~search'.complete
  BY <1>1 DEF NoSearch
<1>3. Len(pattern) \in Nat
  BY DEF BoundedSeq, SeqOf
<1>4. Len(input.text) \in Nat
  BY DEF InputOK
<1>5. TotalCandidates(input.text, pattern) \in Nat
  BY <1>3, <1>4, TotalIsNat
<1>6. Lists(<<>>, Matching(input.text, pattern, 0, 0))
  BY DEF Lists, Matching
<1>7. InputOK'
  <2>1. DOMAIN input' = {"kind", "text"} /\ input'.text = <<>>
    BY DEF StartSearch, InputOK
  <2> QED
    BY <2>1 DEF InputOK
<1> QED
  BY <1>2, <1>3, <1>4, <1>5, <1>6, <1>7 DEF Searching

\* A page finds the matches that the cursor passes.
LEMMA SearchGoesOn ==
  ASSUME Searching(search), SearchPage
  PROVE  Searching(search')
<1> DEFINE memory == search.memory
           pattern == search.pattern
           total == TotalCandidates(memory, pattern)
           cursor == search.cursor
           count == Min({total - cursor, CandidateWindow})
           page == FindMemoryPattern(memory, pattern, cursor, count, search.limit)
           new == search'
<1>1. /\ DOMAIN search = {"memory", "pattern", "limit", "cursor", "found", "complete"}
      /\ Len(memory) \in Nat /\ Len(pattern) \in Nat /\ search.limit \in Nat \ {0}
      /\ cursor \in 0..total
      /\ Lists(search.found, Matching(memory, pattern, 0, cursor))
  BY DEF Searching
<1>2. total \in Nat
  BY <1>1, TotalIsNat
<1>3. search' = [search EXCEPT !.found = @ \o page.offsets, !.cursor = page.next,
                               !.complete = page.next >= total]
  BY DEF SearchPage
<1> HIDE DEF total, page
<1>4. /\ DOMAIN new = {"memory", "pattern", "limit", "cursor", "found", "complete"}
      /\ new.memory = memory /\ new.pattern = pattern /\ new.limit = search.limit
      /\ new.cursor = page.next /\ new.found = search.found \o page.offsets
      /\ new.complete = (page.next >= total)
  BY <1>1, <1>3
<1>5. count \in Nat /\ cursor \in Nat /\ cursor + count =< total
  <2>1. total - cursor \in Int /\ CandidateWindow \in Int
    BY <1>1, <1>2, PoliciesAssumption
  <2>2. count = IF total - cursor =< CandidateWindow THEN total - cursor ELSE CandidateWindow
    BY <2>1, OfTwo
  <2> QED
    BY <1>1, <1>2, <2>2, PoliciesAssumption
<1> HIDE DEF count, cursor, memory, pattern, new
<1>6. /\ page.next \in cursor..cursor + count
      /\ Lists(page.offsets, Matching(memory, pattern, cursor, page.next))
  BY <1>1, <1>5, PageIs DEF page
<1>7. page.next \in 0..total /\ (new.complete => page.next = total)
  <2>1. page.next \in 0..total
    BY <1>2, <1>5, <1>6
  <2>2. page.next >= total => page.next = total
    BY <1>2, <2>1
  <2> QED
    BY <1>4, <2>1, <2>2
<1>8. Lists(new.found, Matching(memory, pattern, 0, page.next))
  <2> DEFINE A == Matching(memory, pattern, 0, cursor)
             B == Matching(memory, pattern, cursor, page.next)
  <2>1. A \cup B = Matching(memory, pattern, 0, page.next)
    BY <1>5, <1>6 DEF Matching
  <2>2. \A a \in A, b \in B : a < b
    BY <1>5, <1>6 DEF Matching
  <2> HIDE DEF A, B
  <2>3. Lists(search.found \o page.offsets, A \cup B)
    BY <1>1, <1>6, <2>2, ListsConcat DEF A, B
  <2> QED
    BY <1>4, <2>1, <2>3
<1> QED
  BY <1>1, <1>4, <1>7, <1>8 DEF Searching, total, new, memory, pattern

\* Every action keeps it.
LEMMA PoliciesStep ==
  PoliciesInv /\ [Next]_vars => PoliciesInv'
<1> SUFFICES ASSUME PoliciesInv, [Next]_vars PROVE PoliciesInv'
  OBVIOUS
<1>1. CASE search = NoSearch /\ Grow
  <2>1. PICK symbol \in Alphabet(input.kind) : input' = [input EXCEPT !.text = Append(@, symbol)]
    BY <1>1 DEF Grow
  <2>2. /\ DOMAIN input' = {"kind", "text"} /\ input'.kind = input.kind
        /\ input'.text = Append(input.text, symbol)
    BY <2>1 DEF PoliciesInv, InputOK
  <2>3. InputOK'
    BY <2>1, <2>2 DEF PoliciesInv, InputOK
  <2> QED
    BY <1>1, <2>3 DEF Grow, PoliciesInv
<1>2. CASE StartSearch
  BY <1>2, SearchStarts DEF PoliciesInv
<1>3. CASE SearchPage
  <2>1. search # NoSearch
    BY <1>3 DEF SearchPage, NoSearch
  <2>2. Searching(search')
    BY <1>3, <2>1, SearchGoesOn DEF PoliciesInv
  <2> QED
    BY <1>3, <2>2 DEF SearchPage, PoliciesInv, InputOK
<1>4. CASE UNCHANGED vars
  BY <1>4 DEF vars, PoliciesInv, InputOK
<1> QED
  BY <1>1, <1>2, <1>3, <1>4 DEF Next

\* The inputs are texts in their alphabets and a search has found what it has passed.
THEOREM PoliciesInvariant ==
  Spec => []PoliciesInv
BY PoliciesInitially, PoliciesStep, PTL DEF Spec

\* For every memory, pattern, page limit and candidate window: a search that
\* follows its cursors reports every match of the scope once and in order,
\* and is complete only when it has come to the end (FindMemoryPattern,
\* memory.search).
THEOREM SearchFindsEachMatchOnce ==
  Spec => []PagesFindEachMatchOnce
<1>1. PoliciesInv => PagesFindEachMatchOnce
  <2> SUFFICES ASSUME Searching(search) PROVE PagesFindEachMatchOnce
    BY DEF PoliciesInv, PagesFindEachMatchOnce
  <2> DEFINE before == {k \in 0..search.cursor - 1 : MatchesAt(search.memory, search.pattern, k)}
  <2>1. Lists(search.found, before)
    BY DEF Searching, Matching
  <2>2. DOMAIN search.found = 1..Len(search.found)
    BY <2>1 DEF Lists
  <2>3. Range(search.found) = before
    <3> HIDE DEF before
    <3> QED
      BY <2>1, <2>2 DEF Lists, Range
  <2>4. \A i, j \in DOMAIN search.found : i < j => search.found[i] < search.found[j]
    BY <2>1, <2>2 DEF Lists
  <2>5. /\ search.cursor =< TotalCandidates(search.memory, search.pattern)
        /\ search.complete => search.cursor = TotalCandidates(search.memory, search.pattern)
    BY TotalIsNat DEF Searching
  <2> QED
    BY <2>3, <2>4, <2>5 DEF PagesFindEachMatchOnce
<1> QED
  BY <1>1, PoliciesInvariant, PTL

-----------------------------------------------------------------------------
(* Address ranges.                                                         *)

\* The checks agree with the sets.
ChecksAgree(a, size, b, length) ==
  LET left == a..a + size - 1
      right == b..b + length - 1
      overlap == HalfOpenRangesOverlap(a, size, b, length)
  IN /\ overlap = "yes" => left \cap right # {}
     /\ overlap = "no" => left \cap right = {}
     /\ overlap = "unknown" => a + size > MaxAddress \/ b + length > MaxAddress
     /\ MemoryRangeContained(a, size, b, length) <=> left # {} /\ left \subseteq right
     /\ PatchRangeValid(a, size) <=>
          left # {} /\ size <= MaxPatchSize /\ left \subseteq 0..MaxAddress

\* They do on any four addresses.
LEMMA RangeChecks ==
  ASSUME NEW a \in 0..MaxAddress, NEW size \in 0..MaxAddress,
         NEW b \in 0..MaxAddress, NEW length \in 0..MaxAddress
  PROVE  ChecksAgree(a, size, b, length)
<1> DEFINE left == a..a + size - 1
           right == b..b + length - 1
           overlap == HalfOpenRangesOverlap(a, size, b, length)
<1>1. /\ a \in Nat /\ size \in Nat /\ b \in Nat /\ length \in Nat /\ MaxAddress \in Nat
      /\ a =< MaxAddress /\ b =< MaxAddress /\ size =< MaxAddress
  BY PoliciesAssumption
<1>2. ASSUME overlap = "yes" PROVE left \cap right # {}
  <2>1. a < b + length /\ b < a + size /\ size # 0 /\ length # 0
    BY <1>2 DEF HalfOpenRangesOverlap
  <2>2. CASE a =< b
    <3>1. b \in left /\ b \in right
      BY <1>1, <2>1, <2>2
    <3> QED
      BY <3>1
  <2>3. CASE b =< a
    <3>1. a \in left /\ a \in right
      BY <1>1, <2>1, <2>3
    <3> QED
      BY <3>1
  <2> QED
    BY <1>1, <2>2, <2>3
<1>3. ASSUME overlap = "no" PROVE left \cap right = {}
  <2>1. size = 0 \/ length = 0 \/ ~(a < b + length /\ b < a + size)
    BY <1>3 DEF HalfOpenRangesOverlap
  <2> QED
    BY <1>1, <2>1
<1>4. ASSUME overlap = "unknown" PROVE a + size > MaxAddress \/ b + length > MaxAddress
  <2>1. a > MaxAddress - size \/ b > MaxAddress - length
    BY <1>4 DEF HalfOpenRangesOverlap
  <2> QED
    BY <1>1, <2>1
<1>5. left # {} <=> size > 0
  <2>1. size > 0 => a \in left
    BY <1>1
  <2>2. ~(size > 0) => left = {}
    BY <1>1
  <2> QED
    BY <2>1, <2>2
<1>6. ASSUME size > 0
      PROVE  MemoryRangeContained(a, size, b, length) <=> left \subseteq right
  <2>1. ASSUME MemoryRangeContained(a, size, b, length) PROVE left \subseteq right
    BY <1>1, <2>1 DEF MemoryRangeContained
  <2>2. ASSUME left \subseteq right PROVE MemoryRangeContained(a, size, b, length)
    <3>1. a \in left /\ a + size - 1 \in left
      BY <1>1, <1>6
    <3>2. a \in right /\ a + size - 1 \in right
      BY <2>2, <3>1
    <3> QED
      BY <1>1, <1>6, <3>2 DEF MemoryRangeContained
  <2> QED
    BY <2>1, <2>2
<1>7. ~(size > 0) => ~MemoryRangeContained(a, size, b, length)
  BY DEF MemoryRangeContained
<1>8. ASSUME size > 0
      PROVE  (size - 1 =< MaxAddress - a) <=> left \subseteq 0..MaxAddress
  <2>1. ASSUME left \subseteq 0..MaxAddress PROVE size - 1 =< MaxAddress - a
    <3>1. a + size - 1 \in left
      BY <1>1, <1>8
    <3> QED
      BY <1>1, <2>1, <3>1
  <2>2. ASSUME size - 1 =< MaxAddress - a PROVE left \subseteq 0..MaxAddress
    BY <1>1, <2>2
  <2> QED
    BY <2>1, <2>2
<1>9. PatchRangeValid(a, size) <=>
        size > 0 /\ size <= MaxPatchSize /\ size - 1 =< MaxAddress - a
  BY <1>1, PoliciesAssumption DEF PatchRangeValid
<1>10. PatchRangeValid(a, size) <=>
         left # {} /\ size <= MaxPatchSize /\ left \subseteq 0..MaxAddress
  <2> HIDE DEF left
  <2> QED
    BY <1>5, <1>8, <1>9
<1>11. MemoryRangeContained(a, size, b, length) <=> left # {} /\ left \subseteq right
  <2> HIDE DEF left, right
  <2> QED
    BY <1>5, <1>6, <1>7
<1> QED
  BY <1>2, <1>3, <1>4, <1>10, <1>11 DEF ChecksAgree

\* For every width of an address: the range checks agree with the sets of
\* addresses, also where an end does not fit an address (HalfOpenRangesOverlap,
\* MemoryRangeContained, PatchRangeValid).
THEOREM RangeChecksAreSets ==
  Spec => []RangesAreSets
<1>1. PoliciesInv => RangesAreSets
  <2> SUFFICES ASSUME PoliciesInv, input.kind = "ranges", Len(input.text) = 4
               PROVE  RangesAreSets
    BY DEF RangesAreSets
  <2>1. input.text \in Seq(0..MaxAddress)
    BY DEF PoliciesInv, InputOK, Alphabet
  <2>2. \A i \in 1..4 : input.text[i] \in 0..MaxAddress
    BY <2>1, ElementOfSeq
  <2>3. ChecksAgree(input.text[1], input.text[2], input.text[3], input.text[4])
    BY <2>2, RangeChecks
  <2> QED
    BY <2>3 DEF RangesAreSets, ChecksAgree
<1> QED
  BY <1>1, PoliciesInvariant, PTL

-----------------------------------------------------------------------------
(* patch_policy.cpp.                                                       *)

PatchRecord == [module : 0..2, address : 0..MaxAddress, same : BOOLEAN]

\* The order of std::sort is strict and weak.
LEMMA RecordOrder ==
  ASSUME NEW a \in PatchRecord, NEW b \in PatchRecord, NEW c \in PatchRecord
  PROVE  /\ RecordBefore(a, b) => ~RecordBefore(b, a)
         /\ RecordBefore(a, b) /\ ~RecordBefore(c, b) => RecordBefore(a, c)
         /\ ~RecordBefore(b, a) => a.address =< b.address
<1>1. \A r \in PatchRecord : r.address \in Int /\ r.module \in Int
  BY PoliciesAssumption DEF PatchRecord
<1> QED
  BY <1>1 DEF RecordBefore

\* p sorts the first k records.
SortsFirst(p, records, k) ==
  /\ p \in [1..k -> 1..k]
  /\ \A m \in 1..k : \E i \in 1..k : p[i] = m
  /\ \A i, j \in 1..k : p[i] = p[j] => i = j
  /\ \A i, j \in 1..k : i < j => ~RecordBefore(records[p[j]], records[p[i]])

\* A record goes in between those that are not after it and those that are.
LEMMA SortInsert ==
  ASSUME NEW records \in Seq(PatchRecord), NEW k \in 1..Len(records), NEW p,
         SortsFirst(p, records, k - 1)
  PROVE  \E v : SortsFirst(v, records, k)
<1> DEFINE At(i) == records[p[i]]
           Q == {i \in 1..(k - 1) : RecordBefore(records[k], At(i))}
<1>1. /\ k \in Nat /\ k - 1 \in Nat
      /\ p \in [1..(k - 1) -> 1..(k - 1)]
      /\ \A m \in 1..(k - 1) : \E i \in 1..(k - 1) : p[i] = m
      /\ \A i, j \in 1..(k - 1) : p[i] = p[j] => i = j
      /\ \A i, j \in 1..(k - 1) : i < j => ~RecordBefore(At(j), At(i))
  <2>1. k \in Nat /\ k - 1 \in Nat
    OBVIOUS
  <2>2. \A i, j \in 1..(k - 1) : i < j => ~RecordBefore(At(j), At(i))
    BY DEF SortsFirst
  <2>3. /\ p \in [1..(k - 1) -> 1..(k - 1)]
        /\ \A m \in 1..(k - 1) : \E i \in 1..(k - 1) : p[i] = m
        /\ \A i, j \in 1..(k - 1) : p[i] = p[j] => i = j
    BY DEF SortsFirst
  <2> HIDE DEF At
  <2> QED
    BY <2>1, <2>2, <2>3
<1>2. records[k] \in PatchRecord /\ \A i \in 1..(k - 1) : At(i) \in PatchRecord
  <2>1. \A i \in 1..(k - 1) : p[i] \in 1..Len(records)
    BY <1>1
  <2> QED
    BY <2>1, ElementOfSeq
<1> HIDE DEF At
<1>3. PICK m \in 1..k : /\ \A i \in 1..(k - 1) : i < m => ~RecordBefore(records[k], At(i))
                        /\ \A i \in 1..(k - 1) : m =< i => RecordBefore(records[k], At(i))
  <2>1. CASE Q = {}
    <3>1. \A i \in 1..(k - 1) : ~RecordBefore(records[k], At(i)) /\ ~(k =< i)
      BY <1>1, <2>1
    <3>2. k \in 1..k
      BY <1>1
    <3> QED
      BY <3>1, <3>2
  <2>2. CASE Q # {}
    <3>0. Q \in SUBSET Nat
      OBVIOUS
    <3>1. PICK m \in Q : \A i \in Q : m =< i
      <4> HIDE DEF Q
      <4> QED
        BY <2>2, <3>0, Least
    <3>2. m \in 1..(k - 1) /\ RecordBefore(records[k], At(m))
      BY <3>1
    <3>3. \A i \in 1..(k - 1) : i < m => i \notin Q
      BY <3>1, <3>2
    <3>4. ASSUME NEW i \in 1..(k - 1), m =< i
          PROVE  RecordBefore(records[k], At(i))
      <4>1. CASE i = m
        BY <3>2, <4>1
      <4>2. CASE m < i
        <5>1. ~RecordBefore(At(i), At(m))
          BY <1>1, <3>2, <4>2
        <5> QED
          BY <1>2, <3>2, <5>1, RecordOrder
      <4> QED
        BY <3>2, <3>4, <4>1, <4>2
    <3>5. m \in 1..k
      BY <1>1, <3>2
    <3> QED
      BY <3>3, <3>4, <3>5
  <2> QED
    BY <2>1, <2>2
<1> DEFINE q(i) == IF i < m THEN i ELSE i - 1
           v == [i \in 1..k |-> IF i = m THEN k ELSE p[q(i)]]
<1>4. /\ \A i \in 1..k : i # m => q(i) \in 1..(k - 1)
      /\ \A i, j \in 1..k : i # m /\ j # m /\ i < j => q(i) < q(j)
      /\ \A i, j \in 1..k : i # m /\ j # m /\ q(i) = q(j) => i = j
      /\ \A n \in 1..(k - 1) : \E i \in 1..k : i # m /\ q(i) = n
  <2>1. ASSUME NEW n \in 1..(k - 1) PROVE \E i \in 1..k : i # m /\ q(i) = n
    <3>1. CASE n < m
      <4>1. n \in 1..k /\ n # m /\ q(n) = n
        BY <1>1, <3>1
      <4> QED
        BY <4>1
    <3>2. CASE m =< n
      <4>1. n + 1 \in 1..k /\ n + 1 # m /\ q(n + 1) = n
        BY <1>1, <3>2
      <4> QED
        BY <4>1
    <3> QED
      BY <1>1, <3>1, <3>2
  <2>2. \A i \in 1..k : i # m => q(i) \in 1..(k - 1)
    BY <1>1
  <2>3. \A i, j \in 1..k : i # m /\ j # m /\ i < j => q(i) < q(j)
    BY <1>1
  <2>4. ASSUME NEW i \in 1..k, NEW j \in 1..k, i # m, j # m, q(i) = q(j)
        PROVE  i = j
    <3>1. (i < j => q(i) < q(j)) /\ (j < i => q(j) < q(i)) /\ q(i) \in Int
      BY <2>2, <2>3, <2>4
    <3> HIDE DEF q
    <3> QED
      BY <2>4, <3>1
  <2> HIDE DEF q
  <2> QED
    BY <2>1, <2>2, <2>3, <2>4
<1>5. \A i \in 1..k : i # m => /\ (i < m => q(i) < m) /\ (m < i => m =< q(i))
  BY <1>1
<1> HIDE DEF q
<1>6. v[m] = k /\ \A i \in 1..k : i # m => v[i] = p[q(i)] /\ p[q(i)] \in 1..(k - 1)
  BY <1>1, <1>4
<1>7. v \in [1..k -> 1..k]
  <2>1. ASSUME NEW i \in 1..k PROVE v[i] \in 1..k
    <3> HIDE DEF v
    <3>1. CASE i = m
      BY <1>1, <1>6, <3>1
    <3>2. CASE i # m
      <4>1. v[i] \in 1..(k - 1)
        BY <1>6, <3>2
      <4> QED
        BY <1>1, <4>1
    <3> QED
      BY <3>1, <3>2
  <2> QED
    BY <2>1
<1> HIDE DEF v
<1>8. ASSUME NEW n \in 1..k PROVE \E i \in 1..k : v[i] = n
  <2>1. CASE n = k
    BY <1>6, <2>1
  <2>2. CASE n \in 1..(k - 1)
    <3>1. PICK l \in 1..(k - 1) : p[l] = n
      BY <1>1, <2>2
    <3>2. PICK i \in 1..k : i # m /\ q(i) = l
      BY <1>4
    <3> QED
      BY <1>6, <3>1, <3>2
  <2> QED
    BY <1>1, <2>1, <2>2
<1>9. ASSUME NEW i \in 1..k, NEW j \in 1..k, v[i] = v[j] PROVE i = j
  <2>1. k \notin 1..(k - 1)
    BY <1>1
  <2>2. CASE i # m /\ j # m
    <3>1. p[q(i)] = p[q(j)] /\ q(i) \in 1..(k - 1) /\ q(j) \in 1..(k - 1)
      BY <1>4, <1>6, <1>9, <2>2
    <3>2. q(i) = q(j)
      BY <1>1, <3>1
    <3> QED
      BY <1>4, <2>2, <3>2
  <2> QED
    BY <1>6, <1>9, <2>1, <2>2
<1>10. ASSUME NEW i \in 1..k, NEW j \in 1..k, i < j
       PROVE  ~RecordBefore(records[v[j]], records[v[i]])
  <2>1. CASE i # m /\ j # m
    <3>1. v[i] = p[q(i)] /\ v[j] = p[q(j)]
      BY <1>6, <2>1
    <3>2. q(i) < q(j) /\ q(i) \in 1..(k - 1) /\ q(j) \in 1..(k - 1)
      BY <1>4, <1>10, <2>1
    <3>3. ~RecordBefore(At(q(j)), At(q(i)))
      BY <1>1, <3>2
    <3> QED
      BY <3>1, <3>3 DEF At
  <2>2. CASE i = m /\ j # m
    <3>1. q(j) \in 1..(k - 1) /\ m =< q(j)
      BY <1>4, <1>5, <1>10, <2>2
    <3>2. RecordBefore(records[k], At(q(j)))
      BY <1>3, <3>1
    <3>3. ~RecordBefore(At(q(j)), records[k])
      BY <1>2, <3>1, <3>2, RecordOrder
    <3> QED
      BY <1>6, <2>2, <3>3 DEF At
  <2>3. CASE i # m /\ j = m
    <3>1. q(i) \in 1..(k - 1) /\ q(i) < m
      BY <1>4, <1>5, <1>10, <2>3
    <3>2. ~RecordBefore(records[k], At(q(i)))
      BY <1>3, <3>1
    <3> QED
      BY <1>6, <2>3, <3>2 DEF At
  <2> QED
    BY <1>10, <2>1, <2>2, <2>3
<1>11. SortsFirst(v, records, k)
  BY <1>7, <1>8, <1>9, <1>10 DEF SortsFirst
<1> QED
  BY <1>11

\* Sorted is a sorted permutation of the records.
LEMMA SortedIs ==
  ASSUME NEW records \in Seq(PatchRecord)
  PROVE  LET s == Sorted(records)
         IN /\ s \in Seq(PatchRecord) /\ Len(s) = Len(records)
            /\ \E p : /\ SortsFirst(p, records, Len(records))
                      /\ \A i \in 1..Len(records) : s[i] = records[p[i]]
<1> DEFINE n == Len(records)
           A == {k \in 0..n : \E p : SortsFirst(p, records, k)}
           Good(p) == \A i, j \in 1..n : i < j => ~RecordBefore(records[p[j]], records[p[i]])
           order == CHOOSE p \in Bijection(1..n, 1..n) : Good(p)
           s == [i \in 1..n |-> records[order[i]]]
<1>1. n \in Nat
  OBVIOUS
<1>2. 0 \in A
  <2>1. SortsFirst(<<>>, records, 0)
    BY DEF SortsFirst
  <2> QED
    BY <1>1, <2>1
<1>3. \A k \in 1..n : k - 1 \in A => k \in A
  <2> SUFFICES ASSUME NEW k \in 1..n, k - 1 \in A PROVE k \in A
    OBVIOUS
  <2>1. PICK p : SortsFirst(p, records, k - 1)
    OBVIOUS
  <2>2. \E v : SortsFirst(v, records, k)
    BY <2>1, SortInsert
  <2> QED
    BY <1>1, <2>2
<1>4. PICK p : SortsFirst(p, records, n)
  <2>1. n \in A
    <3> HIDE DEF A
    <3>1. \A k \in 0..n : k \in A
      BY <1>1, <1>2, <1>3, UpTo
    <3> QED
      BY <1>1, <3>1
  <2> QED
    BY <2>1
<1>5. p \in Bijection(1..n, 1..n) /\ Good(p)
  BY <1>4 DEF SortsFirst, Bijection, Injection, Surjection, IsInjective
<1>6. order \in Bijection(1..n, 1..n) /\ Good(order)
  <2> HIDE DEF Good
  <2> QED
    BY <1>5
<1>7. Sorted(records) = s
  BY DEF Sorted
<1> HIDE DEF order
<1>8. SortsFirst(order, records, n)
  BY <1>6 DEF SortsFirst, Bijection, Injection, Surjection, IsInjective
<1>9. \A i \in 1..n : order[i] \in 1..n /\ records[order[i]] \in PatchRecord
  BY <1>8, ElementOfSeq DEF SortsFirst
<1>10. s \in Seq(PatchRecord) /\ Len(s) = n /\ \A i \in 1..n : s[i] = records[order[i]]
  BY <1>1, <1>9
<1> QED
  BY <1>7, <1>8, <1>10

PatchRange == [module : 0..2, address : 0..MaxAddress, size : Nat]

\* A record more keeps the ranges ranges.
LEMMA PatchPutType ==
  ASSUME NEW ranges \in Seq(PatchRange), NEW r \in PatchRecord
  PROVE  PatchPut(ranges, r) \in Seq(PatchRange)
<1> DEFINE n == Len(ranges)
           last == Last(ranges)
           fresh == [module |-> r.module, address |-> r.address, size |-> 1]
<1>1. fresh \in PatchRange
  BY DEF PatchRecord, PatchRange
<1>2. Invalid \in Seq(PatchRange)
  <2>1. [module |-> 0, address |-> 0, size |-> 0] \in PatchRange
    BY PoliciesAssumption DEF PatchRange
  <2> QED
    BY <2>1 DEF Invalid
<1>3. ranges # <<>> => [ranges EXCEPT ![n].size = @ + 1] \in Seq(PatchRange)
  <2> SUFFICES ASSUME ranges # <<>> PROVE [ranges EXCEPT ![n].size = @ + 1] \in Seq(PatchRange)
    OBVIOUS
  <2>1. n \in 1..Len(ranges) /\ ranges[n] \in PatchRange
    OBVIOUS
  <2>2. [ranges[n] EXCEPT !.size = @ + 1] \in PatchRange
    BY <2>1 DEF PatchRange
  <2>3. [ranges EXCEPT ![n] = [ranges[n] EXCEPT !.size = @ + 1]] \in Seq(PatchRange)
    BY <2>1, <2>2, ExceptSeq
  <2>4. [ranges EXCEPT ![n].size = @ + 1] = [ranges EXCEPT ![n] = [ranges[n] EXCEPT !.size = @ + 1]]
    BY <2>1
  <2> QED
    BY <2>3, <2>4
<1>4. Append(ranges, fresh) \in Seq(PatchRange) /\ <<fresh>> \in Seq(PatchRange)
  BY <1>1
<1> HIDE DEF fresh
<1> QED
  BY <1>2, <1>3, <1>4 DEF PatchPut, fresh

\* The ranges after each record.
RangesAfter(w, records) ==
  LET s == Sorted(records)
  IN /\ w[0] = <<>> /\ NormalizeTrackedPatches(records) = w[Len(s)]
     /\ \A i \in 0..Len(s) : w[i] \in Seq(PatchRange)
     /\ \A i \in 1..Len(s) : w[i] = PatchPut(w[i - 1], s[i])

\* There are such.
LEMMA NormalizeRun ==
  ASSUME NEW records \in Seq(PatchRecord)
  PROVE  \E w : RangesAfter(w, records)
<1> DEFINE s == Sorted(records)
           n == Len(s)
           S == Seq(PatchRange)
           P(f, i) == PatchPut(f, s[i])
           step == [i \in 1..n |-> [f \in S |-> P(f, i)]]
           Def(w) == w = [i \in 0..n |-> IF i = 0 THEN <<>> ELSE P(w[i - 1], i)]
           W == CHOOSE v : Def(v)
<1>1. s \in Seq(PatchRecord)
  BY SortedIs
<1>2. NormalizeTrackedPatches(records) = W[n]
  BY DEF NormalizeTrackedPatches, Scan
<1> HIDE DEF s
<1>3. n \in Nat /\ <<>> \in S /\ \A i \in 1..n : \A f \in S : P(f, i) \in S
  <2>1. n \in Nat /\ \A i \in 1..n : s[i] \in PatchRecord
    BY <1>1, ElementOfSeq
  <2>2. \A i \in 1..n : \A f \in S : P(f, i) \in S
    BY <2>1, PatchPutType
  <2> QED
    BY <2>1, <2>2
<1>4. \A i \in 0..n : i = 0 \/ i \in 1..n
  BY <1>3
<1> HIDE DEF S, P, n
<1>5. PICK w : Run(w, S, <<>>, step, n)
  <2>1. step \in [1..n -> [S -> S]]
    BY <1>3
  <2> QED
    BY <1>3, <2>1, Trajectory
<1>6. Def(w)
  <2>1. w \in [0..n -> S] /\ w[0] = <<>> /\ \A i \in 1..n : w[i] = step[i][w[i - 1]]
    BY <1>5 DEF Run
  <2>2. \A i \in 1..n : w[i - 1] \in S
    BY <1>3, <2>1
  <2> QED
    BY <1>4, <2>1, <2>2
<1>7. Def(W)
  BY <1>6
<1> HIDE DEF W
<1>8. W[0] = <<>> /\ \A i \in 1..n : W[i] = P(W[i - 1], i)
  BY <1>3, <1>7
<1>9. \A i \in 0..n : W[i] \in S
  BY <1>3, <1>8, Stays
<1>10. RangesAfter(W, records)
  <2>1. \A i \in 1..Len(s) : W[i] = PatchPut(W[i - 1], s[i])
    BY <1>8 DEF P, n
  <2>2. NormalizeTrackedPatches(records) = W[Len(s)] /\ \A i \in 0..Len(s) : W[i] \in Seq(PatchRange)
    BY <1>2, <1>9 DEF S, n
  <2> QED
    BY <1>8, <2>1, <2>2 DEF s, RangesAfter
<1> QED
  BY <1>10

\* Record i of the sorted ones is well formed, and not of the address before it.
Good(s, i) == s[i].module # 0 /\ ~s[i].same /\ (i > 1 => s[i - 1].address < s[i].address)

Proper(s, k) == \A i \in 1..k : Good(s, i)

\* The ranges are those of the first k records.
Covers(ranges, s, k) ==
  /\ \A i \in 1..Len(ranges) : ranges[i].size >= 1 /\ ranges[i].module # 0
  /\ k = 0 => ranges = <<>>
  /\ k > 0 => /\ Len(ranges) > 0
              /\ ranges[Len(ranges)].address + ranges[Len(ranges)].size = s[k].address + 1
              /\ ranges[Len(ranges)].module = s[k].module
  /\ \A i \in 1..Len(ranges) :
       \A x \in ranges[i].address..ranges[i].address + ranges[i].size - 1 :
         \E j \in 1..k : s[j].address = x /\ s[j].module = ranges[i].module
  /\ \A j \in 1..k : \E i \in 1..Len(ranges) :
       /\ s[j].address \in ranges[i].address..ranges[i].address + ranges[i].size - 1
       /\ s[j].module = ranges[i].module
  /\ \A i \in 1..Len(ranges) - 1 :
       /\ ranges[i].address + ranges[i].size <= ranges[i + 1].address
       /\ ranges[i].address + ranges[i].size = ranges[i + 1].address
            => ranges[i].module # ranges[i + 1].module

\* A record that is not good makes the list invalid.
LEMMA BadRecord ==
  ASSUME NEW s \in Seq(PatchRecord), NEW k \in 1..Len(s), NEW ranges \in Seq(PatchRange),
         Covers(ranges, s, k - 1), ~Good(s, k), k > 1 => s[k - 1].address =< s[k].address
  PROVE  PatchPut(ranges, s[k]) = Invalid
<1> DEFINE n == Len(ranges)
           r == s[k]
           last == Last(ranges)
<1>1. CASE r.module = 0 \/ r.same
  BY <1>1 DEF PatchPut
<1>2. CASE ~(r.module = 0 \/ r.same)
  <2>1. k > 1 /\ ~(s[k - 1].address < r.address)
    BY <1>2 DEF Good
  <2>2. k - 1 \in 1..Len(s) /\ s[k - 1] \in PatchRecord /\ r \in PatchRecord
    BY <2>1
  <2>3. s[k - 1].address \in Nat /\ r.address \in Nat
    BY <2>2, PoliciesAssumption DEF PatchRecord
  <2>4. r.address = s[k - 1].address
    BY <2>1, <2>3
  <2>5. n > 0 /\ last.address + last.size = r.address + 1
    BY <2>1, <2>4 DEF Covers, Last
  <2>6. ranges # <<>> /\ last \in PatchRange
    BY <2>5 DEF Last
  <2>7. last.address \in Nat /\ last.size \in Nat
    BY <2>6, PoliciesAssumption DEF PatchRange
  <2>8. ~Joins(last, r) /\ r.address < last.address + last.size
    BY <2>3, <2>5, <2>7 DEF Joins
  <2> HIDE DEF r, last
  <2> QED
    BY <1>2, <2>6, <2>8 DEF PatchPut, last, r
<1> QED
  BY <1>1, <1>2

\* An interval less its last number.
LEMMA ButTheLast ==
  ASSUME NEW a \in Nat, NEW n \in Nat, NEW x \in a..a + (n + 1) - 1, x # a + n
  PROVE  x \in a..a + n - 1
OBVIOUS

\* A good record is put into the last range or into one of its own.
LEMMA GoodRecord ==
  ASSUME NEW s \in Seq(PatchRecord), NEW k \in 1..Len(s), NEW ranges \in Seq(PatchRange),
         Covers(ranges, s, k - 1), Good(s, k)
  PROVE  Covers(PatchPut(ranges, s[k]), s, k)
<1> DEFINE n == Len(ranges)
           r == s[k]
           last == Last(ranges)
           fresh == [module |-> r.module, address |-> r.address, size |-> 1]
           new == PatchPut(ranges, r)
           Room == last.size =< MaxAddress - last.address
<1>1. /\ \A j \in 1..k : s[j] \in PatchRecord /\ s[j].address \in Nat
      /\ r.address \in 0..MaxAddress /\ MaxAddress \in Nat /\ k \in Nat /\ k > 0 /\ n \in Nat
  <2>1. \A j \in 1..k : s[j] \in PatchRecord
    OBVIOUS
  <2> QED
    BY <2>1, PoliciesAssumption DEF PatchRecord
<1>2. \A i \in 1..n : ranges[i].address \in Nat /\ ranges[i].size \in Nat
  <2>1. \A i \in 1..n : ranges[i] \in PatchRange
    OBVIOUS
  <2> QED
    BY <2>1, PoliciesAssumption DEF PatchRange
<1>3. ranges # Invalid /\ r.module # 0 /\ ~r.same
  <2>1. Len(Invalid) = 1 /\ Invalid[1].module = 0
    BY DEF Invalid
  <2>2. ranges # Invalid
    <3> SUFFICES ASSUME ranges = Invalid PROVE FALSE
      OBVIOUS
    <3>1. 1 \in 1..Len(ranges) /\ ranges[1].module = 0
      BY <2>1
    <3> QED
      BY <3>1 DEF Covers
  <2> QED
    BY <2>2 DEF Good
<1>4. fresh.address = r.address /\ fresh.size = 1 /\ fresh.module = r.module
  OBVIOUS
<1>5. CASE k = 1
  <2>1. ranges = <<>> /\ new = <<fresh>>
    BY <1>3, <1>5 DEF Covers, PatchPut
  <2>2. Len(new) = 1 /\ new[1] = fresh
    BY <2>1
  <2> HIDE DEF fresh, new, r
  <2>3. Covers(new, s, k)
    BY <1>1, <1>3, <1>4, <1>5, <2>2 DEF Covers, r
  <2> QED
    BY <2>3 DEF new, r
<1>6. CASE k > 1
  <2>1. /\ n > 0 /\ last.address + last.size = s[k - 1].address + 1
        /\ last.module = s[k - 1].module /\ last = ranges[n] /\ last.size >= 1
    BY <1>1, <1>6 DEF Covers, Last
  <2>2. s[k - 1].address < r.address /\ k - 1 \in 1..k /\ n \in 1..n /\ ranges # <<>>
    BY <1>1, <1>6, <2>1 DEF Good
  <2>3. Room /\ last.address \in Nat /\ last.size \in Nat /\ r.address >= last.address + last.size
    <3>1. last.address \in Nat /\ last.size \in Nat
      BY <1>2, <2>1, <2>2
    <3>2. s[k - 1].address \in Nat /\ r.address \in Nat /\ r.address =< MaxAddress
      BY <1>1, <2>2
    <3>3. last.address + last.size = s[k - 1].address + 1 /\ s[k - 1].address < r.address
      BY <2>1, <2>2
    <3> HIDE DEF last, r
    <3> QED
      BY <1>1, <3>1, <3>2, <3>3, SMTT(20)
  <2>4. CASE Joins(last, r)
    <3>1. new = [ranges EXCEPT ![n].size = @ + 1]
      <4> HIDE DEF last, r
      <4> QED
        BY <1>3, <2>2, <2>3, <2>4 DEF PatchPut, last, r
    <3>2. /\ Len(new) = n /\ \A i \in 1..n : i # n => new[i] = ranges[i]
          /\ new[n].address = last.address /\ new[n].size = last.size + 1
          /\ new[n].module = last.module
      <4>1. ranges[n] \in PatchRange
        BY <2>2
      <4>2. new[n] = [ranges[n] EXCEPT !.size = @ + 1]
        BY <2>2, <3>1
      <4>3. Len(new) = n /\ \A i \in 1..n : i # n => new[i] = ranges[i]
        BY <3>1
      <4> HIDE DEF new
      <4> QED
        BY <2>1, <4>1, <4>2, <4>3 DEF PatchRange
    <3>3. r.address = last.address + last.size /\ r.module = last.module
      BY <2>4 DEF Joins
    <3> HIDE DEF new, r, last
    <3>4. \A i \in 1..n : new[i].size >= 1 /\ new[i].module # 0
      BY <1>2, <2>1, <2>3, <3>2, SMTT(20) DEF Covers, n
    <3>5. new[n].address + new[n].size = r.address + 1 /\ new[n].module = r.module
      <4>1. /\ new[n].address = last.address /\ new[n].size = last.size + 1
            /\ last.address \in Nat /\ last.size \in Nat /\ new[n].module = last.module
        BY <2>3, <3>2
      <4> QED
        BY <3>3, <4>1
    <3>6. ASSUME NEW i \in 1..n, NEW x \in new[i].address..new[i].address + new[i].size - 1
          PROVE  \E j \in 1..k : s[j].address = x /\ s[j].module = new[i].module
      <4>1. CASE x = r.address /\ i = n
        BY <1>1, <3>5, <4>1 DEF r
      <4>2. CASE ~(x = r.address /\ i = n)
        <5>1. x \in ranges[i].address..ranges[i].address + ranges[i].size - 1
              /\ new[i].module = ranges[i].module
          <6>1. CASE i = n
            <7>1. /\ new[i].address = last.address /\ new[i].size = last.size + 1
                  /\ last.address \in Nat /\ last.size \in Nat /\ new[i].module = last.module
                  /\ ranges[i] = last
              BY <2>1, <2>3, <3>2, <6>1
            <7>2. x # last.address + last.size
              BY <3>3, <4>2, <6>1
            <7>3. x \in last.address..last.address + (last.size + 1) - 1
              BY <7>1
            <7>4. x \in last.address..last.address + last.size - 1
              <8>1. last.address \in Nat /\ last.size \in Nat
                BY <7>1
              <8> QED
                BY <7>2, <7>3, <8>1, ButTheLast
            <7> QED
              BY <7>1, <7>4
          <6>2. CASE i # n
            BY <3>2, <6>2
          <6> QED
            BY <6>1, <6>2
        <5>2. PICK j \in 1..(k - 1) : s[j].address = x /\ s[j].module = ranges[i].module
          BY <5>1 DEF Covers, n
        <5>3. j \in 1..k
          BY <1>1
        <5> QED
          BY <5>1, <5>2, <5>3
      <4> QED
        BY <4>1, <4>2
    <3>7. ASSUME NEW j \in 1..k
          PROVE  \E i \in 1..n :
                   /\ s[j].address \in new[i].address..new[i].address + new[i].size - 1
                   /\ s[j].module = new[i].module
      <4>1. CASE j = k
        <5>1. r.address \in new[n].address..new[n].address + new[n].size - 1
          BY <1>1, <2>3, <3>2, <3>3
        <5> QED
          BY <2>2, <3>5, <4>1, <5>1 DEF r
      <4>2. CASE j # k
        <5>1. j \in 1..(k - 1)
          BY <1>1, <4>2
        <5>2. PICK i \in 1..n :
                /\ s[j].address \in ranges[i].address..ranges[i].address + ranges[i].size - 1
                /\ s[j].module = ranges[i].module
          BY <5>1 DEF Covers, n
        <5>3. s[j].address \in new[i].address..new[i].address + new[i].size - 1
              /\ new[i].module = ranges[i].module
          <6>1. CASE i = n
            <7>1. /\ new[i].address = last.address /\ new[i].size = last.size + 1
                  /\ last.address \in Nat /\ last.size \in Nat /\ new[i].module = last.module
                  /\ ranges[i] = last
              BY <2>1, <2>3, <3>2, <6>1
            <7> QED
              BY <5>2, <7>1, SMTT(20)
          <6>2. CASE i # n
            BY <3>2, <5>2, <6>2
          <6> QED
            BY <6>1, <6>2
        <5> QED
          BY <5>2, <5>3
      <4> QED
        BY <4>1, <4>2
    <3>8. ASSUME NEW i \in 1..n - 1
          PROVE  /\ new[i].address + new[i].size <= new[i + 1].address
                 /\ new[i].address + new[i].size = new[i + 1].address
                      => new[i].module # new[i + 1].module
      <4>1. i \in 1..n /\ i + 1 \in 1..n /\ i # n
        BY <1>1
      <4>2. new[i] = ranges[i] /\ new[i + 1].address = ranges[i + 1].address
            /\ new[i + 1].module = ranges[i + 1].module
        BY <2>1, <3>2, <4>1
      <4> QED
        BY <4>2 DEF Covers, n
    <3>9. Len(new) > 0 /\ k # 0
      BY <1>1, <2>1, <3>2
    <3>10. Covers(new, s, k)
      BY <3>2, <3>4, <3>5, <3>6, <3>7, <3>8, <3>9 DEF Covers, r
    <3> QED
      BY <3>10 DEF new, r
  <2>5. CASE ~Joins(last, r)
    <3>1. new = Append(ranges, fresh)
      <4>1. ~(r.address < last.address + last.size)
        BY <1>1, <2>3
      <4> HIDE DEF last, r
      <4> QED
        BY <1>3, <2>2, <2>3, <2>5, <4>1 DEF PatchPut, last, r
    <3>2. Len(new) = n + 1 /\ new[n + 1] = fresh /\ \A i \in 1..n : new[i] = ranges[i]
      <4> HIDE DEF fresh
      <4> QED
        BY <3>1
    <3>3. \A i \in 1..(n + 1) : i \in 1..n \/ i = n + 1
      BY <1>1
    <3> HIDE DEF new, r, last, fresh
    <3>4. \A i \in 1..(n + 1) : new[i].size >= 1 /\ new[i].module # 0
      <4>1. \A i \in 1..n : ranges[i].size >= 1 /\ ranges[i].module # 0
        BY DEF Covers
      <4>2. fresh.size >= 1 /\ fresh.module # 0
        BY <1>3, <1>4
      <4> QED
        BY <3>2, <3>3, <4>1, <4>2
    <3>5. ASSUME NEW i \in 1..(n + 1), NEW x \in new[i].address..new[i].address + new[i].size - 1
          PROVE  \E j \in 1..k : s[j].address = x /\ s[j].module = new[i].module
      <4>1. CASE i = n + 1
        <5>1. x = r.address
          BY <1>1, <1>4, <3>2, <4>1
        <5>2. k \in 1..k
          BY <1>1
        <5> QED
          BY <1>4, <3>2, <4>1, <5>1, <5>2 DEF r
      <4>2. CASE i \in 1..n
        <5>1. PICK j \in 1..(k - 1) : s[j].address = x /\ s[j].module = ranges[i].module
          <6>1. new[i] = ranges[i]
            BY <3>2, <4>2
          <6> QED
            BY <4>2, <6>1 DEF Covers
        <5>2. j \in 1..k
          BY <1>1
        <5> QED
          BY <3>2, <4>2, <5>1, <5>2
      <4> QED
        BY <3>3, <4>1, <4>2
    <3>6. ASSUME NEW j \in 1..k
          PROVE  \E i \in 1..(n + 1) :
                   /\ s[j].address \in new[i].address..new[i].address + new[i].size - 1
                   /\ s[j].module = new[i].module
      <4>1. CASE j = k
        <5>1. r.address \in new[n + 1].address..new[n + 1].address + new[n + 1].size - 1
          BY <1>1, <1>4, <3>2
        <5>2. n + 1 \in 1..(n + 1)
          BY <1>1
        <5> QED
          BY <1>4, <3>2, <4>1, <5>1, <5>2 DEF r
      <4>2. CASE j # k
        <5>1. j \in 1..(k - 1)
          BY <1>1, <4>2
        <5>2. PICK i \in 1..n :
                /\ s[j].address \in ranges[i].address..ranges[i].address + ranges[i].size - 1
                /\ s[j].module = ranges[i].module
          BY <5>1 DEF Covers, n
        <5>3. i \in 1..(n + 1)
          BY <1>1
        <5> QED
          BY <3>2, <5>2, <5>3
      <4> QED
        BY <4>1, <4>2
    <3>7. ASSUME NEW i \in 1..n
          PROVE  /\ new[i].address + new[i].size <= new[i + 1].address
                 /\ new[i].address + new[i].size = new[i + 1].address
                      => new[i].module # new[i + 1].module
      <4>1. CASE i = n
        <5>1. new[n] = last /\ new[n + 1] = fresh
          BY <2>1, <2>2, <3>2
        <5> QED
          BY <1>1, <1>4, <2>3, <2>5, <4>1, <5>1 DEF Joins
      <4>2. CASE i # n
        <5>1. i \in 1..n - 1 /\ i + 1 \in 1..n
          BY <1>1, <4>2
        <5>2. new[i] = ranges[i] /\ new[i + 1] = ranges[i + 1]
          BY <3>2, <5>1
        <5> QED
          BY <5>1, <5>2 DEF Covers, n
      <4> QED
        BY <4>1, <4>2
    <3>8. Len(new) > 0 /\ k # 0 /\ Len(new) - 1 = n
      BY <1>1, <3>2
    <3>9. new[n + 1].address + new[n + 1].size = r.address + 1 /\ new[n + 1].module = r.module
      BY <1>1, <1>4, <3>2
    <3>10. Covers(new, s, k)
      BY <3>2, <3>4, <3>5, <3>6, <3>7, <3>8, <3>9 DEF Covers, r
    <3> QED
      BY <3>10 DEF new, r
  <2> QED
    BY <2>4, <2>5
<1> QED
  BY <1>1, <1>5, <1>6

\* The sorted records are in the order of their addresses.
LEMMA SortedAddresses ==
  ASSUME NEW records \in Seq(PatchRecord), NEW i \in 1..Len(records), NEW j \in 1..Len(records),
         i =< j
  PROVE  Sorted(records)[i].address =< Sorted(records)[j].address
<1> DEFINE s == Sorted(records)
           n == Len(records)
<1>1. s \in Seq(PatchRecord) /\ Len(s) = n
  BY SortedIs
<1>2. PICK p : SortsFirst(p, records, n) /\ \A m \in 1..n : s[m] = records[p[m]]
  BY SortedIs
<1> HIDE DEF s
<1>3. s[i] \in PatchRecord /\ s[j] \in PatchRecord
  BY <1>1, ElementOfSeq
<1>4. s[i].address \in Int
  BY <1>3, PoliciesAssumption DEF PatchRecord
<1>5. CASE i = j
  BY <1>4, <1>5 DEF s
<1>6. CASE i < j
  <2>1. ~RecordBefore(s[j], s[i])
    BY <1>2, <1>6 DEF SortsFirst
  <2> QED
    BY <1>3, <2>1, RecordOrder DEF s
<1> QED
  BY <1>5, <1>6

\* The ranges are those of the records if they are proper, and invalid otherwise.
LEMMA NormalizeIs ==
  ASSUME NEW records \in Seq(PatchRecord)
  PROVE  LET s == Sorted(records)
             ranges == NormalizeTrackedPatches(records)
         IN /\ ranges \in Seq(PatchRange)
            /\ \/ Proper(s, Len(s)) /\ Covers(ranges, s, Len(s))
               \/ ~Proper(s, Len(s)) /\ ranges = Invalid
<1> DEFINE s == Sorted(records)
           n == Len(s)
<1>1. s \in Seq(PatchRecord) /\ n = Len(records) /\ n \in Nat
  BY SortedIs
<1>2. \A i \in 1..n : i > 1 => s[i - 1].address =< s[i].address
  BY <1>1, SortedAddresses
<1>3. PICK w : RangesAfter(w, records)
  BY NormalizeRun
<1>4. /\ w[0] = <<>> /\ NormalizeTrackedPatches(records) = w[n]
      /\ \A i \in 0..n : w[i] \in Seq(PatchRange)
      /\ \A i \in 1..n : w[i] = PatchPut(w[i - 1], s[i])
  BY <1>3 DEF RangesAfter
<1> HIDE DEF s
<1> DEFINE Right(i) == \/ Proper(s, i) /\ Covers(w[i], s, i)
                       \/ ~Proper(s, i) /\ w[i] = Invalid
           A == {i \in 0..n : Right(i)}
<1>5. Right(0)
  BY <1>4 DEF Proper, Covers
<1>6. ASSUME NEW i \in 1..n, Right(i - 1)
      PROVE  Right(i)
  <2>1. Proper(s, i) <=> Proper(s, i - 1) /\ Good(s, i)
    <3>1. \A j : j \in 1..i <=> j \in 1..(i - 1) \/ j = i
      BY <1>1
    <3> QED
      BY <3>1 DEF Proper
  <2>2. i - 1 \in 0..n /\ w[i - 1] \in Seq(PatchRange) /\ i \in 1..Len(s)
    BY <1>1, <1>4
  <2>3. CASE ~Proper(s, i - 1)
    <3>1. w[i - 1] = Invalid
      BY <1>6, <2>3
    <3>2. w[i] = Invalid
      BY <1>4, <3>1 DEF PatchPut
    <3> QED
      BY <2>1, <2>3, <3>2
  <2>4. CASE Proper(s, i - 1) /\ Good(s, i)
    <3>1. Covers(w[i - 1], s, i - 1)
      BY <1>6, <2>4
    <3>2. Covers(PatchPut(w[i - 1], s[i]), s, i)
      BY <1>1, <2>2, <2>4, <3>1, GoodRecord
    <3> QED
      BY <1>4, <2>1, <2>4, <3>2
  <2>5. CASE Proper(s, i - 1) /\ ~Good(s, i)
    <3>1. Covers(w[i - 1], s, i - 1)
      BY <1>6, <2>5
    <3>2. PatchPut(w[i - 1], s[i]) = Invalid
      BY <1>1, <1>2, <2>2, <2>5, <3>1, BadRecord
    <3> QED
      BY <1>4, <2>1, <2>5, <3>2
  <2> QED
    BY <2>3, <2>4, <2>5
<1> HIDE DEF Right
<1>7. 0 \in A /\ \A i \in 1..n : i - 1 \in A => i \in A
  BY <1>1, <1>5, <1>6
<1>8. \A i \in 0..n : i \in A
  <2> HIDE DEF A, n
  <2> QED
    BY <1>1, <1>7, UpTo
<1>9. Right(n) /\ w[n] \in Seq(PatchRange)
  BY <1>1, <1>4, <1>8
<1> QED
  BY <1>4, <1>9 DEF Right, s

\* Records are proper when no one is malformed and no two are of one address.
LEMMA ProperIs ==
  ASSUME NEW records \in Seq(PatchRecord)
  PROVE  Proper(Sorted(records), Len(records)) <=>
           /\ \A i \in 1..Len(records) : records[i].module # 0 /\ ~records[i].same
           /\ \A i, j \in 1..Len(records) : records[i].address = records[j].address => i = j
<1> DEFINE s == Sorted(records)
           n == Len(records)
<1>1. PICK p : SortsFirst(p, records, n) /\ \A m \in 1..n : s[m] = records[p[m]]
  BY SortedIs
<1>2. n \in Nat /\ \A i \in 1..n : records[i].address \in Int
  <2>1. \A i \in 1..n : records[i] \in PatchRecord
    BY ElementOfSeq
  <2> QED
    BY <2>1, PoliciesAssumption DEF PatchRecord
<1>3. \A i, j \in 1..n : i =< j => s[i].address =< s[j].address
  BY SortedAddresses
<1> HIDE DEF s
<1>4. /\ \A i \in 1..n : p[i] \in 1..n
      /\ \A m \in 1..n : \E i \in 1..n : p[i] = m
      /\ \A i, j \in 1..n : p[i] = p[j] => i = j
  BY <1>1 DEF SortsFirst
<1>5. \A i \in 1..n : s[i].address \in Int
  BY <1>1, <1>2, <1>4
<1>6. ASSUME \A i \in 1..n : records[i].module # 0 /\ ~records[i].same,
             \A i, j \in 1..n : records[i].address = records[j].address => i = j
      PROVE  Proper(s, n)
  <2> SUFFICES ASSUME NEW i \in 1..n PROVE Good(s, i)
    BY DEF Proper
  <2>0. \A m \in 1..n : s[m] = records[p[m]] /\ p[m] \in 1..n
    BY <1>1, <1>4
  <2>1. s[i].module # 0 /\ ~s[i].same
    <3>1. records[p[i]].module # 0 /\ ~records[p[i]].same
      BY <1>6, <2>0
    <3> QED
      BY <2>0, <3>1
  <2>2. ASSUME i > 1 PROVE s[i - 1].address < s[i].address
    <3>1. i - 1 \in 1..n /\ i - 1 # i /\ i - 1 =< i
      BY <1>2, <2>2
    <3>2. s[i - 1].address # s[i].address
      <4>1. p[i - 1] # p[i]
        BY <1>4, <3>1
      <4>2. records[p[i - 1]].address # records[p[i]].address
        BY <1>6, <2>0, <3>1, <4>1
      <4> QED
        BY <2>0, <3>1, <4>2
    <3> QED
      BY <1>3, <1>5, <3>1, <3>2
  <2> QED
    BY <2>1, <2>2 DEF Good
<1>7. ASSUME Proper(s, n)
      PROVE  /\ \A i \in 1..n : records[i].module # 0 /\ ~records[i].same
             /\ \A i, j \in 1..n : records[i].address = records[j].address => i = j
  <2>1. ASSUME NEW i \in 1..n PROVE records[i].module # 0 /\ ~records[i].same
    <3>1. PICK a \in 1..n : p[a] = i
      BY <1>4
    <3> QED
      BY <1>1, <1>7, <3>1 DEF Proper, Good
  <2>2. ASSUME NEW a \in 1..n, NEW b \in 1..n, a < b PROVE s[a].address # s[b].address
    <3>1. b - 1 \in 1..n /\ a =< b - 1 /\ b > 1
      BY <1>2, <2>2
    <3>2. s[b - 1].address < s[b].address
      BY <1>7, <3>1 DEF Proper, Good
    <3>3. s[a].address =< s[b - 1].address
      BY <1>3, <3>1
    <3> QED
      BY <1>5, <3>1, <3>2, <3>3
  <2>3. ASSUME NEW i \in 1..n, NEW j \in 1..n, records[i].address = records[j].address
        PROVE  i = j
    <3>1. PICK a \in 1..n : p[a] = i
      BY <1>4
    <3>2. PICK b \in 1..n : p[b] = j
      BY <1>4
    <3>3. s[a].address = s[b].address
      BY <1>1, <2>3, <3>1, <3>2
    <3>4. ~(a < b) /\ ~(b < a)
      BY <2>2, <3>3
    <3>5. a = b
      BY <3>4
    <3> QED
      BY <3>1, <3>2, <3>5
  <2> QED
    BY <2>1, <2>3
<1> QED
  BY <1>6, <1>7 DEF s

\* What NormalizeTrackedPatches makes of any records.
LEMMA PatchesAre ==
  ASSUME input.kind = "patches", input.text \in Seq(PatchRecord)
  PROVE  PatchesAreMaximalRuns
<1> DEFINE records == input.text
           ranges == NormalizeTrackedPatches(records)
           s == Sorted(records)
           n == Len(records)
           Covered(r) == {[module |-> r.module, address |-> x] :
                            x \in r.address..r.address + r.size - 1}
           wellFormed == /\ \A i \in DOMAIN records : records[i].module # 0 /\ ~records[i].same
                         /\ \A i, j \in DOMAIN records :
                              records[i].address = records[j].address => i = j
           Byt(r) == [module |-> r.module, address |-> r.address]
<1>1. s \in Seq(PatchRecord) /\ Len(s) = n /\ DOMAIN records = 1..n /\ n \in Nat
  BY SortedIs
<1>2. PICK p : SortsFirst(p, records, n) /\ \A m \in 1..n : s[m] = records[p[m]]
  BY SortedIs
<1>3. Proper(s, n) <=> wellFormed
  BY <1>1, ProperIs
<1>4. /\ ranges \in Seq(PatchRange)
      /\ \/ Proper(s, n) /\ Covers(ranges, s, n)
         \/ ~Proper(s, n) /\ ranges = Invalid
  <2>1. /\ ranges \in Seq(PatchRange)
        /\ \/ Proper(s, Len(s)) /\ Covers(ranges, s, Len(s))
           \/ ~Proper(s, Len(s)) /\ ranges = Invalid
    BY NormalizeIs
  <2> HIDE DEF ranges, s, n
  <2> QED
    BY <1>1, <2>1
<1> HIDE DEF records, ranges, s, wellFormed
<1>5. ASSUME Covers(ranges, s, n) PROVE ranges # Invalid
  <2> SUFFICES ASSUME ranges = Invalid PROVE FALSE
    OBVIOUS
  <2>1. 1 \in 1..Len(ranges) /\ ranges[1].module = 0
    BY DEF Invalid
  <2> QED
    BY <1>5, <2>1 DEF Covers
<1>6. ranges = Invalid <=> ~wellFormed
  BY <1>3, <1>4, <1>5
<1>7. /\ \A i \in 1..n : p[i] \in 1..n /\ s[i] = records[p[i]]
      /\ \A m \in 1..n : \E i \in 1..n : p[i] = m
  BY <1>2 DEF SortsFirst
<1>8. DOMAIN ranges = 1..Len(ranges)
  BY <1>4
<1>9. ASSUME Covers(ranges, s, n)
      PROVE  UNION {Covered(ranges[i]) : i \in DOMAIN ranges} = {Byt(records[i]) : i \in 1..n}
  <2>1. ASSUME NEW i \in 1..Len(ranges), NEW c \in Covered(ranges[i])
        PROVE  \E j \in 1..n : c = Byt(records[j])
    <3>1. PICK x \in ranges[i].address..ranges[i].address + ranges[i].size - 1 :
            c = [module |-> ranges[i].module, address |-> x]
      OBVIOUS
    <3>2. PICK j \in 1..n : s[j].address = x /\ s[j].module = ranges[i].module
      BY <1>9 DEF Covers
    <3>3. c = Byt(records[p[j]]) /\ p[j] \in 1..n
      BY <1>7, <3>1, <3>2
    <3> QED
      BY <3>3
  <2>2. ASSUME NEW j \in 1..n
        PROVE  \E i \in 1..Len(ranges) : Byt(records[j]) \in Covered(ranges[i])
    <3>1. PICK k \in 1..n : p[k] = j
      BY <1>7
    <3>2. PICK i \in 1..Len(ranges) :
            /\ s[k].address \in ranges[i].address..ranges[i].address + ranges[i].size - 1
            /\ s[k].module = ranges[i].module
      BY <1>9 DEF Covers
    <3>3. Byt(records[j]) = [module |-> ranges[i].module, address |-> s[k].address]
      BY <1>7, <3>1, <3>2
    <3> QED
      BY <3>2, <3>3
  <2> HIDE DEF Covered, Byt
  <2> QED
    BY <1>8, <2>1, <2>2, SMTT(20)
<1>10. wellFormed =>
         /\ UNION {Covered(ranges[i]) : i \in DOMAIN ranges} = {Byt(records[i]) : i \in DOMAIN records}
         /\ \A i \in 1..Len(ranges) - 1 :
              /\ ranges[i].address + ranges[i].size <= ranges[i + 1].address
              /\ ranges[i].address + ranges[i].size = ranges[i + 1].address
                   => ranges[i].module # ranges[i + 1].module
  <2> SUFFICES ASSUME Covers(ranges, s, n)
               PROVE  /\ UNION {Covered(ranges[i]) : i \in DOMAIN ranges}
                           = {Byt(records[i]) : i \in DOMAIN records}
                      /\ \A i \in 1..Len(ranges) - 1 :
                           /\ ranges[i].address + ranges[i].size <= ranges[i + 1].address
                           /\ ranges[i].address + ranges[i].size = ranges[i + 1].address
                                => ranges[i].module # ranges[i + 1].module
    <3> HIDE DEF Covered, Byt
    <3> QED
      BY <1>3, <1>4
  <2>1. UNION {Covered(ranges[i]) : i \in DOMAIN ranges} = {Byt(records[i]) : i \in DOMAIN records}
    <3> HIDE DEF Covered, Byt
    <3> QED
      BY <1>1, <1>9 DEF records
  <2> HIDE DEF Covered, Byt
  <2> QED
    BY <2>1 DEF Covers
<1> QED
  BY <1>6, <1>10 DEF PatchesAreMaximalRuns, records, ranges, wellFormed

\* For any records: tracked patches are refused exactly when one is malformed
\* or two are of one address; otherwise the ranges cover every record once and
\* are as long as they can be (NormalizeTrackedPatches).
THEOREM PatchRangesAreRuns ==
  Spec => []PatchesAreMaximalRuns
<1>1. PoliciesInv => PatchesAreMaximalRuns
  <2> SUFFICES ASSUME PoliciesInv, input.kind = "patches" PROVE PatchesAreMaximalRuns
    BY DEF PatchesAreMaximalRuns
  <2>1. input.text \in Seq(PatchRecord)
    BY DEF PoliciesInv, InputOK, Alphabet, PatchRecord
  <2> QED
    BY <2>1, PatchesAre
<1> QED
  BY <1>1, PoliciesInvariant, PTL

\* Arithmetic on addresses agrees with the sets that they bound, for every
\* largest address and any records.
THEOREM AddressArithmetic ==
  Spec => []AddressesAreSets
<1>1. RangesAreSets /\ PatchesAreMaximalRuns => AddressesAreSets
  BY DEF AddressesAreSets
<1> QED
  BY <1>1, RangeChecksAreSets, PatchRangesAreRuns, PTL

-----------------------------------------------------------------------------
(* launch_arguments.cpp.                                                   *)

Char == {"a", "bs", "quote", "space"}
Word == Seq(Char)

\* A run of one symbol, and one more.
LEMMA TimesIs ==
  ASSUME NEW S, NEW c \in S, NEW n \in Nat
  PROVE  /\ Times(n, c) \in Seq(S) /\ Len(Times(n, c)) = n
         /\ Times(0, c) = <<>>
         /\ Times(n + 1, c) = Times(n, c) \o <<c>>
<1>1. \A k \in Nat : Times(k, c) \in Seq(S) /\ Len(Times(k, c)) = k
                     /\ \A i \in 1..k : Times(k, c)[i] = c
  BY DEF Times
<1>2. Times(n, c) \o <<c>> \in Seq(S) /\ Len(Times(n, c) \o <<c>>) = n + 1
      /\ \A i \in 1..(n + 1) : (Times(n, c) \o <<c>>)[i] = c
  BY <1>1
<1>3. Times(n + 1, c) = Times(n, c) \o <<c>>
  BY <1>1, <1>2, SeqEqual
<1>4. Times(0, c) = <<>>
  BY <1>1
<1> QED
  BY <1>1, <1>3, <1>4

\* The parser goes from a to b over s.
ArgvRun(w, a, s) == w[0] = a /\ \A i \in 1..Len(s) : w[i] = ArgvPut(w[i - 1], s[i])
Parses(a, s, b) == \E w : ArgvRun(w, a, s) /\ w[Len(s)] = b

\* One text after another.
LEMMA ParsesConcat ==
  ASSUME NEW s \in Word, NEW t \in Word, NEW a, NEW b, NEW c, Parses(a, s, b), Parses(b, t, c)
  PROVE  Parses(a, s \o t, c)
<1> DEFINE m == Len(s)
           n == Len(t)
           st == s \o t
<1>1. PICK w : ArgvRun(w, a, s) /\ w[m] = b
  BY DEF Parses
<1>2. PICK u : ArgvRun(u, b, t) /\ u[n] = c
  BY DEF Parses
<1>3. /\ m \in Nat /\ n \in Nat /\ Len(st) = m + n
      /\ \A i \in 1..m : st[i] = s[i]
      /\ \A i \in (m + 1)..(m + n) : st[i] = t[i - m]
  OBVIOUS
<1> HIDE DEF st, m, n
<1> DEFINE v == [i \in 0..m + n |-> IF i =< m THEN w[i] ELSE u[i - m]]
<1>4. /\ \A i \in 0..m : v[i] = w[i]
      /\ \A i \in m..(m + n) : v[i] = u[i - m]
  <2>1. u[0] = w[m]
    BY <1>1, <1>2 DEF ArgvRun
  <2> QED
    BY <1>3, <2>1
<1> HIDE DEF v
<1>5. ASSUME NEW i \in 1..(m + n) PROVE v[i] = ArgvPut(v[i - 1], st[i])
  <2>1. CASE i =< m
    <3>1. i \in 1..m /\ i \in 0..m /\ i - 1 \in 0..m
      BY <1>3, <2>1
    <3>2. w[i] = ArgvPut(w[i - 1], s[i])
      BY <1>1, <3>1 DEF ArgvRun, m
    <3> QED
      BY <1>3, <1>4, <3>1, <3>2
  <2>2. CASE m < i
    <3>1. /\ i - m \in 1..n /\ i \in m..(m + n) /\ i - 1 \in m..(m + n)
          /\ i \in (m + 1)..(m + n) /\ (i - 1) - m = (i - m) - 1
      BY <1>3, <2>2
    <3>2. u[i - m] = ArgvPut(u[(i - m) - 1], t[i - m])
      BY <1>2, <3>1 DEF ArgvRun, n
    <3> QED
      BY <1>3, <1>4, <3>1, <3>2
  <2> QED
    BY <1>3, <2>1, <2>2
<1>6. v[0] = a /\ v[m + n] = c
  <2>1. 0 \in 0..m /\ m + n \in m..(m + n) /\ (m + n) - m = n
    BY <1>3
  <2> QED
    BY <1>1, <1>2, <1>4, <2>1 DEF ArgvRun
<1>7. ArgvRun(v, a, st) /\ v[Len(st)] = c
  BY <1>3, <1>5, <1>6 DEF ArgvRun
<1> QED
  BY <1>7 DEF Parses, st

\* One character.
LEMMA ParsesOne ==
  ASSUME NEW a, NEW c
  PROVE  Parses(a, <<c>>, ArgvPut(a, c))
<1> DEFINE w == [i \in 0..1 |-> IF i = 0 THEN a ELSE ArgvPut(a, c)]
<1>1. w[0] = a /\ w[1] = ArgvPut(a, c) /\ Len(<<c>>) = 1 /\ <<c>>[1] = c
  OBVIOUS
<1> HIDE DEF w
<1>2. ArgvRun(w, a, <<c>>) /\ w[Len(<<c>>)] = ArgvPut(a, c)
  BY <1>1 DEF ArgvRun
<1> QED
  BY <1>2 DEF Parses

\* The parser that comes to b is the scan of the text.
LEMMA ParsesScan ==
  ASSUME NEW s \in Word, NEW a, NEW b, Parses(a, s, b)
  PROVE  Scan(ArgvPut, a, s) = b
<1> DEFINE n == Len(s)
           P(x, i) == ArgvPut(x, s[i])
           Def(w) == w = [i \in 0..n |-> IF i = 0 THEN a ELSE P(w[i - 1], i)]
           W == CHOOSE v : Def(v)
<1>1. Scan(ArgvPut, a, s) = W[n]
  BY DEF Scan
<1>2. PICK w : ArgvRun(w, a, s) /\ w[n] = b
  BY DEF Parses
<1>3. n \in Nat /\ w[0] = a /\ \A i \in 1..n : w[i] = P(w[i - 1], i)
  BY <1>2 DEF ArgvRun
<1>4. \A i \in 0..n : i = 0 \/ i \in 1..n
  BY <1>3
<1> HIDE DEF P, n
<1>5. Def([i \in 0..n |-> w[i]])
  BY <1>3, <1>4
<1>6. Def(W)
  BY <1>5
<1> HIDE DEF W
<1>7. W[0] = a /\ \A i \in 1..n : W[i] = P(W[i - 1], i)
  BY <1>3, <1>6
<1> DEFINE A == {i \in 0..n : W[i] = w[i]}
<1>8. 0 \in A /\ \A i \in 1..n : i - 1 \in A => i \in A
  BY <1>3, <1>7
<1>9. \A i \in 0..n : i \in A
  <2> HIDE DEF A
  <2> QED
    BY <1>3, <1>8, UpTo
<1>10. W[n] = w[n]
  BY <1>3, <1>9
<1> QED
  BY <1>1, <1>2, <1>10

\* Inside quotes with r backslashes waiting, at the end of a word, and between words.
Held(words, word, r) ==
  [words |-> words, word |-> word, run |-> r, quoted |-> TRUE, open |-> TRUE]
Closed(words, word) ==
  [words |-> words, word |-> word, run |-> 0, quoted |-> FALSE, open |-> TRUE]
Between(words) ==
  [words |-> words, word |-> <<>>, run |-> 0, quoted |-> FALSE, open |-> FALSE]

\* A quote after an even number of backslashes closes or opens.
LEMMA EvenQuote ==
  ASSUME NEW words, NEW word, NEW r, NEW e, e % 2 # 1, e \div 2 = r
  PROVE  /\ ArgvPut(Held(words, word, e), "quote") = Closed(words, word \o Times(r, "bs"))
         /\ ArgvPut([words |-> words, word |-> word, run |-> e, quoted |-> FALSE, open |-> FALSE],
                    "quote") = Held(words, word \o Times(r, "bs"), 0)
BY DEF ArgvPut, ArgvQuote, Held, Closed

\* What a character does to the parser in these states.
LEMMA ArgvSteps ==
  ASSUME NEW words \in Seq(Word), NEW word \in Word, NEW r \in Nat
  PROVE  /\ ArgvPut(Held(words, word, r), "bs") = Held(words, word, r + 1)
         /\ ArgvPut(Held(words, word, 2 * r + 1), "quote")
              = Held(words, Append(word \o Times(r, "bs"), "quote"), 0)
         /\ ArgvPut(Held(words, word, 2 * r), "quote") = Closed(words, word \o Times(r, "bs"))
         /\ \A c \in Char \ {"bs", "quote"} :
              ArgvPut(Held(words, word, r), c) = Held(words, Append(word \o Times(r, "bs"), c), 0)
         /\ ArgvPut(Between(words), "quote") = Held(words, <<>>, 0)
         /\ ArgvPut(Closed(words, word), "space") = Between(Append(words, word))
<1>1. ArgvPut(Held(words, word, r), "bs") = Held(words, word, r + 1)
  BY DEF ArgvPut, Held
<1>2. (2 * r + 1) \div 2 = r /\ (2 * r + 1) % 2 = 1 /\ (2 * r) \div 2 = r /\ (2 * r) % 2 = 0
  OBVIOUS
<1>3. ArgvPut(Held(words, word, 2 * r + 1), "quote")
        = Held(words, Append(word \o Times(r, "bs"), "quote"), 0)
  BY <1>2 DEF ArgvPut, ArgvQuote, Held
<1>4. ArgvPut(Held(words, word, 2 * r), "quote") = Closed(words, word \o Times(r, "bs"))
  <2> DEFINE e == 2 * r
  <2>1. e % 2 # 1 /\ e \div 2 = r
    BY <1>2
  <2> HIDE DEF e
  <2>2. ArgvPut(Held(words, word, e), "quote") = Closed(words, word \o Times(r, "bs"))
    BY <2>1, EvenQuote
  <2> QED
    BY <2>2 DEF e
<1>5. ASSUME NEW c \in Char \ {"bs", "quote"}
      PROVE  ArgvPut(Held(words, word, r), c) = Held(words, Append(word \o Times(r, "bs"), c), 0)
  BY DEF ArgvPut, Plain, Held, Char
<1>6. Times(0, "bs") = <<>>
  BY TimesIs
<1>7. ArgvPut(Between(words), "quote") = Held(words, <<>>, 0)
  <2> DEFINE e == 0
             empty == <<>>
  <2>1. e % 2 # 1 /\ e \div 2 = 0 /\ empty \o Times(0, "bs") = <<>>
    BY <1>6
  <2> HIDE DEF e, empty
  <2>2. ArgvPut([words |-> words, word |-> empty, run |-> e, quoted |-> FALSE, open |-> FALSE],
                "quote") = Held(words, empty \o Times(0, "bs"), 0)
    BY <2>1, EvenQuote
  <2> QED
    BY <2>1, <2>2 DEF Between, e, empty
<1>8. ArgvPut(Closed(words, word), "space") = Between(Append(words, word))
  <2>1. word \o Times(0, "bs") = word
    BY <1>6 DEF Word
  <2> QED
    BY <2>1 DEF ArgvPut, Plain, Closed, Between
<1> QED
  BY <1>1, <1>3, <1>4, <1>5, <1>7, <1>8

QuoteState == [out : Word, run : Nat]

\* A text, k backslashes and a character.
Put(out, k, c) == out \o Times(k, "bs") \o <<c>>

\* That is a text.
LEMMA PutIs ==
  ASSUME NEW out \in Word, NEW k \in Nat, NEW c \in Char
  PROVE  /\ Times(k, "bs") \in Word /\ <<c>> \in Word /\ out \o Times(k, "bs") \in Word
         /\ Put(out, k, c) \in Word /\ Put(out, k, c) # <<>>
<1> DEFINE u == Times(k, "bs")
<1>1. "bs" \in Char
  BY DEF Char
<1>2. u \in Seq(Char)
  BY <1>1, TimesIs
<1>3. <<c>> \in Seq(Char) /\ out \in Seq(Char)
  BY DEF Word
<1> HIDE DEF u
<1>4. out \o u \in Seq(Char)
  BY <1>2, <1>3
<1>5. (out \o u) \o <<c>> \in Seq(Char) /\ Len((out \o u) \o <<c>>) > 0
  BY <1>3, <1>4
<1>6. (out \o u) \o <<c>> # <<>>
  BY <1>5
<1> QED
  BY <1>2, <1>3, <1>4, <1>5, <1>6 DEF Put, u, Word

\* What a character does to the text that is being quoted.
LEMMA QuoteSteps ==
  ASSUME NEW s \in QuoteState, NEW c \in Char
  PROVE  /\ QuotePut(s, c) \in QuoteState
         /\ c = "bs" => QuotePut(s, c).out = s.out /\ QuotePut(s, c).run = s.run + 1
         /\ c = "quote" => /\ QuotePut(s, c).out = Put(s.out, 2 * s.run + 1, c)
                           /\ QuotePut(s, c).run = 0
         /\ c \notin {"bs", "quote"} => /\ QuotePut(s, c).out = Put(s.out, s.run, c)
                                        /\ QuotePut(s, c).run = 0
<1>1. s.out \in Word /\ s.run \in Nat /\ DOMAIN s = {"out", "run"}
  BY DEF QuoteState
<1>2. /\ c = "bs" => QuotePut(s, c) = [s EXCEPT !.run = @ + 1]
      /\ c = "quote" => QuotePut(s, c) = [out |-> Put(s.out, 2 * s.run + 1, c), run |-> 0]
      /\ c \notin {"bs", "quote"} => QuotePut(s, c) = [out |-> Put(s.out, s.run, c), run |-> 0]
  BY DEF QuotePut, Put
<1>3. Put(s.out, 2 * s.run + 1, c) \in Word /\ Put(s.out, s.run, c) \in Word
  <2>1. 2 * s.run + 1 \in Nat
    BY <1>1
  <2> QED
    BY <1>1, <2>1, PutIs
<1>4. CASE c = "bs"
  <2>1. QuotePut(s, c) \in QuoteState
    BY <1>1, <1>2, <1>4 DEF QuoteState
  <2> QED
    BY <1>1, <1>2, <1>4, <2>1
<1>5. CASE c = "quote"
  <2>1. QuotePut(s, c) \in QuoteState
    BY <1>2, <1>3, <1>5 DEF QuoteState
  <2> QED
    BY <1>2, <1>5, <2>1
<1>6. CASE c \notin {"bs", "quote"}
  <2>1. QuotePut(s, c) \in QuoteState
    BY <1>2, <1>3, <1>6 DEF QuoteState
  <2> QED
    BY <1>2, <1>6, <2>1
<1> QED
  BY <1>4, <1>5, <1>6

\* The quoted text after each character.
QuoteAfter(w, value) ==
  /\ w[0] = [out |-> <<"quote">>, run |-> 0]
  /\ \A i \in 0..Len(value) : w[i] \in QuoteState
  /\ \A i \in 1..Len(value) : w[i] = QuotePut(w[i - 1], value[i])
  /\ QuoteWindowsArgument(value)
       = w[Len(value)].out \o ClosingRun(w[Len(value)].run) \o <<"quote">>

\* There are such.
LEMMA QuoteRun ==
  ASSUME NEW value \in Word
  PROVE  \E w : QuoteAfter(w, value)
<1> DEFINE n == Len(value)
           start == [out |-> <<"quote">>, run |-> 0]
           P(f, i) == QuotePut(f, value[i])
           step == [i \in 1..n |-> [f \in QuoteState |-> P(f, i)]]
           Def(w) == w = [i \in 0..n |-> IF i = 0 THEN start ELSE P(w[i - 1], i)]
           W == CHOOSE v : Def(v)
<1>1. QuoteWindowsArgument(value) = W[n].out \o ClosingRun(W[n].run) \o <<"quote">>
  BY DEF QuoteWindowsArgument, Scan
<1>2. start \in QuoteState
  BY DEF QuoteState, Word, Char
<1>3. n \in Nat /\ \A i \in 1..n : \A f \in QuoteState : P(f, i) \in QuoteState
  <2>1. n \in Nat /\ \A i \in 1..n : value[i] \in Char
    BY ElementOfSeq DEF Word
  <2> QED
    BY <2>1, QuoteSteps
<1>4. \A i \in 0..n : i = 0 \/ i \in 1..n
  BY <1>3
<1> HIDE DEF P, n, start
<1>5. PICK w : Run(w, QuoteState, start, step, n)
  <2>1. step \in [1..n -> [QuoteState -> QuoteState]]
    BY <1>3
  <2> QED
    BY <1>2, <1>3, <2>1, Trajectory
<1>6. Def(w)
  <2>1. w \in [0..n -> QuoteState] /\ w[0] = start /\ \A i \in 1..n : w[i] = step[i][w[i - 1]]
    BY <1>5 DEF Run
  <2>2. \A i \in 1..n : w[i - 1] \in QuoteState
    BY <1>3, <2>1
  <2> QED
    BY <1>4, <2>1, <2>2
<1>7. Def(W)
  BY <1>6
<1> HIDE DEF W
<1>8. W[0] = start /\ \A i \in 1..n : W[i] = P(W[i - 1], i)
  BY <1>3, <1>7
<1>9. \A i \in 0..n : W[i] \in QuoteState
  BY <1>2, <1>3, <1>8, Stays
<1>10. QuoteAfter(W, value)
  BY <1>1, <1>8, <1>9 DEF P, n, start, QuoteAfter
<1> QED
  BY <1>10

\* The parser takes in the backslashes that a quoted word ends in.
LEMMA ParsesRun ==
  ASSUME NEW words \in Seq(Word), NEW word \in Word, NEW k \in Nat
  PROVE  Parses(Held(words, word, 0), Times(k, "bs"), Held(words, word, k))
<1> DEFINE w == [i \in 0..k |-> Held(words, word, i)]
<1>1. Len(Times(k, "bs")) = k /\ \A i \in 1..k : Times(k, "bs")[i] = "bs"
  BY DEF Times
<1>2. \A i \in 0..k : w[i] = Held(words, word, i)
  OBVIOUS
<1> HIDE DEF w
<1>3. ASSUME NEW i \in 1..k PROVE w[i] = ArgvPut(w[i - 1], "bs")
  <2>1. i - 1 \in Nat /\ i - 1 \in 0..k /\ i \in 0..k /\ (i - 1) + 1 = i
    OBVIOUS
  <2>2. ArgvPut(Held(words, word, i - 1), "bs") = Held(words, word, (i - 1) + 1)
    BY <2>1, ArgvSteps
  <2> QED
    BY <1>2, <2>1, <2>2
<1>4. w[0] = Held(words, word, 0) /\ w[k] = Held(words, word, k)
  BY <1>2
<1>5. ArgvRun(w, Held(words, word, 0), Times(k, "bs"))
  BY <1>1, <1>3, <1>4 DEF ArgvRun
<1> QED
  BY <1>1, <1>4, <1>5 DEF Parses

\* The parser over a run of backslashes and the character after it.
LEMMA ParsesHeld ==
  ASSUME NEW a, NEW s \in Word, NEW words \in Seq(Word), NEW word \in Word, NEW k \in Nat,
         NEW c \in Char, Parses(a, s, Held(words, word, 0))
  PROVE  Parses(a, Put(s, k, c), ArgvPut(Held(words, word, k), c))
<1> DEFINE u == Times(k, "bs")
<1>1. u \in Word /\ <<c>> \in Word /\ s \o u \in Word
  BY PutIs
<1>2. Parses(Held(words, word, 0), u, Held(words, word, k))
  BY ParsesRun
<1>3. Parses(Held(words, word, k), <<c>>, ArgvPut(Held(words, word, k), c))
  BY ParsesOne
<1> HIDE DEF u
<1>5. Parses(a, s \o u, Held(words, word, k))
  BY <1>1, <1>2, ParsesConcat
<1>6. Parses(a, (s \o u) \o <<c>>, ArgvPut(Held(words, word, k), c))
  BY <1>1, <1>3, <1>5, ParsesConcat
<1> QED
  BY <1>6 DEF u, Put

\* How a text is put together from three does not matter.
LEMMA Grouped ==
  ASSUME NEW S, NEW x \in Seq(S), NEW y \in Seq(S), NEW z \in Seq(S)
  PROVE  (x \o y) \o z = x \o (y \o z) /\ x \o y \in Seq(S) /\ Len(x \o y) = Len(x) + Len(y)
<1>1. (x \o y) \o z = x \o (y \o z)
  BY ConcatAssociative
<1> QED
  BY <1>1

\* The same of words.
LEMMA GroupedWords ==
  ASSUME NEW x \in Word, NEW y \in Word, NEW z \in Word
  PROVE  (x \o y) \o z = x \o (y \o z) /\ x \o y \in Word
BY Grouped DEF Word

\* A word, followed by a run and then by one character more.
LEMMA WordGrows ==
  ASSUME NEW value \in Word, NEW i \in 1..Len(value), NEW v \in Word, NEW r \in Nat,
         v \o Times(r, "bs") = SubSeq(value, 1, i - 1)
  PROVE  /\ Append(v \o Times(r, "bs"), value[i]) = SubSeq(value, 1, i)
         /\ Append(v \o Times(r, "bs"), value[i]) \in Word
         /\ value[i] = "bs" => v \o Times(r + 1, "bs") = SubSeq(value, 1, i)
<1> DEFINE x == SubSeq(value, 1, i - 1)
<1>0. value \in Seq(Char) /\ v \in Seq(Char) /\ "bs" \in Char /\ value[i] \in Char
  BY DEF Word, Char
<1>1. x \in Seq(Char) /\ SubSeq(value, 1, i) \in Seq(Char)
  BY <1>0
<1>2. SubSeq(value, 1, i) = x \o <<value[i]>>
  BY <1>0, SubSeqRecursiveSecond
<1>3. Append(x, value[i]) = x \o <<value[i]>>
  BY <1>0, <1>1, AppendIsConcat
<1> HIDE DEF x
<1>4. ASSUME value[i] = "bs" PROVE v \o Times(r + 1, "bs") = SubSeq(value, 1, i)
  <2>1. Times(r, "bs") \in Seq(Char) /\ Times(r + 1, "bs") = Times(r, "bs") \o <<"bs">>
    BY <1>0, TimesIs
  <2>2. v \o (Times(r, "bs") \o <<"bs">>) = (v \o Times(r, "bs")) \o <<"bs">>
    <3> DEFINE u == Times(r, "bs")
               z == <<"bs">>
    <3>1. u \in Word /\ z \in Word
      BY <1>0, <2>1 DEF Word
    <3> HIDE DEF u, z
    <3>2. v \o (u \o z) = (v \o u) \o z
      BY <3>1, GroupedWords
    <3> QED
      BY <3>2 DEF u, z
  <2> QED
    BY <1>2, <1>4, <2>1, <2>2 DEF x
<1> QED
  BY <1>1, <1>2, <1>3, <1>4 DEF x, Word

\* What has been parsed of a quoted word, less the backslashes that wait.
QuoteRead(words, q, value, i) ==
  \E v \in Word : /\ Parses(Between(words), q.out, Held(words, v, 0))
                  /\ v \o Times(q.run, "bs") = SubSeq(value, 1, i)

\* A quoted word is read back.
LEMMA QuoteParses ==
  ASSUME NEW value \in Word, NEW words \in Seq(Word)
  PROVE  /\ QuoteWindowsArgument(value) \in Word /\ QuoteWindowsArgument(value) # <<>>
         /\ Parses(Between(words), QuoteWindowsArgument(value), Closed(words, value))
<1> DEFINE n == Len(value)
<1>1. PICK w : QuoteAfter(w, value)
  BY QuoteRun
<1>2. /\ w[0] = [out |-> <<"quote">>, run |-> 0]
      /\ \A i \in 0..n : w[i] \in QuoteState
      /\ \A i \in 1..n : w[i] = QuotePut(w[i - 1], value[i])
      /\ QuoteWindowsArgument(value) = w[n].out \o ClosingRun(w[n].run) \o <<"quote">>
  BY <1>1 DEF QuoteAfter
<1>3. n \in Nat /\ \A i \in 1..n : value[i] \in Char
  BY ElementOfSeq DEF Word
<1>4. \A i \in 0..n : w[i].out \in Word /\ w[i].run \in Nat
  BY <1>2 DEF QuoteState
<1> DEFINE A == {i \in 0..n : QuoteRead(words, w[i], value, i)}
<1>5. 0 \in A
  <2>1. Parses(Between(words), <<"quote">>, Held(words, <<>>, 0))
    <3>1. ArgvPut(Between(words), "quote") = Held(words, <<>>, 0)
      <4>1. <<>> \in Word /\ 0 \in Nat
        BY DEF Word
      <4> QED
        BY <4>1, ArgvSteps
    <3> QED
      BY <3>1, ParsesOne
  <2>2. <<>> \o Times(0, "bs") = SubSeq(value, 1, 0) /\ <<>> \in Word
    <3>1. Times(0, "bs") = <<>>
      BY TimesIs
    <3>2. SubSeq(value, 1, 0) = <<>>
      BY SubSeqEmpty
    <3>3. <<>> \o <<>> = <<>> /\ <<>> \in Word
      BY DEF Word
    <3> QED
      BY <3>1, <3>2, <3>3
  <2>3. w[0].out = <<"quote">> /\ w[0].run = 0
    BY <1>2
  <2> QED
    BY <1>3, <2>1, <2>2, <2>3 DEF QuoteRead
<1>6. ASSUME NEW i \in 1..n, i - 1 \in A
      PROVE  i \in A
  <2> DEFINE q == w[i - 1]
             r == q.run
             c == value[i]
  <2>1. PICK v \in Word : /\ Parses(Between(words), q.out, Held(words, v, 0))
                          /\ v \o Times(r, "bs") = SubSeq(value, 1, i - 1)
    BY <1>6 DEF QuoteRead
  <2>2. i - 1 \in 0..n /\ q \in QuoteState /\ q.out \in Word /\ r \in Nat /\ c \in Char
        /\ w[i] = QuotePut(q, c)
    BY <1>2, <1>3, <1>4
  <2>3. /\ Append(v \o Times(r, "bs"), c) = SubSeq(value, 1, i)
        /\ Append(v \o Times(r, "bs"), c) \in Word
        /\ c = "bs" => v \o Times(r + 1, "bs") = SubSeq(value, 1, i)
    BY <2>1, <2>2, WordGrows
  <2> DEFINE x == Append(v \o Times(r, "bs"), c)
  <2> HIDE DEF q, r, c
  <2>4. QuoteRead(words, w[i], value, i)
    <3>1. CASE c = "bs"
      <4>1. w[i].out = q.out /\ w[i].run = r + 1
        BY <2>2, <3>1, QuoteSteps DEF r
      <4> QED
        BY <2>1, <2>3, <3>1, <4>1 DEF QuoteRead
    <3>2. CASE c = "quote"
      <4>1. w[i].out = Put(q.out, 2 * r + 1, c) /\ w[i].run = 0
        BY <2>2, <3>2, QuoteSteps DEF r
      <4>2. ArgvPut(Held(words, v, 2 * r + 1), c) = Held(words, x, 0)
        BY <2>1, <2>2, <3>2, ArgvSteps
      <4>3. 2 * r + 1 \in Nat
        BY <2>2
      <4>4. Parses(Between(words), w[i].out, Held(words, x, 0))
        BY <2>1, <2>2, <4>1, <4>2, <4>3, ParsesHeld
      <4> HIDE DEF x
      <4>5. x \o Times(0, "bs") = SubSeq(value, 1, i) /\ x \in Word
        <5>1. Times(0, "bs") = <<>> /\ x \in Word /\ x = SubSeq(value, 1, i)
          BY <2>3, TimesIs DEF x
        <5>2. x \o <<>> = x
          BY <5>1, ConcatEmptySeq DEF Word
        <5> QED
          BY <5>1, <5>2
      <4> QED
        BY <4>1, <4>4, <4>5 DEF QuoteRead
    <3>3. CASE c \notin {"bs", "quote"}
      <4>1. w[i].out = Put(q.out, r, c) /\ w[i].run = 0
        BY <2>2, <3>3, QuoteSteps DEF r
      <4>2. ArgvPut(Held(words, v, r), c) = Held(words, x, 0)
        BY <2>1, <2>2, <3>3, ArgvSteps
      <4>4. Parses(Between(words), w[i].out, Held(words, x, 0))
        BY <2>1, <2>2, <4>1, <4>2, ParsesHeld
      <4> HIDE DEF x
      <4>5. x \o Times(0, "bs") = SubSeq(value, 1, i) /\ x \in Word
        <5>1. Times(0, "bs") = <<>> /\ x \in Word /\ x = SubSeq(value, 1, i)
          BY <2>3, TimesIs DEF x
        <5>2. x \o <<>> = x
          BY <5>1, ConcatEmptySeq DEF Word
        <5> QED
          BY <5>1, <5>2
      <4> QED
        BY <4>1, <4>4, <4>5 DEF QuoteRead
    <3> QED
      BY <3>1, <3>2, <3>3
  <2> QED
    BY <2>4
<1>7. QuoteRead(words, w[n], value, n)
  <2> HIDE DEF A
  <2>1. \A i \in 0..n : i \in A
    BY <1>3, <1>5, <1>6, UpTo
  <2> QED
    BY <1>3, <2>1 DEF A
<1> DEFINE q == w[n]
           r == q.run
           text == Put(q.out, 2 * r, "quote")
<1>8. PICK v \in Word : /\ Parses(Between(words), q.out, Held(words, v, 0))
                        /\ v \o Times(r, "bs") = SubSeq(value, 1, n)
  BY <1>7 DEF QuoteRead
<1>9. v \o Times(r, "bs") = value
  BY <1>8, SubSeqFull DEF Word
<1>10. QuoteWindowsArgument(value) = text
  BY <1>2 DEF ClosingRun, Put
<1>11. q.out \in Word /\ r \in Nat /\ 2 * r \in Nat /\ "quote" \in Char
  BY <1>3, <1>4 DEF Char
<1> HIDE DEF q, r, n
<1>12. ArgvPut(Held(words, v, 2 * r), "quote") = Closed(words, value)
  BY <1>9, <1>11, ArgvSteps
<1>13. Parses(Between(words), text, Closed(words, value))
  BY <1>8, <1>11, <1>12, ParsesHeld
<1>14. text \in Word /\ text # <<>>
  BY <1>11, PutIs
<1> QED
  BY <1>10, <1>13, <1>14

\* The line after each argument.
JoinAfter(w, words) ==
  /\ w[0] = <<>> /\ RenderWindowsArguments(words) = w[Len(words)]
  /\ \A i \in 0..Len(words) : w[i] \in Word
  /\ \A i \in 1..Len(words) : w[i] = JoinPut(w[i - 1], words[i])

\* What an argument adds to the line.
LEMMA JoinSteps ==
  ASSUME NEW text \in Word, NEW argument \in Word
  PROVE  /\ JoinPut(text, argument) \in Word
         /\ text = <<>> => JoinPut(text, argument) = QuoteWindowsArgument(argument)
         /\ text # <<>> =>
              JoinPut(text, argument) = (text \o <<"space">>) \o QuoteWindowsArgument(argument)
         /\ JoinPut(text, argument) # <<>>
         /\ <<"space">> \in Word /\ text \o <<"space">> \in Word
<1> DEFINE q == QuoteWindowsArgument(argument)
           sp == <<"space">>
<1>1. q \in Seq(Char) /\ q # <<>> /\ text \in Seq(Char)
  <2>1. <<>> \in Seq(Word)
    OBVIOUS
  <2> QED
    BY <2>1, QuoteParses DEF Word
<1>2. sp \in Seq(Char) /\ Append(text, "space") = text \o sp
  <2>1. "space" \in Char
    BY DEF Char
  <2> QED
    BY <1>1, <2>1, AppendIsConcat
<1>3. JoinPut(text, argument) = (IF text = <<>> THEN text ELSE text \o sp) \o q
  <2> HIDE DEF q, sp
  <2> QED
    BY <1>2 DEF JoinPut, q
<1> HIDE DEF q, sp
<1>4. text \o sp \in Seq(Char) /\ (text \o sp) \o q \in Seq(Char)
      /\ Len((text \o sp) \o q) = Len(text) + Len(sp) + Len(q)
  BY <1>1, <1>2
<1>5. <<>> \o q = q
  BY <1>1, ConcatEmptySeq
<1>6. Len(q) > 0 /\ Len(text) \in Nat /\ Len(sp) \in Nat
  BY <1>1, <1>2
<1>7. (text \o sp) \o q # <<>>
  BY <1>4, <1>6
<1>8. CASE text = <<>>
  BY <1>1, <1>2, <1>3, <1>4, <1>5, <1>8 DEF q, sp, Word
<1>9. CASE text # <<>>
  BY <1>1, <1>2, <1>3, <1>4, <1>7, <1>9 DEF q, sp, Word
<1> QED
  BY <1>8, <1>9

\* There are such.
LEMMA JoinRun ==
  ASSUME NEW words \in Seq(Word)
  PROVE  \E w : JoinAfter(w, words)
<1> DEFINE n == Len(words)
           P(f, i) == JoinPut(f, words[i])
           step == [i \in 1..n |-> [f \in Word |-> P(f, i)]]
           Def(w) == w = [i \in 0..n |-> IF i = 0 THEN <<>> ELSE P(w[i - 1], i)]
           W == CHOOSE v : Def(v)
<1>1. RenderWindowsArguments(words) = W[n]
  BY DEF RenderWindowsArguments, Scan
<1>2. <<>> \in Word
  BY DEF Word
<1>3. n \in Nat /\ \A i \in 1..n : \A f \in Word : P(f, i) \in Word
  <2>1. n \in Nat /\ \A i \in 1..n : words[i] \in Word
    BY ElementOfSeq
  <2> QED
    BY <2>1, JoinSteps
<1>4. \A i \in 0..n : i = 0 \/ i \in 1..n
  BY <1>3
<1> HIDE DEF P, n
<1>5. PICK w : Run(w, Word, <<>>, step, n)
  <2>1. step \in [1..n -> [Word -> Word]]
    BY <1>3
  <2> QED
    BY <1>2, <1>3, <2>1, Trajectory
<1>6. Def(w)
  <2>1. w \in [0..n -> Word] /\ w[0] = <<>> /\ \A i \in 1..n : w[i] = step[i][w[i - 1]]
    BY <1>5 DEF Run
  <2>2. \A i \in 1..n : w[i - 1] \in Word
    BY <1>3, <2>1
  <2> QED
    BY <1>4, <2>1, <2>2
<1>7. Def(W)
  BY <1>6
<1> HIDE DEF W
<1>8. W[0] = <<>> /\ \A i \in 1..n : W[i] = P(W[i - 1], i)
  BY <1>3, <1>7
<1>9. \A i \in 0..n : W[i] \in Word
  BY <1>2, <1>3, <1>8, Stays
<1>10. JoinAfter(W, words)
  BY <1>1, <1>8, <1>9 DEF P, n, JoinAfter
<1> QED
  BY <1>10

\* A Windows program gets the arguments that the line was made of.
LEMMA LineParses ==
  ASSUME NEW words \in Seq(Word), words # <<>>
  PROVE  /\ RenderWindowsArguments(words) \in Word
         /\ CommandLineToArgv(RenderWindowsArguments(words)) = words
<1> DEFINE n == Len(words)
           Before(i) == SubSeq(words, 1, i - 1)
           Read(text, i) == text # <<>> /\ Parses(Between(<<>>), text, Closed(Before(i), words[i]))
<1>1. PICK w : JoinAfter(w, words)
  BY JoinRun
<1>2. /\ w[0] = <<>> /\ RenderWindowsArguments(words) = w[n]
      /\ \A i \in 0..n : w[i] \in Word
      /\ \A i \in 1..n : w[i] = JoinPut(w[i - 1], words[i])
  BY <1>1 DEF JoinAfter
<1>3. n \in Nat /\ n >= 1 /\ \A i \in 1..n : words[i] \in Word
  BY ElementOfSeq
<1>4. /\ Before(1) = <<>>
      /\ \A i \in 1..n : Before(i) \in Seq(Word)
      /\ \A i \in 2..n : Append(Before(i - 1), words[i - 1]) = Before(i)
      /\ Append(Before(n), words[n]) = words
  <2>1. Before(1) = <<>>
    BY SubSeqEmpty
  <2>2. ASSUME NEW i \in 1..n PROVE Before(i) \in Seq(Word)
    BY <1>3
  <2>3. ASSUME NEW i \in 1..n PROVE Append(Before(i), words[i]) = SubSeq(words, 1, i)
    <3>1. SubSeq(words, 1, i) = SubSeq(words, 1, i - 1) \o <<words[i]>>
      BY <1>3, SubSeqRecursiveSecond
    <3> HIDE DEF Before
    <3>2. Append(Before(i), words[i]) = Before(i) \o <<words[i]>>
      BY <1>3, <2>2, AppendIsConcat
    <3> QED
      BY <3>1, <3>2 DEF Before
  <2>4. ASSUME NEW i \in 2..n PROVE Append(Before(i - 1), words[i - 1]) = Before(i)
    <3>1. i - 1 \in 1..n
      BY <1>3
    <3> QED
      BY <2>3, <3>1
  <2>5. Append(Before(n), words[n]) = words
    <3>1. n \in 1..n /\ SubSeq(words, 1, n) = words
      BY <1>3, SubSeqFull
    <3> QED
      BY <2>3, <3>1
  <2> HIDE DEF Before, n
  <2> QED
    BY <2>1, <2>2, <2>4, <2>5
<1> HIDE DEF Before, n
<1> DEFINE A == {i \in 0..n : i = 0 \/ Read(w[i], i)}
<1>5. ASSUME NEW i \in 1..n, i - 1 \in A
      PROVE  i \in A
  <2> DEFINE text == w[i - 1]
             word == words[i]
             q == QuoteWindowsArgument(word)
  <2>1. i - 1 \in 0..n /\ i \in 0..n /\ text \in Word /\ word \in Word /\ w[i] = JoinPut(text, word)
    BY <1>2, <1>3
  <2>2. Before(i) \in Seq(Word)
    BY <1>4
  <2>3. q \in Word /\ Parses(Between(Before(i)), q, Closed(Before(i), word))
    BY <2>1, <2>2, QuoteParses
  <2> HIDE DEF word, q, text
  <2>4. JoinPut(text, word) # <<>> /\ <<"space">> \in Word /\ text \o <<"space">> \in Word
    BY <2>1, JoinSteps
  <2>5. Parses(Between(<<>>), JoinPut(text, word), Closed(Before(i), word))
    <3>1. CASE i = 1
      <4>1. text = <<>>
        BY <1>2, <3>1 DEF text
      <4>2. JoinPut(text, word) = q
        BY <2>1, <4>1, JoinSteps DEF q
      <4> QED
        BY <1>4, <2>3, <3>1, <4>2
    <3>2. CASE i # 1
      <4>1. i - 1 # 0 /\ i - 1 \in 1..n /\ i \in 2..n
        BY <1>3, <3>2
      <4>2. Read(text, i - 1)
        BY <1>5, <4>1 DEF text
      <4>3. JoinPut(text, word) = (text \o <<"space">>) \o q
        BY <2>1, <4>2, JoinSteps DEF q
      <4> DEFINE before == Before(i - 1)
                 last == words[i - 1]
                 sp == <<"space">>
      <4>4. before \in Seq(Word) /\ last \in Word /\ Append(before, last) = Before(i)
        BY <1>3, <1>4, <4>1
      <4> HIDE DEF before, last
      <4>5. ArgvPut(Closed(before, last), "space") = Between(Before(i))
        <5>1. 0 \in Nat
          OBVIOUS
        <5> QED
          BY <4>4, <5>1, ArgvSteps
      <4>6. Parses(Closed(before, last), sp, Between(Before(i)))
        BY <4>5, ParsesOne
      <4>7. Parses(Between(<<>>), text, Closed(before, last))
        BY <4>2 DEF before, last
      <4> HIDE DEF sp
      <4>8. Parses(Between(<<>>), text \o sp, Between(Before(i)))
        BY <2>1, <2>4, <4>6, <4>7, ParsesConcat DEF sp
      <4>9. Parses(Between(<<>>), (text \o sp) \o q, Closed(Before(i), word))
        BY <2>3, <2>4, <4>8, ParsesConcat DEF sp
      <4> QED
        BY <4>3, <4>9 DEF sp
    <3> QED
      BY <3>1, <3>2
  <2>6. Read(w[i], i)
    BY <2>1, <2>4, <2>5 DEF word
  <2> QED
    BY <2>1, <2>6
<1>6. Read(w[n], n)
  <2>1. 0 \in A
    BY <1>3
  <2> HIDE DEF A
  <2>2. \A i \in 0..n : i \in A
    BY <1>3, <1>5, <2>1, UpTo
  <2>3. n \in A
    BY <1>3, <2>2
  <2> QED
    BY <1>3, <2>3 DEF A
<1> DEFINE line == RenderWindowsArguments(words)
           word == words[n]
<1>7. line \in Word /\ word \in Word /\ line = w[n]
  BY <1>2, <1>3
<1> HIDE DEF line
<1>8. Scan(ArgvPut, ArgvStart, line) = Closed(Before(n), word)
  <2>1. ArgvStart = Between(<<>>)
    BY DEF ArgvStart, Between
  <2>2. Parses(Between(<<>>), line, Closed(Before(n), word))
    BY <1>6, <1>7
  <2> QED
    BY <1>7, <2>1, <2>2, ParsesScan
<1> HIDE DEF word
<1>9. word \o Times(0, "bs") = word
  <2>1. Times(0, "bs") = <<>>
    BY TimesIs
  <2> QED
    BY <1>7, <2>1, ConcatEmptySeq DEF Word
<1>10. CommandLineToArgv(line) = Append(Before(n), word)
  BY <1>8, <1>9 DEF CommandLineToArgv, Closed, Plain
<1> QED
  BY <1>4, <1>7, <1>10 DEF line, word

\* x64dbg goes from a to b over s.
X64dbgRun(w, a, s) == w[0] = a /\ \A i \in 1..Len(s) : w[i] = X64dbgPut(w[i - 1], s[i])
Reads(a, s, b) == \E w : X64dbgRun(w, a, s) /\ w[Len(s)] = b

\* One text after another, read by x64dbg.
LEMMA ReadsConcat ==
  ASSUME NEW s \in Word, NEW t \in Word, NEW a, NEW b, NEW c, Reads(a, s, b), Reads(b, t, c)
  PROVE  Reads(a, s \o t, c)
<1> DEFINE m == Len(s)
           n == Len(t)
           st == s \o t
<1>1. PICK w : X64dbgRun(w, a, s) /\ w[m] = b
  BY DEF Reads
<1>2. PICK u : X64dbgRun(u, b, t) /\ u[n] = c
  BY DEF Reads
<1>3. /\ m \in Nat /\ n \in Nat /\ Len(st) = m + n
      /\ \A i \in 1..m : st[i] = s[i]
      /\ \A i \in (m + 1)..(m + n) : st[i] = t[i - m]
  OBVIOUS
<1> HIDE DEF st, m, n
<1> DEFINE v == [i \in 0..m + n |-> IF i =< m THEN w[i] ELSE u[i - m]]
<1>4. /\ \A i \in 0..m : v[i] = w[i]
      /\ \A i \in m..(m + n) : v[i] = u[i - m]
  <2>1. u[0] = w[m]
    BY <1>1, <1>2 DEF X64dbgRun
  <2> QED
    BY <1>3, <2>1
<1> HIDE DEF v
<1>5. ASSUME NEW i \in 1..(m + n) PROVE v[i] = X64dbgPut(v[i - 1], st[i])
  <2>1. CASE i =< m
    <3>1. i \in 1..m /\ i \in 0..m /\ i - 1 \in 0..m
      BY <1>3, <2>1
    <3>2. w[i] = X64dbgPut(w[i - 1], s[i])
      BY <1>1, <3>1 DEF X64dbgRun, m
    <3> QED
      BY <1>3, <1>4, <3>1, <3>2
  <2>2. CASE m < i
    <3>1. /\ i - m \in 1..n /\ i \in m..(m + n) /\ i - 1 \in m..(m + n)
          /\ i \in (m + 1)..(m + n) /\ (i - 1) - m = (i - m) - 1
      BY <1>3, <2>2
    <3>2. u[i - m] = X64dbgPut(u[(i - m) - 1], t[i - m])
      BY <1>2, <3>1 DEF X64dbgRun, n
    <3> QED
      BY <1>3, <1>4, <3>1, <3>2
  <2> QED
    BY <1>3, <2>1, <2>2
<1>6. v[0] = a /\ v[m + n] = c
  <2>1. 0 \in 0..m /\ m + n \in m..(m + n) /\ (m + n) - m = n
    BY <1>3
  <2> QED
    BY <1>1, <1>2, <1>4, <2>1 DEF X64dbgRun
<1>7. X64dbgRun(v, a, st) /\ v[Len(st)] = c
  BY <1>3, <1>5, <1>6 DEF X64dbgRun
<1> QED
  BY <1>7 DEF Reads, st

\* One character, read by x64dbg.
LEMMA ReadsOne ==
  ASSUME NEW a, NEW c
  PROVE  Reads(a, <<c>>, X64dbgPut(a, c))
<1> DEFINE w == [i \in 0..1 |-> IF i = 0 THEN a ELSE X64dbgPut(a, c)]
<1>1. w[0] = a /\ w[1] = X64dbgPut(a, c) /\ Len(<<c>>) = 1 /\ <<c>>[1] = c
  OBVIOUS
<1> HIDE DEF w
<1>2. X64dbgRun(w, a, <<c>>) /\ w[Len(<<c>>)] = X64dbgPut(a, c)
  BY <1>1 DEF X64dbgRun
<1> QED
  BY <1>2 DEF Reads

\* The reading that comes to b is the scan of the text.
LEMMA ReadsScan ==
  ASSUME NEW s \in Word, NEW a, NEW b, Reads(a, s, b)
  PROVE  Scan(X64dbgPut, a, s) = b
<1> DEFINE n == Len(s)
           P(x, i) == X64dbgPut(x, s[i])
           Def(w) == w = [i \in 0..n |-> IF i = 0 THEN a ELSE P(w[i - 1], i)]
           W == CHOOSE v : Def(v)
<1>1. Scan(X64dbgPut, a, s) = W[n]
  BY DEF Scan
<1>2. PICK w : X64dbgRun(w, a, s) /\ w[n] = b
  BY DEF Reads
<1>3. n \in Nat /\ w[0] = a /\ \A i \in 1..n : w[i] = P(w[i - 1], i)
  BY <1>2 DEF X64dbgRun
<1>4. \A i \in 0..n : i = 0 \/ i \in 1..n
  BY <1>3
<1> HIDE DEF P, n
<1>5. Def([i \in 0..n |-> w[i]])
  BY <1>3, <1>4
<1>6. Def(W)
  BY <1>5
<1> HIDE DEF W
<1>7. W[0] = a /\ \A i \in 1..n : W[i] = P(W[i - 1], i)
  BY <1>3, <1>6
<1> DEFINE A == {i \in 0..n : W[i] = w[i]}
<1>8. 0 \in A /\ \A i \in 1..n : i - 1 \in A => i \in A
  BY <1>3, <1>7
<1>9. \A i \in 0..n : i \in A
  <2> HIDE DEF A
  <2> QED
    BY <1>3, <1>8, UpTo
<1>10. W[n] = w[n]
  BY <1>3, <1>9
<1> QED
  BY <1>1, <1>2, <1>10

\* What escaping a character adds to the text.
LEMMA EscapeSteps ==
  ASSUME NEW out \in Word, NEW c \in Char
  PROVE  /\ EscapePut(out, c) \in Word
         /\ c \in {"bs", "quote"} => EscapePut(out, c) = (out \o <<"bs">>) \o <<c>>
         /\ c \notin {"bs", "quote"} => EscapePut(out, c) = out \o <<c>>
         /\ <<"bs">> \in Word /\ <<c>> \in Word /\ out \o <<"bs">> \in Word
<1> DEFINE bs == <<"bs">>
           z == <<c>>
<1>1. bs \in Word /\ z \in Word
  BY DEF Word, Char
<1>2. <<"bs", c>> = bs \o z
  OBVIOUS
<1>3. /\ c \in {"bs", "quote"} => EscapePut(out, c) = out \o (bs \o z)
      /\ c \notin {"bs", "quote"} => EscapePut(out, c) = out \o z
  BY <1>2 DEF EscapePut
<1> HIDE DEF bs, z
<1>4. out \o (bs \o z) = (out \o bs) \o z /\ out \o bs \in Word /\ out \o z \in Word
      /\ (out \o bs) \o z \in Word
  BY <1>1, GroupedWords
<1>5. EscapePut(out, c) \in Word
  BY <1>3, <1>4
<1> QED
  BY <1>1, <1>3, <1>4, <1>5 DEF bs, z

\* The escaped text after each character.
EscapeAfter(w, value) ==
  /\ w[0] = <<>> /\ EscapeX64dbgCommandArgument(value) = w[Len(value)]
  /\ \A i \in 0..Len(value) : w[i] \in Word
  /\ \A i \in 1..Len(value) : w[i] = EscapePut(w[i - 1], value[i])

\* There are such.
LEMMA EscapeRun ==
  ASSUME NEW value \in Word
  PROVE  \E w : EscapeAfter(w, value)
<1> DEFINE n == Len(value)
           P(f, i) == EscapePut(f, value[i])
           step == [i \in 1..n |-> [f \in Word |-> P(f, i)]]
           Def(w) == w = [i \in 0..n |-> IF i = 0 THEN <<>> ELSE P(w[i - 1], i)]
           W == CHOOSE v : Def(v)
<1>1. EscapeX64dbgCommandArgument(value) = W[n]
  BY DEF EscapeX64dbgCommandArgument, Scan
<1>2. <<>> \in Word
  BY DEF Word
<1>3. n \in Nat /\ \A i \in 1..n : \A f \in Word : P(f, i) \in Word
  <2>1. n \in Nat /\ \A i \in 1..n : value[i] \in Char
    BY ElementOfSeq DEF Word
  <2> QED
    BY <2>1, EscapeSteps
<1>4. \A i \in 0..n : i = 0 \/ i \in 1..n
  BY <1>3
<1> HIDE DEF P, n
<1>5. PICK w : Run(w, Word, <<>>, step, n)
  <2>1. step \in [1..n -> [Word -> Word]]
    BY <1>3
  <2> QED
    BY <1>2, <1>3, <2>1, Trajectory
<1>6. Def(w)
  <2>1. w \in [0..n -> Word] /\ w[0] = <<>> /\ \A i \in 1..n : w[i] = step[i][w[i - 1]]
    BY <1>5 DEF Run
  <2>2. \A i \in 1..n : w[i - 1] \in Word
    BY <1>3, <2>1
  <2> QED
    BY <1>4, <2>1, <2>2
<1>7. Def(W)
  BY <1>6
<1> HIDE DEF W
<1>8. W[0] = <<>> /\ \A i \in 1..n : W[i] = P(W[i - 1], i)
  BY <1>3, <1>7
<1>9. \A i \in 0..n : W[i] \in Word
  BY <1>2, <1>3, <1>8, Stays
<1>10. EscapeAfter(W, value)
  BY <1>1, <1>8, <1>9 DEF P, n, EscapeAfter
<1> QED
  BY <1>10

\* x64dbg has taken in this much of an argument.
Taken(out) == [out |-> out, escaped |-> FALSE, done |-> FALSE]

\* What x64dbg makes of an escaped character, and of the closing quote.
LEMMA TakenSteps ==
  ASSUME NEW out \in Word, NEW c \in Char
  PROVE  /\ X64dbgPut(X64dbgPut(Taken(out), "bs"), c) = Taken(Append(out, c))
         /\ c \notin {"bs", "quote"} => X64dbgPut(Taken(out), c) = Taken(Append(out, c))
         /\ X64dbgPut(X64dbgPut(Taken(out), "quote"), c).out = out
BY DEF X64dbgPut, Taken, Char

\* x64dbg takes an escaped text, up to the closing quote, for the text.
LEMMA EscapeReads ==
  ASSUME NEW value \in Word
  PROVE  X64dbgArgument(EscapeX64dbgCommandArgument(value) \o <<"quote", "a">>) = value
<1> DEFINE n == Len(value)
           Upto(i) == SubSeq(value, 1, i)
<1>1. PICK w : EscapeAfter(w, value)
  BY EscapeRun
<1>2. /\ w[0] = <<>> /\ EscapeX64dbgCommandArgument(value) = w[n]
      /\ \A i \in 0..n : w[i] \in Word
      /\ \A i \in 1..n : w[i] = EscapePut(w[i - 1], value[i])
  BY <1>1 DEF EscapeAfter
<1>3. n \in Nat /\ \A i \in 1..n : value[i] \in Char
  BY ElementOfSeq DEF Word
<1>4. /\ Upto(0) = <<>> /\ Upto(n) = value
      /\ \A i \in 1..n : Upto(i - 1) \in Word /\ Append(Upto(i - 1), value[i]) = Upto(i)
  <2>1. Upto(0) = <<>> /\ Upto(n) = value
    BY SubSeqEmpty, SubSeqFull DEF Word
  <2>2. ASSUME NEW i \in 1..n
        PROVE  Upto(i - 1) \in Word /\ Append(Upto(i - 1), value[i]) = Upto(i)
    <3>1. SubSeq(value, 1, i) = SubSeq(value, 1, i - 1) \o <<value[i]>>
      BY <1>3, SubSeqRecursiveSecond DEF Word
    <3>2. Upto(i - 1) \in Seq(Char)
      BY <1>3 DEF Word
    <3> HIDE DEF Upto
    <3>3. Append(Upto(i - 1), value[i]) = Upto(i - 1) \o <<value[i]>>
      BY <1>3, <3>2, AppendIsConcat
    <3> QED
      BY <3>1, <3>2, <3>3 DEF Upto, Word
  <2> HIDE DEF Upto, n
  <2> QED
    BY <2>1, <2>2
<1> HIDE DEF Upto, n
<1> DEFINE A == {i \in 0..n : Reads(X64dbgStart, w[i], Taken(Upto(i)))}
<1>5. 0 \in A
  <2>1. X64dbgStart = Taken(Upto(0))
    BY <1>4 DEF X64dbgStart, Taken
  <2> DEFINE e == <<>>
             v == [i \in 0..0 |-> X64dbgStart]
  <2>2. Len(e) = 0 /\ v[0] = X64dbgStart
    OBVIOUS
  <2> HIDE DEF v, e
  <2>3. X64dbgRun(v, X64dbgStart, e) /\ v[Len(e)] = Taken(Upto(0))
    BY <2>1, <2>2 DEF X64dbgRun
  <2> QED
    BY <1>2, <1>3, <2>3 DEF Reads, e
<1>6. ASSUME NEW i \in 1..n, i - 1 \in A
      PROVE  i \in A
  <2> DEFINE text == w[i - 1]
             c == value[i]
             out == Upto(i - 1)
             bs == <<"bs">>
             z == <<c>>
  <2>1. /\ i \in 0..n /\ text \in Word /\ c \in Char /\ out \in Word
        /\ w[i] = EscapePut(text, c) /\ Append(out, c) = Upto(i)
    <3>1. i \in 0..n /\ i - 1 \in 0..n
      BY <1>3
    <3>2. text \in Word /\ w[i] = EscapePut(text, c)
      BY <1>2, <3>1
    <3>3. c \in Char
      BY <1>3
    <3>4. out \in Word /\ Append(out, c) = Upto(i)
      BY <1>4
    <3> QED
      BY <3>1, <3>2, <3>3, <3>4
  <2>2. Reads(X64dbgStart, text, Taken(out))
    BY <1>6
  <2> HIDE DEF text, c, out
  <2>3. Reads(X64dbgStart, EscapePut(text, c), Taken(Upto(i)))
    <3>1. CASE c \in {"bs", "quote"}
      <4> DEFINE mid == X64dbgPut(Taken(out), "bs")
      <4>1. EscapePut(text, c) = (text \o bs) \o z /\ bs \in Word /\ z \in Word
            /\ text \o bs \in Word
        BY <2>1, <3>1, EscapeSteps
      <4>2. Reads(Taken(out), bs, mid)
        BY ReadsOne
      <4>3. X64dbgPut(mid, c) = Taken(Upto(i))
        BY <2>1, TakenSteps
      <4>4. Reads(mid, z, Taken(Upto(i)))
        BY <4>3, ReadsOne
      <4> HIDE DEF bs, z, mid
      <4>5. Reads(X64dbgStart, text \o bs, mid)
        BY <2>1, <2>2, <4>1, <4>2, ReadsConcat
      <4>6. Reads(X64dbgStart, (text \o bs) \o z, Taken(Upto(i)))
        BY <4>1, <4>4, <4>5, ReadsConcat
      <4> QED
        BY <4>1, <4>6
    <3>2. CASE c \notin {"bs", "quote"}
      <4>1. EscapePut(text, c) = text \o z /\ z \in Word
        BY <2>1, <3>2, EscapeSteps
      <4>2. X64dbgPut(Taken(out), c) = Taken(Upto(i))
        BY <2>1, <3>2, TakenSteps
      <4>3. Reads(Taken(out), z, Taken(Upto(i)))
        BY <4>2, ReadsOne
      <4> HIDE DEF z
      <4>4. Reads(X64dbgStart, text \o z, Taken(Upto(i)))
        BY <2>1, <2>2, <4>1, <4>3, ReadsConcat
      <4> QED
        BY <4>1, <4>4
    <3> QED
      BY <3>1, <3>2
  <2> QED
    BY <2>1, <2>3
<1>7. Reads(X64dbgStart, w[n], Taken(value))
  <2> HIDE DEF A
  <2>1. \A i \in 0..n : i \in A
    BY <1>3, <1>5, <1>6, UpTo
  <2>2. n \in A
    BY <1>3, <2>1
  <2> QED
    BY <1>4, <2>2 DEF A
<1> DEFINE text == EscapeX64dbgCommandArgument(value)
           quote == <<"quote">>
           a == <<"a">>
           mid == X64dbgPut(Taken(value), "quote")
           end == X64dbgPut(mid, "a")
<1>8. text \in Word /\ Reads(X64dbgStart, text, Taken(value))
  BY <1>2, <1>3, <1>7
<1>9. quote \in Word /\ a \in Word /\ "a" \in Char
  BY DEF Word, Char
<1>10. Reads(Taken(value), quote, mid) /\ Reads(mid, a, end)
  BY ReadsOne
<1>11. end.out = value
  BY <1>9, TakenSteps
<1>12. <<"quote", "a">> = quote \o a
  OBVIOUS
<1> HIDE DEF text, quote, a, mid, end
<1>13. quote \o a \in Word /\ text \o (quote \o a) \in Word
  BY <1>8, <1>9, GroupedWords
<1>14. Reads(Taken(value), quote \o a, end)
  BY <1>9, <1>10, ReadsConcat
<1>15. Reads(X64dbgStart, text \o (quote \o a), end)
  BY <1>8, <1>13, <1>14, ReadsConcat
<1>16. Scan(X64dbgPut, X64dbgStart, text \o (quote \o a)) = end
  BY <1>13, <1>15, ReadsScan
<1> QED
  BY <1>11, <1>12, <1>16 DEF text, X64dbgArgument

\* The client's arguments are words, one at least.
LEMMA ArgumentsAre ==
  ASSUME input.text \in Seq(Char \cup {"next"})
  PROVE  Arguments \in Seq(Word) /\ Arguments # <<>>
<1> DEFINE s == input.text
           n == Len(s)
           S == {x \in Seq(Word) : x # <<>>}
           start == <<<<>>>>
           P(f, i) == CutPut(f, s[i])
           step == [i \in 1..n |-> [f \in S |-> P(f, i)]]
           Def(w) == w = [i \in 0..n |-> IF i = 0 THEN start ELSE P(w[i - 1], i)]
           W == CHOOSE v : Def(v)
<1>1. Arguments = W[n]
  BY DEF Arguments, Scan
<1>2. start \in S
  <2>1. <<>> \in Word
    BY DEF Word
  <2> QED
    BY <2>1
<1>3. n \in Nat /\ \A i \in 1..n : \A f \in S : P(f, i) \in S
  <2>1. n \in Nat /\ \A i \in 1..n : s[i] \in Char \cup {"next"}
    BY ElementOfSeq
  <2>2. ASSUME NEW f \in S, NEW c \in Char \cup {"next"} PROVE CutPut(f, c) \in S
    <3>1. f \in Seq(Word) /\ Len(f) \in Nat /\ Len(f) >= 1 /\ f[Len(f)] \in Word /\ <<>> \in Word
      BY DEF Word
    <3>2. CASE c = "next"
      BY <3>1, <3>2 DEF CutPut
    <3>3. CASE c # "next"
      <4> DEFINE x == Append(f[Len(f)], c)
      <4>1. x \in Word
        BY <3>1, <3>3 DEF Word
      <4>2. CutPut(f, c) = [f EXCEPT ![Len(f)] = x]
        BY <3>1, <3>3 DEF CutPut
      <4> HIDE DEF x
      <4>3. [f EXCEPT ![Len(f)] = x] \in Seq(Word) /\ Len([f EXCEPT ![Len(f)] = x]) = Len(f)
        BY <3>1, <4>1, ExceptSeq
      <4>4. CutPut(f, c) \in Seq(Word) /\ CutPut(f, c) # <<>>
        BY <3>1, <4>2, <4>3
      <4> QED
        BY <4>4
    <3> QED
      BY <3>2, <3>3
  <2> QED
    BY <2>1, <2>2
<1>4. \A i \in 0..n : i = 0 \/ i \in 1..n
  BY <1>3
<1>4a. \A x \in S : x \in Seq(Word) /\ x # <<>>
  OBVIOUS
<1> HIDE DEF P, n, S, start
<1>5. PICK w : Run(w, S, start, step, n)
  <2>1. step \in [1..n -> [S -> S]]
    BY <1>3
  <2> QED
    BY <1>2, <1>3, <2>1, Trajectory
<1>6. Def(w)
  <2>1. w \in [0..n -> S] /\ w[0] = start /\ \A i \in 1..n : w[i] = step[i][w[i - 1]]
    BY <1>5 DEF Run
  <2>2. \A i \in 1..n : w[i - 1] \in S
    BY <1>3, <2>1
  <2> QED
    BY <1>4, <2>1, <2>2
<1>7. Def(W)
  BY <1>6
<1> HIDE DEF W
<1>8. W[0] = start /\ \A i \in 1..n : W[i] = P(W[i - 1], i)
  BY <1>3, <1>7
<1>9. \A i \in 0..n : W[i] \in S
  BY <1>2, <1>3, <1>8, Stays
<1> QED
  BY <1>1, <1>3, <1>4a, <1>9

\* Whatever the arguments, the debuggee gets the very ones that the client
\* sent, and x64dbg takes the rendered line for one argument
\* (RenderWindowsArguments, EscapeX64dbgCommandArgument).
THEOREM ArgumentsReachTheDebuggee ==
  Spec => []ArgumentsSurvive
<1>1. PoliciesInv => ArgumentsSurvive
  <2> SUFFICES ASSUME PoliciesInv, input.kind = "arguments" PROVE ArgumentsSurvive
    BY DEF ArgumentsSurvive
  <2>1. input.text \in Seq(Char \cup {"next"})
    <3>1. Alphabet("arguments") = Char \cup {"next"}
      BY DEF Alphabet, Char
    <3> QED
      BY <3>1 DEF PoliciesInv, InputOK
  <2>2. Arguments \in Seq(Word) /\ Arguments # <<>>
    BY <2>1, ArgumentsAre
  <2> DEFINE line == RenderWindowsArguments(Arguments)
  <2>3. line \in Word /\ CommandLineToArgv(line) = Arguments
    BY <2>2, LineParses
  <2>4. X64dbgArgument(EscapeX64dbgCommandArgument(line) \o <<"quote", "a">>) = line
    <3> HIDE DEF line
    <3> QED
      BY <2>3, EscapeReads
  <2> HIDE DEF line
  <2> QED
    BY <2>3, <2>4 DEF ArgumentsSurvive, line
<1> QED
  BY <1>1, PoliciesInvariant, PTL

-----------------------------------------------------------------------------
(* scylla_hide.ini.                                                        *)

\* Some line among given ones is the first, and some the last.
LEMMA FirstLine ==
  ASSUME NEW n \in Nat, NEW S \in SUBSET (1..n), S # {}
  PROVE  Min(S) \in S
<1>1. S \in SUBSET Nat
  OBVIOUS
<1>2. \E x \in S : \A y \in S : x =< y
  BY <1>1, Least
<1> QED
  BY <1>2 DEF Min

\* So with the last.
LEMMA LastLine ==
  ASSUME NEW n \in Nat, NEW S \in SUBSET (1..n), S # {}
  PROVE  Max(S) \in S
<1> DEFINE Below(x) == n - x
           T == {Below(x) : x \in S}
<1>1. \A x \in S : x \in Int /\ Below(x) \in Nat
  OBVIOUS
<1>2. T \in SUBSET Nat /\ T # {}
  <2> HIDE DEF Below
  <2> QED
    BY <1>1
<1>3. PICK t \in T : \A u \in T : t =< u
  BY <1>2, Least
<1>4. PICK x \in S : t = Below(x)
  OBVIOUS
<1>5. \A y \in S : Below(x) =< Below(y)
  BY <1>3, <1>4
<1>6. \A y \in S : x >= y
  BY <1>1, <1>5
<1> QED
  BY <1>6 DEF Max

\* A text of n lines that has the requested profile.
Offers(text, n, requested) ==
  /\ DOMAIN text = 1..n /\ ParseScyllaHideConfig(text) # ""
  /\ requested \in Askable /\ Named(text, requested) # {}

\* A request that the parser will understand when it has been carried out.
Understood(text, requested) ==
  LET canonical == CanonicalProfile(text, requested)
  IN /\ ~EqualInsensitive(requested, "SETTINGS")
     /\ Trim[canonical] = canonical
     /\ Fits(SetScyllaHideProfile(text, requested))

\* Setting a profile that the text has makes a text that differs in one line; it
\* selects that profile, and setting it again leaves it alone.
LEMMA SetSelects ==
  ASSUME NEW n \in Nat, NEW text, NEW requested, Offers(text, n, requested)
  PROVE  LET updated == SetScyllaHideProfile(text, requested)
         IN /\ Cardinality({i \in DOMAIN text : updated[i] # text[i]}) <= 1
            /\ Understood(text, requested) =>
                 /\ EqualInsensitive(ParseScyllaHideConfig(updated), requested)
                 /\ SetScyllaHideProfile(updated, requested) = updated
<1> DEFINE new == SetScyllaHideProfile(text, requested)
<1>1. DOMAIN text = 1..n /\ requested \in Askable
  BY DEF Offers
<1>2. /\ \A i \in Catalogue(text) : text[i].name \in Listable
      /\ ~(Cardinality(Catalogue(text)) > MaxProfiles)
      /\ Fits(text)
  BY DEF Offers, ParseScyllaHideConfig
<1>3. Named(text, requested) # {} /\ Cardinality(ProfileLines(text)) = 1
  BY DEF Offers, ParseScyllaHideConfig
<1>4. PICK k : ProfileLines(text) = {k}
  <2>1. IsFiniteSet(ProfileLines(text))
    <3>1. IsFiniteSet(1..n)
      BY FS_Interval
    <3> QED
      BY <1>1, <3>1, FS_Subset DEF ProfileLines
  <2> QED
    BY <1>3, <2>1, FS_Singleton
<1>5. k \in 1..n /\ Max({k}) = k /\ text[k].kind = "current"
  <2>1. k \in ProfileLines(text)
    BY <1>4
  <2>2. k \in 1..n /\ text[k].kind = "current"
    BY <1>1, <2>1 DEF ProfileLines
  <2> QED
    BY <2>2 DEF Max
<1> DEFINE m == Max(Named(text, requested))
<1>6. m \in Named(text, requested)
  <2>1. Named(text, requested) \in SUBSET (1..n)
    BY <1>1 DEF Named, SectionLines
  <2> QED
    BY <1>3, <2>1, LastLine
<1> HIDE DEF m
<1>7. m \in 1..n /\ text[m].kind = "section" /\ Fold[text[m].name] = Fold[requested]
  BY <1>1, <1>6 DEF Named, SectionLines, EqualInsensitive
<1>8. new = [text EXCEPT ![k] = CurrentProfile(text[m].name)]
  BY <1>1, <1>2, <1>3, <1>4, <1>5 DEF SetScyllaHideProfile, CanonicalProfile, m
<1>u. Understood(text, requested) =>
        /\ ~EqualInsensitive(requested, "SETTINGS") /\ Trim[text[m].name] = text[m].name
        /\ Fits(new)
  BY DEF Understood, CanonicalProfile, m
<1> HIDE DEF new
<1>9. /\ DOMAIN new = 1..n /\ \A i \in 1..n : i # k => new[i] = text[i]
      /\ new[k].kind = "current" /\ new[k].name = text[m].name
  BY <1>1, <1>5, <1>8 DEF CurrentProfile
<1>10. SectionLines(new) = SectionLines(text) /\ \A i \in SectionLines(text) : new[i] = text[i]
  BY <1>1, <1>5, <1>9 DEF SectionLines
<1>11. \A i \in 1..n : SectionAt(new, i) = SectionAt(text, i)
  <2>1. ASSUME NEW i \in 1..n
        PROVE  SectionAt(new, i) = SectionAt(text, i)
    <3> DEFINE above == {j \in SectionLines(text) : j < i}
    <3>1. above \in SUBSET (1..n) /\ above \subseteq SectionLines(text)
      BY <1>1 DEF SectionLines
    <3>2. above # {} => new[Max(above)] = text[Max(above)]
      BY <1>10, <3>1, LastLine
    <3> QED
      BY <1>10, <3>2 DEF SectionAt
  <2> QED
    BY <2>1
<1>12. ProfileLines(new) = {k}
  <2>1. ProfileLines(new) = ProfileLines(text)
    <3>1. \A i \in 1..n : new[i].kind = text[i].kind
      BY <1>5, <1>9
    <3> QED
      BY <1>1, <1>9, <1>11, <3>1 DEF ProfileLines
  <2> QED
    BY <1>4, <2>1
<1>13. Cardinality(ProfileLines(new)) = 1 /\ Max(ProfileLines(new)) = k
  BY <1>5, <1>12, FS_Singleton
<1>14. Catalogue(new) = Catalogue(text) /\ \A i \in Catalogue(new) : new[i].name \in Listable
  BY <1>2, <1>10 DEF Catalogue
<1>15. Understood(text, requested) =>
         m \in Selected(new) /\ Assigned(new) = text[m].name /\ text[m].name # ""
  <2> SUFFICES ASSUME Understood(text, requested)
               PROVE  m \in Selected(new) /\ Assigned(new) = text[m].name /\ text[m].name # ""
    OBVIOUS
  <2>1. m \in SectionLines(new) /\ new[m].name = text[m].name
    BY <1>1, <1>7, <1>10 DEF SectionLines
  <2>2. m \in Catalogue(new)
    BY <1>u, <1>7, <2>1 DEF EqualInsensitive, Catalogue
  <2>3. Assigned(new) = text[m].name
    BY <1>u, <1>9, <1>13 DEF Assigned
  <2>4. text[m].name # ""
    BY <1>14, <2>1, <2>2, ConfigAssumption
  <2> QED
    BY <2>1, <2>2, <2>3, <2>4 DEF Selected, EqualInsensitive
<1>16. Selected(new) # {} => Min(Selected(new)) \in Selected(new)
  <2>1. Selected(new) \in SUBSET (1..n)
    BY <1>9 DEF SectionLines, Catalogue, Selected
  <2> QED
    BY <2>1, FirstLine
<1>17. Understood(text, requested) => EqualInsensitive(ParseScyllaHideConfig(new), requested)
  <2> SUFFICES ASSUME Understood(text, requested)
               PROVE  EqualInsensitive(ParseScyllaHideConfig(new), requested)
    OBVIOUS
  <2>1. /\ ~(\E i \in Catalogue(new) : new[i].name \notin Listable)
        /\ ~(Cardinality(Catalogue(new)) > MaxProfiles)
    BY <1>2, <1>14
  <2>2. ParseScyllaHideConfig(new) = new[Min(Selected(new))].name
    BY <1>u, <1>13, <1>15, <2>1 DEF ParseScyllaHideConfig
  <2>3. EqualInsensitive(new[Min(Selected(new))].name, text[m].name)
    BY <1>15, <1>16 DEF Selected
  <2> QED
    BY <1>7, <2>2, <2>3 DEF EqualInsensitive
<1>18. Fits(new) => SetScyllaHideProfile(new, requested) = new
  <2> SUFFICES ASSUME Fits(new) PROVE SetScyllaHideProfile(new, requested) = new
    OBVIOUS
  <2>1. Named(new, requested) = Named(text, requested)
    BY <1>10 DEF Named
  <2>2. CanonicalProfile(new, requested) = text[m].name
    <3>1. m # k
      BY <1>5, <1>7
    <3> QED
      BY <1>7, <1>9, <2>1, <3>1 DEF CanonicalProfile, m
  <2>3. SetScyllaHideProfile(new, requested) = [new EXCEPT ![k] = CurrentProfile(text[m].name)]
    BY <1>1, <1>3, <1>12, <1>13, <2>1, <2>2 DEF SetScyllaHideProfile
  <2>4. [new EXCEPT ![k] = CurrentProfile(text[m].name)] = new
    <3> DEFINE line == CurrentProfile(text[m].name)
    <3> HIDE DEF line
    <3>1. new = [text EXCEPT ![k] = line]
      BY <1>8 DEF line
    <3>2. [new EXCEPT ![k] = line] = new
      BY <1>1, <1>5, <3>1
    <3> QED
      BY <3>2 DEF line
  <2> QED
    BY <2>3, <2>4
<1>19. Cardinality({i \in DOMAIN text : new[i] # text[i]}) <= 1
  <2> DEFINE C == {i \in DOMAIN text : new[i] # text[i]}
  <2>1. C = {} \/ C = {k}
    BY <1>1, <1>9
  <2> HIDE DEF C
  <2>2. Cardinality({}) = 0 /\ Cardinality({k}) = 1
    BY FS_EmptySet, FS_Singleton
  <2> QED
    BY <2>1, <2>2 DEF C
<1> QED
  BY <1>u, <1>17, <1>18, <1>19 DEF new

\* An input is a sequence.
LEMMA TextIsASequence ==
  ASSUME PoliciesInv
  PROVE  Len(input.text) \in Nat /\ DOMAIN input.text = 1..Len(input.text)
BY DEF PoliciesInv, InputOK

\* Whatever the text, its names and its bounds: setting a profile takes effect,
\* once, in one line, unless it is one of the requests that the property names
\* (SetScyllaHideProfile, ParseScyllaHideConfig).
THEOREM ProfileTakesEffect ==
  Spec => []SetProfileTakesEffect
<1>1. PoliciesInv => SetProfileTakesEffect
  <2> SUFFICES ASSUME PoliciesInv, input.kind = "ini", ParseScyllaHideConfig(input.text) # "",
                      NEW requested \in Askable, Named(input.text, requested) # {}
               PROVE  LET updated == SetScyllaHideProfile(input.text, requested)
                      IN /\ Cardinality({i \in DOMAIN input.text :
                                           updated[i] # input.text[i]}) <= 1
                         /\ Understood(input.text, requested) =>
                              /\ EqualInsensitive(ParseScyllaHideConfig(updated), requested)
                              /\ SetScyllaHideProfile(updated, requested) = updated
    BY DEF SetProfileTakesEffect, Understood
  <2>1. Len(input.text) \in Nat /\ DOMAIN input.text = 1..Len(input.text)
    BY TextIsASequence
  <2>2. Offers(input.text, Len(input.text), requested)
    BY <2>1 DEF Offers
  <2> QED
    BY <2>1, <2>2, SetSelects
<1> QED
  BY <1>1, PoliciesInvariant, PTL

-----------------------------------------------------------------------------
(* utf8.cpp: what a sequence is.                                           *)

Octet == 0..255
Octets == Seq(Octet)

\* The length that a first byte announces; 5 for none.
Wanted(first) == IF first <= 127 THEN 1 ELSE IF first \in 194..223 THEN 2
                 ELSE IF first \in 224..239 THEN 3 ELSE IF first \in 240..244 THEN 4 ELSE 5

\* What a sequence of that length has besides.
Follows(value, i, n) ==
  /\ i + n - 1 <= Len(value)
  /\ \A k \in 1..n - 1 : IsContinuation(value[i + k])
  /\ n > 1 => SecondValid(value[i], value[i + 1])

\* The length announced is one of five.
LEMMA WantedIs ==
  ASSUME NEW b \in Octet
  PROVE  /\ Wanted(b) \in 1..5
         /\ Wanted(b) = 1 <=> b <= 127
         /\ Wanted(b) = 2 <=> b \in 194..223
         /\ Wanted(b) = 3 <=> b \in 224..239
         /\ Wanted(b) = 4 <=> b \in 240..244
BY SMT DEF Wanted, Octet

\* A sequence is as long as its first byte says, or there is none.
LEMMA LengthIs ==
  ASSUME NEW value \in Octets, NEW i \in 1..Len(value)
  PROVE  /\ ValidSequenceLength(value, i) \in 0..4
         /\ \A n \in 1..4 : ValidSequenceLength(value, i) = n
                              <=> Wanted(value[i]) = n /\ Follows(value, i, n)
<1> DEFINE n == Wanted(value[i])
<1>1. n \in 1..5
  <2>1. value[i] \in Octet
    BY SMT DEF Octets
  <2> QED
    BY <2>1, WantedIs, SMT
<1>2. ValidSequenceLength(value, i) = IF Follows(value, i, n) /\ n < 5 THEN n ELSE 0
  BY SMT DEF ValidSequenceLength, Follows, Wanted
<1> HIDE DEF n
<1> QED
  BY <1>1, <1>2, SMT DEF n

\* One byte.
LEMMA OneByte ==
  ASSUME NEW b \in Octet
  PROVE  IsEncoding(<<b>>) <=> b <= 127
<1>1. Bits(<<b>>) = b
  BY SMT DEF Bits
<1>2. Scalar(b)
  <2>1. b \in Nat /\ b <= 255
    BY SMT DEF Octet
  <2> QED
    BY <2>1, SMT DEF Scalar
<1>3. b < 128 => Encode(b) = <<b>>
  BY SMT DEF Encode
<1>4. b >= 128 => Len(Encode(b)) = 2
  <2>1. b \in Nat /\ b <= 255
    BY SMT DEF Octet
  <2>2. b >= 128 => Encode(b) = <<192 + (b \div 64), Trailing(b, 1)>>
    BY <2>1, SMT DEF Encode
  <2> QED
    BY <2>2, SMT
<1>5. Len(<<b>>) = 1 /\ b \in Nat
  BY SMT DEF Octet
<1> QED
  BY <1>1, <1>2, <1>3, <1>4, <1>5, SMT DEF IsEncoding

\* A byte that begins with 10, and the six bits that it carries.
LEMMA Continues ==
  ASSUME NEW b \in Octet
  PROVE  /\ b % 64 \in 0..63
         /\ 128 + (b % 64) = b <=> IsContinuation(b)
         /\ IsContinuation(b) => b % 64 = b - 128
<1>1. b \in Int /\ 0 <= b /\ b <= 255
  BY SMT DEF Octet
<1>2. b % 64 = IF b < 64 THEN b ELSE IF b < 128 THEN b - 64 ELSE IF b < 192 THEN b - 128 ELSE b - 192
  BY <1>1, SMT
<1> QED
  BY <1>1, <1>2, SMT DEF IsContinuation

\* Two bytes.
LEMMA TwoBytes ==
  ASSUME NEW b \in Octet, NEW c \in Octet
  PROVE  IsEncoding(<<b, c>>) <=> b \in 194..223 /\ IsContinuation(c)
<1> DEFINE x == b % 32
           y == c % 64
           code == x * 64 + y
           bytes == <<b, c>>
<1>1. x \in 0..31 /\ y \in 0..63 /\ code \in Nat /\ code < 2048
  <2>1. b \in Int /\ c \in Int /\ 0 <= b /\ 0 <= c
    BY SMT DEF Octet
  <2> QED
    BY <2>1, SMT
<1>2. Bits(bytes) = code
  BY SMT DEF Bits
<1>3. 192 + x = b <=> b \in 192..223
  <2>1. b \in Int /\ 0 <= b /\ b <= 255
    BY SMT DEF Octet
  <2> QED
    BY <2>1, SMT
<1>4. b \in 192..223 => x = b - 192
  BY <1>3, <1>1, SMT DEF Octet
<1>5. 128 + y = c <=> IsContinuation(c)
  BY Continues, SMT
<1> HIDE DEF x, y
<1>6. code \div 64 = x /\ code % 64 = y /\ (code \div 1) % 64 = y
  BY <1>1, SMT
<1>7. code < 128 <=> x < 2
  BY <1>1, SMT
<1>8. code < 128 => Encode(code) = <<code>>
  BY SMT DEF Encode
<1>9. code >= 128 => Encode(code) = <<192 + x, 128 + y>>
  <2> HIDE DEF code
  <2> QED
    BY <1>1, <1>6, SMT DEF Encode, Trailing
<1>10. Scalar(code)
  BY <1>1, SMT DEF Scalar
<1>11. IsEncoding(bytes) <=> code >= 128 /\ 192 + x = b /\ 128 + y = c
  <2> HIDE DEF code
  <2>1. Len(<<code>>) = 1 /\ Len(bytes) = 2
    BY SMT
  <2>2. code < 128 => Encode(code) # bytes
    BY <1>8, <2>1, SMT
  <2>3. code >= 128 => (Encode(code) = bytes <=> 192 + x = b /\ 128 + y = c)
    BY <1>9, SMT
  <2> QED
    BY <1>1, <1>2, <1>10, <2>2, <2>3, SMT DEF IsEncoding
<1>12. code >= 128 /\ 192 + x = b <=> b \in 194..223
  BY <1>1, <1>3, <1>4, <1>7, SMT DEF Octet
<1> HIDE DEF code
<1> QED
  BY <1>5, <1>11, <1>12, SMT

\* Three bytes.
LEMMA ThreeBytes ==
  ASSUME NEW b \in Octet, NEW c \in Octet, NEW d \in Octet
  PROVE  IsEncoding(<<b, c, d>>)
           <=> /\ b \in 224..239 /\ IsContinuation(c) /\ IsContinuation(d)
               /\ SecondValid(b, c)
<1> DEFINE x == b % 16
           y == c % 64
           z == d % 64
           code == x * 4096 + y * 64 + z
           bytes == <<b, c, d>>
<1>0. b \in Int /\ c \in Int /\ d \in Int /\ 0 <= b /\ 0 <= c /\ 0 <= d /\ b <= 255
  BY SMT DEF Octet
<1>1. x \in 0..15 /\ y \in 0..63 /\ z \in 0..63
  BY <1>0, SMT
<1>2. Bits(bytes) = code
  BY SMT DEF Bits
<1>3. (224 + x = b <=> b \in 224..239) /\ (b \in 224..239 => x = b - 224)
  BY <1>0, SMT
<1>5. /\ 128 + y = c <=> IsContinuation(c)
      /\ IsContinuation(c) => y = c - 128
      /\ 128 + z = d <=> IsContinuation(d)
  BY Continues, SMT
<1> HIDE DEF x, y, z
<1>6. /\ code \in Nat /\ code < 65536
      /\ code \div 4096 = x /\ (code \div 64) % 64 = y /\ (code \div 1) % 64 = z
  BY <1>1, SMT
<1>7. /\ code < 2048 <=> x = 0 /\ y < 32
      /\ (code < 55296 \/ code > 57343) <=> ~(x = 13 /\ y >= 32)
  BY <1>1, SMT
<1> HIDE DEF code
<1>8. /\ code < 128 => Len(Encode(code)) = 1
      /\ 128 <= code /\ code < 2048 => Len(Encode(code)) = 2
      /\ 2048 <= code /\ code < 65536 => Encode(code) = <<224 + x, 128 + y, 128 + z>>
  <2>1. code < 128 => Encode(code) = <<code>>
    BY SMT DEF Encode
  <2>2. 128 <= code /\ code < 2048 => Encode(code) = <<192 + (code \div 64), Trailing(code, 1)>>
    BY <1>6, SMT DEF Encode
  <2>3. 2048 <= code /\ code < 65536 =>
          Encode(code) = <<224 + (code \div 4096), Trailing(code, 64), Trailing(code, 1)>>
    BY <1>6, SMT DEF Encode
  <2> QED
    BY <1>6, <2>1, <2>2, <2>3, SMT DEF Trailing
<1>9. IsEncoding(bytes) <=> /\ code >= 2048 /\ (code < 55296 \/ code > 57343)
                            /\ 224 + x = b /\ 128 + y = c /\ 128 + z = d
  <2>1. Len(bytes) = 3 /\ bytes[1] = b /\ bytes[2] = c /\ bytes[3] = d
    BY SMT
  <2>2. code < 2048 => Encode(code) # bytes
    BY <1>6, <1>8, <2>1, SMT
  <2>3. code >= 2048 => (Encode(code) = bytes <=> 224 + x = b /\ 128 + y = c /\ 128 + z = d)
    BY <1>6, <1>8, SMT
  <2>4. Scalar(code) <=> (code < 55296 \/ code > 57343)
    BY <1>6, SMT DEF Scalar
  <2> QED
    BY <1>2, <1>6, <2>2, <2>3, <2>4, SMT DEF IsEncoding
<1>10. ASSUME b \in 224..239, IsContinuation(c)
       PROVE  (code >= 2048 /\ (code < 55296 \/ code > 57343)) <=> SecondValid(b, c)
  <2>1. x = b - 224 /\ y = c - 128 /\ c \in 128..191
    BY <1>3, <1>5, <1>10, SMT DEF IsContinuation
  <2>2. SecondValid(b, c) <=> ~(x = 0 /\ y < 32) /\ ~(x = 13 /\ y >= 32)
    BY <1>0, <1>1, <1>10, <2>1, SMT DEF SecondValid
  <2>3. code >= 2048 <=> ~(code < 2048)
    BY <1>6, SMT
  <2> QED
    BY <1>7, <2>2, <2>3, SMT
<1> QED
  BY <1>3, <1>5, <1>9, <1>10, SMT

\* Four bytes.
LEMMA FourBytes ==
  ASSUME NEW b \in Octet, NEW c \in Octet, NEW d \in Octet, NEW e \in Octet
  PROVE  IsEncoding(<<b, c, d, e>>)
           <=> /\ b \in 240..244 /\ IsContinuation(c) /\ IsContinuation(d) /\ IsContinuation(e)
               /\ SecondValid(b, c)
<1> DEFINE x == b % 8
           y == c % 64
           z == d % 64
           t == e % 64
           code == x * 262144 + y * 4096 + z * 64 + t
           bytes == <<b, c, d, e>>
<1>0. b \in Int /\ c \in Int /\ d \in Int /\ e \in Int /\ 0 <= b /\ 0 <= c /\ 0 <= d /\ 0 <= e
      /\ b <= 255
  BY SMT DEF Octet
<1>1. x \in 0..7 /\ y \in 0..63 /\ z \in 0..63 /\ t \in 0..63
  BY <1>0, SMT
<1>2. Bits(bytes) = code
  BY SMT DEF Bits
<1>3. (240 + x = b <=> b \in 240..247) /\ (b \in 240..247 => x = b - 240)
  BY <1>0, SMT
<1>5. /\ 128 + y = c <=> IsContinuation(c)
      /\ IsContinuation(c) => y = c - 128
      /\ 128 + z = d <=> IsContinuation(d)
      /\ 128 + t = e <=> IsContinuation(e)
  BY Continues, SMT
<1> HIDE DEF x, y, z, t
<1>6. /\ code \in Nat
      /\ code \div 262144 = x /\ (code \div 4096) % 64 = y /\ (code \div 64) % 64 = z
      /\ (code \div 1) % 64 = t
  BY <1>1, SMT
<1>7. /\ code < 65536 <=> x = 0 /\ y < 16
      /\ code > 1114111 <=> x > 4 \/ (x = 4 /\ y >= 16)
  BY <1>1, SMT
<1> HIDE DEF code
<1>8. /\ code < 128 => Len(Encode(code)) = 1
      /\ 128 <= code /\ code < 2048 => Len(Encode(code)) = 2
      /\ 2048 <= code /\ code < 65536 => Len(Encode(code)) = 3
      /\ code >= 65536 => Encode(code) = <<240 + x, 128 + y, 128 + z, 128 + t>>
  <2>1. code < 128 => Encode(code) = <<code>>
    BY SMT DEF Encode
  <2>2. 128 <= code /\ code < 2048 => Encode(code) = <<192 + (code \div 64), Trailing(code, 1)>>
    BY <1>6, SMT DEF Encode
  <2>3. 2048 <= code /\ code < 65536 =>
          Encode(code) = <<224 + (code \div 4096), Trailing(code, 64), Trailing(code, 1)>>
    BY <1>6, SMT DEF Encode
  <2>4. code >= 65536 =>
          Encode(code) = <<240 + (code \div 262144), Trailing(code, 4096), Trailing(code, 64),
                           Trailing(code, 1)>>
    BY <1>6, SMT DEF Encode
  <2> QED
    BY <1>6, <2>1, <2>2, <2>3, <2>4, SMT DEF Trailing
<1>9. IsEncoding(bytes) <=> /\ code >= 65536 /\ code <= 1114111
                            /\ 240 + x = b /\ 128 + y = c /\ 128 + z = d /\ 128 + t = e
  <2>1. Len(bytes) = 4
    BY SMT
  <2>2. code < 65536 => Encode(code) # bytes
    BY <1>6, <1>8, <2>1, SMT
  <2>3. code >= 65536 =>
          (Encode(code) = bytes <=> 240 + x = b /\ 128 + y = c /\ 128 + z = d /\ 128 + t = e)
    BY <1>6, <1>8, SMT
  <2>4. code >= 65536 => (Scalar(code) <=> code <= 1114111)
    BY <1>6, SMT DEF Scalar
  <2> QED
    BY <1>2, <1>6, <2>2, <2>3, <2>4, SMT DEF IsEncoding
<1>10. ASSUME b \in 240..247, IsContinuation(c)
       PROVE  (code >= 65536 /\ code <= 1114111) <=> b \in 240..244 /\ SecondValid(b, c)
  <2>1. x = b - 240 /\ y = c - 128 /\ c \in 128..191
    BY <1>3, <1>5, <1>10, SMT DEF IsContinuation
  <2>2. b \in 240..244 /\ SecondValid(b, c)
          <=> ~(x = 0 /\ y < 16) /\ ~(x > 4 \/ (x = 4 /\ y >= 16))
    BY <1>0, <1>1, <1>10, <2>1, SMT DEF SecondValid
  <2>3. (code >= 65536 <=> ~(code < 65536)) /\ (code <= 1114111 <=> ~(code > 1114111))
    BY <1>6, SMT
  <2> QED
    BY <1>7, <2>2, <2>3, SMT
<1>11. b \in 240..244 => b \in 240..247
  BY SMT
<1> QED
  BY <1>3, <1>5, <1>9, <1>10, <1>11, SMT

\* The bytes of a piece.
LEMMA PieceIs ==
  ASSUME NEW value \in Octets, NEW i \in 1..Len(value), NEW n \in Nat, i + n - 1 <= Len(value)
  PROVE  /\ SubSeq(value, i, i + n - 1) \in Octets /\ Len(SubSeq(value, i, i + n - 1)) = n
         /\ \A k \in 1..n : /\ SubSeq(value, i, i + n - 1)[k] = value[i + k - 1]
                            /\ value[i + k - 1] \in Octet
<1> DEFINE j == i + n - 1
<1>1. i \in Int /\ j \in Int /\ \A k \in i..j : value[k] \in Octet
  BY ElementOfSeq DEF Octets
<1>2. (IF i <= j THEN j - i + 1 ELSE 0) = n /\ j - i + 1 = n
  OBVIOUS
<1> HIDE DEF j
<1>3. /\ SubSeq(value, i, j) \in Seq(Octet)
      /\ Len(SubSeq(value, i, j)) = IF i <= j THEN j - i + 1 ELSE 0
      /\ \A k \in 1..(j - i + 1) : SubSeq(value, i, j)[k] = value[i + k - 1]
  BY <1>1, SubSeqProperties
<1>4. \A k \in 1..n : i + k - 1 \in i..j
  BY <1>2 DEF j
<1>5. \A k \in 1..n : SubSeq(value, i, j)[k] = value[i + k - 1] /\ value[i + k - 1] \in Octet
  BY <1>1, <1>2, <1>3, <1>4
<1> QED
  BY <1>2, <1>3, <1>5 DEF j, Octets

\* A sequence of n bytes is accepted exactly when it encodes a scalar value.
LEMMA AcceptsEncodings ==
  ASSUME NEW value \in Octets, NEW i \in 1..Len(value), NEW n \in 1..4
  PROVE  ValidSequenceLength(value, i) = n
           <=> i + n - 1 <= Len(value) /\ IsEncoding(SubSeq(value, i, i + n - 1))
<1> DEFINE p == SubSeq(value, i, i + n - 1)
<1>1. ValidSequenceLength(value, i) = n <=> Wanted(value[i]) = n /\ Follows(value, i, n)
  BY LengthIs
<1>2. SUFFICES ASSUME i + n - 1 <= Len(value)
               PROVE  Wanted(value[i]) = n /\ Follows(value, i, n) <=> IsEncoding(p)
  BY <1>1 DEF Follows
<1>3. /\ p \in Seq(Octet) /\ Len(p) = n
      /\ \A k \in 1..n : p[k] = value[i + k - 1] /\ value[i + k - 1] \in Octet
  BY <1>2, PieceIs DEF Octets
<1>4. value[i] = p[1] /\ p[1] \in Octet
  <2>1. 1 \in 1..n /\ i + 1 - 1 = i
    OBVIOUS
  <2>2. p[1] = value[i + 1 - 1] /\ value[i + 1 - 1] \in Octet
    BY <1>3, <2>1
  <2> QED
    BY <2>1, <2>2
<1>5. Follows(value, i, n) <=> /\ \A k \in 1..n - 1 : IsContinuation(p[k + 1])
                               /\ n > 1 => SecondValid(p[1], p[2])
  <2>1. \A k \in 1..n - 1 : p[k + 1] = value[i + k]
    BY <1>3
  <2>2. n > 1 => p[2] = value[i + 1]
    BY <1>3
  <2> HIDE DEF p
  <2> QED
    BY <1>2, <1>4, <2>1, <2>2 DEF Follows
<1> DEFINE b == p[1]
           c == p[2]
           d == p[3]
           e == p[4]
<1>6. b \in Octet /\ value[i] = b
  BY <1>4
<1> HIDE DEF p
<1>7. CASE n = 1
  <2>1. p = <<b>>
    BY <1>3, <1>7
  <2>2. Follows(value, i, n)
    BY <1>5, <1>7
  <2> HIDE DEF b
  <2>3. IsEncoding(p) <=> b <= 127
    BY <1>6, <2>1, OneByte
  <2>4. Wanted(value[i]) = n <=> b <= 127
    BY <1>6, <1>7, WantedIs
  <2> QED
    BY <2>2, <2>3, <2>4
<1>8. CASE n = 2
  <2>1. p = <<b, c>> /\ c \in Octet
    BY <1>3, <1>8
  <2>2. Follows(value, i, n) <=> IsContinuation(c) /\ SecondValid(b, c)
    <3>1. (\A k \in 1..n - 1 : IsContinuation(p[k + 1])) <=> IsContinuation(p[2])
      BY <1>8
    <3>2. n > 1
      BY <1>8
    <3> QED
      BY <1>5, <3>1, <3>2
  <2> HIDE DEF b, c
  <2>3. IsEncoding(p) <=> b \in 194..223 /\ IsContinuation(c)
    BY <1>6, <2>1, TwoBytes
  <2>4. Wanted(value[i]) = n <=> b \in 194..223
    BY <1>6, <1>8, WantedIs
  <2>5. b \in 194..223 => SecondValid(b, c)
    BY <1>6 DEF SecondValid, Octet
  <2> QED
    BY <2>2, <2>3, <2>4, <2>5
<1>9. CASE n = 3
  <2>1. p = <<b, c, d>> /\ c \in Octet /\ d \in Octet
    BY <1>3, <1>9
  <2>2. Follows(value, i, n) <=> IsContinuation(c) /\ IsContinuation(d) /\ SecondValid(b, c)
    <3>1. (\A k \in 1..n - 1 : IsContinuation(p[k + 1]))
            <=> IsContinuation(p[2]) /\ IsContinuation(p[3])
      BY <1>9
    <3>2. n > 1
      BY <1>9
    <3> QED
      BY <1>5, <3>1, <3>2
  <2> HIDE DEF b, c, d
  <2>3. IsEncoding(p) <=> /\ b \in 224..239 /\ IsContinuation(c) /\ IsContinuation(d)
                          /\ SecondValid(b, c)
    BY <1>6, <2>1, ThreeBytes
  <2>4. Wanted(value[i]) = n <=> b \in 224..239
    BY <1>6, <1>9, WantedIs
  <2> QED
    BY <2>2, <2>3, <2>4
<1>10. CASE n = 4
  <2>1. p = <<b, c, d, e>> /\ c \in Octet /\ d \in Octet /\ e \in Octet
    BY <1>3, <1>10
  <2>2. Follows(value, i, n) <=> /\ IsContinuation(c) /\ IsContinuation(d) /\ IsContinuation(e)
                                 /\ SecondValid(b, c)
    <3>1. (\A k \in 1..n - 1 : IsContinuation(p[k + 1]))
            <=> IsContinuation(p[2]) /\ IsContinuation(p[3]) /\ IsContinuation(p[4])
      BY <1>10
    <3>2. n > 1
      BY <1>10
    <3> QED
      BY <1>5, <3>1, <3>2
  <2> HIDE DEF b, c, d, e
  <2>3. IsEncoding(p) <=> /\ b \in 240..244 /\ IsContinuation(c) /\ IsContinuation(d)
                          /\ IsContinuation(e) /\ SecondValid(b, c)
    BY <1>6, <2>1, FourBytes
  <2>4. Wanted(value[i]) = n <=> b \in 240..244
    BY <1>6, <1>10, WantedIs
  <2> QED
    BY <2>2, <2>3, <2>4
<1> QED
  BY <1>7, <1>8, <1>9, <1>10

\* A sequence is one wherever it stands.
LEMMA SameSequence ==
  ASSUME NEW value \in Octets, NEW i \in 1..Len(value), NEW other \in Octets,
         NEW j \in 1..Len(other), NEW n \in 1..4, ValidSequenceLength(value, i) = n,
         j + n - 1 <= Len(other), \A k \in 0..n - 1 : other[j + k] = value[i + k]
  PROVE  ValidSequenceLength(other, j) = n
<1>1. Wanted(value[i]) = n /\ Follows(value, i, n)
  BY LengthIs
<1>2. other[j] = value[i]
  <2>1. 0 \in 0..n - 1 /\ j + 0 = j /\ i + 0 = i
    OBVIOUS
  <2> QED
    BY <2>1
<1>3. \A k \in 1..n - 1 : other[j + k] = value[i + k]
  OBVIOUS
<1>4. n > 1 => other[j + 1] = value[i + 1]
  BY <1>3
<1>5. Follows(other, j, n)
  BY <1>1, <1>2, <1>3, <1>4 DEF Follows
<1> QED
  BY <1>1, <1>2, <1>5, LengthIs

\* Its first byte is no continuation, the others are.
LEMMA SequenceBytes ==
  ASSUME NEW value \in Octets, NEW i \in 1..Len(value), NEW n \in 1..4,
         ValidSequenceLength(value, i) = n
  PROVE  /\ i + n - 1 <= Len(value) /\ ~IsContinuation(value[i])
         /\ \A k \in 1..n - 1 : IsContinuation(value[i + k])
<1>1. Wanted(value[i]) = n /\ Follows(value, i, n) /\ value[i] \in Octet
  BY LengthIs DEF Octets
<1>2. ~IsContinuation(value[i])
  <2> DEFINE b == value[i]
  <2>1. b \in Octet /\ Wanted(b) \in 1..4
    BY <1>1
  <2> HIDE DEF b
  <2>2. b <= 127 \/ b \in 194..223 \/ b \in 224..239 \/ b \in 240..244
    BY <2>1, WantedIs
  <2>3. ~IsContinuation(b)
    BY <2>1, <2>2 DEF IsContinuation, Octet
  <2> QED
    BY <2>3 DEF b
<1> QED
  BY <1>1, <1>2 DEF Follows

-----------------------------------------------------------------------------
(* utf8.cpp: texts.                                                        *)

\* The places between the characters of a text.
Marks(B, value) ==
  /\ B \subseteq 1..Len(value) + 1 /\ 1 \in B
  /\ \A i \in B : \/ i = Len(value) + 1
                  \/ /\ ValidSequenceLength(value, i) \in 1..4
                     /\ i + ValidSequenceLength(value, i) \in B

\* A text of characters.
Valid(value) == \E B : Marks(B, value)

\* The next offset after each turn of the loop.
Utf8After(w, value) ==
  /\ w[0] = 1
  /\ \A i \in 0..Len(value) : w[i] \in Nat
  /\ \A i \in 1..Len(value) : w[i] = Utf8Step(value, w[i - 1], i)
  /\ IsValidUtf8(value) <=> w[Len(value)] = Len(value) + 1

\* The numbers that a loop over a text counts.
LEMMA CountingIs ==
  ASSUME NEW n \in Nat
  PROVE  Len(Counting(1, n)) = n /\ \A i \in 1..n : Counting(1, n)[i] = i
BY DEF Counting

\* There are such.
LEMMA Utf8Run ==
  ASSUME NEW value \in Octets
  PROVE  \E w : Utf8After(w, value)
<1> DEFINE n == Len(value)
           s == Counting(1, n)
           P(f, i) == Utf8Step(value, f, s[i])
           step == [i \in 1..n |-> [f \in Nat |-> P(f, i)]]
           Def(w) == w = [i \in 0..Len(s) |-> IF i = 0 THEN 1 ELSE P(w[i - 1], i)]
           W == CHOOSE v : Def(v)
<1>1. n \in Nat /\ Len(s) = n /\ \A i \in 1..n : s[i] = i
  <2>1. n \in Nat
    BY DEF Octets
  <2> HIDE DEF n
  <2> QED
    BY <2>1, CountingIs
<1>2. IsValidUtf8(value) <=> W[Len(s)] = n + 1
  BY DEF IsValidUtf8, Scan
<1> HIDE DEF s
<1>3. \A i \in 1..n : \A f \in Nat : P(f, i) \in Nat
  <2>1. \A i \in 1..n : ValidSequenceLength(value, i) \in 0..4
    BY LengthIs
  <2> HIDE DEF n
  <2> QED
    BY <1>1, <2>1 DEF Utf8Step
<1>4. \A i \in 0..n : i = 0 \/ i \in 1..n
  BY <1>1
<1>4a. \A i \in 1..n : \A f : P(f, i) = Utf8Step(value, f, i)
  BY <1>1
<1> HIDE DEF P, n
<1>5. PICK w : Run(w, Nat, 1, step, n)
  <2>1. step \in [1..n -> [Nat -> Nat]] /\ 1 \in Nat
    BY <1>3
  <2> QED
    BY <1>1, <2>1, Trajectory
<1>6. Def(w)
  <2>1. w \in [0..n -> Nat] /\ w[0] = 1 /\ \A i \in 1..n : w[i] = step[i][w[i - 1]]
    BY <1>5 DEF Run
  <2>2. \A i \in 1..n : w[i - 1] \in Nat
    BY <1>1, <2>1
  <2> QED
    BY <1>1, <1>4, <2>1, <2>2
<1>7. Def(W)
  BY <1>6
<1> HIDE DEF W
<1>8. W[0] = 1 /\ \A i \in 1..n : W[i] = P(W[i - 1], i)
  BY <1>1, <1>7
<1>9. \A i \in 0..n : W[i] \in Nat
  <2> DEFINE N == Nat
  <2>1. W[0] \in N /\ \A i \in 1..n : W[i - 1] \in N => W[i] \in N
    BY <1>3, <1>8
  <2> HIDE DEF N
  <2>2. \A i \in 0..n : W[i] \in N
    BY <1>1, <2>1, Stays
  <2> QED
    BY <2>2 DEF N
<1>10. Utf8After(W, value)
  BY <1>1, <1>2, <1>4a, <1>8, <1>9 DEF n, Utf8After
<1> QED
  BY <1>10

\* A text of characters passes.
LEMMA ValidPasses ==
  ASSUME NEW value \in Octets, Valid(value)
  PROVE  IsValidUtf8(value)
<1> DEFINE n == Len(value)
           L(i) == ValidSequenceLength(value, i)
<1>1. PICK w : Utf8After(w, value)
  BY Utf8Run
<1>2. PICK B : Marks(B, value)
  BY DEF Valid
<1>3. /\ w[0] = 1 /\ \A i \in 0..n : w[i] \in Nat
      /\ \A i \in 1..n : w[i] = IF w[i - 1] = i THEN i + L(i) ELSE w[i - 1]
      /\ IsValidUtf8(value) <=> w[n] = n + 1
  BY <1>1 DEF Utf8After, Utf8Step
<1>4. /\ B \subseteq 1..n + 1 /\ 1 \in B
      /\ \A i \in B : i = n + 1 \/ (L(i) \in 1..4 /\ i + L(i) \in B)
  BY <1>2 DEF Marks
<1>5. n \in Nat
  BY DEF Octets
<1> HIDE DEF n, L
<1> DEFINE A == {i \in 0..n : w[i] \in B /\ w[i] > i}
<1>6. 0 \in A
  BY <1>3, <1>4, <1>5
<1>7. ASSUME NEW i \in 1..n, i - 1 \in A
      PROVE  i \in A
  <2>1. w[i - 1] \in B /\ w[i - 1] > i - 1 /\ w[i - 1] \in Nat /\ i \in 0..n
    BY <1>3, <1>5, <1>7
  <2>2. CASE w[i - 1] = i
    <3>1. i \in B /\ i # n + 1
      BY <1>5, <2>1, <2>2
    <3>2. w[i] = i + L(i) /\ L(i) \in 1..4 /\ i + L(i) \in B
      BY <1>3, <1>4, <2>2, <3>1
    <3> QED
      BY <2>1, <3>2
  <2>3. CASE w[i - 1] # i
    <3>1. w[i] = w[i - 1]
      BY <1>3, <2>3
    <3> QED
      BY <2>1, <2>3, <3>1
  <2> QED
    BY <2>2, <2>3
<1>8. n \in A
  <2> HIDE DEF A
  <2>1. \A i \in 0..n : i \in A
    BY <1>5, <1>6, <1>7, UpTo
  <2> QED
    BY <1>5, <2>1
<1>9. w[n] \in 1..n + 1 /\ w[n] > n
  BY <1>4, <1>8
<1> QED
  BY <1>3, <1>5, <1>9

\* A text that passes is one of characters.
LEMMA PassesValid ==
  ASSUME NEW value \in Octets, IsValidUtf8(value)
  PROVE  Valid(value)
<1> DEFINE n == Len(value)
           L(i) == ValidSequenceLength(value, i)
<1>1. PICK w : Utf8After(w, value)
  BY Utf8Run
<1>2. /\ w[0] = 1 /\ \A i \in 0..n : w[i] \in Nat
      /\ \A i \in 1..n : w[i] = IF w[i - 1] = i THEN i + L(i) ELSE w[i - 1]
      /\ w[n] = n + 1
  BY <1>1 DEF Utf8After, Utf8Step
<1>3. n \in Nat /\ \A i \in 1..n : L(i) \in 0..4 /\ (L(i) \in 1..4 => i + L(i) \in 1..n + 1)
  <2>1. n \in Nat
    BY DEF Octets
  <2>2. ASSUME NEW i \in 1..n PROVE L(i) \in 0..4 /\ (L(i) \in 1..4 => i + L(i) \in 1..n + 1)
    <3>1. L(i) \in 0..4
      BY LengthIs
    <3>2. L(i) \in 1..4 => i + L(i) - 1 <= Len(value)
      BY SequenceBytes
    <3> HIDE DEF L
    <3> QED
      BY <2>1, <3>1, <3>2
  <2> QED
    BY <2>1, <2>2
<1> HIDE DEF n, L
<1>4. \A i \in 0..n : w[i] > i
  <2> DEFINE A == {k \in 0..n : w[n - k] > n - k}
  <2>1. 0 \in A
    BY <1>2, <1>3
  <2>2. ASSUME NEW k \in 1..n, k - 1 \in A
        PROVE  k \in A
    <3> DEFINE i == n - k
    <3>1. /\ i \in 0..n /\ i + 1 \in 1..n /\ n - (k - 1) = i + 1 /\ k \in 0..n /\ i \in Nat
          /\ (i + 1) - 1 = i
      BY <1>3
    <3>2. w[i + 1] > i + 1
      BY <2>2, <3>1
    <3>3. w[i + 1] = IF w[i] = i + 1 THEN i + 1 + L(i + 1) ELSE w[i]
      BY <1>2, <3>1
    <3>4. w[i] \in Nat
      BY <1>2, <3>1
    <3> HIDE DEF i
    <3>5. w[i] > i
      BY <3>1, <3>2, <3>3, <3>4
    <3> QED
      BY <3>1, <3>5 DEF i
  <2>3. \A k \in 0..n : k \in A
    <3> HIDE DEF A
    <3> QED
      BY <1>3, <2>1, <2>2, UpTo
  <2>4. ASSUME NEW i \in 0..n PROVE w[i] > i
    <3>1. n - i \in 0..n /\ n - (n - i) = i
      BY <1>3
    <3>2. n - i \in A
      BY <2>3, <3>1
    <3> QED
      BY <3>1, <3>2
  <2> QED
    BY <2>4
<1>5. ASSUME NEW b \in 0..n, NEW c \in 1..n + 1, b < c, w[b] = c
      PROVE  w[c - 1] = c
  <2> DEFINE d == c - 1 - b
             A == {k \in 0..d : w[b + k] = c}
  <2>1. d \in Nat /\ b + d = c - 1 /\ b + d <= n /\ b + 0 = b
    BY <1>3, <1>5
  <2>2. 0 \in A
    BY <1>5, <2>1
  <2>3. ASSUME NEW k \in 1..d, k - 1 \in A
        PROVE  k \in A
    <3> DEFINE i == b + k
    <3>1. i \in 1..n /\ i - 1 = b + (k - 1) /\ i <= c - 1 /\ k \in 0..d
      BY <1>3, <2>1
    <3>2. w[i - 1] = c
      BY <2>3, <3>1
    <3>3. w[i] = IF w[i - 1] = i THEN i + L(i) ELSE w[i - 1]
      BY <1>2, <3>1
    <3>4. i # c
      BY <3>1
    <3> HIDE DEF i
    <3>5. w[i] = c
      BY <3>2, <3>3, <3>4
    <3> QED
      BY <3>1, <3>5 DEF i
  <2>4. d \in A
    <3> HIDE DEF A
    <3>1. \A k \in 0..d : k \in A
      BY <2>1, <2>2, <2>3, UpTo
    <3> QED
      BY <2>1, <3>1
  <2> QED
    BY <2>1, <2>4
<1> DEFINE B == {b \in 1..n + 1 : b = n + 1 \/ w[b - 1] = b}
<1>6. 1 \in B
  BY <1>2, <1>3
<1>7. ASSUME NEW i \in B
      PROVE  i = n + 1 \/ (L(i) \in 1..4 /\ i + L(i) \in B)
  <2>1. CASE i # n + 1
    <3>1. i \in 1..n /\ w[i - 1] = i /\ i \in 0..n
      BY <1>3, <2>1
    <3>2. w[i] = i + L(i) /\ w[i] > i
      BY <1>2, <1>4, <3>1
    <3>3. L(i) \in 1..4 /\ i + L(i) \in 1..n + 1
      BY <1>3, <3>1, <3>2
    <3>4. w[(i + L(i)) - 1] = i + L(i)
      <4> DEFINE c == i + L(i)
      <4>1. c \in 1..n + 1 /\ i < c /\ w[i] = c
        BY <3>2, <3>3
      <4> HIDE DEF c
      <4>2. w[c - 1] = c
        BY <1>5, <3>1, <4>1
      <4> QED
        BY <4>2 DEF c
    <3> QED
      BY <3>3, <3>4
  <2> QED
    BY <2>1
<1>8. B \subseteq 1..n + 1
  OBVIOUS
<1> HIDE DEF B
<1>9. Marks(B, value)
  BY <1>6, <1>7, <1>8 DEF Marks, n, L
<1> QED
  BY <1>9 DEF Valid

\* Nothing, and one character, are texts of characters.
LEMMA ValidOne ==
  /\ Valid(<<>>)
  /\ \A value \in Octets : Len(value) \in 1..4 /\ ValidSequenceLength(value, 1) = Len(value)
                             => Valid(value)
<1>1. Valid(<<>>)
  <2>1. Marks({1}, <<>>)
    BY DEF Marks
  <2> QED
    BY <2>1 DEF Valid
<1>2. ASSUME NEW value \in Octets, Len(value) \in 1..4, ValidSequenceLength(value, 1) = Len(value)
      PROVE  Valid(value)
  <2> DEFINE n == Len(value)
             B == {1, n + 1}
  <2>1. n \in 1..4 /\ 1 + n = n + 1
    BY <1>2
  <2>2. Marks(B, value)
    BY <1>2, <2>1 DEF Marks
  <2> QED
    BY <2>2 DEF Valid
<1> QED
  BY <1>1, <1>2

\* One text after another.
LEMMA ValidConcat ==
  ASSUME NEW s \in Octets, NEW t \in Octets, Valid(s), Valid(t)
  PROVE  Valid(s \o t) /\ s \o t \in Octets
<1> DEFINE m == Len(s)
           n == Len(t)
           st == s \o t
<1>1. /\ m \in Nat /\ n \in Nat /\ Len(st) = m + n /\ st \in Octets
      /\ \A i \in 1..m : st[i] = s[i]
      /\ \A i \in 1..n : st[m + i] = t[i]
  <2>1. m \in Nat /\ n \in Nat /\ Len(st) = m + n /\ st \in Octets
    BY DEF Octets
  <2>2. s \in Seq(Octet) /\ t \in Seq(Octet)
    BY DEF Octets
  <2>3. \A i \in 1..(m + n) : st[i] = IF i <= m THEN s[i] ELSE t[i - m]
    BY <2>2, ConcatProperties
  <2> HIDE DEF m, n, st
  <2>4. \A i \in 1..m : st[i] = s[i]
    BY <2>1, <2>3
  <2>5. ASSUME NEW i \in 1..n PROVE st[m + i] = t[i]
    <3>1. m + i \in 1..(m + n) /\ ~(m + i <= m) /\ (m + i) - m = i
      BY <2>1
    <3> QED
      BY <2>3, <3>1
  <2> QED
    BY <2>1, <2>4, <2>5
<1>2. PICK S : Marks(S, s)
  BY DEF Valid
<1>3. PICK T : Marks(T, t)
  BY DEF Valid
<1>4. /\ S \subseteq 1..m + 1 /\ 1 \in S
      /\ \A i \in S : \/ i = m + 1
                      \/ /\ ValidSequenceLength(s, i) \in 1..4
                         /\ i + ValidSequenceLength(s, i) \in S
  BY <1>2 DEF Marks
<1>5. /\ T \subseteq 1..n + 1 /\ 1 \in T
      /\ \A i \in T : \/ i = n + 1
                      \/ /\ ValidSequenceLength(t, i) \in 1..4
                         /\ i + ValidSequenceLength(t, i) \in T
  BY <1>3 DEF Marks
<1> HIDE DEF st
<1>6. ASSUME NEW i \in 1..m, ValidSequenceLength(s, i) \in 1..4
      PROVE  ValidSequenceLength(st, i) = ValidSequenceLength(s, i)
  <2> DEFINE k == ValidSequenceLength(s, i)
  <2>1. k \in 1..4 /\ i + k - 1 <= m
    BY <1>6, SequenceBytes
  <2>2. ValidSequenceLength(s, i) = k
    OBVIOUS
  <2> HIDE DEF k
  <2>3. i \in 1..Len(st) /\ i + k - 1 <= Len(st)
    BY <1>1, <2>1
  <2>4. \A j \in 0..k - 1 : st[i + j] = s[i + j]
    BY <1>1, <2>1
  <2>5. ValidSequenceLength(st, i) = k
    BY <1>1, <2>1, <2>2, <2>3, <2>4, SameSequence
  <2> QED
    BY <2>2, <2>5
<1>7. ASSUME NEW i \in 1..n, ValidSequenceLength(t, i) \in 1..4
      PROVE  ValidSequenceLength(st, m + i) = ValidSequenceLength(t, i)
  <2> DEFINE k == ValidSequenceLength(t, i)
             h == m + i
  <2>1. k \in 1..4 /\ i + k - 1 <= n
    BY <1>7, SequenceBytes
  <2>2. ValidSequenceLength(t, i) = k
    OBVIOUS
  <2> HIDE DEF k
  <2>3. h \in 1..Len(st) /\ h + k - 1 <= Len(st)
    BY <1>1, <2>1
  <2>4. \A j \in 0..k - 1 : st[h + j] = t[i + j]
    <3>1. ASSUME NEW j \in 0..k - 1 PROVE st[h + j] = t[i + j]
      <4>1. i + j \in 1..n /\ h + j = m + (i + j)
        BY <1>1, <2>1
      <4> QED
        BY <1>1, <4>1
    <3> QED
      BY <3>1
  <2> HIDE DEF h
  <2>5. ValidSequenceLength(st, h) = k
    BY <1>1, <2>1, <2>2, <2>3, <2>4, SameSequence
  <2> QED
    BY <2>2, <2>5 DEF h
<1> HIDE DEF m, n
<1> DEFINE U == {m + i : i \in T}
           B == S \cup U
<1>8. B \subseteq 1..(m + n) + 1 /\ 1 \in B
  <2>1. S \subseteq 1..(m + n) + 1
    BY <1>1, <1>4
  <2>2. U \subseteq 1..(m + n) + 1
    BY <1>1, <1>5
  <2> QED
    BY <1>4, <2>1, <2>2
<1>9. ASSUME NEW b \in U
      PROVE  \/ b = (m + n) + 1
             \/ /\ ValidSequenceLength(st, b) \in 1..4
                /\ b + ValidSequenceLength(st, b) \in B
  <2>1. PICK i \in T : b = m + i
    OBVIOUS
  <2>2. i \in 1..n + 1
    BY <1>5
  <2>3. CASE i = n + 1
    BY <1>1, <2>1, <2>3
  <2>4. CASE i # n + 1
    <3> DEFINE k == ValidSequenceLength(t, i)
    <3>1. i \in 1..n /\ k \in 1..4 /\ i + k \in T
      BY <1>1, <1>5, <2>2, <2>4
    <3>2. ValidSequenceLength(st, b) = k
      BY <1>7, <2>1, <3>1
    <3> HIDE DEF k
    <3>3. b + k = m + (i + k)
      BY <1>1, <2>1, <3>1
    <3>4. b + k \in U
      BY <3>1, <3>3
    <3> QED
      BY <3>1, <3>2, <3>4
  <2> QED
    BY <2>3, <2>4
<1>10. ASSUME NEW b \in S
       PROVE  \/ b = (m + n) + 1
              \/ /\ ValidSequenceLength(st, b) \in 1..4
                 /\ b + ValidSequenceLength(st, b) \in B
  <2>1. b \in 1..m + 1
    BY <1>4
  <2>2. CASE b = m + 1
    <3>1. b \in U
      BY <1>5, <2>2
    <3> QED
      BY <1>9, <3>1
  <2>3. CASE b # m + 1
    <3>1. /\ b \in 1..m /\ ValidSequenceLength(s, b) \in 1..4
          /\ b + ValidSequenceLength(s, b) \in S
      BY <1>1, <1>4, <2>1, <2>3
    <3> QED
      BY <1>6, <3>1
  <2> QED
    BY <2>2, <2>3
<1>11. Marks(B, st)
  <2>1. \A b \in B : \/ b = (m + n) + 1
                     \/ /\ ValidSequenceLength(st, b) \in 1..4
                        /\ b + ValidSequenceLength(st, b) \in B
    BY <1>9, <1>10
  <2> HIDE DEF B
  <2> QED
    BY <1>1, <1>8, <2>1 DEF Marks
<1> QED
  BY <1>1, <1>11 DEF Valid, st

\* U+FFFD, and the state of JsonString's loop.
Replacement == <<239, 191, 189>>
JsonState == [out : Octets, next : Nat]

\* U+FFFD is a character.
LEMMA ReplacementValid ==
  Valid(Replacement) /\ Replacement \in Octets
<1>1. Replacement \in Octets /\ Len(Replacement) = 3
  BY DEF Replacement, Octets, Octet
<1>2. ValidSequenceLength(Replacement, 1) = 3
  <2>1. Replacement[1] = 239 /\ Replacement[2] = 191 /\ Replacement[3] = 189
    BY DEF Replacement
  <2>2. Wanted(239) = 3
    BY DEF Wanted
  <2>3. IsContinuation(191) /\ IsContinuation(189) /\ SecondValid(239, 191)
    BY DEF IsContinuation, SecondValid
  <2>4. \A k \in 1..3 - 1 : k = 1 \/ k = 2
    OBVIOUS
  <2>5. Follows(Replacement, 1, 3)
    BY <1>1, <2>1, <2>3, <2>4 DEF Follows
  <2>6. 1 \in 1..Len(Replacement) /\ 3 \in 1..4
    BY <1>1
  <2> QED
    BY <1>1, <2>1, <2>2, <2>5, <2>6, LengthIs
<1>3. Valid(Replacement)
  <2>1. Len(Replacement) \in 1..4 /\ ValidSequenceLength(Replacement, 1) = Len(Replacement)
    BY <1>1, <1>2
  <2> QED
    BY <1>1, <2>1, ValidOne
<1> QED
  BY <1>1, <1>3

\* A sequence of a text is a character.
LEMMA PieceValid ==
  ASSUME NEW value \in Octets, NEW i \in 1..Len(value), NEW n \in 1..4,
         ValidSequenceLength(value, i) = n
  PROVE  /\ SubSeq(value, i, i + n - 1) \in Octets /\ Valid(SubSeq(value, i, i + n - 1))
         /\ i + n - 1 <= Len(value)
<1> DEFINE p == SubSeq(value, i, i + n - 1)
<1>1. i + n - 1 <= Len(value) /\ n \in Nat
  BY SequenceBytes
<1>2. p \in Octets /\ Len(p) = n /\ \A k \in 1..n : p[k] = value[i + k - 1]
  BY <1>1, PieceIs
<1> HIDE DEF p
<1>3. ASSUME NEW k \in 0..n - 1 PROVE p[1 + k] = value[i + k]
  <2>1. 1 + k \in 1..n /\ i + (1 + k) - 1 = i + k
    OBVIOUS
  <2> QED
    BY <1>2, <2>1
<1>4. 1 \in 1..Len(p) /\ 1 + n - 1 <= Len(p)
  BY <1>2
<1>5. ValidSequenceLength(p, 1) = n
  BY <1>2, <1>3, <1>4, SameSequence
<1>6. Valid(p)
  BY <1>2, <1>5, ValidOne
<1> QED
  BY <1>1, <1>2, <1>6 DEF p

\* The n bytes from i on.
Piece(value, i, n) == SubSeq(value, i, i + n - 1)

\* A text and another after it.
Then(s, t) == s \o t

\* A turn of JsonString's loop.
LEMMA JsonSteps ==
  ASSUME NEW value \in Octets, NEW i \in 1..Len(value), NEW s \in JsonState,
         NEW n, n = ValidSequenceLength(value, i)
  PROVE  /\ n \in 0..4 /\ JsonStep(value, s, i) \in JsonState
         /\ s.next # i => JsonStep(value, s, i) = s
         /\ s.next = i /\ n = 0 => /\ JsonStep(value, s, i).out = Then(s.out, Replacement)
                                   /\ JsonStep(value, s, i).next = i + 1
         /\ s.next = i /\ n # 0 =>
              /\ JsonStep(value, s, i).out = Then(s.out, Piece(value, i, n))
              /\ JsonStep(value, s, i).next = i + n
<1> DEFINE p == Piece(value, i, n)
<1>1. n \in 0..4 /\ i \in Nat
  BY LengthIs
<1>2. s.out \in Octets /\ s.next \in Nat /\ Replacement \in Octets
  BY ReplacementValid DEF JsonState
<1>3. n # 0 => p \in Octets
  BY <1>1, PieceValid DEF Piece
<1> HIDE DEF p
<1>4. Then(s.out, Replacement) \in Octets /\ (n # 0 => Then(s.out, p) \in Octets)
  BY <1>2, <1>3 DEF Octets, Then
<1>5. JsonStep(value, s, i) = IF s.next # i THEN s
        ELSE IF n = 0 THEN [out |-> Then(s.out, Replacement), next |-> i + 1]
        ELSE [out |-> Then(s.out, p), next |-> i + n]
  BY DEF JsonStep, Replacement, p, Piece, Then
<1>6. CASE s.next # i
  BY <1>1, <1>5, <1>6
<1>7. CASE s.next = i /\ n = 0
  <2>1. JsonStep(value, s, i) \in JsonState
    BY <1>1, <1>4, <1>5, <1>7 DEF JsonState
  <2> QED
    BY <1>1, <1>5, <1>7, <2>1
<1>8. CASE s.next = i /\ n # 0
  <2>1. JsonStep(value, s, i) \in JsonState
    BY <1>1, <1>4, <1>5, <1>8 DEF JsonState
  <2>2. JsonStep(value, s, i) = [out |-> Then(s.out, p), next |-> i + n]
    BY <1>5, <1>8
  <2>3. JsonStep(value, s, i).out = Then(s.out, p) /\ JsonStep(value, s, i).next = i + n
    BY <2>2
  <2> QED
    BY <1>1, <1>8, <2>1, <2>3 DEF p
<1> QED
  BY <1>6, <1>7, <1>8

\* The state after each turn.
JsonAfter(w, value) ==
  /\ w[0] = [out |-> <<>>, next |-> 1] /\ JsonText(value) = w[Len(value)].out
  /\ \A i \in 0..Len(value) : w[i] \in JsonState
  /\ \A i \in 1..Len(value) : w[i] = JsonStep(value, w[i - 1], i)

\* There are such.
LEMMA JsonRun ==
  ASSUME NEW value \in Octets
  PROVE  \E w : JsonAfter(w, value)
<1> DEFINE n == Len(value)
           s == Counting(1, n)
           S == JsonState
           start == [out |-> <<>>, next |-> 1]
           P(f, i) == JsonStep(value, f, s[i])
           step == [i \in 1..n |-> [f \in S |-> P(f, i)]]
           Def(w) == w = [i \in 0..Len(s) |-> IF i = 0 THEN start ELSE P(w[i - 1], i)]
           W == CHOOSE v : Def(v)
<1>1. n \in Nat /\ Len(s) = n /\ \A i \in 1..n : s[i] = i
  <2>1. n \in Nat
    BY DEF Octets
  <2> HIDE DEF n
  <2> QED
    BY <2>1, CountingIs
<1>2. JsonText(value) = W[Len(s)].out
  BY DEF JsonText, Scan
<1>2a. start \in S
  BY DEF JsonState, Octets
<1> HIDE DEF s
<1>3. \A i \in 1..n : \A f \in S : P(f, i) \in S
  <2>1. \A i \in 1..n : \A f \in S : JsonStep(value, f, i) \in S
    BY JsonSteps
  <2> HIDE DEF n
  <2> QED
    BY <1>1, <2>1
<1>4. \A i \in 0..n : i = 0 \/ i \in 1..n
  BY <1>1
<1>4a. \A i \in 1..n : \A f : P(f, i) = JsonStep(value, f, i)
  BY <1>1
<1> HIDE DEF P, n, S, start
<1>5. PICK w : Run(w, S, start, step, n)
  <2>1. step \in [1..n -> [S -> S]]
    BY <1>3
  <2> QED
    BY <1>1, <1>2a, <2>1, Trajectory
<1>6. Def(w)
  <2>1. w \in [0..n -> S] /\ w[0] = start /\ \A i \in 1..n : w[i] = step[i][w[i - 1]]
    BY <1>5 DEF Run
  <2>2. \A i \in 1..n : w[i - 1] \in S
    BY <1>1, <2>1
  <2> QED
    BY <1>1, <1>4, <2>1, <2>2
<1>7. Def(W)
  BY <1>6
<1> HIDE DEF W
<1>8. W[0] = start /\ \A i \in 1..n : W[i] = P(W[i - 1], i)
  BY <1>1, <1>7
<1>9. \A i \in 0..n : W[i] \in S
  <2>1. W[0] \in S /\ \A i \in 1..n : W[i - 1] \in S => W[i] \in S
    BY <1>2a, <1>3, <1>8
  <2> QED
    BY <1>1, <2>1, Stays
<1>10. JsonAfter(W, value)
  BY <1>1, <1>2, <1>4a, <1>8, <1>9 DEF n, S, start, JsonAfter
<1> QED
  BY <1>10

\* What JsonString emits is a text of characters.
LEMMA JsonValid ==
  ASSUME NEW value \in Octets
  PROVE  Valid(JsonText(value)) /\ JsonText(value) \in Octets
<1> DEFINE n == Len(value)
<1>1. PICK w : JsonAfter(w, value)
  BY JsonRun
<1>2. /\ w[0] = [out |-> <<>>, next |-> 1] /\ JsonText(value) = w[n].out
      /\ \A i \in 0..n : w[i] \in JsonState
      /\ \A i \in 1..n : w[i] = JsonStep(value, w[i - 1], i)
  BY <1>1 DEF JsonAfter
<1>3. n \in Nat
  BY DEF Octets
<1> DEFINE A == {i \in 0..n : Valid(w[i].out)}
<1>4. 0 \in A
  <2>1. w[0].out = <<>>
    BY <1>2
  <2> QED
    BY <1>3, <2>1, ValidOne
<1>5. ASSUME NEW i \in 1..n, i - 1 \in A
      PROVE  i \in A
  <2> DEFINE s == w[i - 1]
             k == ValidSequenceLength(value, i)
             p == Piece(value, i, k)
  <2>1. s \in JsonState /\ Valid(s.out) /\ s.out \in Octets /\ w[i] = JsonStep(value, s, i)
        /\ i \in 0..n
    BY <1>2, <1>3, <1>5 DEF JsonState
  <2>2. k = ValidSequenceLength(value, i)
    OBVIOUS
  <2> HIDE DEF s, k, p
  <2>3. /\ k \in 0..4
        /\ s.next # i => w[i] = s
        /\ s.next = i /\ k = 0 => w[i].out = Then(s.out, Replacement)
        /\ s.next = i /\ k # 0 => w[i].out = Then(s.out, p)
    BY <2>1, <2>2, JsonSteps DEF p
  <2>4. k # 0 => p \in Octets /\ Valid(p)
    BY <2>2, <2>3, PieceValid DEF p, Piece
  <2>5. Valid(Then(s.out, Replacement)) /\ (k # 0 => Valid(Then(s.out, p)))
    BY <2>1, <2>4, ValidConcat, ReplacementValid DEF Then
  <2>6. Valid(w[i].out)
    BY <2>1, <2>3, <2>5
  <2> QED
    BY <2>1, <2>6
<1>6. n \in A
  <2> HIDE DEF A
  <2>1. \A i \in 0..n : i \in A
    BY <1>3, <1>4, <1>5, UpTo
  <2> QED
    BY <1>3, <2>1
<1>7. w[n].out \in Octets
  <2>1. w[n] \in JsonState
    BY <1>2, <1>3
  <2> QED
    BY <2>1 DEF JsonState
<1> QED
  BY <1>2, <1>6, <1>7

\* JsonString leaves a text of characters as it is.
LEMMA JsonSame ==
  ASSUME NEW value \in Octets, Valid(value)
  PROVE  JsonText(value) = value
<1> DEFINE n == Len(value)
           L(i) == ValidSequenceLength(value, i)
           Upto(i) == SubSeq(value, 1, i - 1)
<1>1. PICK w : JsonAfter(w, value)
  BY JsonRun
<1>2. PICK B : Marks(B, value)
  BY DEF Valid
<1>3. /\ w[0] = [out |-> <<>>, next |-> 1] /\ JsonText(value) = w[n].out
      /\ \A i \in 0..n : w[i] \in JsonState
      /\ \A i \in 1..n : w[i] = JsonStep(value, w[i - 1], i)
  BY <1>1 DEF JsonAfter
<1>4. /\ B \subseteq 1..n + 1 /\ 1 \in B
      /\ \A i \in B : i = n + 1 \/ (L(i) \in 1..4 /\ i + L(i) \in B)
  BY <1>2 DEF Marks
<1>5. n \in Nat
  BY DEF Octets
<1>6. /\ Upto(1) = <<>> /\ Upto(n + 1) = value
      /\ \A i \in 1..n : \A k \in 1..4 : i + k \in 1..n + 1 =>
           Then(Upto(i), Piece(value, i, k)) = Upto(i + k)
  <2>1. Upto(1) = <<>>
    BY SubSeqEmpty
  <2>2. Upto(n + 1) = value
    <3>1. (n + 1) - 1 = n
      BY <1>5
    <3> QED
      BY <3>1, SubSeqFull DEF Octets
  <2>3. ASSUME NEW i \in 1..n, NEW k \in 1..4, i + k \in 1..n + 1
        PROVE  Then(Upto(i), Piece(value, i, k)) = Upto(i + k)
    <3> DEFINE a == i - 1
               c == i + k - 1
    <3>1. 1 \in 1..n + 1 /\ a \in 1 - 1..n /\ c \in a..n /\ a + 1 = i
      BY <1>5, <2>3
    <3>2. value \in Seq(Octet)
      BY DEF Octets
    <3> HIDE DEF a, c
    <3>3. SubSeq(value, 1, a) \o SubSeq(value, a + 1, c) = SubSeq(value, 1, c)
      BY <3>1, <3>2, ConcatAdjacentSubSeq
    <3>4. Upto(i + k) = SubSeq(value, 1, c) /\ Upto(i) = SubSeq(value, 1, a)
      BY DEF a, c
    <3> QED
      BY <3>1, <3>3, <3>4 DEF c, Piece, Then
  <2> HIDE DEF n, Upto
  <2> QED
    BY <2>1, <2>2, <2>3
<1> HIDE DEF Upto
<1> DEFINE A == {i \in 0..n : w[i].next \in B /\ w[i].next > i /\ w[i].out = Upto(w[i].next)}
<1>7. 0 \in A
  <2>1. w[0].out = <<>> /\ w[0].next = 1
    BY <1>3
  <2> QED
    BY <1>4, <1>5, <1>6, <2>1
<1>8. ASSUME NEW i \in 1..n, i - 1 \in A
      PROVE  i \in A
  <2> DEFINE s == w[i - 1]
             k == L(i)
  <2>1. /\ s \in JsonState /\ w[i] = JsonStep(value, s, i) /\ i \in 0..n
        /\ s.next \in B /\ s.next > i - 1 /\ s.out = Upto(s.next) /\ s.next \in Nat
    BY <1>3, <1>4, <1>5, <1>8 DEF JsonState
  <2>2. k = ValidSequenceLength(value, i) /\ s \in JsonState /\ w[i] = JsonStep(value, s, i)
    BY <2>1
  <2> DEFINE p == Piece(value, i, k)
  <2> HIDE DEF s, k, p, L
  <2>3. /\ k \in 0..4
        /\ s.next # i => w[i] = s
        /\ s.next = i /\ k # 0 => /\ w[i].out = Then(s.out, p)
                                  /\ w[i].next = i + k
    BY <2>2, JsonSteps DEF p
  <2>4. CASE s.next = i
    <3>1. i # n + 1 /\ i \in B
      BY <1>5, <2>1, <2>4
    <3>2. k \in 1..4 /\ i + k \in B /\ i + k \in 1..n + 1
      BY <1>4, <3>1 DEF k
    <3>3. w[i].out = Upto(i + k) /\ w[i].next = i + k
      <4>1. w[i].out = Then(Upto(i), p) /\ w[i].next = i + k
        BY <2>1, <2>3, <2>4, <3>2
      <4> QED
        BY <1>6, <3>2, <4>1 DEF p
    <3> QED
      BY <2>1, <3>2, <3>3
  <2>5. CASE s.next # i
    <3>1. w[i] = s
      BY <2>3, <2>5
    <3>2. s.next > i
      BY <2>1, <2>5
    <3> QED
      BY <2>1, <3>1, <3>2
  <2> QED
    BY <2>4, <2>5
<1>9. n \in A
  <2> HIDE DEF A
  <2>1. \A i \in 0..n : i \in A
    BY <1>5, <1>7, <1>8, UpTo
  <2> QED
    BY <1>5, <2>1
<1>10. w[n].next = n + 1
  <2>1. w[n].next \in 1..n + 1 /\ w[n].next > n
    BY <1>4, <1>9
  <2> QED
    BY <1>5, <2>1
<1> QED
  BY <1>3, <1>6, <1>9, <1>10

\* A bounded set of numbers has a greatest, and Min and Max are of the set.
LEMMA Greatest ==
  ASSUME NEW n \in Nat, NEW S \in SUBSET (0..n), S # {}
  PROVE  /\ \E x \in S : \A y \in S : x >= y
         /\ Max(S) \in S /\ Min(S) \in S
<1> DEFINE Below(x) == n - x
           T == {Below(x) : x \in S}
<1>1. \A x \in S : x \in Int /\ Below(x) \in Nat
  OBVIOUS
<1>2. T \in SUBSET Nat /\ T # {}
  <2> HIDE DEF Below
  <2> QED
    BY <1>1
<1>3. PICK t \in T : \A u \in T : t =< u
  BY <1>2, Least
<1>4. PICK x \in S : t = Below(x)
  OBVIOUS
<1>5. \A y \in S : Below(x) =< Below(y)
  BY <1>3, <1>4
<1>6. \A y \in S : x >= y
  BY <1>1, <1>5
<1>7. Max(S) \in S
  BY <1>6 DEF Max
<1>8. S \in SUBSET Nat
  OBVIOUS
<1>9. \E y \in S : \A z \in S : y =< z
  BY <1>8, Least
<1>10. Min(S) \in S
  BY <1>9 DEF Min
<1> QED
  BY <1>6, <1>7, <1>10

\* A byte of a text of characters that is no continuation begins one.
LEMMA BeginsCharacter ==
  ASSUME NEW value \in Octets, NEW B, Marks(B, value), NEW j \in 1..Len(value),
         ~IsContinuation(value[j])
  PROVE  j \in B
<1> DEFINE n == Len(value)
           G == {b \in B : b <= j}
           L(i) == ValidSequenceLength(value, i)
<1>1. /\ B \subseteq 1..n + 1 /\ 1 \in B
      /\ \A i \in B : i = n + 1 \/ (L(i) \in 1..4 /\ i + L(i) \in B)
  BY DEF Marks
<1>2. n \in Nat
  BY DEF Octets
<1>3. n + 1 \in Nat /\ G \in SUBSET (0..n + 1) /\ G # {}
  <2>1. n + 1 \in Nat /\ \A b \in 1..n + 1 : b \in 0..n + 1
    BY <1>2
  <2>2. j \in 1..n
    OBVIOUS
  <2> HIDE DEF n
  <2>3. 1 \in G
    BY <1>1, <1>2, <2>2
  <2>4. G \subseteq 0..n + 1
    BY <1>1, <2>1
  <2> HIDE DEF G
  <2> QED
    BY <2>1, <2>3, <2>4
<1>4. PICK b \in G : \A c \in G : b >= c
  <2> HIDE DEF G
  <2> QED
    BY <1>3, Greatest
<1>5. b \in B /\ b <= j /\ b \in 1..n /\ b # n + 1
  BY <1>1, <1>2, <1>4
<1>6. L(b) \in 1..4 /\ b + L(b) \in B /\ b + L(b) \in 1..n + 1
  BY <1>1, <1>5
<1>7. \A k \in 1..L(b) - 1 : IsContinuation(value[b + k])
  BY <1>5, <1>6, SequenceBytes
<1> HIDE DEF L
<1>8. b + L(b) > j
  <2>1. SUFFICES ASSUME b + L(b) <= j PROVE FALSE
    BY <1>2, <1>6
  <2>2. b + L(b) \in G
    BY <1>6, <2>1
  <2>3. b >= b + L(b)
    BY <1>4, <2>2
  <2> QED
    BY <1>5, <1>6, <2>3
<1>9. j = b
  <2>1. SUFFICES ASSUME j # b PROVE FALSE
    OBVIOUS
  <2>2. j - b \in 1..L(b) - 1 /\ b + (j - b) = j
    BY <1>2, <1>5, <1>6, <1>8, <2>1
  <2> QED
    BY <1>7, <2>2
<1> QED
  BY <1>5, <1>9

\* What follows a place between characters is a text of characters.
LEMMA ValidSuffix ==
  ASSUME NEW value \in Octets, NEW B, Marks(B, value), NEW j \in B, j <= Len(value)
  PROVE  Valid(SubSeq(value, j, Len(value)))
<1> DEFINE n == Len(value)
           m == n - j + 1
           p == SubSeq(value, j, n)
           D == {b \in B : b >= j}
           T == {b - j + 1 : b \in D}
<1>1. /\ B \subseteq 1..n + 1
      /\ \A i \in B : \/ i = n + 1
                      \/ /\ ValidSequenceLength(value, i) \in 1..4
                         /\ i + ValidSequenceLength(value, i) \in B
  BY DEF Marks
<1>2. n \in Nat /\ j \in 1..n /\ m \in Nat /\ j + m - 1 = n
  <2>1. n \in Nat
    BY DEF Octets
  <2> QED
    BY <1>1, <2>1
<1>3. p \in Octets /\ Len(p) = m /\ \A k \in 1..m : p[k] = value[j + k - 1]
  <2>1. j \in 1..Len(value) /\ m \in Nat /\ j + m - 1 <= Len(value) /\ j + m - 1 = n
    BY <1>2
  <2> HIDE DEF m, n
  <2> QED
    BY <2>1, PieceIs
<1> HIDE DEF p
<1>4. ASSUME NEW i \in D, i # n + 1
      PROVE  /\ ValidSequenceLength(p, i - j + 1) \in 1..4
             /\ (i - j + 1) + ValidSequenceLength(p, i - j + 1) \in T
  <2> DEFINE k == ValidSequenceLength(value, i)
             h == i - j + 1
  <2>1. i \in 1..n /\ i >= j /\ k \in 1..4 /\ i + k \in B /\ ValidSequenceLength(value, i) = k
    BY <1>1, <1>2, <1>4
  <2>2. i + k - 1 <= n
    BY <2>1, SequenceBytes
  <2> HIDE DEF k
  <2>3. h \in 1..Len(p) /\ h + k - 1 <= Len(p)
    BY <1>2, <1>3, <2>1, <2>2
  <2>4. ASSUME NEW a \in 0..k - 1 PROVE p[h + a] = value[i + a]
    <3>1. h + a \in 1..m /\ j + (h + a) - 1 = i + a
      BY <1>2, <2>1, <2>2
    <3> QED
      BY <1>3, <3>1
  <2>5. i + k \in D /\ (i + k) - j + 1 = h + k
    BY <1>2, <2>1
  <2>6. h + k \in T
    BY <2>5
  <2> HIDE DEF h, T
  <2>7. ValidSequenceLength(p, h) = k
    BY <1>3, <2>1, <2>3, <2>4, SameSequence
  <2> QED
    BY <2>1, <2>6, <2>7 DEF h
<1>5. T \subseteq 1..m + 1 /\ 1 \in T
  <2>1. j \in D /\ j - j + 1 = 1
    BY <1>2
  <2>2. \A b \in D : b - j + 1 \in 1..m + 1
    BY <1>1, <1>2
  <2> QED
    BY <2>1, <2>2
<1>6. ASSUME NEW t \in T
      PROVE  \/ t = m + 1
             \/ /\ ValidSequenceLength(p, t) \in 1..4
                /\ t + ValidSequenceLength(p, t) \in T
  <2>1. PICK i \in D : t = i - j + 1
    OBVIOUS
  <2>2. i = n + 1 => t = m + 1
    BY <1>2, <2>1
  <2> HIDE DEF T
  <2> QED
    BY <1>4, <2>1, <2>2
<1> HIDE DEF T
<1>7. Marks(T, p)
  BY <1>3, <1>5, <1>6 DEF Marks
<1> QED
  BY <1>7 DEF Valid, p

\* Valid is what IsValidUtf8 says.
LEMMA IsValid ==
  ASSUME NEW value \in Octets
  PROVE  IsValidUtf8(value) <=> Valid(value)
BY ValidPasses, PassesValid

\* A text up to a byte, and from one byte to another.
LEMMA CutIs ==
  ASSUME NEW value \in Octets, NEW a \in Nat, NEW b \in Nat, a <= b, b <= Len(value)
  PROVE  /\ SubSeq(value, a + 1, b) \in Octets
         /\ SubSeq(value, 1, b) \in Octets /\ Len(SubSeq(value, 1, b)) = b
         /\ \A k \in 1..b : SubSeq(value, 1, b)[k] = value[k]
         /\ a < b => SubSeq(SubSeq(value, 1, b), a + 1, b) = SubSeq(value, a + 1, b)
<1>1. value \in Seq(Octet) /\ Len(value) \in Nat
  BY DEF Octets
<1>2. SubSeq(value, a + 1, b) \in Octets
  BY <1>1 DEF Octets
<1>3. /\ SubSeq(value, 1, b) \in Octets /\ Len(SubSeq(value, 1, b)) = b
      /\ \A k \in 1..b : SubSeq(value, 1, b)[k] = value[k]
  BY <1>1 DEF Octets
<1>4. ASSUME a < b PROVE SubSeq(SubSeq(value, 1, b), a + 1, b) = SubSeq(value, a + 1, b)
  <2>1. /\ 1 \in 1..Len(value) /\ b \in 1..Len(value)
        /\ a + 1 \in 1..b - 1 + 1 /\ b \in 1..b - 1 + 1
        /\ 1 + (a + 1) - 1 = a + 1 /\ 1 + b - 1 = b
    BY <1>1, <1>4
  <2>2. SubSeq(SubSeq(value, 1, b), a + 1, b) = SubSeq(value, 1 + (a + 1) - 1, 1 + b - 1)
    BY <1>1, <2>1, SubSeqOfSubSeq
  <2> QED
    BY <2>1, <2>2
<1> QED
  BY <1>2, <1>3, <1>4

\* The bytes before a match, from one that begins a character on.
LEMMA CutBefore ==
  ASSUME NEW value \in Octets, NEW a \in Nat, NEW b \in Nat, a < b, b <= Len(value),
         Valid(SubSeq(value, 1, b)), ~IsContinuation(value[a + 1])
  PROVE  Valid(SubSeq(value, a + 1, b))
<1> DEFINE p == SubSeq(value, 1, b)
           j == a + 1
<1>1. /\ p \in Octets /\ Len(p) = b /\ \A k \in 1..b : p[k] = value[k]
      /\ SubSeq(p, j, b) = SubSeq(value, j, b)
  BY CutIs
<1>2. PICK B : Marks(B, p)
  BY DEF Valid
<1> HIDE DEF p
<1>3. j \in 1..Len(p) /\ j <= Len(p)
  BY <1>1
<1>4. ~IsContinuation(p[j])
  BY <1>1, <1>3
<1> HIDE DEF j
<1>5. j \in B
  BY <1>1, <1>2, <1>3, <1>4, BeginsCharacter
<1>6. Valid(SubSeq(p, j, Len(p)))
  BY <1>1, <1>2, <1>3, <1>5, ValidSuffix
<1> QED
  BY <1>1, <1>6 DEF j

\* The context of a match is cut between characters, within its bound.
LEMMA ContextIs ==
  ASSUME NEW value \in Octets, NEW offset \in Nat, NEW size \in Nat, NEW around \in Nat,
         offset + size <= Len(value), IsValidUtf8(SubSeq(value, 1, offset)),
         NEW kept, kept = Utf8ContextAroundMatch(value, offset, size, around), kept # <<>>
  PROVE  /\ kept[1] \in offset - around..offset
         /\ kept[2] \in offset + size..offset + size + around
         /\ IsValidUtf8(SubSeq(value, kept[1] + 1, offset))
         /\ IsValidUtf8(SubSeq(value, offset + size + 1, kept[2]))
<1> DEFINE n == Len(value)
           matchEnd == offset + size
           low == IF offset > around THEN offset - around ELSE 0
           S == {s \in low..offset : s = offset \/ ~IsContinuation(value[s + 1])}
           high == Min({n, matchEnd + around})
           E == {e \in matchEnd..high : IsValidUtf8(SubSeq(value, matchEnd + 1, e))}
<1>1. kept = <<Min(S), Max(E)>>
  BY DEF Utf8ContextAroundMatch
<1>2. n \in Nat /\ matchEnd \in Nat /\ matchEnd <= n /\ low \in Nat /\ low <= offset
      /\ offset - around <= low /\ offset \in low..offset
  BY DEF Octets
<1>3. high \in Nat /\ high <= n /\ high <= matchEnd + around /\ matchEnd <= high
  <2>1. matchEnd + around \in Int /\ n \in Int
    BY <1>2
  <2> DEFINE m == matchEnd + around
  <2>2. m \in Int /\ n \in Int /\ matchEnd <= m /\ m \in Nat
    BY <1>2
  <2>3. high = IF n =< m THEN n ELSE m
    <3> HIDE DEF m, n
    <3>1. Min({n, m}) = IF n =< m THEN n ELSE m
      BY <2>2, OfTwo
    <3> QED
      BY <3>1 DEF m
  <2> HIDE DEF high, m
  <2> QED
    BY <1>2, <2>2, <2>3 DEF m
<1>4. Min(S) \in S
  <2>1. S \in SUBSET (0..offset) /\ S # {}
    BY <1>2
  <2> HIDE DEF S
  <2> QED
    BY <2>1, Greatest
<1> HIDE DEF high
<1>5. Max(E) \in E
  <2>1. matchEnd \in E
    <3>1. SubSeq(value, matchEnd + 1, matchEnd) = <<>>
      BY <1>2, SubSeqEmpty
    <3>2. <<>> \in Octets
      BY DEF Octets
    <3>3. IsValidUtf8(<<>>)
      BY <3>2, IsValid, ValidOne
    <3>4. matchEnd \in matchEnd..high
      BY <1>2, <1>3
    <3> QED
      BY <3>1, <3>3, <3>4
  <2>2. E \in SUBSET (0..high) /\ E # {}
    BY <1>2, <1>3, <2>1
  <2> HIDE DEF E
  <2> QED
    BY <1>3, <2>2, Greatest
<1> DEFINE a == Min(S)
           e == Max(E)
<1>6. kept[1] = a /\ kept[2] = e
  BY <1>1
<1>7. a \in low..offset /\ (a = offset \/ ~IsContinuation(value[a + 1]))
  BY <1>4
<1>8. e \in matchEnd..high /\ IsValidUtf8(SubSeq(value, matchEnd + 1, e))
  BY <1>5
<1> HIDE DEF a, e, low, matchEnd
<1>9. IsValidUtf8(SubSeq(value, a + 1, offset))
  <2>1. a \in Nat /\ a <= offset /\ offset <= Len(value)
    BY <1>2, <1>7 DEF matchEnd
  <2>2. SubSeq(value, a + 1, offset) \in Octets /\ SubSeq(value, 1, offset) \in Octets
    BY <2>1, CutIs
  <2>3. Valid(SubSeq(value, a + 1, offset))
    <3>1. CASE a = offset
      <4>1. SubSeq(value, a + 1, offset) = <<>>
        BY <2>1, <3>1, SubSeqEmpty
      <4> QED
        BY <4>1, ValidOne
    <3>2. CASE a # offset
      <4>1. a < offset /\ ~IsContinuation(value[a + 1])
        BY <1>7, <2>1, <3>2
      <4>2. Valid(SubSeq(value, 1, offset))
        BY <2>2, IsValid
      <4> QED
        BY <2>1, <4>1, <4>2, CutBefore
    <3> QED
      BY <3>1, <3>2
  <2> QED
    BY <2>2, <2>3, IsValid
<1>10. a \in offset - around..offset
  BY <1>2, <1>7
<1>11. e \in matchEnd..matchEnd + around
  BY <1>2, <1>3, <1>8
<1> QED
  BY <1>6, <1>8, <1>9, <1>10, <1>11 DEF matchEnd

\* For bytes of any length: a sequence is accepted exactly when it encodes a
\* Unicode scalar value in its shortest form; JsonString emits valid UTF-8 and
\* leaves valid UTF-8 alone; the context of a match is cut between characters
\* (ValidSequenceLength, JsonString, Utf8ContextAroundMatch).
THEOREM Utf8Soundness ==
  Spec => []Utf8IsSound
<1>1. ASSUME PoliciesInv, input.kind = "utf8"
      PROVE  input.text \in Octets
  <2>1. input.text \in Seq(Byte)
    BY <1>1 DEF PoliciesInv, InputOK, Alphabet
  <2>2. Byte \subseteq Octet
    BY PoliciesAssumption DEF Octet
  <2> QED
    BY <2>1, <2>2, SeqMonotonic DEF Octets
<1>2. ASSUME NEW value \in Octets
      PROVE  /\ \A i \in DOMAIN value, n \in 1..4 :
                  (ValidSequenceLength(value, i) = n)
                    <=> (i + n - 1 <= Len(value) /\ IsEncoding(SubSeq(value, i, i + n - 1)))
             /\ IsValidUtf8(JsonText(value))
             /\ IsValidUtf8(value) => JsonText(value) = value
  <2>1. DOMAIN value = 1..Len(value)
    BY DEF Octets
  <2>2. IsValidUtf8(JsonText(value))
    BY JsonValid, IsValid
  <2>3. IsValidUtf8(value) => JsonText(value) = value
    BY JsonSame, IsValid
  <2> QED
    BY <2>1, <2>2, <2>3, AcceptsEncodings
<1>3. ASSUME NEW value \in Octets, NEW offset \in 0..Len(value), NEW size \in 0..Len(value),
             NEW around \in 0..Len(value), offset + size <= Len(value),
             IsValidUtf8(SubSeq(value, 1, offset)),
             NEW kept, kept = Utf8ContextAroundMatch(value, offset, size, around), kept # <<>>
      PROVE  /\ kept[1] \in offset - around..offset
             /\ kept[2] \in offset + size..offset + size + around
             /\ IsValidUtf8(SubSeq(value, kept[1] + 1, offset))
             /\ IsValidUtf8(SubSeq(value, offset + size + 1, kept[2]))
  <2>1. offset \in Nat /\ size \in Nat /\ around \in Nat
    BY DEF Octets
  <2> QED
    BY <1>3, <2>1, ContextIs
<1>4. PoliciesInv => Utf8IsSound
  <2> SUFFICES ASSUME PoliciesInv, input.kind = "utf8" PROVE Utf8IsSound
    BY DEF Utf8IsSound
  <2> DEFINE value == input.text
  <2>1. value \in Octets
    BY <1>1
  <2> HIDE DEF value
  <2>2. /\ \A i \in DOMAIN value, n \in 1..4 :
             (ValidSequenceLength(value, i) = n)
               <=> (i + n - 1 <= Len(value) /\ IsEncoding(SubSeq(value, i, i + n - 1)))
        /\ IsValidUtf8(JsonText(value))
        /\ IsValidUtf8(value) => JsonText(value) = value
    BY <1>2, <2>1
  <2>3. \A offset, size, around \in 0..Len(value) :
          offset + size <= Len(value) /\ IsValidUtf8(SubSeq(value, 1, offset)) =>
            LET kept == Utf8ContextAroundMatch(value, offset, size, around)
            IN kept # <<>> => /\ kept[1] \in offset - around..offset
                              /\ kept[2] \in offset + size..offset + size + around
                              /\ IsValidUtf8(SubSeq(value, kept[1] + 1, offset))
                              /\ IsValidUtf8(SubSeq(value, offset + size + 1, kept[2]))
    BY <1>3, <2>1
  <2> QED
    BY <2>2, <2>3 DEF Utf8IsSound, value
<1> QED
  BY <1>4, PoliciesInvariant, PTL

\* Text reaches its reader as it was meant, whatever its length: arguments,
\* UTF-8 and the profile.
THEOREM TextReachesItsReader ==
  Spec => []TextIsFaithful
<1>1. ArgumentsSurvive /\ Utf8IsSound /\ SetProfileTakesEffect => TextIsFaithful
  BY DEF TextIsFaithful
<1> QED
  BY <1>1, ArgumentsReachTheDebuggee, Utf8Soundness, ProfileTakesEffect, PTL
================================================================================
