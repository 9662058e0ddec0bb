------------------------- MODULE ModelProtocolProofs -------------------------
(***************************************************************************)
(* What becomes of an answer, for all answers, batches and numbers of      *)
(* proposals: a harmless batch is read as it was written, and a failure is *)
(* blamed on the call it belongs to.                                       *)
(*                                                                         *)
(* The scanners count brackets wherever they stand.  A written item is     *)
(* therefore compared with the texts it holds by depth alone: it shadows   *)
(* them when it is nowhere deeper or less deep than they are somewhere, so *)
(* that texts that nest make an item whose first bracket is closed by its  *)
(* last.  Such blocks are split as they were joined; in an item the first  *)
(* place with a key is its field, and a string is read back character by   *)
(* character.                                                              *)
(***************************************************************************)
EXTENDS ModelProtocol, FiniteSetTheorems, SequenceTheorems, WellFoundedInduction, TLAPS

-----------------------------------------------------------------------------
(***************************************************************************)
(* Induction on numbers.                                                   *)
(***************************************************************************)
\* A set of numbers has a smallest.
LEMMA Smallest ==
    ASSUME NEW S, S \subseteq Nat, S # {}
    PROVE  \E x \in S : \A y \in S : x <= y
<1> DEFINE R == OpToRel(<, Nat)
<1>1. IsWellFoundedOn(R, Nat)
  BY NatLessThanWellFounded
<1>2. \A x, y \in Nat : <<y, x>> \in R <=> y < x
  BY DEF OpToRel
<1> HIDE DEF R
<1>3. PICK x \in S : \A y \in S : ~ (<<y, x>> \in R)
  BY <1>1, WFMin
<1>4. ASSUME NEW y \in S PROVE x <= y
  <2>1. x \in Nat /\ y \in Nat /\ ~(y < x)
    BY <1>2, <1>3
  <2>2. QED
    BY <2>1
<1>5. QED
  BY <1>4

\* Induction, on a set of numbers.
LEMMA Upward ==
    ASSUME NEW n \in Nat, NEW S, 0 \in S,
           \A i \in 1..n : i - 1 \in S => i \in S
    PROVE  \A i \in 0..n : i \in S
<1> DEFINE missing == {i \in 0..n : i \notin S}
<1>1. SUFFICES ASSUME missing # {} PROVE FALSE
  OBVIOUS
<1>2. missing \subseteq Nat
  OBVIOUS
<1>3. PICK i \in missing : \A j \in missing : i <= j
  BY <1>1, <1>2, Smallest
<1>4. i \in 1..n
  BY <1>3
<1>5. i - 1 \notin missing /\ i - 1 \in 0..n
  BY <1>3, <1>4
<1>6. QED
  BY <1>3, <1>4, <1>5

\* The values that a table of steps leads to.
Follows(f, n, base, step) == f[0] = base /\ \A i \in 1..n : f[i] = step[i][f[i - 1]]

\* There are such values, whatever the steps are.
LEMMA StepsExist ==
    ASSUME NEW n \in Nat, NEW T, NEW base \in T, NEW step \in [1..n -> [T -> T]]
    PROVE  \E f \in [0..n -> T] : Follows(f, n, base, step)
<1> DEFINE reached == {m \in 0..n : \E f \in [0..n -> T] : Follows(f, m, base, step)}
<1>1. 0 \in reached
  <2> DEFINE f == [i \in 0..n |-> base]
  <2>1. f \in [0..n -> T] /\ Follows(f, 0, base, step)
    BY DEF Follows
  <2> HIDE DEF f
  <2>2. QED
    BY <2>1
<1>2. ASSUME NEW m \in 1..n, m - 1 \in reached
      PROVE  m \in reached
  <2>1. PICK f \in [0..n -> T] : Follows(f, m - 1, base, step)
    BY <1>2
  <2> HIDE DEF reached
  <2> DEFINE value == step[m][f[m - 1]]
             g == [f EXCEPT ![m] = value]
  <2>2. m \in 0..n /\ m - 1 \in 0..n /\ m # 0 /\ m - 1 # m
    BY <1>2
  <2>3. value \in T
    <3>1. f[m - 1] \in T
      BY <2>1, <2>2
    <3>2. QED
      BY <3>1
  <2> HIDE DEF value
  <2>4. /\ g \in [0..n -> T] /\ g[m] = value
        /\ \A i \in 0..n : i # m => g[i] = f[i]
    BY <2>2, <2>3
  <2> HIDE DEF g
  <2>5. g[0] = base
    BY <2>1, <2>2, <2>4 DEF Follows
  <2>6. ASSUME NEW i \in 1..m
        PROVE  g[i] = step[i][g[i - 1]]
    <3>1. i \in 0..n /\ i - 1 \in 0..n /\ i - 1 # m
      BY <2>2
    <3>2. CASE i = m
      BY <2>2, <2>4, <3>1, <3>2 DEF value
    <3>3. CASE i # m
      <4>1. i \in 1..(m - 1)
        BY <2>2, <3>3
      <4>2. f[i] = step[i][f[i - 1]]
        BY <2>1, <4>1 DEF Follows
      <4>3. QED
        BY <2>4, <3>1, <3>3, <4>2
    <3>4. QED
      BY <3>2, <3>3
  <2>7. Follows(g, m, base, step)
    BY <2>5, <2>6 DEF Follows
  <2>8. QED
    BY <2>2, <2>4, <2>7 DEF reached
<1> HIDE DEF reached
<1>3. n \in reached
  <2>1. \A m \in 1..n : m - 1 \in reached => m \in reached
    BY <1>2
  <2>2. \A m \in 0..n : m \in reached
    BY <1>1, <2>1, Upward
  <2>3. QED
    BY <2>2
<1>4. QED
  BY <1>3 DEF reached

-----------------------------------------------------------------------------
(***************************************************************************)
(* How deep a position is.                                                 *)
(***************************************************************************)
\* The keys and operation names of an item: the tokens that are no characters.
Keys == {"path", "search", "replacement", "position", "text", "start", "end",
         "source", "from", "to"}

Operations == {"replace_text", "insert_text", "remove_text",
               "create_file", "delete_file", "rename_file"}

Tokens == ReadChars \cup Keys \cup Operations

\* A bracket opens, closes or does nothing.
Turn(char, open, close) == IF char = open THEN 1 ELSE IF char = close THEN -1 ELSE 0

\* How often x stands among the first i tokens.
Count(s, i, x) == Cardinality({j \in 1..i : s[j] = x})

LEMMA CountSteps ==
    ASSUME NEW s, NEW x
    PROVE  /\ Count(s, 0, x) = 0
           /\ \A i \in Nat :
                 /\ Count(s, i, x) \in Int
                 /\ Count(s, i + 1, x) = Count(s, i, x) + (IF s[i + 1] = x THEN 1 ELSE 0)
<1> DEFINE here(k) == {j \in 1..k : s[j] = x}
<1>1. Count(s, 0, x) = 0
  <2>1. here(0) = {}
    OBVIOUS
  <2>2. QED
    BY <2>1, FS_EmptySet, Zenon DEF Count
<1>2. ASSUME NEW i \in Nat
      PROVE  /\ Count(s, i, x) \in Int
             /\ Count(s, i + 1, x) = Count(s, i, x) + (IF s[i + 1] = x THEN 1 ELSE 0)
  <2> DEFINE n == i + 1
  <2>1. IsFiniteSet(1..i)
    BY FS_Interval
  <2>2. here(i) \in SUBSET (1..i)
    OBVIOUS
  <2>3. IsFiniteSet(here(i))
    BY <2>1, <2>2, FS_Subset, Zenon
  <2>4. Cardinality(here(i)) \in Nat
    BY <2>3, FS_CardinalityType, Zenon
  <2>5. here(n) = IF s[n] = x THEN here(i) \cup {n} ELSE here(i)
    OBVIOUS
  <2>6. n \notin here(i)
    OBVIOUS
  <2>7. Cardinality(here(i) \cup {n}) = Cardinality(here(i)) + 1
    <3> HIDE DEF n, here
    <3>1. QED
      BY <2>3, <2>6, FS_AddElement
  <2>8. Count(s, i, x) = Cardinality(here(i)) /\ Count(s, n, x) = Cardinality(here(n))
    BY Zenon DEF Count
  <2> HIDE DEF here
  <2>9. QED
    BY <2>4, <2>5, <2>7, <2>8
<1>3. QED
  BY <1>1, <1>2

\* A depth changes with each bracket, and by one.
LEMMA DepthSteps ==
    ASSUME NEW s, NEW open, NEW close, open # close
    PROVE  /\ Depth(s, 0, open, close) = 0
           /\ \A i \in Nat :
                 /\ Depth(s, i, open, close) \in Int
                 /\ Depth(s, i + 1, open, close)
                       = Depth(s, i, open, close) + Turn(s[i + 1], open, close)
<1>1. \A i : Depth(s, i, open, close) = Count(s, i, open) - Count(s, i, close)
  BY Zenon DEF Depth, Count
<1>2. /\ Count(s, 0, open) = 0 /\ Count(s, 0, close) = 0
      /\ \A i \in Nat :
            /\ Count(s, i, open) \in Int /\ Count(s, i, close) \in Int
            /\ Count(s, i + 1, open) = Count(s, i, open) + (IF s[i + 1] = open THEN 1 ELSE 0)
            /\ Count(s, i + 1, close) = Count(s, i, close) + (IF s[i + 1] = close THEN 1 ELSE 0)
  BY CountSteps
<1>3. QED
  BY <1>1, <1>2 DEF Turn

\* w stands in s from behind position a on.
Holds(s, a, w) == a + Len(w) <= Len(s) /\ \A k \in 1..Len(w) : s[a + k] = w[k]

\* What stands in a text is as deep in it as alone, from the depth where it begins.
LEMMA DepthWithin ==
    ASSUME NEW s \in Seq(Tokens), NEW w \in Seq(Tokens), NEW a \in Nat, Holds(s, a, w),
           NEW open, NEW close, open # close
    PROVE  \A k \in 0..Len(w) :
              Depth(s, a + k, open, close) = Depth(s, a, open, close) + Depth(w, k, open, close)
<1> DEFINE D(i) == Depth(s, i, open, close)
           E(i) == Depth(w, i, open, close)
           n == Len(w)
           fits == {k \in 0..n : D(a + k) = D(a) + E(k)}
<1>1. /\ D(a) \in Int /\ E(0) = 0 /\ n \in Nat
      /\ \A k \in 1..n : D(a + k) = D(a + (k - 1)) + Turn(s[a + k], open, close)
      /\ \A k \in 1..n : E(k) = E(k - 1) + Turn(w[k], open, close)
      /\ \A k \in 0..n : E(k) \in Int
  <2>1. /\ E(0) = 0 /\ \A i \in Nat : D(i) \in Int /\ E(i) \in Int
        /\ \A i \in Nat : D(i + 1) = D(i) + Turn(s[i + 1], open, close)
        /\ \A i \in Nat : E(i + 1) = E(i) + Turn(w[i + 1], open, close)
    BY DepthSteps
  <2> HIDE DEF D, E
  <2>2. n \in Nat
    OBVIOUS
  <2>3. ASSUME NEW k \in 1..n
        PROVE  /\ D(a + k) = D(a + (k - 1)) + Turn(s[a + k], open, close)
               /\ E(k) = E(k - 1) + Turn(w[k], open, close)
    <3> DEFINE m == k - 1
    <3>1. m \in Nat /\ a + m \in Nat /\ (a + m) + 1 = a + k /\ m + 1 = k
      BY <2>2
    <3> HIDE DEF m
    <3>2. /\ D(a + k) = D(a + m) + Turn(s[a + k], open, close)
          /\ E(k) = E(m) + Turn(w[k], open, close)
      BY <2>1, <3>1
    <3>3. QED
      BY <3>2 DEF m
  <2>4. D(a) \in Int /\ \A k \in 0..n : E(k) \in Int
    BY <2>1, <2>2
  <2> HIDE DEF n
  <2>5. QED
    BY <2>1, <2>2, <2>3, <2>4
<1>2. \A k \in 1..n : s[a + k] = w[k]
  BY DEF Holds
<1> HIDE DEF D, E, n
<1>3. 0 \in fits
  BY <1>1
<1>4. ASSUME NEW k \in 1..n, k - 1 \in fits
      PROVE  k \in fits
  <2> DEFINE m == k - 1
  <2>1. m \in 0..n /\ k \in 0..n
    BY <1>1
  <2>2. D(a + m) = D(a) + E(m)
    BY <1>4
  <2>3. /\ D(a + k) = D(a + m) + Turn(w[k], open, close)
        /\ E(k) = E(m) + Turn(w[k], open, close)
    BY <1>1, <1>2
  <2> HIDE DEF m
  <2>4. E(k) \in Int /\ E(m) \in Int
    BY <1>1, <2>1
  <2>5. Turn(w[k], open, close) \in Int
    BY DEF Turn
  <2>6. D(a + k) = D(a) + E(k)
    BY <1>1, <2>2, <2>3, <2>4, <2>5
  <2>7. QED
    BY <2>1, <2>6
<1> HIDE DEF fits
<1>5. \A k \in 1..n : k - 1 \in fits => k \in fits
  BY <1>4
<1>6. \A k \in 0..n : k \in fits
  BY <1>1, <1>3, <1>5, Upward
<1>7. QED
  BY <1>6 DEF fits, D, E, n

-----------------------------------------------------------------------------
(***************************************************************************)
(* Blocks: find_matching_bracket finds their end.                          *)
(***************************************************************************)
\* The first of some positions, when it is known.
LEMMA FirstIs ==
    ASSUME NEW S, S \subseteq Nat, NEW x \in S, \A y \in S : x <= y
    PROVE  First(S) = x
<1>1. \A y \in S : y \in Nat
  OBVIOUS
<1>2. \E y \in S : \A z \in S : y <= z
  OBVIOUS
<1>3. First(S) \in S /\ \A z \in S : First(S) <= z
  BY <1>2, Zenon DEF First
<1>4. x <= First(S) /\ First(S) <= x /\ x \in Nat /\ First(S) \in Nat
  BY <1>1, <1>3
<1>5. QED
  BY <1>4

\* A text between two characters.
Between(x, m, y) == <<x>> \o m \o <<y>>

\* What stands between two characters is found behind the first.
LEMMA Enclosed ==
    ASSUME NEW T, NEW x \in T, NEW y \in T, NEW m \in Seq(T), NEW w, w = Between(x, m, y)
    PROVE  /\ w \in Seq(T) /\ Len(w) = Len(m) + 2
           /\ w[1] = x /\ w[Len(w)] = y /\ Holds(w, 1, m)
<1> DEFINE n == Len(m)
<1>1. /\ <<x>> \in Seq(T) /\ <<y>> \in Seq(T) /\ Len(<<x>>) = 1 /\ Len(<<y>>) = 1
      /\ <<x>>[1] = x /\ <<y>>[1] = y /\ n \in Nat
  OBVIOUS
<1> DEFINE before == <<x>>
           behind == <<y>>
<1> HIDE DEF before, behind
<1>2. /\ before \in Seq(T) /\ behind \in Seq(T) /\ Len(before) = 1 /\ Len(behind) = 1
      /\ before[1] = x /\ behind[1] = y
  BY <1>1 DEF before, behind
<1> DEFINE u1 == before \o m
           w1 == u1 \o behind
<1>3. /\ u1 \in Seq(T) /\ Len(u1) = 1 + n
      /\ \A i \in 1..(1 + n) : u1[i] = IF i <= 1 THEN before[i] ELSE m[i - 1]
  <2>1. /\ u1 \in Seq(T) /\ Len(u1) = Len(before) + Len(m)
        /\ \A i \in 1..(Len(before) + Len(m)) :
              u1[i] = IF i <= Len(before) THEN before[i] ELSE m[i - Len(before)]
    BY <1>2, ConcatProperties, Zenon
  <2>2. QED
    BY <1>2, <2>1, Zenon
<1> HIDE DEF u1
<1>4. /\ w1 \in Seq(T) /\ Len(w1) = 1 + n + 1
      /\ \A i \in 1..(1 + n + 1) : w1[i] = IF i <= 1 + n THEN u1[i] ELSE behind[i - (1 + n)]
  <2>1. /\ w1 \in Seq(T) /\ Len(w1) = Len(u1) + Len(behind)
        /\ \A i \in 1..(Len(u1) + Len(behind)) :
              w1[i] = IF i <= Len(u1) THEN u1[i] ELSE behind[i - Len(u1)]
    BY <1>2, <1>3, ConcatProperties, Zenon
  <2>2. QED
    BY <1>2, <1>3, <2>1, Zenon
<1> HIDE DEF w1, n
<1>5. w1[1] = x
  <2>1. 1 \in 1..(1 + n) /\ 1 \in 1..(1 + n + 1) /\ 1 <= 1 + n
    BY <1>1
  <2>2. QED
    BY <1>2, <1>3, <1>4, <2>1
<1>6. w1[1 + n + 1] = y
  <2>1. 1 + n + 1 \in 1..(1 + n + 1) /\ ~(1 + n + 1 <= 1 + n) /\ (1 + n + 1) - (1 + n) = 1
    BY <1>1
  <2>2. QED
    BY <1>2, <1>4, <2>1
<1>7. \A k \in 1..n : w1[1 + k] = m[k]
  <2> SUFFICES ASSUME NEW k \in 1..n PROVE w1[1 + k] = m[k]
    OBVIOUS
  <2>1. /\ 1 + k \in 1..(1 + n) /\ 1 + k \in 1..(1 + n + 1) /\ 1 + k <= 1 + n
        /\ ~(1 + k <= 1) /\ (1 + k) - 1 = k
    BY <1>1
  <2>2. QED
    BY <1>3, <1>4, <2>1
<1>8. 1 + n + 1 = n + 2 /\ 1 + n <= n + 2
  BY <1>1
<1>9. /\ w1 \in Seq(T) /\ Len(w1) = n + 2 /\ w1[1] = x /\ w1[Len(w1)] = y
      /\ 1 + n <= Len(w1) /\ \A k \in 1..n : w1[1 + k] = m[k]
  BY <1>4, <1>5, <1>6, <1>7, <1>8
<1>10. w = w1
  BY DEF w1, u1, before, behind, Between
<1>11. QED
  BY <1>9, <1>10 DEF Holds, n

\* A block opens with its first character and closes with its last.
IsBlock(w, open, close) ==
    /\ Len(w) >= 2 /\ w[1] = open /\ w[Len(w)] = close
    /\ Depth(w, Len(w), open, close) = 0
    /\ \A k \in 1..(Len(w) - 1) : Depth(w, k, open, close) >= 1

\* No bracket is closed before it is opened, and none is left open.
Nests(m, open, close) ==
    /\ Depth(m, Len(m), open, close) = 0
    /\ \A k \in 0..Len(m) : Depth(m, k, open, close) >= 0

\* What nests makes a block between its brackets.
LEMMA EnclosedIsBlock ==
    ASSUME NEW open \in Tokens, NEW close \in Tokens, open # close,
           NEW m \in Seq(Tokens), Nests(m, open, close),
           NEW w, w = Between(open, m, close)
    PROVE  IsBlock(w, open, close)
<1> DEFINE D(i) == Depth(w, i, open, close)
           E(i) == Depth(m, i, open, close)
           n == Len(m)
<1>1. /\ w \in Seq(Tokens) /\ Len(w) = n + 2 /\ n \in Nat
      /\ w[1] = open /\ w[Len(w)] = close /\ Holds(w, 1, m)
  <2>1. /\ w \in Seq(Tokens) /\ Len(w) = Len(m) + 2
        /\ w[1] = open /\ w[Len(w)] = close /\ Holds(w, 1, m)
    BY Enclosed
  <2>2. QED
    BY <2>1
<1>2. \A k \in 0..n : D(1 + k) = D(1) + E(k)
  <2>1. 1 \in Nat
    OBVIOUS
  <2>2. \A k \in 0..Len(m) :
           Depth(w, 1 + k, open, close) = Depth(w, 1, open, close) + Depth(m, k, open, close)
    <3> HIDE DEF n, D, E
    <3>1. QED
      BY <1>1, <2>1, DepthWithin
  <2>3. QED
    BY <2>2
<1>3. /\ D(0) = 0 /\ \A i \in Nat : D(i) \in Int /\ E(i) \in Int
      /\ \A i \in Nat : D(i + 1) = D(i) + Turn(w[i + 1], open, close)
  BY DepthSteps
<1>4. E(n) = 0 /\ \A k \in 0..n : E(k) >= 0
  BY DEF Nests
<1> HIDE DEF D, E, n
<1>5. D(1) = 1
  <2> DEFINE one == 0 + 1
  <2>1. 0 \in Nat /\ one = 1
    OBVIOUS
  <2> HIDE DEF one
  <2>2. D(one) = D(0) + Turn(w[one], open, close)
    BY <1>3, <2>1 DEF one
  <2>3. Turn(w[1], open, close) = 1
    BY <1>1 DEF Turn
  <2>4. QED
    BY <1>3, <2>1, <2>2, <2>3
<1>6. D(n + 2) = 0
  <2>1. /\ n + 1 \in Nat /\ (n + 1) + 1 = n + 2 /\ 1 + n = n + 1 /\ n \in 0..n
    BY <1>1
  <2>2. D(n + 1) = 1
    BY <1>2, <1>4, <1>5, <2>1
  <2>3. D(n + 2) = D(n + 1) + Turn(w[n + 2], open, close)
    BY <1>3, <2>1
  <2>4. w[n + 2] = close
    BY <1>1
  <2>5. Turn(w[n + 2], open, close) = 0 - 1
    BY <2>4 DEF Turn
  <2>6. QED
    BY <2>2, <2>3, <2>5
<1>7. ASSUME NEW k \in 1..(n + 1) PROVE D(k) >= 1
  <2> DEFINE j == k - 1
  <2>1. j \in 0..n /\ 1 + j = k /\ j \in Nat
    BY <1>1
  <2> HIDE DEF j
  <2>2. D(k) = 1 + E(j) /\ E(j) >= 0 /\ E(j) \in Int
    BY <1>2, <1>3, <1>4, <1>5, <2>1
  <2>3. QED
    BY <2>2
<1>8. (n + 2) - 1 = n + 1 /\ n + 2 >= 2
  BY <1>1
<1>9. QED
  BY <1>1, <1>6, <1>7, <1>8 DEF IsBlock, D

\* Wherever a block stands, the search for its end finds it.
LEMMA BlockCloses ==
    ASSUME NEW s \in Seq(Tokens), NEW w \in Seq(Tokens), NEW a \in Nat, Holds(s, a, w),
           NEW open, NEW close, open # close, IsBlock(w, open, close)
    PROVE  /\ Closes(s, a + 1, open, close) # {}
           /\ First(Closes(s, a + 1, open, close)) = a + Len(w)
<1> DEFINE ends == Closes(s, a + 1, open, close)
           D(i) == Depth(s, i, open, close)
           E(i) == Depth(w, i, open, close)
           n == Len(w)
<1>1. n \in Nat /\ a + n <= Len(s) /\ Len(s) \in Nat /\ n >= 2
      /\ \A k \in 1..n : s[a + k] = w[k]
  BY DEF Holds, IsBlock
<1>2. /\ \A k \in 0..n : D(a + k) = D(a) + E(k)
      /\ D(a) \in Int /\ \A i \in Nat : E(i) \in Int
  <2>1. \A k \in 0..n : D(a + k) = D(a) + E(k)
    <3>1. \A k \in 0..Len(w) :
              Depth(s, a + k, open, close) = Depth(s, a, open, close) + Depth(w, k, open, close)
      BY DepthWithin
    <3>2. QED
      BY <3>1
  <2>2. D(a) \in Int /\ \A i \in Nat : E(i) \in Int
    BY DepthSteps, Zenon
  <2>3. QED
    BY <2>1, <2>2
<1>3. ends = {j \in 1..Len(s) : j > a + 1 /\ s[j] = close /\ D(j) = D(a)}
  BY DEF Closes
<1>4. w[n] = close /\ E(n) = 0 /\ \A k \in 1..(n - 1) : E(k) >= 1
  BY DEF IsBlock
<1> HIDE DEF ends, D, E, n
<1>5. a + n \in ends
  <2>1. n \in 0..n /\ n \in 1..n /\ a + n \in 1..Len(s) /\ a + n > a + 1
    BY <1>1
  <2>2. s[a + n] = close
    BY <1>1, <1>4, <2>1
  <2>3. D(a + n) = D(a)
    BY <1>2, <1>4, <2>1
  <2>4. QED
    BY <1>3, <2>1, <2>2, <2>3
<1>6. ASSUME NEW j \in ends PROVE a + n <= j
  <2>1. j \in 1..Len(s) /\ j > a + 1 /\ D(j) = D(a)
    BY <1>3
  <2>2. SUFFICES ASSUME j < a + n PROVE FALSE
    BY <1>1, <2>1
  <2> DEFINE k == j - a
  <2>3. k \in 1..(n - 1) /\ k \in 0..n /\ a + k = j /\ k \in Nat
    BY <1>1, <2>1, <2>2
  <2> HIDE DEF k
  <2>4. D(j) = D(a) + E(k) /\ E(k) >= 1 /\ E(k) \in Int
    BY <1>2, <1>4, <2>3
  <2>5. QED
    BY <1>2, <2>1, <2>4
<1>7. ends \subseteq Nat
  BY <1>3
<1>8. First(ends) = a + n
  BY <1>5, <1>6, <1>7, FirstIs
<1>9. QED
  BY <1>5, <1>8 DEF ends, n

-----------------------------------------------------------------------------
(***************************************************************************)
(* Texts of parts.                                                         *)
(***************************************************************************)
\* Where the two halves of a text stand.
LEMMA ConcatHolds ==
    ASSUME NEW T, NEW u \in Seq(T), NEW v \in Seq(T)
    PROVE  /\ u \o v \in Seq(T) /\ Len(u \o v) = Len(u) + Len(v)
           /\ Holds(u \o v, 0, u) /\ Holds(u \o v, Len(u), v)
           /\ \A a \in Nat, w \in Seq(T) : Holds(u, a, w) => Holds(u \o v, a, w)
<1> DEFINE c == u \o v
<1>1. /\ c \in Seq(T) /\ Len(c) = Len(u) + Len(v)
      /\ \A i \in 1..(Len(u) + Len(v)) : c[i] = IF i <= Len(u) THEN u[i] ELSE v[i - Len(u)]
  BY ConcatProperties, Zenon
<1> HIDE DEF c
<1>2. Len(u) \in Nat /\ Len(v) \in Nat
  OBVIOUS
<1> DEFINE m == Len(u)
           n == Len(v)
<1> HIDE DEF m, n
<1>3. /\ Len(c) = m + n /\ m \in Nat /\ n \in Nat
      /\ \A i \in 1..(m + n) : c[i] = IF i <= m THEN u[i] ELSE v[i - m]
  BY <1>1, <1>2 DEF m, n
<1>4. Len(u) = m /\ Len(v) = n
  BY DEF m, n
<1>5. Holds(c, 0, u)
  <2>1. 0 + m <= m + n /\ \A k \in 1..m : k \in 1..(m + n) /\ k <= m /\ 0 + k = k
    BY <1>3
  <2>2. \A k \in 1..m : c[0 + k] = u[k]
    BY <1>3, <2>1
  <2>3. QED
    BY <1>3, <1>4, <2>1, <2>2 DEF Holds
<1>6. Holds(c, m, v)
  <2>1. m + n <= m + n
        /\ \A k \in 1..n : m + k \in 1..(m + n) /\ ~(m + k <= m) /\ (m + k) - m = k
    BY <1>3
  <2>2. \A k \in 1..n : c[m + k] = v[k]
    BY <1>3, <2>1
  <2>3. QED
    BY <1>3, <1>4, <2>1, <2>2 DEF Holds
<1>7. ASSUME NEW a \in Nat, NEW w \in Seq(T), Holds(u, a, w)
      PROVE  Holds(c, a, w)
  <2> DEFINE l == Len(w)
  <2>1. l \in Nat
    OBVIOUS
  <2>2. a + l <= m /\ \A k \in 1..l : u[a + k] = w[k]
    BY <1>4, <1>7 DEF Holds
  <2> HIDE DEF l
  <2>3. a + l <= m + n /\ \A k \in 1..l : a + k \in 1..(m + n) /\ a + k <= m
    BY <1>3, <2>1, <2>2
  <2>4. \A k \in 1..l : c[a + k] = w[k]
    BY <1>3, <2>2, <2>3
  <2>5. QED
    BY <1>3, <2>3, <2>4 DEF Holds, l
<1>8. QED
  BY <1>1, <1>4, <1>5, <1>6, <1>7 DEF c

\* s is made of the parts W, the i-th of which ends at ends[i].
Laid(s, W, ends) ==
    /\ ends \in [0..Len(W) -> Nat] /\ ends[0] = 0 /\ ends[Len(W)] = Len(s)
    /\ \A i \in 1..Len(W) : ends[i] = ends[i - 1] + Len(W[i]) /\ Holds(s, ends[i - 1], W[i])

\* Parts are joined one after the other.
LEMMA FlattenSteps ==
    ASSUME NEW T, NEW W \in Seq(Seq(T)), Len(W) # 0
    PROVE  \E f \in [0..Len(W) -> Seq(T)] :
              /\ f[0] = <<>> /\ \A i \in 1..Len(W) : f[i] = f[i - 1] \o W[i]
              /\ FlattenSeq(W) = f[Len(W)]
<1> DEFINE n == Len(W)
           step == [i \in 1..n |-> [x \in Seq(T) |-> x \o W[i]]]
           Step(h) == [i \in 1..n |-> IF i = 1 THEN W[i] ELSE h[i - 1] \o W[i]]
           flatten == CHOOSE h : h = Step(h)
<1>1. n \in Nat /\ n # 0 /\ <<>> \in Seq(T) /\ \A i \in 1..n : W[i] \in Seq(T)
  OBVIOUS
<1>2. FlattenSeq(W) = flatten[n]
  BY Zenon DEF FlattenSeq
<1> HIDE DEF n
<1>3. step \in [1..n -> [Seq(T) -> Seq(T)]]
  <2>1. \A i \in 1..n, x \in Seq(T) : x \o W[i] \in Seq(T)
    BY <1>1, ConcatProperties
  <2>2. QED
    BY <2>1
<1>4. \A i \in 1..n, x \in Seq(T) : step[i][x] = x \o W[i]
  OBVIOUS
<1> HIDE DEF step
<1>5. PICK f \in [0..n -> Seq(T)] : Follows(f, n, <<>>, step)
  BY <1>1, <1>3, StepsExist
<1>6. f[0] = <<>> /\ \A i \in 1..n : f[i] = f[i - 1] \o W[i]
  <2>1. \A i \in 1..n : i - 1 \in 0..n /\ f[i - 1] \in Seq(T)
    BY <1>1
  <2>2. QED
    BY <1>4, <1>5, <2>1 DEF Follows
<1> DEFINE g == [i \in 1..n |-> f[i]]
           At(h, i) == IF i = 1 THEN W[i] ELSE h[i - 1] \o W[i]
<1>7. \A i \in 1..n : g[i] = At(g, i)
  <2> SUFFICES ASSUME NEW i \in 1..n PROVE g[i] = At(g, i)
    OBVIOUS
  <2>1. CASE i = 1
    <3>1. f[1] = <<>> \o W[1]
      <4>1. 1 - 1 = 0
        OBVIOUS
      <4>2. QED
        BY <1>6, <2>1, <4>1
    <3>2. W[1] \in Seq(T)
      BY <1>1, <2>1
    <3>3. QED
      BY <2>1, <3>1, <3>2, ConcatEmptySeq
  <2>2. CASE i # 1
    <3>1. i - 1 \in 1..n /\ g[i - 1] = f[i - 1]
      BY <1>1, <2>2
    <3>2. QED
      BY <1>6, <2>2, <3>1
  <2>3. QED
    BY <2>1, <2>2
<1>8. g = Step(g)
  <2>1. Step(g) = [i \in 1..n |-> At(g, i)] /\ g = [i \in 1..n |-> g[i]]
    OBVIOUS
  <2> HIDE DEF g, At
  <2>2. QED
    BY <1>7, <2>1
<1>9. flatten = Step(flatten)
  <2> HIDE DEF g, Step
  <2>1. QED
    BY <1>8
<1> HIDE DEF flatten
<1>10. \A i \in 1..n : flatten[i] = At(flatten, i)
  <2> DEFINE h == flatten
  <2>1. \A x : x = Step(x) => \A i \in 1..n : x[i] = At(x, i)
    OBVIOUS
  <2> HIDE DEF Step, At
  <2>2. QED
    BY <1>9, <2>1
<1>11. n \in {i \in 0..n : i = 0 \/ flatten[i] = f[i]}
  <2> DEFINE same == {i \in 0..n : i = 0 \/ flatten[i] = f[i]}
  <2>1. 0 \in same
    BY <1>1
  <2>2. ASSUME NEW i \in 1..n, i - 1 \in same PROVE i \in same
    <3>1. CASE i = 1
      <4>1. flatten[i] = W[i] /\ g[i] = W[i] /\ g[i] = f[i]
        BY <1>7, <1>10, <3>1
      <4>2. QED
        BY <4>1
    <3>2. CASE i # 1
      <4>1. i - 1 # 0 /\ flatten[i - 1] = f[i - 1]
        BY <2>2, <3>2
      <4>2. flatten[i] = f[i - 1] \o W[i]
        BY <1>10, <3>2, <4>1
      <4>3. f[i] = f[i - 1] \o W[i]
        BY <1>6
      <4>4. flatten[i] = f[i]
        BY <4>2, <4>3, Zenon
      <4>5. i \in 0..n
        BY <1>1
      <4>6. QED
        BY <4>4, <4>5
    <3>3. QED
      BY <3>1, <3>2
  <2> HIDE DEF same
  <2>3. \A i \in 1..n : i - 1 \in same => i \in same
    BY <2>2
  <2>4. \A i \in 0..n : i \in same
    BY <1>1, <2>1, <2>3, Upward
  <2>5. n \in same
    BY <1>1, <2>4
  <2>6. QED
    BY <2>5 DEF same
<1>12. FlattenSeq(W) = f[n]
  BY <1>1, <1>2, <1>11
<1>13. QED
  BY <1>6, <1>12 DEF n

\* Where the parts of a joined text stand.
LEMMA FlattenLaid ==
    ASSUME NEW T, NEW W \in Seq(Seq(T))
    PROVE  FlattenSeq(W) \in Seq(T) /\ \E ends : Laid(FlattenSeq(W), W, ends)
<1> DEFINE n == Len(W)
<1>1. n \in Nat /\ DOMAIN W = 1..n /\ \A i \in 1..n : W[i] \in Seq(T)
  OBVIOUS
<1>2. CASE n = 0
  <2> DEFINE none == [i \in 0..n |-> 0]
  <2>1. FlattenSeq(W) = W /\ W = <<>>
    BY <1>2 DEF FlattenSeq
  <2>2. Laid(W, W, none)
    <3>1. none \in [0..Len(W) -> Nat] /\ none[0] = 0 /\ none[Len(W)] = Len(W) /\ 1..Len(W) = {}
      BY <1>2
    <3>2. QED
      BY <3>1 DEF Laid
  <2>3. FlattenSeq(W) \in Seq(T)
    BY <2>1
  <2>4. QED
    BY <2>1, <2>2, <2>3
<1>3. CASE n # 0
  <2>1. PICK f \in [0..n -> Seq(T)] :
           /\ f[0] = <<>> /\ \A i \in 1..n : f[i] = f[i - 1] \o W[i]
           /\ FlattenSeq(W) = f[n]
    BY <1>3, FlattenSteps
  <2> HIDE DEF n
  <2> DEFINE ends == [i \in 0..n |-> Len(f[i])]
             laid == {m \in 0..n : \A i \in 1..m : Holds(f[m], ends[i - 1], W[i])}
  <2>2. \A i \in 0..n : f[i] \in Seq(T) /\ Len(f[i]) \in Nat /\ ends[i] = Len(f[i])
    BY LenProperties
  <2>3. ends \in [0..n -> Nat] /\ ends[0] = 0
    <3>1. 0 \in 0..n /\ Len(f[0]) = 0
      BY <1>1, <2>1
    <3>2. QED
      BY <2>2, <3>1
  <2> HIDE DEF ends
  <2>4. ASSUME NEW i \in 1..n
        PROVE  /\ i - 1 \in 0..n /\ i \in 0..n
               /\ ends[i] = ends[i - 1] + Len(W[i])
               /\ Holds(f[i], ends[i - 1], W[i])
               /\ \A a \in Nat, w \in Seq(T) : Holds(f[i - 1], a, w) => Holds(f[i], a, w)
    <3>1. i - 1 \in 0..n /\ i \in 0..n
      BY <1>1
    <3>2. f[i - 1] \in Seq(T) /\ W[i] \in Seq(T) /\ f[i] = f[i - 1] \o W[i]
      BY <1>1, <2>1, <2>2, <3>1
    <3> DEFINE u == f[i - 1]
               v == W[i]
               c == f[i]
    <3>3. u \in Seq(T) /\ v \in Seq(T) /\ c = u \o v
      BY <3>2
    <3> HIDE DEF u, v, c
    <3>4. /\ Len(c) = Len(u) + Len(v)
          /\ Holds(c, Len(u), v)
          /\ \A a \in Nat, w \in Seq(T) : Holds(u, a, w) => Holds(c, a, w)
      <4>1. /\ Len(u \o v) = Len(u) + Len(v)
            /\ Holds(u \o v, Len(u), v)
            /\ \A a \in Nat, w \in Seq(T) : Holds(u, a, w) => Holds(u \o v, a, w)
        BY <3>3, ConcatHolds
      <4>2. QED
        BY <3>3, <4>1, Zenon
    <3>5. QED
      BY <2>2, <3>1, <3>4 DEF u, v, c
  <2>5. 0 \in laid
    BY <1>1
  <2>6. ASSUME NEW m \in 1..n, m - 1 \in laid PROVE m \in laid
    <3>1. SUFFICES ASSUME NEW i \in 1..m PROVE Holds(f[m], ends[i - 1], W[i])
      BY <2>4
    <3>2. CASE i = m
      BY <2>4, <3>2
    <3>3. CASE i # m
      <4>1. i \in 1..(m - 1) /\ i \in 1..n
        BY <1>1, <3>3
      <4>2. Holds(f[m - 1], ends[i - 1], W[i])
        BY <2>6, <4>1
      <4>3. ends[i - 1] \in Nat /\ W[i] \in Seq(T)
        BY <1>1, <2>3, <2>4, <4>1
      <4>4. QED
        BY <2>4, <4>2, <4>3
    <3>4. QED
      BY <3>2, <3>3
  <2> HIDE DEF laid
  <2>7. \A m \in 1..n : m - 1 \in laid => m \in laid
    BY <2>6
  <2>8. \A m \in 0..n : m \in laid
    BY <1>1, <2>5, <2>7, Upward
  <2>9. n \in laid /\ n \in 0..n
    BY <1>1, <2>8
  <2>10. \A i \in 1..n : Holds(f[n], ends[i - 1], W[i])
    BY <2>9 DEF laid
  <2>11. Laid(f[n], W, ends)
    BY <2>2, <2>3, <2>4, <2>9, <2>10 DEF Laid, n
  <2>12. QED
    BY <2>1, <2>2, <2>9, <2>11
<1>4. QED
  BY <1>2, <1>3

\* Every position is in one of the parts.
InPart(W, ends, p) == \E i \in 1..Len(W) : \E k \in 1..Len(W[i]) : p = ends[i - 1] + k

LEMMA Located ==
    ASSUME NEW W \in Seq(Seq(Tokens)), NEW s, NEW ends, Laid(s, W, ends)
    PROVE  \A p \in 1..Len(s) : InPart(W, ends, p)
<1> SUFFICES ASSUME NEW p \in 1..Len(s) PROVE InPart(W, ends, p)
  OBVIOUS
<1> DEFINE n == Len(W)
           behind == {i \in 0..n : p <= ends[i]}
<1>1. /\ n \in Nat /\ ends \in [0..n -> Nat] /\ ends[0] = 0 /\ ends[n] = Len(s)
      /\ \A i \in 1..n : ends[i] = ends[i - 1] + Len(W[i]) /\ Len(W[i]) \in Nat
  BY DEF Laid
<1> HIDE DEF n
<1>2. n \in behind /\ behind \subseteq Nat
  BY <1>1
<1>3. PICK i \in behind : \A j \in behind : i <= j
  BY <1>2, Smallest
<1>4. i \in 0..n /\ i # 0 /\ p <= ends[i]
  BY <1>1, <1>3
<1>5. i \in 1..n /\ i - 1 \in 0..n /\ i - 1 \notin behind
  BY <1>1, <1>3, <1>4
<1>6. ends[i - 1] < p /\ ends[i - 1] \in Nat
  BY <1>1, <1>5
<1>7. ends[i] = ends[i - 1] + Len(W[i]) /\ Len(W[i]) \in Nat
  BY <1>1, <1>5
<1> DEFINE k == p - ends[i - 1]
<1>8. k \in 1..Len(W[i]) /\ p = ends[i - 1] + k
  BY <1>4, <1>6, <1>7
<1>9. QED
  BY <1>5, <1>8 DEF n, InPart

\* The parts follow each other.
LEMMA EndsRise ==
    ASSUME NEW W \in Seq(Seq(Tokens)), NEW s, NEW ends, Laid(s, W, ends)
    PROVE  \A i, j \in 0..Len(W) : i <= j => ends[i] <= ends[j]
<1> DEFINE n == Len(W)
<1>1. /\ n \in Nat /\ ends \in [0..n -> Nat]
      /\ \A i \in 1..n : ends[i] = ends[i - 1] + Len(W[i]) /\ Len(W[i]) \in Nat
  BY DEF Laid
<1> HIDE DEF n
<1>2. SUFFICES ASSUME NEW i \in 0..n PROVE \A j \in 0..n : i <= j => ends[i] <= ends[j]
  BY DEF n
<1> DEFINE above == {j \in 0..n : i <= j => ends[i] <= ends[j]}
<1>3. 0 \in above
  BY <1>1
<1>4. ASSUME NEW j \in 1..n, j - 1 \in above PROVE j \in above
  <2>1. CASE i = j
    BY <1>1, <2>1
  <2>2. CASE i # j
    <3>1. j - 1 \in 0..n /\ j \in 0..n /\ (i <= j => i <= j - 1)
      BY <1>1, <2>2
    <3>2. ends[j] = ends[j - 1] + Len(W[j]) /\ Len(W[j]) \in Nat
          /\ ends[j - 1] \in Nat /\ ends[i] \in Nat
      BY <1>1, <3>1
    <3>3. i <= j - 1 => ends[i] <= ends[j - 1]
      BY <1>4
    <3>4. QED
      BY <3>1, <3>2, <3>3
  <2>3. QED
    BY <2>1, <2>2
<1> HIDE DEF above
<1>5. \A j \in 1..n : j - 1 \in above => j \in above
  BY <1>4
<1>6. \A j \in 0..n : j \in above
  BY <1>1, <1>3, <1>5, Upward
<1>7. QED
  BY <1>6 DEF above

-----------------------------------------------------------------------------
(***************************************************************************)
(* Shadows: what is written around a text does not change its depths.      *)
(***************************************************************************)
\* w is as deep as t in the end, and never as deep as t is nowhere.
Shadows(w, t, open, close) ==
    /\ Depth(w, Len(w), open, close) = Depth(t, Len(t), open, close)
    /\ \A i \in 0..Len(w) : \E j \in 0..Len(t) :
          Depth(w, i, open, close) = Depth(t, j, open, close)

\* What shadows a text that nests, nests.
LEMMA ShadowNests ==
    ASSUME NEW w, NEW t, NEW open, NEW close,
           Shadows(w, t, open, close), Nests(t, open, close)
    PROVE  Nests(w, open, close)
BY DEF Shadows, Nests

\* A text shadows itself.
LEMMA ShadowsItself ==
    ASSUME NEW w \in Seq(Tokens), NEW open, NEW close
    PROVE  Shadows(w, w, open, close)
BY DEF Shadows

\* A text without brackets shadows nothing.
LEMMA NeutralShadows ==
    ASSUME NEW w \in Seq(Tokens), NEW open, NEW close, open # close,
           \A i \in 1..Len(w) : w[i] \notin {open, close}
    PROVE  Shadows(w, <<>>, open, close)
<1> DEFINE D(i) == Depth(w, i, open, close)
           E(i) == Depth(<<>>, i, open, close)
           n == Len(w)
           flat == {i \in 0..n : D(i) = 0}
<1>1. /\ D(0) = 0 /\ E(0) = 0
      /\ \A i \in Nat : D(i) \in Int /\ D(i + 1) = D(i) + Turn(w[i + 1], open, close)
  BY DepthSteps
<1>2. n \in Nat /\ Len(<<>>) = 0
  OBVIOUS
<1> HIDE DEF D, E, n
<1>3. 0 \in flat
  BY <1>1, <1>2
<1>4. ASSUME NEW i \in 1..n, i - 1 \in flat PROVE i \in flat
  <2> DEFINE j == i - 1
  <2>1. j \in Nat /\ j + 1 = i /\ D(j) = 0 /\ i \in 0..n
    BY <1>2, <1>4
  <2> HIDE DEF j
  <2>2. D(i) = D(j) + Turn(w[i], open, close)
    BY <1>1, <2>1
  <2>3. Turn(w[i], open, close) = 0
    BY DEF Turn, n
  <2>4. QED
    BY <2>1, <2>2, <2>3
<1> HIDE DEF flat
<1>5. \A i \in 1..n : i - 1 \in flat => i \in flat
  BY <1>4
<1>6. \A i \in 0..n : i \in flat
  BY <1>2, <1>3, <1>5, Upward
<1>7. /\ \A i \in 0..n : D(i) = E(0)
      /\ 0 \in 0..0 /\ n \in 0..n
  BY <1>1, <1>2, <1>6 DEF flat
<1>8. QED
  BY <1>2, <1>7 DEF Shadows, D, E, n

\* The first half of a text is as deep as alone.
LEMMA DepthBefore ==
    ASSUME NEW u \in Seq(Tokens), NEW v \in Seq(Tokens), NEW open, NEW close, open # close
    PROVE  \A i \in 0..Len(u) : Depth(u \o v, i, open, close) = Depth(u, i, open, close)
<1> DEFINE c == u \o v
<1>1. c \in Seq(Tokens) /\ Holds(c, 0, u)
  BY ConcatHolds
<1> HIDE DEF c
<1>2. 0 \in Nat
  OBVIOUS
<1>3. \A i \in 0..Len(u) :
         Depth(c, 0 + i, open, close) = Depth(c, 0, open, close) + Depth(u, i, open, close)
  BY <1>1, <1>2, DepthWithin
<1>4. /\ Depth(c, 0, open, close) = 0
      /\ \A i \in Nat : Depth(u, i, open, close) \in Int
  BY DepthSteps
<1>5. ASSUME NEW i \in 0..Len(u)
      PROVE  Depth(c, i, open, close) = Depth(u, i, open, close)
  <2>1. 0 + i = i /\ i \in Nat
    OBVIOUS
  <2>2. Depth(c, 0 + i, open, close) = Depth(c, 0, open, close) + Depth(u, i, open, close)
    BY <1>3
  <2>3. QED
    BY <1>4, <2>1, <2>2
<1>6. QED
  BY <1>5 DEF c

\* The second half is as deep as alone, from where the first ends.
LEMMA DepthBehind ==
    ASSUME NEW u \in Seq(Tokens), NEW v \in Seq(Tokens), NEW open, NEW close, open # close
    PROVE  \A k \in 0..Len(v) :
              Depth(u \o v, Len(u) + k, open, close)
                 = Depth(u, Len(u), open, close) + Depth(v, k, open, close)
<1> DEFINE c == u \o v
           m == Len(u)
<1>1. c \in Seq(Tokens) /\ Holds(c, m, v)
  BY ConcatHolds
<1>2. Depth(c, m, open, close) = Depth(u, m, open, close)
  <2>1. m \in 0..Len(u)
    OBVIOUS
  <2>2. \A i \in 0..Len(u) : Depth(c, i, open, close) = Depth(u, i, open, close)
    BY DepthBefore
  <2> HIDE DEF c, m
  <2>3. QED
    BY <2>1, <2>2
<1>3. m \in Nat
  OBVIOUS
<1> HIDE DEF c, m
<1>4. \A k \in 0..Len(v) :
         Depth(c, m + k, open, close) = Depth(c, m, open, close) + Depth(v, k, open, close)
  BY <1>1, <1>3, DepthWithin
<1>5. QED
  BY <1>2, <1>4 DEF c, m

\* Shadows are joined.
LEMMA ConcatShadows ==
    ASSUME NEW w1 \in Seq(Tokens), NEW w2 \in Seq(Tokens),
           NEW t1 \in Seq(Tokens), NEW t2 \in Seq(Tokens),
           NEW open, NEW close, open # close,
           Shadows(w1, t1, open, close), Shadows(w2, t2, open, close)
    PROVE  Shadows(w1 \o w2, t1 \o t2, open, close)
<1>1. Len(w1 \o w2) = Len(w1) + Len(w2)
  BY ConcatProperties
<1>2. \A i \in 0..Len(w1) : Depth(w1 \o w2, i, open, close) = Depth(w1, i, open, close)
  BY DepthBefore
<1>3. \A k \in 0..Len(w2) :
         Depth(w1 \o w2, Len(w1) + k, open, close)
            = Depth(w1, Len(w1), open, close) + Depth(w2, k, open, close)
  BY DepthBehind
<1>4. Len(t1 \o t2) = Len(t1) + Len(t2)
  BY ConcatProperties
<1>5. \A i \in 0..Len(t1) : Depth(t1 \o t2, i, open, close) = Depth(t1, i, open, close)
  BY DepthBefore
<1>6. \A k \in 0..Len(t2) :
         Depth(t1 \o t2, Len(t1) + k, open, close)
            = Depth(t1, Len(t1), open, close) + Depth(t2, k, open, close)
  BY DepthBehind
<1> DEFINE D(s, i) == Depth(s, i, open, close)
           w == w1 \o w2
           t == t1 \o t2
<1>7. /\ Len(w) = Len(w1) + Len(w2)
      /\ \A i \in 0..Len(w1) : D(w, i) = D(w1, i)
      /\ \A k \in 0..Len(w2) : D(w, Len(w1) + k) = D(w1, Len(w1)) + D(w2, k)
      /\ Len(t) = Len(t1) + Len(t2)
      /\ \A i \in 0..Len(t1) : D(t, i) = D(t1, i)
      /\ \A k \in 0..Len(t2) : D(t, Len(t1) + k) = D(t1, Len(t1)) + D(t2, k)
  BY <1>1, <1>2, <1>3, <1>4, <1>5, <1>6, Zenon
<1>8. /\ D(w1, Len(w1)) = D(t1, Len(t1)) /\ D(w2, Len(w2)) = D(t2, Len(t2))
      /\ \A i \in 0..Len(w1) : \E j \in 0..Len(t1) : D(w1, i) = D(t1, j)
      /\ \A i \in 0..Len(w2) : \E j \in 0..Len(t2) : D(w2, i) = D(t2, j)
  BY DEF Shadows
<1> DEFINE m == Len(w1)
           n == Len(w2)
           k == Len(t1)
           l == Len(t2)
<1>9. m \in Nat /\ n \in Nat /\ k \in Nat /\ l \in Nat
  OBVIOUS
<1> HIDE DEF w, t, D, m, n, k, l
<1>10. D(w, m + n) = D(t, k + l)
  <2>1. n \in 0..n /\ l \in 0..l
    BY <1>9
  <2>2. D(w, m + n) = D(w1, m) + D(w2, n) /\ D(t, k + l) = D(t1, k) + D(t2, l)
    BY <1>7, <2>1 DEF m, n, k, l
  <2>3. D(w1, m) = D(t1, k) /\ D(w2, n) = D(t2, l)
    BY <1>8 DEF m, n, k, l
  <2>4. QED
    BY <2>2, <2>3
<1>11. ASSUME NEW i \in 0..(m + n)
      PROVE  \E j \in 0..(k + l) : D(w, i) = D(t, j)
  <2>1. CASE i <= m
    <3>1. i \in 0..m
      BY <1>9, <2>1
    <3>2. PICK j \in 0..k : D(w1, i) = D(t1, j)
      BY <1>8, <3>1 DEF m, k
    <3>3. D(w, i) = D(w1, i) /\ D(t, j) = D(t1, j)
      BY <1>7, <3>1 DEF m, k
    <3>4. j \in 0..(k + l)
      BY <1>9
    <3>5. QED
      BY <3>2, <3>3, <3>4
  <2>2. CASE ~(i <= m)
    <3> DEFINE h == i - m
    <3>1. h \in 0..n /\ m + h = i
      BY <1>9, <2>2
    <3> HIDE DEF h
    <3>2. PICK j \in 0..l : D(w2, h) = D(t2, j)
      BY <1>8, <3>1 DEF n, l
    <3>3. D(w, m + h) = D(w1, m) + D(w2, h) /\ D(t, k + j) = D(t1, k) + D(t2, j)
      BY <1>7, <3>1 DEF m, n, k, l
    <3>4. k + j \in 0..(k + l)
      BY <1>9
    <3>5. D(w1, m) = D(t1, k)
      BY <1>8 DEF m, k
    <3>6. D(w, i) = D(t, k + j)
      BY <3>1, <3>2, <3>3, <3>5
    <3>7. QED
      BY <3>4, <3>6
  <2>3. QED
    BY <2>1, <2>2
<1>12. Len(w) = m + n /\ Len(t) = k + l
  BY <1>7 DEF m, n, k, l
<1>13. Shadows(w, t, open, close)
  BY <1>10, <1>11, <1>12 DEF Shadows, D
<1>14. QED
  BY <1>13 DEF w, t

\* What is made of parts that shadow the parts of another, shadows that.
LEMMA LaidShadows ==
    ASSUME NEW W \in Seq(Seq(Tokens)), NEW V \in Seq(Seq(Tokens)), Len(W) = Len(V),
           NEW s \in Seq(Tokens), NEW t \in Seq(Tokens),
           NEW ends, NEW stops, Laid(s, W, ends), Laid(t, V, stops),
           NEW open, NEW close, open # close,
           \A i \in 1..Len(W) : Shadows(W[i], V[i], open, close)
    PROVE  Shadows(s, t, open, close)
<1>0. \A p \in 1..Len(s) : InPart(W, ends, p)
  BY Located
<1> DEFINE D(x, i) == Depth(x, i, open, close)
           n == Len(W)
           level == {i \in 0..n : D(s, ends[i]) = D(t, stops[i])}
<1>1. /\ n \in Nat
      /\ \A i \in 1..n : W[i] \in Seq(Tokens) /\ V[i] \in Seq(Tokens)
      /\ \A i \in 1..n : Len(W[i]) \in Nat /\ Len(V[i]) \in Nat
  BY LenProperties
<1>2. /\ ends \in [0..n -> Nat] /\ ends[0] = 0 /\ ends[n] = Len(s)
      /\ \A i \in 1..n : ends[i] = ends[i - 1] + Len(W[i]) /\ Holds(s, ends[i - 1], W[i])
      /\ stops \in [0..n -> Nat] /\ stops[0] = 0 /\ stops[n] = Len(t)
      /\ \A i \in 1..n : stops[i] = stops[i - 1] + Len(V[i]) /\ Holds(t, stops[i - 1], V[i])
  BY DEF Laid
<1>3. \A i \in 0..n : stops[i] <= Len(t)
  <2>1. \A i, j \in 0..Len(V) : i <= j => stops[i] <= stops[j]
    BY EndsRise
  <2>2. QED
    BY <1>1, <1>2, <2>1
<1> HIDE DEF n
<1>4. ASSUME NEW i \in 1..n
      PROVE  /\ \A k \in 0..Len(W[i]) : D(s, ends[i - 1] + k) = D(s, ends[i - 1]) + D(W[i], k)
             /\ \A k \in 0..Len(V[i]) : D(t, stops[i - 1] + k) = D(t, stops[i - 1]) + D(V[i], k)
             /\ D(W[i], Len(W[i])) = D(V[i], Len(V[i]))
             /\ \A k \in 0..Len(W[i]) : \E j \in 0..Len(V[i]) : D(W[i], k) = D(V[i], j)
  <2> DEFINE a == ends[i - 1]
             b == stops[i - 1]
             x == W[i]
             y == V[i]
  <2>1. a \in Nat /\ b \in Nat
    BY <1>1, <1>2
  <2>2. x \in Seq(Tokens) /\ y \in Seq(Tokens) /\ Holds(s, a, x) /\ Holds(t, b, y)
    BY <1>1, <1>2
  <2>3. Shadows(x, y, open, close)
    BY DEF n
  <2> HIDE DEF a, b, x, y
  <2>4. /\ \A k \in 0..Len(x) :
              Depth(s, a + k, open, close) = Depth(s, a, open, close) + Depth(x, k, open, close)
        /\ \A k \in 0..Len(y) :
              Depth(t, b + k, open, close) = Depth(t, b, open, close) + Depth(y, k, open, close)
    BY <2>1, <2>2, DepthWithin
  <2>5. /\ Depth(x, Len(x), open, close) = Depth(y, Len(y), open, close)
        /\ \A k \in 0..Len(x) : \E j \in 0..Len(y) :
              Depth(x, k, open, close) = Depth(y, j, open, close)
    BY <2>3 DEF Shadows
  <2>6. QED
    BY <2>4, <2>5 DEF a, b, x, y
<1>5. D(s, 0) = 0 /\ D(t, 0) = 0
  BY DepthSteps
<1> HIDE DEF D
<1>6. 0 \in level
  BY <1>1, <1>2, <1>5
<1>7. ASSUME NEW i \in 1..n, i - 1 \in level PROVE i \in level
  <2>1. D(s, ends[i - 1]) = D(t, stops[i - 1]) /\ i \in 0..n
    BY <1>1, <1>7
  <2>2. Len(W[i]) \in 0..Len(W[i]) /\ Len(V[i]) \in 0..Len(V[i])
    BY <1>1
  <2>3. /\ D(s, ends[i - 1] + Len(W[i])) = D(s, ends[i - 1]) + D(W[i], Len(W[i]))
        /\ D(t, stops[i - 1] + Len(V[i])) = D(t, stops[i - 1]) + D(V[i], Len(V[i]))
    BY <1>4, <2>2
  <2>4. D(s, ends[i]) = D(t, stops[i])
    BY <1>2, <1>4, <2>1, <2>3
  <2>5. QED
    BY <2>1, <2>4
<1> HIDE DEF level
<1>8. \A i \in 1..n : i - 1 \in level => i \in level
  BY <1>7
<1>9. \A i \in 0..n : i \in level
  BY <1>1, <1>6, <1>8, Upward
<1>10. \A i \in 0..n : D(s, ends[i]) = D(t, stops[i])
  BY <1>9 DEF level
<1>11. D(s, Len(s)) = D(t, Len(t))
  BY <1>1, <1>2, <1>10
<1>12. ASSUME NEW p \in 0..Len(s)
       PROVE  \E q \in 0..Len(t) : D(s, p) = D(t, q)
  <2>1. CASE p = 0
    <3>1. 0 \in 0..Len(t)
      BY LenProperties
    <3>2. QED
      BY <1>5, <2>1, <3>1
  <2>2. CASE p # 0
    <3>1. p \in 1..Len(s)
      BY <2>2
    <3>2. PICK i \in 1..n : \E k \in 1..Len(W[i]) : p = ends[i - 1] + k
      BY <1>0, <3>1 DEF n, InPart
    <3>3. PICK k \in 1..Len(W[i]) : p = ends[i - 1] + k
      BY <3>2
    <3>4. i - 1 \in 0..n /\ i \in 0..n /\ k \in 0..Len(W[i])
      BY <1>1
    <3>5. PICK j \in 0..Len(V[i]) : D(W[i], k) = D(V[i], j)
      BY <1>4, <3>4
    <3>6. D(s, p) = D(t, stops[i - 1] + j)
      BY <1>4, <1>10, <3>3, <3>4, <3>5
    <3>7. stops[i - 1] + j \in 0..Len(t)
      <4> DEFINE from == stops[i - 1]
                 l == Len(V[i])
      <4>1. /\ from \in Nat /\ stops[i] \in Nat /\ l \in Nat
            /\ stops[i] = from + l /\ stops[i] <= Len(t) /\ Len(t) \in Nat /\ j \in 0..l
        BY <1>1, <1>2, <1>3, <3>4, LenProperties
      <4> HIDE DEF from, l
      <4>2. from + j \in 0..Len(t)
        BY <4>1
      <4>3. QED
        BY <4>2 DEF from
    <3>8. QED
      BY <3>6, <3>7
  <2>3. QED
    BY <2>1, <2>2
<1>13. QED
  BY <1>11, <1>12 DEF Shadows, D

-----------------------------------------------------------------------------
(***************************************************************************)
(* split_top_level_objects, extract_array_body.                            *)
(***************************************************************************)
\* What stands in a text is cut out of it.
LEMMA SubSeqHeld ==
    ASSUME NEW s \in Seq(Tokens), NEW w \in Seq(Tokens), NEW a \in Nat, Holds(s, a, w)
    PROVE  SubSeq(s, a + 1, a + Len(w)) = w
<1> DEFINE n == Len(w)
           c == SubSeq(s, a + 1, a + n)
<1>1. n \in Nat /\ a + n <= Len(s) /\ \A k \in 1..n : s[a + k] = w[k]
  BY DEF Holds
<1> HIDE DEF n
<1>2. \A i \in (a + 1)..(a + n) : s[i] \in Tokens
  BY <1>1
<1>3. /\ c \in Seq(Tokens)
      /\ Len(c) = IF a + 1 <= a + n THEN (a + n) - (a + 1) + 1 ELSE 0
      /\ \A i \in 1..((a + n) - (a + 1) + 1) : c[i] = s[a + 1 + i - 1]
  <2>1. a + 1 \in Int /\ a + n \in Int
    BY <1>1
  <2>2. QED
    BY <1>2, <2>1, SubSeqProperties
<1> HIDE DEF c
<1>4. Len(c) = n /\ (a + n) - (a + 1) + 1 = n
  BY <1>1, <1>3
<1>5. \A i \in 1..n : c[i] = w[i]
  <2> SUFFICES ASSUME NEW i \in 1..n PROVE c[i] = w[i]
    OBVIOUS
  <2>1. a + 1 + i - 1 = a + i
    BY <1>1
  <2>2. c[i] = s[a + i]
    BY <1>3, <1>4, <2>1
  <2>3. QED
    BY <1>1, <2>2
<1>6. c = w
  BY <1>3, <1>4, <1>5, SeqEqual DEF n
<1>7. QED
  BY <1>6 DEF c, n

FirstOf(b, m) == {b[i] : i \in 1..m}

\* As many numbers as there are, when each is above the one before.
LEMMA Ranked ==
    ASSUME NEW n \in Nat, NEW b, \A i \in 1..n : b[i] \in Nat,
           \A i, j \in 1..n : i < j => b[i] < b[j]
    PROVE  \A m \in 0..n : Cardinality(FirstOf(b, m)) = m
<1> SUFFICES ASSUME NEW m \in 0..n PROVE Cardinality(FirstOf(b, m)) = m
  OBVIOUS
<1> DEFINE S == {b[i] : i \in 1..m}
           f == [i \in 1..m |-> b[i]]
<1>1. m \in Nat /\ \A i \in 1..m : i \in 1..n
  OBVIOUS
<1>2. \A i, j \in 1..m : b[i] = b[j] => i = j
  <2> SUFFICES ASSUME NEW i \in 1..m, NEW j \in 1..m, b[i] = b[j], i # j PROVE FALSE
    OBVIOUS
  <2>1. i < j \/ j < i
    BY <1>1
  <2>2. b[i] \in Nat /\ b[j] \in Nat /\ (i < j => b[i] < b[j]) /\ (j < i => b[j] < b[i])
    BY <1>1
  <2>3. QED
    BY <2>1, <2>2
<1>3. f \in [1..m -> S] /\ \A i \in 1..m : f[i] = b[i]
  OBVIOUS
<1>4. \A x \in S : \E i \in 1..m : f[i] = x
  OBVIOUS
<1>5. \A i, j \in 1..m : f[i] = f[j] => i = j
  BY <1>2, <1>3
<1> HIDE DEF f, S
<1>6. f \in Bijection(1..m, S)
  BY <1>3, <1>4, <1>5 DEF Bijection, Injection, Surjection, IsInjective
<1>7. ExistsBijection(1..m, S)
  BY <1>6 DEF ExistsBijection
<1>8. Cardinality(S) = m
  BY <1>1, <1>7, FS_CountingElements, Zenon
<1>9. QED
  BY <1>8 DEF S, FirstOf

\* Objects that are blocks are split as they were joined.
LEMMA ObjectsAre ==
    ASSUME NEW W \in Seq(Seq(Tokens)), NEW s \in Seq(Tokens), NEW ends, Laid(s, W, ends),
           \A i \in 1..Len(W) : IsBlock(W[i], "lbrace", "rbrace")
    PROVE  Objects(s) = W
<1> DEFINE n == Len(W)
           D(p) == Depth(s, p, "lbrace", "rbrace")
           ground == {i \in 0..n : D(ends[i]) = 0}
           starts == ObjectStarts(s)
           b == [i \in 1..n |-> ends[i - 1] + 1]
<1>0. \A p \in 1..Len(s) : InPart(W, ends, p)
  BY Located
<1>1. /\ n \in Nat /\ Len(s) \in Nat /\ DOMAIN s = 1..Len(s) /\ DOMAIN W = 1..n
      /\ \A i \in 1..n : W[i] \in Seq(Tokens) /\ Len(W[i]) \in Nat
  BY LenProperties
<1>2. /\ ends \in [0..n -> Nat] /\ ends[0] = 0 /\ ends[n] = Len(s)
      /\ \A i \in 1..n : ends[i] = ends[i - 1] + Len(W[i]) /\ Holds(s, ends[i - 1], W[i])
  BY DEF Laid
<1>3. \A i, j \in 0..n : i <= j => ends[i] <= ends[j]
  BY EndsRise
<1>4. \A i \in 1..n : IsBlock(W[i], "lbrace", "rbrace")
  OBVIOUS
<1> HIDE DEF n
<1>5. \A i \in 1..n : i - 1 \in 0..n /\ i \in 0..n /\ ends[i - 1] \in Nat /\ ends[i] \in Nat
  BY <1>1, <1>2
<1>6. ASSUME NEW i \in 1..n
      PROVE  /\ \A k \in 0..Len(W[i]) :
                   D(ends[i - 1] + k) = D(ends[i - 1]) + Depth(W[i], k, "lbrace", "rbrace")
             /\ Closes(s, ends[i - 1] + 1, "lbrace", "rbrace") # {}
             /\ First(Closes(s, ends[i - 1] + 1, "lbrace", "rbrace")) = ends[i]
             /\ SubSeq(s, ends[i - 1] + 1, ends[i]) = W[i]
             /\ Len(W[i]) >= 2 /\ s[ends[i - 1] + 1] = "lbrace"
             /\ Depth(W[i], Len(W[i]), "lbrace", "rbrace") = 0
             /\ \A k \in 1..(Len(W[i]) - 1) : Depth(W[i], k, "lbrace", "rbrace") >= 1
  <2> DEFINE a == ends[i - 1]
             w == W[i]
  <2>1. a \in Nat /\ w \in Seq(Tokens) /\ Holds(s, a, w) /\ IsBlock(w, "lbrace", "rbrace")
        /\ ends[i] = a + Len(w)
    BY <1>1, <1>2, <1>4, <1>5
  <2> HIDE DEF a, w
  <2>2. "lbrace" # "rbrace"
    OBVIOUS
  <2>3. \A k \in 0..Len(w) :
           Depth(s, a + k, "lbrace", "rbrace")
              = Depth(s, a, "lbrace", "rbrace") + Depth(w, k, "lbrace", "rbrace")
    <3>1. \A open, close : open # close =>
             \A k \in 0..Len(w) :
                Depth(s, a + k, open, close) = Depth(s, a, open, close) + Depth(w, k, open, close)
      BY <2>1, DepthWithin
    <3>2. QED
      BY <2>2, <3>1
  <2>4. /\ Closes(s, a + 1, "lbrace", "rbrace") # {}
        /\ First(Closes(s, a + 1, "lbrace", "rbrace")) = a + Len(w)
    BY <2>1, <2>2, BlockCloses
  <2>5. SubSeq(s, a + 1, a + Len(w)) = w
    BY <2>1, SubSeqHeld
  <2>6. /\ Len(w) >= 2 /\ w[1] = "lbrace" /\ Depth(w, Len(w), "lbrace", "rbrace") = 0
        /\ \A k \in 1..(Len(w) - 1) : Depth(w, k, "lbrace", "rbrace") >= 1
    BY <2>1 DEF IsBlock
  <2>7. s[a + 1] = "lbrace"
    <3>1. 1 \in 1..Len(w)
      BY <2>1, <2>6, LenProperties
    <3>2. QED
      BY <2>1, <2>6, <3>1 DEF Holds
  <2>8. QED
    BY <2>1, <2>3, <2>4, <2>5, <2>6, <2>7 DEF a, w
<1>7. \A i \in Nat : D(i) \in Int /\ D(0) = 0
  BY DepthSteps
<1> HIDE DEF D
<1>8. \A i \in 0..n : D(ends[i]) = 0
  <2>1. 0 \in ground
    BY <1>1, <1>2, <1>7
  <2>2. ASSUME NEW i \in 1..n, i - 1 \in ground PROVE i \in ground
    <3>1. Len(W[i]) \in 0..Len(W[i])
      BY <1>1
    <3>2. D(ends[i - 1] + Len(W[i])) = D(ends[i - 1]) + Depth(W[i], Len(W[i]), "lbrace", "rbrace")
      BY <1>6, <3>1
    <3>3. D(ends[i - 1]) = 0 /\ Depth(W[i], Len(W[i]), "lbrace", "rbrace") = 0
      BY <1>6, <2>2
    <3>4. D(ends[i]) = 0
      BY <1>2, <3>2, <3>3
    <3>5. QED
      BY <1>5, <3>4
  <2> HIDE DEF ground
  <2>3. \A i \in 1..n : i - 1 \in ground => i \in ground
    BY <2>2
  <2>4. \A i \in 0..n : i \in ground
    BY <1>1, <2>1, <2>3, Upward
  <2>5. QED
    BY <2>4 DEF ground
<1>9. ASSUME NEW i \in 1..n PROVE b[i] \in starts
  <2> DEFINE p == ends[i - 1] + 1
  <2>1. p \in DOMAIN s
    <3>1. n \in 0..n /\ i <= n /\ Len(W[i]) >= 2
      BY <1>1, <1>6
    <3>2. ends[i] <= Len(s) /\ ends[i] = ends[i - 1] + Len(W[i])
      BY <1>2, <1>3, <1>5, <3>1
    <3>3. ends[i - 1] \in Nat /\ Len(W[i]) \in Nat /\ Len(s) \in Nat
      BY <1>1, <1>5
    <3>4. p \in 1..Len(s)
      BY <3>1, <3>2, <3>3
    <3>5. QED
      BY <1>1, <3>4
  <2>2. p - 1 = ends[i - 1]
    BY <1>5
  <2>3. Depth(s, p - 1, "lbrace", "rbrace") = 0
    BY <1>5, <1>8, <2>2 DEF D
  <2>4. s[p] = "lbrace" /\ Closes(s, p, "lbrace", "rbrace") # {}
    BY <1>6
  <2> HIDE DEF p
  <2>5. p \in starts
    BY <2>1, <2>3, <2>4 DEF ObjectStarts
  <2>6. QED
    BY <2>5 DEF p
<1>10. ASSUME NEW p \in starts PROVE \E i \in 1..n : p = b[i]
  <2>1. p \in 1..Len(s) /\ D(p - 1) = 0
    BY <1>1 DEF ObjectStarts, D
  <2>2. PICK i \in 1..n : \E k \in 1..Len(W[i]) : p = ends[i - 1] + k
    BY <1>0, <2>1 DEF InPart, n
  <2>3. PICK k \in 1..Len(W[i]) : p = ends[i - 1] + k
    BY <2>2
  <2> DEFINE h == k - 1
  <2>4. h \in 0..Len(W[i]) /\ p - 1 = ends[i - 1] + h
    BY <1>1, <1>5, <2>3
  <2>5. D(p - 1) = D(ends[i - 1]) + Depth(W[i], h, "lbrace", "rbrace") /\ D(ends[i - 1]) = 0
    BY <1>5, <1>6, <1>8, <2>4
  <2>6. k = 1
    <3> SUFFICES ASSUME k # 1 PROVE FALSE
      OBVIOUS
    <3>1. h \in 1..(Len(W[i]) - 1) /\ h \in Nat
      BY <1>1
    <3>2. Depth(W[i], h, "lbrace", "rbrace") >= 1 /\ Depth(W[i], h, "lbrace", "rbrace") \in Int
      <4>1. Depth(W[i], h, "lbrace", "rbrace") >= 1
        BY <1>6, <3>1
      <4>2. "lbrace" # "rbrace"
        OBVIOUS
      <4>3. QED
        BY <3>1, <4>1, <4>2, DepthSteps
    <3>3. QED
      BY <2>1, <2>5, <3>2
  <2>7. QED
    BY <2>3, <2>6
<1>11. /\ \A i \in 1..n : b[i] \in Nat
       /\ \A i, j \in 1..n : i < j => b[i] < b[j]
  <2>1. ASSUME NEW i \in 1..n, NEW j \in 1..n, i < j PROVE b[i] < b[j]
    <3>1. i <= j - 1 /\ i \in 0..n /\ j - 1 \in 0..n
      BY <1>1, <2>1
    <3> DEFINE low == ends[i - 1]
               high == ends[j - 1]
               l == Len(W[i])
    <3>2. ends[i] <= high /\ ends[i] = low + l /\ l >= 2
      BY <1>2, <1>3, <1>6, <3>1
    <3>3. low \in Nat /\ ends[i] \in Nat /\ high \in Nat /\ l \in Nat
      BY <1>1, <1>5
    <3>4. b[i] = low + 1 /\ b[j] = high + 1
      OBVIOUS
    <3> HIDE DEF b, low, high, l
    <3>5. low < high
      BY <3>2, <3>3
    <3>6. QED
      BY <3>3, <3>4, <3>5
  <2>2. \A i \in 1..n : b[i] \in Nat
    BY <1>5
  <2>3. QED
    BY <2>1, <2>2
<1>12. \A i \in 1..n : b[i] = ends[i - 1] + 1
  OBVIOUS
<1> HIDE DEF b, starts
<1>13. \A m \in 0..n : Cardinality(FirstOf(b, m)) = m
  BY <1>1, <1>11, Ranked
<1>14. ASSUME NEW m \in 1..n
       PROVE  {j \in starts : j <= b[m]} = FirstOf(b, m)
  <2>1. ASSUME NEW j \in starts, j <= b[m] PROVE \E i \in 1..m : j = b[i]
    <3>1. PICK i \in 1..n : j = b[i]
      BY <1>10
    <3>2. i <= m
      <4> SUFFICES ASSUME m < i PROVE FALSE
        BY <1>1
      <4>1. b[m] < b[i] /\ b[m] \in Nat /\ b[i] \in Nat
        BY <1>11
      <4>2. QED
        BY <2>1, <3>1, <4>1
    <3>3. i \in 1..m
      BY <1>1, <3>2
    <3>4. QED
      BY <3>1, <3>3
  <2>2. ASSUME NEW i \in 1..m PROVE b[i] \in starts /\ b[i] <= b[m]
    <3>1. i \in 1..n /\ (i = m \/ i < m)
      BY <1>1
    <3>2. b[i] \in Nat /\ b[m] \in Nat /\ (i < m => b[i] < b[m])
      BY <1>11, <3>1
    <3>3. QED
      BY <1>9, <3>1, <3>2
  <2>3. QED
    BY <2>1, <2>2 DEF FirstOf
<1>15. Cardinality(starts) = n
  <2>1. starts = FirstOf(b, n)
    BY <1>9, <1>10 DEF FirstOf
  <2>2. n \in 0..n
    BY <1>1
  <2>3. QED
    BY <1>13, <2>1, <2>2
<1> DEFINE Rank(p) == Cardinality({j \in starts : j <= p})
           start(m) == CHOOSE p \in starts : Rank(p) = m
<1>16. \A m \in 1..n : Rank(b[m]) = m
  <2> SUFFICES ASSUME NEW m \in 1..n PROVE Rank(b[m]) = m
    OBVIOUS
  <2>1. m \in 0..n
    BY <1>1
  <2>2. QED
    BY <1>13, <1>14, <2>1
<1> HIDE DEF Rank
<1>17. ASSUME NEW m \in 1..n PROVE start(m) = b[m]
  <2>1. b[m] \in starts /\ Rank(b[m]) = m
    BY <1>9, <1>16
  <2>2. start(m) \in starts /\ Rank(start(m)) = m
    BY <2>1
  <2> HIDE DEF start
  <2>3. PICK i \in 1..n : start(m) = b[i]
    BY <1>10, <2>2
  <2>4. i = m
    BY <1>16, <2>2, <2>3
  <2>5. QED
    BY <2>3, <2>4
<1> DEFINE Part(m) == SubSeq(s, start(m), First(Closes(s, start(m), "lbrace", "rbrace")))
<1>18. \A m \in 1..n : Part(m) = W[m]
  <2> SUFFICES ASSUME NEW m \in 1..n PROVE Part(m) = W[m]
    OBVIOUS
  <2>1. start(m) = ends[m - 1] + 1
    BY <1>12, <1>17
  <2> HIDE DEF start
  <2>2. QED
    BY <1>6, <2>1
<1>19. Objects(s) = [m \in 1..Cardinality(starts) |-> Part(m)]
  BY Zenon DEF Objects, Rank, starts
<1> HIDE DEF Part
<1>20. Objects(s) = [m \in 1..n |-> W[m]]
  BY <1>15, <1>18, <1>19
<1>21. QED
  BY <1>1, <1>20

\* extract_array_body takes what was put between the brackets.
LEMMA ArrayBodyIs ==
    ASSUME NEW m \in Seq(Tokens), Nests(m, "lbracket", "rbracket"),
           NEW raw, raw = Between("lbracket", m, "rbracket")
    PROVE  ArrayBody(raw) = m
<1> DEFINE open == "lbracket"
           close == "rbracket"
           ends == Closes(raw, 1, "lbracket", "rbracket")
<1>1. open # close /\ open \in Tokens /\ close \in Tokens /\ 0 \in Nat /\ 1 \in Nat
  BY DEF Tokens, ReadChars, Chars
<1>2. Nests(m, open, close) /\ raw = Between(open, m, close)
  OBVIOUS
<1> HIDE DEF open, close
<1>3. raw \in Seq(Tokens) /\ Len(raw) = Len(m) + 2 /\ Holds(raw, 1, m)
  BY <1>1, <1>2, Enclosed
<1>4. IsBlock(raw, open, close)
  BY <1>1, <1>2, EnclosedIsBlock
<1>5. Len(m) \in Nat
  OBVIOUS
<1>6. Holds(raw, 0, raw)
  <2>1. Len(raw) \in Nat
    BY <1>3, <1>5
  <2>2. 0 + Len(raw) <= Len(raw) /\ \A k \in 1..Len(raw) : 0 + k = k
    BY <2>1
  <2>3. QED
    BY <2>2 DEF Holds
<1>7. /\ Closes(raw, 0 + 1, open, close) # {}
      /\ First(Closes(raw, 0 + 1, open, close)) = 0 + Len(raw)
  BY <1>1, <1>3, <1>4, <1>6, BlockCloses
<1>8. SubSeq(raw, 1 + 1, 1 + Len(m)) = m
  BY <1>1, <1>3, SubSeqHeld
<1>9. 0 + 1 = 1 /\ 1 + 1 = 2 /\ (0 + Len(raw)) - 1 = 1 + Len(m)
  BY <1>3, <1>5
<1>10. ends # {} /\ First(ends) - 1 = 1 + Len(m)
  BY <1>7, <1>9 DEF open, close
<1>11. ArrayBody(raw) = IF ends = {} THEN NoText ELSE SubSeq(raw, 2, First(ends) - 1)
  BY Zenon DEF ArrayBody
<1> HIDE DEF ends
<1>12. QED
  BY <1>8, <1>9, <1>10, <1>11

-----------------------------------------------------------------------------
(***************************************************************************)
(* json_string, read_json_string.                                          *)
(***************************************************************************)
\* What is read of a text, character by character.
Reading == [text : Seq(Tokens), mode : {"open", "escaped", "closed"}]

\* read_json_string, character by character.
LEMMA ReadSteps ==
    ASSUME NEW raw \in Seq(Tokens), NEW start \in 1..(Len(raw) + 1)
    PROVE  LET ahead == Len(raw) - start + 1
           IN /\ ahead \in Nat
              /\ \E f \in [0..ahead -> Reading] :
                    /\ f[0] = [text |-> <<>>, mode |-> "open"]
                    /\ \A i \in 1..ahead : f[i] = Scanned(f[i - 1], raw[start + i - 1])
                    /\ ReadString(raw, start)
                          = IF f[ahead].mode = "closed" THEN f[ahead].text ELSE NoText
<1> DEFINE ahead == Len(raw) - start + 1
           base == [text |-> <<>>, mode |-> "open"]
           After(r, i) == Scanned(r, raw[start + i - 1])
           step == [i \in 1..ahead |-> [r \in Reading |-> After(r, i)]]
           Step(h) == [i \in 0..ahead |-> IF i = 0 THEN base ELSE After(h[i - 1], i)]
           read == CHOOSE h : h = Step(h)
           At(h, i) == IF i = 0 THEN base ELSE After(h[i - 1], i)
<1>1. ahead \in Nat /\ \A i \in 1..ahead : raw[start + i - 1] \in Tokens
  <2>1. Len(raw) \in Nat /\ start \in Nat
    OBVIOUS
  <2>2. ahead \in Nat
    BY <2>1
  <2>3. \A i \in 1..ahead : start + i - 1 \in 1..Len(raw)
    BY <2>1
  <2>4. QED
    BY <2>2, <2>3
<1>2. ReadString(raw, start) = IF read[ahead].mode = "closed" THEN read[ahead].text ELSE NoText
  BY Zenon DEF ReadString
<1> HIDE DEF ahead
<1>3. ASSUME NEW r \in Reading, NEW i \in 1..ahead
      PROVE  After(r, i) \in Reading
  <2> DEFINE char == raw[start + i - 1]
             more == IF char = "wide" THEN <<"byte", "byte">> ELSE <<char>>
  <2>1. char \in Tokens
    BY <1>1
  <2>2. more \in Seq(Tokens)
    <3>1. "byte" \in Tokens
      BY DEF Tokens, ReadChars
    <3>2. QED
      BY <2>1, <3>1
  <2>3. r.text \in Seq(Tokens) /\ r.mode \in {"open", "escaped", "closed"}
    BY DEF Reading
  <2>4. r.text \o more \in Seq(Tokens)
    <3> HIDE DEF more
    <3>1. QED
      BY <2>2, <2>3, ConcatProperties
  <2>5. /\ r \in Reading /\ [r EXCEPT !.mode = "closed"] \in Reading
        /\ [r EXCEPT !.mode = "escaped"] \in Reading
        /\ [text |-> r.text \o more, mode |-> "open"] \in Reading
    BY <2>3, <2>4 DEF Reading
  <2>6. Scanned(r, char) \in {r, [r EXCEPT !.mode = "closed"], [r EXCEPT !.mode = "escaped"],
                              [text |-> r.text \o more, mode |-> "open"]}
    BY Zenon DEF Scanned
  <2>7. QED
    BY <2>5, <2>6
<1>4. base \in Reading
  BY DEF Reading
<1>5. step \in [1..ahead -> [Reading -> Reading]]
  BY <1>3
<1>6. \A i \in 1..ahead, r \in Reading : step[i][r] = After(r, i)
  OBVIOUS
<1> HIDE DEF base, step, After
<1>7. PICK f \in [0..ahead -> Reading] : Follows(f, ahead, base, step)
  BY <1>1, <1>4, <1>5, StepsExist
<1>8. f[0] = base /\ \A i \in 1..ahead : f[i] = After(f[i - 1], i)
  <2>1. \A i \in 1..ahead : i - 1 \in 0..ahead /\ f[i - 1] \in Reading
    BY <1>1
  <2>2. QED
    BY <1>6, <1>7, <2>1 DEF Follows
<1>9. f = Step(f)
  <2>1. \A i \in 0..ahead : f[i] = At(f, i)
    <3> SUFFICES ASSUME NEW i \in 0..ahead PROVE f[i] = At(f, i)
      OBVIOUS
    <3>1. CASE i = 0
      BY <1>8, <3>1
    <3>2. CASE i # 0
      <4>1. i \in 1..ahead
        BY <1>1, <3>2
      <4>2. QED
        BY <1>8, <3>2, <4>1
    <3>3. QED
      BY <3>1, <3>2
  <2>2. Step(f) = [i \in 0..ahead |-> At(f, i)] /\ f = [i \in 0..ahead |-> f[i]]
    OBVIOUS
  <2> HIDE DEF At
  <2>3. QED
    BY <2>1, <2>2
<1>10. read = Step(read)
  <2> HIDE DEF Step
  <2>1. QED
    BY <1>9
<1> HIDE DEF read
<1>11. \A i \in 0..ahead : read[i] = At(read, i)
  <2>1. \A x : x = Step(x) => \A i \in 0..ahead : x[i] = At(x, i)
    OBVIOUS
  <2> HIDE DEF Step, At
  <2>2. QED
    BY <1>10, <2>1
<1>12. read[ahead] = f[ahead]
  <2> DEFINE same == {i \in 0..ahead : read[i] = f[i]}
  <2>1. 0 \in same
    BY <1>1, <1>8, <1>11
  <2>2. ASSUME NEW i \in 1..ahead, i - 1 \in same PROVE i \in same
    <3>1. i \in 0..ahead /\ i # 0 /\ read[i - 1] = f[i - 1]
      BY <1>1, <2>2
    <3>2. read[i] = After(read[i - 1], i)
      BY <1>11, <3>1
    <3>3. f[i] = After(f[i - 1], i)
      BY <1>8
    <3>4. read[i] = f[i]
      BY <3>1, <3>2, <3>3
    <3>5. QED
      BY <3>1, <3>4
  <2> HIDE DEF same
  <2>3. \A i \in 1..ahead : i - 1 \in same => i \in same
    BY <2>2
  <2>4. \A i \in 0..ahead : i \in same
    BY <1>1, <2>1, <2>3, Upward
  <2>5. ahead \in same
    BY <1>1, <2>4
  <2>6. QED
    BY <2>5 DEF same
<1>13. /\ f[0] = [text |-> <<>>, mode |-> "open"]
       /\ \A i \in 1..ahead : f[i] = Scanned(f[i - 1], raw[start + i - 1])
       /\ ReadString(raw, start) = IF f[ahead].mode = "closed" THEN f[ahead].text ELSE NoText
  BY <1>2, <1>8, <1>12, Zenon DEF base, After
<1>14. QED
  BY <1>1, <1>13 DEF ahead

\* The characters that are read as they were written.
Plain == Chars \ {"wide"}

\* What is written of each character.
EscapedParts(text) == [i \in DOMAIN text |-> Escaped(text[i])]

\* A written text is its escaped characters between quotes.
LEMMA PartsAre ==
    ASSUME NEW text \in Seq(Chars)
    PROVE  /\ EscapedParts(text) \in Seq(Seq(Chars)) /\ Len(EscapedParts(text)) = Len(text)
           /\ \A i \in 1..Len(text) : EscapedParts(text)[i] = Escaped(text[i])
           /\ FlattenSeq(EscapedParts(text)) \in Seq(Chars)
           /\ \E ends : Laid(FlattenSeq(EscapedParts(text)), EscapedParts(text), ends)
           /\ JsonString(text) = Between("quote", FlattenSeq(EscapedParts(text)), "quote")
<1> DEFINE W == EscapedParts(text)
           n == Len(text)
<1>1. n \in Nat /\ DOMAIN text = 1..n /\ \A i \in 1..n : text[i] \in Chars
  BY LenProperties
<1>2. ASSUME NEW c \in Chars PROVE Escaped(c) \in Seq(Chars)
  <2>1. "backslash" \in Chars
    BY DEF Chars
  <2>2. <<"backslash", c>> \in Seq(Chars) /\ <<c>> \in Seq(Chars)
    BY <2>1
  <2>3. QED
    BY <2>2 DEF Escaped
<1> HIDE DEF n
<1>3. \A i \in 1..n : Escaped(text[i]) \in Seq(Chars)
  BY <1>1, <1>2
<1>4. W = [i \in 1..n |-> Escaped(text[i])]
  BY <1>1, Zenon DEF EscapedParts
<1> DEFINE e(i) == Escaped(text[i])
<1>5. W \in Seq(Seq(Chars)) /\ Len(W) = n /\ \A i \in 1..n : W[i] = Escaped(text[i])
  <2> HIDE DEF W
  <2>1. W \in [1..n -> Seq(Chars)]
    BY <1>3, <1>4
  <2>2. \A i \in 1..n : W[i] = Escaped(text[i])
    BY <1>4
  <2>3. W \in Seq(Seq(Chars)) /\ Len(W) = n
    BY <1>1, <2>1
  <2>4. QED
    BY <2>2, <2>3
<1> HIDE DEF W
<1>6. FlattenSeq(W) \in Seq(Chars) /\ \E ends : Laid(FlattenSeq(W), W, ends)
  BY <1>5, FlattenLaid
<1>7. JsonString(text) = Between("quote", FlattenSeq(EscapedParts(text)), "quote")
  BY Zenon DEF JsonString, Between, EscapedParts
<1>8. QED
  BY <1>5, <1>6, <1>7 DEF W, n

\* Characters are tokens.
LEMMA CharsAreTokens ==
    /\ Chars \subseteq Tokens /\ Plain \subseteq Chars
    /\ \A s \in Seq(Chars) : s \in Seq(Tokens)
    /\ \A s \in Seq(Seq(Chars)) : s \in Seq(Seq(Tokens))
    /\ \A s \in Seq(Plain) : s \in Seq(Chars)
<1>1. Chars \subseteq Tokens /\ Plain \subseteq Chars
  BY DEF Tokens, ReadChars, Plain
<1> HIDE DEF Tokens, Plain
<1>2. \A s \in Seq(Chars) : s \in Seq(Tokens)
  BY <1>1, SeqMonotonic
<1>3. Seq(Chars) \subseteq Seq(Tokens)
  BY <1>2
<1>4. \A s \in Seq(Seq(Chars)) : s \in Seq(Seq(Tokens))
  BY <1>3, SeqMonotonic
<1>5. \A s \in Seq(Plain) : s \in Seq(Chars)
  BY <1>1, SeqMonotonic
<1>6. QED
  BY <1>1, <1>2, <1>4, <1>5

\* What was read when the first i characters of a text are behind.
ReadSoFar(text, i) == [text |-> [k \in 1..i |-> text[k]], mode |-> "open"]

\* One more character of one byte is one more character read.
LEMMA ReadsOn ==
    ASSUME NEW text \in Seq(Plain), NEW i \in 1..Len(text)
    PROVE  /\ text[i] # "wide"
           /\ [k \in 1..(i - 1) |-> text[k]] \o <<text[i]>> = [k \in 1..i |-> text[k]]
<1> DEFINE before == [k \in 1..(i - 1) |-> text[k]]
           last == <<text[i]>>
           whole == [k \in 1..i |-> text[k]]
<1>1. i \in Nat /\ i - 1 \in Nat /\ text[i] \in Plain
      /\ \A k \in 1..i : text[k] \in Plain
  BY LenProperties
<1>2. /\ before \in Seq(Plain) /\ Len(before) = i - 1
      /\ whole \in Seq(Plain) /\ Len(whole) = i
      /\ last \in Seq(Plain) /\ Len(last) = 1 /\ last[1] = text[i]
  BY <1>1
<1>3. /\ \A k \in 1..(i - 1) : before[k] = text[k]
      /\ \A k \in 1..i : whole[k] = text[k]
  OBVIOUS
<1> HIDE DEF before, last, whole
<1>4. /\ before \o last \in Seq(Plain) /\ Len(before \o last) = Len(before) + Len(last)
      /\ \A k \in 1..(Len(before) + Len(last)) :
            (before \o last)[k] = IF k <= Len(before) THEN before[k] ELSE last[k - Len(before)]
  BY <1>2, ConcatProperties, Zenon
<1>5. Len(before \o last) = i
  BY <1>1, <1>2, <1>4
<1>6. \A k \in 1..i : (before \o last)[k] = whole[k]
  <2> SUFFICES ASSUME NEW k \in 1..i PROVE (before \o last)[k] = whole[k]
    OBVIOUS
  <2>1. k \in 1..(Len(before) + Len(last))
    BY <1>1, <1>2
  <2>2. CASE k <= i - 1
    <3>1. (before \o last)[k] = before[k] /\ k \in 1..(i - 1)
      BY <1>1, <1>2, <1>4, <2>1, <2>2
    <3>2. QED
      BY <1>3, <3>1
  <2>3. CASE ~(k <= i - 1)
    <3>1. k = i /\ k - Len(before) = 1
      BY <1>1, <1>2, <2>3
    <3>2. (before \o last)[k] = last[k - Len(before)]
      BY <1>2, <1>4, <2>1, <2>3
    <3>3. QED
      BY <1>2, <1>3, <3>1, <3>2
  <2>4. QED
    BY <2>2, <2>3
<1>7. before \o last = whole
  BY <1>2, <1>4, <1>5, <1>6, SeqEqual
<1>8. text[i] # "wide"
  BY <1>1 DEF Plain
<1>9. QED
  BY <1>7, <1>8 DEF before, last, whole

\* A text of characters of one byte is read as it was written, from behind its quote.
LEMMA ReadBack ==
    ASSUME NEW raw \in Seq(Tokens), NEW text \in Seq(Plain), NEW a \in Nat,
           Holds(raw, a, JsonString(text))
    PROVE  ReadString(raw, a + 2) = text
<1> DEFINE W == EscapedParts(text)
           E == FlattenSeq(W)
           n == Len(text)
           l == Len(E)
           start == a + 2
           ahead == Len(raw) - start + 1
           Now(i) == ReadSoFar(text, i)
<1>1. text \in Seq(Chars) /\ n \in Nat /\ Len(raw) \in Nat
  BY CharsAreTokens, LenProperties
<1>2. /\ W \in Seq(Seq(Chars)) /\ Len(W) = n
      /\ \A i \in 1..n : W[i] = Escaped(text[i])
      /\ E \in Seq(Chars) /\ \E ends : Laid(E, W, ends)
      /\ JsonString(text) = Between("quote", E, "quote")
  BY <1>1, PartsAre
<1> HIDE DEF W, E
<1>3. PICK ends : Laid(E, W, ends)
  BY <1>2
<1>4. l \in Nat
  BY <1>2, LenProperties
<1> HIDE DEF l, n
<1>5. /\ ends \in [0..n -> Nat] /\ ends[0] = 0 /\ ends[n] = l
      /\ \A i \in 1..n : ends[i] = ends[i - 1] + Len(W[i]) /\ Holds(E, ends[i - 1], W[i])
  BY <1>2, <1>3 DEF Laid, l
<1>6. /\ a + l + 2 <= Len(raw)
      /\ \A k \in 1..l : raw[a + 1 + k] = E[k]
      /\ raw[a + l + 2] = "quote"
  <2> DEFINE written == JsonString(text)
  <2>1. "quote" \in Chars
    BY DEF Chars
  <2>2. /\ Len(written) = l + 2 /\ written[Len(written)] = "quote" /\ Holds(written, 1, E)
    BY <1>2, <2>1, Enclosed DEF l
  <2> HIDE DEF written
  <2>3. a + Len(written) <= Len(raw) /\ \A k \in 1..Len(written) : raw[a + k] = written[k]
    BY DEF Holds, written
  <2>4. a + l + 2 <= Len(raw) /\ raw[a + (l + 2)] = "quote"
    <3>1. l + 2 \in 1..Len(written)
      BY <1>4, <2>2
    <3>2. QED
      BY <1>4, <2>2, <2>3, <3>1
  <2>5. ASSUME NEW k \in 1..l PROVE raw[a + 1 + k] = E[k]
    <3>1. written[1 + k] = E[k]
      BY <2>2 DEF Holds, l
    <3>2. 1 + k \in 1..Len(written) /\ a + (1 + k) = a + 1 + k
      BY <1>4, <2>2
    <3>3. QED
      BY <2>3, <3>1, <3>2
  <2>6. QED
    BY <1>4, <2>4, <2>5
<1>7. start \in 1..(Len(raw) + 1)
  BY <1>1, <1>4, <1>6
<1> HIDE DEF start
<1>8. /\ ahead \in Nat
      /\ \E f \in [0..ahead -> Reading] :
            /\ f[0] = [text |-> <<>>, mode |-> "open"]
            /\ \A i \in 1..ahead : f[i] = Scanned(f[i - 1], raw[start + i - 1])
            /\ ReadString(raw, start)
                  = IF f[ahead].mode = "closed" THEN f[ahead].text ELSE NoText
  BY <1>7, ReadSteps
<1>9. PICK f \in [0..ahead -> Reading] :
         /\ f[0] = [text |-> <<>>, mode |-> "open"]
         /\ \A i \in 1..ahead : f[i] = Scanned(f[i - 1], raw[start + i - 1])
         /\ ReadString(raw, start)
               = IF f[ahead].mode = "closed" THEN f[ahead].text ELSE NoText
  BY <1>8
<1>10. l + 1 \in 1..ahead /\ \A i \in Nat : start + i - 1 = a + 1 + i
  BY <1>1, <1>4, <1>6 DEF start
<1> HIDE DEF ahead
<1>11. \A i \in 1..l : i \in 1..ahead /\ f[i] = Scanned(f[i - 1], E[i])
  <2> SUFFICES ASSUME NEW i \in 1..l PROVE i \in 1..ahead /\ f[i] = Scanned(f[i - 1], E[i])
    OBVIOUS
  <2>1. i \in 1..ahead /\ i \in Nat
    BY <1>4, <1>8, <1>10
  <2>2. raw[start + i - 1] = E[i]
    BY <1>6, <1>10, <2>1
  <2>3. QED
    BY <1>9, <2>1, <2>2
<1>12. \A i, j \in 0..n : i <= j => ends[i] <= ends[j]
  <2>1. W \in Seq(Seq(Tokens))
    BY <1>2, CharsAreTokens
  <2>2. \A i, j \in 0..Len(W) : i <= j => ends[i] <= ends[j]
    BY <1>3, <2>1, EndsRise
  <2>3. QED
    BY <1>2, <2>2
<1> DEFINE caught == {i \in 0..n : f[ends[i]] = Now(i)}
<1>13. 0 \in caught
  <2>1. Now(0) = [text |-> <<>>, mode |-> "open"]
    BY DEF ReadSoFar
  <2>2. QED
    BY <1>1, <1>5, <1>9, <2>1
<1>14. ASSUME NEW i \in 1..n, i - 1 \in caught PROVE i \in caught
  <2> DEFINE e == ends[i - 1]
             c == text[i]
             so == [k \in 1..(i - 1) |-> text[k]]
             more == so \o <<c>>
  <2>1. /\ c # "wide" /\ more = [k \in 1..i |-> text[k]]
    BY ReadsOn DEF n
  <2>2. /\ f[e] = [text |-> so, mode |-> "open"]
        /\ i \in 0..n /\ i - 1 \in 0..n
    BY <1>1, <1>14 DEF ReadSoFar
  <2> HIDE DEF so
  <2>3. e \in Nat /\ W[i] = Escaped(c) /\ ends[i] = e + Len(W[i]) /\ Holds(E, e, W[i])
    BY <1>2, <1>5, <2>2
  <2>4. ends[i] <= l
    <3>1. n \in 0..n /\ i <= n
      BY <1>1
    <3>2. QED
      BY <1>5, <1>12, <2>2, <3>1
  <2>5. f[ends[i]] = [text |-> more, mode |-> "open"]
    <3>1. CASE c \in {"quote", "backslash"}
      <4>1. W[i] = <<"backslash", c>>
        BY <2>3, <3>1 DEF Escaped
      <4>2. Len(W[i]) = 2 /\ W[i][1] = "backslash" /\ W[i][2] = c
        BY <4>1
      <4>3. E[e + 1] = "backslash" /\ E[e + 2] = c
        BY <2>3, <4>2 DEF Holds
      <4>4. e + 1 \in 1..l /\ e + 2 \in 1..l /\ (e + 1) - 1 = e /\ (e + 2) - 1 = e + 1
            /\ ends[i] = e + 2
        <5>1. ends[i] = e + 2
          BY <2>3, <4>2
        <5> HIDE DEF e
        <5>2. e \in Nat /\ l \in Nat /\ e + 2 <= l
          BY <1>4, <2>3, <2>4, <5>1
        <5> HIDE DEF l
        <5>3. QED
          BY <5>1, <5>2
      <4>5. f[e + 1] = Scanned(f[e], "backslash")
        BY <1>11, <4>3, <4>4
      <4>6. f[e + 2] = Scanned(f[e + 1], c)
        BY <1>11, <4>3, <4>4
      <4>7. f[e + 1] = [text |-> so, mode |-> "escaped"]
        BY <2>2, <4>5 DEF Scanned
      <4>8. f[e + 2] = [text |-> more, mode |-> "open"]
        BY <2>1, <4>6, <4>7 DEF Scanned
      <4>9. QED
        BY <4>4, <4>8
    <3>2. CASE c \notin {"quote", "backslash"}
      <4>1. W[i] = <<c>>
        BY <2>3, <3>2 DEF Escaped
      <4>2. Len(W[i]) = 1 /\ W[i][1] = c
        BY <4>1
      <4>3. E[e + 1] = c
        BY <2>3, <4>2 DEF Holds
      <4>4. e + 1 \in 1..l /\ (e + 1) - 1 = e /\ ends[i] = e + 1
        BY <1>4, <2>3, <2>4, <4>2
      <4>5. f[e + 1] = Scanned(f[e], c)
        BY <1>11, <4>3, <4>4
      <4>6. f[e + 1] = [text |-> more, mode |-> "open"]
        BY <2>1, <2>2, <3>2, <4>5 DEF Scanned
      <4>7. QED
        BY <4>4, <4>6
    <3>3. QED
      BY <3>1, <3>2
  <2>6. f[ends[i]] = Now(i)
    BY <2>1, <2>5, Zenon DEF ReadSoFar
  <2>7. QED
    BY <2>2, <2>6
<1> HIDE DEF caught
<1>15. n \in caught
  <2>1. \A i \in 1..n : i - 1 \in caught => i \in caught
    BY <1>14
  <2>2. \A i \in 0..n : i \in caught
    BY <1>1, <1>13, <2>1, Upward
  <2>3. QED
    BY <1>1, <2>2
<1>16. f[l] = [text |-> text, mode |-> "open"]
  <2>1. f[l] = Now(n)
    BY <1>5, <1>15 DEF caught
  <2>2. text = [k \in 1..n |-> text[k]]
    BY LenProperties DEF n
  <2>3. QED
    BY <2>1, <2>2 DEF ReadSoFar
<1> DEFINE closed == [text |-> text, mode |-> "closed"]
           shut == {i \in 0..ahead : i > l => f[i] = closed}
<1>17. f[l + 1] = closed
  <2>1. f[l + 1] = Scanned(f[l], raw[a + l + 2])
    <3>1. (l + 1) - 1 = l /\ start + (l + 1) - 1 = a + l + 2
      BY <1>4 DEF start
    <3>2. QED
      BY <1>9, <1>10, <3>1
  <2>2. QED
    BY <1>6, <1>16, <2>1 DEF Scanned
<1>18. 0 \in shut
  BY <1>4, <1>8
<1>19. ASSUME NEW i \in 1..ahead, i - 1 \in shut PROVE i \in shut
  <2> SUFFICES ASSUME i > l PROVE f[i] = closed
    BY <1>8
  <2>1. CASE i = l + 1
    BY <1>17, <2>1
  <2>2. CASE i # l + 1
    <3>1. i - 1 > l /\ i - 1 \in 0..ahead
      BY <1>4, <1>8, <2>2
    <3>2. f[i - 1] = closed
      BY <1>19, <3>1
    <3>3. f[i] = Scanned(f[i - 1], raw[start + i - 1])
      BY <1>9
    <3>4. QED
      BY <3>2, <3>3 DEF Scanned
  <2>3. QED
    BY <2>1, <2>2
<1> HIDE DEF shut
<1>20. \A i \in 1..ahead : i - 1 \in shut => i \in shut
  BY <1>19
<1>21. \A i \in 0..ahead : i \in shut
  BY <1>8, <1>18, <1>20, Upward
<1>22. f[ahead] = closed
  <2>1. ahead \in 0..ahead /\ ahead > l
    BY <1>4, <1>8, <1>10
  <2>2. QED
    BY <1>21, <2>1 DEF shut
<1>23. ReadString(raw, start) = text
  BY <1>9, <1>22
<1>24. QED
  BY <1>23 DEF start

-----------------------------------------------------------------------------
(***************************************************************************)
(* The fields of an item: extract_string_field, extract_number_field.      *)
(***************************************************************************)
\* What stands in a part stands in the whole.
LEMMA HoldsWithin ==
    ASSUME NEW s, NEW w, NEW v, Len(s) \in Nat, Len(w) \in Nat, Len(v) \in Nat,
           NEW a \in Nat, NEW b \in Nat, Holds(s, a, w), Holds(w, b, v)
    PROVE  Holds(s, a + b, v)
<1>1. /\ a + Len(w) <= Len(s) /\ \A k \in 1..Len(w) : s[a + k] = w[k]
      /\ b + Len(v) <= Len(w) /\ \A k \in 1..Len(v) : w[b + k] = v[k]
  BY DEF Holds
<1>2. a + b + Len(v) <= Len(s)
  BY <1>1
<1>3. ASSUME NEW k \in 1..Len(v) PROVE s[a + b + k] = v[k]
  <2>1. b + k \in 1..Len(w) /\ a + b + k = a + (b + k)
    BY <1>1
  <2>2. QED
    BY <1>1, <2>1
<1>4. QED
  BY <1>2, <1>3 DEF Holds

\* The keys are told from characters and operation names.
LEMMA KeysAreTokens ==
    /\ Keys \subseteq Tokens /\ Operations \subseteq Tokens
    /\ \A x \in Keys : x \notin Chars /\ x \notin Operations
    /\ \A x \in Operations : x \notin Chars
    /\ \A x \in {"quote", "lbrace", "rbrace", "lbracket", "rbracket"} :
          x \in Chars /\ x \notin Keys /\ x \notin Operations
BY DEF Tokens, Keys, Operations, ReadChars, Chars

\* Of what is written of a field, the key goes first and characters follow.
LEMMA WrittenIs ==
    ASSUME NEW field \in Keys, NEW text \in Seq(Chars),
           field \in Numbers => text = <<"plain">>
    PROVE  /\ Written(field, text) \in Seq(Tokens)
           /\ Len(Written(field, text)) >= 2
           /\ Written(field, text)[1] = field
           /\ \A k \in 2..Len(Written(field, text)) : Written(field, text)[k] \in Chars
           /\ field \notin Numbers => Holds(Written(field, text), 1, JsonString(text))
           /\ field \in Numbers => Holds(Written(field, text), 1, text)
<1> DEFINE v == IF field \in Numbers THEN text ELSE JsonString(text)
<1>1. v \in Seq(Chars) /\ Len(v) >= 1
  <2>1. CASE field \in Numbers
    <3>1. v = text /\ Len(text) = 1
      BY <2>1
    <3> HIDE DEF v
    <3>2. QED
      BY <3>1
  <2>2. CASE field \notin Numbers
    <3> DEFINE m == FlattenSeq(EscapedParts(text))
    <3>1. m \in Seq(Chars) /\ JsonString(text) = Between("quote", m, "quote")
      BY PartsAre
    <3> HIDE DEF m
    <3>2. "quote" \in Chars
      BY DEF Chars
    <3>3. JsonString(text) \in Seq(Chars) /\ Len(JsonString(text)) = Len(m) + 2
      BY <3>1, <3>2, Enclosed
    <3>4. Len(m) \in Nat
      BY <3>1
    <3>5. QED
      BY <2>2, <3>3, <3>4
  <2>3. QED
    BY <2>1, <2>2
<1>2. Written(field, text) = <<field>> \o v
  BY Zenon DEF Written
<1> HIDE DEF v
<1> DEFINE u == <<field>>
           c == u \o v
<1>4. u \in Seq(Tokens) /\ Len(u) = 1 /\ u[1] = field /\ v \in Seq(Tokens) /\ Len(v) \in Nat
  BY <1>1, CharsAreTokens, KeysAreTokens
<1> HIDE DEF u
<1>5. c \in Seq(Tokens) /\ Len(c) = 1 + Len(v) /\ Holds(c, 0, u) /\ Holds(c, 1, v)
  BY <1>4, ConcatHolds
<1> HIDE DEF c
<1>6. c[1] = field
  <2>1. 1 \in 1..Len(u) /\ 0 + 1 = 1
    BY <1>4
  <2>2. QED
    BY <1>4, <1>5, <2>1 DEF Holds
<1>7. \A k \in 2..Len(c) : c[k] \in Chars
  <2> SUFFICES ASSUME NEW k \in 2..Len(c) PROVE c[k] \in Chars
    OBVIOUS
  <2> DEFINE h == k - 1
  <2>1. h \in 1..Len(v) /\ 1 + h = k
    BY <1>4, <1>5
  <2> HIDE DEF h
  <2>2. c[1 + h] = v[h] /\ v[h] \in Chars
    BY <1>1, <1>5, <2>1 DEF Holds
  <2>3. QED
    BY <2>1, <2>2
<1>8. Len(c) >= 2
  BY <1>1, <1>4, <1>5
<1>9. Written(field, text) = c
  BY <1>2 DEF c, u
<1>10. /\ field \notin Numbers => Holds(c, 1, JsonString(text))
       /\ field \in Numbers => Holds(c, 1, text)
  BY <1>5 DEF v
<1>11. QED
  BY <1>5, <1>6, <1>7, <1>8, <1>9, <1>10

\* A field is found behind its key, at the first place that has it.
LEMMA ExtractIs ==
    ASSUME NEW object \in Seq(Tokens), NEW field \in Keys, NEW text \in Seq(Plain),
           field \in Numbers => text = <<"plain">>,
           NEW a \in Nat, Holds(object, a, Written(field, text)),
           \A p \in 1..a : object[p] # field
    PROVE  Extract(object, field) = text
<1> DEFINE w == Written(field, text)
           places == {i \in DOMAIN object : object[i] = field}
           at == First(places) + 1
<1>1. text \in Seq(Chars)
  BY CharsAreTokens
<1>2. /\ w \in Seq(Tokens) /\ Len(w) >= 2 /\ w[1] = field
      /\ \A k \in 2..Len(w) : w[k] \in Chars
      /\ field \notin Numbers => Holds(w, 1, JsonString(text))
      /\ field \in Numbers => Holds(w, 1, text)
  BY <1>1, WrittenIs
<1>3. Holds(object, a, w)
  OBVIOUS
<1>4. Extract(object, field) =
         IF places = {} \/ at > Len(object) THEN NoText
         ELSE IF field \in Numbers
         THEN IF object[at] = "plain" THEN <<object[at]>> ELSE NoText
         ELSE IF object[at] = "quote" THEN ReadString(object, at + 1)
         ELSE NoText
  BY Zenon DEF Extract
<1> HIDE DEF w
<1>5. /\ a + Len(w) <= Len(object) /\ \A k \in 1..Len(w) : object[a + k] = w[k]
      /\ Len(object) \in Nat /\ Len(w) \in Nat
  <2>1. Len(object) \in Nat /\ Len(w) \in Nat
    BY <1>2
  <2>2. QED
    BY <1>3, <2>1 DEF Holds
<1>6. 1 \in 1..Len(w) /\ 2 \in 1..Len(w) /\ a + 1 \in 1..Len(object) /\ a + 2 <= Len(object)
  BY <1>2, <1>5
<1>7. a + 1 \in places
  BY <1>2, <1>5, <1>6, LenProperties
<1>8. \A p \in places : a + 1 <= p
  <2> SUFFICES ASSUME NEW p \in places PROVE a + 1 <= p
    OBVIOUS
  <2>1. p \in 1..Len(object) /\ object[p] = field
    BY LenProperties
  <2>2. p \notin 1..a
    BY <2>1
  <2>3. QED
    BY <2>1, <2>2
<1>9. places \subseteq Nat
  BY LenProperties
<1> HIDE DEF places
<1>10. First(places) = a + 1
  BY <1>7, <1>8, <1>9, FirstIs
<1>11. at = a + 2 /\ places # {} /\ ~(at > Len(object))
  BY <1>6, <1>7, <1>10
<1> HIDE DEF at
<1>12. object[at] = w[2]
  BY <1>5, <1>6, <1>11
<1>13. CASE field \in Numbers
  <2>1. text = <<"plain">> /\ Holds(w, 1, text)
    BY <1>2, <1>13
  <2>2. w[2] = "plain"
    <3>1. 1 \in 1..Len(text) /\ text[1] = "plain" /\ 1 + 1 = 2
      BY <2>1
    <3>2. QED
      BY <2>1, <3>1 DEF Holds
  <2>3. QED
    BY <1>4, <1>11, <1>12, <1>13, <2>1, <2>2
<1>14. CASE field \notin Numbers
  <2> DEFINE m == FlattenSeq(EscapedParts(text))
             j == JsonString(text)
  <2>1. m \in Seq(Chars) /\ j = Between("quote", m, "quote") /\ "quote" \in Chars
    BY <1>1, PartsAre DEF Chars
  <2> HIDE DEF m, j
  <2>2. j \in Seq(Chars) /\ Len(j) = Len(m) + 2 /\ j[1] = "quote" /\ Len(m) \in Nat
    BY <2>1, Enclosed
  <2>3. Holds(w, 1, j)
    BY <1>2, <1>14 DEF j
  <2>4. w[2] = "quote"
    <3>1. 1 \in 1..Len(j) /\ 1 + 1 = 2
      BY <2>2
    <3>2. QED
      BY <2>2, <2>3, <3>1 DEF Holds
  <2>5. Holds(object, a + 1, j)
    <3>1. Len(j) \in Nat
      BY <2>2
    <3>2. QED
      BY <1>3, <1>5, <2>3, <3>1, HoldsWithin
  <2>6. ReadString(object, (a + 1) + 2) = text
    <3>1. Holds(object, a + 1, JsonString(text)) /\ a + 1 \in Nat
      BY <2>5 DEF j
    <3>2. QED
      BY <3>1, ReadBack
  <2>7. (a + 1) + 2 = at + 1
    BY <1>11
  <2>8. QED
    BY <1>4, <1>11, <1>12, <1>14, <2>4, <2>6, <2>7
<1>15. QED
  BY <1>13, <1>14

\* A key that is not there has no field.
LEMMA ExtractNone ==
    ASSUME NEW object \in Seq(Tokens), NEW field, \A p \in 1..Len(object) : object[p] # field
    PROVE  Extract(object, field) = NoText
<1>1. {i \in DOMAIN object : object[i] = field} = {}
  BY LenProperties
<1>2. QED
  BY <1>1 DEF Extract

\* Every operation has fields of its own, each once.
LEMMA FieldsAre ==
    ASSUME NEW action \in {"apply_correction", "apply_file_operations"},
           NEW operation \in DOMAIN FieldsOf(action)
    PROVE  LET fields == FieldsOf(action)[operation]
           IN /\ operation \in Operations
              /\ fields \in Seq(Keys)
              /\ \A i, j \in 1..Len(fields) : i # j => fields[i] # fields[j]
              /\ action = "apply_correction" => \A i \in 1..Len(fields) : fields[i] # "path"
<1> DEFINE fields == FieldsOf(action)[operation]
<1>1. \/ action = "apply_correction" /\ FieldsOf(action) = CorrectionFields
      \/ action = "apply_file_operations" /\ FieldsOf(action) = FileFields
  BY Zenon DEF FieldsOf
<1>2. CASE action = "apply_correction" /\ FieldsOf(action) = CorrectionFields
  <2>1. operation \in {"replace_text", "insert_text", "remove_text"}
    BY <1>2 DEF CorrectionFields
  <2>2. fields = CorrectionFields[operation]
    BY <1>2
  <2>3. fields \in {<<"search", "replacement">>, <<"position", "text">>, <<"start", "end">>}
    BY <2>1, <2>2 DEF CorrectionFields
  <2> HIDE DEF fields
  <2>4. fields \in Seq(Keys) /\ Len(fields) = 2 /\ fields[1] # fields[2]
        /\ fields[1] # "path" /\ fields[2] # "path"
    <3>1. CASE fields = <<"search", "replacement">>
      BY <3>1 DEF Keys
    <3>2. CASE fields = <<"position", "text">>
      BY <3>2 DEF Keys
    <3>3. CASE fields = <<"start", "end">>
      BY <3>3 DEF Keys
    <3>4. QED
      BY <2>3, <3>1, <3>2, <3>3
  <2>5. operation \in Operations
    BY <2>1 DEF Operations
  <2>6. QED
    BY <2>4, <2>5 DEF fields
<1>3. CASE action = "apply_file_operations" /\ FieldsOf(action) = FileFields
  <2>1. operation \in {"create_file", "delete_file", "rename_file"}
    BY <1>3 DEF FileFields
  <2>2. fields = FileFields[operation]
    BY <1>3
  <2>3. fields \in {<<"path", "source">>, <<"path">>, <<"from", "to">>}
    BY <2>1, <2>2 DEF FileFields
  <2> HIDE DEF fields
  <2>4. fields \in Seq(Keys) /\ Len(fields) \in {1, 2}
        /\ (Len(fields) = 2 => fields[1] # fields[2])
    <3>1. CASE fields = <<"path", "source">>
      BY <3>1 DEF Keys
    <3>2. CASE fields = <<"path">>
      BY <3>2 DEF Keys
    <3>3. CASE fields = <<"from", "to">>
      BY <3>3 DEF Keys
    <3>4. QED
      BY <2>3, <3>1, <3>2, <3>3
  <2>5. operation \in Operations
    BY <2>1 DEF Operations
  <2>6. \A i, j \in 1..Len(fields) : i # j => fields[i] # fields[j]
    <3>1. \A i, j \in 1..2 : i # j => (i = 1 /\ j = 2) \/ (i = 2 /\ j = 1)
      OBVIOUS
    <3>2. \A i, j \in 1..1 : i = j
      OBVIOUS
    <3>3. QED
      BY <2>4, <3>1, <3>2
  <2>7. QED
    BY <1>3, <2>4, <2>5, <2>6 DEF fields
<1>4. QED
  BY <1>1, <1>2, <1>3

\* The texts of an item, field by field.
AreTexts(fields, texts) ==
    /\ texts \in [1..Len(fields) -> Seq(Chars)]
    /\ \A k \in 1..Len(fields) : fields[k] \in Numbers => texts[k] = <<"plain">>

\* What is written of each field.
WrittenParts(fields, texts) == [i \in DOMAIN fields |-> Written(fields[i], texts[i])]

\* What is written of the fields: no key stands in front of its own field.
LEMMA FieldsLaid ==
    ASSUME NEW fields \in Seq(Keys), NEW texts, AreTexts(fields, texts),
           \A i, j \in 1..Len(fields) : i # j => fields[i] # fields[j]
    PROVE  /\ WrittenParts(fields, texts) \in Seq(Seq(Tokens))
           /\ Len(WrittenParts(fields, texts)) = Len(fields)
           /\ \A i \in 1..Len(fields) :
                 WrittenParts(fields, texts)[i] = Written(fields[i], texts[i])
           /\ FlattenSeq(WrittenParts(fields, texts)) \in Seq(Tokens)
           /\ \E ends :
                 /\ Laid(FlattenSeq(WrittenParts(fields, texts)), WrittenParts(fields, texts), ends)
                 /\ \A k \in 1..Len(fields) : \A p \in 1..ends[k - 1] :
                       FlattenSeq(WrittenParts(fields, texts))[p] # fields[k]
           /\ \A p \in 1..Len(FlattenSeq(WrittenParts(fields, texts))) :
                 \/ FlattenSeq(WrittenParts(fields, texts))[p] \in Chars
                 \/ \E k \in 1..Len(fields) : FlattenSeq(WrittenParts(fields, texts))[p] = fields[k]
<1> DEFINE W == WrittenParts(fields, texts)
           n == Len(fields)
           F == FlattenSeq(W)
<1>1. n \in Nat /\ DOMAIN fields = 1..n /\ \A i \in 1..n : fields[i] \in Keys
  BY LenProperties
<1>2. ASSUME NEW i \in 1..n
      PROVE  /\ Written(fields[i], texts[i]) \in Seq(Tokens)
             /\ Len(Written(fields[i], texts[i])) >= 2
             /\ Written(fields[i], texts[i])[1] = fields[i]
             /\ \A k \in 2..Len(Written(fields[i], texts[i])) :
                   Written(fields[i], texts[i])[k] \in Chars
  <2> DEFINE field == fields[i]
             text == texts[i]
  <2>1. field \in Keys /\ text \in Seq(Chars) /\ (field \in Numbers => text = <<"plain">>)
    BY <1>1 DEF AreTexts
  <2> HIDE DEF field, text
  <2>2. /\ Written(field, text) \in Seq(Tokens)
        /\ Len(Written(field, text)) >= 2
        /\ Written(field, text)[1] = field
        /\ \A k \in 2..Len(Written(field, text)) : Written(field, text)[k] \in Chars
    BY <2>1, WrittenIs
  <2>3. QED
    BY <2>2 DEF field, text
<1> HIDE DEF n
<1>3. W = [i \in 1..n |-> Written(fields[i], texts[i])]
  BY <1>1, Zenon DEF WrittenParts
<1> HIDE DEF W
<1>4. W \in Seq(Seq(Tokens)) /\ Len(W) = n /\ \A i \in 1..n : W[i] = Written(fields[i], texts[i])
  <2>1. W \in [1..n -> Seq(Tokens)]
    BY <1>2, <1>3
  <2>2. \A i \in 1..n : W[i] = Written(fields[i], texts[i])
    BY <1>3
  <2>3. W \in Seq(Seq(Tokens)) /\ Len(W) = n
    BY <1>1, <2>1
  <2>4. QED
    BY <2>2, <2>3
<1>5. F \in Seq(Tokens) /\ \E ends : Laid(F, W, ends)
  BY <1>4, FlattenLaid
<1> HIDE DEF F
<1>6. PICK ends : Laid(F, W, ends)
  BY <1>5
<1>7. \A p \in 1..Len(F) : InPart(W, ends, p)
  BY <1>4, <1>6, Located
<1>8. \A i, j \in 0..n : i <= j => ends[i] <= ends[j]
  BY <1>4, <1>6, EndsRise
<1>9. /\ ends \in [0..n -> Nat] /\ ends[n] = Len(F)
      /\ \A i \in 1..n : ends[i] = ends[i - 1] + Len(W[i]) /\ Holds(F, ends[i - 1], W[i])
  BY <1>4, <1>6 DEF Laid
<1>10. ASSUME NEW p \in 1..Len(F)
       PROVE  F[p] \in Chars \/ \E i \in 1..n : F[p] = fields[i] /\ p = ends[i - 1] + 1
  <2>1. PICK i \in 1..n : \E k \in 1..Len(W[i]) : p = ends[i - 1] + k
    BY <1>4, <1>7 DEF InPart
  <2>2. PICK k \in 1..Len(W[i]) : p = ends[i - 1] + k
    BY <2>1
  <2>3. F[p] = W[i][k]
    BY <1>9, <2>2 DEF Holds
  <2>4. k = 1 \/ k \in 2..Len(W[i])
    <3>1. Len(W[i]) \in Nat
      BY <1>4, <1>2
    <3>2. QED
      BY <3>1
  <2>5. CASE k = 1
    BY <1>2, <1>4, <2>2, <2>3, <2>5
  <2>6. CASE k \in 2..Len(W[i])
    BY <1>2, <1>4, <2>3, <2>6
  <2>7. QED
    BY <2>4, <2>5, <2>6
<1>11. ASSUME NEW k \in 1..n, NEW p \in 1..ends[k - 1], F[p] = fields[k]
       PROVE  FALSE
  <2>1. k - 1 \in 0..n /\ n \in 0..n /\ k - 1 <= n
    BY <1>1
  <2>2. ends[k - 1] \in Nat /\ Len(F) \in Nat /\ ends[k - 1] <= Len(F)
    BY <1>8, <1>9, <2>1
  <2>3. p \in 1..Len(F)
    BY <2>2
  <2>4. fields[k] \notin Chars
    BY <1>1, KeysAreTokens
  <2>5. PICK i \in 1..n : F[p] = fields[i] /\ p = ends[i - 1] + 1
    BY <1>10, <1>11, <2>3, <2>4
  <2>6. i = k
    BY <1>11, <2>5 DEF n
  <2>7. QED
    BY <2>2, <2>5, <2>6
<1>12. /\ \A k \in 1..n : \A p \in 1..ends[k - 1] : F[p] # fields[k]
       /\ \A p \in 1..Len(F) : F[p] \in Chars \/ \E k \in 1..n : F[p] = fields[k]
  BY <1>10, <1>11
<1>13. QED
  BY <1>4, <1>5, <1>6, <1>12 DEF W, F, n

\* What is written of the path and of the fields of an item.
PathPart(item) == IF item.path \in {NoText, <<>>} THEN <<>> ELSE Written("path", item.path)

FieldPart(action, item) ==
    FlattenSeq(WrittenParts(FieldsOf(action)[item.operation], item.texts))

\* The assumption on batches, spelled out for an item.
LEMMA ItemIs ==
    ASSUME NEW action, NEW item, IsBatchItem(action, item)
    PROVE  /\ item.operation \in DOMAIN FieldsOf(action)
           /\ AreTexts(FieldsOf(action)[item.operation], item.texts)
           /\ DOMAIN FieldsOf(action)[item.operation] = DOMAIN item.texts
           /\ item.path \in Seq(Chars) \cup {NoText}
           /\ action = "apply_file_operations" => item.path = NoText
           /\ item = BatchItem(item.operation, item.path, item.texts)
<1> DEFINE fields == FieldsOf(action)[item.operation]
<1>1. /\ item \in [operation : DOMAIN FieldsOf(action), path : Seq(Chars) \cup {NoText},
                   texts : [DOMAIN fields -> Seq(Chars)]]
      /\ action = "apply_file_operations" => item.path = NoText
      /\ \A k \in DOMAIN fields : fields[k] \in Numbers => item.texts[k] = <<"plain">>
  BY Zenon DEF IsBatchItem
<1> HIDE DEF fields
<1>2. /\ item.operation \in DOMAIN FieldsOf(action) /\ item.path \in Seq(Chars) \cup {NoText}
      /\ item.texts \in [DOMAIN fields -> Seq(Chars)]
      /\ item = [operation |-> item.operation, path |-> item.path, texts |-> item.texts]
  BY <1>1
<1>3. DOMAIN fields = 1..Len(fields)
  <2>1. CASE FieldsOf(action) = CorrectionFields
    BY <1>2, <2>1 DEF CorrectionFields, fields
  <2>2. CASE FieldsOf(action) = FileFields
    BY <1>2, <2>2 DEF FileFields, fields
  <2>3. QED
    BY <2>1, <2>2 DEF FieldsOf
<1>4. AreTexts(fields, item.texts)
  BY <1>1, <1>2, <1>3 DEF AreTexts
<1>5. DOMAIN fields = DOMAIN item.texts
  BY <1>2
<1>6. QED
  BY <1>1, <1>2, <1>4, <1>5 DEF BatchItem, fields

\* No text is told from every text.
LEMMA NoTextIs == NoText \notin Seq(Chars) /\ NoText # <<>>
<1>1. "none" \notin Chars
  BY DEF Chars
<1>2. QED
  BY <1>1 DEF NoText

\* What is written of a path, if one is named.
LEMMA PathPartIs ==
    ASSUME NEW item, item.path \in Seq(Chars) \cup {NoText}
    PROVE  /\ PathPart(item) \in Seq(Tokens)
           /\ \A p \in 1..Len(PathPart(item)) :
                 PathPart(item)[p] \in Chars \/ PathPart(item)[p] = "path"
           /\ item.path \notin {NoText, <<>>} => PathPart(item) = Written("path", item.path)
           /\ item.path \in {NoText, <<>>} => PathPart(item) = <<>>
<1>1. CASE item.path \in {NoText, <<>>}
  BY <1>1 DEF PathPart
<1>2. CASE item.path \notin {NoText, <<>>}
  <2> DEFINE text == item.path
             w == Written("path", text)
  <2>1. text \in Seq(Chars) /\ "path" \in Keys /\ "path" \notin Numbers
    BY <1>2 DEF Keys, Numbers
  <2> HIDE DEF text
  <2>2. /\ w \in Seq(Tokens) /\ w[1] = "path" /\ Len(w) >= 2
        /\ \A k \in 2..Len(w) : w[k] \in Chars
    BY <2>1, WrittenIs
  <2> HIDE DEF w
  <2>3. \A p \in 1..Len(w) : w[p] \in Chars \/ w[p] = "path"
    <3>1. Len(w) \in Nat
      BY <2>2
    <3>2. \A p \in 1..Len(w) : p = 1 \/ p \in 2..Len(w)
      BY <3>1
    <3>3. QED
      BY <2>2, <3>2
  <2>4. PathPart(item) = w
    BY <1>2, Zenon DEF PathPart, w, text
  <2>5. QED
    BY <1>2, <2>2, <2>3, <2>4 DEF w, text
<1>3. QED
  BY <1>1, <1>2

\* Where the parts of a written item stand.
LEMMA ItemLaid ==
    ASSUME NEW action, NEW item, item.operation \in Tokens,
           PathPart(item) \in Seq(Tokens), FieldPart(action, item) \in Seq(Tokens)
    PROVE  /\ WrittenItem(action, item) \in Seq(Tokens)
           /\ Len(WrittenItem(action, item))
                 = Len(PathPart(item)) + Len(FieldPart(action, item)) + 3
           /\ WrittenItem(action, item)[1] = "lbrace"
           /\ WrittenItem(action, item)[2] = item.operation
           /\ WrittenItem(action, item)[Len(WrittenItem(action, item))] = "rbrace"
           /\ Holds(WrittenItem(action, item), 2, PathPart(item))
           /\ Holds(WrittenItem(action, item), 2 + Len(PathPart(item)), FieldPart(action, item))
           /\ WrittenFields(action, item)
                 = (<<item.operation>> \o PathPart(item)) \o FieldPart(action, item)
           /\ WrittenFields(action, item) \in Seq(Tokens)
<1> DEFINE P == PathPart(item)
           F == FieldPart(action, item)
           u == <<item.operation>>
           v == u \o P
           w == v \o F
           object == Between("lbrace", w, "rbrace")
<1>1. WrittenFields(action, item) = w
  BY Zenon DEF WrittenFields, PathPart, FieldPart, WrittenParts
<1>2. WrittenItem(action, item) = object
  BY <1>1, Zenon DEF WrittenItem, Between
<1>3. u \in Seq(Tokens) /\ Len(u) = 1 /\ u[1] = item.operation /\ P \in Seq(Tokens)
      /\ F \in Seq(Tokens)
  OBVIOUS
<1> HIDE DEF P, F, u
<1>4. /\ v \in Seq(Tokens) /\ Len(v) = 1 + Len(P) /\ Holds(v, 0, u) /\ Holds(v, 1, P)
  BY <1>3, ConcatHolds
<1> HIDE DEF v
<1>5. /\ w \in Seq(Tokens) /\ Len(w) = Len(v) + Len(F) /\ Holds(w, 0, v) /\ Holds(w, Len(v), F)
  BY <1>3, <1>4, ConcatHolds
<1> HIDE DEF w
<1>6. "lbrace" \in Tokens /\ "rbrace" \in Tokens
  BY KeysAreTokens, CharsAreTokens
<1>7. /\ object \in Seq(Tokens) /\ Len(object) = Len(w) + 2
      /\ object[1] = "lbrace" /\ object[Len(object)] = "rbrace" /\ Holds(object, 1, w)
  BY <1>5, <1>6, Enclosed
<1> HIDE DEF object
<1>8. /\ Len(P) \in Nat /\ Len(F) \in Nat /\ Len(u) \in Nat /\ Len(v) \in Nat /\ Len(w) \in Nat
      /\ Len(object) \in Nat
  BY <1>3, <1>4, <1>5, <1>7
<1>9. Holds(object, 1 + 0, v) /\ Holds(object, 1 + Len(v), F)
  BY <1>5, <1>7, <1>8, HoldsWithin
<1>10. 1 + 0 = 1 /\ 1 + Len(v) = 2 + Len(P) /\ 1 + 1 = 2 /\ 1 \in Nat
  BY <1>4, <1>8
<1>11. Holds(object, 1, u) /\ Holds(object, 2, P)
  <2>1. Holds(object, 1, v)
    BY <1>9, <1>10
  <2>2. Holds(object, 1 + 0, u) /\ Holds(object, 1 + 1, P)
    BY <1>4, <1>8, <1>10, <2>1, HoldsWithin
  <2>3. QED
    BY <1>10, <2>2
<1>12. object[2] = item.operation
  <2>1. 1 \in 1..Len(u)
    BY <1>3
  <2>2. QED
    BY <1>3, <1>10, <1>11, <2>1 DEF Holds
<1>13. Holds(object, 2 + Len(P), F)
  BY <1>9, <1>10
<1>14. Len(object) = Len(P) + Len(F) + 3
  BY <1>4, <1>5, <1>7, <1>8
<1>15. QED
  BY <1>1, <1>2, <1>5, <1>7, <1>11, <1>12, <1>13, <1>14 DEF P, F, u, v, w

\* The texts of an item hold characters of one byte only.
IsPlainItem(item) ==
    /\ \A k \in DOMAIN item.texts : item.texts[k] \in Seq(Plain)
    /\ item.path \in Seq(Plain) \cup {NoText}

\* An item is read as it was written.
LEMMA ItemRead ==
    ASSUME NEW action \in {"apply_correction", "apply_file_operations"},
           NEW item, IsBatchItem(action, item), IsPlainItem(item)
    PROVE  ReadItem(action, WrittenItem(action, item)) = Aimed(item)
<1> DEFINE fields == FieldsOf(action)[item.operation]
           texts == item.texts
           n == Len(fields)
           P == PathPart(item)
           F == FieldPart(action, item)
           W == WrittenParts(fields, texts)
           object == WrittenItem(action, item)
           l == Len(P)
           named == {i \in DOMAIN object : object[i] \in DOMAIN FieldsOf(action)}
<1>1. /\ item.operation \in DOMAIN FieldsOf(action)
      /\ AreTexts(fields, texts) /\ DOMAIN fields = DOMAIN texts
      /\ item.path \in Seq(Chars) \cup {NoText}
      /\ action = "apply_file_operations" => item.path = NoText
  BY ItemIs
<1>2. /\ item.operation \in Operations /\ fields \in Seq(Keys)
      /\ \A i, j \in 1..Len(fields) : i # j => fields[i] # fields[j]
      /\ action = "apply_correction" => \A i \in 1..Len(fields) : fields[i] # "path"
  BY <1>1, FieldsAre
<1>3. ReadItem(action, object)
         = IF named = {} THEN BatchItem("none", NoText, <<NoText>>)
           ELSE BatchItem(object[First(named)],
                   IF action = "apply_correction" THEN Extract(object, "path") ELSE NoText,
                   [i \in DOMAIN FieldsOf(action)[object[First(named)]] |->
                       Extract(object, FieldsOf(action)[object[First(named)]][i])])
  BY Zenon DEF ReadItem
<1>4. ASSUME NEW x \in DOMAIN FieldsOf(action) PROVE x \in Operations
  BY FieldsAre
<1>5. \A k \in 1..n : texts[k] \in Seq(Plain) /\ fields[k] \in Keys
                      /\ (fields[k] \in Numbers => texts[k] = <<"plain">>)
  <2>1. DOMAIN fields = 1..n /\ \A k \in 1..n : fields[k] \in Keys
    BY <1>2, LenProperties
  <2>2. QED
    BY <1>1, <2>1 DEF IsPlainItem, AreTexts
<1> HIDE DEF fields, texts
<1>6. W \in Seq(Seq(Tokens)) /\ Len(W) = n
      /\ \A i \in 1..n : W[i] = Written(fields[i], texts[i])
  BY <1>1, <1>2, FieldsLaid
<1>7. F = FlattenSeq(W)
  BY Zenon DEF FieldPart, fields, texts
<1>8. /\ F \in Seq(Tokens)
      /\ \E ends : /\ Laid(F, W, ends)
                   /\ \A k \in 1..n : \A p \in 1..ends[k - 1] : F[p] # fields[k]
      /\ \A p \in 1..Len(F) : F[p] \in Chars \/ \E k \in 1..n : F[p] = fields[k]
  BY <1>1, <1>2, <1>7, FieldsLaid
<1>9. PICK ends : /\ Laid(F, W, ends)
                  /\ \A k \in 1..n : \A p \in 1..ends[k - 1] : F[p] # fields[k]
  BY <1>8
<1>10. /\ P \in Seq(Tokens)
       /\ \A p \in 1..Len(P) : P[p] \in Chars \/ P[p] = "path"
       /\ item.path \notin {NoText, <<>>} => P = Written("path", item.path)
       /\ item.path \in {NoText, <<>>} => P = <<>>
  BY <1>1, PathPartIs
<1>11. /\ object \in Seq(Tokens) /\ Len(object) = Len(P) + Len(F) + 3
       /\ object[1] = "lbrace" /\ object[2] = item.operation /\ object[Len(object)] = "rbrace"
       /\ Holds(object, 2, P) /\ Holds(object, 2 + Len(P), F)
  <2>1. item.operation \in Tokens
    BY <1>2, KeysAreTokens
  <2>2. PathPart(item) \in Seq(Tokens) /\ FieldPart(action, item) \in Seq(Tokens)
    BY <1>8, <1>10
  <2>3. QED
    BY <2>1, <2>2, ItemLaid, Zenon
<1> HIDE DEF object, P, F, W, n
<1>12. /\ n \in Nat /\ l \in Nat /\ Len(F) \in Nat /\ Len(object) \in Nat
       /\ DOMAIN object = 1..Len(object) /\ DOMAIN fields = 1..n
  BY <1>2, <1>8, <1>10, <1>11, LenProperties DEF n
<1>13. /\ ends \in [0..n -> Nat] /\ ends[n] = Len(F)
       /\ \A i \in 1..n : Holds(F, ends[i - 1], W[i])
  BY <1>6, <1>9 DEF Laid
<1>14. /\ \A k \in 1..l : object[2 + k] = P[k]
       /\ \A k \in 1..Len(F) : object[2 + l + k] = F[k]
  BY <1>11 DEF Holds
<1> HIDE DEF l
<1>15. Len(object) = l + Len(F) + 3
  BY <1>11 DEF l
<1>16. named # {} /\ object[First(named)] = item.operation
  <2>1. 2 \in named
    BY <1>1, <1>11, <1>12, <1>15
  <2>2. \A p \in named : 2 <= p
    <3> SUFFICES ASSUME NEW p \in named PROVE 2 <= p
      OBVIOUS
    <3>1. p \in 1..Len(object) /\ object[p] \in Operations
      BY <1>4, <1>12
    <3>2. p # 1
      BY <1>11, <3>1, KeysAreTokens
    <3>3. QED
      BY <1>12, <3>1, <3>2
  <2>3. named \subseteq Nat
    BY <1>12
  <2> HIDE DEF named
  <2>4. First(named) = 2
    BY <2>1, <2>2, <2>3, FirstIs
  <2>5. QED
    BY <1>11, <2>1, <2>4
<1>17. ASSUME NEW key \in Keys, NEW p \in 1..Len(object), object[p] = key
       PROVE  \/ key = "path" /\ l # 0 /\ p \in 3..(l + 2)
              \/ p > l + 2 /\ p - l - 2 \in 1..Len(F) /\ F[p - l - 2] = key
  <2>1. p # 1 /\ p # 2 /\ p # Len(object)
    BY <1>2, <1>11, <1>17, KeysAreTokens
  <2>2. CASE p <= l + 2
    <3>1. p - 2 \in 1..l /\ 2 + (p - 2) = p /\ l # 0 /\ p \in 3..(l + 2)
      <4>1. p \in Nat /\ p >= 1 /\ l \in Nat
        BY <1>12
      <4>2. p # 1 /\ p # 2
        BY <2>1
      <4>3. QED
        BY <2>2, <4>1, <4>2
    <3>2. P[p - 2] = key
      BY <1>14, <1>17, <3>1
    <3>3. P[p - 2] \in Chars \/ P[p - 2] = "path"
      BY <1>10, <3>1 DEF l
    <3>4. key = "path"
      BY <3>2, <3>3, KeysAreTokens
    <3>5. QED
      BY <3>1, <3>4
  <2>3. CASE ~(p <= l + 2)
    <3>1. p - l - 2 \in 1..Len(F) /\ 2 + l + (p - l - 2) = p
      BY <1>12, <1>15, <2>1, <2>3
    <3>2. F[p - l - 2] = key
      BY <1>14, <1>17, <3>1
    <3>3. QED
      BY <1>12, <2>3, <3>1, <3>2
  <2>4. QED
    BY <2>2, <2>3
<1>18. l # 0 => action = "apply_correction" /\ item.path \notin {NoText, <<>>}
  BY <1>1, <1>10 DEF l
<1>19. ASSUME NEW k \in 1..n PROVE Extract(object, fields[k]) = texts[k]
  <2> DEFINE e == ends[k - 1]
             a == 2 + l + e
             field == fields[k]
             text == texts[k]
  <2>1. e \in Nat /\ a \in Nat /\ Holds(F, e, W[k]) /\ W[k] \in Seq(Tokens) /\ Len(W[k]) \in Nat
        /\ W[k] = Written(field, text)
    BY <1>6, <1>12, <1>13
  <2>2. /\ field \in Keys /\ text \in Seq(Plain)
        /\ (field \in Numbers => text = <<"plain">>)
    BY <1>5
  <2>3. Holds(object, 2 + l, F) /\ 2 + l \in Nat
    BY <1>11, <1>12 DEF l
  <2>4. l # 0 => field # "path"
    BY <1>2, <1>18 DEF n
  <2>5. \A p \in 1..e : F[p] # field
    BY <1>9
  <2> HIDE DEF e, field, text
  <2>6. Holds(object, a, Written(field, text))
    <3>1. Holds(object, (2 + l) + e, W[k])
      BY <1>12, <2>1, <2>3, HoldsWithin
    <3>2. QED
      BY <2>1, <3>1
  <2>7. \A p \in 1..a : object[p] # field
    <3> SUFFICES ASSUME NEW p \in 1..a, object[p] = field PROVE FALSE
      OBVIOUS
    <3>1. p \in 1..Len(object)
      <4>1. a + Len(Written(field, text)) <= Len(object)
        BY <2>6 DEF Holds
      <4>2. Len(Written(field, text)) \in Nat
        BY <2>1
      <4> HIDE DEF a
      <4>3. QED
        BY <1>12, <2>1, <4>1, <4>2
    <3>2. p > l + 2 /\ p - l - 2 \in 1..Len(F) /\ F[p - l - 2] = field
      BY <1>17, <2>2, <2>4, <3>1
    <3>3. p - l - 2 \in 1..e
      BY <1>12, <2>1, <3>2
    <3>4. QED
      BY <2>5, <3>2, <3>3
  <2> HIDE DEF a
  <2>8. Extract(object, field) = text
    BY <1>11, <2>1, <2>2, <2>6, <2>7, ExtractIs
  <2>9. QED
    BY <2>8 DEF field, text
<1>20. ASSUME action = "apply_correction"
       PROVE  Extract(object, "path") = IF item.path = <<>> THEN NoText ELSE item.path
  <2> DEFINE path == item.path
  <2>1. "path" \in Keys /\ "path" \notin Numbers
    BY DEF Keys, Numbers
  <2>2. ASSUME NEW p \in 1..Len(F) PROVE F[p] # "path"
    BY <1>2, <1>8, <1>20, <2>1, KeysAreTokens DEF n
  <2>3. CASE path \in {NoText, <<>>}
    <3>1. l = 0
      BY <1>10, <2>3 DEF l
    <3>2. \A p \in 1..Len(object) : object[p] # "path"
      BY <1>17, <2>1, <2>2, <3>1
    <3>3. Extract(object, "path") = NoText
      BY <1>11, <3>2, ExtractNone
    <3>4. QED
      BY <2>3, <3>3
  <2>4. CASE path \notin {NoText, <<>>}
    <3>1. path \in Seq(Plain)
      BY <2>4 DEF IsPlainItem
    <3>2. Holds(object, 2, Written("path", path)) /\ 2 \in Nat
      BY <1>10, <1>11, <2>4
    <3>3. object[1] # "path" /\ object[2] # "path"
      BY <1>2, <1>11, <2>1, KeysAreTokens
    <3> HIDE DEF path
    <3>4. \A p \in 1..2 : object[p] # "path"
      BY <3>3
    <3>5. Extract(object, "path") = path
      BY <1>11, <2>1, <3>1, <3>2, <3>4, ExtractIs
    <3>6. QED
      BY <2>4, <3>5 DEF path
  <2>5. QED
    BY <2>3, <2>4
<1>21. [i \in DOMAIN fields |-> Extract(object, fields[i])] = texts
  <2>1. DOMAIN texts = 1..n /\ texts = [i \in 1..n |-> texts[i]]
    BY <1>1, <1>12 DEF AreTexts, n
  <2>2. QED
    BY <1>12, <1>19, <2>1
<1>22. ReadItem(action, object)
          = BatchItem(item.operation,
                      IF action = "apply_correction" THEN Extract(object, "path") ELSE NoText,
                      [i \in DOMAIN fields |-> Extract(object, fields[i])])
  BY <1>3, <1>16, Zenon DEF fields
<1>23. (IF action = "apply_correction" THEN Extract(object, "path") ELSE NoText)
          = IF item.path = <<>> THEN NoText ELSE item.path
  BY <1>1, <1>20
<1>24. QED
  BY <1>21, <1>22, <1>23, Zenon DEF Aimed, object, texts

-----------------------------------------------------------------------------
(***************************************************************************)
(* The brackets of an item.                                                *)
(***************************************************************************)
\* Braces, or brackets.
IsPair(open, close) ==
    \/ open = "lbrace" /\ close = "rbrace"
    \/ open = "lbracket" /\ close = "rbracket"

\* Brackets are not what is written around a text.
LEMMA PairIs ==
    ASSUME NEW open, NEW close, IsPair(open, close)
    PROVE  /\ open # close /\ open \in Chars /\ close \in Chars
           /\ "quote" \notin {open, close} /\ "backslash" \notin {open, close}
           /\ \A x \in Keys \cup Operations : x \notin {open, close}
BY DEF IsPair, Chars, Keys, Operations

\* Texts without brackets shadow each other.
LEMMA NeutralsShadow ==
    ASSUME NEW w \in Seq(Tokens), NEW t \in Seq(Tokens), NEW open, NEW close, open # close,
           \A i \in 1..Len(w) : w[i] \notin {open, close},
           \A i \in 1..Len(t) : t[i] \notin {open, close}
    PROVE  Shadows(w, t, open, close)
<1>1. Shadows(w, <<>>, open, close) /\ Shadows(t, <<>>, open, close)
  BY NeutralShadows
<1>2. Len(<<>>) = 0 /\ \A j \in 0..Len(<<>>) : j = 0
  OBVIOUS
<1>3. Len(t) \in 0..Len(t)
  OBVIOUS
<1> DEFINE D(x, i) == Depth(x, i, open, close)
<1>4. /\ D(w, Len(w)) = D(<<>>, 0) /\ D(t, Len(t)) = D(<<>>, 0)
      /\ \A i \in 0..Len(w) : D(w, i) = D(<<>>, 0)
  BY <1>1, <1>2 DEF Shadows
<1> HIDE DEF D
<1>5. /\ D(w, Len(w)) = D(t, Len(t))
      /\ \A i \in 0..Len(w) : \E j \in 0..Len(t) : D(w, i) = D(t, j)
  BY <1>3, <1>4
<1>6. QED
  BY <1>5 DEF Shadows, D

\* An escape adds no bracket.
LEMMA EscapedShadows ==
    ASSUME NEW c \in Chars, NEW open, NEW close, IsPair(open, close)
    PROVE  Shadows(Escaped(c), <<c>>, open, close)
<1> DEFINE t == <<c>>
           e == <<"backslash", c>>
<1>1. /\ open # close /\ "quote" \notin {open, close} /\ "backslash" \notin {open, close}
      /\ "backslash" \in Tokens /\ c \in Tokens
  BY PairIs, CharsAreTokens DEF Chars
<1>2. t \in Seq(Tokens) /\ Len(t) = 1 /\ t[1] = c
  BY <1>1
<1>3. CASE c \in {"quote", "backslash"}
  <2>1. e \in Seq(Tokens) /\ Len(e) = 2 /\ e[1] = "backslash" /\ e[2] = c
    BY <1>1
  <2>2. c \notin {open, close}
    BY <1>1, <1>3
  <2>3. Escaped(c) = e
    BY <1>3 DEF Escaped
  <2> HIDE DEF e, t
  <2>4. \A i \in 1..Len(e) : e[i] \notin {open, close}
    <3>1. \A i \in 1..2 : i = 1 \/ i = 2
      OBVIOUS
    <3>2. QED
      BY <1>1, <2>1, <2>2, <3>1
  <2>5. \A i \in 1..Len(t) : t[i] \notin {open, close}
    BY <1>2, <2>2
  <2>6. Shadows(e, t, open, close)
    BY <1>1, <1>2, <2>1, <2>4, <2>5, NeutralsShadow
  <2>7. QED
    BY <2>3, <2>6 DEF t
<1>4. CASE c \notin {"quote", "backslash"}
  <2>1. Escaped(c) = t
    BY <1>4 DEF Escaped
  <2>2. Shadows(t, t, open, close)
    BY <1>2, ShadowsItself
  <2>3. QED
    BY <2>1, <2>2
<1>5. QED
  BY <1>3, <1>4

\* What is written around a text and in it leaves its brackets as they are.
LEMMA JsonShadows ==
    ASSUME NEW text \in Seq(Chars), NEW open, NEW close, IsPair(open, close)
    PROVE  Shadows(JsonString(text), text, open, close)
<1> DEFINE W == EscapedParts(text)
           E == FlattenSeq(W)
           n == Len(text)
           V == [i \in 1..n |-> <<text[i]>>]
           stops == [i \in 0..n |-> i]
           q == <<"quote">>
<1>1. n \in Nat /\ text \in Seq(Tokens) /\ \A i \in 1..n : text[i] \in Chars
  BY CharsAreTokens
<1>2. /\ W \in Seq(Seq(Chars)) /\ Len(W) = n
      /\ \A i \in 1..n : W[i] = Escaped(text[i])
      /\ E \in Seq(Chars) /\ \E ends : Laid(E, W, ends)
      /\ JsonString(text) = Between("quote", E, "quote")
  BY PartsAre
<1> HIDE DEF W, E
<1>3. W \in Seq(Seq(Tokens)) /\ E \in Seq(Tokens)
  BY <1>2, CharsAreTokens
<1>4. \A i \in 1..n : <<text[i]>> \in Seq(Tokens) /\ Len(<<text[i]>>) = 1
                      /\ <<text[i]>>[1] = text[i]
  BY <1>1, CharsAreTokens
<1> HIDE DEF n
<1>5. /\ V \in Seq(Seq(Tokens)) /\ Len(V) = n
      /\ \A i \in 1..n : V[i] = <<text[i]>>
  <2>1. \A i \in 1..n : V[i] = <<text[i]>>
    OBVIOUS
  <2>2. V \in [1..n -> Seq(Tokens)]
    BY <1>4
  <2> HIDE DEF V
  <2>3. V \in Seq(Seq(Tokens)) /\ Len(V) = n
    BY <1>1, <2>2
  <2>4. QED
    BY <2>1, <2>3
<1>6. \A i \in 1..n : Len(V[i]) = 1 /\ V[i][1] = text[i]
  BY <1>4, <1>5
<1>7. \A i \in 0..n : stops[i] = i
  OBVIOUS
<1>8. stops \in [0..n -> Nat]
  BY <1>1
<1> HIDE DEF V, stops
<1>9. Laid(text, V, stops)
  <2>1. stops[0] = 0 /\ stops[Len(V)] = Len(text)
    BY <1>1, <1>5, <1>7 DEF n
  <2>2. ASSUME NEW i \in 1..n
        PROVE  stops[i] = stops[i - 1] + Len(V[i]) /\ Holds(text, stops[i - 1], V[i])
    <3>1. i - 1 \in 0..n /\ i \in 0..n /\ (i - 1) + 1 = i /\ i <= n
      BY <1>1
    <3>2. stops[i - 1] = i - 1 /\ stops[i] = i
      BY <1>7, <3>1
    <3>3. \A k \in 1..Len(V[i]) : k = 1
      <4>1. Len(V[i]) = 1 /\ \A k \in 1..1 : k = 1
        BY <1>6
      <4>2. QED
        BY <4>1
    <3>4. \A k \in 1..Len(V[i]) : text[stops[i - 1] + k] = V[i][k]
      BY <1>6, <3>1, <3>2, <3>3
    <3>5. stops[i - 1] + Len(V[i]) = i
      BY <1>6, <3>1, <3>2
    <3>6. QED
      BY <3>1, <3>2, <3>4, <3>5 DEF Holds, n
  <2>3. QED
    BY <1>5, <1>8, <2>1, <2>2 DEF Laid
<1>10. open # close /\ "quote" \notin {open, close} /\ "quote" \in Tokens
  BY PairIs, CharsAreTokens DEF Chars
<1>11. \A i \in 1..n : Shadows(W[i], V[i], open, close)
  BY <1>1, <1>2, <1>5, EscapedShadows
<1>12. Shadows(E, text, open, close)
  <2>1. PICK ends : Laid(E, W, ends)
    BY <1>2
  <2>2. QED
    BY <1>1, <1>2, <1>3, <1>5, <1>9, <1>10, <1>11, <2>1, LaidShadows
<1>13. q \in Seq(Tokens) /\ Shadows(q, <<>>, open, close)
  <2>1. q \in Seq(Tokens) /\ Len(q) = 1 /\ q[1] = "quote"
    BY <1>10
  <2> HIDE DEF q
  <2>2. \A i \in 1..Len(q) : q[i] \notin {open, close}
    BY <1>10, <2>1
  <2>3. QED
    BY <1>10, <2>1, <2>2, NeutralShadows
<1>14. <<>> \in Seq(Tokens)
  OBVIOUS
<1> HIDE DEF q
<1>15. Shadows(q \o E, <<>> \o text, open, close) /\ q \o E \in Seq(Tokens)
  BY <1>1, <1>3, <1>10, <1>12, <1>13, <1>14, ConcatShadows, ConcatProperties
<1>16. <<>> \o text = text /\ text \o <<>> = text
  BY <1>1, ConcatEmptySeq
<1>17. Shadows((q \o E) \o q, text \o <<>>, open, close)
  BY <1>1, <1>10, <1>13, <1>14, <1>15, <1>16, ConcatShadows
<1>18. QED
  BY <1>2, <1>16, <1>17, Zenon DEF Between, q

\* A written field is as deep as its text.
LEMMA WrittenShadows ==
    ASSUME NEW field \in Keys, NEW text \in Seq(Chars),
           NEW open, NEW close, IsPair(open, close)
    PROVE  Shadows(Written(field, text), text, open, close)
<1> DEFINE u == <<field>>
           v == IF field \in Numbers THEN text ELSE JsonString(text)
<1>1. /\ open # close /\ field \notin {open, close} /\ field \in Tokens
      /\ text \in Seq(Tokens)
  BY PairIs, KeysAreTokens, CharsAreTokens
<1>2. JsonString(text) \in Seq(Tokens)
  <2> DEFINE m == FlattenSeq(EscapedParts(text))
  <2>1. m \in Seq(Chars) /\ JsonString(text) = Between("quote", m, "quote") /\ "quote" \in Chars
    BY PartsAre DEF Chars
  <2> HIDE DEF m
  <2>2. JsonString(text) \in Seq(Chars)
    BY <2>1, Enclosed
  <2>3. QED
    BY <2>2, CharsAreTokens
<1>3. v \in Seq(Tokens) /\ Shadows(v, text, open, close)
  <2>1. Shadows(text, text, open, close) /\ Shadows(JsonString(text), text, open, close)
    BY <1>1, ShadowsItself, JsonShadows
  <2>2. QED
    BY <1>1, <1>2, <2>1
<1>4. u \in Seq(Tokens) /\ Shadows(u, <<>>, open, close)
  <2>1. u \in Seq(Tokens) /\ Len(u) = 1 /\ u[1] = field
    BY <1>1
  <2> HIDE DEF u
  <2>2. \A i \in 1..Len(u) : u[i] \notin {open, close}
    BY <1>1, <2>1
  <2>3. QED
    BY <1>1, <2>1, <2>2, NeutralShadows
<1>5. Written(field, text) = u \o v
  BY Zenon DEF Written
<1> HIDE DEF u, v
<1>6. <<>> \in Seq(Tokens) /\ <<>> \o text = text
  BY <1>1, ConcatEmptySeq
<1>7. Shadows(u \o v, <<>> \o text, open, close)
  BY <1>1, <1>3, <1>4, <1>6, ConcatShadows
<1>8. QED
  BY <1>5, <1>6, <1>7

\* The texts of an item, joined.
LEMMA TextsAre ==
    ASSUME NEW fields \in Seq(Keys), NEW texts, AreTexts(fields, texts)
    PROVE  /\ texts \in Seq(Seq(Chars)) /\ Len(texts) = Len(fields)
           /\ FlattenSeq(texts) \in Seq(Chars)
           /\ \E ends : Laid(FlattenSeq(texts), texts, ends)
<1>1. Len(fields) \in Nat /\ texts \in [1..Len(fields) -> Seq(Chars)]
  BY DEF AreTexts
<1>2. texts \in Seq(Seq(Chars)) /\ Len(texts) = Len(fields)
  BY <1>1
<1>3. QED
  BY <1>2, FlattenLaid

\* So are all fields of an item together.
LEMMA FieldsShadow ==
    ASSUME NEW fields \in Seq(Keys), NEW texts, AreTexts(fields, texts),
           \A i, j \in 1..Len(fields) : i # j => fields[i] # fields[j],
           NEW open, NEW close, IsPair(open, close)
    PROVE  Shadows(FlattenSeq(WrittenParts(fields, texts)), FlattenSeq(texts), open, close)
<1> DEFINE W == WrittenParts(fields, texts)
           F == FlattenSeq(W)
           G == FlattenSeq(texts)
           n == Len(fields)
<1>1. /\ W \in Seq(Seq(Tokens)) /\ Len(W) = n /\ F \in Seq(Tokens)
      /\ \A i \in 1..n : W[i] = Written(fields[i], texts[i])
      /\ \E ends : Laid(F, W, ends)
  BY FieldsLaid
<1>2. /\ texts \in Seq(Seq(Tokens)) /\ Len(texts) = n /\ G \in Seq(Tokens)
      /\ \E stops : Laid(G, texts, stops)
  BY TextsAre, CharsAreTokens
<1>3. open # close
  BY PairIs
<1>4. \A i \in 1..n : fields[i] \in Keys /\ texts[i] \in Seq(Chars)
  BY DEF AreTexts
<1> HIDE DEF W, F, G, n
<1>5. \A i \in 1..n : Shadows(W[i], texts[i], open, close)
  BY <1>1, <1>4, WrittenShadows
<1>6. PICK ends, stops : Laid(F, W, ends) /\ Laid(G, texts, stops)
  BY <1>1, <1>2
<1>7. Shadows(F, G, open, close)
  BY <1>1, <1>2, <1>3, <1>5, <1>6, LaidShadows
<1>8. QED
  BY <1>7 DEF F, G, W

PathText(item) == IF item.path = NoText THEN <<>> ELSE item.path

\* The brackets of an item are those of its texts, besides the braces around it.
LEMMA ItemShadows ==
    ASSUME NEW action \in {"apply_correction", "apply_file_operations"},
           NEW item, IsBatchItem(action, item), NEW open, NEW close, IsPair(open, close)
    PROVE  /\ TextsOf(item) \in Seq(Chars)
           /\ WrittenFields(action, item) \in Seq(Tokens)
           /\ Shadows(WrittenFields(action, item), TextsOf(item), open, close)
<1> DEFINE fields == FieldsOf(action)[item.operation]
           u == <<item.operation>>
           P == PathPart(item)
           Q == PathText(item)
           F == FieldPart(action, item)
           G == FlattenSeq(item.texts)
<1>1. /\ AreTexts(fields, item.texts) /\ item.path \in Seq(Chars) \cup {NoText}
      /\ item.operation \in DOMAIN FieldsOf(action)
  BY ItemIs
<1>2. /\ item.operation \in Operations /\ fields \in Seq(Keys)
      /\ \A i, j \in 1..Len(fields) : i # j => fields[i] # fields[j]
  BY <1>1, FieldsAre
<1>3. F = FlattenSeq(WrittenParts(fields, item.texts))
  BY Zenon DEF FieldPart
<1> HIDE DEF fields, F
<1>4. /\ F \in Seq(Tokens) /\ Shadows(F, G, open, close)
  BY <1>1, <1>2, <1>3, FieldsLaid, FieldsShadow
<1>5. G \in Seq(Chars)
  BY <1>1, <1>2, TextsAre
<1>6. open # close /\ item.operation \notin {open, close} /\ item.operation \in Tokens
  BY <1>2, PairIs, KeysAreTokens
<1>7. u \in Seq(Tokens) /\ Shadows(u, <<>>, open, close)
  <2>1. u \in Seq(Tokens) /\ Len(u) = 1 /\ u[1] = item.operation
    BY <1>6
  <2> HIDE DEF u
  <2>2. \A i \in 1..Len(u) : u[i] \notin {open, close}
    BY <1>6, <2>1
  <2>3. QED
    BY <1>6, <2>1, <2>2, NeutralShadows
<1>8. P \in Seq(Tokens) /\ Q \in Seq(Chars) /\ Shadows(P, Q, open, close)
  <2>1. /\ P \in Seq(Tokens)
        /\ item.path \notin {NoText, <<>>} => P = Written("path", item.path)
        /\ item.path \in {NoText, <<>>} => P = <<>>
    BY <1>1, PathPartIs
  <2>2. CASE item.path \in {NoText, <<>>}
    <3>1. P = <<>> /\ Q = <<>>
      BY <2>1, <2>2 DEF PathText
    <3>2. Shadows(<<>>, <<>>, open, close)
      <4>1. <<>> \in Seq(Tokens)
        OBVIOUS
      <4>2. QED
        BY <4>1, ShadowsItself
    <3> HIDE DEF P, Q
    <3>3. QED
      BY <3>1, <3>2
  <2>3. CASE item.path \notin {NoText, <<>>}
    <3> DEFINE path == item.path
    <3>1. path \in Seq(Chars) /\ P = Written("path", path) /\ Q = path
      BY <1>1, <2>1, <2>3 DEF PathText
    <3>2. "path" \in Keys
      BY DEF Keys
    <3> HIDE DEF path
    <3>3. Shadows(Written("path", path), path, open, close)
      BY <3>1, <3>2, WrittenShadows
    <3> HIDE DEF P, Q
    <3>4. QED
      BY <2>1, <3>1, <3>3 DEF P
  <2>4. QED
    BY <2>2, <2>3
<1>9. TextsOf(item) = Q \o G
  BY Zenon DEF TextsOf, PathText
<1>10. WrittenFields(action, item) = (u \o P) \o F /\ WrittenFields(action, item) \in Seq(Tokens)
  <2>1. PathPart(item) \in Seq(Tokens) /\ FieldPart(action, item) \in Seq(Tokens)
    BY <1>4, <1>8 DEF F
  <2>2. QED
    BY <1>6, <2>1, ItemLaid, Zenon DEF F
<1> HIDE DEF u, P, Q, G
<1>11. <<>> \in Seq(Tokens) /\ Q \in Seq(Tokens) /\ G \in Seq(Tokens) /\ <<>> \o Q = Q
  BY <1>5, <1>8, CharsAreTokens, ConcatEmptySeq
<1>12. Shadows(u \o P, <<>> \o Q, open, close) /\ u \o P \in Seq(Tokens)
  BY <1>6, <1>7, <1>8, <1>11, ConcatShadows, ConcatProperties
<1>13. Shadows((u \o P) \o F, Q \o G, open, close)
  BY <1>4, <1>6, <1>11, <1>12, ConcatShadows
<1>14. Q \o G \in Seq(Chars)
  BY <1>5, <1>8, ConcatProperties
<1>15. QED
  BY <1>9, <1>10, <1>13, <1>14

-----------------------------------------------------------------------------
(***************************************************************************)
(* Batches.                                                                *)
(***************************************************************************)
\* The condition of IsHarmless, from the position before the first.
LEMMA NestedNests ==
    ASSUME NEW s \in Seq(Tokens), NEW open, NEW close, open # close, IsNested(s, open, close)
    PROVE  Nests(s, open, close)
<1>1. Len(s) \in Nat /\ DOMAIN s = 1..Len(s) /\ Depth(s, 0, open, close) = 0
  BY LenProperties, DepthSteps
<1>2. \A k \in 0..Len(s) : k = 0 \/ k \in DOMAIN s
  BY <1>1
<1>3. QED
  BY <1>1, <1>2 DEF IsNested, Nests

\* A written item, told by its brackets.
LEMMA ItemStands ==
    ASSUME NEW action \in {"apply_correction", "apply_file_operations"},
           NEW item, IsBatchItem(action, item)
    PROVE  /\ TextsOf(item) \in Seq(Chars)
           /\ WrittenItem(action, item) \in Seq(Tokens)
           /\ Shadows(WrittenItem(action, item), TextsOf(item), "lbracket", "rbracket")
           /\ Nests(TextsOf(item), "lbrace", "rbrace") =>
                 IsBlock(WrittenItem(action, item), "lbrace", "rbrace")
<1> DEFINE w == WrittenFields(action, item)
           t == TextsOf(item)
           object == Between("lbrace", w, "rbrace")
           a == <<"lbrace">>
           b == <<"rbrace">>
<1>1. IsPair("lbrace", "rbrace") /\ IsPair("lbracket", "rbracket")
  BY DEF IsPair
<1>2. /\ t \in Seq(Chars) /\ w \in Seq(Tokens)
      /\ Shadows(w, t, "lbrace", "rbrace") /\ Shadows(w, t, "lbracket", "rbracket")
  BY <1>1, ItemShadows
<1>3. WrittenItem(action, item) = object
  BY Zenon DEF WrittenItem, Between
<1>4. "lbrace" \in Tokens /\ "rbrace" \in Tokens /\ t \in Seq(Tokens)
  BY <1>2, CharsAreTokens, KeysAreTokens
<1> HIDE DEF w, t
<1>5. object \in Seq(Tokens)
  BY <1>2, <1>4, Enclosed
<1>6. ASSUME Nests(t, "lbrace", "rbrace") PROVE IsBlock(object, "lbrace", "rbrace")
  <2>1. Nests(w, "lbrace", "rbrace")
    BY <1>2, <1>6, ShadowNests
  <2>2. "lbrace" # "rbrace"
    OBVIOUS
  <2>3. QED
    BY <1>2, <1>4, <2>1, <2>2, EnclosedIsBlock
<1>7. Shadows(object, t, "lbracket", "rbracket")
  <2>1. /\ a \in Seq(Tokens) /\ b \in Seq(Tokens) /\ Len(a) = 1 /\ Len(b) = 1
        /\ a[1] = "lbrace" /\ b[1] = "rbrace"
    BY <1>4
  <2>2. "lbracket" # "rbracket" /\ "lbrace" \notin {"lbracket", "rbracket"}
        /\ "rbrace" \notin {"lbracket", "rbracket"}
    OBVIOUS
  <2> HIDE DEF a, b
  <2>3. /\ \A i \in 1..Len(a) : a[i] \notin {"lbracket", "rbracket"}
        /\ \A i \in 1..Len(b) : b[i] \notin {"lbracket", "rbracket"}
    BY <2>1, <2>2
  <2>4. Shadows(a, <<>>, "lbracket", "rbracket") /\ Shadows(b, <<>>, "lbracket", "rbracket")
    BY <2>1, <2>2, <2>3, NeutralShadows
  <2>5. <<>> \in Seq(Tokens) /\ <<>> \o t = t /\ t \o <<>> = t
    BY <1>4, ConcatEmptySeq
  <2>6. Shadows(a \o w, <<>> \o t, "lbracket", "rbracket") /\ a \o w \in Seq(Tokens)
    BY <1>2, <1>4, <2>1, <2>2, <2>4, <2>5, ConcatShadows, ConcatProperties
  <2>7. Shadows((a \o w) \o b, t \o <<>>, "lbracket", "rbracket")
    BY <1>4, <2>1, <2>2, <2>4, <2>5, <2>6, ConcatShadows
  <2>8. object = (a \o w) \o b
    BY Zenon DEF Between, a, b
  <2>9. QED
    BY <2>5, <2>7, <2>8
<1>8. QED
  BY <1>2, <1>3, <1>5, <1>6, <1>7 DEF t

NoWide(s) == \A j \in 1..Len(s) : s[j] # "wide"

\* A part of a text without wide characters has none.
LEMMA PartsNotWide ==
    ASSUME NEW s, NEW W, NEW ends, Laid(s, W, ends), NoWide(s), Len(s) \in Nat, Len(W) \in Nat,
           \A i \in 1..Len(W) : Len(W[i]) \in Nat
    PROVE  \A i \in 1..Len(W) : NoWide(W[i])
<1> SUFFICES ASSUME NEW i \in 1..Len(W), NEW j \in 1..Len(W[i]) PROVE W[i][j] # "wide"
  BY DEF NoWide
<1>1. Holds(s, ends[i - 1], W[i]) /\ ends[i - 1] \in Nat
  <2>1. i - 1 \in 0..Len(W)
    OBVIOUS
  <2>2. ends \in [0..Len(W) -> Nat] /\ Holds(s, ends[i - 1], W[i])
    BY DEF Laid
  <2>3. QED
    BY <2>1, <2>2
<1>2. s[ends[i - 1] + j] = W[i][j] /\ ends[i - 1] + j \in 1..Len(s)
  BY <1>1 DEF Holds
<1>3. QED
  BY <1>2 DEF NoWide

\* Without a wide character a text is of characters of one byte.
LEMMA NotWideIsPlain ==
    ASSUME NEW s \in Seq(Chars), NoWide(s)
    PROVE  s \in Seq(Plain)
<1>1. \A j \in 1..Len(s) : s[j] \in Plain
  BY DEF NoWide, Plain
<1>2. Len(s) \in Nat /\ s = [j \in 1..Len(s) |-> s[j]]
  BY LenProperties
<1>3. QED
  BY <1>1, <1>2

\* So are the texts of an item.
LEMMA ItemIsPlain ==
    ASSUME NEW action \in {"apply_correction", "apply_file_operations"},
           NEW item, IsBatchItem(action, item), NoWide(TextsOf(item))
    PROVE  IsPlainItem(item)
<1> DEFINE fields == FieldsOf(action)[item.operation]
           texts == item.texts
           Q == PathText(item)
           G == FlattenSeq(texts)
<1>1. /\ AreTexts(fields, texts) /\ item.path \in Seq(Chars) \cup {NoText}
      /\ item.operation \in DOMAIN FieldsOf(action)
  BY ItemIs
<1>2. fields \in Seq(Keys)
  BY <1>1, FieldsAre
<1> HIDE DEF fields
<1>3. texts \in Seq(Seq(Chars)) /\ G \in Seq(Chars) /\ \E ends : Laid(G, texts, ends)
  BY <1>1, <1>2, TextsAre
<1>4. TextsOf(item) = Q \o G
  BY Zenon DEF TextsOf, PathText
<1>5. Q \in Seq(Chars)
  <2>1. <<>> \in Seq(Chars)
    OBVIOUS
  <2>2. QED
    BY <1>1, <2>1 DEF PathText
<1> HIDE DEF texts, Q, G
<1>6. Holds(Q \o G, 0, Q) /\ Holds(Q \o G, Len(Q), G) /\ Len(Q \o G) = Len(Q) + Len(G)
      /\ NoWide(Q \o G) /\ Len(Q) \in Nat /\ Len(G) \in Nat
  <2>1. NoWide(Q \o G)
    BY <1>4
  <2>2. QED
    BY <1>3, <1>5, <2>1, ConcatHolds
<1>7. NoWide(Q)
  <2>1. \A j \in 1..Len(Q) : 0 + j \in 1..(Len(Q) + Len(G)) /\ (Q \o G)[0 + j] = Q[j]
    BY <1>6 DEF Holds
  <2>2. QED
    BY <1>6, <2>1 DEF NoWide
<1>8. NoWide(G)
  <2>1. \A j \in 1..Len(G) : Len(Q) + j \in 1..(Len(Q) + Len(G)) /\ (Q \o G)[Len(Q) + j] = G[j]
    BY <1>6 DEF Holds
  <2>2. QED
    BY <1>6, <2>1 DEF NoWide
<1>9. \A k \in 1..Len(texts) : texts[k] \in Seq(Plain)
  <2>1. PICK ends : Laid(G, texts, ends)
    BY <1>3
  <2>2. /\ Len(texts) \in Nat
        /\ \A k \in 1..Len(texts) : texts[k] \in Seq(Chars) /\ Len(texts[k]) \in Nat
    BY <1>3
  <2>3. \A k \in 1..Len(texts) : NoWide(texts[k])
    BY <1>6, <1>8, <2>1, <2>2, PartsNotWide
  <2>4. QED
    BY <2>2, <2>3, NotWideIsPlain
<1>10. DOMAIN texts = 1..Len(texts)
  BY <1>3, LenProperties
<1>11. item.path \in Seq(Plain) \cup {NoText}
  <2>1. Q \in Seq(Plain)
    BY <1>5, <1>7, NotWideIsPlain
  <2>2. QED
    BY <2>1 DEF Q, PathText
<1>12. QED
  BY <1>9, <1>10, <1>11 DEF IsPlainItem, texts

AimedItems(items) == [i \in DOMAIN items |-> Aimed(items[i])]

\* An empty path decides nothing that no path decides otherwise.
LEMMA AimedIs ==
    ASSUME NEW action, NEW item
    PROVE  /\ IsWellFormed(Aimed(item)) <=> IsWellFormed(item)
           /\ ItemIsValid(action, Aimed(item)) <=> ItemIsValid(action, item)
<1> DEFINE aimed == Aimed(item)
           clear == {NoText, <<>>}
<1>1. /\ aimed.operation = item.operation /\ aimed.texts = item.texts
      /\ aimed.path = IF item.path = <<>> THEN NoText ELSE item.path
  BY DEF Aimed, BatchItem
<1> HIDE DEF aimed
<1>2. IsWellFormed(aimed) <=> IsWellFormed(item)
  BY <1>1, Zenon DEF IsWellFormed
<1>3. PathsOf(aimed) = PathsOf(item) /\ (ReplacesProgram(aimed) <=> ReplacesProgram(item))
  BY <1>1, Zenon DEF PathsOf, ReplacesProgram
<1>4. /\ aimed.path \in clear <=> item.path \in clear
      /\ item.path \notin clear => aimed.path = item.path
  BY <1>1
<1>5. CorrectionIsValid(aimed) <=> CorrectionIsValid(item)
  <2>1. (aimed.path \in clear \/ IsPath(aimed.path)) <=> (item.path \in clear \/ IsPath(item.path))
    BY <1>4
  <2>2. aimed.path \in clear \cup Files <=> item.path \in clear \cup Files
    BY <1>4
  <2>3. QED
    BY <1>1, <1>3, <2>1, <2>2, Zenon DEF CorrectionIsValid
<1>6. ItemIsValid(action, aimed) <=> ItemIsValid(action, item)
  BY <1>3, <1>5, Zenon DEF ItemIsValid
<1>7. QED
  BY <1>2, <1>6 DEF aimed

\* A harmless batch is read as it was written, unless an item of it is not well formed.
LEMMA BatchRead ==
    ASSUME NEW batch \in Batches, IsHarmless(batch)
    PROVE  /\ batch.action \in {"apply_correction", "apply_file_operations"}
           /\ ReadBatch(batch.action, WrittenArray(batch))
                 = IF \A i \in DOMAIN batch.items : IsWellFormed(batch.items[i])
                   THEN AimedItems(batch.items) ELSE <<>>
<1> DEFINE action == batch.action
           items == batch.items
           n == Len(items)
           T == [i \in DOMAIN items |-> TextsOf(items[i])]
           W == [i \in DOMAIN items |-> WrittenItem(action, items[i])]
           B == FlattenSeq(W)
           G == FlattenSeq(T)
           raw == Between("lbracket", B, "rbracket")
           read == [i \in DOMAIN W |-> ReadItem(action, W[i])]
<1>1. /\ action \in {"apply_correction", "apply_file_operations"}
      /\ DOMAIN items = 1..n /\ n \in Nat
      /\ \A i \in 1..n : IsBatchItem(action, items[i])
  <2>1. /\ batch \in [action : {"apply_correction", "apply_file_operations"},
                      items : Seq(Range(batch.items))]
        /\ \A i \in DOMAIN items : IsBatchItem(action, items[i])
    BY ProtocolAssumption, Zenon
  <2>2. action \in {"apply_correction", "apply_file_operations"} /\ items \in Seq(Range(items))
    BY <2>1
  <2>3. DOMAIN items = 1..n /\ n \in Nat
    BY <2>2, LenProperties
  <2>4. QED
    BY <2>1, <2>2, <2>3
<1>2. WrittenArray(batch) = raw
  BY Zenon DEF WrittenArray, WrittenItems, Between
<1>3. /\ "wide" \notin Range(G)
      /\ \A i \in DOMAIN T : IsNested(T[i], "lbrace", "rbrace")
      /\ IsNested(G, "lbracket", "rbracket")
  BY Zenon DEF IsHarmless
<1>4. ReadBatch(action, raw)
         = IF ArrayBody(raw) # NoText
              /\ \A k \in DOMAIN [i \in DOMAIN Objects(ArrayBody(raw)) |->
                                     ReadItem(action, Objects(ArrayBody(raw))[i])] :
                    IsWellFormed([i \in DOMAIN Objects(ArrayBody(raw)) |->
                                     ReadItem(action, Objects(ArrayBody(raw))[i])][k])
           THEN [i \in DOMAIN Objects(ArrayBody(raw)) |->
                    ReadItem(action, Objects(ArrayBody(raw))[i])]
           ELSE <<>>
  BY Zenon DEF ReadBatch
<1> HIDE DEF action, items, n
<1>5. /\ T = [i \in 1..n |-> TextsOf(items[i])]
      /\ W = [i \in 1..n |-> WrittenItem(action, items[i])]
  BY <1>1
<1>6. \A i \in 1..n : /\ TextsOf(items[i]) \in Seq(Chars)
                      /\ WrittenItem(action, items[i]) \in Seq(Tokens)
                      /\ Shadows(WrittenItem(action, items[i]), TextsOf(items[i]),
                                 "lbracket", "rbracket")
                      /\ Nests(TextsOf(items[i]), "lbrace", "rbrace") =>
                            IsBlock(WrittenItem(action, items[i]), "lbrace", "rbrace")
  BY <1>1, ItemStands
<1> HIDE DEF T, W
<1>7. /\ T \in Seq(Seq(Chars)) /\ Len(T) = n /\ DOMAIN T = 1..n
      /\ \A i \in 1..n : T[i] = TextsOf(items[i])
  BY <1>1, <1>5, <1>6
<1>8. /\ W \in Seq(Seq(Tokens)) /\ Len(W) = n /\ DOMAIN W = 1..n
      /\ \A i \in 1..n : W[i] = WrittenItem(action, items[i])
  BY <1>1, <1>5, <1>6
<1>9. /\ G \in Seq(Chars) /\ G \in Seq(Tokens) /\ T \in Seq(Seq(Tokens))
      /\ \E stops : Laid(G, T, stops)
  BY <1>7, FlattenLaid, CharsAreTokens
<1>10. B \in Seq(Tokens) /\ \E ends : Laid(B, W, ends)
  BY <1>8, FlattenLaid
<1> HIDE DEF B, G
<1>11. PICK stops, ends : Laid(G, T, stops) /\ Laid(B, W, ends)
  BY <1>9, <1>10
<1>12. \A i \in 1..n : IsBlock(W[i], "lbrace", "rbrace")
  <2> SUFFICES ASSUME NEW i \in 1..n PROVE IsBlock(W[i], "lbrace", "rbrace")
    OBVIOUS
  <2> DEFINE t == T[i]
  <2>1. t \in Seq(Tokens) /\ IsNested(t, "lbrace", "rbrace") /\ "lbrace" # "rbrace"
    <3>1. i \in 1..Len(T) /\ i \in DOMAIN T
      BY <1>7
    <3>2. t \in Seq(Tokens)
      BY <1>9, <3>1
    <3>3. IsNested(t, "lbrace", "rbrace")
      BY <1>3, <3>1
    <3>4. QED
      BY <3>2, <3>3
  <2> HIDE DEF t
  <2>2. Nests(t, "lbrace", "rbrace")
    BY <2>1, NestedNests
  <2>3. QED
    BY <1>6, <1>7, <1>8, <2>2 DEF t
<1>13. Objects(B) = W
  BY <1>8, <1>10, <1>11, <1>12, ObjectsAre
<1>14. Nests(B, "lbracket", "rbracket")
  <2>1. Nests(G, "lbracket", "rbracket") /\ "lbracket" # "rbracket"
    BY <1>3, <1>9, NestedNests
  <2>2. \A i \in 1..Len(W) : Shadows(W[i], T[i], "lbracket", "rbracket")
    BY <1>6, <1>7, <1>8
  <2>3. Shadows(B, G, "lbracket", "rbracket")
    BY <1>7, <1>8, <1>9, <1>10, <1>11, <2>1, <2>2, LaidShadows
  <2>4. QED
    BY <2>1, <2>3, ShadowNests
<1>15. ArrayBody(raw) = B
  BY <1>10, <1>14, ArrayBodyIs
<1>16. B # NoText
  <2>1. "none" \notin Tokens
    BY DEF Tokens, ReadChars, Chars, Keys, Operations
  <2>2. QED
    BY <1>10, <2>1 DEF NoText
<1>17. \A i \in 1..n : ReadItem(action, W[i]) = Aimed(items[i])
  <2>1. NoWide(G)
    <3>1. DOMAIN G = 1..Len(G) /\ \A j \in DOMAIN G : G[j] \in Range(G)
      BY <1>9, LenProperties DEF Range
    <3>2. QED
      BY <1>3, <3>1 DEF NoWide
  <2>2. \A i \in 1..Len(T) : NoWide(T[i])
    <3>1. Len(G) \in Nat /\ Len(T) \in Nat /\ \A i \in 1..Len(T) : Len(T[i]) \in Nat
      BY <1>1, <1>7, <1>9
    <3>2. QED
      BY <1>11, <2>1, <3>1, PartsNotWide
  <2>3. \A i \in 1..n : IsPlainItem(items[i])
    BY <1>1, <1>7, <2>2, ItemIsPlain
  <2>4. QED
    BY <1>1, <1>8, <2>3, ItemRead
<1>18. read = AimedItems(items)
  BY <1>1, <1>8, <1>17 DEF AimedItems
<1>19. ReadBatch(action, raw)
          = IF \A k \in DOMAIN read : IsWellFormed(read[k]) THEN read ELSE <<>>
  BY <1>4, <1>13, <1>15, <1>16, Zenon
<1> HIDE DEF read
<1>20. (\A k \in DOMAIN read : IsWellFormed(read[k]))
          <=> \A i \in DOMAIN items : IsWellFormed(items[i])
  <2>1. DOMAIN read = DOMAIN items /\ \A i \in DOMAIN items : read[i] = Aimed(items[i])
    BY <1>18 DEF AimedItems
  <2>2. QED
    BY <2>1, AimedIs
<1>21. ReadBatch(action, raw)
          = IF \A i \in DOMAIN items : IsWellFormed(items[i]) THEN AimedItems(items) ELSE <<>>
  BY <1>18, <1>19, <1>20
<1>22. QED
  BY <1>1, <1>2, <1>21 DEF action, items

\* What comes of an answer that holds a harmless batch.
LEMMA BatchProposed ==
    ASSUME NEW batch \in Batches, IsHarmless(batch), NEW content, content = Asks(batch)
    PROVE  (IF ContentError(content) = NoError THEN ActionOf(content) ELSE ErrorFinish)
              = IF /\ batch.items # <<>>
                   /\ \A i \in DOMAIN batch.items :
                         /\ IsWellFormed(batch.items[i])
                         /\ ItemIsValid(batch.action, batch.items[i])
                THEN [action |-> batch.action, items |-> AimedItems(batch.items)]
                ELSE ErrorFinish
<1> DEFINE action == batch.action
           items == batch.items
           read == ReadBatch(action, content.raw)
           formed == \A i \in DOMAIN items : IsWellFormed(items[i])
           allowed == \A i \in DOMAIN items : ItemIsValid(action, items[i])
           some == items # <<>>
           valid == \A i \in DOMAIN read : ItemIsValid(action, read[i])
<1>1. content.action = action /\ content.raw = WrittenArray(batch)
  BY DEF Asks
<1>2. action \in {"apply_correction", "apply_file_operations"}
      /\ read = IF formed THEN AimedItems(items) ELSE <<>>
  BY <1>1, BatchRead
<1>3. /\ content.action \notin SimpleActions /\ content.action # "absent"
      /\ content.action # "unsupported"
  BY <1>1, <1>2 DEF SimpleActions
<1>4. BatchError(action) # NoError
  BY <1>2 DEF BatchError, NoError, PlainError, Error
<1>5. ContentError(content) =
         IF read # <<>> /\ valid THEN NoError ELSE BatchError(action)
  <2>1. /\ (content.action = "absent") = FALSE /\ (content.action = "unsupported") = FALSE
        /\ (content.action \in SimpleActions) = FALSE
    BY <1>3
  <2>2. QED
    BY <1>1, <1>3, <2>1 DEF ContentError
<1>6. ActionOf(content) = [action |-> action, items |-> read]
  BY <1>1, <1>3, Zenon DEF ActionOf
<1>7. ContentError(content) = NoError <=> read # <<>> /\ valid
  BY <1>4, <1>5
<1>8. DOMAIN items = 1..Len(items) /\ Len(items) \in Nat
  <2>1. batch.items \in Seq(Range(batch.items))
    <3>1. batch \in [action : {"apply_correction", "apply_file_operations"},
                     items : Seq(Range(batch.items))]
      BY ProtocolAssumption, Zenon
    <3>2. QED
      BY <3>1
  <2>2. QED
    BY <2>1, LenProperties
<1> HIDE DEF read, action, items
<1>9. CASE formed
  <2>1. read = AimedItems(items)
    BY <1>2, <1>9
  <2>2. DOMAIN read = DOMAIN items /\ \A i \in DOMAIN items : read[i] = Aimed(items[i])
    BY <2>1 DEF AimedItems
  <2>3. valid <=> allowed
    BY <2>2, AimedIs
  <2>4. read # <<>> <=> some
    <3>1. items = <<>> => read = <<>>
      BY <2>1 DEF AimedItems
    <3>2. read = <<>> => items = <<>>
      <4>1. ASSUME read = <<>> PROVE DOMAIN items = {}
        BY <2>2, <4>1
      <4>2. ASSUME DOMAIN items = {} PROVE items = <<>>
        BY <1>8, <4>2
      <4>3. QED
        BY <4>1, <4>2
    <3>3. QED
      BY <3>1, <3>2
  <2>5. QED
    BY <1>6, <1>7, <1>9, <2>1, <2>3, <2>4 DEF items, action
<1>10. CASE ~formed
  <2>1. read = <<>>
    BY <1>2, <1>10
  <2>2. ContentError(content) # NoError
    BY <1>7, <2>1
  <2>3. QED
    BY <1>10, <2>2 DEF items, action
<1>11. QED
  BY <1>9, <1>10

\* A batch whose brackets nest and whose characters are of one byte is proposed as the
\* model meant it, or refused as a whole for one of its items: what serialize_decision
\* writes the scanners of parse_model_response read back (model.rs), for all batches of
\* any length, whatever else their texts hold.  A step that takes up an answer proposes
\* what was read of it, and no other step leaves a batch to be compared.
THEOREM HarmlessIsRead == ProtocolSpec => []HarmlessArrives
<1>1. ProtocolInit => HarmlessArrives
  BY DEF ProtocolInit, HarmlessArrives, BatchArrived, Answer
<1>2. HarmlessArrives /\ [ProtocolNext]_protocolVars => HarmlessArrives'
  <2> SUFFICES ASSUME HarmlessArrives, [ProtocolNext]_protocolVars
               PROVE  HarmlessArrives'
    OBVIOUS
  <2>1. CASE WithoutKey
    <3>1. ~BatchArrived'
      BY <2>1 DEF WithoutKey, Propose, BatchArrived
    <3>2. QED
      BY <3>1, Zenon DEF HarmlessArrives
  <2>2. CASE CallFails
    <3>1. PICK a \in Answers : CompleteError(a) # NoError /\ Ask(a)
      BY <2>2 DEF CallFails
    <3>2. answer' = a
      BY <3>1 DEF Ask
    <3>3. ASSUME a.body = "content" PROVE FALSE
      <4>1. PICK content \in Contents :
               a = Answer("none", 200, NoAnswerHint, FALSE, "content", content)
        BY <3>3 DEF Answers, Unanswered, Refusals, Unusable, Replies, Answer
      <4>2. a.transport = "none" /\ a.status = 200
        BY <4>1 DEF Answer
      <4>3. Arrives(a) /\ IsSuccess(a.status)
        BY <4>2 DEF Arrives, IsSuccess
      <4>4. CompleteError(a) = NoError
        BY <3>3, <4>3 DEF CompleteError
      <4>5. QED
        BY <3>1, <4>4
    <3>4. ~BatchArrived'
      BY <3>2, <3>3 DEF BatchArrived
    <3>5. QED
      BY <3>4, Zenon DEF HarmlessArrives
  <2>3. CASE Answered
    <3> SUFFICES ASSUME BatchArrived', IsHarmless(Meant')
                 PROVE  proposal' =
                           IF /\ Meant'.items # <<>>
                              /\ \A i \in DOMAIN Meant'.items :
                                    /\ IsWellFormed(Meant'.items[i])
                                    /\ ItemIsValid(Meant'.action, Meant'.items[i])
                           THEN [action |-> Meant'.action, items |-> AimedItems(Meant'.items)]
                           ELSE ErrorFinish
      BY Zenon DEF HarmlessArrives, AimedItems
    <3>1. PICK a \in Answers : Ask(a) /\ Propose(NoError, ContentError(a.content), a.content)
      BY <2>3 DEF Answered
    <3>2. answer' = a /\ a.body = "content" /\ a.content.meant # NoBatch
          /\ Meant' = a.content.meant
      BY <3>1 DEF Ask, BatchArrived, Meant
    <3>3. PICK content \in Contents :
             a = Answer("none", 200, NoAnswerHint, FALSE, "content", content)
      BY <3>2 DEF Answers, Unanswered, Refusals, Unusable, Replies, Answer
    <3>4. a.content = content
      BY <3>3 DEF Answer
    <3>5. PICK batch \in Batches : content = Asks(batch)
      BY <3>2, <3>4 DEF Contents
    <3>6. Meant' = batch
      BY <3>2, <3>4, <3>5 DEF Asks
    <3>7. proposal' =
             IF ContentError(content) = NoError THEN ActionOf(content) ELSE ErrorFinish
      BY <3>1, <3>4, Zenon DEF Propose
    <3>8. QED
      BY <3>5, <3>6, <3>7, BatchProposed, Zenon
  <2>4. CASE Done \/ UNCHANGED protocolVars
    BY <2>4, Zenon DEF Done, protocolVars, HarmlessArrives, BatchArrived, Meant
  <2>5. QED
    BY <2>1, <2>2, <2>3, <2>4 DEF ProtocolNext
<1>3. QED
  BY <1>1, <1>2, PTL DEF ProtocolSpec

-----------------------------------------------------------------------------
(***************************************************************************)
(* Whom a failed proposal blames (ai_agent.rs and                          *)
(* openai_compatible_client.rs).  The errors of a call and those of a      *)
(* content are disjoint, and an answer that is no error is of one form.    *)
(***************************************************************************)
\* Errors are told apart by their kinds.
LEMMA ErrorFields ==
    ASSUME NEW kind, NEW code, NEW hint
    PROVE  /\ Error(kind, code, hint).kind = kind
           /\ Error(kind, code, hint).status = code
           /\ PlainError(kind).kind = kind
BY DEF Error, PlainError

LEMMA NoErrorIs ==
    /\ NoError.kind = "none"
    /\ ~Retryable(NoError)
BY ErrorFields DEF NoError, Retryable

\* What an answer with a status becomes when it is an error.
LEMMA StatusBlames ==
    ASSUME NEW code \in 300..599, NEW hint
    PROVE  LET error == StatusError(code, hint)
           IN /\ error # NoError /\ ClassOf(error) # "model_capability"
              /\ Retryable(error) => code \in {429} \cup 500..599
<1> DEFINE error == StatusError(code, hint)
<1>1. CASE code \in {401, 403}
  <2>1. error.kind = "authentication"
    BY <1>1, ErrorFields DEF StatusError
  <2>2. QED
    BY <2>1, NoErrorIs DEF ClassOf, Retryable
<1>2. CASE code = 429
  <2>1. error.kind = "rate_limited"
    BY <1>2, ErrorFields DEF StatusError
  <2>2. QED
    BY <1>2, <2>1, NoErrorIs DEF ClassOf, Retryable
<1>3. CASE code \notin {401, 403, 429}
  <2>1. error.kind = "http" /\ error.status = code
    BY <1>3, ErrorFields DEF StatusError
  <2>2. QED
    BY <2>1, NoErrorIs DEF ClassOf, Retryable, IsServerError
<1>4. QED
  BY <1>1, <1>2, <1>3

\* What the reading of a content complains about is the model's.
LEMMA ContentBlames ==
    ASSUME NEW content
    PROVE  LET error == ContentError(content)
           IN error # NoError => ClassOf(error) = "model_capability" /\ ~Retryable(error)
<1> DEFINE error == ContentError(content)
           Complaints == {"invalid_model_response", "unsupported_action", "invalid_correction",
                          "invalid_file_operation"}
<1>1. error = NoError \/ error.kind \in Complaints
  <2>1. BatchError(content.action).kind \in Complaints
    BY ErrorFields DEF BatchError
  <2> DEFINE items == ReadBatch(content.action, content.raw)
             ok == items # <<>> /\ \A n \in DOMAIN items : ItemIsValid(content.action, items[n])
  <2>2. CASE content.action \in SimpleActions
    BY <2>2, ErrorFields DEF ContentError, SimpleActions
  <2>3. CASE content.action \in {"absent", "unsupported"}
    BY <2>3, ErrorFields DEF ContentError, SimpleActions
  <2>4. CASE content.action \notin SimpleActions \cup {"absent", "unsupported"}
    <3>1. error = IF ok THEN NoError ELSE BatchError(content.action)
      BY <2>4 DEF ContentError
    <3>2. QED
      BY <2>1, <3>1
  <2>5. QED
    BY <2>2, <2>3, <2>4
<1>2. QED
  BY <1>1 DEF ClassOf, Retryable

-----------------------------------------------------------------------------
\* The shape of what a provider sends.
LEMMA AnswerIs ==
    ASSUME NEW a \in Answers
    PROVE  /\ a.late \in BOOLEAN
           /\ Arrives(a) =>
                 a.status \in 200..399 /\ a.body \in {"cut", "unreadable", "envelope", "content"}
           /\ ~Arrives(a) =>
                 \/ a.transport \in {"timed_out", "connection", "other"}
                 \/ a.transport = "none" /\ a.status \in 400..599
           /\ a.transport \in {"none", "timed_out", "connection", "other"}
<1>1. CASE a \in Unanswered
  <2>1. PICK transport \in {"timed_out", "connection", "other"}, late \in BOOLEAN :
          a = Answer(transport, 0, NoAnswerHint, late, "none", NoContent)
    BY <1>1 DEF Unanswered
  <2>2. QED
    BY <2>1 DEF Answer, Arrives
<1>2. CASE a \in Refusals
  <2>1. PICK code \in HttpStatuses \cap 400..599, hint \in Hints \cup {NoAnswerHint},
             late \in BOOLEAN :
          a = Answer("none", code, hint, late, "none", NoContent)
    BY <1>2 DEF Refusals
  <2>2. QED
    BY <2>1 DEF Answer, Arrives
<1>3. CASE a \in Unusable
  <2>1. PICK code \in HttpStatuses \cap 200..399, body \in {"cut", "unreadable", "envelope"} :
          a = Answer("none", code, NoAnswerHint, FALSE, body, NoContent)
    BY <1>3 DEF Unusable, Answer
  <2>2. QED
    BY <2>1 DEF Answer, Arrives
<1>4. CASE a \in Replies
  <2>1. PICK content \in Contents :
          a = Answer("none", 200, NoAnswerHint, FALSE, "content", content)
    BY <1>4 DEF Replies
  <2>2. QED
    BY <2>1 DEF Answer, Arrives
<1>5. QED
  BY <1>1, <1>2, <1>3, <1>4 DEF Answers

\* What a call that fails is blamed on.
LEMMA CallBlames ==
    ASSUME NEW a \in Answers, CompleteError(a) # NoError
    PROVE  LET error == CompleteError(a)
               whole == Arrives(a) /\ a.body # "cut"
           IN /\ ClassOf(error) = "model_capability" => whole
              /\ ClassOf(error) # "model_capability" => ~(whole /\ IsSuccess(a.status))
              /\ Retryable(error) =>
                    a.late \/ a.transport = "timed_out" \/ a.status \in {429} \cup 500..599
<1> DEFINE error == CompleteError(a)
<1>1. CASE ~Arrives(a) /\ (a.late \/ a.transport = "timed_out")
  <2>1. error.kind = "timeout"
    BY <1>1, ErrorFields DEF CompleteError, CallError
  <2>2. QED
    BY <1>1, <2>1 DEF ClassOf
<1>2. CASE ~Arrives(a) /\ ~(a.late \/ a.transport = "timed_out") /\ a.transport = "none"
  <2>1. error = StatusError(a.status, a.hint) /\ a.status \in 400..599
    BY <1>2, AnswerIs DEF CompleteError, CallError
  <2>2. QED
    BY <1>2, <2>1, StatusBlames
<1>3. CASE ~Arrives(a) /\ ~(a.late \/ a.transport = "timed_out") /\ a.transport # "none"
  <2>1. error.kind = "transport"
    BY <1>3, ErrorFields DEF CompleteError, CallError
  <2>2. QED
    BY <1>3, <2>1 DEF ClassOf, Retryable
<1>4. CASE Arrives(a) /\ a.body = "cut"
  <2>1. error.kind = "transport"
    BY <1>4, ErrorFields DEF CompleteError, BodyError
  <2>2. QED
    BY <1>4, <2>1 DEF ClassOf, Retryable
<1>5. CASE Arrives(a) /\ a.body = "unreadable"
  <2>1. error.kind = "invalid_response"
    BY <1>5, ErrorFields DEF CompleteError, BodyError
  <2>2. QED
    BY <1>5, <2>1 DEF ClassOf, Retryable
<1>6. CASE Arrives(a) /\ a.body \notin {"cut", "unreadable"} /\ ~IsSuccess(a.status)
  <2>1. error = StatusError(a.status, a.hint) /\ a.status \in 300..399
    BY <1>6, AnswerIs DEF CompleteError, IsSuccess
  <2>2. QED
    BY <1>6, <2>1, StatusBlames
<1>7. CASE Arrives(a) /\ a.body = "envelope" /\ IsSuccess(a.status)
  <2>1. error.kind = "invalid_response"
    BY <1>7, ErrorFields DEF CompleteError
  <2>2. QED
    BY <1>7, <2>1 DEF ClassOf, Retryable
<1>8. CASE Arrives(a) /\ a.body \notin {"cut", "unreadable", "envelope"} /\ IsSuccess(a.status)
  BY <1>8 DEF CompleteError
<1>9. QED
  BY <1>1, <1>2, <1>3, <1>4, <1>5, <1>6, <1>7, <1>8

\* A call that does not fail brings a whole content, and is recorded.
LEMMA CallAnswers ==
    ASSUME NEW a \in Answers, CompleteError(a) = NoError
    PROVE  /\ Arrives(a) /\ a.body = "content" /\ IsSuccess(a.status)
           /\ RecordOf(a) = [status |-> a.status, category |-> "none"]
<1> DEFINE error == CompleteError(a)
<1>1. Arrives(a)
  <2>1. SUFFICES ASSUME ~Arrives(a) PROVE FALSE
    OBVIOUS
  <2>2. error = CallError(a)
    BY <2>1 DEF CompleteError
  <2>3. CASE a.late \/ a.transport = "timed_out"
    BY <2>2, <2>3, ErrorFields, NoErrorIs DEF CallError
  <2>4. CASE ~(a.late \/ a.transport = "timed_out") /\ a.transport = "none"
    <3>1. error = StatusError(a.status, a.hint) /\ a.status \in 400..599
      BY <2>1, <2>2, <2>4, AnswerIs DEF CallError
    <3>2. QED
      BY <3>1, StatusBlames
  <2>5. CASE ~(a.late \/ a.transport = "timed_out") /\ a.transport # "none"
    BY <2>2, <2>5, ErrorFields, NoErrorIs DEF CallError
  <2>6. QED
    BY <2>3, <2>4, <2>5
<1>2. a.status \in 200..399 /\ a.body \in {"cut", "unreadable", "envelope", "content"}
  BY <1>1, AnswerIs
<1>3. a.body \notin {"cut", "unreadable"}
  BY <1>1, ErrorFields, NoErrorIs DEF CompleteError, BodyError
<1>4. IsSuccess(a.status)
  <2>1. SUFFICES ASSUME ~IsSuccess(a.status) PROVE FALSE
    OBVIOUS
  <2>2. error = StatusError(a.status, a.hint) /\ a.status \in 300..399
    BY <1>1, <1>2, <1>3, <2>1 DEF CompleteError, IsSuccess
  <2>3. QED
    BY <2>2, StatusBlames
<1>5. a.body # "envelope"
  BY <1>1, <1>3, <1>4, ErrorFields, NoErrorIs DEF CompleteError
<1>6. QED
  BY <1>1, <1>2, <1>3, <1>4, <1>5 DEF RecordOf

\* Each way a proposal ends blames what its own answer says.
LEMMA BlameKept ==
    ASSUME BlameIsOfThisCall, [ProtocolNext]_protocolVars
    PROVE  BlameIsOfThisCall'
<1>1. CASE WithoutKey
  BY <1>1 DEF WithoutKey, Propose, BlameIsOfThisCall
<1>2. CASE CallFails
  <2>1. PICK a \in Answers : /\ CompleteError(a) # NoError
                             /\ Ask(a)
                             /\ Propose(CompleteError(a), NoError, NoContent)
    BY <1>2 DEF CallFails
  <2>2. Evidence' = CompleteError(a) /\ answer' = a /\ lastStatus' = a.status
    BY <2>1 DEF Evidence, Ask, Propose
  <2>3. Arrives(answer)' = Arrives(a)
    BY <2>2 DEF Arrives
  <2>4. QED
    BY <2>1, <2>2, <2>3, CallBlames DEF BlameIsOfThisCall
<1>3. CASE Answered
  <2>1. PICK a \in Answers : /\ CompleteError(a) = NoError
                             /\ Ask(a)
                             /\ Propose(NoError, ContentError(a.content), a.content)
    BY <1>3 DEF Answered
  <2>2. /\ Evidence' = ContentError(a.content) /\ answer' = a /\ lastStatus' = a.status
        /\ lastCall' = RecordOf(a)
    BY <2>1 DEF Evidence, Ask, Propose
  <2>3. Arrives(answer)' = Arrives(a)
    BY <2>2 DEF Arrives
  <2>4. QED
    BY <2>1, <2>2, <2>3, CallAnswers, ContentBlames, NoErrorIs DEF BlameIsOfThisCall
<1>4. CASE Done \/ UNCHANGED protocolVars
  <2>1. /\ hasKey' = hasKey /\ proposals' = proposals /\ answer' = answer
        /\ lastCall' = lastCall /\ lastStatus' = lastStatus
    BY <1>4 DEF Done, protocolVars
  <2>2. Evidence' = Evidence
    BY <1>4 DEF Done, protocolVars, Evidence
  <2>3. Arrives(answer)' = Arrives(answer)
    BY <2>1 DEF Arrives
  <2>4. QED
    BY <2>1, <2>2, <2>3 DEF BlameIsOfThisCall
<1>5. QED
  BY <1>1, <1>2, <1>3, <1>4 DEF ProtocolNext

\* Whatever failed before, a proposal is judged by the answer it came from: the model is
\* blamed only for a body that came back whole, the provider only where none did, and
\* what is retried is nothing that was answered (ai_agent.rs, openai_compatible_client.rs
\* and failure_classification.rs), for all answers, batches and numbers of proposals.
THEOREM BlameIsTimely == ProtocolSpec => []BlameIsOfThisCall
<1>1. ProtocolInit => BlameIsOfThisCall
  BY DEF ProtocolInit, BlameIsOfThisCall
<1>2. QED
  BY <1>1, BlameKept, PTL DEF ProtocolSpec
=============================================================================
