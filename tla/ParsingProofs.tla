--------------------------- MODULE ParsingProofs ----------------------------
(***************************************************************************)
(* Proofs about Parsing, for any texts, elements, documents and items:     *)
(* what is read of them is clean, and has been written there.              *)
(***************************************************************************)
EXTENDS WaitingProofs, Parsing

-----------------------------------------------------------------------------
(* Parsing: class lists and text                                           *)

\* The words of a text by their first and last index.
Runs(s, B) ==
  {w \in (1..Len(s)) \X (1..Len(s)) :
      /\ w[1] <= w[2] /\ \A k \in w[1]..w[2] : s[k] \notin B
      /\ w[1] > 1 => s[w[1] - 1] \in B
      /\ w[2] < Len(s) => s[w[2] + 1] \in B}

\* The words that something follows, and the word at the end.
ClosedWords(s, B) == {SubSeq(s, v[1], v[2]) : v \in {w \in Runs(s, B) : w[2] < Len(s)}}
OpenWords(s, B) == {SubSeq(s, v[1], v[2]) : v \in {w \in Runs(s, B) : w[2] = Len(s)}}

(* There are no others.                                                    *)
LEMMA WordsAre ==
  ASSUME NEW T, NEW s \in Seq(T), NEW B
  PROVE  Words(s, B) = ClosedWords(s, B) \cup OpenWords(s, B)
<1>1. Words(s, B) = {SubSeq(s, v[1], v[2]) : v \in Runs(s, B)}
  BY DEF Words, Runs
<1>2. \A w \in Runs(s, B) : w[2] < Len(s) \/ w[2] = Len(s)
  BY DEF Runs
<1>3. QED
  BY <1>1, <1>2 DEF ClosedWords, OpenWords

(* The same text up to an index.                                           *)
LEMMA SubSeqOfAppend ==
  ASSUME NEW T, NEW s \in Seq(T), NEW c \in T, NEW a \in 1..(Len(s) + 1), NEW b \in 1..Len(s)
  PROVE  /\ SubSeq(Append(s, c), a, b) = SubSeq(s, a, b)
         /\ SubSeq(Append(s, c), a, Len(s) + 1) = Append(SubSeq(s, a, Len(s)), c)
<1> DEFINE t == Append(s, c)
<1>1. /\ t \in Seq(T) /\ Len(s) \in Nat /\ Len(t) = Len(s) + 1 /\ t[Len(s) + 1] = c
      /\ \A i \in 1..Len(s) : t[i] = s[i]
  BY AppendFacts
<1> HIDE DEF t
<1>2. SubSeq(t, a, b) = SubSeq(s, a, b)
  <2>1. /\ SubSeq(t, a, b) = [i \in 1..(1 + b - a) |-> t[i + a - 1]]
        /\ SubSeq(s, a, b) = [i \in 1..(1 + b - a) |-> s[i + a - 1]]
    OBVIOUS
  <2>2. \A i \in 1..(1 + b - a) : i + a - 1 \in 1..Len(s)
    BY <1>1
  <2>3. QED
    BY <1>1, <2>1, <2>2
<1>3. SubSeq(t, a, Len(s) + 1) = Append(SubSeq(s, a, Len(s)), c)
  <2>1. PICK u : u = SubSeq(s, a, Len(s))
    OBVIOUS
  <2>2. u = [i \in 1..(1 + Len(s) - a) |-> s[i + a - 1]]
    BY <1>1, <2>1
  <2>3. \A i \in 1..(1 + Len(s) - a) : i + a - 1 \in 1..Len(s)
    BY <1>1
  <2>4. u \in Seq(T) /\ Len(u) = 1 + Len(s) - a
    BY <1>1, <2>2, <2>3
  <2>5. PICK v : v = Append(u, c)
    OBVIOUS
  <2>6. /\ v \in Seq(T) /\ Len(v) = 2 + Len(s) - a /\ v[2 + Len(s) - a] = c
        /\ \A i \in 1..(1 + Len(s) - a) : v[i] = u[i]
    <3>1. /\ v \in Seq(T) /\ Len(v) = Len(u) + 1 /\ v[Len(u) + 1] = c
          /\ \A i \in 1..Len(u) : v[i] = u[i]
      BY <2>4, <2>5, AppendFacts
    <3>2. Len(u) + 1 = 2 + Len(s) - a
      BY <1>1, <2>4
    <3>3. QED
      BY <2>4, <3>1, <3>2
  <2>7. PICK w : w = SubSeq(t, a, Len(s) + 1)
    OBVIOUS
  <2>8. w = [i \in 1..(2 + Len(s) - a) |-> t[i + a - 1]]
    BY <1>1, <2>7
  <2>9. \A i \in 1..(2 + Len(s) - a) : i + a - 1 \in 1..Len(t)
    BY <1>1
  <2>10. w \in Seq(T) /\ Len(w) = 2 + Len(s) - a
    BY <1>1, <2>8, <2>9
  <2>11. ASSUME NEW i \in 1..Len(w) PROVE w[i] = v[i]
    <3>1. CASE i <= 1 + Len(s) - a
      <4>1. i \in 1..(1 + Len(s) - a) /\ i + a - 1 \in 1..Len(s)
        BY <1>1, <2>10, <3>1
      <4>2. w[i] = t[i + a - 1] /\ v[i] = u[i] /\ u[i] = s[i + a - 1]
        BY <2>2, <2>6, <2>8, <2>10, <4>1
      <4>3. QED
        BY <1>1, <4>1, <4>2
    <3>2. CASE i = 2 + Len(s) - a
      <4>1. i + a - 1 = Len(s) + 1
        BY <1>1, <3>2
      <4>2. w[i] = t[i + a - 1]
        BY <2>8, <2>10
      <4>3. QED
        BY <1>1, <2>6, <3>2, <4>1, <4>2
    <3>3. QED
      BY <1>1, <2>10, <3>1, <3>2
  <2>12. w = v
    BY <2>6, <2>10, <2>11, SeqEqual
  <2>13. QED
    BY <2>1, <2>5, <2>7, <2>12
<1>4. QED
  BY <1>2, <1>3 DEF t

\* What a character more makes of the words.
WordsMore(s, c, B) ==
  LET t == Append(s, c) IN
  /\ c \in B => /\ ClosedWords(t, B) = ClosedWords(s, B) \cup OpenWords(s, B)
                /\ OpenWords(t, B) = {}
  /\ c \notin B =>
       /\ ClosedWords(t, B) = ClosedWords(s, B)
       /\ OpenWords(t, B) = IF OpenWords(s, B) = {} THEN {Append(<<>>, c)}
                            ELSE {Append(w, c) : w \in OpenWords(s, B)}

(* It ends a word, or makes it longer, or begins one.                      *)
LEMMA WordsAppend ==
  ASSUME NEW T, NEW s \in Seq(T), NEW c \in T, NEW B
  PROVE  WordsMore(s, c, B)
<1> DEFINE t == Append(s, c)
           n == Len(s)
<1>1. /\ t \in Seq(T) /\ n \in Nat /\ Len(t) = n + 1 /\ t[n + 1] = c
      /\ \A i \in 1..n : t[i] = s[i]
  BY AppendFacts
<1>2. \A a \in 1..(n + 1), b \in 1..n : SubSeq(t, a, b) = SubSeq(s, a, b)
  BY SubSeqOfAppend
<1>3. \A a \in 1..n : SubSeq(t, a, n + 1) = Append(SubSeq(s, a, n), c)
  <2>1. TAKE a \in 1..n
  <2>2. n \in 1..n /\ a \in 1..(n + 1)
    BY <1>1
  <2>3. QED
    BY <2>2, SubSeqOfAppend
<1>4. SubSeq(t, n + 1, n + 1) = Append(<<>>, c)
  <2> DEFINE e == <<>>
  <2>1. PICK u : u = SubSeq(t, n + 1, n + 1)
    OBVIOUS
  <2>2. u \in Seq(T) /\ Len(u) = 1 /\ u[1] = c
    <3>1. u = [i \in 1..(1 + (n + 1) - (n + 1)) |-> t[i + (n + 1) - 1]]
      BY <1>1, <2>1
    <3>2. 1 + (n + 1) - (n + 1) = 1 /\ 1 + (n + 1) - 1 = n + 1 /\ 1 \in 1..1
      BY <1>1
    <3> HIDE DEF n
    <3>3. u = [i \in 1..1 |-> t[i + (n + 1) - 1]]
      BY <3>1, <3>2
    <3>4. u[1] = c
      BY <1>1, <3>2, <3>3
    <3>5. \A i \in 1..1 : t[i + (n + 1) - 1] \in T
      BY <1>1
    <3>6. \A i \in 1..1 : u[i] \in T
      BY <3>3, <3>5
    <3>7. u = [i \in 1..1 |-> u[i]] /\ 1 \in Nat
      BY <3>3
    <3> HIDE DEF t, e
    <3>8. u \in [1..1 -> T]
      BY <3>6, <3>7
    <3>9. QED
      BY <3>4, <3>7, <3>8
  <2>3. PICK v : v = Append(e, c)
    OBVIOUS
  <2>4. e \in Seq(T) /\ Len(e) = 0
    OBVIOUS
  <2> HIDE DEF e
  <2>5. v \in Seq(T) /\ Len(v) = 1 /\ v[1] = c
    BY <2>3, <2>4, AppendFacts
  <2>6. \A i \in 1..1 : u[i] = v[i]
    BY <2>2, <2>5
  <2>7. u = v
    BY <2>2, <2>5, <2>6, SeqEqual
  <2>8. QED
    BY <2>1, <2>3, <2>7 DEF e
<1>5. \A a, b \in 1..n : <<a, b>> \in Runs(s, B) <=>
          /\ a <= b /\ \A k \in a..b : s[k] \notin B
          /\ a > 1 => s[a - 1] \in B
          /\ b < n => s[b + 1] \in B
  BY DEF Runs
<1>6. \A a, b \in 1..(n + 1) : <<a, b>> \in Runs(t, B) <=>
          /\ a <= b /\ \A k \in a..b : t[k] \notin B
          /\ a > 1 => t[a - 1] \in B
          /\ b < n + 1 => t[b + 1] \in B
  BY <1>1 DEF Runs
<1>7. /\ Runs(s, B) \subseteq (1..n) \X (1..n)
      /\ Runs(t, B) \subseteq (1..(n + 1)) \X (1..(n + 1))
  BY <1>1 DEF Runs
<1> HIDE DEF t, n
<1>8. \A a, b \in 1..n : b < n => (<<a, b>> \in Runs(t, B) <=> <<a, b>> \in Runs(s, B))
  <2>1. TAKE a, b \in 1..n
  <2>2. HAVE b < n
  <2>3. /\ a \in 1..(n + 1) /\ b \in 1..(n + 1) /\ b < n + 1 /\ b + 1 \in 1..n
        /\ \A k \in a..b : k \in 1..n
        /\ a > 1 => a - 1 \in 1..n
    BY <1>1, <2>2
  <2>4. /\ (\A k \in a..b : t[k] \notin B) <=> (\A k \in a..b : s[k] \notin B)
        /\ a > 1 => t[a - 1] = s[a - 1]
        /\ t[b + 1] = s[b + 1]
    BY <1>1, <2>3
  <2>5. QED
    BY <1>5, <1>6, <2>2, <2>3, <2>4
<1>9. \A a \in 1..n : <<a, n>> \in Runs(t, B) <=> <<a, n>> \in Runs(s, B) /\ c \in B
  <2>1. TAKE a \in 1..n
  <2>2. /\ a \in 1..(n + 1) /\ n \in 1..(n + 1) /\ n < n + 1 /\ n \in 1..n
        /\ \A k \in a..n : k \in 1..n
        /\ a > 1 => a - 1 \in 1..n
    BY <1>1
  <2>3. /\ (\A k \in a..n : t[k] \notin B) <=> (\A k \in a..n : s[k] \notin B)
        /\ a > 1 => t[a - 1] = s[a - 1]
        /\ t[n + 1] = c /\ ~(n < n)
    BY <1>1, <2>2
  <2>4. QED
    BY <1>5, <1>6, <2>2, <2>3
<1>10. \A a \in 1..n : <<a, n + 1>> \in Runs(t, B) <=> <<a, n>> \in Runs(s, B) /\ c \notin B
  <2>1. TAKE a \in 1..n
  <2>2. /\ a \in 1..(n + 1) /\ n + 1 \in 1..(n + 1) /\ ~(n + 1 < n + 1) /\ n \in 1..n /\ ~(n < n)
        /\ \A k \in a..n : k \in 1..n /\ k \in a..(n + 1)
        /\ \A k \in a..(n + 1) : k \in a..n \/ k = n + 1
        /\ a > 1 => a - 1 \in 1..n
        /\ a <= n /\ a <= n + 1 /\ n + 1 \in a..(n + 1)
    BY <1>1
  <2>3. /\ (\A k \in a..(n + 1) : t[k] \notin B) <=> (\A k \in a..n : s[k] \notin B) /\ c \notin B
        /\ a > 1 => t[a - 1] = s[a - 1]
    BY <1>1, <2>2
  <2>4. QED
    BY <1>5, <1>6, <2>2, <2>3
<1>11. <<n + 1, n + 1>> \in Runs(t, B) <=> c \notin B /\ (n > 0 => s[n] \in B)
  <2>1. /\ n + 1 \in 1..(n + 1) /\ ~(n + 1 < n + 1) /\ (n > 0 => n \in 1..n) /\ (n + 1) - 1 = n
        /\ (n + 1 > 1 <=> n > 0)
        /\ \A k \in (n + 1)..(n + 1) : k = n + 1
        /\ n + 1 \in (n + 1)..(n + 1) /\ n + 1 <= n + 1
    BY <1>1
  <2>2. QED
    BY <1>1, <1>6, <2>1
<1>12. \A b \in 1..n : <<n + 1, b>> \notin Runs(t, B)
  <2>1. TAKE b \in 1..n
  <2>2. n + 1 \in 1..(n + 1) /\ b \in 1..(n + 1) /\ ~(n + 1 <= b)
    BY <1>1
  <2>3. QED
    BY <1>6, <2>2
<1>13. \A i \in 1..(n + 1) : i \in 1..n \/ i = n + 1
  BY <1>1
<1>14. (n > 0 /\ s[n] \notin B) => \E a \in 1..n : <<a, n>> \in Runs(s, B)
  <2>1. SUFFICES ASSUME n > 0, s[n] \notin B PROVE \E a \in 1..n : <<a, n>> \in Runs(s, B)
    OBVIOUS
  <2> DEFINE S == {a \in 1..n : \A k \in a..n : s[k] \notin B}
  <2>2. n \in S
    BY <1>1, <2>1
  <2>3. S \subseteq Nat /\ S # {}
    BY <2>2
  <2>4. PICK a \in S : \A m \in S : a <= m
    BY <2>3, LeastNumber
  <2>5. a > 1 => s[a - 1] \in B
    <3>1. SUFFICES ASSUME a > 1, s[a - 1] \notin B PROVE FALSE
      OBVIOUS
    <3>2. a - 1 \in 1..n /\ \A k \in (a - 1)..n : k = a - 1 \/ k \in a..n
      BY <1>1, <3>1
    <3>3. a - 1 \in S
      BY <3>1, <3>2
    <3>4. a <= a - 1
      BY <2>4, <3>3
    <3>5. QED
      BY <3>4
  <2>6. n \in 1..n /\ a <= n /\ ~(n < n) /\ a \in 1..n /\ \A k \in a..n : s[k] \notin B
    BY <1>1, <2>1
  <2> HIDE DEF S
  <2>7. QED
    BY <1>5, <2>5, <2>6
<1>15. \A a \in 1..n : <<a, n>> \in Runs(s, B) => n > 0 /\ s[n] \notin B
  <2>1. TAKE a \in 1..n
  <2>2. n \in 1..n /\ n \in a..n /\ n > 0
    BY <1>1
  <2>3. QED
    BY <1>5, <2>2
<1>16. \A w : w \in ClosedWords(s, B) <=>
                \E a, b \in 1..n : b < n /\ <<a, b>> \in Runs(s, B) /\ w = SubSeq(s, a, b)
  <2>1. \A v \in Runs(s, B) : v[1] \in 1..n /\ v[2] \in 1..n /\ v = <<v[1], v[2]>>
    BY <1>7
  <2>2. \A w : w \in ClosedWords(s, B) <=>
                 \E v \in Runs(s, B) : v[2] < n /\ w = SubSeq(s, v[1], v[2])
    BY DEF ClosedWords, n
  <2>3. QED
    BY <2>1, <2>2
<1>17. \A w : w \in OpenWords(s, B) <=>
                \E a \in 1..n : <<a, n>> \in Runs(s, B) /\ w = SubSeq(s, a, n)
  <2>1. \A v \in Runs(s, B) : v[1] \in 1..n /\ v[2] \in 1..n /\ v = <<v[1], v[2]>>
    BY <1>7
  <2>2. \A w : w \in OpenWords(s, B) <=>
                 \E v \in Runs(s, B) : v[2] = n /\ w = SubSeq(s, v[1], v[2])
    BY DEF OpenWords, n
  <2>3. QED
    BY <2>1, <2>2
<1>18. \A w : w \in ClosedWords(t, B) <=>
                \E a, b \in 1..n : <<a, b>> \in Runs(t, B) /\ w = SubSeq(s, a, b)
  <2>1. \A v \in Runs(t, B) : v[1] \in 1..(n + 1) /\ v[2] \in 1..(n + 1) /\ v = <<v[1], v[2]>>
    BY <1>7
  <2>2. \A w : w \in ClosedWords(t, B) <=>
                 \E v \in Runs(t, B) : v[2] < n + 1 /\ w = SubSeq(t, v[1], v[2])
    BY <1>1 DEF ClosedWords
  <2>3. \A b \in 1..(n + 1) : b < n + 1 <=> b \in 1..n
    BY <1>1
  <2>4. \A w : w \in ClosedWords(t, B) <=>
                 \E a \in 1..(n + 1), b \in 1..n : <<a, b>> \in Runs(t, B) /\ w = SubSeq(t, a, b)
    BY <1>13, <2>1, <2>2, <2>3
  <2>5. ASSUME NEW w, NEW a \in 1..(n + 1), NEW b \in 1..n,
               <<a, b>> \in Runs(t, B), w = SubSeq(t, a, b)
        PROVE  a \in 1..n /\ w = SubSeq(s, a, b)
    BY <1>2, <1>12, <1>13, <2>5
  <2>6. ASSUME NEW w, NEW a \in 1..n, NEW b \in 1..n
        PROVE  a \in 1..(n + 1) /\ SubSeq(s, a, b) = SubSeq(t, a, b)
    <3>1. a \in 1..(n + 1)
      BY <1>1
    <3>2. QED
      BY <1>2, <3>1
  <2>7. ASSUME NEW w
        PROVE  w \in ClosedWords(t, B) <=>
                 \E a, b \in 1..n : <<a, b>> \in Runs(t, B) /\ w = SubSeq(s, a, b)
    <3>1. ASSUME w \in ClosedWords(t, B)
          PROVE  \E a, b \in 1..n : <<a, b>> \in Runs(t, B) /\ w = SubSeq(s, a, b)
      <4>1. PICK a \in 1..(n + 1), b \in 1..n : <<a, b>> \in Runs(t, B) /\ w = SubSeq(t, a, b)
        BY <2>4, <3>1
      <4>2. a \in 1..n /\ w = SubSeq(s, a, b)
        BY <2>5, <4>1
      <4>3. QED
        BY <4>1, <4>2
    <3>2. ASSUME NEW a \in 1..n, NEW b \in 1..n, <<a, b>> \in Runs(t, B), w = SubSeq(s, a, b)
          PROVE  w \in ClosedWords(t, B)
      <4>1. a \in 1..(n + 1) /\ w = SubSeq(t, a, b)
        BY <2>6, <3>2
      <4>2. QED
        BY <2>4, <3>2, <4>1
    <3>3. QED
      BY <3>1, <3>2
  <2>8. QED
    BY <2>7
<1>19. \A w : w \in OpenWords(t, B) <=>
                \E a \in 1..(n + 1) : <<a, n + 1>> \in Runs(t, B) /\ w = SubSeq(t, a, n + 1)
  <2>1. \A v \in Runs(t, B) : v[1] \in 1..(n + 1) /\ v[2] \in 1..(n + 1) /\ v = <<v[1], v[2]>>
    BY <1>7
  <2>2. \A w : w \in OpenWords(t, B) <=>
                 \E v \in Runs(t, B) : v[2] = n + 1 /\ w = SubSeq(t, v[1], v[2])
    BY <1>1 DEF OpenWords
  <2>3. QED
    BY <2>1, <2>2
<1>20. ASSUME c \in B
       PROVE  /\ ClosedWords(t, B) = ClosedWords(s, B) \cup OpenWords(s, B)
              /\ OpenWords(t, B) = {}
  <2>1. \A a, b \in 1..n : <<a, b>> \in Runs(t, B) <=> <<a, b>> \in Runs(s, B)
    <3>1. TAKE a, b \in 1..n
    <3>2. b < n \/ b = n
      BY <1>1
    <3>3. QED
      BY <1>8, <1>9, <1>20, <3>2
  <2>2. \A b \in 1..n : (b < n \/ b = n) /\ n \in 1..n
    BY <1>1
  <2>3. ClosedWords(t, B) = ClosedWords(s, B) \cup OpenWords(s, B)
    <3>1. \A w : w \in ClosedWords(t, B) <=> w \in ClosedWords(s, B) \/ w \in OpenWords(s, B)
      BY <1>16, <1>17, <1>18, <2>1, <2>2
    <3>2. QED
      BY <3>1
  <2>4. OpenWords(t, B) = {}
    BY <1>10, <1>11, <1>13, <1>19, <1>20
  <2>5. QED
    BY <2>3, <2>4
<1>21. ASSUME c \notin B
       PROVE  /\ ClosedWords(t, B) = ClosedWords(s, B)
              /\ OpenWords(t, B) = IF OpenWords(s, B) = {} THEN {Append(<<>>, c)}
                                   ELSE {Append(w, c) : w \in OpenWords(s, B)}
  <2>1. \A a, b \in 1..n : <<a, b>> \in Runs(t, B) <=> b < n /\ <<a, b>> \in Runs(s, B)
    <3>1. TAKE a, b \in 1..n
    <3>2. b < n \/ (b = n /\ ~(b < n))
      BY <1>1
    <3>3. QED
      BY <1>8, <1>9, <1>21, <3>2
  <2>2. ClosedWords(t, B) = ClosedWords(s, B)
    BY <1>16, <1>18, <2>1
  <2>3. CASE OpenWords(s, B) = {}
    <3>1. \A a \in 1..n : <<a, n>> \notin Runs(s, B)
      BY <1>17, <2>3
    <3>2. \A a \in 1..n : <<a, n + 1>> \notin Runs(t, B)
      BY <1>10, <3>1
    <3>a. n > 0 => s[n] \in B
      BY <1>14, <3>1
    <3>3. <<n + 1, n + 1>> \in Runs(t, B) /\ n + 1 \in 1..(n + 1)
      <4>1. n + 1 \in 1..(n + 1)
        BY <1>1
      <4>2. QED
        BY <1>11, <1>21, <3>a, <4>1
    <3>4. \A w : w \in OpenWords(t, B) <=> w = Append(<<>>, c)
      BY <1>4, <1>13, <1>19, <3>2, <3>3
    <3>5. OpenWords(t, B) = {Append(<<>>, c)}
      <4> DEFINE x == Append(<<>>, c)
      <4>1. \A w : w \in OpenWords(t, B) <=> w = x
        BY <3>4
      <4> HIDE DEF x
      <4>2. OpenWords(t, B) = {x}
        BY <4>1
      <4>3. QED
        BY <4>2 DEF x
    <3>6. QED
      BY <2>2, <2>3, <3>5
  <2>4. CASE OpenWords(s, B) # {}
    <3>1. PICK a \in 1..n : <<a, n>> \in Runs(s, B)
      BY <1>17, <2>4
    <3>2. <<n + 1, n + 1>> \notin Runs(t, B)
      BY <1>11, <1>15, <3>1
    <3>3. \A w : w \in OpenWords(t, B) <=>
                   \E b \in 1..n : <<b, n>> \in Runs(s, B) /\ w = Append(SubSeq(s, b, n), c)
      <4>1. \A b \in 1..n : b \in 1..(n + 1)
        BY <1>1
      <4>2. \A w : w \in OpenWords(t, B) <=>
                     \E b \in 1..n : <<b, n + 1>> \in Runs(t, B) /\ w = SubSeq(t, b, n + 1)
        BY <1>13, <1>19, <3>2, <4>1
      <4>3. \A b \in 1..n : <<b, n + 1>> \in Runs(t, B) <=> <<b, n>> \in Runs(s, B)
        BY <1>10, <1>21
      <4>4. \A w, b : b \in 1..n => (w = SubSeq(t, b, n + 1) <=> w = Append(SubSeq(s, b, n), c))
        BY <1>3
      <4>5. QED
        BY <4>2, <4>3, <4>4, Zenon
    <3>4. \A w : w \in OpenWords(t, B) <=> \E v \in OpenWords(s, B) : w = Append(v, c)
      BY <1>17, <3>3
    <3>5. OpenWords(t, B) = {Append(w, c) : w \in OpenWords(s, B)}
      BY <3>4
    <3>6. QED
      BY <2>2, <2>4, <3>5
  <2>5. QED
    BY <2>3, <2>4
<1>22. QED
  BY <1>20, <1>21 DEF WordsMore, t

(* No text, no words; and at most one word is at the end.                  *)
LEMMA WordsEmpty ==
  ASSUME NEW B
  PROVE  ClosedWords(<<>>, B) = {} /\ OpenWords(<<>>, B) = {}
<1> DEFINE e == <<>>
<1>1. Runs(e, B) = {}
  BY DEF Runs
<1> HIDE DEF e
<1>2. ClosedWords(e, B) = {} /\ OpenWords(e, B) = {}
  BY <1>1 DEF ClosedWords, OpenWords
<1>3. QED
  BY <1>2 DEF e

\* What checkClass() has after the characters of s, if it began with base.
MatchAll(name, base, s) == FoldLeft(LAMBDA x, c : MatchChar(name, x, c), base, s)

\* h[I] is what matching makes of base and of the elements with an index in I.
MatchFolds(h, name, base, s, I) ==
  h = [J \in SUBSET I |->
         IF J = {} THEN base ELSE MatchChar(name, h[J \ {Max(J)}], s[Max(J)])]

(* It is such a function for all indices, if there is one.                 *)
LEMMA MatchIs ==
  ASSUME NEW name, NEW base, NEW s
  PROVE  MatchAll(name, base, s) = (CHOOSE h : MatchFolds(h, name, base, s, DOMAIN s))[DOMAIN s]
BY DEF MatchAll, FoldLeft, MapThenFoldSet, MatchFolds

\* It stays within X, as long as the elements are taken from T.
MatchWithin(name, X, T) == \A x \in X, y \in T : MatchChar(name, x, y) \in X

\* It takes the elements of s one by one.
MatchInTurn(name, base, s, X, T) ==
  /\ MatchAll(name, base, s) \in X
  /\ s = <<>> => MatchAll(name, base, s) = base
  /\ \A y \in T : MatchAll(name, base, Append(s, y)) = MatchChar(name, MatchAll(name, base, s), y)

(* It takes the elements one by one.                                       *)
LEMMA MatchSteps ==
  ASSUME NEW name, NEW T, NEW X, NEW base \in X, NEW s \in Seq(T), MatchWithin(name, X, T)
  PROVE  MatchInTurn(name, base, s, X, T)
<1>0. \A x \in X, y \in T : MatchChar(name, x, y) \in X
  BY DEF MatchWithin
<1> DEFINE next == [p \in X \X T |-> MatchChar(name, p[1], p[2])]
<1>1. next \in [X \X T -> X] /\ \A x \in X, y \in T : next[x, y] = MatchChar(name, x, y)
  BY <1>0
<1> HIDE DEF next
<1>2. ASSUME NEW t \in Seq(T)
      PROVE  MatchAll(name, base, t) = Folded(next, base, t)
  <2> DEFINE h == CHOOSE f : MatchFolds(f, name, base, t, 1..Len(t))
             g == [n \in 0..Len(t) |-> h[1..n]]
  <2>0. Len(t) \in Nat /\ DOMAIN t = 1..Len(t)
    OBVIOUS
  <2>1. \E f : MatchFolds(f, name, base, t, 1..Len(t))
    <3>1. PICK f : /\ f \in [SUBSET (1..Len(t)) -> X]
                   /\ Folds(f, next, base, t, 1..Len(t))
      BY <1>1, FoldingExists
    <3>2. ASSUME NEW J \in SUBSET (1..Len(t)), J # {}
          PROVE  f[J] = MatchChar(name, f[J \ {Max(J)}], t[Max(J)])
      <4>1. Max(J) \in J /\ J \ {Max(J)} \in SUBSET (1..Len(t))
        BY <2>0, <3>2, GreatestIndex
      <4>2. f[J \ {Max(J)}] \in X
        BY <3>1, <4>1, Zenon
      <4>3. Max(J) \in 1..Len(t)
        BY <4>1
      <4>4. t[Max(J)] \in T
        BY <4>3
      <4>5. f[J] = next[f[J \ {Max(J)}], t[Max(J)]]
        BY <3>1, <3>2 DEF Folds
      <4>6. QED
        BY <1>1, <4>2, <4>4, <4>5
    <3>3. f[{}] = base /\ f = [J \in SUBSET (1..Len(t)) |-> f[J]]
      BY <3>1 DEF Folds
    <3>4. MatchFolds(f, name, base, t, 1..Len(t))
      BY <3>2, <3>3 DEF MatchFolds
    <3>5. QED
      BY <3>4
  <2>2. MatchFolds(h, name, base, t, 1..Len(t))
    BY <2>1
  <2>3. MatchAll(name, base, t) = h[1..Len(t)]
    BY <2>0, MatchIs
  <2> HIDE DEF h
  <2>4. \A J \in SUBSET (1..Len(t)) :
            h[J] = IF J = {} THEN base ELSE MatchChar(name, h[J \ {Max(J)}], t[Max(J)])
    BY <2>2 DEF MatchFolds
  <2>5. g[0] = base
    <3>1. 1..0 = {} /\ {} \in SUBSET (1..Len(t)) /\ g[0] = h[1..0]
      BY <2>0
    <3>2. h[{}] = base
      BY <2>4
    <3> HIDE DEF g
    <3>3. QED
      BY <3>1, <3>2
  <2>6. ASSUME NEW i \in 1..Len(t), g[i - 1] \in X
        PROVE  g[i] = next[g[i - 1], t[i]]
    <3>1. /\ 1..i \in SUBSET (1..Len(t)) /\ 1..i # {} /\ Max(1..i) = i
          /\ (1..i) \ {i} = 1..(i - 1)
      BY <2>0, IndicesUpTo
    <3>2. g[i] = h[1..i] /\ g[i - 1] = h[1..(i - 1)] /\ t[i] \in T
      BY <2>0
    <3> HIDE DEF g
    <3>3. g[i] = MatchChar(name, g[i - 1], t[i])
      BY <2>4, <3>1, <3>2
    <3>4. QED
      BY <1>1, <2>6, <3>2, <3>3
  <2>7. g[Len(t)] = h[1..Len(t)]
    BY <2>0
  <2> HIDE DEF g
  <2>8. Folding(g, next, base, t)
    BY <1>1, <2>5, <2>6, FoldingBy DEF FoldingIn
  <2>9. Folded(next, base, t) = g[Len(t)] /\ \A n \in 0..Len(t) : g[n] \in X
    BY <1>1, <2>8, FoldedIs
  <2>10. QED
    BY <2>3, <2>7, <2>9
<1>a. next \in [X \X T -> X] /\ s \in Seq(T) /\ base \in X
  BY <1>1
<1>3. FoldsInTurn(next, base, s, X, T)
  BY <1>a, FoldedFacts
<1>4. ASSUME NEW y \in T
      PROVE  MatchAll(name, base, Append(s, y)) = MatchChar(name, MatchAll(name, base, s), y)
  <2>1. Append(s, y) \in Seq(T)
    OBVIOUS
  <2>2. MatchAll(name, base, Append(s, y)) = Folded(next, base, Append(s, y))
    BY <1>2, <2>1
  <2>3. Folded(next, base, Append(s, y)) = MatchChar(name, Folded(next, base, s), y)
    BY <1>1, <1>3 DEF FoldsInTurn
  <2>4. QED
    BY <1>2, <2>2, <2>3
<1>5. QED
  BY <1>2, <1>3, <1>4 DEF FoldsInTurn, MatchInTurn

\* What it has in between, and the word it compares with the name.
Matchers(name) == [matcher : 0..(Len(name) + 1), mismatch : BOOLEAN, found : BOOLEAN]
LowerWord(w) == [i \in 1..Len(w) |-> Lower(w[i])]
BeginsName(w, name) == Len(w) <= Len(name) /\ \A k \in 1..Len(w) : name[k] = Lower(w[k])

\* It has found the name where a word of s has ended with it; if not, it is as far in the
\* name as the word goes that has not ended yet.
MatchedSoFar(name, s, x) ==
  /\ x.found <=> \E w \in ClosedWords(s, {" "}) : LowerWord(w) = name
  /\ ~x.found /\ OpenWords(s, {" "}) = {} => x.matcher = 0 /\ ~x.mismatch
  /\ ~x.found => \A w \in OpenWords(s, {" "}) :
       /\ ~x.mismatch <=> BeginsName(w, name)
       /\ ~x.mismatch => x.matcher = Len(w) + 1
       /\ x.matcher # 0

(* Words are sequences of the characters of the text, and not empty.       *)
LEMMA WordsAreSeqs ==
  ASSUME NEW T, NEW s \in Seq(T), NEW B
  PROVE  \A w \in ClosedWords(s, B) \cup OpenWords(s, B) : w \in Seq(T) /\ w # <<>>
<1>1. TAKE w \in ClosedWords(s, B) \cup OpenWords(s, B)
<1>2. PICK v \in Runs(s, B) : w = SubSeq(s, v[1], v[2])
  BY DEF ClosedWords, OpenWords
<1>3. PICK a, b : a = v[1] /\ b = v[2]
  OBVIOUS
<1>4. a \in 1..Len(s) /\ b \in 1..Len(s) /\ a <= b /\ Len(s) \in Nat
  BY <1>3 DEF Runs
<1>a. w = SubSeq(s, a, b)
  BY <1>2, <1>3
<1>5. w = [i \in 1..(1 + b - a) |-> s[i + a - 1]]
  BY <1>4, <1>a
<1>6. \A i \in 1..(1 + b - a) : s[i + a - 1] \in T
  BY <1>4
<1>7. 1 + b - a \in Nat /\ 1 + b - a # 0
  BY <1>4
<1>8. w \in Seq(T) /\ Len(w) = 1 + b - a
  BY <1>5, <1>6, <1>7
<1>9. QED
  BY <1>7, <1>8

(* A word is the name if it begins it and is as long.                      *)
LEMMA LowerWordIs ==
  ASSUME NEW T, NEW w \in Seq(T), NEW C, NEW name \in Seq(C)
  PROVE  LowerWord(w) = name <=> BeginsName(w, name) /\ Len(w) = Len(name)
<1>0. Len(w) \in Nat /\ Len(name) \in Nat
  OBVIOUS
<1>1. name = [i \in 1..Len(name) |-> name[i]]
  OBVIOUS
<1>2. ASSUME LowerWord(w) = name
      PROVE  BeginsName(w, name) /\ Len(w) = Len(name)
  <2>1. 1..Len(w) = 1..Len(name)
    BY <1>1, <1>2 DEF LowerWord
  <2>2. Len(w) = Len(name)
    BY <1>0, <2>1
  <2>3. \A k \in 1..Len(w) : name[k] = Lower(w[k])
    BY <1>2 DEF LowerWord
  <2>4. QED
    BY <1>0, <2>2, <2>3 DEF BeginsName
<1>3. ASSUME BeginsName(w, name), Len(w) = Len(name)
      PROVE  LowerWord(w) = name
  <2>1. \A k \in 1..Len(name) : name[k] = Lower(w[k])
    BY <1>3 DEF BeginsName
  <2>2. [i \in 1..Len(name) |-> name[i]] = [i \in 1..Len(name) |-> Lower(w[i])]
    BY <2>1
  <2>3. QED
    BY <1>1, <1>3, <2>2 DEF LowerWord
<1>4. QED
  BY <1>2, <1>3

(* A longer word begins the name if it did before, and goes on like it.    *)
LEMMA BeginsNameMore ==
  ASSUME NEW T, NEW w \in Seq(T), NEW c \in T, NEW name, Len(name) \in Nat
  PROVE  BeginsName(Append(w, c), name) <=>
           /\ BeginsName(w, name)
           /\ Len(w) + 1 <= Len(name) /\ name[Len(w) + 1] = Lower(c)
<1>1. PICK v : v = Append(w, c)
  OBVIOUS
<1>2. /\ v \in Seq(T) /\ Len(w) \in Nat /\ Len(v) = Len(w) + 1 /\ v[Len(w) + 1] = c
      /\ \A i \in 1..Len(w) : v[i] = w[i]
  BY <1>1, AppendFacts
<1>3. \A k \in 1..(Len(w) + 1) : k \in 1..Len(w) \/ k = Len(w) + 1
  BY <1>2
<1>4. Len(w) + 1 \in 1..(Len(w) + 1) /\ \A k \in 1..Len(w) : k \in 1..(Len(w) + 1)
  BY <1>2
<1>5. (\A k \in 1..(Len(w) + 1) : name[k] = Lower(v[k])) <=>
        (\A k \in 1..Len(w) : name[k] = Lower(w[k])) /\ name[Len(w) + 1] = Lower(c)
  BY <1>2, <1>3, <1>4
<1>6. Len(w) + 1 <= Len(name) => Len(w) <= Len(name)
  BY <1>2
<1>7. BeginsName(v, name) <=>
        /\ BeginsName(w, name)
        /\ Len(w) + 1 <= Len(name) /\ name[Len(w) + 1] = Lower(c)
  BY <1>2, <1>5, <1>6 DEF BeginsName
<1>8. QED
  BY <1>1, <1>7

(* One character more.                                                     *)
LEMMA MatchedMore ==
  ASSUME NEW T, NEW s \in Seq(T), NEW c \in T, NEW C, NEW name \in Seq(C),
         NEW x \in Matchers(name), MatchedSoFar(name, s, x)
  PROVE  MatchedSoFar(name, Append(s, c), MatchChar(name, x, c))
<1> DEFINE B == {" "}
           at == IF x.matcher = 0 THEN 1 ELSE x.matcher
           fits == at <= Len(name) /\ name[at] = Lower(c)
<1>1. PICK t : t = Append(s, c)
  OBVIOUS
<1>2. PICK y : y = MatchChar(name, x, c)
  OBVIOUS
<1>3. Len(name) \in Nat /\ x.matcher \in Nat /\ Len(name) + 1 # 0
  BY DEF Matchers
<1> HIDE DEF B
<1>4. \A w \in ClosedWords(s, B) \cup OpenWords(s, B) : w \in Seq(T) /\ Len(w) \in Nat
  <2>1. \A w \in ClosedWords(s, B) \cup OpenWords(s, B) : w \in Seq(T) /\ w # <<>>
    BY WordsAreSeqs
  <2>2. QED
    BY <2>1
<1>5. WordsMore(s, c, B)
  BY WordsAppend
<1>6. x.found <=> \E w \in ClosedWords(s, B) : LowerWord(w) = name
  BY DEF MatchedSoFar, B
<1>7. CASE x.found
  <2>1. y = x
    BY <1>2, <1>7 DEF MatchChar
  <2>2. \E w \in ClosedWords(t, B) : LowerWord(w) = name
    BY <1>1, <1>5, <1>6, <1>7 DEF WordsMore
  <2>3. MatchedSoFar(name, t, x)
    BY <1>7, <2>2 DEF MatchedSoFar, B
  <2>4. QED
    BY <1>1, <1>2, <2>1, <2>3
<1>8. CASE ~x.found /\ c = " "
  <2>1. /\ y.matcher = 0 /\ y.mismatch = FALSE
        /\ y.found = (x.matcher = Len(name) + 1 /\ ~x.mismatch)
    BY <1>2, <1>8 DEF MatchChar
  <2>2. ClosedWords(t, B) = ClosedWords(s, B) \cup OpenWords(s, B) /\ OpenWords(t, B) = {}
    BY <1>1, <1>5, <1>8 DEF WordsMore, B
  <2>3. (\E w \in ClosedWords(t, B) : LowerWord(w) = name)
          <=> \E w \in OpenWords(s, B) : LowerWord(w) = name
    BY <1>6, <1>8, <2>2
  <2>4. \A w \in OpenWords(s, B) :
            /\ ~x.mismatch <=> BeginsName(w, name)
            /\ ~x.mismatch => x.matcher = Len(w) + 1
    BY <1>8 DEF MatchedSoFar, B
  <2>5. \A w \in OpenWords(s, B) : LowerWord(w) = name <=> x.matcher = Len(name) + 1 /\ ~x.mismatch
    <3>1. TAKE w \in OpenWords(s, B)
    <3>2. LowerWord(w) = name <=> BeginsName(w, name) /\ Len(w) = Len(name)
      BY <1>4, LowerWordIs
    <3>3. Len(w) + 1 = Len(name) + 1 <=> Len(w) = Len(name)
      BY <1>3, <1>4
    <3>4. QED
      BY <2>4, <3>2, <3>3
  <2>6. OpenWords(s, B) = {} => ~(x.matcher = Len(name) + 1)
    BY <1>3, <1>8 DEF MatchedSoFar, B
  <2>7. y.found <=> \E w \in OpenWords(s, B) : LowerWord(w) = name
    BY <2>1, <2>5, <2>6
  <2>8. MatchedSoFar(name, t, y)
    BY <2>1, <2>2, <2>3, <2>7 DEF MatchedSoFar, B
  <2>9. QED
    BY <1>1, <1>2, <2>8
<1>9. CASE ~x.found /\ c # " "
  <2>1. y = [x EXCEPT !.matcher = IF ~x.mismatch /\ fits THEN at + 1 ELSE at,
                      !.mismatch = x.mismatch \/ ~fits]
    BY <1>2, <1>9 DEF MatchChar
  <2>2. /\ y.matcher = (IF ~x.mismatch /\ fits THEN at + 1 ELSE at)
        /\ y.mismatch = (x.mismatch \/ ~fits)
        /\ y.found = x.found
    BY <2>1 DEF Matchers
  <2>3. /\ ClosedWords(t, B) = ClosedWords(s, B)
        /\ OpenWords(t, B) = IF OpenWords(s, B) = {} THEN {Append(<<>>, c)}
                             ELSE {Append(w, c) : w \in OpenWords(s, B)}
    BY <1>1, <1>5, <1>9 DEF WordsMore, B
  <2>4. at \in Nat /\ at # 0 /\ at + 1 # 0
    BY <1>3
  <2>5. y.found <=> \E w \in ClosedWords(t, B) : LowerWord(w) = name
    BY <1>6, <2>2, <2>3
  <2>6. OpenWords(t, B) # {}
    BY <2>3
  <2>7. ASSUME NEW v \in OpenWords(t, B)
        PROVE  /\ ~y.mismatch <=> BeginsName(v, name)
               /\ ~y.mismatch => y.matcher = Len(v) + 1
    <3>1. CASE OpenWords(s, B) = {}
      <4> DEFINE e == <<>>
      <4>1. v = Append(e, c) /\ e \in Seq(T) /\ Len(e) = 0
        BY <2>3, <3>1
      <4>2. BeginsName(e, name)
        BY <1>3 DEF BeginsName
      <4> HIDE DEF e
      <4>3. Len(v) = 1
        BY <4>1, AppendFacts
      <4>4. BeginsName(v, name) <=>
              BeginsName(e, name) /\ Len(e) + 1 <= Len(name) /\ name[Len(e) + 1] = Lower(c)
        BY <1>3, <4>1, BeginsNameMore
      <4>5. x.matcher = 0 /\ ~x.mismatch
        BY <1>9, <3>1 DEF MatchedSoFar, B
      <4>6. at = 1 /\ Len(e) + 1 = 1 /\ 1 + 1 = 2
        BY <4>1, <4>5
      <4>7. BeginsName(v, name) <=> fits
        BY <4>2, <4>4, <4>6
      <4> HIDE DEF fits, at
      <4>8. QED
        BY <2>2, <4>3, <4>5, <4>6, <4>7
    <3>2. CASE OpenWords(s, B) # {}
      <4>1. PICK w \in OpenWords(s, B) : v = Append(w, c)
        BY <2>3, <3>2
      <4>2. w \in Seq(T) /\ Len(w) \in Nat
        BY <1>4
      <4>3. Len(v) = Len(w) + 1
        BY <4>1, <4>2, AppendFacts
      <4>4. BeginsName(v, name) <=>
              BeginsName(w, name) /\ Len(w) + 1 <= Len(name) /\ name[Len(w) + 1] = Lower(c)
        BY <1>3, <4>1, <4>2, BeginsNameMore
      <4>5. /\ ~x.mismatch <=> BeginsName(w, name)
            /\ ~x.mismatch => x.matcher = Len(w) + 1
            /\ x.matcher # 0
        BY <1>9 DEF MatchedSoFar, B
      <4>6. at = x.matcher
        BY <4>5
      <4>7. ~x.mismatch => (BeginsName(v, name) <=> fits)
        BY <4>4, <4>5, <4>6
      <4>8. x.mismatch => ~BeginsName(v, name)
        BY <4>4, <4>5
      <4> HIDE DEF fits, at
      <4>9. QED
        BY <2>2, <4>3, <4>5, <4>6, <4>7, <4>8
    <3>3. QED
      BY <3>1, <3>2
  <2>8. y.matcher # 0
    BY <2>2, <2>4
  <2>9. MatchedSoFar(name, t, y)
    BY <2>5, <2>6, <2>7, <2>8 DEF MatchedSoFar, B
  <2>10. QED
    BY <1>1, <1>2, <2>9
<1>10. QED
  BY <1>7, <1>8, <1>9

(* The state stays one.                                                    *)
LEMMA MatchersWithin ==
  ASSUME NEW T, NEW C, NEW name \in Seq(C)
  PROVE  MatchWithin(name, Matchers(name), T)
<1>1. ASSUME NEW x \in Matchers(name), NEW c \in T
      PROVE  MatchChar(name, x, c) \in Matchers(name)
  <2> DEFINE at == IF x.matcher = 0 THEN 1 ELSE x.matcher
             fits == at <= Len(name) /\ name[at] = Lower(c)
             next == IF ~x.mismatch /\ fits THEN at + 1 ELSE at
  <2>0. Len(name) \in Nat
    OBVIOUS
  <2>1. x.matcher \in 0..(Len(name) + 1) /\ x.mismatch \in BOOLEAN /\ x.found \in BOOLEAN
    BY DEF Matchers
  <2>2. next \in 0..(Len(name) + 1)
    BY <2>0, <2>1
  <2>3. (x.mismatch \/ ~fits) \in BOOLEAN /\ (x.matcher = Len(name) + 1 /\ ~x.mismatch) \in BOOLEAN
    OBVIOUS
  <2>4. MatchChar(name, x, c) =
          IF x.found THEN x
          ELSE IF c = " "
               THEN [matcher |-> 0, mismatch |-> FALSE,
                     found |-> x.matcher = Len(name) + 1 /\ ~x.mismatch]
               ELSE [x EXCEPT !.matcher = next, !.mismatch = x.mismatch \/ ~fits]
    BY DEF MatchChar
  <2> HIDE DEF next, fits, at
  <2>5. [x EXCEPT !.matcher = next, !.mismatch = x.mismatch \/ ~fits] \in Matchers(name)
    BY <2>2 DEF Matchers
  <2>6. [matcher |-> 0, mismatch |-> FALSE, found |-> x.matcher = Len(name) + 1 /\ ~x.mismatch]
          \in Matchers(name)
    BY <2>0, <2>3 DEF Matchers
  <2>7. QED
    BY <2>4, <2>5, <2>6
<1>2. QED
  BY <1>1 DEF MatchWithin

(* checkClass() finds the words of the class list.                         *)
LEMMA ClassesAreWords ==
  ASSUME NEW T, NEW s \in Seq(T), NEW C, NEW name \in Seq(C)
  PROVE  CheckClass(s, name) <=> \E w \in Words(s, {" "}) : LowerWord(w) = name
<1> DEFINE start == [matcher |-> 0, mismatch |-> FALSE, found |-> FALSE]
           B == {" "}
           A == {u \in Seq(T) : MatchedSoFar(name, u, MatchAll(name, start, u))}
<1>0. Len(name) \in Nat /\ Len(name) + 1 # 0
  OBVIOUS
<1>1. start \in Matchers(name)
  BY <1>0 DEF Matchers
<1>2. MatchWithin(name, Matchers(name), T)
  BY MatchersWithin
<1>s. start.matcher = 0 /\ start.mismatch = FALSE /\ start.found = FALSE
  OBVIOUS
<1>c. CheckClass(s, name) <=>
        \/ MatchAll(name, start, s).found
        \/ /\ ~MatchAll(name, start, s).mismatch
           /\ MatchAll(name, start, s).matcher = Len(name) + 1
  BY DEF CheckClass, MatchAll
<1> HIDE DEF start
<1>3. \A u \in Seq(T) : MatchInTurn(name, start, u, Matchers(name), T)
  BY <1>1, <1>2, MatchSteps
<1>4. <<>> \in A
  <2>a. ClosedWords(<<>>, {" "}) = {} /\ OpenWords(<<>>, {" "}) = {}
    BY WordsEmpty
  <2> DEFINE e == <<>>
  <2>1. e \in Seq(T) /\ ClosedWords(e, {" "}) = {} /\ OpenWords(e, {" "}) = {}
    <3>1. e \in Seq(T)
      OBVIOUS
    <3>2. ClosedWords(e, {" "}) = {} /\ OpenWords(e, {" "}) = {}
      BY <2>a, Zenon
    <3>3. QED
      BY <3>1, <3>2
  <2>2. MatchAll(name, start, e) = start
    BY <1>3, <2>1 DEF MatchInTurn
  <2> HIDE DEF e
  <2>3. MatchedSoFar(name, e, start)
    BY <1>s, <2>1 DEF MatchedSoFar
  <2>4. e \in A
    BY <2>1, <2>2, <2>3
  <2>5. QED
    BY <2>4 DEF e
<1>5. ASSUME NEW u \in Seq(T), NEW c \in T, u \in A
      PROVE  Append(u, c) \in A
  <2>2. u \in A
    BY <1>5
  <2>3. PICK x : x = MatchAll(name, start, u)
    OBVIOUS
  <2>4. x \in Matchers(name) /\ MatchAll(name, start, Append(u, c)) = MatchChar(name, x, c)
    BY <1>3, <2>3 DEF MatchInTurn
  <2>5. MatchedSoFar(name, Append(u, c), MatchChar(name, x, c))
    BY <2>2, <2>3, <2>4, MatchedMore
  <2>6. Append(u, c) \in Seq(T)
    BY AppendFacts
  <2>7. QED
    BY <2>4, <2>5, <2>6
<1>6. Seq(T) \subseteq A
  <2> HIDE DEF A
  <2>1. QED
    BY <1>4, <1>5, GrowingSeqs
<1>7. PICK x : x = MatchAll(name, start, s)
  OBVIOUS
<1>8. x \in Matchers(name) /\ MatchedSoFar(name, s, x)
  BY <1>3, <1>6, <1>7 DEF MatchInTurn
<1>9. Words(s, B) = ClosedWords(s, B) \cup OpenWords(s, B)
  BY WordsAre
<1> HIDE DEF A, B
<1>10. \A w \in OpenWords(s, B) : w \in Seq(T) /\ Len(w) \in Nat
  <2>1. \A w \in ClosedWords(s, B) \cup OpenWords(s, B) : w \in Seq(T) /\ w # <<>>
    BY WordsAreSeqs
  <2>2. QED
    BY <2>1
<1>11. x.found <=> \E w \in ClosedWords(s, B) : LowerWord(w) = name
  BY <1>8 DEF MatchedSoFar, B
<1>12. CASE x.found
  BY <1>c, <1>7, <1>9, <1>11, <1>12 DEF B
<1>13. CASE ~x.found
  <2>1. \A w \in OpenWords(s, B) : LowerWord(w) = name <=> x.matcher = Len(name) + 1 /\ ~x.mismatch
    <3>1. TAKE w \in OpenWords(s, B)
    <3>2. LowerWord(w) = name <=> BeginsName(w, name) /\ Len(w) = Len(name)
      BY <1>10, LowerWordIs
    <3>3. Len(w) + 1 = Len(name) + 1 <=> Len(w) = Len(name)
      BY <1>0, <1>10
    <3>4. (~x.mismatch <=> BeginsName(w, name)) /\ (~x.mismatch => x.matcher = Len(w) + 1)
      BY <1>8, <1>13 DEF MatchedSoFar, B
    <3>5. QED
      BY <3>2, <3>3, <3>4
  <2>2. OpenWords(s, B) = {} => ~(x.matcher = Len(name) + 1)
    BY <1>0, <1>8, <1>13 DEF MatchedSoFar, B
  <2>3. QED
    BY <1>c, <1>7, <1>9, <1>11, <1>13, <2>1, <2>2 DEF B
<1>14. QED
  BY <1>12, <1>13

-----------------------------------------------------------------------------
(* Clean text                                                              *)

\* h[I] is what collecting makes of base and of the elements with an index in I.
CollectFolds(h, base, s, I) ==
  h = [J \in SUBSET I |->
         IF J = {} THEN base ELSE CollectChar(h[J \ {Max(J)}], s[Max(J)])]

(* It is such a function for all indices, if there is one.                 *)
LEMMA CollectIs ==
  ASSUME NEW base, NEW s
  PROVE  Collect(base, s) = (CHOOSE h : CollectFolds(h, base, s, DOMAIN s))[DOMAIN s]
BY DEF Collect, FoldLeft, MapThenFoldSet, CollectFolds

\* It stays within X, as long as the elements are taken from T.
CollectWithin(X, T) == \A x \in X, y \in T : CollectChar(x, y) \in X

\* It takes the elements of s one by one.
CollectInTurn(base, s, X, T) ==
  /\ Collect(base, s) \in X
  /\ s = <<>> => Collect(base, s) = base
  /\ \A y \in T : Collect(base, Append(s, y)) = CollectChar(Collect(base, s), y)

(* It takes the elements one by one.                                       *)
LEMMA CollectSteps ==
  ASSUME NEW T, NEW X, NEW base \in X, NEW s \in Seq(T), CollectWithin(X, T)
  PROVE  CollectInTurn(base, s, X, T)
<1>0. \A x \in X, y \in T : CollectChar(x, y) \in X
  BY DEF CollectWithin
<1> DEFINE next == [p \in X \X T |-> CollectChar(p[1], p[2])]
<1>1. next \in [X \X T -> X] /\ \A x \in X, y \in T : next[x, y] = CollectChar(x, y)
  BY <1>0
<1> HIDE DEF next
<1>2. ASSUME NEW t \in Seq(T)
      PROVE  Collect(base, t) = Folded(next, base, t)
  <2> DEFINE h == CHOOSE f : CollectFolds(f, base, t, 1..Len(t))
             g == [n \in 0..Len(t) |-> h[1..n]]
  <2>0. Len(t) \in Nat /\ DOMAIN t = 1..Len(t)
    OBVIOUS
  <2>1. \E f : CollectFolds(f, base, t, 1..Len(t))
    <3>1. PICK f : /\ f \in [SUBSET (1..Len(t)) -> X]
                   /\ Folds(f, next, base, t, 1..Len(t))
      BY <1>1, FoldingExists
    <3>2. ASSUME NEW J \in SUBSET (1..Len(t)), J # {}
          PROVE  f[J] = CollectChar(f[J \ {Max(J)}], t[Max(J)])
      <4>1. Max(J) \in J /\ J \ {Max(J)} \in SUBSET (1..Len(t))
        BY <2>0, <3>2, GreatestIndex
      <4>2. f[J \ {Max(J)}] \in X
        BY <3>1, <4>1, Zenon
      <4>3. Max(J) \in 1..Len(t)
        BY <4>1
      <4>4. t[Max(J)] \in T
        BY <4>3
      <4>5. f[J] = next[f[J \ {Max(J)}], t[Max(J)]]
        BY <3>1, <3>2 DEF Folds
      <4>6. QED
        BY <1>1, <4>2, <4>4, <4>5
    <3>3. f[{}] = base /\ f = [J \in SUBSET (1..Len(t)) |-> f[J]]
      BY <3>1 DEF Folds
    <3>4. CollectFolds(f, base, t, 1..Len(t))
      BY <3>2, <3>3 DEF CollectFolds
    <3>5. QED
      BY <3>4
  <2>2. CollectFolds(h, base, t, 1..Len(t))
    BY <2>1
  <2>3. Collect(base, t) = h[1..Len(t)]
    BY <2>0, CollectIs
  <2> HIDE DEF h
  <2>4. \A J \in SUBSET (1..Len(t)) :
            h[J] = IF J = {} THEN base ELSE CollectChar(h[J \ {Max(J)}], t[Max(J)])
    BY <2>2 DEF CollectFolds
  <2>5. g[0] = base
    <3>1. 1..0 = {} /\ {} \in SUBSET (1..Len(t)) /\ g[0] = h[1..0]
      BY <2>0
    <3>2. h[{}] = base
      BY <2>4
    <3> HIDE DEF g
    <3>3. QED
      BY <3>1, <3>2
  <2>6. ASSUME NEW i \in 1..Len(t), g[i - 1] \in X
        PROVE  g[i] = next[g[i - 1], t[i]]
    <3>1. /\ 1..i \in SUBSET (1..Len(t)) /\ 1..i # {} /\ Max(1..i) = i
          /\ (1..i) \ {i} = 1..(i - 1)
      BY <2>0, IndicesUpTo
    <3>2. g[i] = h[1..i] /\ g[i - 1] = h[1..(i - 1)] /\ t[i] \in T
      BY <2>0
    <3> HIDE DEF g
    <3>3. g[i] = CollectChar(g[i - 1], t[i])
      BY <2>4, <3>1, <3>2
    <3>4. QED
      BY <1>1, <2>6, <3>2, <3>3
  <2>7. g[Len(t)] = h[1..Len(t)]
    BY <2>0
  <2> HIDE DEF g
  <2>8. Folding(g, next, base, t)
    BY <1>1, <2>5, <2>6, FoldingBy DEF FoldingIn
  <2>9. Folded(next, base, t) = g[Len(t)] /\ \A n \in 0..Len(t) : g[n] \in X
    BY <1>1, <2>8, FoldedIs
  <2>10. QED
    BY <2>3, <2>7, <2>9
<1>a. next \in [X \X T -> X] /\ s \in Seq(T) /\ base \in X
  BY <1>1
<1>3. FoldsInTurn(next, base, s, X, T)
  BY <1>a, FoldedFacts
<1>4. ASSUME NEW y \in T
      PROVE  Collect(base, Append(s, y)) = CollectChar(Collect(base, s), y)
  <2>1. Append(s, y) \in Seq(T)
    OBVIOUS
  <2>2. Collect(base, Append(s, y)) = Folded(next, base, Append(s, y))
    BY <1>2, <2>1
  <2>3. Folded(next, base, Append(s, y)) = CollectChar(Folded(next, base, s), y)
    BY <1>1, <1>3 DEF FoldsInTurn
  <2>4. QED
    BY <1>2, <2>2, <2>3
<1>5. QED
  BY <1>2, <1>3, <1>4 DEF FoldsInTurn, CollectInTurn
\* h[I] is what collecting makes of base and of the elements with an index in I.
TextsFolds(h, base, s, I) ==
  h = [J \in SUBSET I |->
         IF J = {} THEN base ELSE Collect(h[J \ {Max(J)}], s[Max(J)])]

(* It is such a function for all indices, if there is one.                 *)
LEMMA TextsIs ==
  ASSUME NEW base, NEW s
  PROVE  FoldLeft(Collect, base, s) = (CHOOSE h : TextsFolds(h, base, s, DOMAIN s))[DOMAIN s]
BY DEF FoldLeft, MapThenFoldSet, TextsFolds

\* It stays within X, as long as the elements are taken from T.
TextsWithin(X, T) == \A x \in X, y \in T : Collect(x, y) \in X

\* It takes the elements of s one by one.
TextsInTurn(base, s, X, T) ==
  /\ FoldLeft(Collect, base, s) \in X
  /\ s = <<>> => FoldLeft(Collect, base, s) = base
  /\ \A y \in T : FoldLeft(Collect, base, Append(s, y)) = Collect(FoldLeft(Collect, base, s), y)

(* It takes the elements one by one.                                       *)
LEMMA TextsSteps ==
  ASSUME NEW T, NEW X, NEW base \in X, NEW s \in Seq(T), TextsWithin(X, T)
  PROVE  TextsInTurn(base, s, X, T)
<1>0. \A x \in X, y \in T : Collect(x, y) \in X
  BY DEF TextsWithin
<1> DEFINE next == [p \in X \X T |-> Collect(p[1], p[2])]
<1>1. next \in [X \X T -> X] /\ \A x \in X, y \in T : next[x, y] = Collect(x, y)
  BY <1>0
<1> HIDE DEF next
<1>2. ASSUME NEW t \in Seq(T)
      PROVE  FoldLeft(Collect, base, t) = Folded(next, base, t)
  <2> DEFINE h == CHOOSE f : TextsFolds(f, base, t, 1..Len(t))
             g == [n \in 0..Len(t) |-> h[1..n]]
  <2>0. Len(t) \in Nat /\ DOMAIN t = 1..Len(t)
    OBVIOUS
  <2>1. \E f : TextsFolds(f, base, t, 1..Len(t))
    <3>1. PICK f : /\ f \in [SUBSET (1..Len(t)) -> X]
                   /\ Folds(f, next, base, t, 1..Len(t))
      BY <1>1, FoldingExists
    <3>2. ASSUME NEW J \in SUBSET (1..Len(t)), J # {}
          PROVE  f[J] = Collect(f[J \ {Max(J)}], t[Max(J)])
      <4>1. Max(J) \in J /\ J \ {Max(J)} \in SUBSET (1..Len(t))
        BY <2>0, <3>2, GreatestIndex
      <4>2. f[J \ {Max(J)}] \in X
        BY <3>1, <4>1, Zenon
      <4>3. Max(J) \in 1..Len(t)
        BY <4>1
      <4>4. t[Max(J)] \in T
        BY <4>3
      <4>5. f[J] = next[f[J \ {Max(J)}], t[Max(J)]]
        BY <3>1, <3>2 DEF Folds
      <4>6. QED
        BY <1>1, <4>2, <4>4, <4>5
    <3>3. f[{}] = base /\ f = [J \in SUBSET (1..Len(t)) |-> f[J]]
      BY <3>1 DEF Folds
    <3>4. TextsFolds(f, base, t, 1..Len(t))
      BY <3>2, <3>3 DEF TextsFolds
    <3>5. QED
      BY <3>4
  <2>2. TextsFolds(h, base, t, 1..Len(t))
    BY <2>1
  <2>3. FoldLeft(Collect, base, t) = h[1..Len(t)]
    BY <2>0, TextsIs
  <2> HIDE DEF h
  <2>4. \A J \in SUBSET (1..Len(t)) :
            h[J] = IF J = {} THEN base ELSE Collect(h[J \ {Max(J)}], t[Max(J)])
    BY <2>2 DEF TextsFolds
  <2>5. g[0] = base
    <3>1. 1..0 = {} /\ {} \in SUBSET (1..Len(t)) /\ g[0] = h[1..0]
      BY <2>0
    <3>2. h[{}] = base
      BY <2>4
    <3> HIDE DEF g
    <3>3. QED
      BY <3>1, <3>2
  <2>6. ASSUME NEW i \in 1..Len(t), g[i - 1] \in X
        PROVE  g[i] = next[g[i - 1], t[i]]
    <3>1. /\ 1..i \in SUBSET (1..Len(t)) /\ 1..i # {} /\ Max(1..i) = i
          /\ (1..i) \ {i} = 1..(i - 1)
      BY <2>0, IndicesUpTo
    <3>2. g[i] = h[1..i] /\ g[i - 1] = h[1..(i - 1)] /\ t[i] \in T
      BY <2>0
    <3> HIDE DEF g
    <3>3. g[i] = Collect(g[i - 1], t[i])
      BY <2>4, <3>1, <3>2
    <3>4. QED
      BY <1>1, <2>6, <3>2, <3>3
  <2>7. g[Len(t)] = h[1..Len(t)]
    BY <2>0
  <2> HIDE DEF g
  <2>8. Folding(g, next, base, t)
    BY <1>1, <2>5, <2>6, FoldingBy DEF FoldingIn
  <2>9. Folded(next, base, t) = g[Len(t)] /\ \A n \in 0..Len(t) : g[n] \in X
    BY <1>1, <2>8, FoldedIs
  <2>10. QED
    BY <2>3, <2>7, <2>9
<1>a. next \in [X \X T -> X] /\ s \in Seq(T) /\ base \in X
  BY <1>1
<1>3. FoldsInTurn(next, base, s, X, T)
  BY <1>a, FoldedFacts
<1>4. ASSUME NEW y \in T
      PROVE  FoldLeft(Collect, base, Append(s, y)) = Collect(FoldLeft(Collect, base, s), y)
  <2>1. Append(s, y) \in Seq(T)
    OBVIOUS
  <2>2. FoldLeft(Collect, base, Append(s, y)) = Folded(next, base, Append(s, y))
    BY <1>2, <2>1
  <2>3. Folded(next, base, Append(s, y)) = Collect(Folded(next, base, s), y)
    BY <1>1, <1>3 DEF FoldsInTurn
  <2>4. QED
    BY <1>2, <2>2, <2>3
<1>5. QED
  BY <1>2, <1>3, <1>4 DEF FoldsInTurn, TextsInTurn

\* Text may have spaces in it.
HasSpace(T) == " " \in T
IsSpace(c) == c = " "

\* What is collected of s: its letters and words, and single spaces between them.
CollectedOf(s, r, T) ==
  /\ r \in Seq(T)
  /\ Kept(r, T \ Blanks) = Kept(s, T \ Blanks)
  /\ Range(r) \cap Tabs = {}
  /\ \A i \in 1..Len(r) : IsSpace(r[i]) => i # 1 /\ ~IsSpace(r[i - 1])
  /\ ClosedWords(r, {" "}) = ClosedWords(s, Blanks)
  /\ OpenWords(r, {" "}) = OpenWords(s, Blanks)

(* No word ends with what separates words.                                 *)
LEMMA NoOpenWord ==
  ASSUME NEW T, NEW s \in Seq(T), NEW B, s # <<>>, s[Len(s)] \in B
  PROVE  OpenWords(s, B) = {}
<1>1. ASSUME NEW w \in Runs(s, B), w[2] = Len(s)
      PROVE  FALSE
  <2>1. w[2] \in w[1]..w[2] /\ \A k \in w[1]..w[2] : s[k] \notin B
    BY DEF Runs
  <2>2. QED
    BY <1>1, <2>1
<1>2. QED
  BY <1>1 DEF OpenWords

(* Nothing is collected of nothing.                                        *)
LEMMA CollectedOfNothing ==
  ASSUME NEW T
  PROVE  CollectedOf(<<>>, <<>>, T)
<1>1. /\ ClosedWords(<<>>, {" "}) = {} /\ OpenWords(<<>>, {" "}) = {}
      /\ ClosedWords(<<>>, Blanks) = {} /\ OpenWords(<<>>, Blanks) = {}
  BY WordsEmpty
<1> DEFINE e == <<>>
<1>2. e \in Seq(T) /\ Len(e) = 0 /\ Range(e) = {}
  <2>1. e \in Seq(T) /\ Len(e) = 0
    OBVIOUS
  <2> HIDE DEF e
  <2>2. \A x : x \in Range(e) <=> \E i \in 1..Len(e) : x = e[i]
    BY <2>1, RangeIs
  <2>3. QED
    BY <2>1, <2>2
<1>3. /\ ClosedWords(e, {" "}) = ClosedWords(e, Blanks)
      /\ OpenWords(e, {" "}) = OpenWords(e, Blanks)
  BY <1>1
<1> HIDE DEF e
<1>4. CollectedOf(e, e, T)
  <2>1. \A i \in 1..Len(e) : FALSE
    BY <1>2
  <2>2. Range(e) \cap Tabs = {}
    BY <1>2
  <2>3. QED
    BY <1>2, <1>3, <2>1, <2>2 DEF CollectedOf
<1>5. QED
  BY <1>4 DEF e

(* One character more.                                                     *)
LEMMA CollectedMore ==
  ASSUME NEW T, HasSpace(T), NEW s \in Seq(T), NEW r, CollectedOf(s, r, T), NEW c \in T
  PROVE  CollectedOf(Append(s, c), CollectChar(r, c), T)
<1> DEFINE L == T \ Blanks
           S == {" "}
<1>1. /\ r \in Seq(T) /\ Kept(r, L) = Kept(s, L) /\ Range(r) \cap Tabs = {}
      /\ \A i \in 1..Len(r) : IsSpace(r[i]) => i # 1 /\ ~IsSpace(r[i - 1])
      /\ ClosedWords(r, S) = ClosedWords(s, Blanks)
      /\ OpenWords(r, S) = OpenWords(s, Blanks)
  BY DEF CollectedOf
<1>2. S \subseteq Blanks /\ Tabs \subseteq Blanks /\ " " \in Blanks /\ " " \notin Tabs
  BY DEF Blanks, Tabs
<1>3. PICK t : t = Append(s, c)
  OBVIOUS
<1>4. t \in Seq(T) /\ Kept(t, L) = IF c \in L THEN Append(Kept(s, L), c) ELSE Kept(s, L)
  BY <1>3, AppendFacts, KeptAppend
<1>5. WordsMore(s, c, Blanks)
  BY WordsAppend
<1>6. ASSUME NEW x \in T, NEW u, u = Append(r, x), x \notin Tabs,
             IsSpace(x) => r # <<>> /\ ~IsSpace(r[Len(r)])
      PROVE  /\ u \in Seq(T) /\ Range(u) \cap Tabs = {}
             /\ Kept(u, L) = IF x \in L THEN Append(Kept(r, L), x) ELSE Kept(r, L)
             /\ \A i \in 1..Len(u) : IsSpace(u[i]) => i # 1 /\ ~IsSpace(u[i - 1])
             /\ WordsMore(r, x, S)
  <2> HIDE DEF L, S
  <2>a. r \in Seq(T)
    BY <1>1
  <2>b. u = Append(r, x)
    BY <1>6
  <2>1. /\ u \in Seq(T) /\ Len(r) \in Nat /\ Len(u) = Len(r) + 1 /\ u[Len(r) + 1] = x
        /\ \A i \in 1..Len(r) : u[i] = r[i]
    BY <2>a, <2>b, AppendFacts
  <2>2. Range(u) = Range(r) \cup {x}
    BY <1>1, <1>6, RangeAppend
  <2>3. Kept(u, L) = IF x \in L THEN Append(Kept(r, L), x) ELSE Kept(r, L)
    BY <2>a, <2>b, KeptAppend
  <2>4. WordsMore(r, x, S)
    BY <1>1, WordsAppend
  <2>5. ASSUME NEW i \in 1..Len(u), IsSpace(u[i])
        PROVE  i # 1 /\ ~IsSpace(u[i - 1])
    <3>1. CASE i \in 1..Len(r)
      <4>1. i # 1 /\ ~IsSpace(r[i - 1])
        BY <1>1, <2>1, <2>5, <3>1
      <4>2. i - 1 \in 1..Len(r)
        BY <2>1, <3>1, <4>1
      <4>3. QED
        BY <2>1, <4>1, <4>2
    <3>2. CASE i = Len(r) + 1
      <4>1. r # <<>> /\ ~IsSpace(r[Len(r)])
        BY <1>6, <2>1, <2>5, <3>2
      <4>2. Len(r) # 0
        BY <1>1, <4>1, EmptySeq
      <4>3. Len(r) \in 1..Len(r) /\ i # 1 /\ i - 1 = Len(r)
        BY <2>1, <3>2, <4>2
      <4>4. QED
        BY <2>1, <4>1, <4>3
    <3>3. QED
      BY <2>1, <3>1, <3>2
  <2>6. QED
    BY <1>1, <1>6, <2>1, <2>2, <2>3, <2>4, <2>5
<1> HIDE DEF L, S
<1>7. CASE c \notin Blanks
  <2>1. PICK u : u = Append(r, c)
    OBVIOUS
  <2>2. c \notin Tabs /\ ~IsSpace(c) /\ c \in L /\ c \notin S
    BY <1>2, <1>7 DEF L, S, IsSpace
  <2>3. /\ u \in Seq(T) /\ Range(u) \cap Tabs = {} /\ Kept(u, L) = Append(Kept(r, L), c)
        /\ \A i \in 1..Len(u) : IsSpace(u[i]) => i # 1 /\ ~IsSpace(u[i - 1])
        /\ WordsMore(r, c, S)
    BY <1>6, <2>1, <2>2
  <2>4. ClosedWords(u, S) = ClosedWords(t, Blanks) /\ OpenWords(u, S) = OpenWords(t, Blanks)
    <3>1. /\ ClosedWords(u, S) = ClosedWords(r, S)
          /\ OpenWords(u, S) = IF OpenWords(r, S) = {} THEN {Append(<<>>, c)}
                               ELSE {Append(w, c) : w \in OpenWords(r, S)}
      BY <2>1, <2>2, <2>3 DEF WordsMore
    <3>2. /\ ClosedWords(t, Blanks) = ClosedWords(s, Blanks)
          /\ OpenWords(t, Blanks) = IF OpenWords(s, Blanks) = {} THEN {Append(<<>>, c)}
                                    ELSE {Append(w, c) : w \in OpenWords(s, Blanks)}
      BY <1>3, <1>5, <1>7 DEF WordsMore
    <3>3. QED
      BY <1>1, <3>1, <3>2, Zenon
  <2>5. Kept(u, L) = Kept(t, L)
    BY <1>1, <1>4, <2>2, <2>3
  <2>6. CollectedOf(t, u, T)
    BY <2>3, <2>4, <2>5 DEF CollectedOf, L, S
  <2>7. CollectChar(r, c) = u
    BY <1>7, <2>1 DEF CollectChar
  <2>8. QED
    BY <1>3, <2>6, <2>7
<1>8. CASE c \in Blanks
  <2>1. /\ ClosedWords(t, Blanks) = ClosedWords(s, Blanks) \cup OpenWords(s, Blanks)
        /\ OpenWords(t, Blanks) = {}
    BY <1>3, <1>5, <1>8 DEF WordsMore
  <2>2. c \notin L /\ " " \notin L
    BY <1>2, <1>8 DEF L
  <2>3. CASE r # <<>> /\ ~IsSpace(r[Len(r)])
    <3>1. PICK u : u = Append(r, " ")
      OBVIOUS
    <3>a. " " \in T /\ IsSpace(" ")
      BY DEF HasSpace, IsSpace
    <3>2. /\ u \in Seq(T) /\ Range(u) \cap Tabs = {} /\ Kept(u, L) = Kept(r, L)
          /\ \A i \in 1..Len(u) : IsSpace(u[i]) => i # 1 /\ ~IsSpace(u[i - 1])
          /\ WordsMore(r, " ", S)
      BY <1>2, <1>6, <2>2, <2>3, <3>1, <3>a
    <3>3. ClosedWords(u, S) = ClosedWords(r, S) \cup OpenWords(r, S) /\ OpenWords(u, S) = {}
      BY <3>1, <3>2 DEF WordsMore, S
    <3>4. CollectedOf(t, u, T)
      BY <1>1, <1>4, <2>1, <2>2, <3>2, <3>3 DEF CollectedOf, L, S
    <3>5. CollectChar(r, c) = u
      BY <1>8, <2>3, <3>1 DEF CollectChar, Last, IsSpace
    <3>6. QED
      BY <1>3, <3>4, <3>5
  <2>4. CASE ~(r # <<>> /\ ~IsSpace(r[Len(r)]))
    <3>1. OpenWords(r, S) = {}
      <4>1. CASE r = <<>>
        BY <4>1, WordsEmpty
      <4>2. CASE r # <<>>
        <5>1. r[Len(r)] \in S
          BY <2>4, <4>2 DEF S, IsSpace
        <5>2. QED
          BY <1>1, <4>2, <5>1, NoOpenWord
      <4>3. QED
        BY <4>1, <4>2
    <3>2. ClosedWords(r, S) = ClosedWords(t, Blanks) /\ OpenWords(r, S) = OpenWords(t, Blanks)
      BY <1>1, <2>1, <3>1
    <3>3. CollectedOf(t, r, T)
      BY <1>1, <1>4, <2>2, <3>2 DEF CollectedOf, L, S
    <3>4. CollectChar(r, c) = r
      BY <1>8, <2>4 DEF CollectChar, Last, IsSpace
    <3>5. QED
      BY <1>3, <3>3, <3>4
  <2>5. QED
    BY <2>3, <2>4
<1>9. QED
  BY <1>7, <1>8

(* One text more.                                                          *)
LEMMA CollectedText ==
  ASSUME NEW T, HasSpace(T), NEW s \in Seq(T), NEW r, CollectedOf(s, r, T), NEW t \in Seq(T)
  PROVE  CollectedOf(s \o t, Collect(r, t), T)
<1> DEFINE A == {u \in Seq(T) : CollectedOf(s \o u, Collect(r, u), T)}
<1>1. r \in Seq(T)
  BY DEF CollectedOf
<1>2. CollectWithin(Seq(T), T)
  <2>1. ASSUME NEW x \in Seq(T), NEW c \in T PROVE CollectChar(x, c) \in Seq(T)
    <3>1. Append(x, c) \in Seq(T) /\ Append(x, " ") \in Seq(T)
      BY AppendFacts DEF HasSpace
    <3>2. QED
      BY <3>1 DEF CollectChar
  <2>2. QED
    BY <2>1 DEF CollectWithin
<1>3. \A u \in Seq(T) : CollectInTurn(r, u, Seq(T), T)
  BY <1>1, <1>2, CollectSteps
<1>4. <<>> \in A
  <2>1. s \o <<>> = s /\ <<>> \in Seq(T)
    BY ConcatEmptySeq
  <2>2. Collect(r, <<>>) = r
    BY <1>3, <2>1 DEF CollectInTurn
  <2>3. QED
    BY <2>1, <2>2
<1>5. ASSUME NEW u \in Seq(T), NEW c \in T, u \in A
      PROVE  Append(u, c) \in A
  <2>1. Append(u, c) \in Seq(T) /\ s \o Append(u, c) = Append(s \o u, c) /\ s \o u \in Seq(T)
    BY AppendFacts, AppendOfConcat, ConcatFacts
  <2>2. Collect(r, Append(u, c)) = CollectChar(Collect(r, u), c)
    BY <1>3 DEF CollectInTurn
  <2>3. CollectedOf(s \o u, Collect(r, u), T)
    BY <1>5
  <2>4. CollectedOf(Append(s \o u, c), CollectChar(Collect(r, u), c), T)
    BY <2>1, <2>3, CollectedMore
  <2>5. QED
    BY <2>1, <2>2, <2>4
<1>6. Seq(T) \subseteq A
  <2> HIDE DEF A
  <2>1. QED
    BY <1>4, <1>5, GrowingSeqs
<1>7. QED
  BY <1>6

(* All texts of an element.                                                *)
LEMMA CollectedAll ==
  ASSUME NEW T, HasSpace(T), NEW ss \in Seq(Seq(T))
  PROVE  CollectedOf(FlattenSeq(ss), FoldLeft(Collect, <<>>, ss), T)
<1> DEFINE e == <<>>
           A == {us \in Seq(Seq(T)) : CollectedOf(FlattenSeq(us), FoldLeft(Collect, e, us), T)}
<1>0. e \in Seq(T) /\ e \in Seq(Seq(T))
  OBVIOUS
<1>a. CollectedOf(e, e, T)
  BY CollectedOfNothing
<1> HIDE DEF e
<1>1. TextsWithin(Seq(T), Seq(T))
  <2>1. ASSUME NEW x \in Seq(T), NEW c \in T PROVE CollectChar(x, c) \in Seq(T)
    <3>1. Append(x, c) \in Seq(T) /\ Append(x, " ") \in Seq(T)
      BY AppendFacts DEF HasSpace
    <3>2. QED
      BY <3>1 DEF CollectChar
  <2>2. CollectWithin(Seq(T), T)
    BY <2>1 DEF CollectWithin
  <2>3. \A x \in Seq(T), t \in Seq(T) : CollectInTurn(x, t, Seq(T), T)
    BY <2>2, CollectSteps
  <2>4. QED
    BY <2>3 DEF TextsWithin, CollectInTurn
<1>2. \A us \in Seq(Seq(T)) : TextsInTurn(e, us, Seq(T), Seq(T))
  <2>1. PICK X : X = Seq(T)
    OBVIOUS
  <2>2. TextsWithin(X, X) /\ e \in X
    BY <1>0, <1>1, <2>1
  <2>3. \A us \in Seq(X) : TextsInTurn(e, us, X, X)
    BY <2>2, TextsSteps
  <2>4. QED
    BY <2>1, <2>3
<1>3. \A us \in Seq(Seq(T)) : FlattensInTurn(us, T)
  BY FlattenSteps
<1>4. e \in A
  <2>1. FlattenSeq(e) = e /\ FoldLeft(Collect, e, e) = e
    BY <1>0, <1>2, <1>3 DEF FlattensInTurn, TextsInTurn, e
  <2>2. QED
    BY <1>0, <1>a, <2>1
<1>5. ASSUME NEW us \in Seq(Seq(T)), NEW t \in Seq(T), us \in A
      PROVE  Append(us, t) \in A
  <2>1. Append(us, t) \in Seq(Seq(T))
    BY AppendFacts
  <2>2. FlattenSeq(us) \in Seq(T) /\ FlattenSeq(Append(us, t)) = FlattenSeq(us) \o t
    BY <1>3 DEF FlattensInTurn
  <2>3. FoldLeft(Collect, e, Append(us, t)) = Collect(FoldLeft(Collect, e, us), t)
    BY <1>2 DEF TextsInTurn
  <2>4. CollectedOf(FlattenSeq(us), FoldLeft(Collect, e, us), T)
    BY <1>5
  <2>5. CollectedOf(FlattenSeq(us) \o t, Collect(FoldLeft(Collect, e, us), t), T)
    BY <2>2, <2>4, CollectedText
  <2>6. QED
    BY <2>1, <2>2, <2>3, <2>5
<1>6. Seq(Seq(T)) \subseteq A
  <2> HIDE DEF A
  <2>1. PICK X : X = Seq(T)
    OBVIOUS
  <2>2. \A us \in Seq(X) : \A t \in X : us \in A => Append(us, t) \in A
    BY <1>5, <2>1
  <2>3. <<>> \in A
    BY <1>4 DEF e
  <2>4. Seq(X) \subseteq A
    BY <2>2, <2>3, GrowingSeqs
  <2>5. QED
    BY <2>1, <2>4
<1>7. QED
  BY <1>6 DEF e

\* The clean text of s: its letters and its words, with single spaces between them.
CleanOf(clean, s, T) ==
  /\ clean \in Seq(T)
  /\ Kept(clean, T \ Blanks) = Kept(s, T \ Blanks)
  /\ Words(clean, {" "}) = Words(s, Blanks)
  /\ Range(clean) \cap Tabs = {}
  /\ \A i \in 1..Len(clean) : IsSpace(clean[i]) => i \notin {1, Len(clean)} /\ ~IsSpace(clean[i + 1])

(* So is what getCleanText() returns, which takes a space at the end away. *)
LEMMA CleanIs ==
  ASSUME NEW T, HasSpace(T), NEW ss \in Seq(Seq(T))
  PROVE  CleanOf(GetCleanText(ss), FlattenSeq(ss), T)
<1>s. PICK sp : sp = " "
  OBVIOUS
<1>t. sp \in T
  BY <1>s DEF HasSpace
<1>1. PICK s : s = FlattenSeq(ss)
  OBVIOUS
<1>2. PICK r : r = FoldLeft(Collect, <<>>, ss)
  OBVIOUS
<1> DEFINE L == T \ Blanks
           S == {" "}
<1>3. CollectedOf(s, r, T)
  BY <1>1, <1>2, CollectedAll
<1>4. /\ r \in Seq(T) /\ Kept(r, L) = Kept(s, L) /\ Range(r) \cap Tabs = {}
      /\ \A i \in 1..Len(r) : IsSpace(r[i]) => i # 1 /\ ~IsSpace(r[i - 1])
      /\ ClosedWords(r, S) = ClosedWords(s, Blanks)
      /\ OpenWords(r, S) = OpenWords(s, Blanks)
  BY <1>3 DEF CollectedOf
<1>5. s \in Seq(T)
  BY <1>1, FlattenSteps DEF FlattensInTurn
<1>6. GetCleanText(ss) = IF r # <<>> /\ IsSpace(r[Len(r)]) THEN SubSeq(r, 1, Len(r) - 1) ELSE r
  BY <1>2 DEF GetCleanText, Last, Front, IsSpace
<1>a. sp \notin L
  BY <1>s DEF L, Blanks
<1>b. sp \in S
  BY <1>s DEF S
<1> HIDE DEF L, S
<1>7. Words(s, Blanks) = ClosedWords(s, Blanks) \cup OpenWords(s, Blanks)
  BY <1>5, WordsAre
<1>8. Words(r, S) = Words(s, Blanks)
  BY <1>4, <1>7, WordsAre
<1>9. CASE r # <<>> /\ IsSpace(r[Len(r)])
  <2>1. PICK n : n = Len(r)
    OBVIOUS
  <2>2. n \in Nat \ {0}
    BY <1>4, <1>9, <2>1, EmptySeq
  <2>3. PICK c : c = SubSeq(r, 1, n - 1)
    OBVIOUS
  <2>4. c \in Seq(T) /\ Len(c) = n - 1 /\ \A i \in 1..(n - 1) : c[i] = r[i]
    BY <1>4, <2>1, <2>2, <2>3
  <2>5. r = Append(c, sp)
    <3>1. n \in 1..n
      BY <2>2
    <3>2. SubSeq(r, 1, n) = Append(SubSeq(r, 1, n - 1), r[n])
      BY <1>4, <2>1, <3>1, SubSeqAppended
    <3>3. SubSeq(r, 1, n) = r
      <4>1. PICK q : q = SubSeq(r, 1, n)
        OBVIOUS
      <4>2. q \in Seq(T) /\ Len(q) = n /\ \A i \in 1..n : q[i] = r[i]
        BY <1>4, <2>1, <2>2, <4>1
      <4>3. q = r
        BY <1>4, <2>1, <4>2, SeqEqual
      <4>4. QED
        BY <4>1, <4>3
    <3>4. QED
      BY <1>9, <1>s, <2>1, <2>3, <3>2, <3>3 DEF IsSpace
  <2>6. WordsMore(c, sp, S)
    BY <2>4, <1>t, WordsAppend
  <2>7. Words(c, S) = Words(r, S)
    <3>1. ClosedWords(r, S) = ClosedWords(c, S) \cup OpenWords(c, S) /\ OpenWords(r, S) = {}
      BY <1>b, <2>5, <2>6 DEF WordsMore
    <3>2. Words(c, S) = ClosedWords(c, S) \cup OpenWords(c, S)
      BY <2>4, WordsAre
    <3>3. Words(r, S) = ClosedWords(r, S) \cup OpenWords(r, S)
      BY <1>4, WordsAre
    <3>4. QED
      BY <3>1, <3>2, <3>3
  <2>8. Kept(c, L) = Kept(r, L)
    BY <1>a, <2>4, <2>5, <1>t, KeptAppend
  <2>9. Range(c) \subseteq Range(r)
    BY <2>4, <2>5, <1>t, RangeAppend
  <2>10. ASSUME NEW i \in 1..Len(c), IsSpace(c[i])
         PROVE  i \notin {1, Len(c)} /\ ~IsSpace(c[i + 1])
    <3>1. i \in 1..Len(r) /\ IsSpace(r[i])
      BY <2>1, <2>2, <2>4, <2>10
    <3>2. i # 1
      BY <1>4, <3>1
    <3>3. i # n - 1
      <4>1. SUFFICES ASSUME i = n - 1 PROVE FALSE
        OBVIOUS
      <4>2. n \in 1..Len(r)
        BY <2>1, <2>2
      <4>3. ~IsSpace(r[n - 1])
        BY <1>4, <1>9, <2>1, <4>2
      <4>4. QED
        BY <3>1, <4>1, <4>3
    <3>4. i + 1 \in 1..(n - 1) /\ i + 1 \in 1..Len(r) /\ (i + 1) - 1 = i
      BY <2>1, <2>2, <2>4, <3>3
    <3>5. ~IsSpace(r[i + 1])
      BY <1>4, <3>1, <3>4
    <3>6. QED
      BY <2>4, <3>2, <3>3, <3>4, <3>5
  <2>11. CleanOf(c, s, T)
    BY <1>4, <1>8, <2>4, <2>7, <2>8, <2>9, <2>10 DEF CleanOf, L, S
  <2>12. QED
    BY <1>1, <1>6, <1>9, <2>1, <2>3, <2>11
<1>10. CASE ~(r # <<>> /\ IsSpace(r[Len(r)]))
  <2>1. ASSUME NEW i \in 1..Len(r), IsSpace(r[i])
        PROVE  i \notin {1, Len(r)} /\ ~IsSpace(r[i + 1])
    <3>1. i # 1
      BY <1>4, <2>1
    <3>2. r # <<>>
      BY <2>1
    <3>3. i # Len(r)
      BY <1>10, <2>1, <3>2
    <3>4. i + 1 \in 1..Len(r) /\ (i + 1) - 1 = i
      BY <1>4, <3>3
    <3>5. QED
      BY <1>4, <2>1, <3>1, <3>3, <3>4
  <2>2. CleanOf(r, s, T)
    BY <1>4, <1>8, <2>1 DEF CleanOf, L, S
  <2>3. QED
    BY <1>1, <1>6, <1>10, <2>2
<1>11. QED
  BY <1>9, <1>10

-----------------------------------------------------------------------------
(* Parsing: documents and items                                            *)

\* The keys of the paths.
PathKeys == UNION {Range(p) : p \in Paths}

\* What is a value has been put there; what leads to it is an object, and there is nothing
\* else.
DocumentKept ==
  /\ put \subseteq Paths
  /\ document = [q \in DOMAIN document |-> document[q]]
  /\ DOMAIN document \subseteq Seq(PathKeys)
  /\ \A q \in Seq(PathKeys) :
         q \in DOMAIN document <=> q = <<>> \/ \E p \in put : IsPrefix(q, p)
  /\ \A q \in DOMAIN document : document[q] = "value" <=> q \in put

(* What the assumption says of the paths.                                  *)
LEMMA PathsAre ==
  ASSUME ParsingAssumption
  PROVE  /\ Paths \subseteq Seq(PathKeys) /\ <<>> \notin Paths /\ PrefixOrder(PathKeys)
         /\ \A p \in Seq(PathKeys) : Prefixes(p) = {q \in Seq(PathKeys) : IsPrefix(q, p)}
         /\ \A p \in Paths, q \in Seq(PathKeys) : IsPrefix(q, p) => q = <<>> \/ q \in Paths
<1>1. Paths \subseteq Seq(PathKeys) /\ <<>> \notin Paths
  BY DEF ParsingAssumption, PathKeys
<1>2. \A p \in Seq(PathKeys) : Prefixes(p) = {q \in Seq(PathKeys) : IsPrefix(q, p)}
  BY PrefixesAre
<1>3. \A p \in Paths : Prefixes(p) \subseteq Paths \cup {<<>>}
  BY DEF ParsingAssumption
<1>4. QED
  BY <1>1, <1>2, <1>3, PrefixOrdered

(* A new item is where the paths lead to it, and takes the place of what   *)
(* was below it.                                                           *)
LEMMA ItemIsCreated ==
  ASSUME ParsingAssumption, DocumentKept, NEW p \in Paths, CreateItem(p)
  PROVE  DocumentKept'
<1> DEFINE D == DOMAIN document
           K == PathKeys
           kept == D \ Below(p, document)
<1>1. /\ Paths \subseteq Seq(K) /\ <<>> \notin Paths /\ PrefixOrder(K)
      /\ \A q \in Seq(K) : Prefixes(q) = {r \in Seq(K) : IsPrefix(r, q)}
  BY PathsAre
<1>2. /\ put \subseteq Paths /\ D \subseteq Seq(K)
      /\ \A q \in Seq(K) : q \in D <=> q = <<>> \/ \E r \in put : IsPrefix(q, r)
      /\ \A q \in D : document[q] = "value" <=> q \in put
  BY DEF DocumentKept
<1>3. /\ document' = [q \in kept \cup Prefixes(p) |->
                        IF q = p THEN "value" ELSE IF q \in kept THEN document[q] ELSE "object"]
      /\ put' = {q \in put : ~IsPrefix(p, q)} \cup {p}
  BY DEF CreateItem
<1>4. \A q : q \in kept <=> q \in D /\ ~IsPrefix(p, q)
  BY DEF Below
<1>5. \A q : q \in Prefixes(p) <=> q \in Seq(K) /\ IsPrefix(q, p)
  BY <1>1
<1> DEFINE new == kept \cup Prefixes(p)
<1>6. DOMAIN document' = new
  BY <1>3
<1> HIDE DEF kept, K
<1>7. new \subseteq Seq(K)
  BY <1>2, <1>4, <1>5
<1>8. put' \subseteq Paths
  BY <1>2, <1>3
<1>9. p \in Seq(K) /\ p # <<>>
  BY <1>1
<1>10. ASSUME NEW q \in Seq(K)
       PROVE  q \in new <=> q = <<>> \/ \E r \in put' : IsPrefix(q, r)
  <2>1. ASSUME q \in new
        PROVE  q = <<>> \/ \E r \in put' : IsPrefix(q, r)
    <3>1. CASE IsPrefix(q, p)
      BY <1>3, <3>1
    <3>2. CASE ~IsPrefix(q, p) /\ q # <<>>
      <4>1. q \in D /\ ~IsPrefix(p, q)
        BY <2>1, <3>2, <1>4, <1>5
      <4>2. PICK r \in put : IsPrefix(q, r)
        BY <1>2, <3>2, <4>1
      <4>3. r \in Seq(K)
        BY <1>1, <1>2
      <4>4. ~IsPrefix(p, r)
        BY <1>1, <1>9, <3>2, <4>1, <4>2, <4>3 DEF PrefixOrder
      <4>5. QED
        BY <1>3, <4>2, <4>4
    <3>3. QED
      BY <3>1, <3>2
  <2>2. ASSUME q = <<>>
        PROVE  q \in new
    <3>1. IsPrefix(q, p)
      BY <1>1, <1>9, <2>2 DEF PrefixOrder
    <3>2. QED
      BY <1>5, <3>1
  <2>3. ASSUME NEW r \in put', IsPrefix(q, r)
        PROVE  q \in new
    <3>1. CASE r = p
      BY <1>5, <2>3, <3>1
    <3>2. CASE r # p
      <4>1. r \in put /\ ~IsPrefix(p, r) /\ r \in Seq(K)
        BY <1>1, <1>2, <1>3, <3>2
      <4>2. ~IsPrefix(p, q)
        BY <1>1, <1>9, <2>3, <4>1 DEF PrefixOrder
      <4>3. q \in D
        BY <1>2, <2>3, <4>1
      <4>4. QED
        BY <1>4, <4>2, <4>3
    <3>3. QED
      BY <3>1, <3>2
  <2>4. QED
    BY <2>1, <2>2, <2>3
<1>11. ASSUME NEW q \in new
       PROVE  document'[q] = "value" <=> q \in put'
  <2>1. document'[q] = IF q = p THEN "value" ELSE IF q \in kept THEN document[q] ELSE "object"
    BY <1>3
  <2>2. CASE q = p
    BY <1>3, <2>1, <2>2
  <2>3. CASE q # p /\ q \in kept
    BY <1>2, <1>3, <1>4, <2>1, <2>3
  <2>4. CASE q # p /\ q \notin kept
    <3>1. document'[q] = "object"
      BY <2>1, <2>4
    <3>2. ASSUME q \in put'
          PROVE  FALSE
      <4>1. q \in put /\ ~IsPrefix(p, q) /\ q \in Seq(K)
        BY <1>1, <1>2, <1>3, <2>4, <3>2
      <4>2. IsPrefix(q, q)
        BY <1>1, <4>1 DEF PrefixOrder
      <4>3. q \in D
        BY <1>2, <4>1, <4>2
      <4>4. QED
        BY <1>4, <2>4, <4>1, <4>3
    <3>3. QED
      BY <3>1, <3>2
  <2>5. QED
    BY <2>2, <2>3, <2>4
<1>12. document' = [q \in DOMAIN document' |-> document'[q]]
  BY <1>3
<1> HIDE DEF new
<1>13. QED
  BY <1>6, <1>7, <1>8, <1>10, <1>11, <1>12 DEF DocumentKept, K

(* With an item go the objects that lead to nothing else.                  *)
LEMMA ItemIsErased ==
  ASSUME ParsingAssumption, DocumentKept, NEW p \in Paths, EraseItem(p)
  PROVE  DocumentKept'
<1> DEFINE D == DOMAIN document
           K == PathKeys
           rest == D \ Below(p, document)
           way == {q \in Above(p) \ {<<>>} : q \in rest
                       /\ \A r \in rest : IsPrefix(q, r) => r \in Above(p)}
<1>1. /\ Paths \subseteq Seq(K) /\ <<>> \notin Paths /\ PrefixOrder(K)
      /\ \A q \in Seq(K) : Prefixes(q) = {r \in Seq(K) : IsPrefix(r, q)}
  BY PathsAre
<1>2. /\ put \subseteq Paths /\ D \subseteq Seq(K)
      /\ \A q \in Seq(K) : q \in D <=> q = <<>> \/ \E r \in put : IsPrefix(q, r)
      /\ \A q \in D : document[q] = "value" <=> q \in put
  BY DEF DocumentKept
<1>3. /\ document' = [q \in rest \ way |-> document[q]]
      /\ put' = {q \in put : ~IsPrefix(p, q)}
      /\ \A q \in Above(p) \cap D : document[q] # "value"
  BY DEF EraseItem, Throws
<1>4. \A q : q \in rest <=> q \in D /\ ~IsPrefix(p, q)
  BY DEF Below
<1>5. \A q : q \in Above(p) <=> q \in Seq(K) /\ IsPrefix(q, p) /\ q # p
  BY <1>1 DEF Above
<1>6. \A q : q \in way <=> /\ q \in Above(p) /\ q # <<>> /\ q \in rest
                           /\ \A r \in rest : IsPrefix(q, r) => r \in Above(p)
  OBVIOUS
<1> DEFINE new == rest \ way
<1>7. DOMAIN document' = new
  BY <1>3
<1> HIDE DEF rest, way, K
<1>8. new \subseteq Seq(K) /\ put' \subseteq Paths
  BY <1>2, <1>3, <1>4
<1>9. p \in Seq(K) /\ p # <<>>
  BY <1>1
<1>10. ASSUME NEW q \in put'
       PROVE  q \in put /\ q \in rest /\ q \in Seq(K) /\ q \notin Above(p)
  <2>1. q \in put /\ ~IsPrefix(p, q) /\ q \in Seq(K)
    BY <1>1, <1>2, <1>3
  <2>2. IsPrefix(q, q)
    BY <1>1, <2>1 DEF PrefixOrder
  <2>3. q \in D
    BY <1>2, <2>1, <2>2
  <2>4. q \notin Above(p)
    BY <1>2, <1>3, <2>1, <2>3
  <2>5. QED
    BY <1>4, <2>1, <2>3, <2>4
<1>11. ASSUME NEW q \in Seq(K)
       PROVE  q \in new <=> q = <<>> \/ \E r \in put' : IsPrefix(q, r)
  <2>1. ASSUME q \in new, q # <<>>
        PROVE  \E r \in put' : IsPrefix(q, r)
    <3>1. q \in D /\ ~IsPrefix(p, q) /\ q \notin way /\ q \in rest
      BY <1>4, <2>1
    <3>2. PICK r \in put : IsPrefix(q, r)
      BY <1>2, <2>1, <3>1
    <3>3. r \in Seq(K)
      BY <1>1, <1>2
    <3>4. CASE ~IsPrefix(p, r)
      BY <1>3, <3>2, <3>4
    <3>5. CASE IsPrefix(p, r)
      <4>1. IsPrefix(q, p)
        BY <1>1, <1>9, <3>1, <3>2, <3>3, <3>5 DEF PrefixOrder
      <4>2. q # p
        BY <1>1, <1>9, <3>1 DEF PrefixOrder
      <4>3. q \in Above(p)
        BY <1>5, <4>1, <4>2
      <4>4. PICK u \in rest : IsPrefix(q, u) /\ u \notin Above(p)
        BY <1>6, <2>1, <3>1, <4>3
      <4>5. u \in D /\ ~IsPrefix(p, u) /\ u \in Seq(K)
        BY <1>2, <1>4
      <4>6. u # <<>>
        BY <1>1, <2>1, <4>4 DEF PrefixOrder
      <4>7. PICK v \in put : IsPrefix(u, v)
        BY <1>2, <4>5, <4>6
      <4>8. v \in Seq(K)
        BY <1>1, <1>2
      <4>9. ~IsPrefix(p, v)
        <5>1. SUFFICES ASSUME IsPrefix(p, v) PROVE FALSE
          OBVIOUS
        <5>2. IsPrefix(u, p)
          BY <1>1, <1>9, <4>5, <4>7, <4>8, <5>1 DEF PrefixOrder
        <5>3. u # p
          BY <1>1, <1>9, <4>5 DEF PrefixOrder
        <5>4. QED
          BY <1>5, <4>4, <4>5, <5>2, <5>3
      <4>10. IsPrefix(q, v)
        BY <1>1, <4>4, <4>5, <4>7, <4>8 DEF PrefixOrder
      <4>11. QED
        BY <1>3, <4>7, <4>9, <4>10
    <3>6. QED
      BY <3>4, <3>5
  <2>2. ASSUME q = <<>>
        PROVE  q \in new
    <3>1. ~IsPrefix(p, q)
      BY <1>1, <1>9, <2>2 DEF PrefixOrder
    <3>2. q \in D
      BY <1>2, <2>2
    <3>3. QED
      BY <1>4, <1>6, <2>2, <3>1, <3>2
  <2>3. ASSUME NEW r \in put', IsPrefix(q, r), q # <<>>
        PROVE  q \in new
    <3>1. r \in put /\ r \in rest /\ r \in Seq(K) /\ r \notin Above(p)
      BY <1>10
    <3>2. ~IsPrefix(p, r)
      BY <1>4, <3>1
    <3>3. ~IsPrefix(p, q)
      BY <1>1, <1>9, <2>3, <3>1, <3>2 DEF PrefixOrder
    <3>4. q \in rest
      BY <1>2, <1>4, <2>3, <3>1, <3>3
    <3>5. q \notin way
      BY <1>6, <2>3, <3>1
    <3>6. QED
      BY <3>4, <3>5
  <2>4. QED
    BY <2>1, <2>2, <2>3
<1>12. ASSUME NEW q \in new
       PROVE  document'[q] = "value" <=> q \in put'
  <2>1. document'[q] = document[q] /\ q \in D /\ ~IsPrefix(p, q)
    BY <1>3, <1>4
  <2>2. QED
    BY <1>2, <1>3, <2>1
<1>13. document' = [q \in DOMAIN document' |-> document'[q]]
  BY <1>3
<1> HIDE DEF new
<1>14. QED
  BY <1>7, <1>8, <1>11, <1>12, <1>13 DEF DocumentKept, K

(* The document stays what has been put.                                   *)
LEMMA DocumentsKept ==
  ASSUME ParsingAssumption
  PROVE  /\ ParsingInit => DocumentKept
         /\ DocumentKept /\ [ParsingNext]_parsingVars => DocumentKept'
<1>1. ParsingInit => DocumentKept
  <2>1. SUFFICES ASSUME ParsingInit PROVE DocumentKept
    OBVIOUS
  <2> DEFINE e == <<>>
  <2>2. e \in Seq(PathKeys)
    OBVIOUS
  <2> HIDE DEF e
  <2>3. put = {} /\ document = [q \in {e} |-> "object"]
    BY <2>1, Zenon DEF ParsingInit, e
  <2>4. DOMAIN document = {e} /\ document[e] = "object"
    BY <2>3
  <2>5. \A q \in Seq(PathKeys) : q \in DOMAIN document <=> q = e \/ \E p \in put : IsPrefix(q, p)
    BY <2>3, <2>4
  <2>6. QED
    BY <2>2, <2>3, <2>4, <2>5 DEF DocumentKept, e
<1>2. ASSUME DocumentKept, [ParsingNext]_parsingVars
      PROVE  DocumentKept'
  <2>1. ASSUME NEW p \in Paths, CreateItem(p)
        PROVE  DocumentKept'
    BY <1>2, <2>1, ItemIsCreated
  <2>2. ASSUME NEW p \in Paths, EraseItem(p)
        PROVE  DocumentKept'
    BY <1>2, <2>2, ItemIsErased
  <2>3. CASE UNCHANGED <<document, put>>
    BY <1>2, <2>3 DEF DocumentKept
  <2>4. QED
    BY <1>2, <2>1, <2>2, <2>3 DEF ParsingNext, ParseElement, ParseItem, parsingVars
<1>3. QED
  BY <1>1, <1>2

(* It has the type and the contents that are claimed.                      *)
LEMMA KeptDocument ==
  ASSUME ParsingAssumption, DocumentKept
  PROVE  /\ DocumentsAreRight
         /\ DOMAIN document \subseteq Paths \cup {<<>>} /\ put \subseteq Paths
<1> DEFINE K == PathKeys
<1>1. /\ Paths \subseteq Seq(K) /\ <<>> \notin Paths /\ PrefixOrder(K)
      /\ \A q \in Seq(K) : Prefixes(q) = {r \in Seq(K) : IsPrefix(r, q)}
      /\ \A p \in Paths, q \in Seq(K) : IsPrefix(q, p) => q = <<>> \/ q \in Paths
  BY PathsAre
<1>2. /\ put \subseteq Paths /\ DOMAIN document \subseteq Seq(K)
      /\ \A q \in Seq(K) :
             q \in DOMAIN document <=> q = <<>> \/ \E p \in put : IsPrefix(q, p)
  BY DEF DocumentKept
<1> HIDE DEF K
<1>3. <<>> \in Seq(K)
  OBVIOUS
<1>4. \A q : q \in UNION {Prefixes(p) : p \in put} <=> \E p \in put : q \in Seq(K) /\ IsPrefix(q, p)
  BY <1>1, <1>2
<1>5. DocumentsAreRight
  BY <1>2, <1>3, <1>4 DEF DocumentsAreRight
<1>6. DOMAIN document \subseteq Paths \cup {<<>>}
  BY <1>1, <1>2
<1>7. QED
  BY <1>2, <1>5, <1>6

\* The characters of an item's string.
StringChars == Digits \cup {"/", "a"}
NoSlash(s) == Kept(s, Range(s) \ {"/"})

(* The length of the number that a string starts with.                     *)
LEMMA NumberLengthIs ==
  ASSUME NEW T, NEW s \in Seq(T)
  PROVE  /\ NumberLength(s) \in 0..Len(s)
         /\ \A i \in 1..NumberLength(s) : s[i] \in Digits
         /\ NumberLength(s) < Len(s) => s[NumberLength(s) + 1] \notin Digits
<1> DEFINE others == {i \in 1..Len(s) : s[i] \notin Digits}
           Fits(n) == n + 1 \in others \cup {Len(s) + 1} /\ \A i \in others : i > n
<1>0. Len(s) \in Nat
  OBVIOUS
<1>1. \E n \in 0..Len(s) : Fits(n)
  <2>1. CASE others = {}
    <3>1. Fits(Len(s)) /\ Len(s) \in 0..Len(s)
      BY <1>0, <2>1
    <3>2. QED
      BY <3>1
  <2>2. CASE others # {}
    <3>1. others \subseteq Nat
      BY <1>0
    <3>2. PICK m \in others : \A i \in others : m <= i
      BY <2>2, <3>1, LeastNumber
    <3>3. m \in 1..Len(s) /\ \A i \in others : i \in Nat
      OBVIOUS
    <3> HIDE DEF others
    <3>4. m - 1 \in 0..Len(s) /\ (m - 1) + 1 = m /\ \A i \in others : i > m - 1
      BY <1>0, <3>2, <3>3
    <3>5. Fits(m - 1)
      BY <3>4
    <3>6. QED
      BY <3>4, <3>5
  <2>3. QED
    BY <2>1, <2>2
<1>2. NumberLength(s) = CHOOSE n \in 0..Len(s) : Fits(n)
  BY DEF NumberLength
<1>3. NumberLength(s) \in 0..Len(s) /\ Fits(NumberLength(s))
  <2> HIDE DEF Fits
  <2>1. QED
    BY <1>1, <1>2
<1> DEFINE n == NumberLength(s)
<1>4. n \in 0..Len(s) /\ n + 1 \in others \cup {Len(s) + 1} /\ \A i \in others : i > n
  BY <1>3
<1> HIDE DEF n, Fits
<1>5. \A i \in 1..n : s[i] \in Digits
  <2>1. ASSUME NEW i \in 1..n PROVE s[i] \in Digits
    <3>1. i \in 1..Len(s) /\ ~(i > n)
      BY <1>0, <1>4
    <3>2. i \notin others
      BY <1>4, <3>1
    <3>3. QED
      BY <3>1, <3>2
  <2>2. QED
    BY <2>1
<1>6. n < Len(s) => s[n + 1] \notin Digits
  BY <1>0, <1>4
<1>7. QED
  BY <1>4, <1>5, <1>6 DEF n

(* A number that something else follows is all of it.                      *)
LEMMA NumberBefore ==
  ASSUME NEW T, NEW x \in Seq(T), NEW y \in Seq(T), Range(x) \subseteq Digits,
         y = <<>> \/ Head(y) \notin Digits
  PROVE  NumberLength(x \o y) = Len(x)
<1> DEFINE s == x \o y
           n == NumberLength(s)
<1>1. /\ s \in Seq(T) /\ Len(s) = Len(x) + Len(y) /\ Len(x) \in Nat /\ Len(y) \in Nat
      /\ \A i \in 1..Len(x) : s[i] = x[i]
      /\ \A i \in 1..Len(y) : s[i + Len(x)] = y[i]
  BY ConcatFacts
<1> HIDE DEF s
<1>2. /\ n \in 0..Len(s)
      /\ \A i \in 1..n : s[i] \in Digits
      /\ n < Len(s) => s[n + 1] \notin Digits
  BY <1>1, NumberLengthIs
<1> HIDE DEF n
<1>3. \A i \in 1..Len(x) : s[i] \in Digits
  BY <1>1, RangeIs
<1>4. ~(n < Len(x))
  <2>1. SUFFICES ASSUME n < Len(x) PROVE FALSE
    OBVIOUS
  <2>2. n < Len(s) /\ n + 1 \in 1..Len(x)
    BY <1>1, <1>2, <2>1
  <2>3. QED
    BY <1>2, <1>3, <2>2
<1>5. ~(n > Len(x))
  <2>1. SUFFICES ASSUME n > Len(x) PROVE FALSE
    OBVIOUS
  <2>2. y # <<>> /\ 1 \in 1..Len(y)
    <3>1. Len(y) # 0
      BY <1>1, <1>2, <2>1
    <3>2. QED
      BY <1>1, <3>1
  <2>3. Head(y) = y[1]
    BY <2>2, TailFacts
  <2>4. s[1 + Len(x)] = y[1] /\ 1 + Len(x) \in 1..n
    BY <1>1, <1>2, <2>1, <2>2
  <2>5. QED
    BY <1>2, <2>2, <2>3, <2>4
<1>6. QED
  BY <1>1, <1>2, <1>4, <1>5 DEF n, s

\* What a parser has read of a string, with nothing but slashes left out.
ReadOf(r, s) ==
  /\ r.number \in Numbers \cup {<<>>} /\ (r.ok => r.number \in Numbers)
  /\ r.rest \in Seq(StringChars)
  /\ NoSlash(s) = r.number \o NoSlash(r.rest)

(* Numbers are not empty, and have digits only.                            *)
LEMMA NumbersAre ==
  ASSUME ParsingAssumption, NEW x \in Numbers
  PROVE  /\ x \in Seq(StringChars) /\ x \in Seq(Digits) /\ Range(x) \subseteq Digits
         /\ x # <<>> /\ Len(x) \in 1..MaxDigits /\ "/" \notin Range(x) /\ "a" \notin Range(x)
<1>1. PICK n \in 1..MaxDigits : x \in [1..n -> Digits]
  BY DEF Numbers
<1>2. n \in Nat /\ n # 0 /\ "/" \notin Digits /\ "a" \notin Digits
  BY DEF ParsingAssumption
<1>3. x \in Seq(Digits) /\ Len(x) = n
  BY <1>1, <1>2
<1>4. Range(x) \subseteq Digits
  BY <1>3, RangeIs
<1>5. x \in Seq(StringChars)
  BY <1>3 DEF StringChars
<1>6. QED
  BY <1>1, <1>2, <1>3, <1>4, <1>5

(* Without slashes: the parts one after the other.                         *)
LEMMA NoSlashFacts ==
  ASSUME ParsingAssumption
  PROVE  /\ \A s \in Seq(StringChars) : NoSlash(s) = Kept(s, StringChars \ {"/"})
         /\ \A s \in Seq(StringChars) : NoSlash(s) \in Seq(StringChars)
         /\ \A s, t \in Seq(StringChars) : NoSlash(s \o t) = NoSlash(s) \o NoSlash(t)
         /\ \A x \in Numbers : NoSlash(x) = x
         /\ NoSlash(<<"/">>) = <<>> /\ NoSlash(<<"a">>) = <<"a">> /\ NoSlash(<<>>) = <<>>
<1> DEFINE C == StringChars
           S == C \ {"/"}
<1>0. "/" \in C /\ "a" \in C /\ "a" # "/"
  BY DEF StringChars
<1>1. \A s \in Seq(C) : NoSlash(s) = Kept(s, S)
  <2>1. TAKE s \in Seq(C)
  <2>2. Range(s) \subseteq C
    BY RangeIs
  <2>3. (Range(s) \ {"/"}) \cap Range(s) = S \cap Range(s)
    BY <2>2
  <2>4. QED
    BY <2>3, KeptSame DEF NoSlash
<1>2. \A s \in Seq(C) : Kept(s, S) \in Seq(C)
  BY KeptRange
<1>3. \A s, t \in Seq(C) : Kept(s \o t, S) = Kept(s, S) \o Kept(t, S) /\ s \o t \in Seq(C)
  BY KeptConcat, ConcatProperties
<1>4. \A x \in Numbers : x \in Seq(C) /\ Range(x) \subseteq S
  <2>1. TAKE x \in Numbers
  <2>2. x \in Seq(C) /\ Range(x) \subseteq Digits /\ "/" \notin Range(x)
    BY NumbersAre
  <2>3. QED
    BY <2>2 DEF StringChars
<1>5. \A x \in Numbers : Kept(x, S) = x
  BY <1>4, KeptAll
<1>6. Kept(<<>>, S) = <<>> /\ <<>> \in Seq(C)
  BY KeptEmpty
<1>a. "/" \notin S /\ "a" \in S
  BY <1>0
<1>b. S = StringChars \ {"/"} /\ C = StringChars
  OBVIOUS
<1> HIDE DEF S, C
<1>7. Kept(<<"/">>, S) = <<>> /\ <<"/">> \in Seq(C)
  <2> DEFINE e == <<>>
  <2>1. <<"/">> = Append(e, "/") /\ <<"/">> \in Seq(C) /\ e \in Seq(C) /\ e = <<>>
    BY <1>0
  <2> HIDE DEF e
  <2>2. Kept(Append(e, "/"), S) = IF "/" \in S THEN Append(Kept(e, S), "/") ELSE Kept(e, S)
    BY <1>0, <2>1, KeptAppend, ZenonT(30)
  <2>3. QED
    BY <1>6, <1>a, <2>1, <2>2
<1>8. Kept(<<"a">>, S) = <<"a">> /\ <<"a">> \in Seq(C)
  <2> DEFINE e == <<>>
  <2>1. <<"a">> = Append(e, "a") /\ <<"a">> \in Seq(C) /\ e \in Seq(C) /\ e = <<>>
    BY <1>0
  <2> HIDE DEF e
  <2>2. Kept(Append(e, "a"), S) = IF "a" \in S THEN Append(Kept(e, S), "a") ELSE Kept(e, S)
    BY <1>0, <2>1, KeptAppend, ZenonT(30)
  <2>3. QED
    BY <1>6, <1>a, <2>1, <2>2
<1>9. /\ \A s \in Seq(C) : NoSlash(s) \in Seq(C)
      /\ \A s, t \in Seq(C) : NoSlash(s \o t) = NoSlash(s) \o NoSlash(t)
      /\ \A x \in Numbers : NoSlash(x) = x
  <2>1. \A s \in Seq(C) : NoSlash(s) \in Seq(C)
    BY <1>1, <1>2
  <2>2. \A s, t \in Seq(C) : NoSlash(s \o t) = NoSlash(s) \o NoSlash(t)
    BY <1>1, <1>3
  <2>3. \A x \in Numbers : NoSlash(x) = x
    BY <1>1, <1>4, <1>5
  <2>4. QED
    BY <2>1, <2>2, <2>3
<1>10. NoSlash(<<"/">>) = <<>> /\ NoSlash(<<"a">>) = <<"a">> /\ NoSlash(<<>>) = <<>>
  BY <1>1, <1>6, <1>7, <1>8
<1>11. QED
  BY <1>1, <1>9, <1>10, <1>b, Zenon

\* What parseNumberPrefix() gives.
PrefixRead(s, old) ==
  LET r == ParseNumberPrefix(s, old)
  IN /\ r = [ok |-> r.ok, number |-> r.number, rest |-> r.rest]
     /\ r.ok \in BOOLEAN /\ r.rest \in Seq(StringChars)
     /\ r.ok => r.number \in Numbers /\ s = r.number \o r.rest
     /\ ~r.ok => r.number = old /\ r.rest = s

(* A number is taken off, or nothing.                                      *)
LEMMA PrefixIsRead ==
  ASSUME ParsingAssumption, NEW s \in Seq(StringChars), NEW old
  PROVE  PrefixRead(s, old)
<1> DEFINE n == NumberLength(s)
           ok == n \in 1..MaxDigits
           r == ParseNumberPrefix(s, old)
<1>0. Len(s) \in Nat /\ MaxDigits \in Nat
  BY DEF ParsingAssumption
<1>1. n \in 0..Len(s) /\ \A i \in 1..n : s[i] \in Digits
  BY NumberLengthIs
<1>2. r = [ok |-> ok, number |-> IF ok THEN SubSeq(s, 1, n) ELSE old,
           rest |-> IF ok THEN SubSeq(s, n + 1, Len(s)) ELSE s]
  BY DEF ParseNumberPrefix
<1> HIDE DEF n, r
<1>3. SubSeq(s, n + 1, Len(s)) \in Seq(StringChars)
  <2>1. n + 1 \in Nat /\ Len(s) \in Nat
    BY <1>0, <1>1
  <2>2. \A i \in (n + 1)..Len(s) : s[i] \in StringChars
    BY <1>0, <1>1
  <2>3. QED
    BY <1>0, <2>1, <2>2
<1>4. s = SubSeq(s, 1, n) \o SubSeq(s, n + 1, Len(s))
  BY <1>1, SubSeqSplit
<1>5. ASSUME ok
      PROVE  SubSeq(s, 1, n) \in Numbers
  <2>1. SubSeq(s, 1, n) = [i \in 1..n |-> s[i]]
    BY <1>0, <1>1, <1>5
  <2>2. SubSeq(s, 1, n) \in [1..n -> Digits]
    BY <1>1, <2>1
  <2>3. QED
    BY <1>5, <2>2 DEF Numbers
<1>6. /\ r.ok = ok /\ r.number = (IF ok THEN SubSeq(s, 1, n) ELSE old)
      /\ r.rest = (IF ok THEN SubSeq(s, n + 1, Len(s)) ELSE s)
      /\ r = [ok |-> r.ok, number |-> r.number, rest |-> r.rest]
  BY <1>2
<1> HIDE DEF ok
<1>7. r.ok \in BOOLEAN
  BY <1>6 DEF ok
<1>8. QED
  BY <1>3, <1>4, <1>5, <1>6, <1>7 DEF PrefixRead, r

(* The number before something else is the one that is taken.              *)
LEMMA PrefixBefore ==
  ASSUME ParsingAssumption, NEW x \in Numbers, NEW y \in Seq(StringChars), NEW old,
         y = <<>> \/ Head(y) \notin Digits
  PROVE  ParseNumberPrefix(x \o y, old) = [ok |-> TRUE, number |-> x, rest |-> y]
<1> DEFINE s == x \o y
           C == StringChars
<1>1. x \in Seq(C) /\ Range(x) \subseteq Digits /\ Len(x) \in 1..MaxDigits
  BY NumbersAre
<1>2. NumberLength(s) = Len(x)
  <2> HIDE DEF C
  <2>1. x \in Seq(C) /\ y \in Seq(C)
    BY <1>1 DEF C
  <2>2. QED
    BY <1>1, <2>1, NumberBefore
<1>3. /\ s \in Seq(C) /\ Len(s) = Len(x) + Len(y) /\ Len(x) \in Nat /\ Len(y) \in Nat
      /\ \A i \in 1..Len(x) : s[i] = x[i]
      /\ \A i \in 1..Len(y) : s[i + Len(x)] = y[i]
  BY <1>1, ConcatFacts
<1> HIDE DEF s, C
<1>4. SubSeq(s, 1, Len(x)) = x
  <2>1. PICK u : u = SubSeq(s, 1, Len(x))
    OBVIOUS
  <2>2. u \in Seq(C) /\ Len(u) = Len(x) /\ \A i \in 1..Len(u) : u[i] = x[i]
    BY <1>3, <2>1
  <2>3. u = x
    BY <1>1, <2>2, SeqEqual
  <2>4. QED
    BY <2>1, <2>3
<1>5. SubSeq(s, Len(x) + 1, Len(s)) = y
  <2>1. PICK u : u = SubSeq(s, Len(x) + 1, Len(s))
    OBVIOUS
  <2>2. u = [i \in 1..(Len(s) - (Len(x) + 1) + 1) |-> s[Len(x) + 1 + i - 1]]
    BY <1>3, <2>1
  <2>3. Len(s) - (Len(x) + 1) + 1 = Len(y)
    BY <1>3
  <2>4. u = [i \in 1..Len(y) |-> s[Len(x) + 1 + i - 1]]
    BY <2>2, <2>3
  <2>5. \A i \in 1..Len(y) : Len(x) + 1 + i - 1 = i + Len(x) /\ y[i] \in C
    BY <1>3 DEF C
  <2>6. \A i \in 1..Len(y) : u[i] = y[i]
    BY <1>3, <2>4, <2>5
  <2>7. u \in Seq(C) /\ Len(u) = Len(y)
    BY <1>3, <2>4, <2>5
  <2>8. y \in Seq(C)
    BY DEF C
  <2>9. u = y
    BY <2>6, <2>7, <2>8, SeqEqual
  <2>10. QED
    BY <2>1, <2>9
<1>6. QED
  BY <1>1, <1>2, <1>4, <1>5 DEF ParseNumberPrefix, s

(* Where there is no number, nothing is taken.                             *)
LEMMA PrefixMissing ==
  ASSUME ParsingAssumption, NEW s \in Seq(StringChars), NEW old, s = <<>> \/ Head(s) \notin Digits
  PROVE  ParseNumberPrefix(s, old) = [ok |-> FALSE, number |-> old, rest |-> s]
<1> DEFINE e == <<>>
<1>1. e \in Seq(StringChars) /\ e \o s = s /\ Len(e) = 0
  BY ConcatEmptySeq
<1>2. Range(e) \subseteq Digits
  BY RangeIs, <1>1
<1> HIDE DEF e
<1>3. NumberLength(e \o s) = Len(e)
  BY <1>1, <1>2, NumberBefore
<1>4. NumberLength(s) = 0 /\ 0 \notin 1..MaxDigits
  BY <1>1, <1>3 DEF ParsingAssumption
<1>5. (NumberLength(s) \in 1..MaxDigits) = FALSE
  BY <1>4
<1>6. QED
  BY <1>5 DEF ParseNumberPrefix

\* What parseNumberSlash() gives.
SlashRead(s) ==
  LET r == ParseNumberSlash(s, <<>>)
  IN /\ r = [ok |-> r.ok, number |-> r.number, rest |-> r.rest]
     /\ r.ok \in BOOLEAN /\ r.rest \in Seq(StringChars)
     /\ r.number \in Numbers \cup {<<>>} /\ (r.ok => r.number \in Numbers)
     /\ NoSlash(s) = r.number \o NoSlash(r.rest)

(* Nothing but a slash is left out.                                        *)
LEMMA SlashIsRead ==
  ASSUME ParsingAssumption, NEW s \in Seq(StringChars)
  PROVE  SlashRead(s)
<1> DEFINE e == <<>>
           p == ParseNumberPrefix(s, e)
           r == ParseNumberSlash(s, e)
           C == StringChars
<1>0. /\ \A u \in Seq(C) : NoSlash(u) \in Seq(C)
      /\ \A u, v \in Seq(C) : NoSlash(u \o v) = NoSlash(u) \o NoSlash(v)
      /\ \A x \in Numbers : NoSlash(x) = x /\ x \in Seq(C)
      /\ NoSlash(<<"/">>) = <<>>
  BY NoSlashFacts, NumbersAre
<1>1. /\ p = [ok |-> p.ok, number |-> p.number, rest |-> p.rest]
      /\ p.ok \in BOOLEAN /\ p.rest \in Seq(C)
      /\ p.ok => p.number \in Numbers /\ s = p.number \o p.rest
      /\ ~p.ok => p.number = e /\ p.rest = s
  <2>1. PrefixRead(s, e)
    BY PrefixIsRead
  <2>2. QED
    BY <2>1 DEF PrefixRead
<1>2. r = IF ~p.ok \/ p.rest = <<>> THEN p
          ELSE IF Head(p.rest) = "/" THEN [p EXCEPT !.rest = Tail(@)] ELSE [p EXCEPT !.ok = FALSE]
  BY DEF ParseNumberSlash
<1>3. e = <<>> /\ \A u \in Seq(C) : e \o u = u
  BY ConcatEmptySeq
<1> HIDE DEF p, r, e, C
<1>a. ASSUME p.ok
      PROVE  NoSlash(s) = p.number \o NoSlash(p.rest)
  <2>1. PICK x \in Numbers : x = p.number
    BY <1>1, <1>a
  <2>2. PICK y \in Seq(C) : y = p.rest
    BY <1>1
  <2>3. s = x \o y
    BY <1>1, <1>a, <2>1, <2>2
  <2>4. x \in Seq(C) /\ NoSlash(x) = x
    BY <1>0
  <2>5. NoSlash(x \o y) = NoSlash(x) \o NoSlash(y)
    BY <1>0, <2>4
  <2>6. QED
    BY <2>1, <2>2, <2>3, <2>4, <2>5
<1>4. CASE ~p.ok
  <2>1. r = p
    BY <1>2, <1>4
  <2>2. NoSlash(s) = r.number \o NoSlash(r.rest)
    BY <1>0, <1>1, <1>3, <1>4, <2>1
  <2>3. QED
    BY <1>1, <1>3, <1>4, <2>1, <2>2 DEF SlashRead, r, e, C
<1>5. CASE p.ok /\ p.rest = <<>>
  <2>1. r = p
    BY <1>2, <1>5
  <2>2. NoSlash(s) = r.number \o NoSlash(r.rest)
    BY <1>a, <1>5, <2>1
  <2>3. QED
    BY <1>1, <1>5, <2>1, <2>2 DEF SlashRead, r, e, C
<1>6. CASE p.ok /\ p.rest # <<>> /\ Head(p.rest) = "/"
  <2>1. r = [p EXCEPT !.rest = Tail(@)]
    BY <1>2, <1>6
  <2>2. r = [ok |-> p.ok, number |-> p.number, rest |-> Tail(p.rest)]
    BY <1>1, <2>1
  <2>3. PICK y \in Seq(C) : y = Tail(p.rest) /\ p.rest = <<"/">> \o y
    <3>1. Tail(p.rest) \in Seq(C) /\ p.rest = <<Head(p.rest)>> \o Tail(p.rest)
      BY <1>1, <1>6, HeadTailProperties
    <3>2. QED
      BY <1>6, <3>1
  <2>4. <<"/">> \in Seq(C)
    BY DEF C, StringChars
  <2>5. NoSlash(p.rest) = NoSlash(y)
    <3>1. NoSlash(<<"/">> \o y) = NoSlash(<<"/">>) \o NoSlash(y)
      BY <1>0, <2>4
    <3>2. QED
      BY <1>0, <1>3, <2>3, <3>1
  <2>6. NoSlash(s) = p.number \o NoSlash(p.rest)
    BY <1>a, <1>6
  <2>7. r.ok = p.ok /\ r.number = p.number /\ r.rest = y
    BY <2>2, <2>3
  <2>8. r = [ok |-> r.ok, number |-> r.number, rest |-> r.rest]
    BY <2>2, <2>3, <2>7
  <2>9. QED
    BY <1>1, <1>6, <2>5, <2>6, <2>7, <2>8 DEF SlashRead, r, e, C
<1>7. CASE p.ok /\ p.rest # <<>> /\ Head(p.rest) # "/"
  <2>1. r = [p EXCEPT !.ok = FALSE]
    BY <1>2, <1>7
  <2>2. r = [ok |-> FALSE, number |-> p.number, rest |-> p.rest]
    BY <1>1, <2>1
  <2>3. NoSlash(s) = r.number \o NoSlash(r.rest)
    BY <1>a, <1>7, <2>2
  <2>4. r.ok = FALSE /\ r.number = p.number /\ r.rest = p.rest
    BY <2>2
  <2>5. r = [ok |-> r.ok, number |-> r.number, rest |-> r.rest]
    BY <2>2, <2>4
  <2>6. QED
    BY <1>1, <1>7, <2>3, <2>4, <2>5 DEF SlashRead, r, e, C
<1>8. QED
  BY <1>1, <1>4, <1>5, <1>6, <1>7

(* A number alone, a number with a slash, and no number.                   *)
LEMMA SlashBefore ==
  ASSUME ParsingAssumption, NEW x \in Numbers, NEW y \in Seq(StringChars), NEW old
  PROVE  /\ ParseNumberSlash(x, old) = [ok |-> TRUE, number |-> x, rest |-> <<>>]
         /\ ParseNumberSlash(x \o (<<"/">> \o y), old) = [ok |-> TRUE, number |-> x, rest |-> y]
<1> DEFINE e == <<>>
           z == <<"/">> \o y
<1>1. x \in Seq(StringChars) /\ e \in Seq(StringChars) /\ x \o e = x /\ e = <<>>
  BY NumbersAre, ConcatEmptySeq
<1>2. "/" \in StringChars /\ "/" \notin Digits
  BY DEF StringChars, ParsingAssumption
<1>3. z \in Seq(StringChars) /\ z # <<>> /\ Head(z) = "/" /\ Tail(z) = y
  <2>1. <<"/">> \in Seq(StringChars) /\ <<"/">> # <<>>
    BY <1>2
  <2>2. z \in Seq(StringChars) /\ Len(z) = 1 + Len(y) /\ z[1] = "/"
    BY <1>2, <2>1
  <2>3. z # <<>> /\ Head(z) = "/"
    BY <2>2
  <2>4. Tail(z) = y
    BY <1>2, <2>1
  <2>5. QED
    BY <2>2, <2>3, <2>4
<1> HIDE DEF e, z
<1>4. ParseNumberPrefix(x \o e, old) = [ok |-> TRUE, number |-> x, rest |-> e]
  BY <1>1, PrefixBefore
<1>5. ParseNumberPrefix(x \o z, old) = [ok |-> TRUE, number |-> x, rest |-> z]
  BY <1>2, <1>3, PrefixBefore
<1>6. ParseNumberSlash(x, old) = [ok |-> TRUE, number |-> x, rest |-> <<>>]
  BY <1>1, <1>4 DEF ParseNumberSlash
<1>7. ParseNumberSlash(x \o z, old) = [ok |-> TRUE, number |-> x, rest |-> y]
  <2>1. PICK r : r = ParseNumberPrefix(x \o z, old)
    OBVIOUS
  <2>2. r.ok = TRUE /\ r.rest = z /\ r.number = x /\ r = [ok |-> TRUE, number |-> x, rest |-> z]
    BY <1>5, <2>1
  <2>3. ParseNumberSlash(x \o z, old) = [r EXCEPT !.rest = Tail(@)]
    BY <1>3, <2>1, <2>2 DEF ParseNumberSlash
  <2>4. QED
    BY <1>3, <2>2, <2>3
<1>8. QED
  BY <1>6, <1>7 DEF z

(* Where there is no number, there is no slash to be taken.                *)
LEMMA SlashMissing ==
  ASSUME ParsingAssumption, NEW s \in Seq(StringChars), NEW old, s = <<>> \/ Head(s) \notin Digits
  PROVE  ParseNumberSlash(s, old) = [ok |-> FALSE, number |-> old, rest |-> s]
<1>1. ParseNumberPrefix(s, old) = [ok |-> FALSE, number |-> old, rest |-> s]
  BY PrefixMissing
<1>2. PICK r : r = ParseNumberPrefix(s, old)
  OBVIOUS
<1>3. ~r.ok
  BY <1>1, <1>2
<1>4. ParseNumberSlash(s, old) = r
  BY <1>2, <1>3 DEF ParseNumberSlash
<1>5. QED
  BY <1>1, <1>2, <1>4

\* What AssetKey::init() gives, once it is ok.
KeyRead(s) ==
  LET k == AssetKeyInit(s)
  IN k.ok = TRUE =>
       /\ k = [ok |-> TRUE, app |-> k.app, class |-> k.class, instance |-> k.instance,
               amount |-> <<>>, rest |-> k.rest]
       /\ k.app \in Numbers /\ k.class \in Numbers /\ k.instance \in Numbers \cup {<<>>}
       /\ k.rest \in Seq(StringChars)
       /\ NoSlash(s) = k.app \o (k.class \o (k.instance \o NoSlash(k.rest)))

(* Its parts and nothing but slashes are in what has been read.            *)
LEMMA KeyIsRead ==
  ASSUME ParsingAssumption, NEW s \in Seq(StringChars)
  PROVE  KeyRead(s) /\ AssetKeyInit(s).ok \in BOOLEAN
<1> DEFINE a == ParseNumberSlash(s, <<>>)
           c == ParseNumberSlash(a.rest, <<>>)
           i == ParseNumberSlash(c.rest, <<>>)
           k == AssetKeyInit(s)
           ok == a.ok /\ c.ok
           K3 == [ok |-> TRUE, app |-> a.number, class |-> c.number,
                  instance |-> i.number, amount |-> <<>>, rest |-> i.rest]
<1>1. k = [ok |-> ok, app |-> a.number, class |-> IF a.ok THEN c.number ELSE <<>>,
           instance |-> IF ok THEN i.number ELSE <<>>, amount |-> <<>>,
           rest |-> IF ok THEN i.rest ELSE IF a.ok THEN c.rest ELSE a.rest]
  BY DEF AssetKeyInit
<1>3. /\ a.ok \in BOOLEAN /\ a.rest \in Seq(StringChars)
      /\ a.number \in Numbers \cup {<<>>} /\ (a.ok => a.number \in Numbers)
      /\ NoSlash(s) = a.number \o NoSlash(a.rest)
  <2>1. SlashRead(s)
    BY SlashIsRead
  <2>2. QED
    BY <2>1 DEF SlashRead
<1>4. /\ c.ok \in BOOLEAN /\ c.rest \in Seq(StringChars)
      /\ c.number \in Numbers \cup {<<>>} /\ (c.ok => c.number \in Numbers)
      /\ NoSlash(a.rest) = c.number \o NoSlash(c.rest)
  <2>1. SlashRead(a.rest)
    BY <1>3, SlashIsRead
  <2>2. QED
    BY <2>1 DEF SlashRead
<1>5. /\ i.ok \in BOOLEAN /\ i.rest \in Seq(StringChars)
      /\ i.number \in Numbers \cup {<<>>}
      /\ NoSlash(c.rest) = i.number \o NoSlash(i.rest)
  <2>1. SlashRead(c.rest)
    BY <1>4, SlashIsRead
  <2>2. QED
    BY <2>1 DEF SlashRead
<1>7. k.ok \in BOOLEAN /\ (k.ok = TRUE => a.ok /\ c.ok /\ k = K3)
  <2> HIDE DEF a, c, i, k
  <2>1. k.ok = ok
    BY <1>1
  <2>2. ok => ok = TRUE
    BY <1>3, <1>4
  <2>3. ASSUME ok = TRUE, a.ok
        PROVE  k = K3
    BY <1>1, <2>3
  <2>4. QED
    BY <2>1, <2>2, <2>3
<1>8. ASSUME k.ok = TRUE
      PROVE  KeyRead(s)
  <2>1. k = K3 /\ a.ok /\ c.ok
    BY <1>7, <1>8
  <2> HIDE DEF a, c, i
  <2>2. /\ k.app = a.number /\ k.class = c.number /\ k.instance = i.number
        /\ k.rest = i.rest
    BY ONLY <2>1 DEF K3
  <2> HIDE DEF k
  <2>3. k = [ok |-> TRUE, app |-> k.app, class |-> k.class, instance |-> k.instance,
             amount |-> <<>>, rest |-> k.rest]
    BY <2>1, <2>2 DEF K3
  <2>4. NoSlash(s) = k.app \o (k.class \o (k.instance \o NoSlash(k.rest)))
    BY <1>3, <1>4, <1>5, <2>2
  <2>5. QED
    BY <1>3, <1>4, <1>5, <2>1, <2>2, <2>3, <2>4 DEF KeyRead, k
<1>9. QED
  <2>1. k.ok # TRUE => KeyRead(s)
    BY DEF KeyRead
  <2>2. QED
    BY <1>7, <1>8, <2>1

\* Two strings one after the other, with what there is to know of that.
Joined(s, t) == s \o t

(* Strings one after the other, also without slashes.                      *)
LEMMA StringFacts ==
  ASSUME ParsingAssumption
  PROVE  /\ \A s, t \in Seq(StringChars) : Joined(s, t) \in Seq(StringChars)
         /\ \A s, t, u \in Seq(StringChars) : Joined(Joined(s, t), u) = Joined(s, Joined(t, u))
         /\ \A s \in Seq(StringChars) : Joined(s, <<>>) = s /\ Joined(<<>>, s) = s
         /\ \A s, t \in Seq(StringChars) : NoSlash(Joined(s, t)) = Joined(NoSlash(s), NoSlash(t))
         /\ \A s \in Seq(StringChars) : NoSlash(s) \in Seq(StringChars)
         /\ \A x \in Numbers : NoSlash(x) = x /\ x \in Seq(StringChars) /\ x # <<>>
         /\ NoSlash(<<"/">>) = <<>> /\ NoSlash(<<"a">>) = <<"a">> /\ NoSlash(<<>>) = <<>>
         /\ <<>> \in Seq(StringChars) /\ <<"/">> \in Seq(StringChars)
         /\ <<"a">> \in Seq(StringChars)
<1>1. \A s, t \in Seq(StringChars) : Joined(s, t) \in Seq(StringChars)
  BY ConcatProperties DEF Joined
<1>2. \A s, t, u \in Seq(StringChars) : Joined(Joined(s, t), u) = Joined(s, Joined(t, u))
  BY ConcatAssociative DEF Joined
<1>3. \A s \in Seq(StringChars) : Joined(s, <<>>) = s /\ Joined(<<>>, s) = s
  BY ConcatEmptySeq DEF Joined
<1>4. "/" \in StringChars /\ "a" \in StringChars
  BY DEF StringChars
<1>5. <<>> \in Seq(StringChars) /\ <<"/">> \in Seq(StringChars) /\ <<"a">> \in Seq(StringChars)
  BY <1>4
<1>6. /\ \A s, t \in Seq(StringChars) : NoSlash(Joined(s, t)) = Joined(NoSlash(s), NoSlash(t))
      /\ \A s \in Seq(StringChars) : NoSlash(s) \in Seq(StringChars)
      /\ NoSlash(<<"/">>) = <<>> /\ NoSlash(<<"a">>) = <<"a">> /\ NoSlash(<<>>) = <<>>
  BY NoSlashFacts DEF Joined
<1>7. \A x \in Numbers : NoSlash(x) = x /\ x \in Seq(StringChars) /\ x # <<>>
  BY NoSlashFacts, NumbersAre
<1>8. QED
  BY <1>1, <1>2, <1>3, <1>5, <1>6, <1>7

\* What is written after the class of an item.
Rest(i, m) ==
  Joined(IF i = <<>> THEN <<>> ELSE Joined(<<"/">>, i),
         IF m = <<>> THEN <<>> ELSE Joined(<<"/">>, Joined(<<"a">>, m)))

(* What is written, from the first number on.                              *)
LEMMA WrittenIs ==
  ASSUME ParsingAssumption, NEW a \in Numbers, NEW c \in Numbers,
         NEW i \in Numbers \cup {<<>>}, NEW m \in Numbers \cup {<<>>}
  PROVE  /\ Rest(i, m) \in Seq(StringChars)
         /\ Written(a, c, i, m) = Joined(a, Joined(<<"/">>, Joined(c, Rest(i, m))))
         /\ NoSlash(Written(a, c, i, m)) =
              Joined(a, Joined(c, Joined(i, IF m = <<>> THEN <<>> ELSE Joined(<<"a">>, m))))
<1> DEFINE C == StringChars
           b == <<"/">>
           d == <<"a">>
           e == <<>>
           I == IF i = e THEN e ELSE Joined(b, i)
           M == IF m = e THEN e ELSE Joined(b, Joined(d, m))
           N == IF m = e THEN e ELSE Joined(d, m)
<1>1. /\ \A s, t \in Seq(C) : Joined(s, t) \in Seq(C)
      /\ \A s \in Seq(C) : Joined(s, e) = s /\ Joined(e, s) = s
      /\ \A s, t \in Seq(C) : NoSlash(Joined(s, t)) = Joined(NoSlash(s), NoSlash(t))
      /\ \A s \in Seq(C) : NoSlash(s) \in Seq(C)
      /\ \A x \in Numbers : NoSlash(x) = x /\ x \in Seq(C) /\ x # e
      /\ NoSlash(b) = e /\ NoSlash(d) = d /\ NoSlash(e) = e
      /\ b \in Seq(C) /\ d \in Seq(C) /\ e \in Seq(C)
  BY StringFacts
<1>a. \A s, t, u \in Seq(C) : Joined(Joined(s, t), u) = Joined(s, Joined(t, u))
  BY StringFacts
<1>2. Written(a, c, i, m) = Joined(Joined(Joined(Joined(a, b), c), I), M)
  <2>1. <<"/", "a">> \o m = b \o (d \o m)
    <3>1. <<"/", "a">> = Joined(b, d)
      BY DEF Joined
    <3>2. m \in Seq(C)
      BY <1>1
    <3> HIDE DEF b, d, C
    <3>3. Joined(Joined(b, d), m) = Joined(b, Joined(d, m))
      BY <1>1, <1>a, <3>2
    <3>4. QED
      BY <3>1, <3>3 DEF Joined
  <2>2. QED
    BY <2>1 DEF Written, Joined
<1>3. Rest(i, m) = Joined(I, M)
  BY DEF Rest
<1>4. i \in Numbers \/ i = e
  OBVIOUS
<1>5. m \in Numbers \/ m = e
  OBVIOUS
<1> HIDE DEF b, d, e, C
<1>6. i \in Seq(C) /\ m \in Seq(C) /\ I \in Seq(C) /\ M \in Seq(C) /\ N \in Seq(C)
  BY <1>1, <1>4, <1>5
<1>7. NoSlash(I) = i
  <2>1. CASE i = e
    BY <1>1, <2>1
  <2>2. CASE i # e
    <3>1. I = Joined(b, i) /\ i \in Seq(C) /\ NoSlash(i) = i
      BY <1>1, <1>4, <1>6, <2>2
    <3> HIDE DEF I
    <3>2. NoSlash(Joined(b, i)) = Joined(NoSlash(b), NoSlash(i))
      BY <1>1, <3>1
    <3>3. QED
      BY <1>1, <3>1, <3>2
  <2>3. QED
    BY <2>1, <2>2
<1>8. NoSlash(M) = N
  <2>1. CASE m = e
    BY <1>1, <2>1
  <2>2. CASE m # e
    <3>1. M = Joined(b, Joined(d, m)) /\ N = Joined(d, m) /\ m \in Seq(C) /\ NoSlash(m) = m
      BY <1>1, <1>5, <1>6, <2>2
    <3> HIDE DEF M, N
    <3>2. NoSlash(Joined(d, m)) = Joined(NoSlash(d), NoSlash(m)) /\ Joined(d, m) \in Seq(C)
      BY <1>1, <3>1
    <3>3. NoSlash(Joined(b, Joined(d, m))) = Joined(NoSlash(b), NoSlash(Joined(d, m)))
      BY <1>1, <3>2
    <3>4. QED
      BY <1>1, <3>1, <3>2, <3>3
  <2>3. QED
    BY <2>1, <2>2
<1>n. N = IF m = e THEN e ELSE Joined(d, m)
  OBVIOUS
<1> HIDE DEF I, M, N
<1>9. Rest(i, m) \in Seq(C)
  BY <1>1, <1>3, <1>6
<1>10. Written(a, c, i, m) = Joined(a, Joined(b, Joined(c, Rest(i, m))))
  <2>1. PICK u \in Seq(C) : u = Joined(a, b)
    BY <1>1
  <2>2. PICK v \in Seq(C) : v = Joined(u, c)
    BY <1>1, <2>1
  <2>3. Joined(Joined(v, I), M) = Joined(v, Joined(I, M))
    BY <1>6, <1>a, <2>2
  <2>4. Joined(v, Joined(I, M)) = Joined(u, Joined(c, Joined(I, M)))
    BY <1>1, <1>6, <1>a, <2>2
  <2>5. PICK w \in Seq(C) : w = Joined(c, Joined(I, M))
    BY <1>1, <1>6
  <2>6. Joined(u, w) = Joined(a, Joined(b, w))
    BY <1>1, <1>a, <2>1
  <2>7. QED
    BY <1>2, <1>3, <2>1, <2>2, <2>3, <2>4, <2>5, <2>6
<1>11. NoSlash(Rest(i, m)) = Joined(i, N)
  BY <1>1, <1>3, <1>6, <1>7, <1>8
<1>12. NoSlash(Written(a, c, i, m)) = Joined(a, Joined(c, Joined(i, N)))
  BY <1>1, <1>6, <1>9, <1>10, <1>11
<1>13. QED
  BY <1>9, <1>10, <1>12, <1>n DEF C, b, e, d

\* The parts of an item that is ok.
ItemIs(item, a, c, i, m) ==
  /\ item.ok = TRUE /\ item.app = a /\ item.class = c /\ item.instance = i
  /\ item.amount = m

(* What is written is read.                                                *)
LEMMA WrittenIsRead ==
  ASSUME ParsingAssumption, NEW a \in Numbers, NEW c \in Numbers,
         NEW i \in Numbers \cup {<<>>}, NEW m \in Numbers \cup {<<>>}
  PROVE  ItemIs(ItemInit(Written(a, c, i, m)), a, c, i, m)
<1> DEFINE C == StringChars
           b == <<"/">>
           d == <<"a">>
           e == <<>>
           R == Rest(i, m)
           s == Written(a, c, i, m)
           k == AssetKeyInit(s)
           Read(x, y) == [ok |-> TRUE, number |-> x, rest |-> y]
<1>1. /\ \A t, u \in Seq(C) : Joined(t, u) \in Seq(C)
      /\ \A t \in Seq(C) : Joined(t, e) = t /\ Joined(e, t) = t
      /\ \A x \in Numbers : x \in Seq(C) /\ x # e
      /\ b \in Seq(C) /\ d \in Seq(C) /\ e \in Seq(C)
  BY StringFacts
<1>a. \A t, u, v \in Seq(C) : Joined(Joined(t, u), v) = Joined(t, Joined(u, v))
  BY StringFacts
<1>2. R \in Seq(C) /\ s = Joined(a, Joined(b, Joined(c, R)))
  BY WrittenIs
<1>3. \A x \in Numbers : ParseNumberSlash(x, e) = Read(x, e)
  <2>1. TAKE x \in Numbers
  <2>2. e \in Seq(StringChars)
    BY <1>1
  <2> HIDE DEF e
  <2>3. ParseNumberSlash(x, e) = [ok |-> TRUE, number |-> x, rest |-> <<>>]
    BY <2>2, SlashBefore
  <2>4. QED
    BY <2>3 DEF e
<1>4. \A x \in Numbers, y \in Seq(C) : ParseNumberSlash(Joined(x, Joined(b, y)), e) = Read(x, y)
  BY SlashBefore DEF Joined
<1>5. \A y \in Seq(C) : y = e \/ Head(y) \notin Digits =>
          ParseNumberSlash(y, e) = [ok |-> FALSE, number |-> e, rest |-> y]
  BY SlashMissing
<1>6. \A y \in Seq(C) : Joined(d, y) # e /\ Head(Joined(d, y)) = "a" /\ Tail(Joined(d, y)) = y
  <2>1. TAKE y \in Seq(C)
  <2>2. "a" \in C
    BY DEF StringChars
  <2>3. Joined(d, y) \in Seq(C) /\ Len(Joined(d, y)) = 1 + Len(y) /\ Joined(d, y)[1] = "a"
    BY <2>2 DEF Joined
  <2>4. Joined(d, y) # e /\ Head(Joined(d, y)) = "a"
    BY <2>3
  <2>5. Tail(Joined(d, y)) = y
    BY <2>2 DEF Joined
  <2>6. QED
    BY <2>4, <2>5
<1>7. R = Joined(IF i = e THEN e ELSE Joined(b, i), IF m = e THEN e ELSE Joined(b, Joined(d, m)))
  BY DEF Rest
<1>8. "a" \notin Digits
  BY DEF ParsingAssumption
<1>9. k = LET app == ParseNumberSlash(s, e)
              class == ParseNumberSlash(app.rest, e)
              instance == ParseNumberSlash(class.rest, e)
              ok == app.ok /\ class.ok
          IN [ok |-> ok, app |-> app.number,
              class |-> IF app.ok THEN class.number ELSE e,
              instance |-> IF ok THEN instance.number ELSE e, amount |-> e,
              rest |-> IF ok THEN instance.rest ELSE IF app.ok THEN class.rest ELSE app.rest]
  BY DEF AssetKeyInit
<1>10. ItemInit(s) =
          LET amount == ParseNumberSlash(Tail(k.rest), e)
          IN IF ~k.ok \/ k.rest = e THEN k
             ELSE IF Head(k.rest) # "a" THEN [k EXCEPT !.ok = FALSE]
                  ELSE [k EXCEPT !.amount = amount.number, !.rest = amount.rest,
                                 !.ok = amount.ok /\ amount.rest = e]
  BY DEF ItemInit
<1>11. (i \in Numbers \/ i = e) /\ (m \in Numbers \/ m = e)
  OBVIOUS
<1> HIDE DEF b, d, e, R, s, k, C
<1>12. ParseNumberSlash(s, e) = Read(a, Joined(c, R))
  BY <1>1, <1>2, <1>4
<1>13. ASSUME NEW q \in Seq(C), ParseNumberSlash(Joined(c, R), e) = Read(c, q),
              NEW ok \in BOOLEAN, NEW r, ParseNumberSlash(q, e) = [ok |-> ok, number |-> i, rest |-> r]
       PROVE  k = [ok |-> TRUE, app |-> a, class |-> c, instance |-> i, amount |-> e, rest |-> r]
  <2>1. PICK x : x = ParseNumberSlash(s, e)
    OBVIOUS
  <2>2. x.ok = TRUE /\ x.number = a /\ x.rest = Joined(c, R)
    BY <1>12, <2>1
  <2>3. PICK y : y = ParseNumberSlash(x.rest, e)
    OBVIOUS
  <2>4. y.ok = TRUE /\ y.number = c /\ y.rest = q
    BY <1>13, <2>2, <2>3
  <2>5. PICK z : z = ParseNumberSlash(y.rest, e)
    OBVIOUS
  <2>6. z.number = i /\ z.rest = r
    BY <1>13, <2>4, <2>5
  <2>7. k = LET ok1 == x.ok /\ y.ok
            IN [ok |-> ok1, app |-> x.number, class |-> IF x.ok THEN y.number ELSE e,
                instance |-> IF ok1 THEN z.number ELSE e, amount |-> e,
                rest |-> IF ok1 THEN z.rest ELSE IF x.ok THEN y.rest ELSE x.rest]
    BY <1>9, <2>1, <2>3, <2>5
  <2>8. (x.ok /\ y.ok) = TRUE
    BY <2>2, <2>4
  <2>9. QED
    BY <2>2, <2>4, <2>6, <2>7, <2>8
<1> DEFINE Key(r) == [ok |-> TRUE, app |-> a, class |-> c, instance |-> i, amount |-> e, rest |-> r]
           Wanted(x) == /\ x.ok = TRUE /\ x.app = a /\ x.class = c /\ x.instance = i
                        /\ x.amount = m
<1>14. k = Key(IF m = e THEN e ELSE Joined(d, m))
  <2>1. CASE i = e /\ m = e
    <3>1. R = e
      BY <1>1, <1>7, <2>1
    <3>2. ParseNumberSlash(Joined(c, R), e) = Read(c, e)
      BY <1>1, <1>3, <3>1
    <3>3. ParseNumberSlash(e, e) = [ok |-> FALSE, number |-> i, rest |-> e]
      BY <1>1, <1>5, <2>1
    <3>4. k = Key(e)
      BY <1>1, <1>13, <3>2, <3>3
    <3>5. QED
      BY <2>1, <3>4
  <2>2. CASE i = e /\ m # e
    <3>0. m \in Seq(C)
      BY <1>1, <1>11, <2>2
    <3>1. Joined(d, m) \in Seq(C) /\ R = Joined(b, Joined(d, m))
      BY <1>1, <1>7, <2>2, <3>0
    <3>2. ParseNumberSlash(Joined(c, R), e) = Read(c, Joined(d, m))
      BY <1>4, <3>1
    <3>3. ParseNumberSlash(Joined(d, m), e) = [ok |-> FALSE, number |-> i, rest |-> Joined(d, m)]
      BY <1>5, <1>6, <1>8, <2>2, <3>0, <3>1
    <3>4. k = Key(Joined(d, m))
      BY <1>13, <3>1, <3>2, <3>3
    <3>5. QED
      BY <2>2, <3>4
  <2>3. CASE i # e /\ m = e
    <3>1. i \in Seq(C) /\ R = Joined(b, i)
      BY <1>1, <1>7, <1>11, <2>3
    <3>2. ParseNumberSlash(Joined(c, R), e) = Read(c, i)
      BY <1>4, <3>1
    <3>3. ParseNumberSlash(i, e) = [ok |-> TRUE, number |-> i, rest |-> e]
      BY <1>3, <1>11, <2>3
    <3>4. k = Key(e)
      BY <1>13, <3>1, <3>2, <3>3
    <3>5. QED
      BY <2>3, <3>4
  <2>4. CASE i # e /\ m # e
    <3>0. m \in Seq(C) /\ i \in Seq(C) /\ i \in Numbers
      BY <1>1, <1>11, <2>4
    <3>1. Joined(d, m) \in Seq(C) /\ Joined(b, Joined(d, m)) \in Seq(C)
      BY <1>1, <3>0
    <3>2. R = Joined(b, Joined(i, Joined(b, Joined(d, m))))
      BY <1>1, <1>7, <1>a, <2>4, <3>0, <3>1
    <3>3. PICK q \in Seq(C) : q = Joined(i, Joined(b, Joined(d, m)))
      BY <1>1, <3>0, <3>1
    <3>4. ParseNumberSlash(Joined(c, R), e) = Read(c, q)
      BY <1>4, <3>2, <3>3
    <3>5. ParseNumberSlash(q, e) = [ok |-> TRUE, number |-> i, rest |-> Joined(d, m)]
      BY <1>4, <3>0, <3>1, <3>3
    <3>6. k = Key(Joined(d, m))
      BY <1>13, <3>4, <3>5
    <3>7. QED
      BY <2>4, <3>6
  <2>5. QED
    BY <2>1, <2>2, <2>3, <2>4
<1>15. Wanted(ItemInit(s))
  <2>1. CASE m = e
    <3>1. k = Key(e)
      BY <1>14, <2>1
    <3>2. k.rest = e /\ Wanted(k)
      BY <2>1, <3>1
    <3>3. ItemInit(s) = k
      BY <1>10, <3>2
    <3>4. QED
      BY <3>2, <3>3
  <2>2. CASE m # e
    <3>1. k = Key(Joined(d, m)) /\ m \in Numbers /\ m \in Seq(C)
      BY <1>1, <1>11, <1>14, <2>2
    <3>2. k.ok = TRUE /\ k.rest = Joined(d, m)
      BY <3>1
    <3>3. k.rest # e /\ Head(k.rest) = "a" /\ Tail(k.rest) = m
      BY <1>6, <3>1, <3>2
    <3>4. ParseNumberSlash(m, e) = Read(m, e)
      BY <1>3, <3>1
    <3>5. PICK r : r = ParseNumberSlash(Tail(k.rest), e)
      OBVIOUS
    <3>a. r = ParseNumberSlash(m, e)
      BY <3>3, <3>5
    <3>b. r = [ok |-> TRUE, number |-> m, rest |-> e]
      BY <3>4, <3>a
    <3>6. r.number = m /\ r.rest = e /\ r.ok = TRUE
      BY <3>b
    <3>7. ItemInit(s) = [k EXCEPT !.amount = r.number, !.rest = r.rest, !.ok = r.ok /\ r.rest = e]
      BY <1>10, <3>2, <3>3, <3>5
    <3>8. (r.ok /\ r.rest = e) = TRUE
      BY <3>6
    <3>9. ItemInit(s) = [k EXCEPT !.amount = m, !.rest = e, !.ok = TRUE]
      BY <3>6, <3>7, <3>8
    <3>10. QED
      BY <3>1, <3>9
  <2>3. QED
    BY <2>1, <2>2
<1>16. QED
  BY <1>15 DEF s, ItemIs

(* What is accepted is what has been written, but for slashes.             *)
LEMMA ReadIsWritten ==
  ASSUME ParsingAssumption, NEW s \in Seq(StringChars), ItemInit(s).ok
  PROVE  LET item == ItemInit(s)
         IN NoSlash(s) = NoSlash(Written(item.app, item.class, item.instance, item.amount))
<1> DEFINE C == StringChars
           d == <<"a">>
           e == <<>>
           k == AssetKeyInit(s)
           r == ParseNumberSlash(Tail(k.rest), e)
           t == ItemInit(s)
<1>1. /\ \A u, v \in Seq(C) : Joined(u, v) \in Seq(C)
      /\ \A u \in Seq(C) : Joined(u, e) = u /\ Joined(e, u) = u
      /\ \A u, v \in Seq(C) : NoSlash(Joined(u, v)) = Joined(NoSlash(u), NoSlash(v))
      /\ \A x \in Numbers : x # e
      /\ NoSlash(d) = d /\ NoSlash(e) = e /\ d \in Seq(C) /\ e \in Seq(C)
  BY StringFacts
<1>2. t = IF ~k.ok \/ k.rest = e THEN k
          ELSE IF Head(k.rest) # "a" THEN [k EXCEPT !.ok = FALSE]
               ELSE [k EXCEPT !.amount = r.number, !.rest = r.rest,
                              !.ok = r.ok /\ r.rest = e]
  BY DEF ItemInit
<1>3. KeyRead(s) /\ k.ok \in BOOLEAN
  BY KeyIsRead
<1>4. k.ok = TRUE =>
       /\ k = [ok |-> TRUE, app |-> k.app, class |-> k.class, instance |-> k.instance,
               amount |-> e, rest |-> k.rest]
       /\ k.app \in Numbers /\ k.class \in Numbers /\ k.instance \in Numbers \cup {e}
       /\ k.rest \in Seq(C)
       /\ NoSlash(s) = Joined(k.app, Joined(k.class, Joined(k.instance, NoSlash(k.rest))))
  BY <1>3 DEF KeyRead, Joined
<1>5. \A u \in Seq(C) : u # e => Tail(u) \in Seq(C) /\ u = Joined(<<Head(u)>>, Tail(u))
  <2>1. TAKE u \in Seq(C)
  <2>2. HAVE u # e
  <2>3. Tail(u) \in Seq(C) /\ u = <<Head(u)>> \o Tail(u)
    BY <2>2, HeadTailProperties
  <2>4. QED
    BY <2>3 DEF Joined
<1>6. \A a, c \in Numbers, i, m \in Numbers \cup {e} :
          NoSlash(Written(a, c, i, m))
            = Joined(a, Joined(c, Joined(i, IF m = e THEN e ELSE Joined(d, m))))
  BY WrittenIs
<1>7. t.ok
  OBVIOUS
<1>8. \A u \in Seq(C) : SlashRead(u)
  BY SlashIsRead
<1> HIDE DEF C, d, e, k, r, t
<1>9. CASE ~k.ok
  <2>1. t = k
    BY <1>2, <1>9
  <2>2. QED
    BY <1>7, <1>9, <2>1
<1>10. CASE k.ok /\ k.rest = e
  <2>1. t = k /\ k.ok = TRUE
    BY <1>2, <1>3, <1>10
  <2>2. k.amount = e
    BY <1>4, <2>1
  <2>3. NoSlash(s) = Joined(k.app, Joined(k.class, Joined(k.instance, e)))
    BY <1>1, <1>4, <1>10, <2>1
  <2>4. NoSlash(Written(k.app, k.class, k.instance, e))
            = Joined(k.app, Joined(k.class, Joined(k.instance, e)))
    <3>1. \A a, c \in Numbers, i \in Numbers \cup {e} :
              NoSlash(Written(a, c, i, e)) = Joined(a, Joined(c, Joined(i, e)))
      <4>1. TAKE a, c \in Numbers, i \in Numbers \cup {e}
      <4>2. e \in Numbers \cup {e} /\ (IF e = e THEN e ELSE Joined(d, e)) = e
        OBVIOUS
      <4>3. NoSlash(Written(a, c, i, e))
              = Joined(a, Joined(c, Joined(i, IF e = e THEN e ELSE Joined(d, e))))
        BY <1>6, <4>2
      <4>4. QED
        BY <4>2, <4>3
    <3>2. k.app \in Numbers /\ k.class \in Numbers /\ k.instance \in Numbers \cup {e}
      BY <1>4, <2>1
    <3>3. QED
      BY <3>1, <3>2
  <2>5. QED
    BY <2>1, <2>2, <2>3, <2>4 DEF t
<1>11. CASE k.ok /\ k.rest # e /\ Head(k.rest) # "a"
  <2>1. t = [k EXCEPT !.ok = FALSE] /\ k.ok = TRUE
    BY <1>2, <1>3, <1>11
  <2>2. k = [ok |-> TRUE, app |-> k.app, class |-> k.class, instance |-> k.instance,
             amount |-> e, rest |-> k.rest]
    BY <1>4, <2>1
  <2>3. t.ok = FALSE
    BY <2>1, <2>2
  <2>4. QED
    BY <1>7, <2>3
<1>12. CASE k.ok /\ k.rest # e /\ Head(k.rest) = "a"
  <2>1. /\ t = [k EXCEPT !.amount = r.number, !.rest = r.rest, !.ok = r.ok /\ r.rest = e]
        /\ k.ok = TRUE
    BY <1>2, <1>3, <1>12
  <2>2. k = [ok |-> TRUE, app |-> k.app, class |-> k.class, instance |-> k.instance,
             amount |-> e, rest |-> k.rest]
    BY <1>4, <2>1
  <2>3. /\ t.app = k.app /\ t.class = k.class /\ t.instance = k.instance
        /\ t.amount = r.number /\ t.ok = (r.ok /\ r.rest = e)
    BY <2>1, <2>2
  <2>4. r.ok /\ r.rest = e
    BY <1>7, <2>3
  <2>5. PICK u \in Seq(C) : u = Tail(k.rest) /\ k.rest = Joined(d, u)
    BY <1>4, <1>5, <1>12, <2>1 DEF d
  <2>6. r.number \in Numbers /\ NoSlash(u) = Joined(r.number, NoSlash(r.rest))
    <3>1. r = ParseNumberSlash(u, <<>>)
      BY <2>5 DEF r, e
    <3>2. SlashRead(u)
      BY <1>8
    <3>3. QED
      BY <2>4, <3>1, <3>2 DEF SlashRead, Joined
  <2>7. r.number \in Seq(C) /\ r.number # e
    BY <1>1, <2>6, StringFacts DEF C
  <2>8. NoSlash(u) = r.number
    <3>1. \A x \in Seq(C) : Joined(x, NoSlash(e)) = x
      BY <1>1
    <3>2. QED
      BY <2>4, <2>6, <2>7, <3>1
  <2>9. NoSlash(k.rest) = Joined(d, r.number)
    <3>1. NoSlash(Joined(d, u)) = Joined(NoSlash(d), NoSlash(u))
      BY <1>1
    <3>2. NoSlash(d) = d
      BY <1>1
    <3>3. QED
      BY <2>5, <2>8, <3>1, <3>2
  <2>10. NoSlash(s) = Joined(k.app, Joined(k.class, Joined(k.instance, Joined(d, r.number))))
    BY <1>4, <2>1, <2>9
  <2>11. NoSlash(Written(k.app, k.class, k.instance, r.number))
            = Joined(k.app, Joined(k.class, Joined(k.instance, Joined(d, r.number))))
    BY <1>4, <1>6, <2>1, <2>6, <2>7
  <2>12. QED
    BY <2>3, <2>10, <2>11 DEF t
<1>13. QED
  BY <1>3, <1>9, <1>10, <1>11, <1>12

(* What is claimed of it.                                                  *)
LEMMA KeptItem ==
  ASSUME ParsingAssumption, NEW s \in Strings, question.kind = "item", question.of = s,
         NEW item, item = [f \in DOMAIN NoItem |-> ItemInit(s)[f]], parseResult.item = item
  PROVE  ItemsAreAsWritten
<1> DEFINE t == ItemInit(s)
<1>1. s \in Seq(StringChars)
  BY DEF ParsingAssumption, StringChars
<1>2. DOMAIN NoItem = {"ok", "app", "class", "instance", "amount"}
  BY DEF NoItem
<1> HIDE DEF t
<1>3. item = [f \in DOMAIN NoItem |-> t[f]]
  BY DEF t
<1>4. item = [ok |-> t.ok, app |-> t.app, class |-> t.class, instance |-> t.instance,
              amount |-> t.amount]
  BY <1>2, <1>3
<1>5. ASSUME NEW a \in Numbers, NEW c \in Numbers, NEW i \in Numbers \cup {<<>>},
             NEW m \in Numbers \cup {<<>>}, s = Written(a, c, i, m)
      PROVE  item = [ok |-> TRUE, app |-> a, class |-> c, instance |-> i, amount |-> m]
  <2>1. t.ok = TRUE /\ t.app = a /\ t.class = c /\ t.instance = i /\ t.amount = m
    <3>1. ItemIs(ItemInit(Written(a, c, i, m)), a, c, i, m)
      BY WrittenIsRead
    <3>2. ItemIs(t, a, c, i, m)
      BY <1>5, <3>1 DEF t
    <3>3. QED
      BY <3>2 DEF ItemIs
  <2>2. QED
    BY <1>4, <2>1
<1>6. ASSUME item.ok
      PROVE  NoSlash(s) = NoSlash(Written(item.app, item.class, item.instance, item.amount))
  <2>1. t.ok
    BY <1>4, <1>6
  <2>2. NoSlash(s) = NoSlash(Written(t.app, t.class, t.instance, t.amount))
    BY <1>1, <2>1, ReadIsWritten DEF t
  <2>3. QED
    BY <1>4, <2>2
<1>7. QED
  BY <1>5, <1>6 DEF ItemsAreAsWritten, NoSlash

\* What removing the blanks at the front does with a character.
NotLeading(rest, c) == IF rest = <<>> /\ c \in Blanks THEN rest ELSE Append(rest, c)
\* The same as a fold.
FromFirst(base, s) ==
  FoldLeft(LAMBDA rest, c : IF rest = <<>> /\ c \in Blanks THEN rest ELSE Append(rest, c), base, s)

\* h[I] is what passing leading blanks by makes of base and of the elements with an index in I.
LeadFolds(h, base, s, I) ==
  h = [J \in SUBSET I |->
         IF J = {} THEN base ELSE NotLeading(h[J \ {Max(J)}], s[Max(J)])]

(* It is such a function for all indices, if there is one.                 *)
LEMMA LeadIs ==
  ASSUME NEW base, NEW s
  PROVE  FromFirst(base, s) = (CHOOSE h : LeadFolds(h, base, s, DOMAIN s))[DOMAIN s]
BY DEF FromFirst, NotLeading, FoldLeft, MapThenFoldSet, LeadFolds

\* It stays within X, as long as the elements are taken from T.
LeadWithin(X, T) == \A x \in X, y \in T : NotLeading(x, y) \in X

\* It takes the elements of s one by one.
LeadInTurn(base, s, X, T) ==
  /\ FromFirst(base, s) \in X
  /\ s = <<>> => FromFirst(base, s) = base
  /\ \A y \in T : FromFirst(base, Append(s, y)) = NotLeading(FromFirst(base, s), y)

(* It takes the elements one by one.                                       *)
LEMMA LeadSteps ==
  ASSUME NEW T, NEW X, NEW base \in X, NEW s \in Seq(T), LeadWithin(X, T)
  PROVE  LeadInTurn(base, s, X, T)
<1>0. \A x \in X, y \in T : NotLeading(x, y) \in X
  BY DEF LeadWithin
<1> DEFINE next == [p \in X \X T |-> NotLeading(p[1], p[2])]
<1>1. next \in [X \X T -> X] /\ \A x \in X, y \in T : next[x, y] = NotLeading(x, y)
  BY <1>0
<1> HIDE DEF next
<1>2. ASSUME NEW t \in Seq(T)
      PROVE  FromFirst(base, t) = Folded(next, base, t)
  <2> DEFINE h == CHOOSE f : LeadFolds(f, base, t, 1..Len(t))
             g == [n \in 0..Len(t) |-> h[1..n]]
  <2>0. Len(t) \in Nat /\ DOMAIN t = 1..Len(t)
    OBVIOUS
  <2>1. \E f : LeadFolds(f, base, t, 1..Len(t))
    <3>1. PICK f : /\ f \in [SUBSET (1..Len(t)) -> X]
                   /\ Folds(f, next, base, t, 1..Len(t))
      BY <1>1, FoldingExists
    <3>2. ASSUME NEW J \in SUBSET (1..Len(t)), J # {}
          PROVE  f[J] = NotLeading(f[J \ {Max(J)}], t[Max(J)])
      <4>1. Max(J) \in J /\ J \ {Max(J)} \in SUBSET (1..Len(t))
        BY <2>0, <3>2, GreatestIndex
      <4>2. f[J \ {Max(J)}] \in X
        BY <3>1, <4>1, Zenon
      <4>3. Max(J) \in 1..Len(t)
        BY <4>1
      <4>4. t[Max(J)] \in T
        BY <4>3
      <4>5. f[J] = next[f[J \ {Max(J)}], t[Max(J)]]
        BY <3>1, <3>2 DEF Folds
      <4>6. QED
        BY <1>1, <4>2, <4>4, <4>5
    <3>3. f[{}] = base /\ f = [J \in SUBSET (1..Len(t)) |-> f[J]]
      BY <3>1 DEF Folds
    <3>4. LeadFolds(f, base, t, 1..Len(t))
      BY <3>2, <3>3 DEF LeadFolds
    <3>5. QED
      BY <3>4
  <2>2. LeadFolds(h, base, t, 1..Len(t))
    BY <2>1
  <2>3. FromFirst(base, t) = h[1..Len(t)]
    BY <2>0, LeadIs
  <2> HIDE DEF h
  <2>4. \A J \in SUBSET (1..Len(t)) :
            h[J] = IF J = {} THEN base ELSE NotLeading(h[J \ {Max(J)}], t[Max(J)])
    BY <2>2 DEF LeadFolds
  <2>5. g[0] = base
    <3>1. 1..0 = {} /\ {} \in SUBSET (1..Len(t)) /\ g[0] = h[1..0]
      BY <2>0
    <3>2. h[{}] = base
      BY <2>4
    <3> HIDE DEF g
    <3>3. QED
      BY <3>1, <3>2
  <2>6. ASSUME NEW i \in 1..Len(t), g[i - 1] \in X
        PROVE  g[i] = next[g[i - 1], t[i]]
    <3>1. /\ 1..i \in SUBSET (1..Len(t)) /\ 1..i # {} /\ Max(1..i) = i
          /\ (1..i) \ {i} = 1..(i - 1)
      BY <2>0, IndicesUpTo
    <3>2. g[i] = h[1..i] /\ g[i - 1] = h[1..(i - 1)] /\ t[i] \in T
      BY <2>0
    <3> HIDE DEF g
    <3>3. g[i] = NotLeading(g[i - 1], t[i])
      BY <2>4, <3>1, <3>2
    <3>4. QED
      BY <1>1, <2>6, <3>2, <3>3
  <2>7. g[Len(t)] = h[1..Len(t)]
    BY <2>0
  <2> HIDE DEF g
  <2>8. Folding(g, next, base, t)
    BY <1>1, <2>5, <2>6, FoldingBy DEF FoldingIn
  <2>9. Folded(next, base, t) = g[Len(t)] /\ \A n \in 0..Len(t) : g[n] \in X
    BY <1>1, <2>8, FoldedIs
  <2>10. QED
    BY <2>3, <2>7, <2>9
<1>a. next \in [X \X T -> X] /\ s \in Seq(T) /\ base \in X
  BY <1>1
<1>3. FoldsInTurn(next, base, s, X, T)
  BY <1>a, FoldedFacts
<1>4. ASSUME NEW y \in T
      PROVE  FromFirst(base, Append(s, y)) = NotLeading(FromFirst(base, s), y)
  <2>1. Append(s, y) \in Seq(T)
    OBVIOUS
  <2>2. FromFirst(base, Append(s, y)) = Folded(next, base, Append(s, y))
    BY <1>2, <2>1
  <2>3. Folded(next, base, Append(s, y)) = NotLeading(Folded(next, base, s), y)
    BY <1>1, <1>3 DEF FoldsInTurn
  <2>4. QED
    BY <1>2, <2>2, <2>3
<1>5. QED
  BY <1>2, <1>3, <1>4 DEF FoldsInTurn, LeadInTurn

\* What is left of s after blanks in front of it.
AfterLead(r, s, T) ==
  /\ r \in Seq(T) /\ (r # <<>> => r[1] \notin Blanks)
  /\ \E b \in Seq(T) : Range(b) \subseteq Blanks /\ s = b \o r

(* One character more.                                                     *)
LEMMA LeftMore ==
  ASSUME NEW T, NEW s \in Seq(T), NEW r, AfterLead(r, s, T), NEW c \in T
  PROVE  AfterLead(NotLeading(r, c), Append(s, c), T)
<1>1. r \in Seq(T) /\ (r # <<>> => r[1] \notin Blanks)
  BY DEF AfterLead
<1>2. PICK b \in Seq(T) : Range(b) \subseteq Blanks /\ s = b \o r
  BY DEF AfterLead
<1>3. CASE r = <<>> /\ c \in Blanks
  <2>1. PICK d : d = Append(b, c)
    OBVIOUS
  <2>2. d \in Seq(T) /\ Range(d) = Range(b) \cup {c}
    BY <2>1, RangeAppend
  <2>3. s = b
    BY <1>2, <1>3, ConcatEmptySeq
  <2>4. d \o <<>> = d
    BY <2>2, ConcatEmptySeq
  <2>5. Append(s, c) = d \o r
    BY <1>3, <2>1, <2>3, <2>4
  <2>6. Range(d) \subseteq Blanks
    BY <1>2, <1>3, <2>2
  <2>7. AfterLead(r, Append(s, c), T)
    BY <1>1, <2>2, <2>5, <2>6 DEF AfterLead
  <2>8. NotLeading(r, c) = r
    BY <1>3 DEF NotLeading
  <2>9. QED
    BY <2>7, <2>8
<1>4. CASE ~(r = <<>> /\ c \in Blanks)
  <2>1. PICK u : u = Append(r, c)
    OBVIOUS
  <2>2. /\ u \in Seq(T) /\ Len(u) = Len(r) + 1 /\ u[Len(r) + 1] = c /\ Len(r) \in Nat
        /\ \A i \in 1..Len(r) : u[i] = r[i]
    BY <1>1, <2>1, AppendFacts
  <2>3. Append(s, c) = b \o u
    <3>1. b \o Append(r, c) = Append(b \o r, c)
      BY <1>1, AppendOfConcat
    <3>2. QED
      BY <1>2, <2>1, <3>1
  <2>4. u[1] \notin Blanks
    <3>1. CASE r = <<>>
      <4>1. Len(r) = 0 /\ c \notin Blanks
        BY <1>4, <3>1
      <4>2. u[0 + 1] = c /\ 0 + 1 = 1
        BY <2>2, <4>1
      <4>3. QED
        BY <4>1, <4>2
    <3>2. CASE r # <<>>
      <4>1. 1 \in 1..Len(r)
        BY <1>1, <2>2, <3>2, EmptySeq
      <4>2. QED
        BY <1>1, <2>2, <3>2, <4>1
    <3>3. QED
      BY <3>1, <3>2
  <2>5. AfterLead(u, Append(s, c), T)
    BY <1>2, <2>2, <2>3, <2>4 DEF AfterLead
  <2>6. NotLeading(r, c) = u
    BY <1>4, <2>1 DEF NotLeading
  <2>7. QED
    BY <2>5, <2>6
<1>5. QED
  BY <1>3, <1>4

(* removePrefix() leaves what follows the blanks in front.                 *)
LEMMA PrefixIsLeft ==
  ASSUME NEW T, NEW s \in Seq(T)
  PROVE  AfterLead(RemovePrefix(s), s, T)
<1> DEFINE e == <<>>
           A == {u \in Seq(T) : AfterLead(FromFirst(e, u), u, T)}
<1>0. e \in Seq(T)
  OBVIOUS
<1>r. RemovePrefix(s) = FromFirst(e, s)
  BY DEF RemovePrefix, FromFirst
<1>e. Range(e) = {} /\ e \o e = e /\ <<>> = e
  <2>1. e \o e = e
    BY <1>0, ConcatEmptySeq
  <2>2. Range(<<>>) = {}
    BY <1>0, RangeIs
  <2>3. QED
    BY <2>1, <2>2
<1> HIDE DEF e
<1>1. LeadWithin(Seq(T), T)
  <2>1. ASSUME NEW x \in Seq(T), NEW c \in T PROVE NotLeading(x, c) \in Seq(T)
    <3>1. Append(x, c) \in Seq(T)
      BY AppendFacts
    <3>2. QED
      BY <3>1 DEF NotLeading
  <2>2. QED
    BY <2>1 DEF LeadWithin
<1>2. \A u \in Seq(T) : LeadInTurn(e, u, Seq(T), T)
  BY <1>0, <1>1, LeadSteps
<1>3. <<>> \in A
  <2>1. FromFirst(e, e) = e
    BY <1>0, <1>2, <1>e DEF LeadInTurn
  <2>2. AfterLead(e, e, T)
    BY <1>0, <1>e DEF AfterLead
  <2>3. QED
    BY <1>0, <1>e, <2>1, <2>2
<1>4. ASSUME NEW u \in Seq(T), NEW c \in T, u \in A
      PROVE  Append(u, c) \in A
  <2>1. Append(u, c) \in Seq(T)
    BY AppendFacts
  <2>2. FromFirst(e, Append(u, c)) = NotLeading(FromFirst(e, u), c)
    BY <1>2 DEF LeadInTurn
  <2>3. AfterLead(FromFirst(e, u), u, T)
    BY <1>4
  <2>4. AfterLead(NotLeading(FromFirst(e, u), c), Append(u, c), T)
    BY <2>3, LeftMore
  <2>5. QED
    BY <2>1, <2>2, <2>4
<1>5. Seq(T) \subseteq A
  <2> HIDE DEF A
  <2>1. QED
    BY <1>3, <1>4, GrowingSeqs
<1>6. QED
  BY <1>5, <1>r

(* Two that follow each other.                                             *)
LEMMA ReverseConcat ==
  ASSUME NEW T, NEW s \in Seq(T), NEW t \in Seq(T)
  PROVE  Reverse(s \o t) = Reverse(t) \o Reverse(s)
<1>1. PICK u : u = s \o t
  OBVIOUS
<1>2. /\ u \in Seq(T) /\ Len(u) = Len(s) + Len(t) /\ Len(s) \in Nat /\ Len(t) \in Nat
      /\ \A i \in 1..Len(s) : u[i] = s[i]
      /\ \A i \in 1..Len(t) : u[i + Len(s)] = t[i]
  BY <1>1, ConcatFacts
<1>3. PICK a \in Seq(T), b \in Seq(T), c \in Seq(T) :
           a = Reverse(u) /\ b = Reverse(t) /\ c = Reverse(s)
  <2>1. Reverse(u) \in Seq(T) /\ Reverse(t) \in Seq(T) /\ Reverse(s) \in Seq(T)
    BY <1>2, ReverseFacts
  <2>2. QED
    BY <2>1
<1>4. PICK m, n : m = Len(s) /\ n = Len(t)
  OBVIOUS
<1>5. /\ m \in Nat /\ n \in Nat
      /\ a \in Seq(T) /\ Len(a) = m + n /\ \A i \in 1..(m + n) : a[i] = u[((m + n) - i) + 1]
      /\ b \in Seq(T) /\ Len(b) = n /\ \A i \in 1..n : b[i] = t[(n - i) + 1]
      /\ c \in Seq(T) /\ Len(c) = m /\ \A i \in 1..m : c[i] = s[(m - i) + 1]
  <2>1. a \in Seq(T) /\ Len(a) = Len(u) /\ \A i \in 1..Len(u) : a[i] = u[(Len(u) - i) + 1]
    BY <1>2, <1>3, ReverseFacts
  <2>2. b \in Seq(T) /\ Len(b) = n /\ \A i \in 1..n : b[i] = t[(n - i) + 1]
    BY <1>3, <1>4, ReverseFacts
  <2>3. c \in Seq(T) /\ Len(c) = m /\ \A i \in 1..m : c[i] = s[(m - i) + 1]
    BY <1>3, <1>4, ReverseFacts
  <2>4. Len(u) = m + n
    BY <1>2, <1>4
  <2>5. QED
    BY <1>2, <1>4, <2>1, <2>2, <2>3, <2>4
<1>6. PICK d : d = b \o c
  OBVIOUS
<1>7. /\ d \in Seq(T) /\ Len(d) = n + m
      /\ \A i \in 1..n : d[i] = b[i]
      /\ \A i \in 1..m : d[i + n] = c[i]
  <2>1. Len(b) = n /\ Len(c) = m
    BY <1>5
  <2>2. /\ b \o c \in Seq(T) /\ Len(b \o c) = Len(b) + Len(c)
        /\ \A i \in 1..Len(b) : (b \o c)[i] = b[i]
        /\ \A i \in 1..Len(c) : (b \o c)[i + Len(b)] = c[i]
    BY ConcatFacts
  <2>3. QED
    BY <1>6, <2>1, <2>2
<1>8. ASSUME NEW i \in 1..(m + n) PROVE a[i] = d[i]
  <2>1. CASE i <= n
    <3>1. i \in 1..n /\ (n - i) + 1 \in 1..n /\ ((m + n) - i) + 1 = ((n - i) + 1) + m
      BY <1>5, <2>1
    <3>2. u[((n - i) + 1) + m] = t[(n - i) + 1]
      BY <1>2, <1>4, <3>1
    <3>3. QED
      BY <1>5, <1>7, <3>1, <3>2
  <2>2. CASE i > n
    <3>1. PICK j : j = i - n
      OBVIOUS
    <3>2. j \in 1..m /\ i = j + n /\ (m - j) + 1 \in 1..m /\ ((m + n) - i) + 1 = (m - j) + 1
      BY <1>5, <2>2, <3>1
    <3>3. u[(m - j) + 1] = s[(m - j) + 1]
      BY <1>2, <1>4, <3>2
    <3>4. QED
      BY <1>5, <1>7, <3>2, <3>3
  <2>3. QED
    BY <1>5, <2>1, <2>2
<1>9. a = d
  BY <1>5, <1>7, <1>8, SeqEqual
<1>10. QED
  BY <1>1, <1>3, <1>6, <1>9

\* The text without the blanks at its ends.
TrimmedOf(t, s, T) ==
  /\ t \in Seq(T)
  /\ t # <<>> => t[1] \notin Blanks /\ t[Len(t)] \notin Blanks
  /\ Kept(t, T \ Blanks) = Kept(s, T \ Blanks)
  /\ \E i, j \in 1..(Len(s) + 1) : t = SubSeq(s, i, j - 1)

(* It is what trimWhitespace() returns.                                    *)
LEMMA TrimmedIs ==
  ASSUME NEW T, NEW s \in Seq(T)
  PROVE  TrimmedOf(TrimWhitespace(s), s, T)
<1> DEFINE L == T \ Blanks
<1>1. PICK r : r = RemovePrefix(s)
  OBVIOUS
<1>2. r \in Seq(T) /\ (r # <<>> => r[1] \notin Blanks)
  BY <1>1, PrefixIsLeft DEF AfterLead
<1>3. PICK b \in Seq(T) : Range(b) \subseteq Blanks /\ s = b \o r
  BY <1>1, PrefixIsLeft DEF AfterLead
<1>4. PICK v : v = Reverse(r)
  OBVIOUS
<1>5. v \in Seq(T) /\ Reverse(v) = r
  BY <1>2, <1>4, ReverseFacts
<1>6. PICK q : q = RemovePrefix(v)
  OBVIOUS
<1>7. q \in Seq(T) /\ (q # <<>> => q[1] \notin Blanks)
  BY <1>5, <1>6, PrefixIsLeft DEF AfterLead
<1>8. PICK x \in Seq(T) : Range(x) \subseteq Blanks /\ v = x \o q
  BY <1>5, <1>6, PrefixIsLeft DEF AfterLead
<1>9. PICK t \in Seq(T), d \in Seq(T) : t = Reverse(q) /\ d = Reverse(x)
  <2>1. Reverse(q) \in Seq(T) /\ Reverse(x) \in Seq(T)
    BY <1>7, ReverseFacts
  <2>2. QED
    BY <2>1
<1>10. TrimWhitespace(s) = t
  BY <1>1, <1>4, <1>6, <1>9 DEF TrimWhitespace
<1>11. /\ t \in Seq(T) /\ Len(t) = Len(q) /\ d \in Seq(T) /\ Range(d) \subseteq Blanks
       /\ \A i \in 1..Len(q) : t[i] = q[(Len(q) - i) + 1]
  BY <1>7, <1>8, <1>9, ReverseFacts
<1>12. r = t \o d
  BY <1>5, <1>7, <1>8, <1>9, ReverseConcat
<1>13. PICK k, n : k = Len(b) /\ n = Len(t)
  OBVIOUS
<1>14. /\ k \in Nat /\ n \in Nat /\ Len(d) \in Nat /\ Len(r) = n + Len(d) /\ Len(s) = k + Len(r)
       /\ \A i \in 1..n : r[i] = t[i]
       /\ \A i \in 1..Len(r) : s[i + k] = r[i]
  <2>1. t \in Seq(T) /\ d \in Seq(T) /\ b \in Seq(T) /\ r \in Seq(T)
    BY <1>2, <1>11
  <2>2. /\ Len(t \o d) = Len(t) + Len(d) /\ Len(t) \in Nat /\ Len(d) \in Nat
        /\ \A i \in 1..Len(t) : (t \o d)[i] = t[i]
    BY <2>1, ConcatFacts
  <2>3. /\ Len(b \o r) = Len(b) + Len(r) /\ Len(b) \in Nat /\ Len(r) \in Nat
        /\ \A i \in 1..Len(r) : (b \o r)[i + Len(b)] = r[i]
    BY <2>1, ConcatFacts
  <2>4. s = b \o r
    BY <1>3
  <2>5. QED
    BY <1>12, <1>13, <2>2, <2>3, <2>4
<1>15. ASSUME t # <<>>
       PROVE  t[1] \notin Blanks /\ t[n] \notin Blanks
  <2>1. n # 0
    BY <1>11, <1>13, <1>15, EmptySeq
  <2>2. 1 \in 1..n /\ n \in 1..n /\ n = Len(q) /\ (n - n) + 1 = 1 /\ Len(r) # 0
    BY <1>11, <1>13, <1>14, <2>1
  <2>3. r # <<>> /\ q # <<>>
    BY <2>1, <2>2
  <2>4. t[n] = q[1]
    BY <1>11, <2>2
  <2>5. t[1] = r[1]
    BY <1>14, <2>2
  <2>6. QED
    BY <1>2, <1>7, <2>3, <2>4, <2>5
<1>16. Kept(t, L) = Kept(s, L)
  <2>1. L \cap Blanks = {}
    OBVIOUS
  <2> HIDE DEF L
  <2>2. Range(b) \cap L = {} /\ Range(d) \cap L = {}
    BY <1>3, <1>11, <2>1
  <2>3. Kept(s, L) = Kept(r, L)
    BY <1>2, <1>3, <2>2, KeptBetween
  <2>4. Kept(r, L) = Kept(t, L)
    BY <1>12, <2>2, KeptBetween
  <2>5. QED
    BY <2>3, <2>4
<1>17. \E i, j \in 1..(Len(s) + 1) : t = SubSeq(s, i, j - 1)
  <2>1. k + 1 \in 1..(Len(s) + 1) /\ k + n + 1 \in 1..(Len(s) + 1) /\ (k + n + 1) - 1 = k + n
    BY <1>14
  <2>2. PICK u : u = SubSeq(s, k + 1, k + n)
    OBVIOUS
  <2>3. u = [i \in 1..n |-> s[i + k]]
    <3>1. u = [i \in 1..(1 + (k + n) - (k + 1)) |-> s[i + (k + 1) - 1]]
      BY <1>14, <2>2
    <3>2. 1 + (k + n) - (k + 1) = n /\ \A i \in 1..n : i + (k + 1) - 1 = i + k
      BY <1>14
    <3>3. QED
      BY <3>1, <3>2
  <2>4. \A i \in 1..n : s[i + k] = t[i]
    BY <1>14
  <2>5. t = [i \in 1..n |-> t[i]]
    BY <1>11, <1>13
  <2>6. u = t
    BY <2>3, <2>4, <2>5
  <2>7. t = SubSeq(s, k + 1, (k + n + 1) - 1)
    BY <2>1, <2>2, <2>6
  <2>8. QED
    BY <2>1, <2>7
<1>18. QED
  BY <1>10, <1>11, <1>13, <1>15, <1>16, <1>17 DEF TrimmedOf

-----------------------------------------------------------------------------
(* Elements                                                                *)

\* All characters of an element's texts, and the space.
Characters(e) == {" "} \cup UNION {Range(t) : t \in Range(e)}

(* An element is a sequence of texts.                                      *)
LEMMA ElementsAre ==
  ASSUME ParsingAssumption, NEW e \in Elements
  PROVE  e \in Seq(Seq(Characters(e))) /\ HasSpace(Characters(e))
<1>1. e \in Seq(Range(e)) /\ \A t \in Range(e) : t \in Seq(Range(t))
  BY DEF ParsingAssumption
<1>2. \A t \in Range(e) : Range(t) \subseteq Characters(e)
  BY DEF Characters
<1>3. \A t \in Range(e) : t \in Seq(Characters(e))
  <2>1. TAKE t \in Range(e)
  <2>2. t \in Seq(Range(t)) /\ Range(t) \subseteq Characters(e)
    BY <1>1, <1>2
  <2>3. QED
    BY <2>2
<1>4. PICK X : X = Seq(Characters(e))
  OBVIOUS
<1>5. Range(e) \subseteq X
  BY <1>3, <1>4
<1>6. e \in Seq(X)
  BY <1>1, <1>5
<1>7. HasSpace(Characters(e))
  BY DEF HasSpace, Characters
<1>8. QED
  BY <1>4, <1>6, <1>7

(* Texts of tabs and line ends make one of them.                           *)
LEMMA WhiteText ==
  ASSUME NEW T, NEW e \in Seq(Seq(T)), \A i \in 1..Len(e) : IsWhitespace(e[i])
  PROVE  Range(FlattenSeq(e)) \subseteq Tabs
<1>1. PICK X : X = Seq(Tabs)
  OBVIOUS
<1>2. \A i \in 1..Len(e) : e[i] \in X
  <2>1. TAKE i \in 1..Len(e)
  <2>2. PICK t : t = e[i]
    OBVIOUS
  <2>3. t \in Seq(T) /\ Len(t) \in Nat
    BY <2>2
  <2>4. \A j \in 1..Len(t) : t[j] \in Tabs
    BY <2>2, <2>3 DEF IsWhitespace, ToSet
  <2>5. t \in Seq(Tabs)
    <3>1. t = [j \in 1..Len(t) |-> t[j]]
      BY <2>3
    <3> HIDE DEF Tabs
    <3>2. t \in [1..Len(t) -> Tabs]
      BY <2>4, <3>1
    <3>3. QED
      BY <2>3, <3>2
  <2>6. QED
    BY <1>1, <2>2, <2>5
<1>3. e \in Seq(X)
  BY <1>2
<1>4. FlattenSeq(e) \in Seq(Tabs)
  BY <1>1, <1>3, FlattenSteps DEF FlattensInTurn
<1>5. QED
  BY <1>4, RangeIs

\* What is made of an element.
ElementAnswer(e, res) ==
  /\ res.classes = {n \in ClassNames : CheckClass(FlattenSeq(e), n)}
  /\ res.text = GetCleanText(e)
  /\ res.trimmed = TrimWhitespace(FlattenSeq(e))
  /\ res.white = \A i \in 1..Len(e) : IsWhitespace(e[i])

(* It is what is claimed of it.                                            *)
LEMMA KeptText ==
  ASSUME ParsingAssumption, NEW e \in Elements, question.of = e, ElementAnswer(e, parseResult)
  PROVE  TextsAreRight
<1> DEFINE T == Characters(e)
           text == FlattenSeq(e)
           clean == parseResult.text
           trimmed == parseResult.trimmed
<1>1. e \in Seq(Seq(T)) /\ HasSpace(T)
  BY ElementsAre
<1> HIDE DEF T
<1>2. text \in Seq(T)
  BY <1>1, FlattenSteps DEF FlattensInTurn
<1>3. CleanOf(clean, text, T)
  BY <1>1, CleanIs DEF ElementAnswer
<1> HIDE DEF clean
<1>4. /\ clean \in Seq(T) /\ Kept(clean, T \ Blanks) = Kept(text, T \ Blanks)
      /\ Words(clean, {" "}) = Words(text, Blanks) /\ Range(clean) \cap Tabs = {}
      /\ \A i \in 1..Len(clean) :
             IsSpace(clean[i]) => i \notin {1, Len(clean)} /\ ~IsSpace(clean[i + 1])
  BY <1>3 DEF CleanOf
<1>5. TrimmedOf(trimmed, text, T)
  BY <1>2, TrimmedIs DEF ElementAnswer
<1>6. parseResult.classes = {n \in ClassNames : CheckClass(text, n)}
  BY DEF ElementAnswer
<1>7. parseResult.white => \A i \in 1..Len(e) : IsWhitespace(e[i])
  BY DEF ElementAnswer
<1>w. (\A i \in 1..Len(e) : IsWhitespace(e[i])) => Range(text) \subseteq Tabs
  BY <1>1, WhiteText
<1> HIDE DEF text, trimmed
<1>8. /\ trimmed \in Seq(T)
      /\ trimmed # <<>> => trimmed[1] \notin Blanks /\ trimmed[Len(trimmed)] \notin Blanks
      /\ Kept(trimmed, T \ Blanks) = Kept(text, T \ Blanks)
      /\ \E i, j \in 1..(Len(text) + 1) : trimmed = SubSeq(text, i, j - 1)
  BY <1>5 DEF TrimmedOf
<1>9. \A u \in Seq(T) : Letters(u) = Kept(u, T \ Blanks)
  <2>1. TAKE u \in Seq(T)
  <2>2. (Range(u) \ Blanks) \cap Range(u) = (T \ Blanks) \cap Range(u)
    BY RangeIs
  <2>3. QED
    BY <2>2, KeptSame DEF Letters
<1>10. Letters(clean) = Letters(text) /\ Letters(trimmed) = Letters(text)
  BY <1>2, <1>4, <1>8, <1>9
<1>11. parseResult.classes = ClassNames \cap {LowerWord(w) : w \in Words(text, {" "})}
  <2>1. ASSUME NEW n \in ClassNames
        PROVE  CheckClass(text, n) <=> n \in {LowerWord(w) : w \in Words(text, {" "})}
    <3>1. PICK C : C = Range(n)
      OBVIOUS
    <3>2. n \in Seq(C)
      BY <3>1 DEF ParsingAssumption
    <3>3. CheckClass(text, n) <=> \E w \in Words(text, {" "}) : LowerWord(w) = n
      BY <1>2, <3>2, ClassesAreWords
    <3>4. QED
      BY <3>3
  <2>2. QED
    BY <1>6, <2>1
<1>12. ToSet(clean) \cap Tabs = {}
  BY <1>4 DEF ToSet, Range
<1>13. trimmed # <<>> => Head(trimmed) \notin Blanks /\ Last(trimmed) \notin Blanks
  BY <1>8 DEF Last
<1>14. parseResult.white => clean = <<>>
  <2>1. SUFFICES ASSUME parseResult.white, clean # <<>> PROVE FALSE
    OBVIOUS
  <2>2. Range(text) \subseteq Tabs
    BY <1>7, <1>w, <2>1
  <2>3. Range(text) \cap (T \ Blanks) = {}
    BY <2>2 DEF Blanks
  <2>4. Kept(text, T \ Blanks) = <<>>
    BY <1>2, <2>3, KeptAll
  <2>5. Range(<<>>) = {}
    <3>1. <<>> \in Seq(T)
      OBVIOUS
    <3>2. QED
      BY <3>1, RangeIs
  <2>6. Range(clean) \cap (T \ Blanks) = {}
    BY <1>4, <2>4, <2>5, KeptRange
  <2>7. 1 \in 1..Len(clean)
    <3>1. clean \in Seq(T) /\ clean # <<>>
      BY <1>4, <2>1
    <3>2. Len(clean) \in Nat \ {0}
      BY <3>1, EmptySeq
    <3>3. QED
      BY <3>2
  <2>8. clean[1] \in T /\ clean[1] \in Range(clean)
    BY <1>4, <2>7, RangeIs
  <2>9. clean[1] \in Blanks /\ clean[1] \notin Tabs
    BY <1>4, <2>6, <2>8
  <2>10. IsSpace(clean[1])
    BY <2>9 DEF Blanks, IsSpace
  <2>11. QED
    BY <1>4, <2>7, <2>10
<1>15. \A i \in 1..Len(clean) : clean[i] = " " => i \notin {1, Len(clean)} /\ clean[i + 1] # " "
  BY <1>4 DEF IsSpace
<1>16. QED
  BY <1>4, <1>8, <1>10, <1>11, <1>12, <1>13, <1>14, <1>15
     DEF TextsAreRight, LowerWord, text, clean, trimmed

-----------------------------------------------------------------------------
(* The helpers of the parsers                                              *)

\* What is parsed, and what comes of it; and the document.
ParsingKept ==
  /\ \/ question.kind = "element" /\ question.of \in Elements
     \/ question.kind = "item" /\ question.of \in Strings
     \/ question.kind = "none"
  /\ DOMAIN parseResult = DOMAIN NoAnswer /\ DOMAIN parseResult.item = DOMAIN NoItem
  /\ parseResult.classes \subseteq ClassNames
  /\ parseResult.parsed /\ question.kind = "element" => ElementAnswer(question.of, parseResult)
  /\ parseResult.parsed /\ question.kind = "item" =>
       parseResult.item = [f \in DOMAIN NoItem |-> ItemInit(question.of)[f]]
  /\ DocumentKept

(* The words of a class list are found, the clean text has all letters and *)
(* words, trimmed text no blanks at its ends; items are what their strings *)
(* say; and no value of a document is lost or left behind.                 *)
THEOREM TextsAndDocumentsAreRight ==
  ASSUME ParsingAssumption
  PROVE  ParsingSpec =>
           [](ParsingTypeOK /\ TextsAreRight /\ ItemsAreAsWritten /\ DocumentsAreRight)
<1>1. ParsingInit => ParsingKept
  <2>1. SUFFICES ASSUME ParsingInit PROVE ParsingKept
    OBVIOUS
  <2>2. parseResult = NoAnswer /\ NoAnswer.item = NoItem /\ NoAnswer.classes = {}
        /\ NoAnswer.parsed = FALSE
    BY <2>1 DEF ParsingInit, NoAnswer
  <2>3. DocumentKept
    BY <2>1, DocumentsKept
  <2>4. \/ question.kind = "element" /\ question.of \in Elements
        \/ question.kind = "item" /\ question.of \in Strings
        \/ question.kind = "none"
    BY <2>1 DEF ParsingInit
  <2>5. QED
    BY <2>2, <2>3, <2>4 DEF ParsingKept
<1>2. ASSUME ParsingKept, [ParsingNext]_parsingVars
      PROVE  ParsingKept'
  <2>1. DocumentKept'
    BY <1>2, DocumentsKept DEF ParsingKept
  <2>2. CASE ParseElement
    <3>1. PICK e : e = question.of
      OBVIOUS
    <3>2. question' = question /\ question.kind = "element" /\ e \in Elements
      BY <1>2, <2>2, <3>1 DEF ParsingKept, ParseElement
    <3>3. parseResult' = [NoAnswer EXCEPT !.parsed = TRUE,
              !.classes = {n \in ClassNames : CheckClass(FlattenSeq(e), n)},
              !.text = GetCleanText(e), !.trimmed = TrimWhitespace(FlattenSeq(e)),
              !.white = \A i \in 1..Len(e) : IsWhitespace(e[i])]
      BY <2>2, <3>1 DEF ParseElement
    <3>4. PICK c, t, m, w : /\ c = {n \in ClassNames : CheckClass(FlattenSeq(e), n)}
                            /\ t = GetCleanText(e) /\ m = TrimWhitespace(FlattenSeq(e))
                            /\ w = (\A i \in 1..Len(e) : IsWhitespace(e[i]))
      OBVIOUS
    <3>5. parseResult' = [NoAnswer EXCEPT !.parsed = TRUE, !.classes = c, !.text = t,
                                          !.trimmed = m, !.white = w]
      BY <3>3, <3>4
    <3>6. /\ DOMAIN parseResult' = DOMAIN NoAnswer /\ parseResult'.item = NoItem
          /\ parseResult'.classes = c /\ parseResult'.text = t /\ parseResult'.trimmed = m
      BY <3>5 DEF NoAnswer
    <3>7. parseResult'.white = w
      BY <3>5 DEF NoAnswer
    <3>8. ElementAnswer(e, parseResult')
      BY <3>4, <3>6, <3>7 DEF ElementAnswer
    <3>9. c \subseteq ClassNames
      BY <3>4
    <3>10. QED
      BY <2>1, <3>1, <3>2, <3>6, <3>8, <3>9 DEF ParsingKept
  <2>3. CASE ParseItem
    <3>1. PICK i : i = [f \in DOMAIN NoItem |-> ItemInit(question.of)[f]]
      OBVIOUS
    <3>2. /\ question' = question /\ question.kind = "item"
          /\ parseResult' = [NoAnswer EXCEPT !.parsed = TRUE, !.item = i]
      BY <2>3, <3>1 DEF ParseItem
    <3>3. /\ DOMAIN parseResult' = DOMAIN NoAnswer /\ parseResult'.item = i
          /\ parseResult'.classes = {}
      BY <3>2 DEF NoAnswer
    <3>4. DOMAIN i = DOMAIN NoItem
      BY <3>1
    <3>5. question.of \in Strings
      BY <1>2, <3>2 DEF ParsingKept
    <3>6. QED
      BY <2>1, <3>1, <3>2, <3>3, <3>4, <3>5 DEF ParsingKept
  <2>4. CASE UNCHANGED <<question, parseResult>>
    BY <1>2, <2>1, <2>4 DEF ParsingKept, ElementAnswer
  <2>5. QED
    BY <1>2, <2>2, <2>3, <2>4 DEF ParsingNext, CreateItem, EraseItem, parsingVars
<1>3. ASSUME ParsingKept
      PROVE  ParsingTypeOK /\ TextsAreRight /\ ItemsAreAsWritten /\ DocumentsAreRight
  <2>1. /\ DocumentsAreRight
        /\ DOMAIN document \subseteq Paths \cup {<<>>} /\ put \subseteq Paths
    BY <1>3, KeptDocument DEF ParsingKept
  <2>2. ParsingTypeOK
    BY <1>3, <2>1 DEF ParsingKept, ParsingTypeOK
  <2>3. TextsAreRight
    <3>1. SUFFICES ASSUME question.kind = "element", parseResult.parsed PROVE TextsAreRight
      BY DEF TextsAreRight
    <3>2. question.of \in Elements /\ ElementAnswer(question.of, parseResult)
      BY <1>3, <3>1 DEF ParsingKept
    <3>3. QED
      BY <3>2, KeptText
  <2>4. ItemsAreAsWritten
    <3>1. SUFFICES ASSUME question.kind = "item", parseResult.parsed PROVE ItemsAreAsWritten
      BY DEF ItemsAreAsWritten
    <3>2. /\ question.of \in Strings
          /\ parseResult.item = [f \in DOMAIN NoItem |-> ItemInit(question.of)[f]]
      BY <1>3, <3>1 DEF ParsingKept
    <3>3. QED
      BY <3>1, <3>2, KeptItem
  <2>5. QED
    BY <2>1, <2>2, <2>3, <2>4
<1>4. QED
  BY <1>1, <1>2, <1>3, PTL DEF ParsingSpec

=============================================================================
