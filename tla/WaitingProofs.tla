--------------------------- MODULE WaitingProofs ----------------------------
(***************************************************************************)
(* How those who share a queue, a mutex or a board wait for each other,    *)
(* and for the thread they run on; and what is asked for and read from     *)
(* pages and calls: lemmas about sequences, and proofs about Boards,       *)
(* UserInterface, AsioFibers, Sales, ServerList, Streams, Accounts,        *)
(* FreeLicenses and Cloud, for any fibers, threads, packages and files.    *)
(***************************************************************************)
EXTENDS
    Integers, Sequences, FiniteSets, FiniteSetTheorems, SequenceTheorems,
    WellFoundedInduction, Boards, UserInterface, AsioFibers, Sales, ServerList,
    Streams, Accounts, FreeLicenses, Cloud, TLAPS

-----------------------------------------------------------------------------
(* Lemmas about sequences                                                  *)

(* An element at the end of a sequence.                                    *)
LEMMA AppendFacts ==
  ASSUME NEW S, NEW s \in Seq(S), NEW x \in S
  PROVE  /\ Append(s, x) \in Seq(S) /\ Append(s, x) # <<>>
         /\ Len(s) \in Nat /\ Len(Append(s, x)) = Len(s) + 1
         /\ Append(s, x)[Len(s) + 1] = x
         /\ \A i \in 1..Len(s) : Append(s, x)[i] = s[i]
<1>1. Len(s) \in Nat /\ Append(s, x) \in Seq(S) /\ Len(Append(s, x)) = Len(s) + 1
  OBVIOUS
<1>2. Append(s, x)[Len(s) + 1] = x /\ \A i \in 1..Len(s) : Append(s, x)[i] = s[i]
  OBVIOUS
<1>3. QED
  BY <1>1, <1>2

(* What is left when the first element has been read.                      *)
LEMMA TailFacts ==
  ASSUME NEW S, NEW s \in Seq(S), s # <<>>
  PROVE  /\ Head(s) = s[1] /\ Tail(s) \in Seq(S) /\ Len(s) \in Nat \ {0}
         /\ Len(Tail(s)) = Len(s) - 1
         /\ \A i \in 1..(Len(s) - 1) : Tail(s)[i] = s[i + 1]
<1>1. Len(s) \in Nat \ {0} /\ Head(s) = s[1] /\ Tail(s) \in Seq(S)
  OBVIOUS
<1>2. Len(Tail(s)) = Len(s) - 1 /\ \A i \in 1..(Len(s) - 1) : Tail(s)[i] = s[i + 1]
  OBVIOUS
<1>3. QED
  BY <1>1, <1>2

(* The elements of a sequence are those at its indices.                    *)
LEMMA RangeIs ==
  ASSUME NEW S, NEW s \in Seq(S)
  PROVE  /\ \A x : x \in Range(s) <=> \E i \in 1..Len(s) : x = s[i]
         /\ Range(s) \subseteq S /\ Len(s) \in Nat /\ \A i \in 1..Len(s) : s[i] \in S
         /\ s = <<>> => Range(s) = {}
<1>1. DOMAIN s = 1..Len(s) /\ Len(s) \in Nat /\ \A i \in 1..Len(s) : s[i] \in S
  OBVIOUS
<1>2. \A x : x \in Range(s) <=> \E i \in 1..Len(s) : x = s[i]
  BY <1>1 DEF Range
<1>3. s = <<>> => Range(s) = {}
  BY DEF Range
<1>4. QED
  BY <1>1, <1>2, <1>3

(* What appending, reading and concatenating do to the elements.           *)
LEMMA RangeAppend ==
  ASSUME NEW S, NEW s \in Seq(S), NEW x \in S
  PROVE  Append(s, x) \in Seq(S) /\ Range(Append(s, x)) = Range(s) \cup {x}
<1>1. /\ Append(s, x) \in Seq(S) /\ Len(s) \in Nat /\ Len(Append(s, x)) = Len(s) + 1
      /\ Append(s, x)[Len(s) + 1] = x
      /\ \A i \in 1..Len(s) : Append(s, x)[i] = s[i]
  BY AppendFacts
<1>2. \A y : y \in Range(Append(s, x)) <=> \E i \in 1..(Len(s) + 1) : y = Append(s, x)[i]
  <2>1. \A y : y \in Range(Append(s, x)) <=>
                \E i \in 1..Len(Append(s, x)) : y = Append(s, x)[i]
    BY <1>1, RangeIs
  <2>2. QED
    BY <1>1, <2>1
<1>3. \A y : y \in Range(s) <=> \E i \in 1..Len(s) : y = s[i]
  BY RangeIs
<1>4. \A i \in 1..(Len(s) + 1) : i \in 1..Len(s) \/ i = Len(s) + 1
  BY <1>1
<1>5. \A i \in 1..Len(s) : i \in 1..(Len(s) + 1)
  BY <1>1
<1>6. Len(s) + 1 \in 1..(Len(s) + 1)
  BY <1>1
<1>7. \A y : y \in Range(Append(s, x)) => y \in Range(s) \/ y = x
  BY <1>1, <1>2, <1>3, <1>4
<1>8. \A y : y \in Range(s) \/ y = x => y \in Range(Append(s, x))
  BY <1>1, <1>2, <1>3, <1>5, <1>6
<1>9. QED
  BY <1>1, <1>7, <1>8

(* The elements of a sequence are its first and those of the rest.         *)
LEMMA RangeTail ==
  ASSUME NEW S, NEW s \in Seq(S), s # <<>>
  PROVE  /\ Head(s) \in S /\ Tail(s) \in Seq(S)
         /\ Range(s) = {Head(s)} \cup Range(Tail(s))
<1>1. /\ Head(s) = s[1] /\ Tail(s) \in Seq(S) /\ Len(s) \in Nat \ {0}
      /\ Len(Tail(s)) = Len(s) - 1
      /\ \A i \in 1..(Len(s) - 1) : Tail(s)[i] = s[i + 1]
  BY TailFacts
<1>2. \A y : y \in Range(Tail(s)) <=> \E i \in 1..(Len(s) - 1) : y = Tail(s)[i]
  <2>1. \A y : y \in Range(Tail(s)) <=> \E i \in 1..Len(Tail(s)) : y = Tail(s)[i]
    BY <1>1, RangeIs
  <2>2. QED
    BY <1>1, <2>1
<1>3. (\A y : y \in Range(s) <=> \E i \in 1..Len(s) : y = s[i]) /\ \A i \in 1..Len(s) : s[i] \in S
  BY RangeIs
<1>4. 1 \in 1..Len(s) /\ \A i \in 1..(Len(s) - 1) : i + 1 \in 1..Len(s)
  BY <1>1
<1>5. Head(s) \in Range(s) /\ Head(s) \in S
  BY <1>1, <1>3, <1>4
<1>6. \A y : y \in Range(Tail(s)) => y \in Range(s)
  BY <1>1, <1>2, <1>3, <1>4
<1>7. ASSUME NEW y, y \in Range(s), y # Head(s)
      PROVE  y \in Range(Tail(s))
  <2>1. PICK i \in 1..Len(s) : y = s[i]
    BY <1>3, <1>7
  <2>2. i - 1 \in 1..(Len(s) - 1) /\ s[i] = Tail(s)[i - 1]
    BY <1>1, <1>7, <2>1
  <2>3. QED
    BY <1>2, <2>1, <2>2
<1>8. QED
  BY <1>1, <1>5, <1>6, <1>7

(* Two sequences one after the other, by index.                            *)
LEMMA ConcatFacts ==
  ASSUME NEW S, NEW s \in Seq(S), NEW t \in Seq(S)
  PROVE  /\ s \o t \in Seq(S) /\ Len(s \o t) = Len(s) + Len(t) /\ Len(s) \in Nat /\ Len(t) \in Nat
         /\ \A i \in 1..Len(s) : (s \o t)[i] = s[i]
         /\ \A i \in 1..Len(t) : (s \o t)[i + Len(s)] = t[i]
<1>1. /\ s \o t \in Seq(S) /\ Len(s \o t) = Len(s) + Len(t)
      /\ Len(s) \in Nat /\ Len(t) \in Nat
      /\ \A i \in 1..(Len(s) + Len(t)) :
           (s \o t)[i] = IF i <= Len(s) THEN s[i] ELSE t[i - Len(s)]
  OBVIOUS
<1>2. ASSUME NEW i \in 1..Len(t)
      PROVE  (s \o t)[i + Len(s)] = t[i]
  <2>1. i + Len(s) \in 1..(Len(s) + Len(t)) /\ ~(i + Len(s) <= Len(s)) /\ (i + Len(s)) - Len(s) = i
    BY <1>1
  <2>2. QED
    BY <1>1, <2>1
<1>3. \A i \in 1..Len(s) : (s \o t)[i] = s[i]
  BY <1>1
<1>4. QED
  BY <1>1, <1>2, <1>3

(* Two sequences one after the other have the elements of both.            *)
LEMMA RangeConcat ==
  ASSUME NEW S, NEW s \in Seq(S), NEW t \in Seq(S)
  PROVE  s \o t \in Seq(S) /\ Range(s \o t) = Range(s) \cup Range(t)
<1>1. /\ s \o t \in Seq(S) /\ Len(s \o t) = Len(s) + Len(t)
      /\ Len(s) \in Nat /\ Len(t) \in Nat
      /\ \A i \in 1..(Len(s) + Len(t)) :
           (s \o t)[i] = IF i <= Len(s) THEN s[i] ELSE t[i - Len(s)]
  OBVIOUS
<1>2. \A y : y \in Range(s \o t) <=> \E i \in 1..(Len(s) + Len(t)) : y = (s \o t)[i]
  BY <1>1, RangeIs
<1>3. \A y : y \in Range(s) <=> \E i \in 1..Len(s) : y = s[i]
  BY RangeIs
<1>4. \A y : y \in Range(t) <=> \E i \in 1..Len(t) : y = t[i]
  BY RangeIs
<1>5. ASSUME NEW i \in 1..(Len(s) + Len(t))
      PROVE  (s \o t)[i] \in Range(s) \cup Range(t)
  <2>1. CASE i <= Len(s)
    <3>1. i \in 1..Len(s) /\ (s \o t)[i] = s[i]
      BY <1>1, <2>1
    <3>2. QED
      BY <1>3, <3>1
  <2>2. CASE ~(i <= Len(s))
    <3>1. i - Len(s) \in 1..Len(t) /\ (s \o t)[i] = t[i - Len(s)]
      BY <1>1, <2>2
    <3>2. QED
      BY <1>4, <3>1
  <2>3. QED
    BY <2>1, <2>2
<1>6. ASSUME NEW i \in 1..Len(s)
      PROVE  s[i] \in Range(s \o t)
  <2>1. i \in 1..(Len(s) + Len(t)) /\ (s \o t)[i] = s[i]
    BY <1>1
  <2>2. QED
    BY <1>2, <2>1
<1>7. ASSUME NEW i \in 1..Len(t)
      PROVE  t[i] \in Range(s \o t)
  <2>1. i + Len(s) \in 1..(Len(s) + Len(t)) /\ (s \o t)[i + Len(s)] = t[i]
    BY <1>1
  <2>2. QED
    BY <1>2, <2>1
<1>8. QED
  BY <1>1, <1>2, <1>3, <1>4, <1>5, <1>6, <1>7

(* A set whose elements are all the same has at most one.                  *)
LEMMA AtMostOne ==
  ASSUME NEW S, \A x, y \in S : x = y
  PROVE  IsFiniteSet(S) /\ Cardinality(S) \in Nat /\ Cardinality(S) <= 1
<1>1. CASE S = {}
  BY <1>1, FS_EmptySet
<1>2. CASE S # {}
  <2>1. PICK x \in S : S = {x}
    BY <1>2
  <2>2. QED
    BY <2>1, FS_Singleton
<1>3. QED
  BY <1>1, <1>2

(* Sequences in which no two elements have the same f: DistinctBy; and     *)
(* whether there is one with a given f: HasBy.                             *)
DistinctBy(f, s) == \A i, j \in 1..Len(s) : f[s[i]] = f[s[j]] => i = j
HasBy(f, s, y) == \E x \in Range(s) : f[x] = y

(* Nothing is in the empty sequence.                                       *)
LEMMA EmptyBy ==
  ASSUME NEW f
  PROVE  DistinctBy(f, <<>>) /\ \A y : ~HasBy(f, <<>>, y)
<1>1. Len(<<>>) = 0 /\ Range(<<>>) = {}
  BY DEF Range
<1>2. QED
  BY <1>1 DEF DistinctBy, HasBy

(* An element whose f is new keeps a sequence distinct by f.               *)
LEMMA AppendBy ==
  ASSUME NEW S, NEW s \in Seq(S), NEW x \in S, NEW f, DistinctBy(f, s), ~HasBy(f, s, f[x])
  PROVE  /\ DistinctBy(f, Append(s, x))
         /\ \A y : HasBy(f, Append(s, x), y) <=> HasBy(f, s, y) \/ y = f[x]
<1>1. /\ Len(s) \in Nat /\ Len(Append(s, x)) = Len(s) + 1 /\ Append(s, x)[Len(s) + 1] = x
      /\ \A i \in 1..Len(s) : Append(s, x)[i] = s[i]
  BY AppendFacts
<1>2. \A i \in 1..Len(s) : f[s[i]] # f[x]
  BY RangeIs DEF HasBy
<1>3. \A i \in 1..(Len(s) + 1) : i \in 1..Len(s) \/ i = Len(s) + 1
  BY <1>1
<1>4. ASSUME NEW i \in 1..(Len(s) + 1), NEW j \in 1..(Len(s) + 1),
             f[Append(s, x)[i]] = f[Append(s, x)[j]]
      PROVE  i = j
  <2>1. CASE i \in 1..Len(s) /\ j \in 1..Len(s)
    BY <1>1, <1>4, <2>1 DEF DistinctBy
  <2>2. CASE i = Len(s) + 1 /\ j = Len(s) + 1
    BY <2>2
  <2>3. CASE i \in 1..Len(s) /\ j = Len(s) + 1
    BY <1>1, <1>2, <1>4, <2>3
  <2>4. CASE i = Len(s) + 1 /\ j \in 1..Len(s)
    BY <1>1, <1>2, <1>4, <2>4
  <2>5. QED
    BY <1>3, <2>1, <2>2, <2>3, <2>4
<1>5. DistinctBy(f, Append(s, x))
  BY <1>1, <1>4 DEF DistinctBy
<1>6. Range(Append(s, x)) = Range(s) \cup {x}
  BY RangeAppend
<1>7. QED
  BY <1>5, <1>6 DEF HasBy

(* The f of the first element is gone with it.                             *)
LEMMA TailBy ==
  ASSUME NEW S, NEW s \in Seq(S), s # <<>>, NEW f, DistinctBy(f, s)
  PROVE  /\ DistinctBy(f, Tail(s)) /\ HasBy(f, s, f[Head(s)])
         /\ \A y : HasBy(f, Tail(s), y) <=> HasBy(f, s, y) /\ y # f[Head(s)]
<1>1. /\ Head(s) = s[1] /\ Tail(s) \in Seq(S) /\ Len(s) \in Nat \ {0}
      /\ Len(Tail(s)) = Len(s) - 1
      /\ \A i \in 1..(Len(s) - 1) : Tail(s)[i] = s[i + 1]
  BY TailFacts
<1>2. ASSUME NEW i \in 1..(Len(s) - 1)
      PROVE  i + 1 \in 1..Len(s) /\ 1 \in 1..Len(s) /\ i + 1 # 1
  BY <1>1
<1>3. ASSUME NEW i \in 1..(Len(s) - 1), NEW j \in 1..(Len(s) - 1), f[Tail(s)[i]] = f[Tail(s)[j]]
      PROVE  i = j
  <2>1. f[s[i + 1]] = f[s[j + 1]]
    BY <1>1, <1>3
  <2>2. i + 1 = j + 1
    BY <1>2, <2>1 DEF DistinctBy
  <2>3. QED
    BY <1>1, <2>2
<1>4. DistinctBy(f, Tail(s))
  BY <1>1, <1>3 DEF DistinctBy
<1>5. Range(s) = {Head(s)} \cup Range(Tail(s))
  BY RangeTail
<1>6. ASSUME NEW x \in Range(Tail(s))
      PROVE  f[x] # f[Head(s)]
  <2>1. PICK i \in 1..Len(Tail(s)) : x = Tail(s)[i]
    BY <1>1, RangeIs
  <2>2. i \in 1..(Len(s) - 1) /\ x = s[i + 1]
    BY <1>1, <2>1
  <2>3. f[s[i + 1]] # f[s[1]]
    BY <1>2, <2>2 DEF DistinctBy
  <2>4. QED
    BY <1>1, <2>2, <2>3
<1>7. QED
  BY <1>4, <1>5, <1>6 DEF HasBy

(* Sequences with nothing in common by f stay distinct by f when they are  *)
(* joined.                                                                 *)
LEMMA ConcatBy ==
  ASSUME NEW S, NEW s \in Seq(S), NEW t \in Seq(S), NEW f,
         DistinctBy(f, s), DistinctBy(f, t), \A y : ~(HasBy(f, s, y) /\ HasBy(f, t, y))
  PROVE  /\ DistinctBy(f, s \o t)
         /\ \A y : HasBy(f, s \o t, y) <=> HasBy(f, s, y) \/ HasBy(f, t, y)
<1>1. Len(s \o t) = Len(s) + Len(t) /\ Len(s) \in Nat /\ Len(t) \in Nat
  BY ConcatFacts
<1>2. /\ \A i \in 1..Len(s) : (s \o t)[i] = s[i]
      /\ \A i \in 1..Len(t) : (s \o t)[i + Len(s)] = t[i]
  BY ConcatFacts
<1>3. ASSUME NEW i \in 1..Len(s), NEW j \in 1..Len(t)
      PROVE  f[s[i]] # f[t[j]]
  <2>1. s[i] \in Range(s) /\ t[j] \in Range(t)
    BY RangeIs
  <2>2. QED
    BY <2>1 DEF HasBy
<1>4. ASSUME NEW i \in 1..(Len(s) + Len(t)), i \notin 1..Len(s)
      PROVE  \E k \in 1..Len(t) : i = k + Len(s) /\ (s \o t)[i] = t[k]
  <2>1. PICK k \in 1..Len(t) : i = k + Len(s)
    <3>1. i - Len(s) \in 1..Len(t) /\ i = (i - Len(s)) + Len(s)
      BY <1>1, <1>4
    <3>2. QED
      BY <3>1
  <2>2. (s \o t)[k + Len(s)] = t[k]
    BY <1>2
  <2>3. QED
    BY <2>1, <2>2
<1>5. ASSUME NEW i \in 1..(Len(s) + Len(t)), NEW j \in 1..(Len(s) + Len(t)),
             f[(s \o t)[i]] = f[(s \o t)[j]]
      PROVE  i = j
  <2>1. CASE i \in 1..Len(s) /\ j \in 1..Len(s)
    BY <1>2, <1>5, <2>1 DEF DistinctBy
  <2>2. CASE i \in 1..Len(s) /\ j \notin 1..Len(s)
    <3>1. PICK k \in 1..Len(t) : j = k + Len(s) /\ (s \o t)[j] = t[k]
      BY <1>4, <2>2
    <3>2. QED
      BY <1>2, <1>3, <1>5, <2>2, <3>1
  <2>3. CASE i \notin 1..Len(s) /\ j \in 1..Len(s)
    <3>1. PICK k \in 1..Len(t) : i = k + Len(s) /\ (s \o t)[i] = t[k]
      BY <1>4, <2>3
    <3>2. QED
      BY <1>2, <1>3, <1>5, <2>3, <3>1
  <2>4. CASE i \notin 1..Len(s) /\ j \notin 1..Len(s)
    <3>1. PICK k \in 1..Len(t) : i = k + Len(s) /\ (s \o t)[i] = t[k]
      BY <1>4, <2>4
    <3>2. PICK l \in 1..Len(t) : j = l + Len(s) /\ (s \o t)[j] = t[l]
      BY <1>4, <2>4
    <3>3. QED
      BY <1>5, <3>1, <3>2 DEF DistinctBy
  <2>5. QED
    BY <2>1, <2>2, <2>3, <2>4
<1>6. DistinctBy(f, s \o t)
  BY <1>1, <1>5 DEF DistinctBy
<1>7. Range(s \o t) = Range(s) \cup Range(t)
  BY RangeConcat
<1>8. QED
  BY <1>6, <1>7 DEF HasBy

(* The elements with a given f are counted.                                *)
LEMMA CountBy ==
  ASSUME NEW S, NEW s \in Seq(S), NEW f, DistinctBy(f, s), NEW y
  PROVE  Cardinality({i \in 1..Len(s) : f[s[i]] = y}) = IF HasBy(f, s, y) THEN 1 ELSE 0
<1>1. HasBy(f, s, y) <=> \E i \in 1..Len(s) : f[s[i]] = y
  BY RangeIs DEF HasBy
<1>2. CASE HasBy(f, s, y)
  <2>1. PICK i \in 1..Len(s) : f[s[i]] = y
    BY <1>1, <1>2
  <2>2. {j \in 1..Len(s) : f[s[j]] = y} = {i}
    BY <2>1 DEF DistinctBy
  <2>3. QED
    BY <1>2, <2>2, FS_Singleton
<1>3. CASE ~HasBy(f, s, y)
  <2>1. {j \in 1..Len(s) : f[s[j]] = y} = {}
    BY <1>1, <1>3
  <2>2. QED
    BY <1>3, <2>1, FS_EmptySet
<1>4. QED
  BY <1>2, <1>3

(* Two elements one by one.                                                *)
LEMMA PairIs ==
  ASSUME NEW S, NEW a \in S, NEW b \in S, NEW s \in Seq(S)
  PROVE  s \o (<<a>> \o <<b>>) = Append(Append(s, a), b)
<1>1. <<a>> \in Seq(S) /\ <<b>> \in Seq(S)
  OBVIOUS
<1>2. s \o (<<a>> \o <<b>>) = (s \o <<a>>) \o <<b>>
  BY <1>1
<1>3. \A t \in Seq(S) : \A x \in S : t \o <<x>> = Append(t, x) /\ Append(t, x) \in Seq(S)
  OBVIOUS
<1>4. s \o <<a>> = Append(s, a) /\ Append(s, a) \in Seq(S)
  BY <1>3
<1>5. Append(s, a) \o <<b>> = Append(Append(s, a), b)
  BY <1>3, <1>4
<1>6. QED
  BY <1>2, <1>4, <1>5, Zenon

(* Sequences that do not hold an element, that hold it once, and that hold *)
(* one before another.                                                     *)
Lacks(q, x) == \A i \in 1..Len(q) : q[i] # x
HoldsOnce(q, x) == \E i \in 1..Len(q) : q[i] = x /\ \A j \in 1..Len(q) : q[j] = x => j = i
Precedes(q, a, b) == \A i, j \in 1..Len(q) : q[i] = a /\ q[j] = b => i < j

(* The empty sequence, and one of one element.                             *)
LEMMA OneElement ==
  /\ \A x : Lacks(<<>>, x) /\ ~HoldsOnce(<<>>, x)
  /\ \A x : HoldsOnce(<<x>>, x) /\ ~Lacks(<<x>>, x)
  /\ \A x, y : x # y => Lacks(<<y>>, x)
<1>1. Len(<<>>) = 0 /\ \A x : Len(<<x>>) = 1 /\ <<x>>[1] = x
  OBVIOUS
<1>2. \A x : Lacks(<<>>, x) /\ ~HoldsOnce(<<>>, x)
  BY <1>1 DEF Lacks, HoldsOnce
<1>3. \A x : HoldsOnce(<<x>>, x) /\ ~Lacks(<<x>>, x)
  BY <1>1 DEF Lacks, HoldsOnce
<1>4. \A x, y : x # y => Lacks(<<y>>, x)
  BY <1>1 DEF Lacks
<1>5. QED
  BY <1>2, <1>3, <1>4

(* What an element more changes about how often c is there, and about its  *)
(* place.                                                                  *)
LEMMA AppendOnce ==
  ASSUME NEW S, NEW q \in Seq(S), NEW x \in S, NEW c
  PROVE  /\ Append(q, x) \in Seq(S)
         /\ Lacks(q, c) /\ x # c => Lacks(Append(q, x), c)
         /\ HoldsOnce(q, c) /\ x # c => HoldsOnce(Append(q, x), c)
         /\ Lacks(q, c) /\ x = c => HoldsOnce(Append(q, x), c)
         /\ Lacks(q, x) /\ c # x => Precedes(Append(q, x), c, x)
<1> DEFINE t == Append(q, x)
           n == Len(q)
<1>1. /\ t \in Seq(S) /\ n \in Nat /\ Len(t) = n + 1 /\ t[n + 1] = x
      /\ \A i \in 1..n : t[i] = q[i]
  BY AppendFacts
<1> HIDE DEF t
<1>2. /\ \A i \in 1..Len(t) : i = n + 1 \/ i \in 1..n
      /\ \A i \in 1..n : i \in 1..Len(t) /\ i < n + 1
      /\ n + 1 \in 1..Len(t)
  BY <1>1
<1> HIDE DEF n
<1>3. Lacks(q, c) /\ x # c => Lacks(t, c)
  BY <1>1, <1>2 DEF Lacks, n
<1>4. ASSUME HoldsOnce(q, c), x # c
      PROVE  HoldsOnce(t, c)
  <2>1. PICK i \in 1..n : q[i] = c /\ \A j \in 1..n : q[j] = c => j = i
    BY <1>4 DEF HoldsOnce, n
  <2>2. i \in 1..Len(t) /\ t[i] = c
    BY <1>1, <1>2, <2>1
  <2>3. \A j \in 1..Len(t) : t[j] = c => j = i
    BY <1>1, <1>2, <1>4, <2>1
  <2>4. QED
    BY <2>2, <2>3 DEF HoldsOnce
<1>5. ASSUME Lacks(q, c), x = c
      PROVE  HoldsOnce(t, c)
  <2>1. \A j \in 1..Len(t) : t[j] = c => j = n + 1
    BY <1>1, <1>2, <1>5 DEF Lacks, n
  <2>2. QED
    BY <1>1, <1>2, <1>5, <2>1 DEF HoldsOnce
<1>6. ASSUME Lacks(q, x), c # x
      PROVE  Precedes(t, c, x)
  <2>1. \A j \in 1..Len(t) : t[j] = x => j = n + 1
    BY <1>1, <1>2, <1>6 DEF Lacks, n
  <2>2. \A i \in 1..Len(t) : t[i] = c => i < n + 1
    BY <1>1, <1>2, <1>6
  <2>3. QED
    BY <2>1, <2>2 DEF Precedes
<1>7. QED
  BY <1>1, <1>3, <1>4, <1>5, <1>6 DEF t

(* What the first element taken away changes about it.                     *)
LEMMA TailOnce ==
  ASSUME NEW S, NEW q \in Seq(S), q # <<>>, NEW c
  PROVE  /\ Head(q) \in S /\ Tail(q) \in Seq(S)
         /\ Lacks(q, c) => Head(q) # c /\ Lacks(Tail(q), c)
         /\ HoldsOnce(q, c) /\ Head(q) = c => Lacks(Tail(q), c)
         /\ HoldsOnce(q, c) /\ Head(q) # c => HoldsOnce(Tail(q), c)
         /\ \A a : Precedes(q, a, c) => Precedes(Tail(q), a, c)
         /\ \A a : Precedes(q, a, c) /\ HoldsOnce(q, a) => Head(q) # c
<1> DEFINE t == Tail(q)
           n == Len(t)
<1>1. /\ t \in Seq(S) /\ Head(q) = q[1] /\ Len(q) \in Nat \ {0} /\ n = Len(q) - 1
      /\ \A i \in 1..(Len(q) - 1) : t[i] = q[i + 1]
  BY TailFacts
<1>2. 1 \in 1..Len(q) /\ Head(q) \in S /\ n \in Nat
  BY <1>1
<1> HIDE DEF t, n
<1>3. \A i \in 1..n : t[i] = q[i + 1] /\ i + 1 \in 1..Len(q) /\ i + 1 # 1
  BY <1>1
<1>4. ASSUME NEW i \in 1..Len(q), i # 1
      PROVE  i - 1 \in 1..n /\ t[i - 1] = q[i]
  <2>1. i - 1 \in 1..n /\ (i - 1) + 1 = i
    BY <1>1, <1>4
  <2>2. QED
    BY <1>3, <2>1
<1>5. Lacks(q, c) => Head(q) # c /\ Lacks(t, c)
  BY <1>1, <1>2, <1>3 DEF Lacks, n
<1>6. ASSUME HoldsOnce(q, c), Head(q) = c
      PROVE  Lacks(t, c)
  <2>1. PICK i \in 1..Len(q) : q[i] = c /\ \A j \in 1..Len(q) : q[j] = c => j = i
    BY <1>6 DEF HoldsOnce
  <2>2. i = 1
    BY <1>1, <1>2, <1>6, <2>1
  <2>3. QED
    BY <1>3, <2>1, <2>2 DEF Lacks, n
<1>7. ASSUME HoldsOnce(q, c), Head(q) # c
      PROVE  HoldsOnce(t, c)
  <2>1. PICK i \in 1..Len(q) : q[i] = c /\ \A j \in 1..Len(q) : q[j] = c => j = i
    BY <1>7 DEF HoldsOnce
  <2>2. i - 1 \in 1..n /\ t[i - 1] = c
    BY <1>1, <1>4, <1>7, <2>1
  <2>3. ASSUME NEW j \in 1..n, t[j] = c
        PROVE  j = i - 1
    <3>1. j + 1 = i
      BY <1>3, <2>1, <2>3
    <3>2. QED
      BY <1>2, <3>1
  <2>4. QED
    BY <2>2, <2>3 DEF HoldsOnce, n
<1>8. ASSUME NEW a, Precedes(q, a, c)
      PROVE  Precedes(t, a, c)
  <2> SUFFICES ASSUME NEW i \in 1..n, NEW j \in 1..n, t[i] = a, t[j] = c
               PROVE  i < j
    BY DEF Precedes, n
  <2>1. i + 1 < j + 1
    BY <1>3, <1>8 DEF Precedes
  <2>2. QED
    BY <1>2, <2>1
<1>9. ASSUME NEW a, Precedes(q, a, c), HoldsOnce(q, a), Head(q) = c
      PROVE  FALSE
  <2>1. PICK i \in 1..Len(q) : q[i] = a
    BY <1>9 DEF HoldsOnce
  <2>2. i < 1
    BY <1>1, <1>2, <1>9, <2>1 DEF Precedes
  <2>3. QED
    BY <1>1, <2>2
<1>10. QED
  BY <1>1, <1>2, <1>5, <1>6, <1>7, <1>8, <1>9 DEF t

(* What joining two sequences changes about it.                            *)
LEMMA ConcatOnce ==
  ASSUME NEW S, NEW q \in Seq(S), NEW t \in Seq(S), NEW c
  PROVE  /\ q \o t \in Seq(S)
         /\ Lacks(q, c) /\ Lacks(t, c) => Lacks(q \o t, c)
         /\ HoldsOnce(q, c) /\ Lacks(t, c) => HoldsOnce(q \o t, c)
         /\ Lacks(q, c) /\ HoldsOnce(t, c) => HoldsOnce(q \o t, c)
<1> DEFINE u == q \o t
           k == Len(q)
<1>1. /\ u \in Seq(S) /\ Len(u) = k + Len(t) /\ k \in Nat /\ Len(t) \in Nat
      /\ \A i \in 1..k : u[i] = q[i]
      /\ \A i \in 1..Len(t) : u[i + k] = t[i]
  BY ConcatFacts
<1> HIDE DEF u, k
<1>2. ASSUME NEW i \in 1..Len(u)
      PROVE  \/ i \in 1..k /\ u[i] = q[i]
             \/ i - k \in 1..Len(t) /\ u[i] = t[i - k]
  <2>1. CASE i <= k
    BY <1>1, <2>1
  <2>2. CASE ~(i <= k)
    <3>1. i - k \in 1..Len(t) /\ (i - k) + k = i
      BY <1>1, <2>2
    <3>2. u[(i - k) + k] = t[i - k]
      BY <1>1, <3>1
    <3>3. QED
      BY <3>1, <3>2
  <2>3. QED
    BY <2>1, <2>2
<1>3. Lacks(q, c) /\ Lacks(t, c) => Lacks(u, c)
  BY <1>2 DEF Lacks, k
<1>4. ASSUME HoldsOnce(q, c), Lacks(t, c)
      PROVE  HoldsOnce(u, c)
  <2>1. PICK i \in 1..k : q[i] = c /\ \A j \in 1..k : q[j] = c => j = i
    BY <1>4 DEF HoldsOnce, k
  <2>2. i \in 1..Len(u) /\ u[i] = c
    BY <1>1, <2>1
  <2>3. \A j \in 1..Len(u) : u[j] = c => j = i
    BY <1>2, <1>4, <2>1 DEF Lacks
  <2>4. QED
    BY <2>2, <2>3 DEF HoldsOnce
<1>5. ASSUME Lacks(q, c), HoldsOnce(t, c)
      PROVE  HoldsOnce(u, c)
  <2>1. PICK i \in 1..Len(t) : t[i] = c /\ \A j \in 1..Len(t) : t[j] = c => j = i
    BY <1>5 DEF HoldsOnce
  <2>2. i + k \in 1..Len(u) /\ u[i + k] = c
    BY <1>1, <2>1
  <2>3. ASSUME NEW j \in 1..Len(u), u[j] = c
        PROVE  j = i + k
    <3>1. j - k \in 1..Len(t) /\ t[j - k] = c
      BY <1>2, <1>5, <2>3 DEF Lacks, k
    <3>2. j - k = i
      BY <2>1, <3>1
    <3>3. QED
      BY <1>1, <3>2
  <2>4. QED
    BY <2>2, <2>3 DEF HoldsOnce
<1>6. QED
  BY <1>1, <1>3, <1>4, <1>5 DEF u

(* A sequence that holds nothing but one element, and that once.           *)
LEMMA NothingElse ==
  ASSUME NEW S, NEW q \in Seq(S), NEW c, HoldsOnce(q, c), \A i \in 1..Len(q) : q[i] = c
  PROVE  q = <<c>>
<1>1. PICK i \in 1..Len(q) : \A j \in 1..Len(q) : j = i
  BY DEF HoldsOnce
<1>2. Len(q) \in Nat
  OBVIOUS
<1>3. 1 \in 1..Len(q) /\ Len(q) \in 1..Len(q)
  BY <1>1, <1>2
<1>4. Len(q) = 1
  BY <1>1, <1>3
<1>5. q[1] = c
  BY <1>3
<1>6. QED
  BY <1>4, <1>5

-----------------------------------------------------------------------------
(* Induction over numbers and sequences                                    *)

(* A set of numbers has a least element.                                   *)
LEMMA LeastNumber ==
  ASSUME NEW T \in SUBSET Nat, T # {}
  PROVE  \E n \in T : \A m \in T : n <= m
<1> DEFINE R == OpToRel(<, Nat)
<1>1. IsWellFoundedOn(R, Nat)
  BY NatLessThanWellFounded
<1>2. \A m, n \in Nat : m < n => <<m, n>> \in R
  BY DEF OpToRel
<1> HIDE DEF R
<1>3. PICK n \in T : \A m \in T : ~ (<<m, n>> \in R)
  BY <1>1, WFMin, Zenon
<1>4. ASSUME NEW m \in T PROVE n <= m
  <2>1. ~(m < n)
    BY <1>2, <1>3
  <2> QED
    BY <2>1
<1> QED
  BY <1>4

(* The number it is called by.                                             *)
LEMMA LeastIndex ==
  ASSUME NEW T \in SUBSET Nat, T # {}
  PROVE  Min(T) \in T /\ \A m \in T : Min(T) <= m
<1>1. \E n \in T : \A m \in T : n <= m
  BY LeastNumber
<1>2. QED
  BY <1>1, Zenon DEF Min

(* Induction over the numbers, with a set in place of a formula.           *)
LEMMA SetInduction ==
  ASSUME NEW S, 0 \in S, \A n \in Nat : n \in S => n + 1 \in S
  PROVE  Nat \subseteq S
<1>1. SUFFICES ASSUME Nat \ S # {} PROVE FALSE
  OBVIOUS
<1>2. PICK n \in Nat \ S : \A m \in Nat \ S : n <= m
  BY <1>1, LeastNumber
<1>3. n # 0 /\ n - 1 \in Nat
  BY <1>2
<1>4. n - 1 \in S
  BY <1>2, <1>3
<1> QED
  BY <1>2, <1>3, <1>4

(* So has a set of indices a greatest one.                                 *)
LEMMA GreatestIndex ==
  ASSUME NEW n \in Nat, NEW s \in SUBSET (1..n), s # {}
  PROVE  Max(s) \in s /\ \A y \in s : Max(s) >= y
<1> DEFINE T == {n - x : x \in s}
<1>1. T \in SUBSET Nat /\ T # {}
  <2>1. \A x \in s : n - x \in Nat
    OBVIOUS
  <2>2. QED
    BY <2>1
<1>2. PICK m \in T : \A k \in T : m <= k
  BY <1>1, LeastNumber
<1>3. PICK x \in s : m = n - x
  BY <1>2
<1>4. \A y \in s : x >= y
  <2>1. ASSUME NEW y \in s PROVE x >= y
    <3>1. n - y \in T
      OBVIOUS
    <3>2. m <= n - y
      BY <1>2, <3>1
    <3>3. x \in 1..n /\ y \in 1..n
      OBVIOUS
    <3>4. QED
      BY <1>3, <3>2, <3>3
  <2>2. QED
    BY <2>1
<1>5. \E z \in s : \A y \in s : z >= y
  BY <1>4
<1>6. QED
  BY <1>5, Zenon DEF Max

(* The last index of those up to n + 1.                                    *)
LEMMA LastIndex ==
  ASSUME NEW n \in Nat, NEW s \in SUBSET (1..(n + 1)), n + 1 \in s
  PROVE  Max(s) = n + 1
<1>1. Max(s) \in s /\ \A y \in s : Max(s) >= y
  <2>1. n + 1 \in Nat /\ s # {}
    OBVIOUS
  <2>2. QED
    BY <2>1, GreatestIndex
<1>2. Max(s) \in 1..(n + 1) /\ Max(s) >= n + 1
  BY <1>1
<1>3. QED
  BY <1>2

(* A sequence with another element in one place.                           *)
LEMMA OneOtherElement ==
  ASSUME NEW T, NEW s \in Seq(T), NEW i \in 1..Len(s), NEW x \in T
  PROVE  LET t == [s EXCEPT ![i] = x]
         IN /\ t \in Seq(T) /\ Len(t) = Len(s) /\ t[i] = x
            /\ \A j \in 1..Len(s) : j # i => t[j] = s[j]
OBVIOUS

(* Putting one more behind two sequences.                                  *)
LEMMA AppendOfConcat ==
  ASSUME NEW T, NEW s \in Seq(T), NEW t \in Seq(T), NEW x \in T
  PROVE  s \o Append(t, x) = Append(s \o t, x)
<1>1. Append(t, x) = t \o <<x>> /\ <<x>> \in Seq(T) /\ s \o t \in Seq(T)
  BY AppendIsConcat, ConcatProperties
<1>2. Append(s \o t, x) = (s \o t) \o <<x>>
  BY <1>1, AppendIsConcat
<1>3. (s \o t) \o <<x>> = s \o (t \o <<x>>)
  BY <1>1, ConcatAssociative
<1>4. QED
  BY <1>1, <1>2, <1>3

(* Induction over sequences that grow at their end, with a set in place of *)
(* a formula.                                                              *)
LEMMA GrowingSeqs ==
  ASSUME NEW T, NEW A, <<>> \in A,
         \A s \in Seq(T) : \A x \in T : s \in A => Append(s, x) \in A
  PROVE  Seq(T) \subseteq A
<1> DEFINE N == {n \in Nat : \A s \in Seq(T) : Len(s) = n => s \in A}
<1>1. 0 \in N
  <2>1. \A s \in Seq(T) : Len(s) = 0 => s = <<>>
    BY EmptySeq
  <2>2. QED
    BY <2>1
<1>2. ASSUME NEW n \in Nat, n \in N
      PROVE  n + 1 \in N
  <2>1. ASSUME NEW s \in Seq(T), Len(s) = n + 1
        PROVE  s \in A
    <3>1. s # <<>>
      BY <2>1
    <3>2. PICK r \in Seq(T), x \in T : s = Append(r, x)
      BY <3>1, SequenceEmptyOrAppend
    <3>3. Len(r) \in Nat /\ Len(s) = Len(r) + 1
      BY <3>2, AppendFacts
    <3>4. Len(r) = n
      BY <2>1, <3>3
    <3>5. r \in A
      BY <1>2, <3>4
    <3>6. QED
      BY <3>2, <3>5
  <2>2. QED
    BY <2>1
<1>3. Nat \subseteq N
  <2> HIDE DEF N
  <2>1. QED
    BY <1>1, <1>2, SetInduction
<1>4. ASSUME NEW s \in Seq(T) PROVE s \in A
  <2>1. Len(s) \in Nat
    OBVIOUS
  <2>2. QED
    BY <1>3, <2>1
<1>5. QED
  BY <1>4

(* Reversed sequences.                                                     *)
LEMMA ReverseFacts ==
  ASSUME NEW T, NEW s \in Seq(T)
  PROVE  /\ Reverse(s) \in Seq(T) /\ Len(Reverse(s)) = Len(s)
         /\ \A i \in 1..Len(s) : Reverse(s)[i] = s[(Len(s) - i) + 1]
         /\ Reverse(Reverse(s)) = s
         /\ Range(Reverse(s)) = Range(s)
<1>1. PICK n : n = Len(s)
  OBVIOUS
<1>2. n \in Nat /\ \A i \in 1..n : (n - i) + 1 \in 1..n
  BY <1>1
<1>3. PICK r : r = Reverse(s)
  OBVIOUS
<1>4. r = [i \in 1..n |-> s[(n - i) + 1]]
  BY <1>1, <1>3 DEF Reverse
<1>5. \A i \in 1..n : s[(n - i) + 1] \in T
  BY <1>1, <1>2
<1>6. r \in Seq(T) /\ Len(r) = n /\ \A i \in 1..n : r[i] = s[(n - i) + 1]
  BY <1>2, <1>4, <1>5
<1>7. PICK q : q = Reverse(r)
  OBVIOUS
<1>8. q = [i \in 1..n |-> r[(n - i) + 1]]
  BY <1>6, <1>7 DEF Reverse
<1>9. \A i \in 1..n : r[(n - i) + 1] \in T
  BY <1>2, <1>6
<1>10. q \in Seq(T) /\ Len(q) = n /\ \A i \in 1..n : q[i] = r[(n - i) + 1]
  BY <1>2, <1>8, <1>9
<1>11. \A i \in 1..n : q[i] = s[i]
  <2>1. TAKE i \in 1..n
  <2>2. (n - i) + 1 \in 1..n /\ (n - ((n - i) + 1)) + 1 = i
    BY <1>2
  <2>3. QED
    BY <1>6, <1>10, <2>2
<1>12. q = s
  BY <1>1, <1>10, <1>11, SeqEqual
<1>13. \A x : x \in Range(r) <=> x \in Range(s)
  <2>1. TAKE x
  <2>2. x \in Range(r) <=> \E i \in 1..n : x = r[i]
    BY <1>6, RangeIs
  <2>3. x \in Range(s) <=> \E i \in 1..n : x = s[i]
    BY <1>1, RangeIs
  <2>4. \A i \in 1..n : r[i] = s[(n - i) + 1] /\ s[i] = r[(n - i) + 1]
    BY <1>6, <1>10, <1>11
  <2>5. QED
    BY <1>2, <2>2, <2>3, <2>4
<1>14. QED
  BY <1>1, <1>3, <1>6, <1>7, <1>12, <1>13

-----------------------------------------------------------------------------
(* Selection                                                               *)

(* h[I] is what is kept of the elements with an index in I.                *)
Keeps(h, s, S, I) ==
  h = [J \in SUBSET I |->
         IF J = {} THEN <<>>
         ELSE IF s[Max(J)] \in S THEN Append(h[J \ {Max(J)}], s[Max(J)]) ELSE h[J \ {Max(J)}]]

(* Kept() is such a function for all indices, if there is one.             *)
LEMMA KeptIs ==
  ASSUME NEW s, NEW S
  PROVE  Kept(s, S) = (CHOOSE h : Keeps(h, s, S, DOMAIN s))[DOMAIN s]
BY DEF Kept, FoldLeft, MapThenFoldSet, Keeps

(* There is one.                                                           *)
LEMMA KeepingExists ==
  ASSUME NEW s, NEW S, NEW N \in Nat
  PROVE  \E h : Keeps(h, s, S, 1..N)
<1> DEFINE T == {n \in Nat : \E h : Keeps(h, s, S, 1..n)}
           Grown(h, J) == IF s[Max(J)] \in S THEN Append(h[J \ {Max(J)}], s[Max(J)])
                          ELSE h[J \ {Max(J)}]
<1>1. 0 \in T
  <2> DEFINE h == [J \in SUBSET (1..0) |-> <<>>]
  <2>1. 1..0 = {}
    OBVIOUS
  <2>2. \A J \in SUBSET (1..0) : J = {}
    BY <2>1
  <2>3. Keeps(h, s, S, 1..0)
    BY <2>2 DEF Keeps
  <2>4. QED
    BY <2>3
<1>2. ASSUME NEW n \in Nat, n \in T
      PROVE  n + 1 \in T
  <2>1. PICK h : Keeps(h, s, S, 1..n)
    BY <1>2
  <2>2. \A J \in SUBSET (1..n) : h[J] = IF J = {} THEN <<>> ELSE Grown(h, J)
    BY <2>1 DEF Keeps
  <2> DEFINE next(J) == IF s[n + 1] \in S THEN Append(h[J \ {n + 1}], s[n + 1]) ELSE h[J \ {n + 1}]
             g == [J \in SUBSET (1..(n + 1)) |-> IF n + 1 \in J THEN next(J) ELSE h[J]]
  <2>3. ASSUME NEW J \in SUBSET (1..(n + 1))
        PROVE  g[J] = IF J = {} THEN <<>> ELSE Grown(g, J)
    <3>1. CASE n + 1 \in J
      <4>1. Max(J) = n + 1
        BY <3>1, LastIndex
      <4>2. J \ {n + 1} \in SUBSET (1..n) /\ J \ {n + 1} \in SUBSET (1..(n + 1))
        OBVIOUS
      <4>3. g[J \ {n + 1}] = h[J \ {n + 1}]
        BY <4>2
      <4>4. g[J] = next(J) /\ J # {}
        BY <3>1
      <4> HIDE DEF g
      <4>5. QED
        BY <4>1, <4>3, <4>4
    <3>2. CASE n + 1 \notin J
      <4>1. ASSUME NEW x \in J PROVE x \in 1..n
        <5>1. x \in 1..(n + 1) /\ x # n + 1
          BY <3>2
        <5>2. QED
          BY <5>1
      <4>2. J \in SUBSET (1..n) /\ J \ {Max(J)} \in SUBSET (1..n)
        BY <4>1
      <4>3. g[J] = h[J] /\ g[J \ {Max(J)}] = h[J \ {Max(J)}]
        <5>1. J \ {Max(J)} \in SUBSET (1..(n + 1)) /\ n + 1 \notin J \ {Max(J)}
          BY <3>2
        <5>2. QED
          BY <3>2, <5>1
      <4> HIDE DEF g
      <4>4. QED
        BY <2>2, <4>2, <4>3
    <3>3. QED
      BY <3>1, <3>2
  <2>4. Keeps(g, s, S, 1..(n + 1))
    <3>1. g = [J \in SUBSET (1..(n + 1)) |-> g[J]]
      OBVIOUS
    <3> HIDE DEF g
    <3>2. QED
      BY <2>3, <3>1 DEF Keeps
  <2>5. QED
    BY <2>4
<1> HIDE DEF T
<1>3. Nat \subseteq T
  BY <1>1, <1>2, SetInduction
<1>4. QED
  BY <1>3 DEF T

(* So the elements are passed by or kept one by one.                       *)
KeepsFirst(g, s, S) ==
  /\ g[0] = <<>>
  /\ \A i \in 1..Len(s) : g[i] = IF s[i] \in S THEN Append(g[i - 1], s[i]) ELSE g[i - 1]
  /\ Kept(s, S) = g[Len(s)]
LEMMA KeptSteps ==
  ASSUME NEW T, NEW s \in Seq(T), NEW S
  PROVE  \E g : KeepsFirst(g, s, S)
<1> DEFINE N == Len(s)
           h == CHOOSE f : Keeps(f, s, S, 1..N)
           g == [i \in 0..N |-> h[1..i]]
<1>1. N \in Nat /\ DOMAIN s = 1..N
  OBVIOUS
<1> HIDE DEF N
<1>2. Keeps(h, s, S, 1..N)
  BY <1>1, KeepingExists
<1>3. Kept(s, S) = h[1..N]
  BY <1>1, KeptIs
<1> HIDE DEF h
<1>4. \A J \in SUBSET (1..N) :
        h[J] = IF J = {} THEN <<>>
               ELSE IF s[Max(J)] \in S THEN Append(h[J \ {Max(J)}], s[Max(J)]) ELSE h[J \ {Max(J)}]
  BY <1>2 DEF Keeps
<1>5. g[0] = <<>>
  <2>1. 1..0 = {} /\ 1..0 \in SUBSET (1..N)
    OBVIOUS
  <2>2. g[0] = h[1..0]
    BY <1>1
  <2>3. h[{}] = <<>>
    BY <1>4
  <2> HIDE DEF g
  <2>4. QED
    BY <2>1, <2>2, <2>3
<1>6. ASSUME NEW i \in 1..N
      PROVE  g[i] = IF s[i] \in S THEN Append(g[i - 1], s[i]) ELSE g[i - 1]
  <2>1. i \in Nat /\ 1 <= i /\ i <= N
    BY <1>1
  <2>2. i - 1 \in Nat /\ (i - 1) + 1 = i /\ i \in 1..i
    BY <2>1
  <2>3. 1..i \in SUBSET (1..N) /\ 1..i # {}
    <3>1. \A x \in 1..i : x \in 1..N
      BY <1>1, <2>1
    <3>2. QED
      BY <2>2, <3>1
  <2>4. Max(1..i) = i
    <3>1. \A n \in Nat : n + 1 \in 1..(n + 1) => Max(1..(n + 1)) = n + 1
      BY LastIndex
    <3>2. QED
      BY <2>2, <3>1
  <2>5. (1..i) \ {i} = 1..(i - 1)
    BY <1>1
  <2>6. g[i] = h[1..i] /\ g[i - 1] = h[1..(i - 1)]
    BY <1>1
  <2> HIDE DEF g
  <2>7. QED
    BY <1>4, <2>3, <2>4, <2>5, <2>6
<1>7. g[N] = h[1..N]
  BY <1>1
<1> HIDE DEF g
<1>8. KeepsFirst(g, s, S)
  BY <1>3, <1>5, <1>6, <1>7 DEF KeepsFirst, N
<1>9. QED
  BY <1>8

(* An element that is kept comes last.                                     *)
LEMMA KeptAppend ==
  ASSUME NEW T, NEW s \in Seq(T), NEW x \in T, NEW S
  PROVE  Kept(Append(s, x), S) = IF x \in S THEN Append(Kept(s, S), x) ELSE Kept(s, S)
<1> DEFINE t == Append(s, x)
<1>1. /\ t \in Seq(T) /\ Len(s) \in Nat /\ Len(t) = Len(s) + 1 /\ t[Len(s) + 1] = x
      /\ \A i \in 1..Len(s) : t[i] = s[i]
  BY AppendFacts
<1> HIDE DEF t
<1>2. PICK g : KeepsFirst(g, s, S)
  BY KeptSteps
<1>3. PICK h : KeepsFirst(h, t, S)
  BY <1>1, KeptSteps
<1> DEFINE N == {n \in Nat : n <= Len(s) => h[n] = g[n]}
<1>4. 0 \in N
  BY <1>2, <1>3 DEF KeepsFirst
<1>5. ASSUME NEW n \in Nat, n \in N
      PROVE  n + 1 \in N
  <2>1. SUFFICES ASSUME n + 1 <= Len(s) PROVE h[n + 1] = g[n + 1]
    OBVIOUS
  <2>2. n + 1 \in 1..Len(s) /\ n + 1 \in 1..Len(t) /\ (n + 1) - 1 = n /\ n <= Len(s)
    BY <1>1, <2>1
  <2>3. h[n] = g[n] /\ t[n + 1] = s[n + 1]
    BY <1>1, <1>5, <2>2
  <2>4. g[n + 1] = IF s[n + 1] \in S THEN Append(g[n], s[n + 1]) ELSE g[n]
    BY <1>2, <2>2 DEF KeepsFirst
  <2>5. h[n + 1] = IF t[n + 1] \in S THEN Append(h[n], t[n + 1]) ELSE h[n]
    BY <1>3, <2>2 DEF KeepsFirst
  <2>6. QED
    BY <2>3, <2>4, <2>5
<1>6. Nat \subseteq N
  <2> HIDE DEF N
  <2>1. QED
    BY <1>4, <1>5, SetInduction
<1>7. h[Len(s)] = g[Len(s)]
  BY <1>1, <1>6
<1>8. Len(s) + 1 \in 1..Len(t) /\ (Len(s) + 1) - 1 = Len(s)
  BY <1>1
<1>9. h[Len(s) + 1] = IF x \in S THEN Append(h[Len(s)], x) ELSE h[Len(s)]
  BY <1>1, <1>3, <1>8 DEF KeepsFirst
<1>10. Kept(t, S) = h[Len(s) + 1] /\ Kept(s, S) = g[Len(s)]
  BY <1>1, <1>2, <1>3 DEF KeepsFirst
<1>11. QED
  BY <1>7, <1>9, <1>10 DEF t

(* Nothing is kept of nothing.                                             *)
LEMMA KeptEmpty ==
  ASSUME NEW S
  PROVE  Kept(<<>>, S) = <<>>
<1>1. PICK g : KeepsFirst(g, <<>>, S)
  <2>1. <<>> \in Seq({})
    OBVIOUS
  <2>2. QED
    BY <2>1, KeptSteps
<1>2. QED
  BY <1>1 DEF KeepsFirst

(* What is kept are the elements of the set.                               *)
LEMMA KeptRange ==
  ASSUME NEW T, NEW s \in Seq(T), NEW S
  PROVE  Kept(s, S) \in Seq(T) /\ Range(Kept(s, S)) = Range(s) \cap S
<1> DEFINE A == {r \in Seq(T) : Kept(r, S) \in Seq(T) /\ Range(Kept(r, S)) = Range(r) \cap S}
<1>1. <<>> \in A
  <2>1. <<>> \in Seq(T)
    OBVIOUS
  <2>2. Range(<<>>) = {}
    <3>1. DOMAIN <<>> = {}
      OBVIOUS
    <3>2. QED
      BY <3>1 DEF Range
  <2>3. QED
    BY <2>1, <2>2, KeptEmpty
<1>2. ASSUME NEW r \in Seq(T), NEW x \in T, r \in A
      PROVE  Append(r, x) \in A
  <2>1. Append(r, x) \in Seq(T) /\ Range(Append(r, x)) = Range(r) \cup {x}
    BY RangeAppend
  <2>2. Kept(r, S) \in Seq(T) /\ Range(Kept(r, S)) = Range(r) \cap S
    BY <1>2
  <2>3. /\ Append(Kept(r, S), x) \in Seq(T)
        /\ Range(Append(Kept(r, S), x)) = Range(Kept(r, S)) \cup {x}
    BY <2>2, RangeAppend
  <2>4. Kept(Append(r, x), S) = IF x \in S THEN Append(Kept(r, S), x) ELSE Kept(r, S)
    BY KeptAppend
  <2>5. QED
    BY <2>1, <2>2, <2>3, <2>4
<1> HIDE DEF A
<1>3. Seq(T) \subseteq A
  BY <1>1, <1>2, GrowingSeqs
<1>4. QED
  BY <1>3 DEF A

(* A sequence up to an index, with the element there, and from there on.   *)
LEMMA SubSeqAppended ==
  ASSUME NEW T, NEW s \in Seq(T), NEW i \in 1..Len(s)
  PROVE  SubSeq(s, 1, i) = Append(SubSeq(s, 1, i - 1), s[i])
<1>1. Len(s) \in Nat /\ i \in Nat /\ i - 1 \in Nat /\ s[i] \in T
  OBVIOUS
<1>2. SubSeq(s, 1, i) = SubSeq(s, 1, i - 1) \o <<s[i]>>
  BY <1>1, SubSeqRecursiveSecond
<1>3. SubSeq(s, 1, i - 1) \in Seq(T)
  <2>1. \A j \in 1..Len(s) : s[j] \in T
    BY ElementOfSeq
  <2>2. 1..(i - 1) \subseteq 1..Len(s)
    BY <1>1
  <2>3. \A j \in 1..(i - 1) : s[j] \in T
    BY <2>1, <2>2, Zenon
  <2>4. QED
    BY <1>1, <2>3, SubSeqProperties
<1>4. QED
  BY <1>1, <1>2, <1>3, AppendIsConcat

(* A sequence up to an index and from there on.                            *)
LEMMA SubSeqSplit ==
  ASSUME NEW T, NEW s \in Seq(T), NEW i \in 0..Len(s)
  PROVE  s = SubSeq(s, 1, i) \o SubSeq(s, i + 1, Len(s))
<1>1. Len(s) \in Nat
  OBVIOUS
<1>2. SubSeq(s, 1, i) \o SubSeq(s, i + 1, Len(s)) = SubSeq(s, 1, Len(s))
  <2>1. 1 \in 1..(Len(s) + 1) /\ i \in (1 - 1)..Len(s) /\ Len(s) \in i..Len(s)
    BY <1>1
  <2>2. QED
    BY <2>1, ConcatAdjacentSubSeq
<1>3. SubSeq(s, 1, Len(s)) = s
  BY SubSeqFull
<1>4. QED
  BY <1>2, <1>3

(* Parts can be selected from one by one.                                  *)
LEMMA KeptConcat ==
  ASSUME NEW T, NEW s \in Seq(T), NEW t \in Seq(T), NEW S
  PROVE  Kept(s \o t, S) = Kept(s, S) \o Kept(t, S)
<1> DEFINE A == {r \in Seq(T) : Kept(s \o r, S) = Kept(s, S) \o Kept(r, S)}
<1>1. Kept(s, S) \in Seq(T) /\ \A r \in Seq(T) : Kept(r, S) \in Seq(T)
  BY KeptRange
<1>2. <<>> \in A
  <2>1. s \o <<>> = s /\ Kept(s, S) \o <<>> = Kept(s, S) /\ <<>> \in Seq(T)
    BY <1>1, ConcatEmptySeq
  <2>2. QED
    BY <2>1, KeptEmpty
<1>3. ASSUME NEW r \in Seq(T), NEW x \in T, r \in A
      PROVE  Append(r, x) \in A
  <2>1. s \o Append(r, x) = Append(s \o r, x)
    BY AppendOfConcat
  <2>2. s \o r \in Seq(T) /\ Append(r, x) \in Seq(T)
    BY AppendFacts, ConcatProperties
  <2>3. Kept(Append(s \o r, x), S) = IF x \in S THEN Append(Kept(s \o r, S), x) ELSE Kept(s \o r, S)
    BY <2>2, KeptAppend
  <2>4. Kept(Append(r, x), S) = IF x \in S THEN Append(Kept(r, S), x) ELSE Kept(r, S)
    BY KeptAppend
  <2>5. Kept(s \o r, S) = Kept(s, S) \o Kept(r, S)
    BY <1>3
  <2>6. Kept(s, S) \o Append(Kept(r, S), x) = Append(Kept(s, S) \o Kept(r, S), x)
    BY <1>1, AppendOfConcat
  <2>7. QED
    BY <2>1, <2>2, <2>3, <2>4, <2>5, <2>6
<1> HIDE DEF A
<1>4. Seq(T) \subseteq A
  BY <1>2, <1>3, GrowingSeqs
<1>5. QED
  BY <1>4 DEF A

(* Selecting twice is selecting from both sets.                            *)
LEMMA KeptTwice ==
  ASSUME NEW T, NEW s \in Seq(T), NEW S, NEW R
  PROVE  Kept(Kept(s, S), R) = Kept(s, S \cap R)
<1> DEFINE A == {r \in Seq(T) : Kept(Kept(r, S), R) = Kept(r, S \cap R)}
<1>1. <<>> \in A
  <2>1. <<>> \in Seq(T)
    OBVIOUS
  <2>2. QED
    BY <2>1, KeptEmpty
<1>2. ASSUME NEW r \in Seq(T), NEW x \in T, r \in A
      PROVE  Append(r, x) \in A
  <2>1. Append(r, x) \in Seq(T) /\ Kept(r, S) \in Seq(T)
    BY AppendFacts, KeptRange
  <2>2. Kept(Append(r, x), S) = IF x \in S THEN Append(Kept(r, S), x) ELSE Kept(r, S)
    BY KeptAppend
  <2>3. Kept(Append(Kept(r, S), x), R)
          = IF x \in R THEN Append(Kept(Kept(r, S), R), x) ELSE Kept(Kept(r, S), R)
    BY <2>1, KeptAppend
  <2>4. Kept(Append(r, x), S \cap R)
          = IF x \in S \cap R THEN Append(Kept(r, S \cap R), x) ELSE Kept(r, S \cap R)
    BY KeptAppend
  <2>5. Kept(Kept(r, S), R) = Kept(r, S \cap R)
    BY <1>2
  <2>6. Kept(Kept(Append(r, x), S), R) = Kept(Append(r, x), S \cap R)
    <3>1. CASE x \in S
      <4>1. Kept(Append(r, x), S) = Append(Kept(r, S), x)
        BY <2>2, <3>1
      <4>2. x \in S \cap R <=> x \in R
        BY <3>1
      <4>3. QED
        BY <2>3, <2>4, <2>5, <4>1, <4>2
    <3>2. CASE x \notin S
      <4>1. Kept(Append(r, x), S) = Kept(r, S) /\ x \notin S \cap R
        BY <2>2, <3>2
      <4>2. QED
        BY <2>4, <2>5, <4>1
    <3>3. QED
      BY <3>1, <3>2
  <2>7. QED
    BY <2>1, <2>6
<1> HIDE DEF A
<1>3. Seq(T) \subseteq A
  BY <1>1, <1>2, GrowingSeqs
<1>4. QED
  BY <1>3 DEF A

(* Only what is in the sequence matters.                                   *)
LEMMA KeptSame ==
  ASSUME NEW T, NEW s \in Seq(T), NEW S, NEW R, S \cap Range(s) = R \cap Range(s)
  PROVE  Kept(s, S) = Kept(s, R)
<1> DEFINE A == {r \in Seq(T) : S \cap Range(r) = R \cap Range(r) => Kept(r, S) = Kept(r, R)}
<1>1. <<>> \in A
  <2>1. <<>> \in Seq(T)
    OBVIOUS
  <2>2. QED
    BY <2>1, KeptEmpty
<1>2. ASSUME NEW r \in Seq(T), NEW x \in T, r \in A
      PROVE  Append(r, x) \in A
  <2>1. Append(r, x) \in Seq(T) /\ Range(Append(r, x)) = Range(r) \cup {x}
    BY RangeAppend
  <2>2. ASSUME S \cap (Range(r) \cup {x}) = R \cap (Range(r) \cup {x})
        PROVE  Kept(Append(r, x), S) = Kept(Append(r, x), R)
    <3>1. S \cap Range(r) = R \cap Range(r) /\ (x \in S <=> x \in R)
      BY <2>2
    <3>2. Kept(r, S) = Kept(r, R)
      BY <1>2, <3>1
    <3>3. Kept(Append(r, x), S) = IF x \in S THEN Append(Kept(r, S), x) ELSE Kept(r, S)
      BY KeptAppend
    <3>4. Kept(Append(r, x), R) = IF x \in R THEN Append(Kept(r, R), x) ELSE Kept(r, R)
      BY KeptAppend
    <3>5. QED
      BY <3>1, <3>2, <3>3, <3>4
  <2>3. QED
    BY <2>1, <2>2
<1> HIDE DEF A
<1>3. Seq(T) \subseteq A
  BY <1>1, <1>2, GrowingSeqs
<1>4. QED
  BY <1>3 DEF A

(* Everything is kept, or nothing.                                         *)
LEMMA KeptAll ==
  ASSUME NEW T, NEW s \in Seq(T), NEW S
  PROVE  /\ Range(s) \subseteq S => Kept(s, S) = s
         /\ Range(s) \cap S = {} => Kept(s, S) = <<>>
<1> DEFINE A == {r \in Seq(T) : Kept(r, T) = r}
<1>1. <<>> \in A
  <2>1. <<>> \in Seq(T)
    OBVIOUS
  <2>2. QED
    BY <2>1, KeptEmpty
<1>2. ASSUME NEW r \in Seq(T), NEW x \in T, r \in A
      PROVE  Append(r, x) \in A
  <2>1. Append(r, x) \in Seq(T)
    BY AppendFacts
  <2>2. Kept(Append(r, x), T) = Append(Kept(r, T), x)
    BY KeptAppend
  <2>3. QED
    BY <1>2, <2>1, <2>2
<1> HIDE DEF A
<1>3. Seq(T) \subseteq A
  BY <1>1, <1>2, GrowingSeqs
<1>4. Kept(s, T) = s /\ Range(s) \subseteq T
  BY <1>3, RangeIs DEF A
<1>5. ASSUME Range(s) \subseteq S PROVE Kept(s, S) = s
  <2>1. S \cap Range(s) = T \cap Range(s)
    BY <1>4, <1>5
  <2>2. QED
    BY <1>4, <2>1, KeptSame
<1>6. ASSUME Range(s) \cap S = {} PROVE Kept(s, S) = <<>>
  <2>1. Kept(s, S) \in Seq(T) /\ Range(Kept(s, S)) = {}
    BY <1>6, KeptRange
  <2>2. \A r \in Seq(T) : Range(r) = {} => r = <<>>
    <3>1. ASSUME NEW r \in Seq(T), r # <<>> PROVE Range(r) # {}
      <4>1. 1 \in DOMAIN r
        BY <3>1
      <4>2. QED
        BY <4>1 DEF Range
    <3>2. QED
      BY <3>1
  <2>3. QED
    BY <2>1, <2>2
<1>7. QED
  BY <1>5, <1>6

(* Of a sequence that names nothing twice one element is kept once.        *)
LEMMA KeptOnce ==
  ASSUME NEW T, NEW s \in Seq(T), NEW p \in 1..Len(s),
         \A i, j \in 1..Len(s) : s[i] = s[j] => i = j
  PROVE  Kept(s, {s[p]}) = <<s[p]>>
<1> DEFINE A == {r \in Seq(T) : (\A i, j \in 1..Len(r) : r[i] = r[j] => i = j)
                                  => \A x \in Range(r) : Kept(r, {x}) = <<x>>}
<1>1. <<>> \in A
  <2>1. <<>> \in Seq(T)
    OBVIOUS
  <2>2. Range(<<>>) = {}
    <3>1. DOMAIN <<>> = {}
      OBVIOUS
    <3>2. QED
      BY <3>1 DEF Range
  <2>3. QED
    BY <2>1, <2>2
<1>2. ASSUME NEW r \in Seq(T), NEW y \in T, r \in A
      PROVE  Append(r, y) \in A
  <2> DEFINE t == Append(r, y)
  <2>1. /\ t \in Seq(T) /\ Len(r) \in Nat /\ Len(t) = Len(r) + 1 /\ t[Len(r) + 1] = y
        /\ \A i \in 1..Len(r) : t[i] = r[i]
    BY AppendFacts
  <2>2. Range(t) = Range(r) \cup {y}
    BY RangeAppend
  <2>3. \A x : Kept(t, {x}) = IF y \in {x} THEN Append(Kept(r, {x}), y) ELSE Kept(r, {x})
    BY KeptAppend
  <2> HIDE DEF t
  <2>4. ASSUME \A i, j \in 1..Len(t) : t[i] = t[j] => i = j, NEW x \in Range(t)
        PROVE  Kept(t, {x}) = <<x>>
    <3>1. \A i \in 1..Len(r) : i \in 1..Len(t) /\ Len(r) + 1 \in 1..Len(t) /\ i # Len(r) + 1
      BY <2>1
    <3>2. \A i, j \in 1..Len(r) : r[i] = r[j] => i = j
      BY <2>1, <2>4, <3>1
    <3>3. \A i \in 1..Len(r) : r[i] # y
      BY <2>1, <2>4, <3>1
    <3>4. y \notin Range(r)
      BY <3>3, RangeIs
    <3>5. CASE x = y
      <4>1. Range(r) \cap {x} = {}
        BY <3>4, <3>5
      <4>2. Kept(r, {x}) = <<>>
        BY <4>1, KeptAll
      <4>3. Append(<<>>, y) = <<y>>
        OBVIOUS
      <4>4. Kept(t, {x}) = Append(Kept(r, {x}), y)
        BY <2>3, <3>5
      <4>5. QED
        BY <3>5, <4>2, <4>3, <4>4
    <3>6. CASE x # y
      <4>1. x \in Range(r)
        BY <2>2, <2>4, <3>6
      <4>2. Kept(r, {x}) = <<x>>
        BY <1>2, <3>2, <4>1
      <4>3. Kept(t, {x}) = Kept(r, {x})
        BY <2>3, <3>6
      <4>4. QED
        BY <4>2, <4>3
    <3>7. QED
      BY <3>5, <3>6
  <2>5. t \in A
    BY <2>1, <2>4
  <2>6. QED
    BY <2>5 DEF t
<1> HIDE DEF A
<1>3. Seq(T) \subseteq A
  BY <1>1, <1>2, GrowingSeqs
<1>4. s[p] \in Range(s)
  BY RangeIs
<1>5. QED
  BY <1>3, <1>4 DEF A

(* How many are kept when there is one more.                               *)
LEMMA CountAppend ==
  ASSUME NEW T, NEW s \in Seq(T), NEW x \in T, NEW S
  PROVE  /\ Count(s, S) \in Nat
         /\ Count(Append(s, x), S) = IF x \in S THEN Count(s, S) + 1 ELSE Count(s, S)
<1>1. Kept(s, S) \in Seq(T)
  BY KeptRange
<1>2. Kept(Append(s, x), S) = IF x \in S THEN Append(Kept(s, S), x) ELSE Kept(s, S)
  BY KeptAppend
<1>3. Len(Append(Kept(s, S), x)) = Len(Kept(s, S)) + 1 /\ Len(Kept(s, S)) \in Nat
  BY <1>1, AppendFacts
<1>4. QED
  BY <1>2, <1>3 DEF Count

(* How many are kept of two sequences.                                     *)
LEMMA CountConcat ==
  ASSUME NEW T, NEW s \in Seq(T), NEW t \in Seq(T), NEW S
  PROVE  /\ Count(s, S) \in Nat /\ Count(t, S) \in Nat
         /\ Count(s \o t, S) = Count(s, S) + Count(t, S)
<1>1. Kept(s, S) \in Seq(T) /\ Kept(t, S) \in Seq(T)
  BY KeptRange
<1>2. Kept(s \o t, S) = Kept(s, S) \o Kept(t, S)
  BY KeptConcat
<1>3. Len(Kept(s, S) \o Kept(t, S)) = Len(Kept(s, S)) + Len(Kept(t, S))
  BY <1>1, ConcatFacts
<1>4. Len(Kept(s, S)) \in Nat /\ Len(Kept(t, S)) \in Nat
  BY <1>1
<1>5. QED
  BY <1>2, <1>3, <1>4 DEF Count

(* How many are kept of those that are left, of all and of none.           *)
LEMMA CountKept ==
  ASSUME NEW T, NEW s \in Seq(T), NEW S
  PROVE  /\ Count(s, S) \in Nat
         /\ \A R : Count(Kept(s, R), S) = Count(s, R \cap S)
         /\ Range(s) \subseteq S => Count(s, S) = Len(s)
         /\ Range(s) \cap S = {} => Count(s, S) = 0
<1>1. Len(<<>>) = 0
  OBVIOUS
<1>2. Kept(s, S) \in Seq(T)
  BY KeptRange
<1>3. Count(s, S) \in Nat
  BY <1>2 DEF Count
<1>4. \A R : Count(Kept(s, R), S) = Count(s, R \cap S)
  BY KeptTwice DEF Count
<1>5. Range(s) \subseteq S => Count(s, S) = Len(s)
  BY KeptAll DEF Count
<1>6. Range(s) \cap S = {} => Count(s, S) = 0
  BY <1>1, KeptAll DEF Count
<1>7. QED
  BY <1>3, <1>4, <1>5, <1>6

(* Of nothing, none are kept.                                              *)
LEMMA CountEmpty ==
  ASSUME NEW S
  PROVE  Count(<<>>, S) = 0
<1>1. Len(<<>>) = 0
  OBVIOUS
<1>2. QED
  BY <1>1, KeptEmpty DEF Count

-----------------------------------------------------------------------------
(* Boards                                                                  *)

(* The end of a sequence that gets one element more.                       *)
LEMMA EndGrows ==
  ASSUME NEW S, NEW s \in Seq(S), NEW x \in S, NEW m \in 1..(Len(s) + 1)
  PROVE  SubSeq(Append(s, x), m, Len(Append(s, x))) = Append(SubSeq(s, m, Len(s)), x)
<1> DEFINE t == Append(s, x)
           a == SubSeq(t, m, Len(t))
           b == Append(SubSeq(s, m, Len(s)), x)
           c == SubSeq(s, m, Len(s))
<1>1. t \in Seq(S) /\ Len(s) \in Nat /\ Len(t) = Len(s) + 1 /\ t[Len(s) + 1] = x
  OBVIOUS
<1>2. (\A i \in 1..Len(s) : t[i] = s[i]) /\ (\A i \in 1..Len(s) : s[i] \in S)
  OBVIOUS
<1>3. c \in Seq(S) /\ Len(c) = Len(s) - m + 1 /\ \A i \in 1..(Len(s) - m + 1) : c[i] = s[m + i - 1]
  <2>1. m \in Int /\ Len(s) \in Int /\ \A i \in m..Len(s) : s[i] \in S
    BY <1>1, <1>2
  <2>2. /\ c \in Seq(S) /\ Len(c) = IF m <= Len(s) THEN Len(s) - m + 1 ELSE 0
        /\ \A i \in 1..(Len(s) - m + 1) : c[i] = s[m + i - 1]
    BY <2>1, SubSeqProperties
  <2> HIDE DEF c
  <2>3. QED
    BY <1>1, <2>2
<1>4. a \in Seq(S) /\ Len(a) = Len(s) - m + 2 /\ \A i \in 1..(Len(s) - m + 2) : a[i] = t[m + i - 1]
  <2> HIDE DEF t
  <2>1. m \in Int /\ Len(t) \in Int /\ \A i \in m..Len(t) : t[i] \in S
    BY <1>1, <1>2
  <2>2. /\ a \in Seq(S) /\ Len(a) = IF m <= Len(t) THEN Len(t) - m + 1 ELSE 0
        /\ \A i \in 1..(Len(t) - m + 1) : a[i] = t[m + i - 1]
    BY <2>1, SubSeqProperties
  <2> HIDE DEF a
  <2>3. Len(t) - m + 1 = Len(s) - m + 2 /\ m <= Len(t)
    BY <1>1
  <2>4. QED
    BY <2>2, <2>3
<1>5. b \in Seq(S) /\ Len(b) = Len(c) + 1 /\ b[Len(c) + 1] = x /\ \A i \in 1..Len(c) : b[i] = c[i]
  <2> HIDE DEF c
  <2>1. b = Append(c, x)
    BY DEF c
  <2>2. c \in Seq(S)
    BY <1>3
  <2> HIDE DEF b
  <2>3. QED
    BY <2>1, <2>2, AppendFacts
<1> HIDE DEF a, b, c, t
<1>6. Len(a) = Len(b)
  BY <1>1, <1>3, <1>4, <1>5
<1>7. ASSUME NEW i \in 1..Len(a)
      PROVE  a[i] = b[i]
  <2>1. CASE i <= Len(c)
    <3>1. i \in 1..(Len(s) - m + 1) /\ i \in 1..(Len(s) - m + 2) /\ m + i - 1 \in 1..Len(s)
      BY <1>1, <1>3, <1>4, <2>1
    <3>2. QED
      BY <1>2, <1>3, <1>4, <1>5, <2>1, <3>1
  <2>2. CASE ~(i <= Len(c))
    <3>1. i = Len(s) - m + 2 /\ i = Len(c) + 1 /\ m + i - 1 = Len(s) + 1
      BY <1>1, <1>3, <1>4, <2>2
    <3>2. i \in 1..(Len(s) - m + 2)
      BY <1>1, <1>4
    <3>3. QED
      BY <1>1, <1>4, <1>5, <3>1, <3>2
  <2>3. QED
    BY <2>1, <2>2
<1>8. a = b
  BY <1>4, <1>5, <1>6, <1>7, SeqEqual
<1>9. QED
  BY <1>8 DEF a, b, c, t

(* What is moved from the beginning of a sequence to the end of another.   *)
LEMMA TakenFirst ==
  ASSUME NEW S, NEW q \in Seq(S), NEW h \in Seq(S), NEW n \in 1..Len(q)
  PROVE  (h \o SubSeq(q, 1, n)) \o SubSeq(q, n + 1, Len(q)) = h \o q
<1> DEFINE a == SubSeq(q, 1, n)
           b == SubSeq(q, n + 1, Len(q))
<1>1. a \in Seq(S) /\ b \in Seq(S)
  OBVIOUS
<1>2. a \o b = q
  <2>1. 1 \in 1..(Len(q) + 1) /\ n \in (1 - 1)..Len(q) /\ Len(q) \in n..Len(q)
    OBVIOUS
  <2>2. a \o b = SubSeq(q, 1, Len(q))
    BY <2>1, ConcatAdjacentSubSeq
  <2>3. SubSeq(q, 1, Len(q)) = q
    BY SubSeqFull
  <2>4. QED
    BY <2>2, <2>3
<1> HIDE DEF a, b
<1>3. \A x, y \in Seq(S) : (h \o x) \o y = h \o (x \o y)
  OBVIOUS
<1>4. (h \o a) \o b = h \o (a \o b)
  BY <1>1, <1>3
<1>5. QED
  BY <1>2, <1>4 DEF a, b

(* The items, the values they have shown, and the messages they have had.  *)
ItemsInv ==
    /\ value \in [Types -> Nat]
    /\ alive \in [BoardTypes -> SUBSET BoardFibers] /\ listed = alive
    /\ boardChanged \in [Types -> SUBSET BoardFibers]
    /\ boardSeen \in [Types -> [BoardFibers -> Nat]]
    /\ values \in Nat /\ sleeping \subseteq BoardFibers
    /\ NoChangeMissed

QueuesInv ==
    /\ boardMessages \in [Sent -> Seq(Nat)]
    /\ queue \in [Sent -> [BoardFibers -> Seq(Nat)]]
    /\ handled \in [Sent -> [BoardFibers -> Seq(Nat)]]
    /\ since \in [Sent -> [BoardFibers -> Nat]]
    /\ \A t \in Sent, f \in BoardFibers : since[t][f] <= Len(boardMessages[t])
    /\ NoMessageMissed

BoardsInv == ItemsInv /\ QueuesInv

(* An item, the fibers it has told and what they have seen.                *)
LEMMA ItemsStep ==
  ASSUME BoardAssumption, ItemsInv, [BoardNext]_boardVars
  PROVE  ItemsInv'
<1>1. /\ value \in [Types -> Nat]
      /\ alive \in [BoardTypes -> SUBSET BoardFibers] /\ listed = alive
      /\ boardChanged \in [Types -> SUBSET BoardFibers]
      /\ boardSeen \in [Types -> [BoardFibers -> Nat]]
      /\ values \in Nat /\ sleeping \subseteq BoardFibers
      /\ Types \subseteq BoardTypes /\ Sent \subseteq BoardTypes /\ Types \cap Sent = {}
  BY DEF ItemsInv, BoardTypes, BoardAssumption
<1>2. /\ \A t \in Types : \A f \in alive[t] \ boardChanged[t] : boardSeen[t][f] = value[t]
      /\ \A f \in sleeping : ~WokenFiber(f)
  BY DEF ItemsInv, NoChangeMissed
<1>3. \A k \in BoardTypes : Reached(k) = alive[k]
  BY <1>1 DEF Reached
<1>4. \A k \in BoardTypes : CleanUp(k) => listed' = alive
  BY <1>1, <1>3 DEF CleanUp
<1>5. ASSUME NEW t \in Types, DidChange(t), value' \in [Types -> Nat], values' \in Nat,
             \A u \in Types : u # t => value'[u] = value[u]
      PROVE  ItemsInv'
  <2>1. /\ listed' = alive /\ alive' = alive /\ boardSeen' = boardSeen /\ queue' = queue
        /\ boardChanged' = [boardChanged EXCEPT ![t] = @ \cup alive[t]]
        /\ sleeping' = sleeping \ (alive[t] \ boardChanged[t])
    BY <1>1, <1>3, <1>4, <1>5 DEF DidChange
  <2>2. \A u \in Types : boardChanged'[u] = IF u = t THEN boardChanged[u] \cup alive[u] ELSE boardChanged[u]
    BY <1>1, <2>1
  <2>3. boardChanged' \in [Types -> SUBSET BoardFibers]
    BY <1>1, <2>1
  <2>4. \A f \in sleeping' : ~WokenFiber(f)'
    BY <1>2, <2>1, <2>2 DEF WokenFiber
  <2>5. \A u \in Types : \A f \in alive'[u] \ boardChanged'[u] : boardSeen'[u][f] = value'[u]
    BY <1>2, <1>5, <2>1, <2>2
  <2>6. QED
    BY <1>1, <1>5, <2>1, <2>3, <2>4, <2>5 DEF ItemsInv, NoChangeMissed
<1>6. ASSUME NEW t \in Types, SetValue(t)
      PROVE  ItemsInv'
  <2>1. values' \in Nat /\ value' = [value EXCEPT ![t] = values'] /\ DidChange(t)
    BY <1>1, <1>6 DEF SetValue
  <2>2. value' \in [Types -> Nat] /\ \A u \in Types : u # t => value'[u] = value[u]
    BY <1>1, <2>1
  <2>3. QED
    BY <1>5, <2>1, <2>2
<1>7. ASSUME NEW t \in Types, ClearValue(t)
      PROVE  ItemsInv'
  <2>1. values' \in Nat /\ value' = [value EXCEPT ![t] = 0] /\ DidChange(t)
    BY <1>1, <1>7 DEF ClearValue
  <2>2. value' \in [Types -> Nat] /\ \A u \in Types : u # t => value'[u] = value[u]
    BY <1>1, <2>1
  <2>3. QED
    BY <1>5, <2>1, <2>2
<1>8. ASSUME NEW t \in Types, NEW f \in BoardFibers, CreateWhiteboardWaiter(t, f)
      PROVE  ItemsInv'
  <2>1. /\ f \notin alive[t] /\ f \notin sleeping /\ t \in BoardTypes
        /\ alive' = [alive EXCEPT ![t] = @ \cup {f}]
        /\ listed' = [listed EXCEPT ![t] = @ \cup {f}]
        /\ boardChanged' = [boardChanged EXCEPT ![t] = IF value[t] # 0 THEN @ \cup {f} ELSE @]
        /\ boardSeen' = [boardSeen EXCEPT ![t][f] = 0]
        /\ UNCHANGED <<value, values, queue, sleeping>>
    BY <1>1, <1>8 DEF CreateWhiteboardWaiter
  <2>2. \A u \in Types : boardChanged'[u] =
                           IF u = t /\ value[t] # 0 THEN boardChanged[u] \cup {f} ELSE boardChanged[u]
    BY <1>1, <2>1
  <2>3. /\ \A u \in Types, g \in BoardFibers :
             boardSeen'[u][g] = IF u = t /\ g = f THEN 0 ELSE boardSeen[u][g]
        /\ \A u \in BoardTypes : alive'[u] = IF u = t THEN alive[u] \cup {f} ELSE alive[u]
    BY <1>1, <2>1
  <2>4. \A g \in sleeping' : ~WokenFiber(g)'
    BY <1>2, <2>1, <2>2 DEF WokenFiber
  <2>5. \A u \in Types : \A g \in alive'[u] \ boardChanged'[u] : boardSeen'[u][g] = value'[u]
    <3> SUFFICES ASSUME NEW u \in Types, NEW g \in alive'[u] \ boardChanged'[u]
                 PROVE  boardSeen'[u][g] = value[u]
      BY <2>1
    <3>1. g \in BoardFibers /\ u \in BoardTypes
      BY <1>1, <2>1, <2>3
    <3>2. CASE u = t /\ g = f
      BY <2>2, <2>3, <3>1, <3>2
    <3>3. CASE ~(u = t /\ g = f)
      <4>1. boardSeen'[u][g] = boardSeen[u][g]
        BY <2>3, <3>1, <3>3
      <4>2. g \in alive[u]
        BY <2>3, <3>1, <3>3
      <4>3. g \notin boardChanged[u]
        BY <2>2, <3>3
      <4>4. QED
        BY <1>2, <4>1, <4>2, <4>3
    <3>4. QED
      BY <3>2, <3>3
  <2>6. boardChanged' \in [Types -> SUBSET BoardFibers] /\ boardSeen' \in [Types -> [BoardFibers -> Nat]]
    BY <1>1, <2>1
  <2>7. alive' \in [BoardTypes -> SUBSET BoardFibers] /\ listed' = alive'
    BY <1>1, <2>1
  <2>8. QED
    BY <1>1, <2>1, <2>4, <2>5, <2>6, <2>7 DEF ItemsInv, NoChangeMissed
<1>9. ASSUME NEW t \in Types, NEW f \in BoardFibers, Has(t, f)
      PROVE  ItemsInv'
  <2>1. /\ boardChanged' = [boardChanged EXCEPT ![t] = @ \ {f}]
        /\ boardSeen' = [boardSeen EXCEPT ![t][f] = value[t]]
        /\ UNCHANGED <<value, values, alive, listed, queue, sleeping>>
    BY <1>9 DEF Has
  <2>2. /\ boardChanged' \in [Types -> SUBSET BoardFibers] /\ boardSeen' \in [Types -> [BoardFibers -> Nat]]
        /\ \A u \in Types : boardChanged'[u] = IF u = t THEN boardChanged[u] \ {f} ELSE boardChanged[u]
        /\ \A u \in Types, g \in BoardFibers :
             boardSeen'[u][g] = IF u = t /\ g = f THEN value[t] ELSE boardSeen[u][g]
    BY <1>1, <2>1
  <2>3. \A g \in sleeping' : ~WokenFiber(g)'
    BY <1>2, <2>1, <2>2 DEF WokenFiber
  <2>4. \A u \in Types : \A g \in alive'[u] \ boardChanged'[u] : boardSeen'[u][g] = value'[u]
    <3> SUFFICES ASSUME NEW u \in Types, NEW g \in alive[u] \ boardChanged'[u]
                 PROVE  boardSeen'[u][g] = value[u]
      BY <2>1
    <3>1. g \in BoardFibers
      BY <1>1
    <3>2. QED
      BY <1>2, <2>2, <3>1
  <2>5. QED
    BY <1>1, <2>1, <2>2, <2>3, <2>4 DEF ItemsInv, NoChangeMissed
<1>10. ASSUME NEW t \in Sent, NEW f \in BoardFibers, CreateMessageWaiter(t, f)
       PROVE  ItemsInv'
  <2>1. /\ f \notin sleeping /\ t \in BoardTypes /\ t \notin Types
        /\ alive' = [alive EXCEPT ![t] = @ \cup {f}]
        /\ listed' = [listed EXCEPT ![t] = @ \cup {f}]
        /\ queue' = [queue EXCEPT ![t][f] = <<>>]
        /\ UNCHANGED <<value, values, boardChanged, boardSeen, sleeping>>
    BY <1>1, <1>10 DEF CreateMessageWaiter
  <2>2. alive' \in [BoardTypes -> SUBSET BoardFibers] /\ listed' = alive'
    BY <1>1, <2>1
  <2>3. \A u \in Types : alive'[u] = alive[u]
    BY <1>1, <2>1
  <2>4. \A g \in sleeping' : g # f
    BY <2>1
  <2>5. \A g \in sleeping' : ~WokenFiber(g)'
    <3> SUFFICES ASSUME NEW g \in sleeping, NEW u \in Sent, queue'[u][g] # <<>>
                 PROVE  FALSE
      BY <1>2, <2>1 DEF WokenFiber
    <3>1. queue'[u][g] = queue[u][g]
      BY <2>1, <2>4
    <3>2. QED
      BY <1>2, <3>1 DEF WokenFiber
  <2>6. QED
    BY <1>1, <1>2, <2>1, <2>2, <2>3, <2>5 DEF ItemsInv, NoChangeMissed
<1>11. ASSUME NEW k \in BoardTypes, NEW f \in BoardFibers, DestroyItem(k, f)
       PROVE  ItemsInv'
  <2>1. /\ alive' = [alive EXCEPT ![k] = @ \ {f}] /\ listed' = [listed EXCEPT ![k] = @ \cap alive'[k]]
        /\ boardChanged' = [t \in Types |-> IF t = k THEN boardChanged[t] \ {f} ELSE boardChanged[t]]
        /\ queue' = [t \in Sent |-> IF t = k THEN [queue[t] EXCEPT ![f] = <<>>] ELSE queue[t]]
        /\ UNCHANGED <<value, values, boardSeen, sleeping>> /\ f \notin sleeping
    BY <1>11 DEF DestroyItem
  <2>2. alive' \in [BoardTypes -> SUBSET BoardFibers] /\ listed' = alive'
        /\ \A u \in BoardTypes : alive'[u] = IF u = k THEN alive[u] \ {f} ELSE alive[u]
    BY <1>1, <2>1
  <2>3. /\ boardChanged' \in [Types -> SUBSET BoardFibers]
        /\ \A u \in Types : boardChanged'[u] = IF u = k THEN boardChanged[u] \ {f} ELSE boardChanged[u]
    BY <1>1, <2>1
  <2>4. \A g \in sleeping' : ~WokenFiber(g)'
    <3> SUFFICES ASSUME NEW g \in sleeping, NEW u \in Sent, queue'[u][g] # <<>>
                 PROVE  FALSE
      BY <1>2, <2>1, <2>3 DEF WokenFiber
    <3>1. queue'[u][g] = queue[u][g]
      BY <2>1
    <3>2. QED
      BY <1>2, <3>1 DEF WokenFiber
  <2>5. \A u \in Types : \A g \in alive'[u] \ boardChanged'[u] : boardSeen'[u][g] = value'[u]
    BY <1>1, <1>2, <2>1, <2>2, <2>3
  <2>6. QED
    BY <1>1, <2>1, <2>2, <2>3, <2>4, <2>5 DEF ItemsInv, NoChangeMissed
<1>12. ASSUME NEW t \in Sent, Send(t)
       PROVE  ItemsInv'
  <2> DEFINE m == Len(boardMessages[t]) + 1
  <2>1. /\ queue' = [queue EXCEPT ![t] = [f \in BoardFibers |->
                        IF f \in alive[t] THEN Append(@[f], m) ELSE @[f]]]
        /\ sleeping' = sleeping \ alive[t] /\ listed' = alive
        /\ UNCHANGED <<value, values, alive, boardChanged, boardSeen>>
    BY <1>1, <1>3, <1>4, <1>12, ZenonT(30) DEF Send
  <2> HIDE DEF m
  <2>2. \A g \in sleeping' : ~WokenFiber(g)'
    <3> SUFFICES ASSUME NEW g \in sleeping', NEW u \in Sent, queue'[u][g] # <<>>
                 PROVE  FALSE
      BY <1>2, <2>1 DEF WokenFiber
    <3>1. g \in sleeping /\ g \in BoardFibers /\ ~WokenFiber(g)
      BY <1>1, <1>2, <2>1
    <3>2. queue'[u][g] = queue[u][g]
      BY <2>1, <3>1
    <3>3. QED
      BY <3>1, <3>2 DEF WokenFiber
  <2>3. QED
    BY <1>1, <1>2, <2>1, <2>2 DEF ItemsInv, NoChangeMissed
<1>13. ASSUME NEW t \in Sent, NEW f \in BoardFibers, NEW n \in 1..MaxBoardMessages, TakeMessages(t, f, n)
       PROVE  ItemsInv'
  <2>1. /\ f \notin sleeping
        /\ queue' = [queue EXCEPT ![t][f] = SubSeq(@, n + 1, Len(@))]
        /\ UNCHANGED <<value, values, alive, listed, boardChanged, boardSeen, sleeping>>
    BY <1>13 DEF TakeMessages
  <2>2. \A g \in sleeping' : ~WokenFiber(g)'
    <3> SUFFICES ASSUME NEW g \in sleeping, NEW u \in Sent, queue'[u][g] # <<>>
                 PROVE  FALSE
      BY <1>2, <2>1 DEF WokenFiber
    <3>1. queue'[u][g] = queue[u][g]
      BY <2>1
    <3>2. QED
      BY <1>2, <3>1 DEF WokenFiber
  <2>3. QED
    BY <1>1, <1>2, <2>1, <2>2 DEF ItemsInv, NoChangeMissed
<1>14. ASSUME NEW f \in BoardFibers, WaitForItems(f)
       PROVE  ItemsInv'
  <2>1. /\ ~WokenFiber(f) /\ sleeping' = sleeping \cup {f}
        /\ UNCHANGED <<value, values, alive, listed, boardChanged, boardSeen, queue>>
    BY <1>14 DEF WaitForItems
  <2>2. \A g \in sleeping' : ~WokenFiber(g)'
    BY <1>2, <2>1 DEF WokenFiber
  <2>3. QED
    BY <1>1, <1>2, <2>1, <2>2 DEF ItemsInv, NoChangeMissed
<1>15. CASE UNCHANGED boardVars
  <2>1. UNCHANGED <<value, values, alive, listed, boardChanged, boardSeen, queue, sleeping>>
    BY <1>15 DEF boardVars
  <2>2. QED
    BY <1>1, <1>2, <2>1 DEF ItemsInv, NoChangeMissed, WokenFiber
<1>16. QED
  BY <1>6, <1>7, <1>8, <1>9, <1>10, <1>11, <1>12, <1>13, <1>14, <1>15 DEF BoardNext


(* The queues of a message, one per fiber that listens.                    *)
LEMMA QueuesStep ==
  ASSUME BoardAssumption, ItemsInv, QueuesInv, [BoardNext]_boardVars
  PROVE  QueuesInv'
<1>1. /\ boardMessages \in [Sent -> Seq(Nat)]
      /\ queue \in [Sent -> [BoardFibers -> Seq(Nat)]]
      /\ handled \in [Sent -> [BoardFibers -> Seq(Nat)]]
      /\ since \in [Sent -> [BoardFibers -> Nat]]
      /\ \A t \in Sent, f \in BoardFibers : since[t][f] <= Len(boardMessages[t])
      /\ Types \cap Sent = {} /\ Sent \subseteq BoardTypes
      /\ alive \in [BoardTypes -> SUBSET BoardFibers] /\ listed = alive
  BY DEF QueuesInv, ItemsInv, BoardTypes, BoardAssumption
<1> DEFINE Got(t, f) ==
      handled[t][f] \o queue[t][f] = SubSeq(boardMessages[t], since[t][f] + 1, Len(boardMessages[t]))
<1>2. \A t \in Sent : \A f \in alive[t] : Got(t, f)
  BY DEF QueuesInv, NoMessageMissed
<1>3. ASSUME UNCHANGED <<boardMessages, queue, handled, since>>,
             \A t \in Sent : alive'[t] \subseteq alive[t]
      PROVE  QueuesInv'
  <2>1. \A t \in Sent : \A f \in alive'[t] : Got(t, f)'
    BY <1>2, <1>3
  <2>2. QED
    BY <1>1, <1>3, <2>1 DEF QueuesInv, NoMessageMissed
<1>4. ASSUME NEW t \in Sent, NEW f \in BoardFibers, CreateMessageWaiter(t, f)
      PROVE  QueuesInv'
  <2>1. /\ alive' = [alive EXCEPT ![t] = @ \cup {f}]
        /\ queue' = [queue EXCEPT ![t][f] = <<>>]
        /\ handled' = [handled EXCEPT ![t][f] = <<>>]
        /\ since' = [since EXCEPT ![t][f] = Len(boardMessages[t])]
        /\ boardMessages' = boardMessages
    BY <1>4 DEF CreateMessageWaiter
  <2>2. Len(boardMessages[t]) \in Nat /\ boardMessages[t] \in Seq(Nat) /\ <<>> \in Seq(Nat)
    BY <1>1
  <2>3. /\ queue' \in [Sent -> [BoardFibers -> Seq(Nat)]]
        /\ handled' \in [Sent -> [BoardFibers -> Seq(Nat)]]
        /\ since' \in [Sent -> [BoardFibers -> Nat]]
    <3> DEFINE e == <<>>
    <3>1. /\ e \in Seq(Nat) /\ queue' = [queue EXCEPT ![t][f] = e]
          /\ handled' = [handled EXCEPT ![t][f] = e]
      BY <2>1, <2>2
    <3> HIDE DEF e
    <3>2. QED
      BY <1>1, <2>1, <2>2, <3>1
  <2>4. \A u \in Sent, g \in BoardFibers : since'[u][g] <= Len(boardMessages'[u])
    <3> SUFFICES ASSUME NEW u \in Sent, NEW g \in BoardFibers
                 PROVE  since'[u][g] <= Len(boardMessages[u])
      BY <2>1
    <3>1. since'[u][g] = IF u = t /\ g = f THEN Len(boardMessages[t]) ELSE since[u][g]
      BY <1>1, <2>1
    <3>2. QED
      BY <1>1, <2>2, <3>1
  <2>5. ASSUME NEW u \in Sent, NEW g \in alive'[u]
        PROVE  Got(u, g)'
    <3>1. CASE u = t /\ g = f
      <4>1. queue'[u][g] = <<>> /\ handled'[u][g] = <<>> /\ since'[u][g] = Len(boardMessages[t])
        BY <1>1, <2>1, <3>1
      <4>2. SubSeq(boardMessages[t], Len(boardMessages[t]) + 1, Len(boardMessages[t])) = <<>>
        BY <2>2, SubSeqEmpty
      <4>3. <<>> \o <<>> = <<>>
        OBVIOUS
      <4>4. QED
        BY <2>1, <3>1, <4>1, <4>2, <4>3
    <3>2. CASE ~(u = t /\ g = f)
      <4>1. g \in alive[u] /\ g \in BoardFibers
        BY <1>1, <2>1, <3>2
      <4>2. queue'[u][g] = queue[u][g] /\ handled'[u][g] = handled[u][g] /\ since'[u][g] = since[u][g]
        BY <1>1, <2>1, <3>2, <4>1
      <4>3. QED
        BY <1>2, <2>1, <4>1, <4>2
    <3>3. QED
      BY <3>1, <3>2
  <2> HIDE DEF Got
  <2>6. \A u \in Sent : \A g \in alive'[u] : Got(u, g)'
    BY <2>5
  <2>7. QED
    BY <1>1, <2>1, <2>3, <2>4, <2>6 DEF QueuesInv, NoMessageMissed, Got
<1>5. ASSUME NEW k \in BoardTypes, NEW f \in BoardFibers, DestroyItem(k, f)
      PROVE  QueuesInv'
  <2>1. /\ alive' = [alive EXCEPT ![k] = @ \ {f}]
        /\ queue' = [t \in Sent |-> IF t = k THEN [queue[t] EXCEPT ![f] = <<>>] ELSE queue[t]]
        /\ UNCHANGED <<boardMessages, handled, since>>
    BY <1>5 DEF DestroyItem
  <2>2. queue' \in [Sent -> [BoardFibers -> Seq(Nat)]]
    <3> DEFINE e == <<>>
    <3>1. /\ e \in Seq(Nat)
          /\ queue' = [t \in Sent |-> IF t = k THEN [queue[t] EXCEPT ![f] = e] ELSE queue[t]]
      BY <2>1
    <3> HIDE DEF e
    <3>2. \A t \in Sent : queue[t] \in [BoardFibers -> Seq(Nat)]
      BY <1>1
    <3>3. \A t \in Sent : [queue[t] EXCEPT ![f] = e] \in [BoardFibers -> Seq(Nat)]
      BY <3>1, <3>2
    <3>4. QED
      BY <3>1, <3>2, <3>3
  <2>3. ASSUME NEW u \in Sent, NEW g \in alive'[u]
        PROVE  Got(u, g)'
    <3>1. g \in alive[u] /\ queue'[u][g] = queue[u][g] /\ g \in BoardFibers
      BY <1>1, <2>1
    <3>2. QED
      BY <1>2, <2>1, <3>1
  <2> HIDE DEF Got
  <2>4. \A u \in Sent : \A g \in alive'[u] : Got(u, g)'
    BY <2>3
  <2>5. QED
    BY <1>1, <2>1, <2>2, <2>4 DEF QueuesInv, NoMessageMissed, Got
<1>6. ASSUME NEW t \in Sent, Send(t)
      PROVE  QueuesInv'
  <2> DEFINE m == Len(boardMessages[t]) + 1
  <2>1. /\ boardMessages' = [boardMessages EXCEPT ![t] = Append(@, m)]
        /\ queue' = [queue EXCEPT ![t] = [f \in BoardFibers |->
                        IF f \in alive[t] THEN Append(@[f], m) ELSE @[f]]]
        /\ UNCHANGED <<alive, handled, since>>
    BY <1>1, <1>6 DEF Send, Reached
  <2>2. m \in Nat /\ boardMessages[t] \in Seq(Nat) /\ Len(boardMessages[t]) \in Nat
    BY <1>1
  <2>3. /\ Append(boardMessages[t], m) \in Seq(Nat)
        /\ Len(Append(boardMessages[t], m)) = Len(boardMessages[t]) + 1
    BY <2>2, AppendFacts
  <2>4. \A f \in BoardFibers : queue[t][f] \in Seq(Nat) /\ Append(queue[t][f], m) \in Seq(Nat)
    BY <1>1, <2>2
  <2> HIDE DEF m
  <2>5. boardMessages' \in [Sent -> Seq(Nat)] /\ queue' \in [Sent -> [BoardFibers -> Seq(Nat)]]
    BY <1>1, <2>1, <2>3, <2>4
  <2>6. ASSUME NEW u \in Sent, NEW f \in BoardFibers
        PROVE  since'[u][f] <= Len(boardMessages'[u])
    <3>1. CASE u = t
      <4>1. boardMessages'[u] = Append(boardMessages[t], m)
        BY <1>1, <2>1, <3>1
      <4>2. since[t][f] \in Nat /\ since[t][f] <= Len(boardMessages[t])
        BY <1>1
      <4>3. QED
        BY <2>1, <2>2, <2>3, <3>1, <4>1, <4>2
    <3>2. CASE u # t
      BY <1>1, <2>1, <3>2
    <3>3. QED
      BY <3>1, <3>2
  <2>7. ASSUME NEW u \in Sent, NEW f \in alive'[u]
        PROVE  Got(u, f)'
    <3>1. f \in alive[u] /\ f \in BoardFibers
      BY <1>1, <2>1
    <3>2. CASE u = t
      <4> DEFINE n == since[t][f] + 1
                 q == queue[t][f]
                 h == handled[t][f]
                 s == boardMessages[t]
      <4>1. queue'[u][f] = Append(q, m) /\ boardMessages'[u] = Append(s, m)
        BY <1>1, <2>1, <3>1, <3>2
      <4>2. s \in Seq(Nat) /\ q \in Seq(Nat) /\ h \in Seq(Nat) /\ n \in 1..(Len(s) + 1)
        BY <1>1, <3>1, <2>2
      <4>3. h \o q = SubSeq(s, n, Len(s))
        BY <1>2, <3>1, <3>2
      <4>4. handled'[u][f] = h /\ since'[u][f] + 1 = n
        BY <2>1, <3>2
      <4> HIDE DEF n, q, h, s
      <4>5. SubSeq(Append(s, m), n, Len(Append(s, m))) = Append(SubSeq(s, n, Len(s)), m)
        BY <2>2, <4>2, EndGrows
      <4>6. h \o Append(q, m) = Append(h \o q, m)
        BY <2>2, <4>2, SMTT(30)
      <4>7. QED
        BY <4>1, <4>3, <4>4, <4>5, <4>6
    <3>3. CASE u # t
      <4>1. queue'[u] = queue[u] /\ boardMessages'[u] = boardMessages[u]
        BY <1>1, <2>1, <3>3
      <4>2. QED
        BY <1>2, <2>1, <3>1, <4>1
    <3>4. QED
      BY <3>2, <3>3
  <2> HIDE DEF Got
  <2>8. \A u \in Sent : \A f \in alive'[u] : Got(u, f)'
    BY <2>7
  <2>9. \A u \in Sent, f \in BoardFibers : since'[u][f] <= Len(boardMessages'[u])
    BY <2>6
  <2>10. QED
    BY <1>1, <2>1, <2>5, <2>8, <2>9 DEF QueuesInv, NoMessageMissed, Got
<1>7. ASSUME NEW t \in Sent, NEW f \in BoardFibers, NEW n \in 1..MaxBoardMessages, TakeMessages(t, f, n)
      PROVE  QueuesInv'
  <2> DEFINE q == queue[t][f]
             h == handled[t][f]
  <2>1. /\ n \in {1, Len(q)} /\ q # <<>>
        /\ handled' = [handled EXCEPT ![t][f] = @ \o SubSeq(q, 1, n)]
        /\ queue' = [queue EXCEPT ![t][f] = SubSeq(@, n + 1, Len(@))]
        /\ UNCHANGED <<boardMessages, alive, since>>
    BY <1>7 DEF TakeMessages
  <2>2. q \in Seq(Nat) /\ h \in Seq(Nat)
    BY <1>1
  <2>3. handled'[t][f] = h \o SubSeq(q, 1, n) /\ queue'[t][f] = SubSeq(q, n + 1, Len(q))
    BY <1>1, <2>1
  <2>4. \A u \in Sent, g \in BoardFibers : u # t \/ g # f =>
            handled'[u][g] = handled[u][g] /\ queue'[u][g] = queue[u][g]
    BY <1>1, <2>1
  <2> HIDE DEF q, h
  <2>5. Len(q) \in Nat /\ Len(q) >= 1 /\ n \in 1..Len(q)
    BY <2>1, <2>2
  <2>6. SubSeq(q, 1, n) \in Seq(Nat) /\ SubSeq(q, n + 1, Len(q)) \in Seq(Nat)
    BY <2>2, <2>5
  <2>8. (h \o SubSeq(q, 1, n)) \o SubSeq(q, n + 1, Len(q)) = h \o q
    BY <2>2, <2>5, TakenFirst
  <2>9. h \o SubSeq(q, 1, n) \in Seq(Nat)
    BY <2>2, <2>6
  <2>10. /\ handled' \in [Sent -> [BoardFibers -> Seq(Nat)]]
         /\ queue' \in [Sent -> [BoardFibers -> Seq(Nat)]]
    <3>1. /\ handled' = [handled EXCEPT ![t] = [@ EXCEPT ![f] = h \o SubSeq(q, 1, n)]]
          /\ queue' = [queue EXCEPT ![t] = [@ EXCEPT ![f] = SubSeq(q, n + 1, Len(q))]]
      BY <1>1, <2>1 DEF h, q
    <3>2. QED
      BY <1>1, <2>6, <2>9, <3>1
  <2>11. ASSUME NEW u \in Sent, NEW g \in alive'[u]
         PROVE  Got(u, g)'
    <3>1. g \in alive[u] /\ g \in BoardFibers /\ Got(u, g)
      BY <1>1, <1>2, <2>1
    <3>2. CASE u = t /\ g = f
      BY <2>1, <2>3, <2>8, <3>1, <3>2 DEF h, q
    <3>3. CASE ~(u = t /\ g = f)
      BY <2>1, <2>4, <3>1, <3>3
    <3>4. QED
      BY <3>2, <3>3
  <2> HIDE DEF Got
  <2>12. \A u \in Sent : \A g \in alive'[u] : Got(u, g)'
    BY <2>11
  <2>13. QED
    BY <1>1, <2>1, <2>10, <2>12 DEF QueuesInv, NoMessageMissed, Got
<1>8. ASSUME NEW t \in Types, NEW f \in BoardFibers,
             SetValue(t) \/ ClearValue(t) \/ CreateWhiteboardWaiter(t, f) \/ Has(t, f) \/ WaitForItems(f)
      PROVE  QueuesInv'
  <2>1. UNCHANGED <<boardMessages, queue, handled, since>>
    BY <1>8 DEF SetValue, ClearValue, DidChange, CreateWhiteboardWaiter, Has, WaitForItems
  <2>2. \A u \in Sent : alive'[u] = alive[u]
    BY <1>1, <1>8 DEF SetValue, ClearValue, DidChange, CreateWhiteboardWaiter, Has, WaitForItems
  <2>3. QED
    BY <1>3, <2>1, <2>2
<1>9. ASSUME NEW t \in Types, SetValue(t) \/ ClearValue(t)
      PROVE  QueuesInv'
  BY <1>3, <1>9 DEF SetValue, ClearValue, DidChange
<1>10. ASSUME NEW f \in BoardFibers, WaitForItems(f)
       PROVE  QueuesInv'
  BY <1>3, <1>10 DEF WaitForItems
<1>11. CASE UNCHANGED boardVars
  BY <1>3, <1>11 DEF boardVars
<1> HIDE DEF Got
<1>12. QED
  BY <1>4, <1>5, <1>6, <1>7, <1>8, <1>9, <1>10, <1>11 DEF BoardNext

(* For all fibers and kinds of items and messages: an item that is not     *)
(* marked as changed has shown the value that the board holds, and nobody  *)
(* sleeps over one that is; who listens to a message has handled or queued *)
(* all that were sent since, in order; and no board lists an item when all *)
(* are gone (Whiteboard.hpp:160-215, Messageboard.hpp:120-211).            *)
THEOREM AnnouncementsArrive ==
  ASSUME BoardAssumption
  PROVE  BoardSpec => [](NoChangeMissed /\ NoMessageMissed /\ NoItemLeftListed)
<1>1. BoardInit => BoardsInv
  <2> SUFFICES ASSUME BoardInit PROVE BoardsInv
    OBVIOUS
  <2>1. /\ value = [t \in Types |-> 0] /\ values = 0
        /\ alive = [k \in BoardTypes |-> {}] /\ listed = [k \in BoardTypes |-> {}]
        /\ boardChanged = [t \in Types |-> {}]
        /\ boardSeen = [t \in Types |-> [f \in BoardFibers |-> 0]]
        /\ sleeping = {} /\ Sent \subseteq BoardTypes /\ Types \subseteq BoardTypes
    BY DEF BoardInit, BoardTypes
  <2>2. ItemsInv
    BY <2>1 DEF ItemsInv, NoChangeMissed
  <2> DEFINE e == <<>>
  <2>3. /\ boardMessages = [t \in Sent |-> e]
        /\ queue = [t \in Sent |-> [f \in BoardFibers |-> e]]
        /\ handled = [t \in Sent |-> [f \in BoardFibers |-> e]]
        /\ since = [t \in Sent |-> [f \in BoardFibers |-> 0]]
        /\ e \in Seq(Nat) /\ Len(e) = 0
    BY DEF BoardInit
  <2> HIDE DEF e
  <2>4. NoMessageMissed
    BY <2>1 DEF NoMessageMissed
  <2>5. QueuesInv
    BY <2>3, <2>4 DEF QueuesInv
  <2>6. QED
    BY <2>2, <2>5 DEF BoardsInv
<1>2. BoardsInv /\ [BoardNext]_boardVars => BoardsInv'
  BY ItemsStep, QueuesStep DEF BoardsInv
<1>3. BoardsInv => NoChangeMissed /\ NoMessageMissed /\ NoItemLeftListed
  BY DEF BoardsInv, ItemsInv, QueuesInv, NoItemLeftListed
<1>4. QED
  BY <1>1, <1>2, <1>3, PTL DEF BoardSpec

(* The boards' types; and no more messages are sent than the bound.        *)
BoardTypesInv ==
    /\ BoardTypeOK
    /\ boardMessages \in [Sent -> Seq(Nat)]
    /\ \A t \in Sent : Len(boardMessages[t]) <= MaxBoardMessages

(* All fields of the boards keep their types.                              *)
THEOREM BoardsAreTyped ==
  ASSUME BoardAssumption
  PROVE  BoardSpec => []BoardTypeOK
<1> USE DEF BoardAssumption
<1>1. BoardInit => BoardTypesInv
  <2> SUFFICES ASSUME BoardInit PROVE BoardTypesInv
    OBVIOUS
  <2> DEFINE e == <<>>
  <2>1. boardMessages = [t \in Sent |-> e] /\ e \in Seq(Nat) /\ Len(e) = 0
    BY DEF BoardInit
  <2> HIDE DEF e
  <2>2. QED
    BY <2>1 DEF BoardInit, BoardTypesInv, BoardTypeOK, BoardTypes
<1>2. ASSUME BoardTypesInv, [BoardNext]_boardVars
      PROVE  BoardTypesInv'
  <2> USE <1>2 DEF BoardTypesInv, BoardTypeOK
  <2>1. Types \subseteq BoardTypes /\ Sent \subseteq BoardTypes
    BY DEF BoardTypes
  <2>2. \A k \in BoardTypes : CleanUp(k) => listed' \in [BoardTypes -> SUBSET BoardFibers]
    BY DEF CleanUp, Reached
  <2>3. ASSUME NEW t \in Types, DidChange(t), value' \in [Types -> 0..MaxValues], values' \in 0..MaxValues
        PROVE  BoardTypesInv'
    BY <2>1, <2>2, <2>3 DEF DidChange, Reached
  <2>4. ASSUME NEW t \in Types, SetValue(t)
        PROVE  BoardTypesInv'
    <3>1. values' \in 0..MaxValues /\ value' = [value EXCEPT ![t] = values'] /\ DidChange(t)
      BY <2>4 DEF SetValue
    <3>2. QED
      BY <2>3, <3>1
  <2>5. ASSUME NEW t \in Types, ClearValue(t)
        PROVE  BoardTypesInv'
    BY <2>3, <2>5 DEF ClearValue
  <2>6. ASSUME NEW t \in Types, NEW f \in BoardFibers, CreateWhiteboardWaiter(t, f)
        PROVE  BoardTypesInv'
    BY <2>1, <2>6 DEF CreateWhiteboardWaiter
  <2>7. ASSUME NEW t \in Types, NEW f \in BoardFibers, Has(t, f)
        PROVE  BoardTypesInv'
    BY <2>7 DEF Has
  <2>8. ASSUME NEW t \in Sent, Send(t)
        PROVE  BoardTypesInv'
    <3>0. boardMessages[t] \in Seq(Nat) /\ Len(boardMessages[t]) + 1 \in Nat
      BY <2>8
    <3>1. PICK m \in Nat : /\ m = Len(boardMessages[t]) + 1
                           /\ boardMessages' = [boardMessages EXCEPT ![t] = Append(@, m)]
      BY <2>8, <3>0, Zenon DEF Send
    <3>2. Append(boardMessages[t], m) \in Seq(Nat) /\ Len(Append(boardMessages[t], m)) = m
      BY <3>0, <3>1, AppendFacts
    <3>3. m <= MaxBoardMessages
      BY <2>8, <3>1 DEF Send
    <3>4. /\ boardMessages' \in [Sent -> Seq(Nat)]
          /\ \A u \in Sent : Len(boardMessages'[u]) <= MaxBoardMessages
      BY <3>1, <3>2, <3>3
    <3>5. UNCHANGED <<value, values, alive, boardChanged, boardSeen, since>> /\ CleanUp(t)
          /\ sleeping' \subseteq sleeping
      BY <2>8 DEF Send
    <3>6. listed' \in [BoardTypes -> SUBSET BoardFibers] /\ sleeping' \subseteq BoardFibers
      BY <2>1, <2>2, <3>5
    <3>7. QED
      BY <3>4, <3>5, <3>6
  <2>9. ASSUME NEW t \in Sent, NEW f \in BoardFibers, CreateMessageWaiter(t, f)
        PROVE  BoardTypesInv'
    BY <2>1, <2>9 DEF CreateMessageWaiter
  <2>10. ASSUME NEW t \in Sent, NEW f \in BoardFibers, NEW n \in 1..MaxBoardMessages,
                TakeMessages(t, f, n)
         PROVE  BoardTypesInv'
    BY <2>10 DEF TakeMessages
  <2>11. ASSUME NEW k \in BoardTypes, NEW f \in BoardFibers, DestroyItem(k, f)
         PROVE  BoardTypesInv'
    BY <2>11 DEF DestroyItem
  <2>12. ASSUME NEW f \in BoardFibers, WaitForItems(f)
         PROVE  BoardTypesInv'
    BY <2>12 DEF WaitForItems
  <2>13. CASE UNCHANGED boardVars
    BY <2>13 DEF boardVars
  <2>14. QED
    BY <2>4, <2>5, <2>6, <2>7, <2>8, <2>9, <2>10, <2>11, <2>12, <2>13 DEF BoardNext
<1>3. QED
  BY <1>1, <1>2, PTL DEF BoardSpec, BoardTypesInv

-----------------------------------------------------------------------------
(* UserInterface                                                           *)

UiItems == {Text(s, n) : s \in Speakers, n \in Nat} \cup {Prompt(s) : s \in Speakers}
           \cup {Function(s) : s \in Speakers} \cup {Null}

IsText(x, s) == x.kind = "text" /\ x.by = s
IsAsked(x, s) == x.kind # "text" /\ x.by = s

(* The kinds of items of the queue are told apart.                         *)
LEMMA ItemFacts ==
  /\ \A s, n : Text(s, n).kind = "text" /\ Text(s, n).by = s /\ Text(s, n).no = n
  /\ \A s : Prompt(s).kind = "prompt" /\ Prompt(s).by = s
  /\ \A s : Function(s).kind = "function" /\ Function(s).by = s
  /\ Null.kind = "nullptr" /\ Null.by = "nobody"
  /\ \A x \in UiItems : x.kind = "text" => x.by \in Speakers /\ \E n \in Nat : x = Text(x.by, n)
  /\ \A x \in UiItems : x.kind = "prompt" => x.by \in Speakers /\ x = Prompt(x.by)
  /\ \A x \in UiItems : x.kind = "function" => x.by \in Speakers /\ x = Function(x.by)
  /\ \A x \in UiItems : x.kind = "nullptr" => x = Null
<1>1. /\ \A s, n : Text(s, n).kind = "text" /\ Text(s, n).by = s /\ Text(s, n).no = n
      /\ \A s : Prompt(s).kind = "prompt" /\ Prompt(s).by = s
      /\ \A s : Function(s).kind = "function" /\ Function(s).by = s
      /\ Null.kind = "nullptr" /\ Null.by = "nobody"
  BY DEF Text, Prompt, Function, Null
<1>2. \A x \in UiItems : \/ \E s \in Speakers, n \in Nat : x = Text(s, n)
                         \/ \E s \in Speakers : x = Prompt(s)
                         \/ \E s \in Speakers : x = Function(s)
                         \/ x = Null
  BY DEF UiItems
<1>3. QED
  BY <1>1, <1>2

(* The first element of a queue in front of which one is put.              *)
LEMMA FrontFacts ==
  ASSUME NEW S, NEW q \in Seq(S), NEW x \in S
  PROVE  /\ <<x>> \o q \in Seq(S) /\ Len(<<x>> \o q) = Len(q) + 1 /\ Len(q) \in Nat
         /\ (<<x>> \o q)[1] = x /\ \A i \in 1..Len(q) : (<<x>> \o q)[i + 1] = q[i]
<1> DEFINE one == <<x>>
<1>1. one \in Seq(S) /\ Len(one) = 1 /\ one[1] = x
  OBVIOUS
<1> HIDE DEF one
<1>2. /\ one \o q \in Seq(S) /\ Len(one \o q) = Len(one) + Len(q) /\ Len(q) \in Nat
      /\ \A i \in 1..Len(one) : (one \o q)[i] = one[i]
      /\ \A i \in 1..Len(q) : (one \o q)[i + Len(one)] = q[i]
  BY <1>1, ConcatFacts
<1>3. QED
  BY <1>1, <1>2 DEF one

(* A queue holds no item of those asked by s, or the item x only.          *)
AskedNone(q, s) == \A i \in 1..Len(q) : ~IsAsked(q[i], s)
AskedOne(q, s, x) == \E i \in 1..Len(q) : /\ q[i] = x
                                          /\ \A j \in 1..Len(q) : IsAsked(q[j], s) => j = i

(* An item at the end of the queue, and the items that are asked.          *)
LEMMA AppendAsked ==
  ASSUME NEW q \in Seq(UiItems), NEW x \in UiItems, NEW s
  PROVE  /\ Append(q, x) \in Seq(UiItems)
         /\ ~IsAsked(x, s) => /\ AskedNone(q, s) => AskedNone(Append(q, x), s)
                              /\ \A y : AskedOne(q, s, y) => AskedOne(Append(q, x), s, y)
         /\ AskedNone(q, s) => AskedOne(Append(q, x), s, x)
         /\ \A y : x # y /\ (\A i \in 1..Len(q) : q[i] # y)
                     => \A i \in 1..Len(Append(q, x)) : Append(q, x)[i] # y
<1> DEFINE t == Append(q, x)
           n == Len(q)
<1>1. /\ t \in Seq(UiItems) /\ n \in Nat /\ Len(t) = n + 1 /\ t[n + 1] = x
      /\ \A i \in 1..n : t[i] = q[i]
  BY AppendFacts
<1> HIDE DEF t
<1>2. \A i \in 1..Len(t) : i = n + 1 \/ i \in 1..n
  BY <1>1
<1>3. ASSUME ~IsAsked(x, s), AskedNone(q, s)
      PROVE  AskedNone(t, s)
  BY <1>1, <1>2, <1>3 DEF AskedNone
<1>4. ASSUME ~IsAsked(x, s), NEW y, AskedOne(q, s, y)
      PROVE  AskedOne(t, s, y)
  <2>1. PICK i \in 1..n : q[i] = y /\ \A j \in 1..n : IsAsked(q[j], s) => j = i
    BY <1>4 DEF AskedOne
  <2>2. i \in 1..Len(t) /\ t[i] = y
    BY <1>1, <2>1
  <2>3. \A j \in 1..Len(t) : IsAsked(t[j], s) => j = i
    BY <1>1, <1>2, <1>4, <2>1
  <2>4. QED
    BY <2>2, <2>3 DEF AskedOne
<1>5. ASSUME AskedNone(q, s)
      PROVE  AskedOne(t, s, x)
  <2>1. n + 1 \in 1..Len(t) /\ t[n + 1] = x
    BY <1>1
  <2>2. \A j \in 1..Len(t) : IsAsked(t[j], s) => j = n + 1
    BY <1>1, <1>2, <1>5 DEF AskedNone
  <2>3. QED
    BY <2>1, <2>2 DEF AskedOne
<1>6. \A y : x # y /\ (\A i \in 1..n : q[i] # y) => \A i \in 1..Len(t) : t[i] # y
  BY <1>1, <1>2
<1>7. QED
  BY <1>1, <1>3, <1>4, <1>5, <1>6 DEF t

(* An item in front of the queue, and the items that are asked.            *)
LEMMA FrontAsked ==
  ASSUME NEW q \in Seq(UiItems), NEW x \in UiItems, NEW s
  PROVE  /\ <<x>> \o q \in Seq(UiItems)
         /\ ~IsAsked(x, s) => /\ AskedNone(q, s) => AskedNone(<<x>> \o q, s)
                              /\ \A y : AskedOne(q, s, y) => AskedOne(<<x>> \o q, s, y)
         /\ AskedNone(q, s) => AskedOne(<<x>> \o q, s, x)
         /\ \A y : x # y /\ (\A i \in 1..Len(q) : q[i] # y)
                     => \A i \in 1..Len(<<x>> \o q) : (<<x>> \o q)[i] # y
<1> DEFINE t == <<x>> \o q
           n == Len(q)
<1>1. /\ t \in Seq(UiItems) /\ n \in Nat /\ Len(t) = n + 1 /\ t[1] = x
      /\ \A i \in 1..n : t[i + 1] = q[i]
  BY FrontFacts
<1> HIDE DEF t
<1>2. \A i \in 1..Len(t) : i = 1 \/ (i - 1 \in 1..n /\ t[i] = q[i - 1])
  <2> SUFFICES ASSUME NEW i \in 1..Len(t), i # 1
               PROVE  i - 1 \in 1..n /\ t[i] = q[i - 1]
    OBVIOUS
  <2>1. i - 1 \in 1..n /\ (i - 1) + 1 = i
    BY <1>1
  <2>2. QED
    BY <1>1, <2>1
<1>3. ASSUME ~IsAsked(x, s), AskedNone(q, s)
      PROVE  AskedNone(t, s)
  BY <1>1, <1>2, <1>3 DEF AskedNone
<1>4. ASSUME ~IsAsked(x, s), NEW y, AskedOne(q, s, y)
      PROVE  AskedOne(t, s, y)
  <2>1. PICK i \in 1..n : q[i] = y /\ \A j \in 1..n : IsAsked(q[j], s) => j = i
    BY <1>4 DEF AskedOne
  <2>2. i + 1 \in 1..Len(t) /\ t[i + 1] = y
    BY <1>1, <2>1
  <2>3. ASSUME NEW j \in 1..Len(t), IsAsked(t[j], s)
        PROVE  j = i + 1
    <3>1. j - 1 \in 1..n /\ t[j] = q[j - 1]
      BY <1>1, <1>2, <1>4, <2>3
    <3>2. j - 1 = i
      BY <2>1, <2>3, <3>1
    <3>3. QED
      BY <1>1, <3>2
  <2>4. QED
    BY <2>2, <2>3 DEF AskedOne
<1>5. ASSUME AskedNone(q, s)
      PROVE  AskedOne(t, s, x)
  <2>1. 1 \in 1..Len(t) /\ t[1] = x
    BY <1>1
  <2>2. \A j \in 1..Len(t) : IsAsked(t[j], s) => j = 1
    BY <1>1, <1>2, <1>5 DEF AskedNone
  <2>3. QED
    BY <2>1, <2>2 DEF AskedOne
<1>6. \A y : x # y /\ (\A i \in 1..n : q[i] # y) => \A i \in 1..Len(t) : t[i] # y
  BY <1>1, <1>2
<1>7. QED
  BY <1>1, <1>3, <1>4, <1>5, <1>6 DEF t

(* The first item taken from the queue, and the items that are asked.      *)
LEMMA TailAsked ==
  ASSUME NEW q \in Seq(UiItems), q # <<>>, NEW s
  PROVE  /\ Tail(q) \in Seq(UiItems) /\ Head(q) \in UiItems
         /\ AskedNone(q, s) => ~IsAsked(Head(q), s) /\ AskedNone(Tail(q), s)
         /\ \A y : AskedOne(q, s, y) /\ IsAsked(Head(q), s) => Head(q) = y /\ AskedNone(Tail(q), s)
         /\ \A y : AskedOne(q, s, y) /\ IsAsked(y, s) /\ ~IsAsked(Head(q), s) => AskedOne(Tail(q), s, y)
         /\ \A y : (\A i \in 1..Len(q) : q[i] # y)
                     => Head(q) # y /\ \A i \in 1..Len(Tail(q)) : Tail(q)[i] # y
<1> DEFINE t == Tail(q)
           n == Len(t)
<1>1. /\ t \in Seq(UiItems) /\ Head(q) = q[1] /\ Len(q) \in Nat \ {0} /\ n = Len(q) - 1
      /\ \A i \in 1..(Len(q) - 1) : t[i] = q[i + 1]
  BY TailFacts
<1>2. 1 \in 1..Len(q) /\ Head(q) \in UiItems /\ n \in Nat
  BY <1>1
<1> HIDE DEF t
<1>3. \A i \in 1..n : t[i] = q[i + 1] /\ i + 1 \in 1..Len(q) /\ i + 1 # 1
  BY <1>1
<1>4. ASSUME AskedNone(q, s)
      PROVE  ~IsAsked(Head(q), s) /\ AskedNone(t, s)
  BY <1>1, <1>2, <1>3, <1>4 DEF AskedNone
<1>5. ASSUME NEW y, AskedOne(q, s, y), IsAsked(Head(q), s)
      PROVE  Head(q) = y /\ AskedNone(t, s)
  <2>1. PICK i \in 1..Len(q) : q[i] = y /\ \A j \in 1..Len(q) : IsAsked(q[j], s) => j = i
    BY <1>5 DEF AskedOne
  <2>2. i = 1
    BY <1>1, <1>2, <1>5, <2>1
  <2>3. QED
    BY <1>1, <1>3, <2>1, <2>2 DEF AskedNone
<1>6. ASSUME NEW y, AskedOne(q, s, y), IsAsked(y, s), ~IsAsked(Head(q), s)
      PROVE  AskedOne(t, s, y)
  <2>1. PICK i \in 1..Len(q) : q[i] = y /\ \A j \in 1..Len(q) : IsAsked(q[j], s) => j = i
    BY <1>6 DEF AskedOne
  <2>2. i # 1
    BY <1>1, <1>6, <2>1
  <2>3. i - 1 \in 1..n /\ t[i - 1] = y
    <3>1. i - 1 \in 1..n /\ (i - 1) + 1 = i
      BY <1>1, <2>2
    <3>2. QED
      BY <1>3, <2>1, <3>1
  <2>4. ASSUME NEW j \in 1..n, IsAsked(t[j], s)
        PROVE  j = i - 1
    <3>1. j + 1 = i
      BY <1>3, <2>1, <2>4
    <3>2. QED
      BY <1>2, <3>1
  <2>5. QED
    BY <2>3, <2>4 DEF AskedOne
<1>7. \A y : (\A i \in 1..Len(q) : q[i] # y) => Head(q) # y /\ \A i \in 1..n : t[i] # y
  BY <1>1, <1>2, <1>3
<1>8. QED
  BY <1>1, <1>2, <1>4, <1>5, <1>6, <1>7 DEF t


(* Where the prompt of s is.                                               *)

PromptOf(s) ==
    /\ prompt[s] = "queued" => AskedOne(uiQueue, s, Prompt(s))
    /\ prompt[s] = "entered" => AskedOne(uiQueue, s, Function(s))
    /\ prompt[s] \notin {"queued", "entered", "withdrawn"} => AskedNone(uiQueue, s)
    /\ prompt[s] = "withdrawn" => Lacks(uiQueue, Prompt(s))
    /\ asker[s] = "no" => prompt[s] = "none"
    /\ asker[s] = "waiting" => prompt[s] \notin {"none", "withdrawn"}
    /\ s \in canCancel => prompt[s] \in {"open", "entered"}
    /\ answer[s] # "none" <=> prompt[s] = "completed"
    /\ answer[s] # "none" => answer[s] \in Validator(Asks[s])

PromptsInv ==
    /\ uiQueue \in Seq(UiItems)
    /\ DOMAIN asker = Speakers /\ DOMAIN prompt = Speakers /\ DOMAIN answer = Speakers
    /\ \A s \in Speakers : PromptOf(s)

(* Whose state and items stay keeps the invariant.                         *)
LEMMA OthersKeepTheirs ==
  ASSUME NEW s \in Speakers, PromptOf(s),
         asker'[s] = asker[s], prompt'[s] = prompt[s], answer'[s] = answer[s],
         s \in canCancel' => s \in canCancel,
         AskedNone(uiQueue, s) => AskedNone(uiQueue', s),
         AskedOne(uiQueue, s, Prompt(s)) => AskedOne(uiQueue', s, Prompt(s)),
         AskedOne(uiQueue, s, Function(s)) => AskedOne(uiQueue', s, Function(s)),
         Lacks(uiQueue, Prompt(s)) => Lacks(uiQueue', Prompt(s))
  PROVE  PromptOf(s)'
  BY DEF PromptOf

(* What others put into the queue or take from it leaves the items of s.   *)
LEMMA QueueIsKept ==
  ASSUME uiQueue \in Seq(UiItems), NEW s \in Speakers, NEW x \in UiItems, ~IsAsked(x, s),
         \/ uiQueue' = Append(uiQueue, x)
         \/ uiQueue' = <<x>> \o uiQueue
         \/ uiQueue # <<>> /\ x = Head(uiQueue) /\ uiQueue' = Tail(uiQueue)
  PROVE  /\ uiQueue' \in Seq(UiItems)
         /\ AskedNone(uiQueue, s) => AskedNone(uiQueue', s)
         /\ AskedOne(uiQueue, s, Prompt(s)) => AskedOne(uiQueue', s, Prompt(s))
         /\ AskedOne(uiQueue, s, Function(s)) => AskedOne(uiQueue', s, Function(s))
         /\ Lacks(uiQueue, Prompt(s)) => Lacks(uiQueue', Prompt(s))
<1>1. IsAsked(Prompt(s), s) /\ IsAsked(Function(s), s)
  BY ItemFacts DEF IsAsked
<1>2. x # Prompt(s)
  BY <1>1
<1>3. CASE uiQueue' = Append(uiQueue, x)
  BY <1>2, <1>3, AppendAsked DEF Lacks
<1>4. CASE uiQueue' = <<x>> \o uiQueue
  BY <1>2, <1>4, FrontAsked DEF Lacks
<1>5. CASE uiQueue # <<>> /\ x = Head(uiQueue) /\ uiQueue' = Tail(uiQueue)
  <2>1. /\ Tail(uiQueue) \in Seq(UiItems)
        /\ AskedNone(uiQueue, s) => AskedNone(Tail(uiQueue), s)
        /\ \A y : AskedOne(uiQueue, s, y) /\ IsAsked(y, s) /\ ~IsAsked(Head(uiQueue), s)
                    => AskedOne(Tail(uiQueue), s, y)
        /\ \A y : (\A i \in 1..Len(uiQueue) : uiQueue[i] # y)
                     => \A i \in 1..Len(Tail(uiQueue)) : Tail(uiQueue)[i] # y
    BY <1>5, TailAsked
  <2>2. QED
    BY <1>1, <1>5, <2>1 DEF Lacks
<1>6. QED
  BY <1>3, <1>4, <1>5

(* The queue stays one of items.                                           *)
LEMMA QueueOfItems ==
  ASSUME uiQueue \in Seq(UiItems), NEW x \in UiItems,
         \/ uiQueue' = Append(uiQueue, x)
         \/ uiQueue' = <<x>> \o uiQueue
         \/ uiQueue # <<>> /\ x = Head(uiQueue) /\ uiQueue' = Tail(uiQueue)
  PROVE  uiQueue' \in Seq(UiItems)
<1>1. CASE uiQueue' = Append(uiQueue, x)
  BY <1>1, AppendFacts
<1>2. CASE uiQueue' = <<x>> \o uiQueue
  BY <1>2, FrontFacts
<1>3. CASE uiQueue # <<>> /\ uiQueue' = Tail(uiQueue)
  BY <1>3, TailFacts
<1>4. QED
  BY <1>1, <1>2, <1>3

(* The actions by what they do to the queue.                               *)
LEMMA SaidStep ==
  ASSUME said \in [Speakers -> Nat], [UiNext]_uiVars
  PROVE  said' \in [Speakers -> Nat]
<1>1. ASSUME NEW s \in Speakers, OutputText(s)
      PROVE  said' \in [Speakers -> Nat]
  BY <1>1 DEF OutputText
<1>2. CASE UNCHANGED said
  BY <1>2
<1>3. QED
  BY <1>1, <1>2 DEF UiNext, uiVars, RequestPassword, Cancel, ExecuteOnThread, Completed, Start,
     ShowText, ShowPrompt, End, Dequeue, TellUi, PostQuit, Wait

(* A prompt is queued, opened, answered or withdrawn, and its one item     *)
(* follows.                                                                *)
LEMMA PromptsStep ==
  ASSUME UiAssumption, PromptsInv, said \in [Speakers -> Nat], said' \in [Speakers -> Nat], [UiNext]_uiVars
  PROVE  PromptsInv'
<1>0. "nobody" \notin Speakers
  BY DEF UiAssumption
<1>1. /\ uiQueue \in Seq(UiItems)
      /\ DOMAIN asker = Speakers /\ DOMAIN prompt = Speakers /\ DOMAIN answer = Speakers
      /\ \A s \in Speakers : PromptOf(s)
  BY DEF PromptsInv
<1>2. ASSUME NEW x \in UiItems, UNCHANGED promptVars, \A s \in Speakers : ~IsAsked(x, s),
             \/ uiQueue' = Append(uiQueue, x)
             \/ uiQueue' = <<x>> \o uiQueue
             \/ uiQueue # <<>> /\ x = Head(uiQueue) /\ uiQueue' = Tail(uiQueue)
      PROVE  PromptsInv'
  <2>1. uiQueue' \in Seq(UiItems)
    BY <1>1, <1>2, QueueOfItems
  <2>2. asker' = asker /\ prompt' = prompt /\ answer' = answer /\ canCancel' = canCancel
    BY <1>2 DEF promptVars
  <2>3. ASSUME NEW s \in Speakers
        PROVE  PromptOf(s)'
    BY <1>1, <1>2, <2>2, QueueIsKept, OthersKeepTheirs
  <2>4. QED
    BY <1>1, <2>1, <2>2, <2>3 DEF PromptsInv
<1>3. ASSUME NEW a \in Speakers, UNCHANGED uiQueue,
             DOMAIN asker' = Speakers, DOMAIN prompt' = Speakers, DOMAIN answer' = Speakers,
             \A s \in Speakers \ {a} : /\ asker'[s] = asker[s] /\ prompt'[s] = prompt[s]
                                       /\ answer'[s] = answer[s] /\ (s \in canCancel' => s \in canCancel),
             PromptOf(a)'
      PROVE  PromptsInv'
  <2>1. ASSUME NEW s \in Speakers \ {a}
        PROVE  PromptOf(s)'
    BY <1>1, <1>3, <2>1, OthersKeepTheirs
  <2>2. QED
    BY <1>1, <1>3, <2>1 DEF PromptsInv
<1>4. ASSUME NEW a \in Speakers, NEW x \in UiItems, x.by = a,
             \/ uiQueue' = Append(uiQueue, x)
             \/ uiQueue' = <<x>> \o uiQueue
             \/ uiQueue # <<>> /\ x = Head(uiQueue) /\ uiQueue' = Tail(uiQueue),
             DOMAIN asker' = Speakers, DOMAIN prompt' = Speakers, DOMAIN answer' = Speakers,
             \A s \in Speakers \ {a} : /\ asker'[s] = asker[s] /\ prompt'[s] = prompt[s]
                                       /\ answer'[s] = answer[s] /\ (s \in canCancel' => s \in canCancel),
             PromptOf(a)'
      PROVE  PromptsInv'
  <2>1. ASSUME NEW s \in Speakers \ {a}
        PROVE  PromptOf(s)' /\ uiQueue' \in Seq(UiItems)
    <3>1. ~IsAsked(x, s)
      BY <1>4 DEF IsAsked
    <3>2. /\ uiQueue' \in Seq(UiItems)
          /\ AskedNone(uiQueue, s) => AskedNone(uiQueue', s)
          /\ AskedOne(uiQueue, s, Prompt(s)) => AskedOne(uiQueue', s, Prompt(s))
          /\ AskedOne(uiQueue, s, Function(s)) => AskedOne(uiQueue', s, Function(s))
          /\ Lacks(uiQueue, Prompt(s)) => Lacks(uiQueue', Prompt(s))
      BY <1>1, <1>4, <3>1, QueueIsKept
    <3>3. QED
      BY <1>1, <1>4, <2>1, <3>2, OthersKeepTheirs
  <2>2. uiQueue' \in Seq(UiItems)
    BY <1>1, <1>4, QueueOfItems
  <2>3. QED
    BY <1>1, <1>4, <2>1, <2>2 DEF PromptsInv
<1>5. ASSUME NEW a \in Speakers, OutputText(a)
      PROVE  PromptsInv'
  <2>1. uiQueue' = Append(uiQueue, Text(a, said'[a])) /\ UNCHANGED promptVars
    BY <1>5 DEF OutputText, Enqueue
  <2>2. Text(a, said'[a]) \in UiItems /\ \A s : ~IsAsked(Text(a, said'[a]), s)
    BY ItemFacts DEF UiItems, IsAsked
  <2>3. QED
    BY <1>2, <2>1, <2>2
<1>6. ASSUME NEW a \in Speakers, RequestPassword(a)
      PROVE  PromptsInv'
  <2>1. /\ asker[a] = "no" /\ uiQueue' = Append(uiQueue, Prompt(a))
        /\ asker' = [asker EXCEPT ![a] = "waiting"] /\ prompt' = [prompt EXCEPT ![a] = "queued"]
        /\ canCancel' = canCancel /\ answer' = answer
    BY <1>6 DEF RequestPassword, Enqueue
  <2>2. Prompt(a) \in UiItems /\ Prompt(a).by = a
    BY ItemFacts DEF UiItems
  <2>3. PromptOf(a) /\ prompt[a] = "none"
    BY <1>1, <2>1 DEF PromptOf
  <2>4. AskedNone(uiQueue, a)
    BY <2>3 DEF PromptOf
  <2>5. AskedOne(uiQueue', a, Prompt(a))
    BY <1>1, <2>1, <2>2, <2>4, AppendAsked
  <2>6. prompt'[a] = "queued" /\ asker'[a] = "waiting" /\ answer'[a] = answer[a]
    BY <1>1, <2>1
  <2>7. PromptOf(a)'
    BY <2>1, <2>3, <2>5, <2>6 DEF PromptOf
  <2>8. QED
    BY <1>1, <1>4, <2>1, <2>2, <2>7
<1>7. ASSUME NEW a \in Speakers, Cancel(a)
      PROVE  PromptsInv'
  <2>1. /\ asker[a] = "waiting" /\ answer[a] = "none" /\ asker' = [asker EXCEPT ![a] = "left"]
        /\ prompt' = IF a \in canCancel THEN [prompt EXCEPT ![a] = "withdrawn"] ELSE prompt
        /\ canCancel' = canCancel \ {a} /\ uiQueue' = uiQueue /\ answer' = answer
    BY <1>7 DEF Cancel
  <2>2. asker'[a] = "left" /\ prompt'[a] = (IF a \in canCancel THEN "withdrawn" ELSE prompt[a])
    BY <1>1, <2>1
  <2>3. a \in canCancel => Lacks(uiQueue, Prompt(a))
    <3> SUFFICES ASSUME a \in canCancel, NEW i \in 1..Len(uiQueue), uiQueue[i] = Prompt(a)
                 PROVE  FALSE
      BY DEF Lacks
    <3>1. IsAsked(uiQueue[i], a) /\ Prompt(a) # Function(a)
      BY ItemFacts DEF IsAsked
    <3>2. prompt[a] \in {"open", "entered"}
      BY <1>1 DEF PromptOf
    <3>3. CASE prompt[a] = "open"
      BY <1>1, <3>1, <3>3 DEF PromptOf, AskedNone
    <3>4. CASE prompt[a] = "entered"
      BY <1>1, <3>1, <3>4 DEF PromptOf, AskedOne
    <3>5. QED
      BY <3>2, <3>3, <3>4
  <2>4. PromptOf(a)'
    <3>1. PromptOf(a) /\ a \notin canCancel' /\ answer'[a] = "none"
      BY <1>1, <2>1
    <3>2. CASE a \in canCancel
      BY <2>1, <2>2, <2>3, <3>1, <3>2 DEF PromptOf
    <3>3. CASE a \notin canCancel
      BY <2>1, <2>2, <3>1, <3>3 DEF PromptOf
    <3>4. QED
      BY <3>2, <3>3
  <2>5. QED
    BY <1>1, <1>3, <2>1, <2>4
<1>8. ASSUME ShowText \/ End
      PROVE  PromptsInv'
  <2>1. uiQueue # <<>> /\ uiQueue' = Tail(uiQueue) /\ UNCHANGED promptVars
        /\ Head(uiQueue).kind \in {"text", "nullptr"}
    BY <1>8 DEF ShowText, End, Dequeue
  <2>2. Head(uiQueue) \in UiItems
    BY <1>1, <2>1, TailFacts
  <2>3. \A s \in Speakers : ~IsAsked(Head(uiQueue), s)
    BY <1>0, <2>1, <2>2, ItemFacts DEF IsAsked
  <2>4. QED
    BY <1>2, <2>1, <2>2, <2>3
<1>9. CASE ShowPrompt
  <2>0. PICK a : a = Head(uiQueue).by
    OBVIOUS
  <2>1. /\ uiQueue # <<>> /\ uiQueue' = Tail(uiQueue) /\ Head(uiQueue).kind = "prompt"
        /\ prompt' = [prompt EXCEPT ![a] = "open"]
        /\ canCancel' \in {canCancel, canCancel \cup {a}}
        /\ asker' = asker /\ answer' = answer
    BY <1>9, <2>0 DEF ShowPrompt, Dequeue
  <2>2. Head(uiQueue) \in UiItems
    BY <1>1, <2>1, TailAsked
  <2>3. a \in Speakers /\ Head(uiQueue) = Prompt(a) /\ IsAsked(Head(uiQueue), a)
    BY <2>0, <2>1, <2>2, ItemFacts DEF IsAsked
  <2>4. PromptOf(a) /\ prompt[a] = "queued"
    <3>1. PromptOf(a) /\ Prompt(a) # Function(a)
      BY <1>1, <2>3, ItemFacts
    <3>2. ~AskedNone(uiQueue, a) /\ ~AskedOne(uiQueue, a, Function(a))
      BY <1>1, <2>1, <2>3, <3>1, TailAsked
    <3>3. ~Lacks(uiQueue, Prompt(a))
      BY <1>1, <2>1, <2>3, TailFacts DEF Lacks
    <3>4. QED
      BY <3>1, <3>2, <3>3 DEF PromptOf
  <2>5. AskedNone(uiQueue', a)
    BY <1>1, <2>1, <2>3, <2>4, TailAsked DEF PromptOf
  <2>6. prompt'[a] = "open"
    BY <1>1, <2>1, <2>3
  <2>7. PromptOf(a)'
    BY <2>1, <2>4, <2>5, <2>6 DEF PromptOf
  <2>8. \A s \in Speakers \ {a} : prompt'[s] = prompt[s] /\ (s \in canCancel' => s \in canCancel)
    BY <1>1, <2>1
  <2>9. DOMAIN prompt' = Speakers /\ Head(uiQueue).by = a
    BY <1>1, <2>1, <2>3, ItemFacts
  <2>10. QED
    BY <1>1, <1>4, <2>1, <2>2, <2>3, <2>7, <2>8, <2>9
<1>10. ASSUME NEW a \in Speakers, ExecuteOnThread(a)
       PROVE  PromptsInv'
  <2>1. /\ prompt[a] = "open" /\ uiQueue' = <<Function(a)>> \o uiQueue
        /\ prompt' = [prompt EXCEPT ![a] = "entered"]
        /\ canCancel' = canCancel /\ answer' = answer /\ asker' = asker
    BY <1>10 DEF ExecuteOnThread, Enqueue
  <2>2. Function(a) \in UiItems /\ Function(a).by = a
    BY ItemFacts DEF UiItems
  <2>3. PromptOf(a) /\ AskedNone(uiQueue, a)
    BY <1>1, <2>1 DEF PromptOf
  <2>4. AskedOne(uiQueue', a, Function(a))
    BY <1>1, <2>1, <2>2, <2>3, FrontAsked
  <2>5. prompt'[a] = "entered"
    BY <1>1, <2>1
  <2>6. PromptOf(a)'
    BY <2>1, <2>3, <2>4, <2>5 DEF PromptOf
  <2>7. QED
    BY <1>1, <1>4, <2>1, <2>2, <2>6
<1>11. ASSUME NEW val \in Inputs, Completed(val)
       PROVE  PromptsInv'
  <2>0. PICK a : a = Head(uiQueue).by
    OBVIOUS
  <2>1. /\ uiQueue # <<>> /\ uiQueue' = Tail(uiQueue) /\ Head(uiQueue).kind = "function"
        /\ asker' = asker
        /\ IF prompt[a] = "entered"
           THEN /\ val \in Validator(Asks[a])
                /\ answer' = [answer EXCEPT ![a] = val] /\ prompt' = [prompt EXCEPT ![a] = "completed"]
                /\ canCancel' = canCancel \ {a}
           ELSE answer' = answer /\ prompt' = prompt /\ canCancel' = canCancel
    BY <1>11, <2>0 DEF Completed, Dequeue
  <2>2. Head(uiQueue) \in UiItems
    BY <1>1, <2>1, TailAsked
  <2>3. a \in Speakers /\ Head(uiQueue) = Function(a) /\ IsAsked(Head(uiQueue), a) /\ val # "none"
    BY <2>0, <2>1, <2>2, ItemFacts DEF IsAsked, Inputs
  <2>4. PromptOf(a) /\ prompt[a] \in {"entered", "withdrawn"}
    <3>1. PromptOf(a) /\ Prompt(a) # Function(a)
      BY <1>1, <2>3, ItemFacts
    <3>2. ~AskedNone(uiQueue, a) /\ ~AskedOne(uiQueue, a, Prompt(a))
      BY <1>1, <2>1, <2>3, <3>1, TailAsked
    <3>3. QED
      BY <3>1, <3>2 DEF PromptOf
  <2>5. PromptOf(a)'
    <3>1. CASE prompt[a] = "entered"
      <4>1. AskedNone(uiQueue', a)
        BY <1>1, <2>1, <2>3, <2>4, <3>1, TailAsked DEF PromptOf
      <4>2. prompt'[a] = "completed" /\ answer'[a] = val /\ a \notin canCancel'
        BY <1>1, <2>1, <2>3, <3>1
      <4>3. QED
        BY <2>1, <2>3, <2>4, <3>1, <4>1, <4>2 DEF PromptOf
    <3>2. CASE prompt[a] # "entered"
      <4>1. Lacks(uiQueue', Prompt(a))
        BY <1>1, <2>1, <2>4, <3>2, TailAsked DEF PromptOf, Lacks
      <4>2. QED
        BY <2>1, <2>4, <3>2, <4>1 DEF PromptOf
    <3>3. QED
      BY <3>1, <3>2
  <2>6. /\ DOMAIN prompt' = Speakers /\ DOMAIN answer' = Speakers
        /\ \A s \in Speakers \ {a} : /\ prompt'[s] = prompt[s] /\ answer'[s] = answer[s]
                                     /\ (s \in canCancel' => s \in canCancel)
    BY <1>1, <2>1
  <2>7. Head(uiQueue).by = a
    BY <2>3, ItemFacts
  <2>8. QED
    BY <1>1, <1>4, <2>1, <2>2, <2>3, <2>5, <2>6, <2>7
<1>12. CASE PostQuit
  <2>1. uiQueue' = <<Null>> \o uiQueue /\ UNCHANGED promptVars
    BY <1>12 DEF PostQuit, Enqueue
  <2>2. Null \in UiItems /\ \A s \in Speakers : ~IsAsked(Null, s)
    BY <1>0, ItemFacts DEF IsAsked, UiItems
  <2>3. QED
    BY <1>2, <2>1, <2>2
<1>13. CASE Start \/ TellUi \/ Wait \/ UNCHANGED uiVars
  <2>1. uiQueue' = uiQueue /\ asker' = asker /\ prompt' = prompt /\ answer' = answer /\ canCancel' = canCancel
    BY <1>13 DEF Start, TellUi, Wait, uiVars, promptVars
  <2>2. QED
    BY <1>1, <2>1 DEF PromptsInv, PromptOf
<1>14. QED
  BY <1>5, <1>6, <1>7, <1>8, <1>9, <1>10, <1>11, <1>12, <1>13 DEF UiNext


(* The texts of s in a sequence are those after its low-th up to its high- *)
(* th, in order.                                                           *)
TextsAre(q, s, low, high) ==
    /\ \A n \in (low + 1)..high : \E i \in 1..Len(q) : q[i] = Text(s, n)
    /\ \A i \in 1..Len(q) : IsText(q[i], s) => \E n \in (low + 1)..high : q[i] = Text(s, n)
    /\ \A i, j \in 1..Len(q) : i < j /\ IsText(q[i], s) /\ IsText(q[j], s) => q[i].no < q[j].no

(* The empty queue holds no text.                                          *)
LEMMA NoTextFacts ==
  ASSUME NEW s, NEW n \in Nat
  PROVE  TextsAre(<<>>, s, n, n)
<1>1. Len(<<>>) = 0 /\ (n + 1)..n = {}
  OBVIOUS
<1>2. QED
  BY <1>1 DEF TextsAre

(* The next text at the end of the queue.                                  *)
LEMMA AppendText ==
  ASSUME NEW q \in Seq(UiItems), NEW x \in UiItems, NEW s, NEW low \in Nat, NEW high \in Nat,
         low <= high, TextsAre(q, s, low, high)
  PROVE  /\ ~IsText(x, s) => TextsAre(Append(q, x), s, low, high)
         /\ x = Text(s, high + 1) => TextsAre(Append(q, x), s, low, high + 1)
<1> DEFINE t == Append(q, x)
           m == Len(q)
<1>1. /\ t \in Seq(UiItems) /\ m \in Nat /\ Len(t) = m + 1 /\ t[m + 1] = x
      /\ \A i \in 1..m : t[i] = q[i]
  BY AppendFacts
<1> HIDE DEF t, m
<1>2. /\ \A i \in 1..Len(t) : i = m + 1 \/ i \in 1..m
      /\ \A i \in 1..m : i \in 1..Len(t)
      /\ m + 1 \in 1..Len(t)
  BY <1>1
<1>3. /\ \A n \in (low + 1)..high : \E i \in 1..m : q[i] = Text(s, n)
      /\ \A i \in 1..m : IsText(q[i], s) => \E n \in (low + 1)..high : q[i] = Text(s, n)
      /\ \A i, j \in 1..m : i < j /\ IsText(q[i], s) /\ IsText(q[j], s) => q[i].no < q[j].no
  BY DEF TextsAre, m
<1>4. ASSUME ~IsText(x, s)
      PROVE  TextsAre(t, s, low, high)
  <2>1. \A n \in (low + 1)..high : \E i \in 1..Len(t) : t[i] = Text(s, n)
    BY <1>1, <1>2, <1>3
  <2>2. \A i \in 1..Len(t) : IsText(t[i], s) => \E n \in (low + 1)..high : t[i] = Text(s, n)
    BY <1>1, <1>2, <1>3, <1>4
  <2>3. \A i, j \in 1..Len(t) : i < j /\ IsText(t[i], s) /\ IsText(t[j], s) => t[i].no < t[j].no
    BY <1>1, <1>2, <1>3, <1>4
  <2>4. QED
    BY <2>1, <2>2, <2>3 DEF TextsAre
<1>5. ASSUME x = Text(s, high + 1)
      PROVE  TextsAre(t, s, low, high + 1)
  <2>1. ASSUME NEW n \in (low + 1)..(high + 1)
        PROVE  \E i \in 1..Len(t) : t[i] = Text(s, n)
    <3>1. CASE n = high + 1
      BY <1>1, <1>2, <1>5, <3>1
    <3>2. CASE n # high + 1
      <4>1. n \in (low + 1)..high
        BY <3>2
      <4>2. QED
        BY <1>1, <1>2, <1>3, <4>1
    <3>3. QED
      BY <3>1, <3>2
  <2>2. ASSUME NEW i \in 1..Len(t), IsText(t[i], s)
        PROVE  \E n \in (low + 1)..(high + 1) : t[i] = Text(s, n)
    <3>1. CASE i = m + 1
      <4>1. high + 1 \in (low + 1)..(high + 1)
        OBVIOUS
      <4>2. QED
        BY <1>1, <1>5, <3>1, <4>1
    <3>2. CASE i \in 1..m
      <4>1. PICK n \in (low + 1)..high : q[i] = Text(s, n)
        BY <1>1, <1>3, <2>2, <3>2
      <4>2. n \in (low + 1)..(high + 1)
        BY <4>1
      <4>3. QED
        BY <1>1, <3>2, <4>1, <4>2
    <3>3. QED
      BY <1>2, <3>1, <3>2
  <2>3. ASSUME NEW i \in 1..Len(t), NEW j \in 1..Len(t), i < j, IsText(t[i], s), IsText(t[j], s)
        PROVE  t[i].no < t[j].no
    <3>1. i \in 1..m
      BY <1>1, <1>2, <2>3
    <3>2. CASE j = m + 1
      <4>1. PICK n \in (low + 1)..high : t[i] = Text(s, n)
        BY <1>1, <1>3, <2>3, <3>1
      <4>2. t[i].no = n /\ t[j].no = high + 1
        BY <1>1, <1>5, <3>2, <4>1, ItemFacts
      <4>3. QED
        BY <4>2
    <3>3. CASE j \in 1..m
      BY <1>1, <1>3, <2>3, <3>1, <3>3
    <3>4. QED
      BY <1>2, <3>2, <3>3
  <2>4. QED
    BY <2>1, <2>2, <2>3 DEF TextsAre
<1>6. QED
  BY <1>4, <1>5 DEF t

(* An item that is no text of s in front of the queue.                     *)
LEMMA FrontText ==
  ASSUME NEW q \in Seq(UiItems), NEW x \in UiItems, NEW s, NEW low \in Nat, NEW high \in Nat,
         TextsAre(q, s, low, high), ~IsText(x, s)
  PROVE  TextsAre(<<x>> \o q, s, low, high)
<1> DEFINE t == <<x>> \o q
           m == Len(q)
<1>1. /\ t \in Seq(UiItems) /\ m \in Nat /\ Len(t) = m + 1 /\ t[1] = x
      /\ \A i \in 1..m : t[i + 1] = q[i]
  BY FrontFacts
<1> HIDE DEF t, m
<1>2. ASSUME NEW i \in 1..Len(t), i # 1
      PROVE  i - 1 \in 1..m /\ t[i] = q[i - 1]
  <2>1. i - 1 \in 1..m /\ (i - 1) + 1 = i
    BY <1>1, <1>2
  <2>2. QED
    BY <1>1, <2>1
<1>3. /\ \A n \in (low + 1)..high : \E i \in 1..m : q[i] = Text(s, n)
      /\ \A i \in 1..m : IsText(q[i], s) => \E n \in (low + 1)..high : q[i] = Text(s, n)
      /\ \A i, j \in 1..m : i < j /\ IsText(q[i], s) /\ IsText(q[j], s) => q[i].no < q[j].no
  BY DEF TextsAre, m
<1>4. ASSUME NEW n \in (low + 1)..high
      PROVE  \E i \in 1..Len(t) : t[i] = Text(s, n)
  <2>1. PICK i \in 1..m : q[i] = Text(s, n)
    BY <1>3
  <2>2. i + 1 \in 1..Len(t) /\ t[i + 1] = Text(s, n)
    BY <1>1, <2>1
  <2>3. QED
    BY <2>2
<1>5. ASSUME NEW i \in 1..Len(t), IsText(t[i], s)
      PROVE  \E n \in (low + 1)..high : t[i] = Text(s, n)
  <2>1. i # 1
    BY <1>1, <1>5
  <2>2. QED
    BY <1>2, <1>3, <1>5, <2>1
<1>6. ASSUME NEW i \in 1..Len(t), NEW j \in 1..Len(t), i < j, IsText(t[i], s), IsText(t[j], s)
      PROVE  t[i].no < t[j].no
  <2>1. i # 1 /\ j # 1
    BY <1>1, <1>6
  <2>2. i - 1 \in 1..m /\ t[i] = q[i - 1] /\ j - 1 \in 1..m /\ t[j] = q[j - 1] /\ i - 1 < j - 1
    BY <1>2, <1>6, <2>1
  <2>3. QED
    BY <1>3, <1>6, <2>2
<1>7. QED
  BY <1>4, <1>5, <1>6 DEF TextsAre, t

(* The first item taken from the queue.                                    *)
LEMMA TailText ==
  ASSUME NEW q \in Seq(UiItems), q # <<>>, NEW s, NEW low \in Nat, NEW high \in Nat,
         TextsAre(q, s, low, high)
  PROVE  /\ ~IsText(Head(q), s) => TextsAre(Tail(q), s, low, high)
         /\ IsText(Head(q), s) => /\ low < high /\ Head(q) = Text(s, low + 1)
                                  /\ TextsAre(Tail(q), s, low + 1, high)
<1> DEFINE t == Tail(q)
           m == Len(t)
<1>1. /\ t \in Seq(UiItems) /\ Head(q) = q[1] /\ Len(q) \in Nat \ {0} /\ m = Len(q) - 1
      /\ \A i \in 1..(Len(q) - 1) : t[i] = q[i + 1]
  BY TailFacts
<1> HIDE DEF t, m
<1>2. m \in Nat /\ \A i \in 1..m : t[i] = q[i + 1] /\ i + 1 \in 1..Len(q) /\ i + 1 # 1
  BY <1>1
<1>3. /\ \A n \in (low + 1)..high : \E i \in 1..Len(q) : q[i] = Text(s, n)
      /\ \A i \in 1..Len(q) : IsText(q[i], s) => \E n \in (low + 1)..high : q[i] = Text(s, n)
      /\ \A i, j \in 1..Len(q) : i < j /\ IsText(q[i], s) /\ IsText(q[j], s) => q[i].no < q[j].no
  BY DEF TextsAre
<1>4. ASSUME NEW i \in 1..m, NEW j \in 1..m, i < j, IsText(t[i], s), IsText(t[j], s)
      PROVE  t[i].no < t[j].no
  <2>1. t[i] = q[i + 1] /\ t[j] = q[j + 1] /\ i + 1 \in 1..Len(q) /\ j + 1 \in 1..Len(q) /\ i + 1 < j + 1
    BY <1>2, <1>4
  <2>2. QED
    BY <1>3, <1>4, <2>1
<1>5. ASSUME NEW i \in 1..Len(q), i # 1
      PROVE  i - 1 \in 1..m /\ t[i - 1] = q[i]
  <2>1. i - 1 \in 1..m /\ (i - 1) + 1 = i
    BY <1>1, <1>5
  <2>2. QED
    BY <1>2, <2>1
<1>6. ASSUME ~IsText(Head(q), s)
      PROVE  TextsAre(t, s, low, high)
  <2>1. ASSUME NEW n \in (low + 1)..high
        PROVE  \E i \in 1..m : t[i] = Text(s, n)
    <3>1. PICK i \in 1..Len(q) : q[i] = Text(s, n)
      BY <1>3
    <3>2. i # 1
      BY <1>1, <1>6, <3>1, ItemFacts DEF IsText
    <3>3. QED
      BY <1>5, <3>1, <3>2
  <2>2. \A i \in 1..m : IsText(t[i], s) => \E n \in (low + 1)..high : t[i] = Text(s, n)
    BY <1>2, <1>3
  <2>3. QED
    BY <1>4, <2>1, <2>2 DEF TextsAre, m
<1>7. ASSUME IsText(Head(q), s)
      PROVE  low < high /\ Head(q) = Text(s, low + 1) /\ TextsAre(t, s, low + 1, high)
  <2>1. 1 \in 1..Len(q)
    BY <1>1
  <2>2. PICK k \in (low + 1)..high : q[1] = Text(s, k)
    BY <1>1, <1>3, <1>7, <2>1
  <2>3. low < high /\ low + 1 \in (low + 1)..high
    BY <2>2
  <2>4. ASSUME NEW i \in 1..m, IsText(t[i], s)
        PROVE  \E n \in (low + 1)..high : t[i] = Text(s, n) /\ k < n
    <3>1. t[i] = q[i + 1] /\ i + 1 \in 1..Len(q) /\ 1 < i + 1 /\ IsText(q[1], s)
      BY <1>1, <1>2, <1>7
    <3>2. q[1].no < q[i + 1].no
      BY <1>3, <2>1, <2>4, <3>1
    <3>3. PICK n \in (low + 1)..high : t[i] = Text(s, n)
      BY <1>3, <2>4, <3>1
    <3>4. q[1].no = k /\ q[i + 1].no = n
      BY <2>2, <3>1, <3>3, ItemFacts
    <3>5. QED
      BY <3>2, <3>3, <3>4
  <2>5. k = low + 1
    <3>1. PICK i \in 1..Len(q) : q[i] = Text(s, low + 1)
      BY <1>3, <2>3
    <3>2. CASE i = 1
      BY <2>2, <3>1, <3>2, ItemFacts
    <3>3. CASE i # 1
      <4>1. i - 1 \in 1..m /\ t[i - 1] = Text(s, low + 1) /\ IsText(t[i - 1], s)
        BY <1>5, <3>1, <3>3, ItemFacts DEF IsText
      <4>2. PICK n \in (low + 1)..high : t[i - 1] = Text(s, n) /\ k < n
        BY <2>4, <4>1
      <4>3. n = low + 1
        BY <4>1, <4>2, ItemFacts
      <4>4. QED
        BY <4>2, <4>3
    <3>4. QED
      BY <3>2, <3>3
  <2>6. ASSUME NEW n \in (low + 1 + 1)..high
        PROVE  \E i \in 1..m : t[i] = Text(s, n)
    <3>1. n \in (low + 1)..high /\ n # low + 1
      BY <2>6
    <3>2. PICK i \in 1..Len(q) : q[i] = Text(s, n)
      BY <1>3, <3>1
    <3>3. i # 1
      BY <2>2, <2>5, <3>1, <3>2, ItemFacts
    <3>4. QED
      BY <1>5, <3>2, <3>3
  <2>7. ASSUME NEW i \in 1..m, IsText(t[i], s)
        PROVE  \E n \in (low + 1 + 1)..high : t[i] = Text(s, n)
    <3>1. PICK n \in (low + 1)..high : t[i] = Text(s, n) /\ k < n
      BY <2>4, <2>7
    <3>2. n \in (low + 1 + 1)..high
      BY <2>5, <3>1
    <3>3. QED
      BY <3>1, <3>2
  <2>8. TextsAre(t, s, low + 1, high)
    BY <1>4, <2>6, <2>7 DEF TextsAre, m
  <2>9. QED
    BY <1>1, <2>2, <2>3, <2>5, <2>8
<1>8. QED
  BY <1>6, <1>7 DEF t

(* What has been shown, and what will be.                                  *)
LEMMA ConcatTexts ==
  ASSUME NEW q \in Seq(UiItems), NEW t \in Seq(UiItems), NEW s, NEW n \in Nat, NEW high \in Nat,
         n <= high, TextsAre(q, s, 0, n), TextsAre(t, s, n, high)
  PROVE  TextsAre(q \o t, s, 0, high)
<1> DEFINE u == q \o t
           k == Len(q)
<1>1. /\ u \in Seq(UiItems) /\ Len(u) = k + Len(t) /\ k \in Nat /\ Len(t) \in Nat
      /\ \A i \in 1..k : u[i] = q[i]
      /\ \A i \in 1..Len(t) : u[i + k] = t[i]
  BY ConcatFacts
<1>0. Len(u) = k + Len(t) /\ k \in Nat /\ Len(t) \in Nat
  BY <1>1
<1> HIDE DEF u
<1>2. ASSUME NEW i \in 1..Len(u)
      PROVE  \/ i \in 1..k /\ u[i] = q[i]
             \/ i > k /\ i - k \in 1..Len(t) /\ u[i] = t[i - k]
  <2>1. CASE i <= k
    BY <1>1, <2>1
  <2>2. CASE ~(i <= k)
    <3>1. i - k \in 1..Len(t) /\ (i - k) + k = i /\ i > k
      BY <1>1, <2>2
    <3>2. u[(i - k) + k] = t[i - k]
      BY <1>1, <3>1
    <3>3. QED
      BY <3>1, <3>2
  <2>3. QED
    BY <2>1, <2>2
<1> HIDE DEF k
<1>3. /\ \A m \in 1..n : \E i \in 1..k : q[i] = Text(s, m)
      /\ \A i \in 1..k : IsText(q[i], s) => \E m \in 1..n : q[i] = Text(s, m)
      /\ \A i, j \in 1..k : i < j /\ IsText(q[i], s) /\ IsText(q[j], s) => q[i].no < q[j].no
      /\ \A m \in (n + 1)..high : \E i \in 1..Len(t) : t[i] = Text(s, m)
      /\ \A i \in 1..Len(t) : IsText(t[i], s) => \E m \in (n + 1)..high : t[i] = Text(s, m)
      /\ \A i, j \in 1..Len(t) : i < j /\ IsText(t[i], s) /\ IsText(t[j], s) => t[i].no < t[j].no
  <2>1. 0 + 1 = 1
    OBVIOUS
  <2>2. QED
    BY <2>1 DEF TextsAre, k
<1>4. ASSUME NEW m \in (0 + 1)..high
      PROVE  \E i \in 1..Len(u) : u[i] = Text(s, m)
  <2>1. CASE m <= n
    <3>1. m \in 1..n
      BY <2>1
    <3>2. PICK i \in 1..k : q[i] = Text(s, m)
      BY <1>3, <3>1
    <3>3. i \in 1..Len(u)
      BY <1>0
    <3>4. u[i] = q[i]
      BY <1>1
    <3>5. QED
      BY <3>2, <3>3, <3>4
  <2>2. CASE ~(m <= n)
    <3>1. m \in (n + 1)..high
      BY <2>2
    <3>2. PICK i \in 1..Len(t) : t[i] = Text(s, m)
      BY <1>3, <3>1
    <3>3. i + k \in 1..Len(u) /\ u[i + k] = t[i]
      BY <1>1, <3>2
    <3>4. QED
      BY <3>2, <3>3
  <2>3. QED
    BY <2>1, <2>2
<1>5. ASSUME NEW i \in 1..Len(u), IsText(u[i], s)
      PROVE  \E m \in (0 + 1)..high : u[i] = Text(s, m)
  <2>1. CASE i \in 1..k /\ u[i] = q[i]
    <3>1. PICK m \in 1..n : q[i] = Text(s, m)
      BY <1>3, <1>5, <2>1
    <3>2. m \in (0 + 1)..high
      BY <3>1
    <3>3. QED
      BY <2>1, <3>1, <3>2
  <2>2. CASE i - k \in 1..Len(t) /\ u[i] = t[i - k]
    <3>1. PICK m \in (n + 1)..high : t[i - k] = Text(s, m)
      BY <1>3, <1>5, <2>2
    <3>2. m \in (0 + 1)..high
      BY <3>1
    <3>3. QED
      BY <2>2, <3>1, <3>2
  <2>3. QED
    BY <1>2, <2>1, <2>2
<1>6. ASSUME NEW i \in 1..Len(u), NEW j \in 1..Len(u), i < j, IsText(u[i], s), IsText(u[j], s)
      PROVE  u[i].no < u[j].no
  <2>1. CASE i \in 1..k /\ u[i] = q[i] /\ j \in 1..k /\ u[j] = q[j]
    BY <1>3, <1>6, <2>1
  <2>2. CASE i \in 1..k /\ u[i] = q[i] /\ j > k /\ j - k \in 1..Len(t) /\ u[j] = t[j - k]
    <3>1. PICK m \in 1..n : q[i] = Text(s, m)
      BY <1>3, <1>6, <2>2
    <3>2. PICK l \in (n + 1)..high : t[j - k] = Text(s, l)
      BY <1>3, <1>6, <2>2
    <3>3. u[i].no = m /\ u[j].no = l
      BY <2>2, <3>1, <3>2, ItemFacts
    <3>4. QED
      BY <3>3
  <2>3. CASE i > k /\ i - k \in 1..Len(t) /\ u[i] = t[i - k] /\ j > k /\ j - k \in 1..Len(t) /\ u[j] = t[j - k]
    <3>1. i - k < j - k
      BY <1>1, <1>6
    <3>2. QED
      BY <1>3, <1>6, <2>3, <3>1
  <2>4. ~(i > k /\ j \in 1..k)
    BY <1>1, <1>6
  <2>5. QED
    BY <1>2, <2>1, <2>2, <2>3, <2>4
<1>7. QED
  BY <1>4, <1>5, <1>6 DEF TextsAre, u


(* For each speaker the texts shown go up to some number, and the queue has *)
(* the rest.                                                               *)
TextsInv ==
    /\ uiQueue \in Seq(UiItems) /\ uiShown \in Seq(UiItems)
    /\ said \in [Speakers -> Nat]
    /\ \A s \in Speakers : \E n \in 0..said[s] :
          TextsAre(uiShown, s, 0, n) /\ TextsAre(uiQueue, s, n, said[s])

(* A text is said, queued and shown in its turn.                           *)
LEMMA TextsStep ==
  ASSUME TextsInv, [UiNext]_uiVars
  PROVE  TextsInv'
<1>1. /\ uiQueue \in Seq(UiItems) /\ uiShown \in Seq(UiItems)
      /\ said \in [Speakers -> Nat]
      /\ \A s \in Speakers : \E n \in 0..said[s] :
            TextsAre(uiShown, s, 0, n) /\ TextsAre(uiQueue, s, n, said[s])
  BY DEF TextsInv
<1>2. ASSUME NEW x \in UiItems, \A s \in Speakers : ~IsText(x, s), uiShown' = uiShown, said' = said,
             \/ uiQueue' = Append(uiQueue, x)
             \/ uiQueue' = <<x>> \o uiQueue
             \/ uiQueue # <<>> /\ x = Head(uiQueue) /\ uiQueue' = Tail(uiQueue)
      PROVE  TextsInv'
  <2>1. uiQueue' \in Seq(UiItems)
    BY <1>1, <1>2, QueueOfItems
  <2>2. ASSUME NEW s \in Speakers
        PROVE  \E n \in 0..said'[s] : TextsAre(uiShown', s, 0, n) /\ TextsAre(uiQueue', s, n, said'[s])
    <3>1. PICK n \in 0..said[s] : TextsAre(uiShown, s, 0, n) /\ TextsAre(uiQueue, s, n, said[s])
      BY <1>1
    <3>2. n \in Nat /\ said[s] \in Nat /\ n <= said[s] /\ ~IsText(x, s)
      BY <1>1, <1>2, <3>1
    <3>3. CASE uiQueue' = Append(uiQueue, x)
      <4>1. TextsAre(Append(uiQueue, x), s, n, said[s])
        BY <1>1, <3>1, <3>2, AppendText
      <4>2. QED
        BY <1>2, <3>1, <3>3, <4>1
    <3>4. CASE uiQueue' = <<x>> \o uiQueue
      <4>1. TextsAre(<<x>> \o uiQueue, s, n, said[s])
        BY <1>1, <3>1, <3>2, FrontText
      <4>2. QED
        BY <1>2, <3>1, <3>4, <4>1
    <3>5. CASE uiQueue # <<>> /\ x = Head(uiQueue) /\ uiQueue' = Tail(uiQueue)
      <4>1. TextsAre(Tail(uiQueue), s, n, said[s])
        BY <1>1, <3>1, <3>2, <3>5, TailText
      <4>2. QED
        BY <1>2, <3>1, <3>5, <4>1
    <3>6. QED
      BY <1>2, <3>3, <3>4, <3>5
  <2>3. QED
    BY <1>1, <1>2, <2>1, <2>2 DEF TextsInv
<1>3. ASSUME NEW a \in Speakers, OutputText(a)
      PROVE  TextsInv'
  <2>1. /\ said' = [said EXCEPT ![a] = @ + 1] /\ uiShown' = uiShown
        /\ uiQueue' = Append(uiQueue, Text(a, said'[a]))
    BY <1>3 DEF OutputText, Enqueue
  <2>2. /\ said'[a] = said[a] + 1 /\ said[a] \in Nat /\ said' \in [Speakers -> Nat]
        /\ \A s \in Speakers \ {a} : said'[s] = said[s]
    BY <1>1, <2>1
  <2>3. Text(a, said'[a]) \in UiItems /\ Text(a, said'[a]) = Text(a, said[a] + 1)
    BY <2>2 DEF UiItems
  <2>4. uiQueue' \in Seq(UiItems)
    BY <1>1, <2>1, <2>3, AppendFacts
  <2>5. ASSUME NEW s \in Speakers
        PROVE  \E n \in 0..said'[s] : TextsAre(uiShown', s, 0, n) /\ TextsAre(uiQueue', s, n, said'[s])
    <3>1. PICK n \in 0..said[s] : TextsAre(uiShown, s, 0, n) /\ TextsAre(uiQueue, s, n, said[s])
      BY <1>1
    <3>2. n \in Nat /\ said[s] \in Nat /\ n <= said[s] /\ n \in 0..said'[s]
      <4>1. said[s] \in Nat /\ said'[s] \in Nat /\ said[s] <= said'[s]
        <5>1. CASE s = a
          BY <2>2, <5>1
        <5>2. CASE s # a
          BY <1>1, <2>2, <5>2
        <5>3. QED
          BY <5>1, <5>2
      <4>2. QED
        BY <3>1, <4>1
    <3>3. CASE s = a
      <4>1. TextsAre(Append(uiQueue, Text(a, said'[a])), s, n, said[s] + 1)
        BY <1>1, <2>3, <3>1, <3>2, <3>3, AppendText
      <4>2. QED
        BY <2>1, <2>2, <3>1, <3>2, <3>3, <4>1
    <3>4. CASE s # a
      <4>1. ~IsText(Text(a, said'[a]), s)
        BY <3>4, ItemFacts DEF IsText
      <4>2. TextsAre(Append(uiQueue, Text(a, said'[a])), s, n, said[s])
        BY <1>1, <2>3, <3>1, <3>2, <4>1, AppendText
      <4>3. QED
        BY <2>1, <2>2, <3>1, <3>2, <3>4, <4>2
    <3>5. QED
      BY <3>3, <3>4
  <2>6. QED
    BY <1>1, <2>1, <2>2, <2>4, <2>5 DEF TextsInv
<1>4. CASE ShowText
  <2>1. /\ uiQueue # <<>> /\ uiQueue' = Tail(uiQueue) /\ Head(uiQueue).kind = "text"
        /\ uiShown' = Append(uiShown, Head(uiQueue)) /\ said' = said
    BY <1>4 DEF ShowText, Dequeue
  <2>2. /\ Head(uiQueue) \in UiItems /\ uiQueue' \in Seq(UiItems) /\ uiShown' \in Seq(UiItems)
    BY <1>1, <2>1, TailFacts, AppendFacts
  <2>3. ASSUME NEW s \in Speakers
        PROVE  \E n \in 0..said'[s] : TextsAre(uiShown', s, 0, n) /\ TextsAre(uiQueue', s, n, said'[s])
    <3>1. PICK n \in 0..said[s] : TextsAre(uiShown, s, 0, n) /\ TextsAre(uiQueue, s, n, said[s])
      BY <1>1
    <3>2. n \in Nat /\ said[s] \in Nat /\ n <= said[s] /\ 0 \in Nat /\ 0 <= n
      BY <1>1, <3>1
    <3>3. CASE IsText(Head(uiQueue), s)
      <4>1. n < said[s] /\ Head(uiQueue) = Text(s, n + 1) /\ TextsAre(Tail(uiQueue), s, n + 1, said[s])
        BY <1>1, <2>1, <3>1, <3>2, <3>3, TailText
      <4>2. TextsAre(Append(uiShown, Head(uiQueue)), s, 0, n + 1)
        BY <1>1, <2>2, <3>1, <3>2, <4>1, AppendText
      <4>3. n + 1 \in 0..said[s]
        BY <3>2, <4>1
      <4>4. QED
        BY <2>1, <4>1, <4>2, <4>3
    <3>4. CASE ~IsText(Head(uiQueue), s)
      <4>1. TextsAre(Tail(uiQueue), s, n, said[s])
        BY <1>1, <2>1, <3>1, <3>2, <3>4, TailText
      <4>2. TextsAre(Append(uiShown, Head(uiQueue)), s, 0, n)
        BY <1>1, <2>2, <3>1, <3>2, <3>4, AppendText
      <4>3. QED
        BY <2>1, <3>1, <4>1, <4>2
    <3>5. QED
      BY <3>3, <3>4
  <2>4. QED
    BY <1>1, <2>1, <2>2, <2>3 DEF TextsInv
<1>5. ASSUME NEW a \in Speakers, RequestPassword(a)
      PROVE  TextsInv'
  <2>1. /\ uiQueue' = Append(uiQueue, Prompt(a)) /\ uiShown' = uiShown /\ said' = said
        /\ Prompt(a) \in UiItems /\ \A s \in Speakers : ~IsText(Prompt(a), s)
    BY <1>5, ItemFacts DEF RequestPassword, Enqueue, UiItems, IsText
  <2>2. QED
    BY <1>2, <2>1
<1>6. ASSUME NEW a \in Speakers, ExecuteOnThread(a)
      PROVE  TextsInv'
  <2>1. /\ uiQueue' = <<Function(a)>> \o uiQueue /\ uiShown' = uiShown /\ said' = said
        /\ Function(a) \in UiItems /\ \A s \in Speakers : ~IsText(Function(a), s)
    BY <1>6, ItemFacts DEF ExecuteOnThread, Enqueue, UiItems, IsText
  <2>2. QED
    BY <1>2, <2>1
<1>7. CASE PostQuit
  <2>1. /\ uiQueue' = <<Null>> \o uiQueue /\ uiShown' = uiShown /\ said' = said
        /\ Null \in UiItems /\ \A s \in Speakers : ~IsText(Null, s)
    BY <1>7, ItemFacts DEF PostQuit, Enqueue, UiItems, IsText
  <2>2. QED
    BY <1>2, <2>1
<1>8. ASSUME NEW val \in Inputs, ShowPrompt \/ End \/ Completed(val)
      PROVE  TextsInv'
  <2>1. /\ uiQueue # <<>> /\ uiQueue' = Tail(uiQueue) /\ Head(uiQueue).kind # "text"
        /\ uiShown' = uiShown /\ said' = said
    BY <1>8 DEF ShowPrompt, End, Completed, Dequeue
  <2>2. Head(uiQueue) \in UiItems /\ \A s \in Speakers : ~IsText(Head(uiQueue), s)
    BY <1>1, <2>1, TailFacts DEF IsText
  <2>3. QED
    BY <1>2, <2>1, <2>2
<1>9. CASE Start \/ TellUi \/ Wait \/ UNCHANGED uiVars \/ \E s \in Speakers : Cancel(s)
  <2>1. UNCHANGED <<uiQueue, uiShown, said>>
    BY <1>9 DEF Start, TellUi, Wait, Cancel, uiVars
  <2>2. QED
    BY <1>1, <2>1 DEF TextsInv
<1>10. "empty" \in Inputs
  BY DEF Inputs
<1>11. QED
  BY <1>3, <1>4, <1>5, <1>6, <1>7, <1>8, <1>9, <1>10 DEF UiNext

(* The thread is told to end before it finds the item that says so.        *)
EndInv ==
    /\ uiQueue \in Seq(UiItems)
    /\ uiQuit \in {"no", "told", "posted"}
    /\ uiQuit # "posted" => Lacks(uiQueue, Null)
    /\ EndsWhenTold

(* quit() is the last to put an item into the queue.                       *)
LEMMA EndStep ==
  ASSUME EndInv, said' \in [Speakers -> Nat], [UiNext]_uiVars
  PROVE  EndInv'
<1>1. /\ uiQueue \in Seq(UiItems) /\ uiQuit \in {"no", "told", "posted"}
      /\ uiQuit # "posted" => Lacks(uiQueue, Null)
      /\ uiState = "ended" => uiQuit = "posted"
      /\ uiWait => uiState = "ended"
  BY DEF EndInv, EndsWhenTold
<1>2. ASSUME NEW x \in UiItems, x # Null,
             \/ uiQueue' = Append(uiQueue, x)
             \/ uiQueue' = <<x>> \o uiQueue
             \/ uiQueue # <<>> /\ x = Head(uiQueue) /\ uiQueue' = Tail(uiQueue)
      PROVE  uiQueue' \in Seq(UiItems) /\ (Lacks(uiQueue, Null) => Lacks(uiQueue', Null))
  <2>1. uiQueue' \in Seq(UiItems)
    BY <1>1, <1>2, QueueOfItems
  <2>2. CASE uiQueue' = Append(uiQueue, x)
    BY <1>1, <1>2, <2>1, <2>2, AppendAsked DEF Lacks
  <2>3. CASE uiQueue' = <<x>> \o uiQueue
    BY <1>1, <1>2, <2>1, <2>3, FrontAsked DEF Lacks
  <2>4. CASE uiQueue # <<>> /\ uiQueue' = Tail(uiQueue)
    BY <1>1, <1>2, <2>1, <2>4, TailAsked DEF Lacks
  <2>5. QED
    BY <1>2, <2>1, <2>2, <2>3, <2>4
<1>3. ASSUME NEW x \in UiItems, x # Null,
             \/ uiQueue' = Append(uiQueue, x)
             \/ uiQueue' = <<x>> \o uiQueue
             \/ uiQueue # <<>> /\ x = Head(uiQueue) /\ uiQueue' = Tail(uiQueue),
             uiQuit' = uiQuit, uiState' = uiState, uiWait' = uiWait
      PROVE  EndInv'
  BY <1>1, <1>2, <1>3 DEF EndInv, EndsWhenTold
<1>4. ASSUME NEW s \in Speakers, OutputText(s) \/ RequestPassword(s) \/ ExecuteOnThread(s)
      PROVE  EndInv'
  <2>1. said'[s] \in Nat
    OBVIOUS
  <2>2. \E x \in UiItems : /\ x # Null
                           /\ uiQueue' = Append(uiQueue, x) \/ uiQueue' = <<x>> \o uiQueue
    <3>1. /\ Text(s, said'[s]) \in UiItems /\ Prompt(s) \in UiItems /\ Function(s) \in UiItems
          /\ Text(s, said'[s]) # Null /\ Prompt(s) # Null /\ Function(s) # Null
      BY <2>1, ItemFacts DEF UiItems
    <3>2. QED
      BY <1>4, <3>1 DEF OutputText, RequestPassword, ExecuteOnThread, Enqueue
  <2>3. uiQuit' = uiQuit /\ uiState' = uiState /\ uiWait' = uiWait
    BY <1>4 DEF OutputText, RequestPassword, ExecuteOnThread
  <2>4. QED
    BY <1>3, <2>2, <2>3
<1>5. ASSUME NEW val \in Inputs, ShowText \/ ShowPrompt \/ Completed(val)
      PROVE  EndInv'
  <2>1. /\ uiQueue # <<>> /\ uiQueue' = Tail(uiQueue) /\ Head(uiQueue).kind # "nullptr"
        /\ uiQuit' = uiQuit /\ uiState' = uiState /\ uiWait' = uiWait
    BY <1>5 DEF ShowText, ShowPrompt, Completed, Dequeue
  <2>2. Head(uiQueue) \in UiItems /\ Head(uiQueue) # Null
    BY <1>1, <2>1, TailFacts, ItemFacts
  <2>3. QED
    BY <1>3, <2>1, <2>2
<1>6. CASE End
  <2>1. /\ uiQueue # <<>> /\ uiQueue' = Tail(uiQueue) /\ Head(uiQueue).kind = "nullptr"
        /\ uiQuit' = uiQuit /\ uiState' = "ended" /\ uiWait' = uiWait
    BY <1>6 DEF End, Dequeue
  <2>2. Head(uiQueue) = Null /\ uiQueue' \in Seq(UiItems)
    BY <1>1, <2>1, TailFacts, ItemFacts
  <2>3. ~Lacks(uiQueue, Null)
    BY <1>1, <2>1, <2>2, TailFacts DEF Lacks
  <2>4. QED
    BY <1>1, <2>1, <2>2, <2>3 DEF EndInv, EndsWhenTold
<1>7. CASE PostQuit
  <2>1. uiQueue' = <<Null>> \o uiQueue /\ uiQuit' = "posted" /\ uiState' = uiState /\ uiWait' = uiWait
    BY <1>7 DEF PostQuit, Enqueue
  <2>2. uiQueue' \in Seq(UiItems)
    BY <1>1, <2>1, QueueOfItems DEF UiItems
  <2>3. QED
    BY <1>1, <2>1, <2>2 DEF EndInv, EndsWhenTold
<1>8. CASE Start \/ TellUi \/ Wait \/ UNCHANGED uiVars \/ \E s \in Speakers : Cancel(s)
  <2>1. uiQueue' = uiQueue
    BY <1>8 DEF Start, TellUi, Wait, Cancel, uiVars
  <2>2. /\ uiQuit' \in {"no", "told", "posted"} /\ (uiQuit' # "posted" => uiQuit # "posted")
        /\ (uiState' = "ended" => uiState = "ended") /\ (uiQuit = "posted" => uiQuit' = "posted")
        /\ (uiWait' => uiState' = "ended")
    BY <1>1, <1>8 DEF Start, TellUi, Wait, Cancel, uiVars
  <2>3. QED
    BY <1>1, <2>1, <2>2 DEF EndInv, EndsWhenTold
<1>9. "empty" \in Inputs
  BY DEF Inputs
<1>10. QED
  BY <1>4, <1>5, <1>6, <1>7, <1>8, <1>9 DEF UiNext

UiInv == PromptsInv /\ TextsInv /\ EndInv

(* What the invariants say to a caller.                                    *)
LEMMA UiProperties ==
  ASSUME UiInv
  PROVE  PromptsAreServed /\ TextsInOrder /\ EndsWhenTold
<1>1. ASSUME NEW s \in Speakers
      PROVE  LET places == {i \in DOMAIN uiQueue : uiQueue[i].kind # "text" /\ uiQueue[i].by = s}
             IN /\ prompt[s] = "queued" => \E i \in places : places = {i} /\ uiQueue[i] = Prompt(s)
                /\ prompt[s] = "entered" => \E i \in places : places = {i} /\ uiQueue[i] = Function(s)
                /\ prompt[s] \notin {"queued", "entered", "withdrawn"} => places = {}
                /\ asker[s] = "waiting" => prompt[s] \notin {"none", "withdrawn"}
                /\ answer[s] # "none" <=> prompt[s] = "completed"
                /\ answer[s] # "none" => answer[s] \in Validator(Asks[s])
  <2> DEFINE places == {i \in DOMAIN uiQueue : uiQueue[i].kind # "text" /\ uiQueue[i].by = s}
  <2>1. PromptOf(s) /\ DOMAIN uiQueue = 1..Len(uiQueue)
    BY DEF UiInv, PromptsInv
  <2>2. places = {i \in 1..Len(uiQueue) : IsAsked(uiQueue[i], s)}
    BY <2>1 DEF IsAsked
  <2> HIDE DEF places
  <2>3. IsAsked(Prompt(s), s) /\ IsAsked(Function(s), s)
    BY ItemFacts DEF IsAsked
  <2>4. \A x : AskedOne(uiQueue, s, x) /\ IsAsked(x, s) => \E i \in places : places = {i} /\ uiQueue[i] = x
    BY <2>2 DEF AskedOne
  <2>5. AskedNone(uiQueue, s) => places = {}
    BY <2>2 DEF AskedNone
  <2>6. QED
    BY <2>1, <2>3, <2>4, <2>5 DEF PromptOf, places
<1>2. ASSUME NEW s \in Speakers
      PROVE  LET items == uiShown \o uiQueue
                 places == {i \in DOMAIN items : items[i].kind = "text" /\ items[i].by = s}
             IN /\ {items[i] : i \in places} = {Text(s, n) : n \in 1..said[s]}
                /\ \A i, j \in places : i < j => items[i].no < items[j].no
  <2> DEFINE items == uiShown \o uiQueue
             places == {i \in DOMAIN items : items[i].kind = "text" /\ items[i].by = s}
  <2>1. PICK n \in 0..said[s] : TextsAre(uiShown, s, 0, n) /\ TextsAre(uiQueue, s, n, said[s])
    BY DEF UiInv, TextsInv
  <2>2. /\ uiQueue \in Seq(UiItems) /\ uiShown \in Seq(UiItems) /\ said[s] \in Nat
        /\ n \in Nat /\ n <= said[s]
    BY <2>1 DEF UiInv, TextsInv
  <2>3. TextsAre(items, s, 0, said[s])
    BY <2>1, <2>2, ConcatTexts
  <2>4. DOMAIN items = 1..Len(items)
    BY <2>2
  <2> HIDE DEF items
  <2>5. places = {i \in 1..Len(items) : IsText(items[i], s)}
    BY <2>4 DEF IsText
  <2> HIDE DEF places
  <2>6. \A k : IsText(Text(s, k), s)
    BY ItemFacts DEF IsText
  <2>7. /\ \A k \in 1..said[s] : \E i \in 1..Len(items) : items[i] = Text(s, k)
        /\ \A i \in 1..Len(items) : IsText(items[i], s) => \E k \in 1..said[s] : items[i] = Text(s, k)
        /\ \A i, j \in 1..Len(items) : i < j /\ IsText(items[i], s) /\ IsText(items[j], s)
                                         => items[i].no < items[j].no
    <3>1. 0 + 1 = 1
      OBVIOUS
    <3>2. QED
      BY <2>3, <3>1 DEF TextsAre
  <2>8. {items[i] : i \in places} = {Text(s, k) : k \in 1..said[s]}
    BY <2>5, <2>6, <2>7
  <2>9. \A i, j \in places : i < j => items[i].no < items[j].no
    BY <2>5, <2>7
  <2>10. QED
    BY <2>8, <2>9 DEF items, places
<1>3. PromptsAreServed
  BY <1>1 DEF PromptsAreServed
<1>4. TextsInOrder
  BY <1>2 DEF TextsInOrder
<1>5. EndsWhenTold
  BY DEF UiInv, EndInv
<1>6. QED
  BY <1>3, <1>4, <1>5

(* The queue and the prompts are as described in every state.              *)
LEMMA UiInvAlways ==
  ASSUME UiAssumption
  PROVE  UiSpec => []UiInv
<1>1. UiInit => UiInv
  <2> SUFFICES ASSUME UiInit PROVE UiInv
    OBVIOUS
  <2> DEFINE e == <<>>
  <2>1. /\ uiState = "starting" /\ uiQueue = e /\ uiQuit = "no" /\ uiWait = FALSE
        /\ said = [s \in Speakers |-> 0] /\ uiShown = e
        /\ asker = [s \in Speakers |-> "no"] /\ prompt = [s \in Speakers |-> "none"]
        /\ canCancel = {} /\ answer = [s \in Speakers |-> "none"]
    BY DEF UiInit
  <2>2. e \in Seq(UiItems) /\ Len(e) = 0 /\ \A s : TextsAre(e, s, 0, 0)
    BY NoTextFacts
  <2> HIDE DEF e
  <2>3. (\A s : AskedNone(e, s)) /\ \A x : Lacks(e, x)
    BY <2>2 DEF AskedNone, Lacks
  <2>4. \A s \in Speakers : PromptOf(s)
    BY <2>1, <2>3 DEF PromptOf
  <2>5. PromptsInv
    BY <2>1, <2>2, <2>4 DEF PromptsInv
  <2>6. TextsInv
    BY <2>1, <2>2 DEF TextsInv
  <2>7. EndInv
    BY <2>1, <2>2, <2>3 DEF EndInv, EndsWhenTold
  <2>8. QED
    BY <2>5, <2>6, <2>7 DEF UiInv
<1>2. UiInv /\ [UiNext]_uiVars => UiInv'
  <2> SUFFICES ASSUME UiInv, [UiNext]_uiVars PROVE UiInv'
    OBVIOUS
  <2>1. PromptsInv /\ TextsInv /\ EndInv /\ said \in [Speakers -> Nat]
    BY DEF UiInv, TextsInv
  <2>2. said' \in [Speakers -> Nat]
    BY <2>1, SaidStep
  <2>3. PromptsInv'
    BY <2>1, <2>2, PromptsStep
  <2>4. TextsInv'
    BY <2>1, TextsStep
  <2>5. EndInv'
    BY <2>1, <2>2, EndStep
  <2>6. QED
    BY <2>3, <2>4, <2>5 DEF UiInv
<1>3. QED
  BY <1>1, <1>2, PTL DEF UiSpec

(* For every number of speakers and texts: who waits for an answer has a   *)
(* prompt that can still be answered, each speaker's texts are shown in    *)
(* the order he said them, and the thread ends only when it is told to     *)
(* (UI.cpp:60-239, Thread.cpp).                                            *)
THEOREM UserIsAskedAndTold ==
  ASSUME UiAssumption
  PROVE  UiSpec => [](PromptsAreServed /\ TextsInOrder /\ EndsWhenTold)
<1>1. UiInv => PromptsAreServed /\ TextsInOrder /\ EndsWhenTold
  BY UiProperties
<1>2. QED
  BY <1>1, UiInvAlways, PTL

-----------------------------------------------------------------------------
(* AsioFibers                                                              *)

Contexts == Fibers \cup {"main", "dispatcher"}

(* Where the dispatcher is, and where main is: it runs, is ready, is on its *)
(* way there, or waits to be notified or for a mutex.                      *)
MainIsSomewhere ==
    \/ active = "main" /\ Lacks(ready, "main") /\ Lacks(remote, "main") /\ within # "mutex"
    \/ /\ active # "main" /\ HoldsOnce(ready, "main") /\ Lacks(remote, "main")
       /\ \/ within \in {"yield", "woken"}
          \/ /\ within = "none" /\ mainAt = "cnd" /\ active = "dispatcher" /\ ready = <<"main">>
             /\ dispatching = "loop"
    \/ active # "main" /\ Lacks(ready, "main") /\ HoldsOnce(remote, "main") /\ within = "woken"
    \/ /\ active # "main" /\ Lacks(ready, "main") /\ Lacks(remote, "main")
       /\ within = "mutex" \/ (within = "none" /\ mainAt = "cnd")

ContextsInv ==
    /\ ready \in Seq(Contexts) /\ remote \in Seq(Fibers \cup {"main"}) /\ active \in Contexts
    /\ handlers \subseteq Fibers /\ within \in {"none", "yield", "mutex", "woken"}
    /\ mainAt \in {"loop", "poll", "run", "cnd"}
    /\ active = "dispatcher" => Lacks(ready, "dispatcher")
    /\ active # "dispatcher" => HoldsOnce(ready, "dispatcher") /\ dispatching = "loop"
    /\ dispatching # "loop" => ready = <<>>
    /\ within # "none" => mainAt \in {"poll", "run"}
    /\ MainIsSomewhere
    /\ active = "main" /\ mainAt = "run" /\ within = "none" => ready = <<"dispatcher">>
    /\ mainAt = "run" /\ within = "yield" /\ active = "dispatcher" => ready = <<"main">> /\ dispatching = "loop"
    /\ mainAt = "run" /\ within = "yield" => active \in {"main", "dispatcher"}

TimesInv ==
    /\ now \in Nat /\ deadline \in [Fibers -> Nat] /\ yields \in Nat
    /\ fiberAt \in [Fibers -> {"none", "ready", "op", "mutex", "remote", "asleep"}]
    /\ threadAt \in [Threads -> {"idle", "pending", "wait", "cancel", "expiry"}]
    /\ timer \in [expiry : Nat, pending : BOOLEAN, armed : SUBSET Nat, waits : Nat]
    /\ timer.armed = {} <=> timer.waits = 0
    /\ \A t, u \in timer.armed : t = u

(* What a thread has put into the remote queue is noticed.                 *)
RemoteInv ==
    remote # <<>> =>
        \/ timer.armed # {} \/ yields > 0
        \/ \E t \in Threads : threadAt[t] \in {"pending", "wait"}
        \/ active # "main" /\ (active = "dispatcher" \/ Precedes(ready, "dispatcher", "main"))

(* The timer is set for the first sleeper, or it has fired.                *)
Covered ==
    \/ Asleep = {}
    \/ \E g \in Asleep : deadline[g] \in timer.armed /\ \A f \in Asleep : deadline[g] <= deadline[f]

TimerInv ==
    lapses = {} =>
        /\ \A t \in Threads : threadAt[t] \in {"idle", "pending"}
        /\ /\ active = "dispatcher"
           /\ \/ dispatching = "notify"
              \/ /\ dispatching = "loop" /\ ~Lacks(ready, "main")
                 /\ mainAt = "cnd" \/ (mainAt = "run" /\ within = "yield")
           => Covered \/ Due # {}
        /\ /\ active = "main" /\ ready = <<"dispatcher">>
           /\ mainAt \in {"cnd", "loop"} \/ (mainAt = "run" /\ within \in {"none", "yield"})
           => Covered \/ (yields > 0 /\ Due # {})
        /\ dispatching \in {"expiry", "pending", "wait"} => timer.armed = {}
        /\ dispatching \in {"pending", "wait"} =>
              \E g \in Asleep : timer.expiry = deadline[g] /\ \A f \in Asleep : deadline[g] <= deadline[f]

(* Asio schedules each context once: nobody readies main or the dispatcher *)
(* twice, and main finds the dispatcher alone when it goes to sleep.       *)
LEMMA ContextsStep ==
  ASSUME FiberAssumption, ContextsInv, [FiberNext]_fiberVars
  PROVE  ContextsInv'
<1> USE DEF Contexts
<1>1. /\ ready \in Seq(Contexts) /\ remote \in Seq(Fibers \cup {"main"}) /\ active \in Contexts
      /\ remote \in Seq(Contexts) /\ handlers \subseteq Fibers
      /\ within \in {"none", "yield", "mutex", "woken"}
      /\ mainAt \in {"loop", "poll", "run", "cnd"}
      /\ "main" \notin Fibers /\ "dispatcher" \notin Fibers /\ IsFiniteSet(Fibers)
  BY DEF FiberAssumption, ContextsInv
<1>2. Lacks(remote, "dispatcher")
  BY <1>1 DEF Lacks
<1>3. active # "dispatcher" =>
        ready # <<>> /\ HoldsOnce(ready, "dispatcher") /\ dispatching = "loop"
  BY OneElement DEF ContextsInv
<1>4. active = "main" => Lacks(ready, "main") /\ Lacks(remote, "main") /\ within # "mutex"
  BY DEF ContextsInv, MainIsSomewhere
<1>5. ASSUME ServiceLoop
      PROVE  ContextsInv'
  <2>1. /\ active = "main" /\ mainAt = "loop" /\ within = "none"
        /\ mainAt' = IF HasReadyFibers THEN "poll" ELSE "run"
        /\ ready' = ready /\ active' = active /\ within' = within /\ remote' = remote
        /\ dispatching' = dispatching /\ handlers' = handlers
    BY <1>5 DEF ServiceLoop, elsewhere, ioVars, ContextsInv
  <2>2. mainAt' = "run" => ready = <<"dispatcher">>
    <3>1. ASSUME mainAt' = "run"
          PROVE  \A i \in 1..Len(ready) : ready[i] = "dispatcher"
      BY <2>1, <3>1 DEF HasReadyFibers
    <3>2. HoldsOnce(ready, "dispatcher")
      BY <1>3, <2>1
    <3>3. QED
      BY <1>1, <3>1, <3>2, NothingElse
  <2>3. QED
    BY <1>1, <1>3, <1>4, <2>1, <2>2 DEF ContextsInv, MainIsSomewhere
<1>6. ASSUME PollEnds
      PROVE  ContextsInv'
  <2>1. /\ active = "main" /\ within = "none" /\ mainAt' = "cnd"
        /\ active' = Head(ready) /\ ready' = Tail(ready)
        /\ within' = within /\ remote' = remote
        /\ dispatching' = dispatching /\ handlers' = handlers
    BY <1>6 DEF PollEnds, Suspend, elsewhere, ioVars
  <2>2. /\ active' \in Contexts /\ ready' \in Seq(Contexts)
        /\ active' # "main" /\ Lacks(ready', "main")
        /\ active' = "dispatcher" => Lacks(ready', "dispatcher")
        /\ active' # "dispatcher" => HoldsOnce(ready', "dispatcher")
    BY <1>1, <1>3, <1>4, <2>1, TailOnce
  <2>3. QED
    BY <1>1, <1>3, <1>4, <2>1, <2>2 DEF ContextsInv, MainIsSomewhere
<1>7. ASSUME Notified
      PROVE  ContextsInv'
  BY <1>1, <1>3, <1>4, <1>7 DEF Notified, ContextsInv, MainIsSomewhere, elsewhere, ioVars
<1>8. ASSUME RunHandler
      PROVE  ContextsInv'
  <2>1. /\ active = "main" /\ mainAt \in {"poll", "run"} /\ within = "none"
        /\ remote' = remote /\ dispatching' = dispatching
    BY <1>8 DEF RunHandler, elsewhere
  <2>2. CASE \E f \in handlers :
               /\ handlers' = handlers \ {f} /\ ready' = Append(ready, f)
               /\ HandlerReturns /\ active' = active /\ within' = within
    <3>1. PICK f \in handlers :
               /\ handlers' = handlers \ {f} /\ ready' = Append(ready, f)
               /\ HandlerReturns /\ active' = active /\ within' = within
      BY <2>2
    <3>2. f \in Contexts /\ f # "main" /\ f # "dispatcher"
      BY <1>1
    <3>3. /\ ready' \in Seq(Contexts) /\ Lacks(ready', "main")
          /\ HoldsOnce(ready', "dispatcher")
      BY <1>1, <1>3, <1>4, <2>1, <3>1, <3>2, AppendOnce
    <3>4. mainAt' \in {"loop", "poll"}
      BY <3>1 DEF HandlerReturns
    <3>5. QED
      BY <1>1, <1>3, <1>4, <2>1, <3>1, <3>3, <3>4 DEF ContextsInv, MainIsSomewhere
  <2>3. CASE /\ within' = "yield" /\ active' = Head(ready)
             /\ ready' = Append(Tail(ready), "main") /\ mainAt' = mainAt
             /\ handlers' = handlers
    <3>1. /\ Head(ready) \in Contexts /\ Tail(ready) \in Seq(Contexts)
          /\ Head(ready) # "main" /\ Lacks(Tail(ready), "main")
          /\ Head(ready) = "dispatcher" => Lacks(Tail(ready), "dispatcher")
          /\ Head(ready) # "dispatcher" => HoldsOnce(Tail(ready), "dispatcher")
      BY <1>1, <1>3, <1>4, <2>1, TailOnce
    <3>2. /\ ready' \in Seq(Contexts) /\ HoldsOnce(ready', "main")
          /\ Head(ready) = "dispatcher" => Lacks(ready', "dispatcher")
          /\ Head(ready) # "dispatcher" => HoldsOnce(ready', "dispatcher")
      <4> DEFINE rest == Tail(ready)
      <4>1. rest \in Seq(Contexts) /\ Lacks(rest, "main") /\ "main" \in Contexts
        BY <3>1
      <4> HIDE DEF rest
      <4>2. Append(rest, "main") \in Seq(Contexts) /\ HoldsOnce(Append(rest, "main"), "main")
        BY <4>1, AppendOnce
      <4>3. /\ Lacks(rest, "dispatcher") => Lacks(Append(rest, "main"), "dispatcher")
            /\ HoldsOnce(rest, "dispatcher") => HoldsOnce(Append(rest, "main"), "dispatcher")
        BY <4>1, AppendOnce
      <4>4. QED
        BY <2>3, <3>1, <4>2, <4>3 DEF rest
    <3>3. mainAt = "run" => ready = <<"dispatcher">>
      BY <2>1 DEF ContextsInv
    <3>4. mainAt = "run" => active' = "dispatcher" /\ ready' = <<"main">>
      <4>1. Head(<<"dispatcher">>) = "dispatcher" /\ Tail(<<"dispatcher">>) = <<>>
            /\ Append(<<>>, "main") = <<"main">>
        OBVIOUS
      <4>2. QED
        BY <2>3, <3>3, <4>1
    <3>5. QED
      BY <1>1, <1>3, <1>4, <2>1, <2>3, <3>1, <3>2, <3>4 DEF ContextsInv, MainIsSomewhere
  <2>4. CASE /\ within' = "mutex" /\ active' = Head(ready) /\ ready' = Tail(ready)
             /\ mainAt' = mainAt /\ handlers' = handlers
    <3>1. /\ active' \in Contexts /\ ready' \in Seq(Contexts)
          /\ active' # "main" /\ Lacks(ready', "main")
          /\ active' = "dispatcher" => Lacks(ready', "dispatcher")
          /\ active' # "dispatcher" => HoldsOnce(ready', "dispatcher")
      BY <1>1, <1>3, <1>4, <2>1, <2>4, TailOnce
    <3>2. QED
      BY <1>1, <1>3, <1>4, <2>1, <2>4, <3>1 DEF ContextsInv, MainIsSomewhere
  <2>5. QED
    BY <1>8, <2>2, <2>3, <2>4 DEF RunHandler, Suspend
<1>9. ASSUME HandlerGoesOn
      PROVE  ContextsInv'
  <2>1. /\ active = "main" /\ within' = "none" /\ mainAt' \in {"loop", "poll"}
        /\ ready' = ready /\ active' = active /\ remote' = remote
        /\ dispatching' = dispatching /\ handlers' = handlers
    BY <1>9 DEF HandlerGoesOn, HandlerReturns, ioVars
  <2>2. QED
    BY <1>1, <1>3, <1>4, <2>1 DEF ContextsInv, MainIsSomewhere
<1>10. ASSUME Dispatch
       PROVE  ContextsInv'
  <2>1. /\ active = "dispatcher" /\ dispatching = "loop" /\ remote' = <<>>
        /\ mainAt' = mainAt /\ within' = within /\ handlers' = handlers
    BY <1>10 DEF Dispatch, ioVars
  <2>2. PICK due \in SetToSeqs(Due) :
          LET line == ready \o remote \o due
          IN IF line # <<>>
             THEN /\ active' = Head(line) /\ ready' = Append(Tail(line), "dispatcher")
                  /\ dispatching' = dispatching
             ELSE /\ dispatching' = IF Asleep = {} THEN "notify" ELSE "cancel"
                  /\ active' = active /\ ready' = ready
    BY <1>10 DEF Dispatch
  <2> DEFINE wakened == ready \o remote
             line == wakened \o due
  <2>3. due \in Seq(Fibers)
    <3>1. IsFiniteSet(Due) /\ Due \subseteq Fibers
      BY <1>1, FS_Subset DEF Due, Asleep
    <3>2. Cardinality(Due) \in Nat
      BY <3>1, FS_CardinalityType
    <3>3. due \in [1..Cardinality(Due) -> Due]
      BY <2>2 DEF SetToSeqs
    <3>4. QED
      BY <3>1, <3>2, <3>3
  <2>4. due \in Seq(Contexts) /\ Lacks(due, "main") /\ Lacks(due, "dispatcher")
    BY <1>1, <2>3 DEF Lacks
  <2>5. Lacks(ready, "dispatcher")
    BY <2>1 DEF ContextsInv
  <2>6. /\ wakened \in Seq(Contexts) /\ Lacks(wakened, "dispatcher")
        /\ Lacks(ready, "main") /\ Lacks(remote, "main") => Lacks(wakened, "main")
        /\ HoldsOnce(ready, "main") /\ Lacks(remote, "main") => HoldsOnce(wakened, "main")
        /\ Lacks(ready, "main") /\ HoldsOnce(remote, "main") => HoldsOnce(wakened, "main")
    BY <1>1, <1>2, <2>5, ConcatOnce
  <2> HIDE DEF wakened
  <2>7. /\ line \in Seq(Contexts) /\ Lacks(line, "dispatcher")
        /\ Lacks(wakened, "main") => Lacks(line, "main")
        /\ HoldsOnce(wakened, "main") => HoldsOnce(line, "main")
    BY <2>4, <2>6, ConcatOnce
  <2>8. ready = <<"main">> => line # <<>> /\ Head(line) = "main"
    BY <1>1, <2>4 DEF wakened
  <2>9. line = <<>> => ready = <<>>
    BY <1>1, <2>4 DEF wakened
  <2>10. IF line # <<>>
         THEN /\ active' = Head(line) /\ ready' = Append(Tail(line), "dispatcher")
              /\ dispatching' = dispatching
         ELSE /\ dispatching' = IF Asleep = {} THEN "notify" ELSE "cancel"
              /\ active' = active /\ ready' = ready
    BY <2>2 DEF wakened
  <2> HIDE DEF line
  <2>11. mainAt = "run" /\ within = "yield" => ready = <<"main">>
    BY <2>1 DEF ContextsInv
  <2>12. within # "none" => mainAt \in {"poll", "run"}
    BY DEF ContextsInv
  <2>13. Lacks(<<>>, "main") /\ ~HoldsOnce(<<>>, "main")
    BY OneElement
  <2>14. \/ HoldsOnce(line, "main") /\ within \in {"yield", "woken"}
         \/ HoldsOnce(line, "main") /\ within = "none" /\ mainAt = "cnd" /\ ready = <<"main">>
         \/ Lacks(line, "main") /\ (within = "mutex" \/ (within = "none" /\ mainAt = "cnd"))
    BY <2>1, <2>6, <2>7 DEF ContextsInv, MainIsSomewhere
  <2>15. CASE line = <<>>
    <3>1. /\ ready' = <<>> /\ active' = "dispatcher" /\ dispatching' \in {"notify", "cancel"}
      BY <2>1, <2>9, <2>10, <2>15
    <3>2. ~HoldsOnce(line, "main")
      BY <2>13, <2>15
    <3>3. Lacks(<<>>, "dispatcher")
      BY OneElement
    <3>4. ready' \in Seq(Contexts) /\ remote' \in Seq(Fibers \cup {"main"})
      BY <2>1, <3>1
    <3>5. /\ active' # "main" /\ Lacks(ready', "main") /\ Lacks(remote', "main")
          /\ within' = "mutex" \/ (within' = "none" /\ mainAt' = "cnd")
      BY <2>1, <2>13, <2>14, <3>1, <3>2
    <3>6. MainIsSomewhere'
      BY <3>5 DEF MainIsSomewhere
    <3>7. Lacks(ready', "dispatcher") /\ ready # <<"main">>
      BY <2>9, <2>15, <3>1, <3>3
    <3>8. QED
      BY <1>1, <2>1, <2>11, <2>12, <3>1, <3>4, <3>6, <3>7 DEF ContextsInv
  <2>16. CASE line # <<>>
    <3>1. /\ active' = Head(line) /\ ready' = Append(Tail(line), "dispatcher")
          /\ dispatching' = "loop"
      BY <2>1, <2>10, <2>16
    <3>2. /\ Head(line) \in Contexts /\ Tail(line) \in Seq(Contexts)
          /\ Head(line) # "dispatcher" /\ Lacks(Tail(line), "dispatcher")
          /\ Lacks(line, "main") => Head(line) # "main" /\ Lacks(Tail(line), "main")
          /\ HoldsOnce(line, "main") /\ Head(line) = "main" => Lacks(Tail(line), "main")
          /\ HoldsOnce(line, "main") /\ Head(line) # "main" => HoldsOnce(Tail(line), "main")
      BY <2>7, <2>16, TailOnce
    <3>3. /\ ready' \in Seq(Contexts) /\ HoldsOnce(ready', "dispatcher")
          /\ Lacks(Tail(line), "main") => Lacks(ready', "main")
          /\ HoldsOnce(Tail(line), "main") => HoldsOnce(ready', "main")
      <4> DEFINE rest == Tail(line)
      <4>1. rest \in Seq(Contexts) /\ Lacks(rest, "dispatcher") /\ "dispatcher" \in Contexts
        BY <3>2
      <4> HIDE DEF rest
      <4>2. Append(rest, "dispatcher") \in Seq(Contexts)
            /\ HoldsOnce(Append(rest, "dispatcher"), "dispatcher")
        BY <4>1, AppendOnce
      <4>3. /\ Lacks(rest, "main") => Lacks(Append(rest, "dispatcher"), "main")
            /\ HoldsOnce(rest, "main") => HoldsOnce(Append(rest, "dispatcher"), "main")
        BY <4>1, AppendOnce
      <4>4. QED
        BY <3>1, <4>2, <4>3 DEF rest
    <3>4. remote' \in Seq(Fibers \cup {"main"}) /\ Lacks(remote', "main")
      BY <2>1, <2>13
    <3>5. MainIsSomewhere'
      BY <2>1, <2>8, <2>14, <3>1, <3>2, <3>3, <3>4 DEF MainIsSomewhere
    <3>6. active' = "main" /\ within = "none" => mainAt = "cnd"
      BY <2>14, <3>1, <3>2
    <3>7. mainAt = "run" /\ within = "yield" => active' = "main"
      BY <2>8, <2>11, <3>1
    <3>8. QED
      BY <1>1, <2>1, <2>12, <3>1, <3>2, <3>3, <3>4, <3>5, <3>6, <3>7 DEF ContextsInv
  <2>17. QED
    BY <2>15, <2>16
<1>11. ASSUME SuspendUntil
       PROVE  ContextsInv'
  <2>1. /\ active = "dispatcher" /\ active' = active /\ mainAt' = mainAt /\ within' = within
        /\ remote' = remote /\ handlers' = handlers
    BY <1>11 DEF SuspendUntil
  <2>2. \/ dispatching # "loop" /\ dispatching' # "loop" /\ ready' = ready
        \/ /\ dispatching = "notify" /\ dispatching' = "loop"
           /\ ready' = IF mainAt = "cnd" THEN Append(ready, "main") ELSE ready
    BY <1>11 DEF SuspendUntil
  <2>3. ready = <<>> /\ Lacks(ready, "main") /\ ~HoldsOnce(ready, "main")
        /\ Lacks(ready, "dispatcher")
    BY <2>2, OneElement DEF ContextsInv
  <2>4. \/ Lacks(remote, "main") /\ (within = "mutex" \/ (within = "none" /\ mainAt = "cnd"))
        \/ HoldsOnce(remote, "main") /\ within = "woken"
    BY <2>1, <2>3 DEF ContextsInv, MainIsSomewhere
  <2>5. within # "none" => mainAt \in {"poll", "run"}
    BY DEF ContextsInv
  <2>6. \/ ready' = <<>> /\ (dispatching' # "loop" \/ mainAt # "cnd")
        \/ ready' = <<"main">> /\ mainAt = "cnd" /\ dispatching' = "loop"
    BY <2>2, <2>3
  <2>7. HoldsOnce(<<"main">>, "main") /\ Lacks(<<"main">>, "dispatcher")
    BY OneElement
  <2>8. ready' \in Seq(Contexts) /\ Lacks(ready', "dispatcher")
    <3>1. CASE ready' = <<>>
      BY <2>3, <3>1
    <3>2. CASE ready' = <<"main">>
      <4>1. <<"main">> \in Seq(Contexts)
        OBVIOUS
      <4>2. QED
        BY <2>7, <3>2, <4>1
    <3>3. QED
      BY <2>6, <3>1, <3>2
  <2>9. MainIsSomewhere'
    BY <2>1, <2>3, <2>4, <2>5, <2>6, <2>7 DEF MainIsSomewhere
  <2>10. ~(mainAt = "run" /\ within = "yield")
    BY <2>4
  <2>11. dispatching' # "loop" => ready' = <<>>
    BY <2>2, <2>3
  <2>12. QED
    BY <1>1, <2>1, <2>5, <2>8, <2>9, <2>10, <2>11 DEF ContextsInv
<1>12. ASSUME NEW f \in Fibers, FiberSuspends(f)
       PROVE  ContextsInv'
  <2>1. /\ active = f /\ f # "main" /\ f # "dispatcher"
        /\ active' = Head(ready) /\ ready' = Tail(ready)
        /\ mainAt' = mainAt /\ within' = within /\ remote' = remote
        /\ handlers' = handlers /\ dispatching' = dispatching
    BY <1>1, <1>12 DEF FiberSuspends, Suspend, ioVars, elsewhere
  <2>2. /\ Head(ready) \in Contexts /\ Tail(ready) \in Seq(Contexts)
        /\ Head(ready) = "dispatcher" => Lacks(Tail(ready), "dispatcher")
        /\ Head(ready) # "dispatcher" => HoldsOnce(Tail(ready), "dispatcher")
        /\ Lacks(ready, "main") => Head(ready) # "main" /\ Lacks(Tail(ready), "main")
        /\ HoldsOnce(ready, "main") /\ Head(ready) = "main" => Lacks(Tail(ready), "main")
        /\ HoldsOnce(ready, "main") /\ Head(ready) # "main" => HoldsOnce(Tail(ready), "main")
    BY <1>1, <1>3, <2>1, TailOnce
  <2>3. \/ HoldsOnce(ready, "main") /\ Lacks(remote, "main") /\ within \in {"yield", "woken"}
        \/ Lacks(ready, "main") /\ HoldsOnce(remote, "main") /\ within = "woken"
        \/ /\ Lacks(ready, "main") /\ Lacks(remote, "main")
           /\ within = "mutex" \/ (within = "none" /\ mainAt = "cnd")
    BY <2>1 DEF ContextsInv, MainIsSomewhere
  <2>4. MainIsSomewhere'
    BY <2>1, <2>2, <2>3 DEF MainIsSomewhere
  <2>5. /\ within # "none" => mainAt \in {"poll", "run"}
        /\ ~(mainAt = "run" /\ within = "yield")
    BY <2>1 DEF ContextsInv
  <2>6. active' = "main" => within # "none"
    BY <2>1, <2>2, <2>3
  <2>7. QED
    BY <1>1, <1>3, <2>1, <2>2, <2>4, <2>5, <2>6 DEF ContextsInv
<1>13. ASSUME NEW t \in Threads, NEW c \in Fibers \cup {"main"}, WakeRemotely(t, c)
       PROVE  ContextsInv'
  <2>1. /\ remote' = Append(remote, c)
        /\ \/ c = "main" /\ within = "mutex" /\ within' = "woken"
           \/ c \in Fibers /\ within' = within
        /\ ready' = ready /\ active' = active /\ mainAt' = mainAt
        /\ dispatching' = dispatching /\ handlers' = handlers
    BY <1>13 DEF WakeRemotely, ioVars
  <2>2. /\ remote' \in Seq(Fibers \cup {"main"})
        /\ Lacks(remote, "main") /\ c # "main" => Lacks(remote', "main")
        /\ HoldsOnce(remote, "main") /\ c # "main" => HoldsOnce(remote', "main")
        /\ Lacks(remote, "main") /\ c = "main" => HoldsOnce(remote', "main")
    BY <1>1, <2>1, AppendOnce
  <2>3. CASE c = "main" /\ within = "mutex" /\ within' = "woken"
    <3>1. active # "main" /\ Lacks(ready, "main") /\ Lacks(remote, "main")
      BY <2>3 DEF ContextsInv, MainIsSomewhere
    <3>2. MainIsSomewhere'
      BY <2>1, <2>2, <2>3, <3>1 DEF MainIsSomewhere
    <3>3. within # "none" => mainAt \in {"poll", "run"}
      BY DEF ContextsInv
    <3>4. QED
      BY <1>1, <1>3, <2>1, <2>2, <2>3, <3>2, <3>3 DEF ContextsInv
  <2>4. CASE c \in Fibers /\ within' = within
    <3>1. c # "main"
      BY <1>1, <2>4
    <3>2. MainIsSomewhere'
      BY <2>1, <2>2, <2>4, <3>1 DEF ContextsInv, MainIsSomewhere
    <3>3. QED
      BY <1>1, <2>1, <2>2, <2>4, <3>2 DEF ContextsInv
  <2>5. QED
    BY <2>1, <2>3, <2>4
<1>14. ASSUME /\ ready' = ready /\ active' = active /\ mainAt' = mainAt /\ within' = within
              /\ remote' = remote /\ dispatching' = dispatching
              /\ handlers' = handlers \/ \E f \in Fibers : handlers' = handlers \cup {f}
       PROVE  ContextsInv'
  BY <1>1, <1>14 DEF ContextsInv, MainIsSomewhere
<1>15. ASSUME EnqueueHandler \/ TimerFires \/ TimePasses \/ UNCHANGED fiberVars
       PROVE  ContextsInv'
  BY <1>14, <1>15 DEF EnqueueHandler, TimerFires, TimePasses, fiberVars, ioVars, elsewhere
<1>16. ASSUME NEW t \in Threads, Notify(t)
       PROVE  ContextsInv'
  BY <1>14, <1>16 DEF Notify
<1>17. QED
  BY <1>5, <1>6, <1>7, <1>8, <1>9, <1>10, <1>11, <1>12, <1>13, <1>15, <1>16 DEF FiberNext

(* What asio does with the waits of the timer.                             *)
LEMMA CallOffFacts ==
  ASSUME TimesInv, CallOff
  PROVE  /\ yields' \in Nat /\ yields' >= yields
         /\ timer' \in [expiry : Nat, pending : BOOLEAN, armed : SUBSET Nat, waits : Nat]
         /\ timer'.armed = {} <=> timer'.waits = 0
         /\ \A t, u \in timer'.armed : t = u
         /\ timer.armed # {} => timer'.armed # {} \/ yields' > 0
<1>1. /\ timer \in [expiry : Nat, pending : BOOLEAN, armed : SUBSET Nat, waits : Nat]
      /\ yields \in Nat /\ (timer.armed = {} <=> timer.waits = 0)
      /\ \A t, u \in timer.armed : t = u
  BY DEF TimesInv
<1>2. CASE timer.pending
  <2>1. timer' = [timer EXCEPT !.pending = FALSE, !.armed = {}, !.waits = 0]
        /\ yields' = yields + timer.waits
    BY <1>2 DEF CallOff
  <2>2. timer'.armed = {} /\ timer'.waits = 0 /\ timer.waits \in Nat
    BY <1>1, <2>1
  <2>3. timer' \in [expiry : Nat, pending : BOOLEAN, armed : SUBSET Nat, waits : Nat]
    BY <1>1, <2>1
  <2>4. yields' \in Nat /\ yields' >= yields /\ (timer.armed # {} => yields' > 0)
    BY <1>1, <2>1, <2>2
  <2>5. QED
    BY <2>2, <2>3, <2>4
<1>3. CASE ~timer.pending
  BY <1>1, <1>3 DEF CallOff
<1>4. QED
  BY <1>2, <1>3

(* A wait joins those that are pending, or is the first.                   *)
LEMMA AsyncWaitFacts ==
  ASSUME TimesInv, timer' = AsyncWait
  PROVE  /\ timer' \in [expiry : Nat, pending : BOOLEAN, armed : SUBSET Nat, waits : Nat]
         /\ timer'.armed = {} <=> timer'.waits = 0
         /\ \A t, u \in timer'.armed : t = u
         /\ timer'.armed = IF timer.armed = {} THEN {timer.expiry} ELSE timer.armed
         /\ timer'.expiry = timer.expiry /\ timer'.armed # {}
<1>1. /\ timer \in [expiry : Nat, pending : BOOLEAN, armed : SUBSET Nat, waits : Nat]
      /\ \A t, u \in timer.armed : t = u
  BY DEF TimesInv
<1> DEFINE first == IF timer.armed = {} THEN {timer.expiry} ELSE timer.armed
<1>2. timer' = [timer EXCEPT !.armed = first, !.waits = timer.waits + 1]
  BY <1>1 DEF AsyncWait
<1>3. first \in SUBSET Nat /\ first # {} /\ \A t, u \in first : t = u
  BY <1>1
<1>4. first = IF timer.armed = {} THEN {timer.expiry} ELSE timer.armed
  OBVIOUS
<1> HIDE DEF first
<1>5. timer'.armed = first /\ timer'.waits = timer.waits + 1 /\ timer'.expiry = timer.expiry
  BY <1>1, <1>2
<1>6. timer.waits + 1 \in Nat /\ timer.waits + 1 # 0
  BY <1>1
<1>7. timer' \in [expiry : Nat, pending : BOOLEAN, armed : SUBSET Nat, waits : Nat]
  BY <1>1, <1>2, <1>3, <1>6
<1>8. QED
  BY <1>3, <1>4, <1>5, <1>6, <1>7

(* Times, deadlines and the waits of the timer stay what they are.         *)
LEMMA TimesStep ==
  ASSUME FiberAssumption, TimesInv, [FiberNext]_fiberVars
  PROVE  TimesInv'
<1>1. /\ now \in Nat /\ deadline \in [Fibers -> Nat] /\ yields \in Nat
      /\ fiberAt \in [Fibers -> {"none", "ready", "op", "mutex", "remote", "asleep"}]
      /\ threadAt \in [Threads -> {"idle", "pending", "wait", "cancel", "expiry"}]
      /\ timer \in [expiry : Nat, pending : BOOLEAN, armed : SUBSET Nat, waits : Nat]
      /\ Nap \in Nat
  BY DEF TimesInv, FiberAssumption
<1>2. ASSUME /\ timer' = timer /\ now' = now /\ threadAt' = threadAt
             /\ yields' \in Nat /\ deadline' \in [Fibers -> Nat]
             /\ fiberAt' \in [Fibers -> {"none", "ready", "op", "mutex", "remote", "asleep"}]
      PROVE  TimesInv'
  BY <1>2 DEF TimesInv
<1>3. ASSUME ServiceLoop \/ PollEnds \/ Notified \/ HandlerGoesOn \/ EnqueueHandler
             \/ UNCHANGED fiberVars
      PROVE  TimesInv'
  BY <1>1, <1>2, <1>3 DEF ServiceLoop, PollEnds, Notified, HandlerGoesOn, EnqueueHandler,
                          fiberVars, elsewhere, ioVars
<1>4. ASSUME RunHandler
      PROVE  TimesInv'
  <2>1. timer' = timer /\ now' = now /\ threadAt' = threadAt /\ deadline' = deadline
    BY <1>4 DEF RunHandler, elsewhere
  <2>2. /\ fiberAt' = fiberAt \/ \E f \in handlers : fiberAt' = [fiberAt EXCEPT ![f] = "ready"]
        /\ yields' = yields \/ (yields > 0 /\ yields' = yields - 1)
    BY <1>4 DEF RunHandler
  <2>3. QED
    BY <1>1, <1>2, <2>1, <2>2
<1>5. ASSUME Dispatch
      PROVE  TimesInv'
  <2>1. timer' = timer /\ now' = now /\ threadAt' = threadAt /\ deadline' = deadline
        /\ yields' = yields
    BY <1>5 DEF Dispatch, timerVars, ioVars
  <2>2. fiberAt' = [f \in Fibers |-> IF f \in Due \cup ToSet(remote) THEN "ready" ELSE fiberAt[f]]
    BY <1>5 DEF Dispatch
  <2>3. QED
    BY <1>1, <1>2, <2>1, <2>2
<1>6. ASSUME SuspendUntil
      PROVE  TimesInv'
  <2>1. now' = now /\ threadAt' = threadAt /\ deadline' = deadline /\ fiberAt' = fiberAt
    BY <1>6 DEF SuspendUntil
  <2>2. CASE CallOff
    BY <1>1, <2>1, <2>2, CallOffFacts DEF TimesInv
  <2>3. CASE timer' = AsyncWait /\ yields' = yields
    BY <1>1, <2>1, <2>3, AsyncWaitFacts DEF TimesInv
  <2>4. CASE yields' = yields /\ \E f \in Asleep : timer' = [timer EXCEPT !.expiry = deadline[f]]
    BY <1>1, <2>1, <2>4 DEF TimesInv, Asleep
  <2>5. CASE yields' = yields /\ timer' = [timer EXCEPT !.pending = TRUE]
    BY <1>1, <2>1, <2>5 DEF TimesInv
  <2>6. CASE yields' = yields /\ timer' = timer
    BY <1>1, <1>2, <2>1, <2>6
  <2>7. QED
    BY <1>6, <2>2, <2>3, <2>4, <2>5, <2>6 DEF SuspendUntil, timerVars
<1>7. ASSUME NEW f \in Fibers, FiberSuspends(f)
      PROVE  TimesInv'
  <2>1. timer' = timer /\ now' = now /\ threadAt' = threadAt /\ yields' = yields
    BY <1>7 DEF FiberSuspends, elsewhere, ioVars
  <2>2. /\ deadline' = deadline \/ deadline' = [deadline EXCEPT ![f] = now + Nap]
        /\ \E at \in {"asleep", "op", "mutex", "none"} : fiberAt' = [fiberAt EXCEPT ![f] = at]
    BY <1>7 DEF FiberSuspends
  <2>3. QED
    BY <1>1, <1>2, <2>1, <2>2
<1>8. ASSUME TimerFires
      PROVE  TimesInv'
  <2>1. /\ timer' = [timer EXCEPT !.armed = {}, !.waits = 0] /\ yields' = yields + timer.waits
        /\ now' = now /\ threadAt' = threadAt /\ deadline' = deadline /\ fiberAt' = fiberAt
    BY <1>8 DEF TimerFires
  <2>2. timer' \in [expiry : Nat, pending : BOOLEAN, armed : SUBSET Nat, waits : Nat]
        /\ timer'.armed = {} /\ timer'.waits = 0
    BY <1>1, <2>1
  <2>3. yields' \in Nat
    BY <1>1, <2>1
  <2>4. QED
    BY <1>1, <2>1, <2>2, <2>3 DEF TimesInv
<1>9. ASSUME TimePasses
      PROVE  TimesInv'
  BY <1>1, <1>9 DEF TimePasses, TimesInv, ioVars, timerVars
<1>10. ASSUME NEW t \in Threads, NEW c \in Fibers \cup {"main"}, WakeRemotely(t, c)
       PROVE  TimesInv'
  <2>1. /\ timer' = timer /\ now' = now /\ yields' = yields /\ deadline' = deadline
        /\ threadAt' = [threadAt EXCEPT ![t] = "pending"]
        /\ \/ fiberAt' = fiberAt
           \/ c \in Fibers /\ fiberAt' = [fiberAt EXCEPT ![c] = "remote"]
    BY <1>10 DEF WakeRemotely, ioVars, timerVars
  <2>2. QED
    BY <1>1, <2>1 DEF TimesInv
<1>11. ASSUME NEW t \in Threads, Notify(t)
       PROVE  TimesInv'
  <2>1. /\ now' = now /\ deadline' = deadline /\ fiberAt' = fiberAt
        /\ \E at \in {"wait", "cancel", "expiry", "idle"} : threadAt' = [threadAt EXCEPT ![t] = at]
    BY <1>11 DEF Notify
  <2>2. threadAt' \in [Threads -> {"idle", "pending", "wait", "cancel", "expiry"}]
    BY <1>1, <2>1
  <2>3. CASE CallOff
    BY <1>1, <2>1, <2>2, <2>3, CallOffFacts DEF TimesInv
  <2>4. CASE timer' = AsyncWait /\ yields' = yields
    BY <1>1, <2>1, <2>2, <2>4, AsyncWaitFacts DEF TimesInv
  <2>5. CASE yields' = yields /\ timer' = [timer EXCEPT !.expiry = now]
    BY <1>1, <2>1, <2>2, <2>5 DEF TimesInv
  <2>6. CASE yields' = yields /\ timer' = [timer EXCEPT !.pending = TRUE]
    BY <1>1, <2>1, <2>2, <2>6 DEF TimesInv
  <2>7. QED
    BY <1>11, <2>3, <2>4, <2>5, <2>6 DEF Notify
<1>12. QED
  BY <1>3, <1>4, <1>5, <1>6, <1>7, <1>8, <1>9, <1>10, <1>11 DEF FiberNext

(* Who wakes a fiber from another thread posts the work that fetches it.   *)
LEMMA RemoteStep ==
  ASSUME FiberAssumption, ContextsInv, TimesInv, RemoteInv, [FiberNext]_fiberVars
  PROVE  RemoteInv'
<1> DEFINE Alarm == \/ timer.armed # {} \/ yields > 0
                    \/ \E t \in Threads : threadAt[t] \in {"pending", "wait"}
           Seen == active # "main" /\ (active = "dispatcher" \/ Precedes(ready, "dispatcher", "main"))
<1>1. remote # <<>> => Alarm \/ Seen
  BY DEF RemoteInv
<1>2. Alarm' \/ Seen' \/ remote' = <<>> => RemoteInv'
  BY DEF RemoteInv
<1>3. ready \in Seq(Contexts) /\ "main" \in Contexts
  BY DEF ContextsInv, Contexts
<1>4. active # "dispatcher" => ready # <<>> /\ HoldsOnce(ready, "dispatcher")
  BY OneElement DEF ContextsInv
<1>5. yields \in Nat /\ timer.waits \in Nat /\ (timer.armed = {} <=> timer.waits = 0)
      /\ threadAt \in [Threads -> {"idle", "pending", "wait", "cancel", "expiry"}]
      /\ timer \in [expiry : Nat, pending : BOOLEAN, armed : SUBSET Nat, waits : Nat]
  BY DEF TimesInv
<1>6. ASSUME /\ ready' = ready /\ active' = active /\ remote' = remote
             /\ timer' = timer /\ yields' = yields /\ threadAt' = threadAt
      PROVE  RemoteInv'
  BY <1>6 DEF RemoteInv
<1>7. ASSUME active = "main", remote' = remote,
             timer' = timer, yields' = yields, threadAt' = threadAt
      PROVE  RemoteInv'
  BY <1>7 DEF RemoteInv
<1>8. ASSUME ServiceLoop \/ PollEnds \/ Notified \/ HandlerGoesOn
      PROVE  RemoteInv'
  BY <1>7, <1>8 DEF ServiceLoop, PollEnds, Notified, HandlerGoesOn, elsewhere, ioVars
<1>9. ASSUME RunHandler
      PROVE  RemoteInv'
  <2>1. active = "main" /\ remote' = remote /\ timer' = timer /\ threadAt' = threadAt
    BY <1>9 DEF RunHandler, elsewhere
  <2>2. CASE yields' = yields
    BY <1>7, <2>1, <2>2
  <2>3. CASE active' = Head(ready) /\ ready' = Append(Tail(ready), "main")
    <3>1. Lacks(ready, "main")
      BY <2>1 DEF ContextsInv, MainIsSomewhere
    <3>2. Tail(ready) \in Seq(Contexts) /\ Head(ready) # "main" /\ Lacks(Tail(ready), "main")
      BY <1>3, <1>4, <2>1, <3>1, TailOnce
    <3> DEFINE rest == Tail(ready)
    <3>3. rest \in Seq(Contexts) /\ Lacks(rest, "main")
      BY <3>2
    <3> HIDE DEF rest
    <3>4. Precedes(Append(rest, "main"), "dispatcher", "main")
      BY <1>3, <3>3, AppendOnce
    <3>5. Seen'
      BY <2>3, <3>2, <3>4 DEF rest
    <3>6. QED
      BY <1>2, <3>5
  <2>4. QED
    BY <1>9, <2>2, <2>3 DEF RunHandler
<1>10. ASSUME Dispatch
       PROVE  RemoteInv'
  BY <1>2, <1>10 DEF Dispatch
<1>11. ASSUME SuspendUntil
       PROVE  RemoteInv'
  <2>1. Seen'
    BY <1>11 DEF SuspendUntil
  <2>2. QED
    BY <1>2, <2>1
<1>12. ASSUME NEW f \in Fibers, FiberSuspends(f)
       PROVE  RemoteInv'
  <2>1. /\ active = f /\ f # "dispatcher" /\ active' = Head(ready) /\ ready' = Tail(ready)
        /\ remote' = remote /\ timer' = timer /\ yields' = yields /\ threadAt' = threadAt
    BY <1>12 DEF FiberSuspends, Suspend, elsewhere, ioVars, FiberAssumption
  <2>2. CASE remote = <<>> \/ Alarm
    BY <2>1, <2>2 DEF RemoteInv
  <2>3. CASE Seen
    <3>1. Precedes(ready, "dispatcher", "main") /\ HoldsOnce(ready, "dispatcher")
      BY <1>4, <2>1, <2>3
    <3>2. Head(ready) # "main" /\ Precedes(Tail(ready), "dispatcher", "main")
      BY <1>3, <1>4, <2>1, <3>1, TailOnce
    <3>3. Seen'
      BY <2>1, <3>2
    <3>4. QED
      BY <1>2, <3>3
  <2>4. QED
    BY <1>1, <2>2, <2>3
<1>13. ASSUME EnqueueHandler \/ TimePasses \/ UNCHANGED fiberVars
       PROVE  RemoteInv'
  BY <1>6, <1>13 DEF EnqueueHandler, TimePasses, fiberVars, elsewhere, ioVars, timerVars
<1>14. ASSUME TimerFires
       PROVE  RemoteInv'
  <2>1. yields' = yields + timer.waits /\ timer.armed # {}
    BY <1>14 DEF TimerFires
  <2>2. Alarm'
    BY <1>5, <2>1
  <2>3. QED
    BY <1>2, <2>2
<1>15. ASSUME NEW t \in Threads, NEW c \in Fibers \cup {"main"}, WakeRemotely(t, c)
       PROVE  RemoteInv'
  <2>1. threadAt'[t] = "pending"
    BY <1>5, <1>15 DEF WakeRemotely
  <2>2. QED
    BY <1>2, <2>1
<1>16. ASSUME NEW t \in Threads, Notify(t)
       PROVE  RemoteInv'
  <2>1. ready' = ready /\ active' = active /\ remote' = remote
    BY <1>16 DEF Notify
  <2>2. CASE threadAt[t] = "pending" /\ threadAt' = [threadAt EXCEPT ![t] = "wait"]
    BY <1>2, <1>5, <2>2
  <2>3. CASE timer' = AsyncWait
    BY <1>2, <2>3, AsyncWaitFacts
  <2>4. CASE threadAt[t] = "cancel" /\ threadAt' = [threadAt EXCEPT ![t] = "expiry"] /\ CallOff
    <3>1. yields' \in Nat /\ yields' >= yields
          /\ (timer.armed # {} => timer'.armed # {} \/ yields' > 0)
      BY <2>4, CallOffFacts
    <3>2. \A u \in Threads : threadAt[u] \in {"pending", "wait"} => threadAt'[u] = threadAt[u]
      BY <1>5, <2>4
    <3>3. Alarm => Alarm'
      BY <1>5, <3>1, <3>2
    <3>4. QED
      BY <1>1, <1>2, <2>1, <3>3
  <2>5. CASE /\ threadAt[t] = "expiry" /\ threadAt' = [threadAt EXCEPT ![t] = "idle"]
             /\ timer' = [timer EXCEPT !.expiry = now] /\ yields' = yields
    <3>1. timer'.armed = timer.armed
      BY <1>5, <2>5
    <3>2. \A u \in Threads : threadAt[u] \in {"pending", "wait"} => threadAt'[u] = threadAt[u]
      BY <1>5, <2>5
    <3>3. Alarm => Alarm'
      BY <2>5, <3>1, <3>2
    <3>4. QED
      BY <1>1, <1>2, <2>1, <3>3
  <2>6. QED
    BY <1>16, <2>2, <2>3, <2>4, <2>5 DEF Notify
<1>17. QED
  BY <1>8, <1>9, <1>10, <1>11, <1>12, <1>13, <1>14, <1>15, <1>16 DEF FiberNext

(* Sequences that hold one element only.                                   *)
LEMMA OnlyOne ==
  ASSUME NEW S, NEW q \in Seq(S), NEW t \in Seq(S), q # <<>>
  PROVE  q \o t # <<>> /\ \A c : q \o t = <<c>> => q = <<c>> /\ t = <<>>
<1> DEFINE u == q \o t
<1>1. /\ u \in Seq(S) /\ Len(u) = Len(q) + Len(t) /\ Len(q) \in Nat \ {0} /\ Len(t) \in Nat
      /\ \A i \in 1..Len(q) : u[i] = q[i]
  BY ConcatFacts, TailFacts
<1> HIDE DEF u
<1>2. u # <<>>
  BY <1>1
<1>3. ASSUME NEW c, u = <<c>>
      PROVE  q = <<c>> /\ t = <<>>
  <2>1. Len(u) = 1 /\ u[1] = c
    BY <1>3
  <2>2. Len(q) = 1 /\ Len(t) = 0
    BY <1>1, <2>1
  <2>3. q[1] = c
    BY <1>1, <2>1, <2>2
  <2>4. QED
    BY <2>2, <2>3
<1>4. QED
  BY <1>2, <1>3 DEF u

(* A sequence with no rest has one element.                                *)
LEMMA TailEmpty ==
  ASSUME NEW S, NEW q \in Seq(S), q # <<>>, Tail(q) = <<>>
  PROVE  q = <<Head(q)>>
<1>1. Len(q) \in Nat \ {0} /\ Len(Tail(q)) = Len(q) - 1 /\ Head(q) = q[1]
  BY TailFacts
<1>2. Len(Tail(q)) = 0
  <2>1. \A t : t = <<>> => Len(t) = 0
    OBVIOUS
  <2>2. QED
    BY <2>1
<1>3. Len(q) = 1
  BY <1>1, <1>2
<1>4. QED
  BY <1>1, <1>3

(* While neither notify() nor a blocked main has come between, suspend_until() *)
(* leaves the timer set for the first sleeper, until it fires.             *)
LEMMA TimerStep ==
  ASSUME FiberAssumption, ContextsInv, TimesInv, TimerInv, [FiberNext]_fiberVars
  PROVE  TimerInv'
<1>1. /\ now \in Nat /\ deadline \in [Fibers -> Nat] /\ yields \in Nat
      /\ fiberAt \in [Fibers -> {"none", "ready", "op", "mutex", "remote", "asleep"}]
      /\ threadAt \in [Threads -> {"idle", "pending", "wait", "cancel", "expiry"}]
      /\ timer \in [expiry : Nat, pending : BOOLEAN, armed : SUBSET Nat, waits : Nat]
      /\ (timer.armed = {} <=> timer.waits = 0) /\ \A t, u \in timer.armed : t = u
  BY DEF TimesInv
<1>2. /\ ready \in Seq(Contexts) /\ remote \in Seq(Contexts) /\ "main" \notin Fibers
      /\ "dispatcher" \notin Fibers /\ "main" \in Contexts /\ handlers \subseteq Fibers
      /\ IsFiniteSet(Fibers) /\ Fibers \subseteq Contexts
  BY DEF ContextsInv, Contexts, FiberAssumption
<1>3. /\ active # "dispatcher" =>
           ready # <<>> /\ HoldsOnce(ready, "dispatcher") /\ dispatching = "loop"
      /\ within # "none" => mainAt \in {"poll", "run"}
      /\ active = "main" => Lacks(ready, "main") /\ within # "mutex"
  BY OneElement DEF ContextsInv, MainIsSomewhere
<1> DEFINE Idlers == \A t \in Threads : threadAt[t] \in {"idle", "pending"}
           Turning == /\ active = "dispatcher"
                      /\ \/ dispatching = "notify"
                         \/ /\ dispatching = "loop" /\ ~Lacks(ready, "main")
                            /\ mainAt = "cnd" \/ (mainAt = "run" /\ within = "yield")
           Resting == /\ active = "main" /\ ready = <<"dispatcher">>
                      /\ mainAt \in {"cnd", "loop"} \/ (mainAt = "run" /\ within \in {"none", "yield"})
           Setting == /\ dispatching \in {"expiry", "pending", "wait"} => timer.armed = {}
                      /\ dispatching \in {"pending", "wait"} =>
                            \E g \in Asleep : timer.expiry = deadline[g]
                                              /\ \A f \in Asleep : deadline[g] <= deadline[f]
           Fired == Covered \/ (yields > 0 /\ Due # {})
<1>4. lapses = {} => /\ Idlers /\ Setting
                     /\ Turning => Covered \/ Due # {}
                     /\ Resting => Fired
  BY DEF TimerInv
<1>5. ASSUME lapses' = {} => Idlers' /\ Setting' /\ (Turning' => Covered' \/ Due' # {})
                             /\ (Resting' => Fired')
      PROVE  TimerInv'
  BY <1>5 DEF TimerInv
<1> DEFINE Same == /\ fiberAt' = fiberAt /\ deadline' = deadline /\ timer' = timer /\ now' = now
<1>6. ASSUME Same
      PROVE  (Covered' <=> Covered) /\ Due' = Due /\ Asleep' = Asleep
  BY <1>6 DEF Covered, Due, Asleep
<1>7. ASSUME lapses' = lapses, threadAt' = threadAt, dispatching' = "loop",
             ~Turning', ~Resting'
      PROVE  TimerInv'
  BY <1>4, <1>5, <1>7
<1>8. ASSUME ServiceLoop \/ Notified
      PROVE  TimerInv'
  <2>1. /\ active = "main" /\ active' = active /\ ready' = ready /\ within' = within
        /\ mainAt \in {"loop", "cnd"} /\ mainAt' \in {"poll", "run", "loop"}
        /\ dispatching' = dispatching /\ threadAt' = threadAt /\ lapses' = lapses
        /\ yields' = yields /\ Same
    BY <1>8 DEF ServiceLoop, Notified, elsewhere, ioVars
  <2>2. dispatching = "loop" /\ ~Turning' /\ (Resting' => Resting)
    BY <1>3, <2>1
  <2>3. Setting' /\ (Fired => Fired')
    BY <1>6, <2>1, <2>2
  <2>4. QED
    BY <1>4, <1>5, <2>1, <2>2, <2>3
<1>9. ASSUME PollEnds
      PROVE  TimerInv'
  <2>1. /\ active = "main" /\ active' = Head(ready) /\ ready' = Tail(ready)
        /\ dispatching' = dispatching /\ threadAt' = threadAt /\ lapses' = lapses
    BY <1>9 DEF PollEnds, Suspend, elsewhere, ioVars
  <2>2. active' # "main" /\ Lacks(ready', "main") /\ dispatching' = "loop"
    BY <1>2, <1>3, <2>1, TailOnce
  <2>3. QED
    BY <1>7, <2>1, <2>2
<1>10. ASSUME RunHandler
       PROVE  TimerInv'
  <2>1. /\ active = "main" /\ mainAt \in {"poll", "run"} /\ within = "none"
        /\ remote' = remote /\ threadAt' = threadAt /\ dispatching' = dispatching
        /\ timer' = timer /\ now' = now /\ lapses' = lapses /\ deadline' = deadline
        /\ dispatching = "loop"
    BY <1>3, <1>10 DEF RunHandler, elsewhere
  <2>2. CASE active' = active /\ \E f \in handlers : ready' = Append(ready, f)
    <3>1. PICK f \in handlers : ready' = Append(ready, f)
      BY <2>2
    <3>2. f \in Contexts
      BY <1>2
    <3>3. Len(ready') = Len(ready) + 1 /\ Len(ready) \in Nat \ {0}
      BY <1>2, <1>3, <2>1, <3>1, <3>2, AppendFacts, TailFacts
    <3>4. ready' # <<"dispatcher">>
      BY <3>3, SMTT(30)
    <3>5. QED
      BY <1>7, <2>1, <2>2, <3>4
  <2>3. CASE /\ within' = "yield" /\ active' = Head(ready) /\ mainAt' = mainAt
             /\ fiberAt' = fiberAt
    <3>1. active' # "main"
      BY <1>2, <1>3, <2>1, <2>3, TailOnce
    <3>2. Turning' => mainAt = "run"
      BY <2>1, <2>3
    <3>3. mainAt = "run" => ready = <<"dispatcher">>
      BY <2>1 DEF ContextsInv
    <3>4. Turning' => Resting
      BY <2>1, <3>2, <3>3
    <3>5. lapses = {} /\ Turning' => Covered' \/ Due' # {}
      BY <1>4, <1>6, <2>1, <2>3, <3>4
    <3>6. Setting'
      BY <2>1
    <3>7. QED
      BY <1>4, <1>5, <2>1, <3>1, <3>5, <3>6
  <2>4. CASE active' = Head(ready) /\ ready' = Tail(ready)
    <3>1. active' # "main" /\ Lacks(ready', "main")
      BY <1>2, <1>3, <2>1, <2>4, TailOnce
    <3>2. QED
      BY <1>7, <2>1, <3>1
  <2>5. QED
    BY <1>10, <2>2, <2>3, <2>4 DEF RunHandler, Suspend
<1>11. ASSUME HandlerGoesOn
       PROVE  TimerInv'
  <2>1. /\ active = "main" /\ active' = active /\ ready' = ready
        /\ within # "none" /\ within' = "none"
        /\ mainAt' = (IF mainAt = "run" THEN "loop" ELSE "poll")
        /\ lapses' = (IF within = "woken" THEN lapses \cup {"main"} ELSE lapses)
        /\ dispatching' = dispatching /\ threadAt' = threadAt /\ yields' = yields /\ Same
    BY <1>11 DEF HandlerGoesOn, HandlerReturns, ioVars
  <2>2. lapses' = {} => lapses = {} /\ within # "woken"
    BY <2>1
  <2>3. within \in {"yield", "woken"}
    BY <1>3, <2>1 DEF ContextsInv
  <2>4. dispatching = "loop" /\ ~Turning' /\ Setting'
    BY <1>3, <2>1
  <2>5. Resting' /\ lapses' = {} => Resting
    BY <2>1, <2>2, <2>3
  <2>6. Fired => Fired'
    BY <1>6, <2>1
  <2>7. QED
    BY <1>4, <1>5, <2>1, <2>2, <2>4, <2>5, <2>6
<1>12. ASSUME Dispatch
       PROVE  TimerInv'
  <2>1. /\ active = "dispatcher" /\ dispatching = "loop" /\ remote' = <<>>
        /\ mainAt' = mainAt /\ within' = within /\ threadAt' = threadAt
        /\ lapses' = lapses /\ timer' = timer /\ yields' = yields /\ now' = now
        /\ deadline' = deadline
    BY <1>12 DEF Dispatch, ioVars, timerVars
  <2>2. PICK due \in SetToSeqs(Due) :
          LET line == ready \o remote \o due
          IN /\ fiberAt' = [f \in Fibers |-> IF f \in Due \cup ToSet(remote)
                                             THEN "ready" ELSE fiberAt[f]]
             /\ IF line # <<>>
                THEN /\ active' = Head(line) /\ ready' = Append(Tail(line), "dispatcher")
                     /\ dispatching' = dispatching
                ELSE /\ dispatching' = IF Asleep = {} THEN "notify" ELSE "cancel"
                     /\ active' = active /\ ready' = ready
    BY <1>12 DEF Dispatch
  <2>3. due \in Seq(Fibers) /\ (due = <<>> => Due = {})
    <3>1. IsFiniteSet(Due) /\ Due \subseteq Fibers
      BY <1>2, FS_Subset DEF Due, Asleep
    <3>2. Cardinality(Due) \in Nat
      BY <3>1, FS_CardinalityType
    <3>3. due \in [1..Cardinality(Due) -> Due]
      BY <2>2 DEF SetToSeqs
    <3>4. Len(due) = Cardinality(Due)
      BY <3>2, <3>3
    <3>5. due = <<>> => Cardinality(Due) = 0
      BY <3>4
    <3>6. QED
      BY <3>1, <3>2, <3>3, <3>5, FS_EmptySet
  <2>4. due \in Seq(Contexts) /\ Lacks(due, "dispatcher") /\ Lacks(remote, "dispatcher")
        /\ Lacks(due, "main") /\ Lacks(ready, "dispatcher")
    BY <1>2, <2>1, <2>3 DEF Lacks, ContextsInv, Contexts
  <2> DEFINE wakened == ready \o remote
             line == wakened \o due
  <2>5. IF line # <<>>
        THEN /\ active' = Head(line) /\ ready' = Append(Tail(line), "dispatcher")
             /\ dispatching' = dispatching
        ELSE /\ dispatching' = IF Asleep = {} THEN "notify" ELSE "cancel"
             /\ active' = active /\ ready' = ready
    BY <2>2
  <2>6. Asleep' \subseteq Asleep
    BY <1>1, <2>2 DEF Asleep
  <2>7. wakened \in Seq(Contexts) /\ Lacks(wakened, "dispatcher")
        /\ (Lacks(ready, "main") /\ Lacks(remote, "main") => Lacks(wakened, "main"))
    BY <1>2, <2>4, ConcatOnce
  <2>8. Len(wakened) = Len(ready) + Len(remote) /\ Len(ready) \in Nat /\ Len(remote) \in Nat
    BY <1>2, ConcatFacts
  <2>9. ready # <<>> => wakened # <<>> /\ \A c : wakened = <<c>> => ready = <<c>> /\ remote = <<>>
    BY <1>2, <2>8, OnlyOne
  <2> HIDE DEF wakened
  <2>10. ready # <<>> /\ line = <<"main">> => ready = <<"main">> /\ remote = <<>> /\ due = <<>>
    BY <2>4, <2>7, <2>9, OnlyOne
  <2>11. line \in Seq(Contexts) /\ Lacks(line, "dispatcher")
         /\ (Lacks(wakened, "main") => Lacks(line, "main"))
    BY <2>4, <2>7, ConcatOnce
  <2> HIDE DEF line
  <2>12. CASE line = <<>>
    <3>1. dispatching' = (IF Asleep = {} THEN "notify" ELSE "cancel") /\ active' = "dispatcher"
      BY <2>1, <2>5, <2>12
    <3>2. Turning' => Asleep' = {}
      BY <2>6, <3>1
    <3>3. Turning' => Covered'
      BY <3>2 DEF Covered
    <3>4. Setting'
      BY <3>1
    <3>5. QED
      BY <1>4, <1>5, <2>1, <3>1, <3>3, <3>4
  <2>13. CASE line # <<>>
    <3>1. active' = Head(line) /\ ready' = Append(Tail(line), "dispatcher")
          /\ dispatching' = "loop"
      BY <2>1, <2>5, <2>13
    <3>2. /\ Head(line) \in Contexts /\ Tail(line) \in Seq(Contexts)
          /\ Head(line) # "dispatcher" /\ (Lacks(line, "main") => Head(line) # "main")
      BY <2>11, <2>13, TailOnce
    <3>3. ASSUME lapses = {}, Resting'
          PROVE  Covered'
      <4>1. Tail(line) = <<>>
        <5>1. Append(Tail(line), "dispatcher") = <<"dispatcher">>
          BY <3>1, <3>3
        <5> DEFINE rest == Tail(line)
        <5>2. rest \in Seq(Contexts) /\ Append(rest, "dispatcher") = <<"dispatcher">>
          BY <3>2, <5>1
        <5> HIDE DEF rest
        <5>3. Len(Append(rest, "dispatcher")) = Len(rest) + 1 /\ Len(rest) \in Nat
          BY <5>2
        <5>4. Len(rest) = 0
          BY <5>2, <5>3
        <5>5. rest = <<>>
          BY <5>2, <5>4
        <5>6. QED
          BY <5>5 DEF rest
      <4>2. Head(line) = "main"
        BY <3>1, <3>3
      <4>3. line = <<"main">>
        BY <2>11, <2>13, <4>1, <4>2, TailEmpty
      <4>4. ~(Lacks(ready, "main") /\ Lacks(remote, "main"))
        BY <2>7, <2>11, <3>2, <4>2
      <4>5. /\ mainAt # "loop" /\ within \notin {"woken", "mutex"}
            /\ within = "none" => mainAt = "cnd"
        <5>1. within = "none" => mainAt = "cnd"
          BY <2>1, <4>4 DEF ContextsInv, MainIsSomewhere
        <5>2. within # "none" => mainAt \in {"run"}
          BY <1>3, <2>1, <3>3
        <5>3. QED
          BY <2>1, <3>3, <5>1, <5>2
      <4>6. HoldsOnce(ready, "main")
        BY <2>1, <4>4, <4>5 DEF ContextsInv, MainIsSomewhere
      <4>7. ready # <<>>
        BY <4>6, OneElement
      <4>8. ready = <<"main">> /\ ~Lacks(ready, "main")
        BY <2>10, <4>3, <4>7, OneElement
      <4>9. remote = <<>> /\ due = <<>> /\ Due = {}
        BY <2>3, <2>10, <4>3, <4>7
      <4>10. Turning
        BY <2>1, <3>3, <4>5, <4>8
      <4>11. Covered
        BY <1>4, <3>3, <4>9, <4>10
      <4>12. fiberAt' = fiberAt
        <5>1. ToSet(remote) = {}
          BY <4>9 DEF ToSet
        <5>2. QED
          BY <1>1, <2>2, <4>9, <5>1
      <4>13. QED
        BY <1>6, <2>1, <4>11, <4>12
    <3>4. ~Turning' /\ Setting'
      BY <3>1, <3>2
    <3>5. QED
      BY <1>4, <1>5, <2>1, <3>3, <3>4
  <2>14. QED
    BY <2>12, <2>13
<1>13. ASSUME SuspendUntil
       PROVE  TimerInv'
  <2>1. /\ active = "dispatcher" /\ active' = active /\ mainAt' = mainAt /\ within' = within
        /\ fiberAt' = fiberAt /\ deadline' = deadline /\ threadAt' = threadAt /\ now' = now
    BY <1>13 DEF SuspendUntil
  <2>2. Asleep' = Asleep /\ Due' = Due /\ ~Resting'
    BY <2>1 DEF Asleep, Due
  <2>3. CASE /\ dispatching' = "expiry"
             /\ lapses' = IF timer'.armed = {} /\ \A t \in Threads : threadAt[t] = "idle"
                          THEN {} ELSE {"notify"}
    <3>1. lapses' = {} => timer'.armed = {} /\ Idlers'
      BY <2>1, <2>3
    <3>2. QED
      BY <1>5, <2>2, <2>3, <3>1
  <2>4. CASE /\ dispatching = "expiry" /\ dispatching' = "pending" /\ lapses' = lapses
             /\ \E f \in Asleep :
                   /\ \A g \in Asleep : deadline[f] <= deadline[g]
                   /\ timer' = [timer EXCEPT !.expiry = deadline[f]]
    <3>1. PICK f \in Asleep : /\ \A g \in Asleep : deadline[f] <= deadline[g]
                              /\ timer' = [timer EXCEPT !.expiry = deadline[f]]
      BY <2>4
    <3>2. timer'.expiry = deadline[f] /\ timer'.armed = timer.armed
      BY <1>1, <3>1
    <3>3. lapses = {} => Setting'
      BY <1>4, <2>1, <2>2, <2>4, <3>1, <3>2
    <3>4. ~Turning'
      BY <2>4
    <3>5. QED
      BY <1>4, <1>5, <2>1, <2>2, <2>4, <3>3, <3>4
  <2>5. CASE /\ dispatching = "pending" /\ dispatching' = "wait" /\ lapses' = lapses
             /\ timer' = [timer EXCEPT !.pending = TRUE]
    <3>1. timer'.expiry = timer.expiry /\ timer'.armed = timer.armed
      BY <1>1, <2>5
    <3>2. lapses = {} => Setting'
      BY <1>4, <2>1, <2>2, <2>5, <3>1
    <3>3. QED
      BY <1>4, <1>5, <2>1, <2>2, <2>5, <3>2
  <2>6. CASE /\ dispatching = "wait" /\ dispatching' = "notify" /\ lapses' = lapses
             /\ timer' = AsyncWait
    <3>1. timer'.armed = IF timer.armed = {} THEN {timer.expiry} ELSE timer.armed
      BY <2>6, AsyncWaitFacts
    <3>2. lapses = {} => Covered'
      BY <1>4, <2>1, <2>2, <2>6, <3>1 DEF Covered
    <3>3. QED
      BY <1>4, <1>5, <2>1, <2>2, <2>6, <3>2
  <2>7. CASE /\ dispatching = "notify" /\ dispatching' = "loop" /\ lapses' = lapses
             /\ timer' = timer
    <3>1. Turning /\ (Covered' <=> Covered)
      BY <1>6, <2>1, <2>7
    <3>2. QED
      BY <1>4, <1>5, <2>1, <2>2, <2>7, <3>1
  <2>8. QED
    BY <1>13, <2>3, <2>4, <2>5, <2>6, <2>7 DEF SuspendUntil, timerVars
<1>14. ASSUME NEW f \in Fibers, FiberSuspends(f)
       PROVE  TimerInv'
  <2>1. /\ active = f /\ f # "main" /\ f # "dispatcher"
        /\ active' = Head(ready) /\ ready' = Tail(ready)
        /\ mainAt' = mainAt /\ within' = within
        /\ dispatching' = dispatching /\ lapses' = lapses /\ threadAt' = threadAt
    BY <1>2, <1>14 DEF FiberSuspends, Suspend, ioVars, elsewhere
  <2>2. Lacks(ready, "main") => Head(ready) # "main" /\ Lacks(Tail(ready), "main")
    BY <1>2, <1>3, <2>1, TailOnce
  <2>3. ~Lacks(ready, "main") => within \in {"yield", "woken"}
    BY <2>1 DEF ContextsInv, MainIsSomewhere
  <2>4. ~(mainAt = "run" /\ within = "yield")
    BY <2>1 DEF ContextsInv
  <2>5. ~Turning' /\ ~Resting'
    BY <1>3, <2>1, <2>2, <2>3, <2>4
  <2>6. QED
    BY <1>3, <1>7, <2>1, <2>5
<1>15. ASSUME EnqueueHandler \/ UNCHANGED fiberVars
       PROVE  TimerInv'
  <2>1. /\ ready' = ready /\ active' = active /\ mainAt' = mainAt /\ within' = within
        /\ dispatching' = dispatching /\ lapses' = lapses /\ threadAt' = threadAt
        /\ yields' = yields /\ Same
    BY <1>15 DEF EnqueueHandler, fiberVars, elsewhere, ioVars
  <2>2. (Turning' <=> Turning) /\ (Resting' <=> Resting) /\ (Fired' <=> Fired)
    BY <1>6, <2>1
  <2>3. Setting => Setting'
    BY <1>6, <2>1
  <2>4. QED
    BY <1>4, <1>5, <1>6, <2>1, <2>2, <2>3
<1>16. ASSUME TimerFires
       PROVE  TimerInv'
  <2>1. /\ timer' = [timer EXCEPT !.armed = {}, !.waits = 0] /\ yields' = yields + timer.waits
        /\ ready' = ready /\ active' = active /\ mainAt' = mainAt /\ within' = within
        /\ dispatching' = dispatching /\ lapses' = lapses /\ threadAt' = threadAt
        /\ fiberAt' = fiberAt /\ deadline' = deadline /\ now' = now
        /\ \E t \in timer.armed : t <= now
    BY <1>16 DEF TimerFires
  <2>2. timer'.armed = {} /\ timer'.expiry = timer.expiry /\ yields' > 0
    BY <1>1, <2>1
  <2>3. Asleep' = Asleep /\ Due' = Due /\ (Turning' <=> Turning) /\ (Resting' <=> Resting)
    BY <2>1 DEF Asleep, Due
  <2>4. Covered => Covered' \/ Due # {}
    <3>1. CASE Asleep = {}
      BY <2>3, <3>1 DEF Covered
    <3>2. ASSUME NEW g \in Asleep, deadline[g] \in timer.armed
          PROVE  g \in Due
      BY <1>1, <2>1, <3>2 DEF Due
    <3>3. QED
      BY <3>1, <3>2 DEF Covered
  <2>5. Setting => Setting'
    BY <2>1, <2>2, <2>3
  <2>6. QED
    BY <1>4, <1>5, <2>1, <2>2, <2>3, <2>4, <2>5
<1>17. ASSUME TimePasses
       PROVE  TimerInv'
  <2>1. /\ now' = now + 1 /\ fiberAt' = fiberAt /\ deadline' = deadline /\ timer' = timer
        /\ ready' = ready /\ active' = active /\ mainAt' = mainAt /\ within' = within
        /\ dispatching' = dispatching /\ lapses' = lapses /\ threadAt' = threadAt
        /\ yields' = yields
    BY <1>17 DEF TimePasses, ioVars, timerVars
  <2>2. Asleep' = Asleep /\ (Covered' <=> Covered)
    BY <2>1 DEF Asleep, Covered
  <2>3. Due \subseteq Due'
    BY <1>1, <2>1, <2>2 DEF Due, Asleep
  <2>4. (Turning' <=> Turning) /\ (Resting' <=> Resting) /\ (Setting => Setting')
    BY <2>1, <2>2
  <2>5. QED
    BY <1>4, <1>5, <2>1, <2>2, <2>3, <2>4
<1>18. ASSUME NEW t \in Threads, NEW c \in Fibers \cup {"main"}, WakeRemotely(t, c)
       PROVE  TimerInv'
  <2>1. /\ threadAt' = [threadAt EXCEPT ![t] = "pending"]
        /\ \/ within = "mutex" /\ within' = "woken" /\ fiberAt' = fiberAt
           \/ /\ c \in Fibers /\ fiberAt[c] = "mutex"
              /\ fiberAt' = [fiberAt EXCEPT ![c] = "remote"] /\ within' = within
        /\ ready' = ready /\ active' = active /\ mainAt' = mainAt
        /\ dispatching' = dispatching /\ lapses' = lapses /\ deadline' = deadline
        /\ yields' = yields /\ timer' = timer /\ now' = now
    BY <1>18 DEF WakeRemotely, ioVars, timerVars
  <2>2. Asleep' = Asleep
    BY <1>1, <2>1 DEF Asleep
  <2>3. Due' = Due /\ (Covered' <=> Covered)
    BY <2>1, <2>2 DEF Due, Covered
  <2>4. Idlers => Idlers'
    BY <1>1, <2>1
  <2>5. (Turning' => Turning) /\ (Resting' => Resting) /\ (Setting => Setting')
    BY <1>3, <2>1, <2>2
  <2>6. QED
    BY <1>4, <1>5, <2>1, <2>3, <2>4, <2>5
<1>19. ASSUME NEW t \in Threads, Notify(t)
       PROVE  TimerInv'
  <2>1. lapses' # {}
    BY <1>19 DEF Notify
  <2>2. QED
    BY <1>5, <2>1
<1>20. QED
  BY <1>8, <1>9, <1>10, <1>11, <1>12, <1>13, <1>14, <1>15, <1>16, <1>17, <1>18, <1>19
     DEF FiberNext

FibersInv == ContextsInv /\ TimesInv /\ RemoteInv /\ TimerInv

(* The contexts, the threads and the timer are as described in every state.*)
LEMMA FibersAlways ==
  ASSUME FiberAssumption
  PROVE  FiberSpec => []FibersInv
<1>1. FiberInit => FibersInv
  <2> SUFFICES ASSUME FiberInit
               PROVE  FibersInv
    OBVIOUS
  <2> USE DEF FiberInit
  <2>1. ready = <<"dispatcher">> /\ <<"dispatcher">> \in Seq(Contexts)
        /\ <<>> \in Seq(Fibers \cup {"main"})
    BY DEF Contexts
  <2>2. HoldsOnce(ready, "dispatcher") /\ Lacks(ready, "main") /\ Lacks(remote, "main")
    BY <2>1, OneElement
  <2>3. ContextsInv
    BY <2>1, <2>2 DEF ContextsInv, MainIsSomewhere, Contexts
  <2>4. TimesInv
    BY DEF TimesInv
  <2>5. Asleep = {}
    BY DEF Asleep
  <2>6. RemoteInv /\ TimerInv
    BY <2>5 DEF RemoteInv, TimerInv, Covered
  <2>7. QED
    BY <2>3, <2>4, <2>6 DEF FibersInv
<1>2. FibersInv /\ [FiberNext]_fiberVars => FibersInv'
  BY ContextsStep, TimesStep, RemoteStep, TimerStep DEF FibersInv
<1>3. QED
  BY <1>1, <1>2, PTL DEF FiberSpec

(* For all fibers, threads and times: while the thread of the fibers       *)
(* sleeps, no fiber is ready, and if another thread has readied one, a     *)
(* notify() is under way or a timer is armed, for whatever time; and the   *)
(* timer is set for every fiber that sleeps, unless notify() has used it   *)
(* when it was found without its context, or main has blocked in a handler *)
(* (round_robin.hpp:81-182).                                               *)
THEOREM SleepHasAnEnd ==
  ASSUME FiberAssumption
  PROVE  FiberSpec => [](WakeupsArrive /\ SleepersAreTimed)
<1>1. FibersInv => WakeupsArrive /\ SleepersAreTimed
  <2> SUFFICES ASSUME FibersInv, Idle
               PROVE  /\ ready = <<"dispatcher">>
                      /\ remote # <<>> => \/ timer.armed # {}
                                          \/ \E t \in Threads : threadAt[t] \in {"pending", "wait", "cancel"}
                      /\ \A f \in Asleep : (\E t \in timer.armed : t <= deadline[f]) \/ lapses # {}
    BY DEF WakeupsArrive, SleepersAreTimed
  <2>1. active = "main" /\ mainAt = "run" /\ within = "none" /\ yields = 0
    BY DEF Idle
  <2>2. ready = <<"dispatcher">>
    BY <2>1 DEF FibersInv, ContextsInv
  <2>3. remote # <<>> => timer.armed # {} \/ \E t \in Threads : threadAt[t] \in {"pending", "wait"}
    BY <2>1 DEF FibersInv, RemoteInv
  <2>4. lapses = {} => Covered
    BY <2>1, <2>2 DEF FibersInv, TimerInv
  <2>5. QED
    BY <2>2, <2>3, <2>4 DEF Covered
<1>2. QED
  BY <1>1, FibersAlways, PTL

-----------------------------------------------------------------------------
(* Sales                                                                   *)

Places == {"idle", "saleWait", "hasCards", "sleep", "queueWait", "generate", "clear",
           "stickerWait", "canClaim", "claim"}
Single(S) == S \subseteq Callers /\ \A f, g \in S : f = g

\* Who holds which mutex is told by where the fibers are.
SaleTypes ==
    /\ saleAt \in [Callers -> Places] /\ saleTrue \in [Callers -> SUBSET BOOLEAN]
    /\ saleResult \in BOOLEAN /\ queueResult \in BOOLEAN
LocksInv ==
    /\ \A f \in Callers : saleAt[f] \in {"generate", "clear"} <=> f \in queueLock
    /\ \A f \in Callers : saleAt[f] \in {"canClaim", "claim"} <=> f \in stickerLock
    /\ \A f \in Callers : saleAt[f] \in {"hasCards", "sleep"} => f \in saleLock
    /\ \A f \in saleLock : saleAt[f] \in {"hasCards", "sleep", "queueWait", "generate", "clear"}
    /\ Single(saleLock) /\ Single(queueLock) /\ Single(stickerLock)
FreshResults ==
    \A f \in Callers :
        /\ saleAt[f] = "saleWait" /\ saleLock = {} => saleResult \in saleTrue[f]
        /\ saleAt[f] = "queueWait" /\ queueLock = {} => queueResult \in saleTrue[f]
SalesInv == SaleTypes /\ LocksInv /\ FreshResults

(* What comes of asking for the page of the sale queue.                    *)
PageStates == {"Error", "exception", "NoCards", "HasCards"}

(* The steps of the sale queue, the discovery queue and the stickers, one  *)
(* disjunct for each.                                                      *)
LEMMA SaleCases ==
  ASSUME [SaleNext]_saleVars
  PROVE  \/ UNCHANGED saleVars
         \/ \E f \in Callers : \/ CallSale(f) \/ SaleWaitOver(f) \/ SaleSlept(f) \/ CallQueue(f)
                               \/ QueueWaitOver(f) \/ CallSticker(f) \/ StickerWaitOver(f)
                               \/ Consume(f)
                               \/ \E state \in PageStates : PageSeen(f, state)
                               \/ \E ok \in BOOLEAN : \/ \E n \in 0..QueueSize : Generated(f, ok, n)
                                                      \/ AppCleared(f, ok)
                               \/ \E reply \in {"can", "Ok", "AlreadyClaimed", "NoSale", "Error"} :
                                     ClaimAnswered(f, reply)
         \/ SaleQuit
BY DEF SaleNext, PageStates

(* The two ways on of performClear() of the sale queue: it returns or it sleeps. *)
LEMMA ErrorCases ==
  ASSUME NEW f \in Callers, NEW clears, SaleError(f, clears)
  PROVE  \/ SaleReturns(f, FALSE, clears)
         \/ GoTo(f, "sleep") /\ Ends(clears) /\ UNCHANGED <<saleLock, saleResult>>
BY DEF SaleError

(* What the result of the discovery queue leads to: an end of the clear of *)
(* the sale queue, if that is what called it, or nothing.                  *)
LEMMA ResultCases ==
  ASSUME NEW f \in Callers, NEW result \in BOOLEAN, NEW clears, QueueResultFor(f, result, clears)
  PROVE  \/ saleLock = {f} /\ SaleReturns(f, FALSE, clears)
         \/ saleLock = {f} /\ GoTo(f, "sleep") /\ Ends(clears) /\ UNCHANGED <<saleLock, saleResult>>
         \/ saleLock # {f} /\ GoTo(f, "idle") /\ Ends(clears) /\ UNCHANGED <<saleLock, saleResult>>
BY ErrorCases DEF QueueResultFor

(* What the page of the sale queue leads to.                               *)
LEMMA PageCases ==
  ASSUME NEW f \in Callers, NEW state \in PageStates, PageSeen(f, state)
  PROVE  /\ saleAt[f] = "hasCards" /\ UNCHANGED <<stickerLock, queueResult>>
         /\ \/ SaleReturns(f, FALSE, {}) /\ UNCHANGED queueLock
            \/ SaleReturns(f, TRUE, {}) /\ UNCHANGED queueLock
            \/ /\ GoTo(f, "sleep") /\ Ends({})
               /\ UNCHANGED <<saleLock, saleResult, queueLock>>
            \/ /\ queueLock = {} /\ queueLock' = {f} /\ GoTo(f, "generate")
               /\ saleTrue' = [saleTrue EXCEPT ![f] = {}] /\ UNCHANGED <<saleLock, saleResult>>
            \/ /\ queueLock # {} /\ GoTo(f, "queueWait")
               /\ saleTrue' = [saleTrue EXCEPT ![f] = {}]
               /\ UNCHANGED <<saleLock, saleResult, queueLock>>
<1>1. CASE state = "Error"
  <2>1. SaleError(f, {}) /\ UNCHANGED queueLock
    BY <1>1 DEF PageSeen
  <2>2. QED
    BY <2>1, ErrorCases DEF PageSeen
<1>2. CASE state \in {"NoCards", "exception"}
  <2>1. SaleReturns(f, state = "NoCards", {}) /\ UNCHANGED <<stickerLock, queueResult, queueLock>>
    BY <1>2 DEF PageSeen
  <2>2. (state = "NoCards") = TRUE \/ (state = "NoCards") = FALSE
    OBVIOUS
  <2>3. SaleReturns(f, TRUE, {}) \/ SaleReturns(f, FALSE, {})
    BY <2>1, <2>2, Zenon
  <2>4. QED
    BY <2>1, <2>3 DEF PageSeen
<1>3. CASE state = "HasCards"
  BY <1>3 DEF PageSeen
<1>4. QED
  BY <1>1, <1>2, <1>3 DEF PageStates

(* Who enters a clear takes its mutex, and who leaves it releases it.      *)
LEMMA LocksStep ==
  ASSUME SalesInv, [SaleNext]_saleVars
  PROVE  LocksInv'
<1> USE DEF SalesInv, SaleTypes, LocksInv, Single, Places
<1>1. CASE UNCHANGED saleVars
  BY <1>1 DEF saleVars
<1>2. ASSUME NEW f \in Callers, CallSale(f)
      PROVE  LocksInv'
  BY <1>2 DEF CallSale, GoTo
<1>3. ASSUME NEW f \in Callers, SaleWaitOver(f)
      PROVE  LocksInv'
  BY <1>3 DEF SaleWaitOver, GoTo
<1>4. ASSUME NEW f \in Callers, SaleSlept(f)
      PROVE  LocksInv'
  BY <1>4 DEF SaleSlept, GoTo
<1>5. ASSUME NEW f \in Callers, CallQueue(f)
      PROVE  LocksInv'
  BY <1>5 DEF CallQueue, GoTo
<1>6. ASSUME NEW f \in Callers, QueueWaitOver(f)
      PROVE  LocksInv'
  <2>1. QueueResultFor(f, queueResult, {}) /\ saleAt[f] = "queueWait"
        /\ queueLock' = queueLock /\ stickerLock' = stickerLock
    BY <1>6 DEF QueueWaitOver
  <2>2. \/ saleLock = {f} /\ SaleReturns(f, FALSE, {})
        \/ saleLock = {f} /\ GoTo(f, "sleep") /\ UNCHANGED saleLock
        \/ saleLock # {f} /\ GoTo(f, "idle") /\ UNCHANGED saleLock
    <3>1. queueResult \in BOOLEAN
      OBVIOUS
    <3>2. QED
      BY <2>1, <3>1, ResultCases, ZenonT(30)
  <2>3. QED
    BY <2>1, <2>2 DEF SaleReturns, GoTo
<1>7. ASSUME NEW f \in Callers, CallSticker(f)
      PROVE  LocksInv'
  BY <1>7 DEF CallSticker, GoTo
<1>8. ASSUME NEW f \in Callers, StickerWaitOver(f)
      PROVE  LocksInv'
  BY <1>8 DEF StickerWaitOver, GoTo
<1>9. ASSUME NEW f \in Callers, Consume(f)
      PROVE  LocksInv'
  BY <1>9 DEF Consume
<1>10. ASSUME NEW f \in Callers, NEW state \in PageStates, PageSeen(f, state)
       PROVE  LocksInv'
  <2>1. /\ saleAt[f] = "hasCards" /\ UNCHANGED stickerLock
        /\ \/ saleLock' = {} /\ GoTo(f, "idle") /\ UNCHANGED queueLock
           \/ GoTo(f, "sleep") /\ UNCHANGED <<saleLock, queueLock>>
           \/ queueLock = {} /\ queueLock' = {f} /\ GoTo(f, "generate") /\ UNCHANGED saleLock
           \/ GoTo(f, "queueWait") /\ UNCHANGED <<saleLock, queueLock>>
    <3> HIDE DEF SalesInv
    <3> QED
      BY <1>10, PageCases DEF SaleReturns
  <2>2. CASE saleLock' = {} /\ GoTo(f, "idle") /\ UNCHANGED queueLock
    BY <2>1, <2>2 DEF GoTo
  <2>3. CASE GoTo(f, "sleep") /\ UNCHANGED <<saleLock, queueLock>>
    BY <2>1, <2>3 DEF GoTo
  <2>4. CASE queueLock = {} /\ queueLock' = {f} /\ GoTo(f, "generate") /\ UNCHANGED saleLock
    BY <2>1, <2>4 DEF GoTo
  <2>5. CASE GoTo(f, "queueWait") /\ UNCHANGED <<saleLock, queueLock>>
    BY <2>1, <2>5 DEF GoTo
  <2>6. QED
    BY <2>1, <2>2, <2>3, <2>4, <2>5
<1>11. ASSUME NEW f \in Callers, NEW ok \in BOOLEAN, QueueReturns(f, ok),
              saleAt[f] \in {"generate", "clear"}, stickerLock' = stickerLock
       PROVE  LocksInv'
  <2>1. QueueResultFor(f, ok, {[waiters |-> "queueWait", result |-> ok]}) /\ queueLock' = {}
    BY <1>11 DEF QueueReturns
  <2>2. \/ saleLock = {f} /\ (\E c : SaleReturns(f, FALSE, c))
        \/ saleLock = {f} /\ GoTo(f, "sleep") /\ UNCHANGED saleLock
        \/ saleLock # {f} /\ GoTo(f, "idle") /\ UNCHANGED saleLock
    BY <2>1, ResultCases
  <2>3. f \in queueLock /\ queueLock' = {} /\ stickerLock' = stickerLock
    BY <1>11, <2>1
  <2>4. CASE saleLock = {f} /\ saleLock' = {} /\ GoTo(f, "idle")
    BY <1>11, <2>3, <2>4 DEF GoTo
  <2>5. CASE saleLock = {f} /\ GoTo(f, "sleep") /\ UNCHANGED saleLock
    BY <1>11, <2>3, <2>5 DEF GoTo
  <2>6. CASE saleLock # {f} /\ GoTo(f, "idle") /\ UNCHANGED saleLock
    <3>1. f \notin saleLock
      BY <2>6
    <3>2. QED
      BY <1>11, <2>3, <2>6, <3>1 DEF GoTo
  <2>7. QED
    BY <2>2, <2>4, <2>5, <2>6 DEF SaleReturns
<1>12. ASSUME NEW f \in Callers, NEW ok \in BOOLEAN, NEW n \in 0..QueueSize, Generated(f, ok, n)
       PROVE  LocksInv'
  <2>1. CASE ok /\ n > 0
    BY <1>12, <2>1 DEF Generated, GoTo
  <2>2. CASE ~(ok /\ n > 0)
    BY <1>11, <1>12, <2>2 DEF Generated
  <2>3. QED
    BY <2>1, <2>2
<1>13. ASSUME NEW f \in Callers, NEW ok \in BOOLEAN, AppCleared(f, ok)
       PROVE  LocksInv'
  <2>1. CASE ok /\ left > 1
    BY <1>13, <2>1 DEF AppCleared
  <2>2. CASE ~(ok /\ left > 1)
    BY <1>11, <1>13, <2>2 DEF AppCleared
  <2>3. QED
    BY <2>1, <2>2
<1>14. ASSUME NEW f \in Callers,
              NEW reply \in {"can", "Ok", "AlreadyClaimed", "NoSale", "Error"},
              ClaimAnswered(f, reply)
       PROVE  LocksInv'
  BY <1>14 DEF ClaimAnswered, Claimed, GoTo
<1>15. CASE SaleQuit
  BY <1>15 DEF SaleQuit
<1>16. QED
  BY <1>1, <1>2, <1>3, <1>4, <1>5, <1>6, <1>7, <1>8, <1>9, <1>10, <1>12, <1>13, <1>14, <1>15,
     SaleCases

(* A clear that ends is known to all that wait for it.                     *)
LEMMA EndsFacts ==
  ASSUME SaleTypes, NEW clears, \A c \in clears : c.result \in BOOLEAN, Ends(clears)
  PROVE  /\ saleTrue' \in [Callers -> SUBSET BOOLEAN]
         /\ \A g \in Callers : saleTrue[g] \subseteq saleTrue'[g]
         /\ \A g \in Callers : \A c \in clears : c.waiters = saleAt[g] => c.result \in saleTrue'[g]
BY DEF SaleTypes, Ends

(* Who waits for a clear knows the result it ends with.                    *)
LEMMA WaitersStep ==
  ASSUME SalesInv, [SaleNext]_saleVars
  PROVE  SaleTypes' /\ FreshResults'
<1> DEFINE Goal == SaleTypes /\ FreshResults
<1> USE DEF SalesInv, SaleTypes, Places, FreshResults
<1>1. CASE UNCHANGED saleVars
  BY <1>1 DEF saleVars
<1>2. ASSUME NEW f \in Callers, CallSale(f)
      PROVE  Goal'
  BY <1>2 DEF CallSale, GoTo
<1>3. ASSUME NEW f \in Callers, SaleWaitOver(f)
      PROVE  Goal'
  BY <1>3 DEF SaleWaitOver, GoTo
<1>4. ASSUME NEW f \in Callers, SaleSlept(f)
      PROVE  Goal'
  BY <1>4 DEF SaleSlept, GoTo
<1>5. ASSUME NEW f \in Callers, CallQueue(f)
      PROVE  Goal'
  BY <1>5 DEF CallQueue, GoTo
\* Whatever performClear() of the sale queue does next, those who wait learn of it.
<1>a. ASSUME NEW f \in Callers, NEW clears, \A c \in clears : c.result \in BOOLEAN,
             SaleReturns(f, FALSE, clears) \/ SaleReturns(f, TRUE, clears),
             \/ UNCHANGED <<queueLock, queueResult>>
             \/ [waiters |-> "queueWait", result |-> queueResult'] \in clears /\ queueResult' \in BOOLEAN
      PROVE  Goal'
  <2>1. PICK r \in BOOLEAN : SaleReturns(f, r, clears)
    BY <1>a
  <2> DEFINE all == clears \cup {[waiters |-> "saleWait", result |-> r]}
  <2>2. Ends(all) /\ saleResult' = r /\ GoTo(f, "idle")
    BY <2>1 DEF SaleReturns
  <2>3. \A c \in all : c.result \in BOOLEAN
    BY <1>a
  <2>4. /\ saleTrue' \in [Callers -> SUBSET BOOLEAN]
        /\ \A g \in Callers : saleTrue[g] \subseteq saleTrue'[g]
        /\ \A g \in Callers : \A c \in all : c.waiters = saleAt[g] => c.result \in saleTrue'[g]
    <3> HIDE DEF all
    <3> QED
      BY <2>2, <2>3, EndsFacts
  <2>5. \A g \in Callers : saleAt[g] = "saleWait" => r \in saleTrue'[g]
    <3>1. [waiters |-> "saleWait", result |-> r] \in all
      OBVIOUS
    <3> HIDE DEF all
    <3>2. QED
      BY <2>4, <3>1
  <2>6. [waiters |-> "queueWait", result |-> queueResult'] \in clears
          => \A g \in Callers : saleAt[g] = "queueWait" => queueResult' \in saleTrue'[g]
    BY <2>4
  <2> HIDE DEF all
  <2>7. SaleTypes'
    BY <1>a, <2>2, <2>4 DEF GoTo
  <2>8. FreshResults'
    BY <1>a, <2>2, <2>4, <2>5, <2>6 DEF GoTo
  <2>9. QED
    BY <2>7, <2>8
<1>b. ASSUME NEW f \in Callers, NEW clears, \A c \in clears : c.result \in BOOLEAN,
             GoTo(f, "sleep") \/ GoTo(f, "idle"), Ends(clears), UNCHANGED <<saleLock, saleResult>>,
             \/ UNCHANGED <<queueLock, queueResult>>
             \/ [waiters |-> "queueWait", result |-> queueResult'] \in clears /\ queueResult' \in BOOLEAN
      PROVE  Goal'
  <2>4. /\ saleTrue' \in [Callers -> SUBSET BOOLEAN]
        /\ \A g \in Callers : saleTrue[g] \subseteq saleTrue'[g]
        /\ \A g \in Callers : \A c \in clears : c.waiters = saleAt[g] => c.result \in saleTrue'[g]
    BY <1>b, EndsFacts
  <2>6. [waiters |-> "queueWait", result |-> queueResult'] \in clears
          => \A g \in Callers : saleAt[g] = "queueWait" => queueResult' \in saleTrue'[g]
    BY <2>4
  <2>7. SaleTypes'
    BY <1>b, <2>4 DEF GoTo
  <2>8. FreshResults'
    BY <1>b, <2>4, <2>6 DEF GoTo
  <2>9. QED
    BY <2>7, <2>8
<1>6. ASSUME NEW f \in Callers, QueueWaitOver(f)
      PROVE  Goal'
  <2>1. QueueResultFor(f, queueResult, {}) /\ UNCHANGED <<queueLock, queueResult>>
    BY <1>6 DEF QueueWaitOver
  <2>2. QED
    BY <1>a, <1>b, <2>1, ResultCases
<1>7. ASSUME NEW f \in Callers, CallSticker(f)
      PROVE  Goal'
  BY <1>7 DEF CallSticker, GoTo
<1>8. ASSUME NEW f \in Callers, StickerWaitOver(f)
      PROVE  Goal'
  BY <1>8 DEF StickerWaitOver, GoTo
<1>9. ASSUME NEW f \in Callers, Consume(f)
      PROVE  Goal'
  BY <1>9 DEF Consume
<1>10. ASSUME NEW f \in Callers, NEW state \in PageStates, PageSeen(f, state)
       PROVE  Goal'
  <2>1. CASE (SaleReturns(f, FALSE, {}) \/ SaleReturns(f, TRUE, {})) /\ UNCHANGED <<queueLock, queueResult>>
    BY <1>a, <2>1
  <2>2. CASE GoTo(f, "sleep") /\ Ends({}) /\ UNCHANGED <<saleLock, saleResult, queueLock, queueResult>>
    BY <1>b, <2>2
  <2>3. CASE /\ GoTo(f, "generate") /\ queueLock' = {f}
             /\ saleTrue' = [saleTrue EXCEPT ![f] = {}]
             /\ UNCHANGED <<saleLock, saleResult, queueResult>>
    BY <2>3 DEF GoTo
  <2>4. CASE /\ GoTo(f, "queueWait") /\ queueLock # {}
             /\ saleTrue' = [saleTrue EXCEPT ![f] = {}]
             /\ UNCHANGED <<saleLock, saleResult, queueLock, queueResult>>
    BY <2>4 DEF GoTo
  <2>5. QED
    <3> HIDE DEF SalesInv, Goal
    <3> QED
      BY <1>10, <2>1, <2>2, <2>3, <2>4, PageCases
<1>11. ASSUME NEW f \in Callers, NEW ok \in BOOLEAN, QueueReturns(f, ok)
       PROVE  Goal'
  <2> DEFINE clears == {[waiters |-> "queueWait", result |-> ok]}
  <2>1. QueueResultFor(f, ok, clears) /\ queueResult' = ok
    BY <1>11 DEF QueueReturns
  <2>2. (\A c \in clears : c.result \in BOOLEAN) /\ [waiters |-> "queueWait", result |-> ok] \in clears
    OBVIOUS
  <2> HIDE DEF clears
  <2>3. QED
    BY <1>a, <1>b, <2>1, <2>2, ResultCases, ZenonT(30)
<1>12. ASSUME NEW f \in Callers, NEW ok \in BOOLEAN, NEW n \in 0..QueueSize, Generated(f, ok, n)
       PROVE  Goal'
  <2>1. CASE ok /\ n > 0
    BY <1>12, <2>1 DEF Generated, GoTo
  <2>2. CASE ~(ok /\ n > 0)
    BY <1>11, <1>12, <2>2 DEF Generated
  <2>3. QED
    BY <2>1, <2>2
<1>13. ASSUME NEW f \in Callers, NEW ok \in BOOLEAN, AppCleared(f, ok)
       PROVE  Goal'
  <2>1. CASE ok /\ left > 1
    BY <1>13, <2>1 DEF AppCleared
  <2>2. CASE ~(ok /\ left > 1)
    BY <1>11, <1>13, <2>2 DEF AppCleared
  <2>3. QED
    BY <2>1, <2>2
<1>14. ASSUME NEW f \in Callers,
              NEW reply \in {"can", "Ok", "AlreadyClaimed", "NoSale", "Error"},
              ClaimAnswered(f, reply)
       PROVE  Goal'
  BY <1>14 DEF ClaimAnswered, Claimed, GoTo
<1>15. CASE SaleQuit
  <2> DEFINE queueEnds == {f \in queueLock : saleAt[f] \in {"generate", "clear"}}
             saleEnds == {f \in saleLock : saleAt[f] \in {"hasCards", "sleep"}}
             goesOn == IF errors + 1 < MaxErrors THEN queueEnds \cap saleLock ELSE {}
             saleOver == saleEnds \cup ((queueEnds \cap saleLock) \ goesOn)
             clears == {[waiters |-> "queueWait", result |-> FALSE] : f \in queueEnds}
                       \cup {[waiters |-> "saleWait", result |-> FALSE] : f \in saleOver}
  <2>1. /\ Ends(clears)
        /\ queueResult' = (queueResult /\ queueEnds = {}) /\ queueLock' = queueLock \ queueEnds
        /\ saleResult' = (saleResult /\ saleOver = {}) /\ saleLock' = saleLock \ saleOver
    BY <1>15 DEF SaleQuit
  <2>2. /\ saleAt' \in [Callers -> Places]
        /\ \A g \in Callers : saleAt'[g] \in {saleAt[g], "sleep", "idle"}
    BY <1>15 DEF SaleQuit
  <2>3. /\ \A c \in clears : c.result \in BOOLEAN
        /\ queueEnds # {} => [waiters |-> "queueWait", result |-> FALSE] \in clears
        /\ saleOver # {} => [waiters |-> "saleWait", result |-> FALSE] \in clears
    <3> HIDE DEF queueEnds, saleOver
    <3>1. \A c \in clears : c.result = FALSE
      OBVIOUS
    <3>2. queueEnds # {} => [waiters |-> "queueWait", result |-> FALSE] \in clears
      OBVIOUS
    <3>3. saleOver # {} => [waiters |-> "saleWait", result |-> FALSE] \in clears
      OBVIOUS
    <3>4. QED
      BY <3>1, <3>2, <3>3
  <2> HIDE DEF queueEnds, saleOver, clears
  <2>4. /\ saleTrue' \in [Callers -> SUBSET BOOLEAN]
        /\ \A g \in Callers : saleTrue[g] \subseteq saleTrue'[g]
        /\ \A g \in Callers : \A c \in clears : c.waiters = saleAt[g] => c.result \in saleTrue'[g]
    BY <2>1, <2>3, EndsFacts
  <2>5. /\ queueEnds # {} => queueResult' = FALSE
        /\ queueEnds = {} => queueResult' = queueResult /\ queueLock' = queueLock
        /\ saleOver # {} => saleResult' = FALSE
        /\ saleOver = {} => saleResult' = saleResult /\ saleLock' = saleLock
    BY <2>1
  <2>6. /\ queueEnds # {} => \A g \in Callers : saleAt[g] = "queueWait" => FALSE \in saleTrue'[g]
        /\ saleOver # {} => \A g \in Callers : saleAt[g] = "saleWait" => FALSE \in saleTrue'[g]
    BY <2>3, <2>4
  <2>7. SaleTypes'
    BY <2>2, <2>4, <2>5
  <2>8. FreshResults'
    BY <2>2, <2>4, <2>5, <2>6
  <2>9. QED
    BY <2>7, <2>8
<1>16. QED
  BY <1>1, <1>2, <1>3, <1>4, <1>5, <1>6, <1>7, <1>8, <1>9, <1>10, <1>12, <1>13, <1>14, <1>15,
     SaleCases

(* For every number of callers, one fiber clears the sale queue, one the   *)
(* discovery queue and one claims the sticker; and those that only waited  *)
(* return the result of a clear that ended after they began to wait        *)
(* (SaleQueue.cpp:166-179, DiscoveryQueue.cpp:166-178).                    *)
THEOREM ClearsAreDoneOnce ==
  SaleSpec => [](OneWorkerEach /\ WaitersGetFreshResults)
<1>1. ASSUME SaleInit
      PROVE  SalesInv
  BY <1>1 DEF SaleInit, SalesInv, SaleTypes, LocksInv, FreshResults, Single, Places
<1>2. ASSUME SalesInv, [SaleNext]_saleVars
      PROVE  SalesInv'
  BY <1>2, LocksStep, WaitersStep DEF SalesInv
<1>3. SalesInv => OneWorkerEach /\ WaitersGetFreshResults
  BY DEF SalesInv, LocksInv, FreshResults, Single, OneWorkerEach, WaitersGetFreshResults
<1>4. QED
  BY <1>1, <1>2, <1>3, PTL DEF SaleSpec

-----------------------------------------------------------------------------
(* ServerList                                                              *)

(* What a posted function is made of.                                      *)
Tasks == [kind : {"get", "callback"}, asker : Askers, cell : Cells, list : Nat]

(* One query is under way for a cell while callbacks wait for its list.    *)
QueryingInv ==
  /\ tasks \in Seq(Tasks)
  /\ cache \in [Cells -> Nat] /\ aged \subseteq {c \in Cells : cache[c] # 0}
  /\ callbacks \in [Cells -> SUBSET Askers] /\ \A c \in Cells : IsFiniteSet(callbacks[c])
  /\ querying \in [Cells -> SUBSET Nat]
  /\ queries \in 0..MaxQueries
  /\ \A c \in Cells :
       /\ \A n \in querying[c] : n \in 1..queries /\ querying[c] = {n} /\ cache[c] = 0
       /\ ~dead => (querying[c] # {} <=> callbacks[c] # {})

AskerOf == [t \in Tasks |-> t.asker]

(* A caller that waits is found in one place.                              *)
KnownInv ==
  /\ asks \in [Askers -> SUBSET Cells]
  /\ DistinctBy(AskerOf, tasks)
  /\ \A a \in Askers : HasBy(AskerOf, tasks, a) => /\ asks[a] # {}
                                                  /\ \A c \in Cells : a \notin callbacks[c]
  /\ \A c, d \in Cells : \A a \in callbacks[c] : asks[a] # {} /\ (a \in callbacks[d] => c = d)
  /\ \A a \in Askers : asks[a] # {} => \/ HasBy(AskerOf, tasks, a)
                                       \/ \E c \in Cells : a \in callbacks[c]

(* Every list on its way to a caller is one it may be given.               *)
FreshInv ==
  /\ got \in [Askers -> Nat] /\ atAsk \in [Askers -> SUBSET Nat]
  /\ \A a \in Askers : (asks[a] # {} => got[a] = 0) /\ (got[a] # 0 => got[a] \in atAsk[a])
  /\ \A t \in Range(tasks) :
       /\ t.kind = "callback" => t.list \in atAsk[t.asker]
       /\ t.kind = "get" /\ t.asker \notin Blocking => Acceptable(t.cell) \subseteq atAsk[t.asker]
  /\ \A c \in Cells : \A a \in callbacks[c] : querying[c] \subseteq atAsk[a]

(* All sequences of the elements of a finite set hold each of them once.   *)
LEMMA SeqsFacts ==
  ASSUME NEW S, IsFiniteSet(S), NEW order \in SetToSeqs(S)
  PROVE  /\ order \in Seq(S) /\ Len(order) \in Nat
         /\ \A i, j \in 1..Len(order) : order[i] = order[j] => i = j
         /\ \A x \in S : \E i \in 1..Len(order) : order[i] = x
<1> DEFINE n == Cardinality(S)
<1>1. n \in Nat
  BY FS_CardinalityType
<1>2. order \in [1..n -> S] /\ \A i, j \in 1..n : i # j => order[i] # order[j]
  BY DEF SetToSeqs
<1>3. order \in Seq(S) /\ Len(order) = n
  BY <1>1, <1>2
<1>4. order \in Injection(1..n, S)
  BY <1>2 DEF Injection, IsInjective
<1>5. Cardinality(1..n) = n
  BY <1>1, FS_Interval
<1>6. order \in Surjection(1..n, S)
  BY <1>4, <1>5, FS_Injection
<1>7. QED
  BY <1>1, <1>2, <1>3, <1>6 DEF Surjection

(* The steps of the server lists, one disjunct for each.                   *)
LEMMA ListCases ==
  ASSUME [ListNext]_listVars
  PROVE  \/ \E a \in Askers, c \in Cells : Ask(a, c)
         \/ RunTask
         \/ \E c \in Cells, n \in 1..MaxQueries, ok \in BOOLEAN : ReceivedData(c, n, ok)
         \/ \E c \in Cells : CacheAges(c)
         \/ UNCHANGED listVars
BY DEF ListNext

(* What the first of the posted functions is.                              *)
LEMMA FirstTask ==
  ASSUME QueryingInv, tasks # <<>>
  PROVE  /\ Head(tasks) \in Tasks /\ Tail(tasks) \in Seq(Tasks)
         /\ Head(tasks).cell \in Cells /\ Head(tasks).asker \in Askers
         /\ AskerOf[Head(tasks)] = Head(tasks).asker
         /\ Range(tasks) = {Head(tasks)} \cup Range(Tail(tasks))
<1>1. /\ Head(tasks) \in Tasks /\ Tail(tasks) \in Seq(Tasks)
      /\ Range(tasks) = {Head(tasks)} \cup Range(Tail(tasks))
  BY RangeTail DEF QueryingInv
<1>2. \A t \in Tasks : t.cell \in Cells /\ t.asker \in Askers /\ AskerOf[t] = t.asker
  BY DEF Tasks, AskerOf
<1>3. QED
  BY <1>1, <1>2

(* The functions receivedData() posts: one for each callback.              *)
Posted(order, c, n) ==
  [i \in 1..Len(order) |-> [kind |-> "callback", asker |-> order[i], cell |-> c, list |-> n]]

(* receivedData() posts one function for each callback that waits for the  *)
(* cell.                                                                   *)
LEMMA PostedFacts ==
  ASSUME QueryingInv, NEW c \in Cells, NEW n \in Nat, NEW order \in SetToSeqs(callbacks[c])
  PROVE  LET posted == Posted(order, c, n)
         IN /\ posted \in Seq(Tasks) /\ tasks \o posted \in Seq(Tasks)
            /\ Range(tasks \o posted) = Range(tasks) \cup Range(posted)
            /\ Range(posted) \subseteq [kind : {"callback"}, asker : callbacks[c], cell : {c}, list : {n}]
            /\ DistinctBy(AskerOf, posted)
            /\ \A a : HasBy(AskerOf, posted, a) <=> a \in callbacks[c]
<1> DEFINE posted == Posted(order, c, n)
<1>1. /\ order \in Seq(callbacks[c]) /\ Len(order) \in Nat
      /\ \A i, j \in 1..Len(order) : order[i] = order[j] => i = j
      /\ \A x \in callbacks[c] : \E i \in 1..Len(order) : order[i] = x
  BY SeqsFacts DEF QueryingInv
<1>2. \A i \in 1..Len(order) : order[i] \in callbacks[c] /\ order[i] \in Askers
  BY <1>1 DEF QueryingInv
<1>3. posted \in [1..Len(order) -> Tasks]
  BY <1>2 DEF Tasks, Posted
<1>4. \A i \in 1..Len(order) : posted[i] = [kind |-> "callback", asker |-> order[i], cell |-> c, list |-> n]
  BY DEF Posted
<1> HIDE DEF posted
<1>5. posted \in Seq(Tasks) /\ Len(posted) = Len(order)
  BY <1>1, <1>3, SMTT(30)
<1>6. \A t : t \in Range(posted) <=> \E i \in 1..Len(posted) : t = posted[i]
  BY <1>5, RangeIs
<1>7. \A t \in Range(posted) : \E i \in 1..Len(order) :
          t = [kind |-> "callback", asker |-> order[i], cell |-> c, list |-> n]
  <2>1. ASSUME NEW t \in Range(posted)
        PROVE  \E i \in 1..Len(order) : t = [kind |-> "callback", asker |-> order[i], cell |-> c, list |-> n]
    <3>1. PICK i \in 1..Len(posted) : t = posted[i]
      BY <1>6
    <3>2. QED
      BY <1>4, <1>5, <3>1
  <2>2. QED
    BY <2>1
<1>8. \A i \in 1..Len(order) : AskerOf[posted[i]] = order[i] /\ posted[i] \in Range(posted)
  <2>1. \A i \in 1..Len(order) : posted[i] \in Tasks /\ posted[i].asker = order[i]
    BY <1>3, <1>4
  <2>2. QED
    BY <1>5, <1>6, <2>1 DEF AskerOf
<1>9. DistinctBy(AskerOf, posted)
  BY <1>1, <1>5, <1>8 DEF DistinctBy
<1>10. \A a : HasBy(AskerOf, posted, a) <=> a \in callbacks[c]
  <2>1. ASSUME NEW t \in Range(posted)
        PROVE  AskerOf[t] \in callbacks[c]
    <3>1. PICK i \in 1..Len(order) : t = posted[i]
      BY <1>5, <1>6
    <3>2. QED
      BY <1>2, <1>8, <3>1
  <2>2. ASSUME NEW a \in callbacks[c]
        PROVE  \E t \in Range(posted) : AskerOf[t] = a
    <3>1. PICK i \in 1..Len(order) : order[i] = a
      BY <1>1
    <3>2. AskerOf[posted[i]] = a /\ posted[i] \in Range(posted)
      BY <1>8, <3>1
    <3>3. QED
      BY <3>2
  <2>3. QED
    BY <2>1, <2>2 DEF HasBy
<1>11. Range(posted) \subseteq [kind : {"callback"}, asker : callbacks[c], cell : {c}, list : {n}]
  BY <1>2, <1>7
<1>12. tasks \o posted \in Seq(Tasks) /\ Range(tasks \o posted) = Range(tasks) \cup Range(posted)
  BY <1>5, RangeConcat DEF QueryingInv
<1>13. QED
  BY <1>5, <1>9, <1>10, <1>11, <1>12 DEF posted

(* A query starts with the first callback for its cell, and ends with all  *)
(* of them.                                                                *)
LEMMA QueryingStep ==
  ASSUME ListAssumption, QueryingInv, dead \in BOOLEAN, [ListNext]_listVars
  PROVE  QueryingInv'
<1>1. ASSUME NEW a \in Askers, NEW c \in Cells, Ask(a, c)
      PROVE  QueryingInv'
  <2>1. [kind |-> "get", asker |-> a, cell |-> c, list |-> 0] \in Tasks
    BY DEF Tasks
  <2>2. tasks' \in Seq(Tasks)
    BY <1>1, <2>1, AppendFacts DEF Ask, QueryingInv
  <2>3. QED
    BY <1>1, <2>2 DEF Ask, QueryingInv
<1>2. CASE RunTask /\ Get(Head(tasks))
  <2> DEFINE t == Head(tasks)
             c == t.cell
  <2>1. t \in Tasks /\ Tail(tasks) \in Seq(Tasks) /\ ~dead /\ ~dead'
    BY <1>2, FirstTask DEF RunTask
  <2>2. c \in Cells /\ t.asker \in Askers
    BY <2>1 DEF Tasks
  <2>3. CASE callbacks[c] = {} /\ cache[c] # 0 /\ c \notin aged
    <3>1. /\ tasks' = Append(Tail(tasks), [t EXCEPT !.kind = "callback", !.list = cache[c]])
          /\ UNCHANGED <<callbacks, querying, queries, cache>> /\ aged' = aged \ {c}
      BY <1>2, <2>3 DEF Get
    <3>2. [t EXCEPT !.kind = "callback", !.list = cache[c]] \in Tasks
      BY <2>1, <2>2 DEF Tasks, QueryingInv
    <3>3. tasks' \in Seq(Tasks)
      BY <2>1, <3>1, <3>2, AppendFacts
    <3>4. QED
      BY <2>1, <3>1, <3>3 DEF QueryingInv
  <2>4. CASE callbacks[c] # {}
    <3>1. /\ tasks' = Tail(tasks) /\ UNCHANGED <<querying, queries, cache, aged>>
          /\ callbacks' = [callbacks EXCEPT ![c] = @ \cup {t.asker}]
      BY <1>2, <2>4 DEF Get
    <3>2. IsFiniteSet(callbacks[c] \cup {t.asker})
      <4>1. IsFiniteSet(callbacks[c])
        BY <2>2 DEF QueryingInv
      <4>2. QED
        BY <4>1, FS_AddElement
    <3>3. QED
      BY <2>1, <2>2, <2>4, <3>1, <3>2 DEF QueryingInv
  <2>5. CASE callbacks[c] = {} /\ ~(cache[c] # 0 /\ c \notin aged)
    <3>1. /\ tasks' = Tail(tasks)
          /\ callbacks' = [callbacks EXCEPT ![c] = {t.asker}]
          /\ queries < MaxQueries /\ queries' = queries + 1
          /\ querying' = [querying EXCEPT ![c] = @ \cup {queries + 1}]
          /\ cache' = IF c \in aged THEN [cache EXCEPT ![c] = 0] ELSE cache
          /\ aged' = aged \ {c}
      BY <1>2, <2>5 DEF Get, QueryingInv
    <3>2. querying[c] = {} /\ cache'[c] = 0 /\ cache' \in [Cells -> Nat]
          /\ \A d \in Cells : d # c => cache'[d] = cache[d]
      BY <2>1, <2>2, <2>5, <3>1 DEF QueryingInv
    <3>3. queries \in Nat /\ MaxQueries \in Nat /\ queries + 1 \in 1..queries' /\ queries' \in 0..MaxQueries
          /\ \A n \in 1..queries : n \in 1..queries'
      BY <3>1 DEF QueryingInv, ListAssumption
    <3>9. querying' = [querying EXCEPT ![c] = {queries + 1}]
      BY <3>1, <3>2
    <3>4. querying'[c] = {queries + 1} /\ querying' \in [Cells -> SUBSET Nat]
          /\ \A d \in Cells : d # c => querying'[d] = querying[d]
      BY <2>2, <3>3, <3>9 DEF QueryingInv
    <3>5. callbacks' \in [Cells -> SUBSET Askers] /\ callbacks'[c] # {}
          /\ \A d \in Cells : (d # c => callbacks'[d] = callbacks[d]) /\ IsFiniteSet(callbacks'[d])
      BY <2>2, <3>1, FS_Singleton, ZenonT(30) DEF QueryingInv
    <3>6. aged' \subseteq {d \in Cells : cache'[d] # 0}
      BY <3>1, <3>2 DEF QueryingInv
    <3>7. \A d \in Cells : /\ \A n \in querying'[d] : n \in 1..queries' /\ querying'[d] = {n} /\ cache'[d] = 0
                           /\ querying'[d] # {} <=> callbacks'[d] # {}
      <4>1. ASSUME NEW d \in Cells, d # c
            PROVE  /\ \A n \in querying[d] : n \in 1..queries /\ querying[d] = {n} /\ cache[d] = 0
                   /\ querying[d] # {} <=> callbacks[d] # {}
        BY <2>1, <4>1 DEF QueryingInv
      <4>2. QED
        BY <3>2, <3>3, <3>4, <3>5, <4>1
    <3>8. QED
      <4>1. tasks' \in Seq(Tasks)
        BY <2>1, <3>1
      <4>2. QED
        BY <3>2, <3>3, <3>4, <3>5, <3>6, <3>7, <4>1 DEF QueryingInv
  <2>6. QED
    BY <2>3, <2>4, <2>5
<1>3. CASE RunTask /\ Callback(Head(tasks))
  <2>1. Tail(tasks) \in Seq(Tasks) /\ ~dead /\ ~dead'
    BY <1>3, FirstTask DEF RunTask
  <2>2. QED
    BY <1>3, <2>1 DEF Callback, QueryingInv
<1>4. ASSUME NEW c \in Cells, NEW n \in 1..MaxQueries, NEW ok \in BOOLEAN, ReceivedData(c, n, ok)
      PROVE  QueryingInv' /\ (dead' => ~ok)
  <2>1. querying[c] = {n} /\ cache[c] = 0 /\ ~dead /\ n \in Nat /\ n # 0
    BY <1>4 DEF ReceivedData, QueryingInv, ListAssumption
  <2>2. querying' = [querying EXCEPT ![c] = {}] /\ UNCHANGED <<aged, queries>>
    BY <1>4, <2>1 DEF ReceivedData
  <2>3. CASE ~ok
    <3>1. dead' = TRUE /\ UNCHANGED <<cache, callbacks, tasks>>
      BY <1>4, <2>3 DEF ReceivedData
    <3>2. QED
      BY <2>2, <2>3, <3>1 DEF QueryingInv
  <2>4. CASE ok
    <3>1. PICK order \in SetToSeqs(callbacks[c]) :
            tasks' = tasks \o Posted(order, c, n)
      BY <1>4, <2>1, <2>4 DEF ReceivedData, Posted
    <3>2. /\ cache' = [cache EXCEPT ![c] = n] /\ callbacks' = [callbacks EXCEPT ![c] = {}]
          /\ dead' = dead
      BY <1>4, <2>1, <2>4 DEF ReceivedData
    <3>3. tasks' \in Seq(Tasks)
      BY <2>1, <3>1, PostedFacts
    <3>4. QED
      BY <2>1, <2>2, <3>2, <3>3, FS_EmptySet DEF QueryingInv
  <2>5. QED
    BY <2>3, <2>4
<1>5. ASSUME NEW c \in Cells, CacheAges(c)
      PROVE  QueryingInv'
  BY <1>5 DEF CacheAges, QueryingInv
<1>6. CASE UNCHANGED listVars
  BY <1>6 DEF listVars, QueryingInv
<1>7. QED
  BY <1>1, <1>2, <1>3, <1>4, <1>5, <1>6, ListCases DEF RunTask

(* A caller is handed on: asked, callback, posted, answered.               *)
LEMMA KnownStep ==
  ASSUME ListAssumption, QueryingInv, KnownInv, [ListNext]_listVars
  PROVE  KnownInv'
<1>1. ASSUME NEW a \in Askers, NEW c \in Cells, Ask(a, c)
      PROVE  KnownInv'
  <2> DEFINE t == [kind |-> "get", asker |-> a, cell |-> c, list |-> 0]
  <2>1. /\ asks[a] = {} /\ asks' = [asks EXCEPT ![a] = {c}] /\ callbacks' = callbacks
        /\ tasks' = Append(tasks, t)
    BY <1>1 DEF Ask
  <2>2. t \in Tasks /\ AskerOf[t] = a
    BY DEF Tasks, AskerOf
  <2> HIDE DEF t
  <2>3. ~HasBy(AskerOf, tasks, a) /\ \A d \in Cells : a \notin callbacks[d]
    BY <2>1 DEF KnownInv
  <2>4. /\ DistinctBy(AskerOf, tasks')
        /\ \A y : HasBy(AskerOf, tasks', y) <=> HasBy(AskerOf, tasks, y) \/ y = a
    BY <2>1, <2>2, <2>3, AppendBy DEF QueryingInv, KnownInv
  <2>5. QED
    BY <2>1, <2>3, <2>4 DEF KnownInv
<1>2. CASE RunTask /\ Get(Head(tasks))
  <2> DEFINE t == Head(tasks)
             c == t.cell
             a == t.asker
  <2>1. c \in Cells /\ a \in Askers /\ t \in Tasks /\ Tail(tasks) \in Seq(Tasks) /\ asks' = asks
    BY <1>2, FirstTask DEF RunTask, Get
  <2>2. /\ DistinctBy(AskerOf, Tail(tasks)) /\ HasBy(AskerOf, tasks, a)
        /\ \A y : HasBy(AskerOf, Tail(tasks), y) <=> HasBy(AskerOf, tasks, y) /\ y # a
    BY <1>2, FirstTask, TailBy DEF RunTask, KnownInv, QueryingInv
  <2>3. asks[a] # {} /\ \A d \in Cells : a \notin callbacks[d]
    BY <2>1, <2>2 DEF KnownInv
  <2>4. CASE callbacks[c] = {} /\ cache[c] # 0 /\ c \notin aged
    <3> DEFINE u == [t EXCEPT !.kind = "callback", !.list = cache[c]]
    <3>1. tasks' = Append(Tail(tasks), u) /\ callbacks' = callbacks
      BY <1>2, <2>4 DEF Get
    <3>2. u \in Tasks /\ AskerOf[u] = a
      BY <2>1 DEF Tasks, QueryingInv, AskerOf
    <3> HIDE DEF u
    <3>3. /\ DistinctBy(AskerOf, tasks')
          /\ \A y : HasBy(AskerOf, tasks', y) <=> HasBy(AskerOf, Tail(tasks), y) \/ y = a
      BY <2>1, <2>2, <3>1, <3>2, AppendBy
    <3>4. QED
      BY <2>1, <2>2, <2>3, <3>1, <3>3 DEF KnownInv
  <2>5. CASE ~(callbacks[c] = {} /\ cache[c] # 0 /\ c \notin aged)
    <3>1. tasks' = Tail(tasks) /\ callbacks' = [callbacks EXCEPT ![c] = @ \cup {a}]
      BY <1>2, <2>5 DEF Get
    <3>2. \A d \in Cells : callbacks'[d] = IF d = c THEN callbacks[c] \cup {a} ELSE callbacks[d]
      BY <2>1, <3>1 DEF QueryingInv
    <3> HIDE DEF a, c
    <3>3. \A b \in Askers : HasBy(AskerOf, tasks', b)
              => asks[b] # {} /\ \A d \in Cells : b \notin callbacks'[d]
      BY <2>2, <3>1, <3>2 DEF KnownInv
    <3>4. \A d, e \in Cells : \A b \in callbacks'[d] : asks[b] # {} /\ (b \in callbacks'[e] => d = e)
      BY <2>3, <3>2 DEF KnownInv
    <3>5. \A b \in Askers : asks[b] # {} => \/ HasBy(AskerOf, tasks', b)
                                           \/ \E d \in Cells : b \in callbacks'[d]
      BY <2>1, <2>2, <3>1, <3>2 DEF KnownInv
    <3>6. QED
      BY <2>1, <2>2, <3>1, <3>3, <3>4, <3>5 DEF KnownInv
  <2>6. QED
    BY <2>4, <2>5
<1>3. CASE RunTask /\ Callback(Head(tasks))
  <2> DEFINE a == Head(tasks).asker
  <2>1. /\ a \in Askers /\ tasks' = Tail(tasks) /\ callbacks' = callbacks
        /\ asks' = [asks EXCEPT ![a] = {}]
    BY <1>3, FirstTask DEF RunTask, Callback
  <2>2. /\ DistinctBy(AskerOf, Tail(tasks)) /\ HasBy(AskerOf, tasks, a)
        /\ \A y : HasBy(AskerOf, Tail(tasks), y) <=> HasBy(AskerOf, tasks, y) /\ y # a
    BY <1>3, FirstTask, TailBy, SMTT(30) DEF RunTask, KnownInv, QueryingInv
  <2> HIDE DEF a
  <2>3. \A d \in Cells : a \notin callbacks[d]
    BY <2>1, <2>2 DEF KnownInv
  <2>4. /\ asks' \in [Askers -> SUBSET Cells] /\ asks'[a] = {}
        /\ \A b \in Askers : b # a => asks'[b] = asks[b]
    BY <2>1 DEF KnownInv
  <2>5. \A d \in Cells : \A b \in callbacks[d] : b \in Askers
    BY DEF QueryingInv
  <2>6. QED
    BY <2>1, <2>2, <2>3, <2>4, <2>5 DEF KnownInv
<1>4. ASSUME NEW c \in Cells, NEW n \in 1..MaxQueries, NEW ok \in BOOLEAN, ReceivedData(c, n, ok)
      PROVE  KnownInv'
  <2>1. asks' = asks /\ n \in Nat
    BY <1>4 DEF ReceivedData, ListAssumption
  <2>2. CASE UNCHANGED <<callbacks, tasks>>
    BY <2>1, <2>2 DEF KnownInv
  <2>3. CASE ~(UNCHANGED <<callbacks, tasks>>)
    <3>1. callbacks' = [callbacks EXCEPT ![c] = {}]
      BY <1>4, <2>3 DEF ReceivedData
    <3>2. PICK order \in SetToSeqs(callbacks[c]) : tasks' = tasks \o Posted(order, c, n)
      BY <1>4, <2>3 DEF ReceivedData, Posted
    <3> DEFINE posted == Posted(order, c, n)
    <3>3. /\ posted \in Seq(Tasks) /\ DistinctBy(AskerOf, posted)
          /\ \A a : HasBy(AskerOf, posted, a) <=> a \in callbacks[c]
      BY <2>1, PostedFacts
    <3>4. tasks \in Seq(Tasks) /\ DistinctBy(AskerOf, tasks) /\ callbacks[c] \subseteq Askers
      BY DEF QueryingInv, KnownInv
    <3>5. tasks' = tasks \o posted
      BY <3>2
    <3> HIDE DEF posted
    <3>6. \A a : ~(HasBy(AskerOf, tasks, a) /\ HasBy(AskerOf, posted, a))
      BY <3>3, <3>4 DEF KnownInv
    <3>7. /\ DistinctBy(AskerOf, tasks')
          /\ \A a : HasBy(AskerOf, tasks', a) <=> HasBy(AskerOf, tasks, a) \/ HasBy(AskerOf, posted, a)
      BY <3>3, <3>4, <3>5, <3>6, ConcatBy
    <3>8. \A d \in Cells : callbacks'[d] = IF d = c THEN {} ELSE callbacks[d]
      BY <3>1 DEF QueryingInv
    <3>9. QED
      BY <2>1, <3>3, <3>7, <3>8 DEF KnownInv
  <2>4. QED
    BY <2>2, <2>3
<1>5. ASSUME NEW c \in Cells, CacheAges(c)
      PROVE  KnownInv'
  BY <1>5 DEF CacheAges, KnownInv
<1>6. CASE UNCHANGED listVars
  BY <1>6 DEF listVars, KnownInv
<1>7. QED
  BY <1>1, <1>2, <1>3, <1>4, <1>5, <1>6, ListCases DEF RunTask

(* A list that is newer than the asker goes on with him.                   *)
LEMMA ListsFreshStep ==
  ASSUME ListAssumption, QueryingInv, KnownInv, FreshInv, [ListNext]_listVars
  PROVE  FreshInv'
<1>0. queries \in Nat /\ MaxQueries \in Nat /\ \A t \in Range(tasks) : t \in Tasks
  BY RangeIs DEF QueryingInv, ListAssumption
<1>1. ASSUME NEW a \in Askers, NEW c \in Cells, Ask(a, c)
      PROVE  FreshInv'
  <2> DEFINE t == [kind |-> "get", asker |-> a, cell |-> c, list |-> 0]
  <2>1. /\ asks[a] = {} /\ asks' = [asks EXCEPT ![a] = {c}] /\ got' = [got EXCEPT ![a] = 0]
        /\ atAsk' = [atAsk EXCEPT ![a] = IF a \in Blocking THEN {} ELSE Acceptable(c)]
        /\ tasks' = Append(tasks, t) /\ UNCHANGED <<cache, aged, callbacks, querying, queries>>
    BY <1>1 DEF Ask
  <2>2. t \in Tasks
    BY DEF Tasks
  <2>3. /\ t.kind = "get" /\ t.asker = a /\ t.cell = c
    OBVIOUS
  <2> HIDE DEF t
  <2>4. Range(tasks') = Range(tasks) \cup {t}
    BY <2>1, <2>2, RangeAppend DEF QueryingInv
  <2>5. Acceptable(c) \subseteq Nat
    BY <1>0 DEF Acceptable, QueryingInv
  <2>6. /\ atAsk' \in [Askers -> SUBSET Nat] /\ \A b \in Askers : b # a => atAsk'[b] = atAsk[b]
        /\ a \notin Blocking => atAsk'[a] = Acceptable(c)
    BY <2>1, <2>5 DEF FreshInv
  <2>7. \A u \in Range(tasks) : u.asker \in Askers /\ u.asker # a
    BY <1>0, <2>1 DEF KnownInv, HasBy, AskerOf, Tasks
  <2>8. \A d \in Cells : \A b \in callbacks[d] : b \in Askers /\ b # a
    BY <2>1 DEF KnownInv, QueryingInv
  <2>9. \A d : Acceptable(d)' = Acceptable(d)
    BY <2>1 DEF Acceptable
  <2>10. got' \in [Askers -> Nat] /\ \A b \in Askers : got'[b] = IF b = a THEN 0 ELSE got[b]
    BY <2>1 DEF FreshInv
  <2>11. \A b \in Askers : b # a => asks'[b] = asks[b]
    BY <2>1 DEF KnownInv
  <2>12. \A u \in Range(tasks') :
           /\ u.kind = "callback" => u.list \in atAsk'[u.asker]
           /\ u.kind = "get" /\ u.asker \notin Blocking => Acceptable(u.cell)' \subseteq atAsk'[u.asker]
    BY <2>3, <2>4, <2>6, <2>7, <2>9 DEF FreshInv
  <2>13. \A d \in Cells : \A b \in callbacks'[d] : querying'[d] \subseteq atAsk'[b]
    BY <2>1, <2>6, <2>8 DEF FreshInv
  <2>14. \A b \in Askers : (asks'[b] # {} => got'[b] = 0) /\ (got'[b] # 0 => got'[b] \in atAsk'[b])
    BY <2>6, <2>10, <2>11 DEF FreshInv
  <2>15. QED
    BY <2>6, <2>10, <2>12, <2>13, <2>14 DEF FreshInv
<1>2. CASE RunTask /\ Head(tasks).kind = "get" /\ Get(Head(tasks))
  <2> DEFINE t == Head(tasks)
             c == t.cell
             a == t.asker
  <2>1. /\ c \in Cells /\ a \in Askers /\ t \in Tasks /\ Tail(tasks) \in Seq(Tasks)
        /\ Range(tasks) = {t} \cup Range(Tail(tasks)) /\ AskerOf[t] = a
        /\ UNCHANGED <<asks, got>> /\ t.kind = "get"
    BY <1>2, FirstTask DEF RunTask, Get
  <2>2. /\ HasBy(AskerOf, tasks, a)
        /\ \A y : HasBy(AskerOf, Tail(tasks), y) <=> HasBy(AskerOf, tasks, y) /\ y # a
    BY <1>2, FirstTask, TailBy DEF RunTask, KnownInv, QueryingInv
  <2>3. asks[a] # {} /\ got[a] = 0 /\ \A d \in Cells : a \notin callbacks[d]
    BY <2>1, <2>2 DEF KnownInv, FreshInv
  <2>4. ASSUME NEW u \in Range(Tail(tasks))
        PROVE  u \in Tasks /\ u.asker \in Askers /\ u.asker # a
    <3>1. u \in Tasks
      BY <2>1, RangeIs
    <3>2. u.asker \in Askers /\ AskerOf[u] = u.asker
      BY <3>1 DEF Tasks, AskerOf
    <3>3. HasBy(AskerOf, Tail(tasks), u.asker)
      BY <2>1, <3>2, RangeIs DEF HasBy
    <3>4. QED
      BY <2>2, <3>1, <3>2, <3>3
  <2>5. Acceptable(c) \subseteq Nat
    BY <1>0, <2>1 DEF Acceptable, QueryingInv
  <2>6. atAsk' = IF a \in Blocking THEN [atAsk EXCEPT ![a] = Acceptable(c)] ELSE atAsk
    BY <1>2 DEF Get
  <2>7. /\ atAsk' \in [Askers -> SUBSET Nat] /\ \A b \in Askers : b # a => atAsk'[b] = atAsk[b]
        /\ Acceptable(c) \subseteq atAsk'[a]
    BY <2>1, <2>5, <2>6 DEF FreshInv
  <2>8. \A b \in Askers : (asks'[b] # {} => got'[b] = 0) /\ (got'[b] # 0 => got'[b] \in atAsk'[b])
    BY <2>1, <2>3, <2>7 DEF FreshInv
  <2>9. \A d \in Cells : \A b \in callbacks[d] : b \in Askers /\ b # a
    BY <2>3 DEF QueryingInv
  <2>10. CASE callbacks[c] = {} /\ cache[c] # 0 /\ c \notin aged
    <3> DEFINE u == [t EXCEPT !.kind = "callback", !.list = cache[c]]
    <3>1. /\ tasks' = Append(Tail(tasks), u) /\ UNCHANGED <<cache, callbacks, querying, queries>>
          /\ aged' = aged
      BY <1>2, <2>10 DEF Get, QueryingInv
    <3>2. u \in Tasks /\ u.kind = "callback" /\ u.asker = a /\ u.list = cache[c]
      BY <2>1 DEF Tasks, QueryingInv
    <3> HIDE DEF u
    <3>3. Range(tasks') = Range(Tail(tasks)) \cup {u}
      <4>1. \A s \in Seq(Tasks) : \A x \in Tasks : Range(Append(s, x)) = Range(s) \cup {x}
        BY RangeAppend
      <4>2. Tail(tasks) \in Seq(Tasks)
        BY <2>1
      <4>3. QED
        BY <3>1, <3>2, <4>1, <4>2, Zenon
    <3>4. u.list \in atAsk'[a]
      BY <2>7, <2>10, <3>2 DEF Acceptable
    <3>5. \A d : Acceptable(d)' = Acceptable(d)
      BY <3>1 DEF Acceptable
    <3>6. \A v \in Range(tasks') :
           /\ v.kind = "callback" => v.list \in atAsk'[v.asker]
           /\ v.kind = "get" /\ v.asker \notin Blocking => Acceptable(v.cell)' \subseteq atAsk'[v.asker]
      BY <2>1, <2>4, <2>7, <3>2, <3>3, <3>4, <3>5 DEF FreshInv
    <3>7. QED
      BY <2>1, <2>7, <2>8, <2>9, <3>1, <3>6 DEF FreshInv
  <2>11. CASE ~(callbacks[c] = {} /\ cache[c] # 0 /\ c \notin aged)
    <3>1. tasks' = Tail(tasks) /\ callbacks' = [callbacks EXCEPT ![c] = @ \cup {a}]
      BY <1>2, <2>11 DEF Get
    <3>2. \A d \in Cells : callbacks'[d] = IF d = c THEN callbacks[c] \cup {a} ELSE callbacks[d]
      BY <2>1, <3>1 DEF QueryingInv
    <3>3. CASE callbacks[c] # {}
      <4>1. UNCHANGED <<cache, aged, querying, queries>>
        BY <1>2, <3>3 DEF Get
      <4>2. \A d : Acceptable(d)' = Acceptable(d)
        BY <4>1 DEF Acceptable
      <4>3. querying'[c] \subseteq atAsk'[a]
        BY <2>7, <4>1 DEF Acceptable
      <4>4. \A d \in Cells : \A b \in callbacks'[d] : querying'[d] \subseteq atAsk'[b]
        BY <2>7, <2>9, <3>2, <4>1, <4>3 DEF FreshInv
      <4>5. \A v \in Range(tasks') :
           /\ v.kind = "callback" => v.list \in atAsk'[v.asker]
           /\ v.kind = "get" /\ v.asker \notin Blocking => Acceptable(v.cell)' \subseteq atAsk'[v.asker]
        BY <2>1, <2>4, <2>7, <3>1, <4>2 DEF FreshInv
      <4>6. QED
        BY <2>1, <2>7, <2>8, <4>4, <4>5 DEF FreshInv
    <3>4. CASE callbacks[c] = {}
      <4>1. /\ queries < MaxQueries /\ queries' = queries + 1
            /\ querying' = [querying EXCEPT ![c] = @ \cup {queries + 1}]
            /\ cache' = IF c \in aged THEN [cache EXCEPT ![c] = 0] ELSE cache
            /\ aged' = aged \ {c}
        BY <1>2, <2>11, <3>4 DEF Get, QueryingInv
      <4>2. \A d \in Cells : querying'[d] = IF d = c THEN querying[c] \cup {queries + 1} ELSE querying[d]
        BY <2>1, <4>1 DEF QueryingInv
      <4>3. cache'[c] = 0 /\ \A d \in Cells : d # c => cache'[d] = cache[d] /\ (d \in aged' <=> d \in aged)
        BY <2>1, <2>11, <3>4, <4>1 DEF QueryingInv
      <4>4. queries + 1 \in (queries + 1)..MaxQueries /\ (queries' + 1)..MaxQueries \subseteq (queries + 1)..MaxQueries
        BY <1>0, <4>1
      <4>5. \A d \in Cells : Acceptable(d)' \subseteq Acceptable(d)
        <5>1. ASSUME NEW d \in Cells, d # c
              PROVE  Acceptable(d)' \subseteq Acceptable(d)
          BY <4>2, <4>3, <4>4, <5>1 DEF Acceptable
        <5>2. ASSUME NEW d \in Cells, d = c
              PROVE  Acceptable(d)' \subseteq Acceptable(d)
          BY <4>2, <4>3, <4>4, <5>2 DEF Acceptable
        <5>3. QED
          BY <5>1, <5>2
      <4>6. querying'[c] \subseteq atAsk'[a]
        BY <2>1, <2>7, <4>2, <4>4 DEF Acceptable
      <4>7. \A d \in Cells : \A b \in callbacks'[d] : querying'[d] \subseteq atAsk'[b]
        BY <2>7, <2>9, <3>2, <3>4, <4>2, <4>6 DEF FreshInv
      <4>8. \A v \in Range(tasks') :
           /\ v.kind = "callback" => v.list \in atAsk'[v.asker]
           /\ v.kind = "get" /\ v.asker \notin Blocking => Acceptable(v.cell)' \subseteq atAsk'[v.asker]
        <5>1. \A v \in Range(tasks') : v.cell \in Cells
          BY <2>4, <3>1 DEF Tasks
        <5>2. QED
          BY <2>1, <2>4, <2>7, <3>1, <4>5, <5>1 DEF FreshInv
      <4>9. QED
        BY <2>1, <2>7, <2>8, <4>7, <4>8 DEF FreshInv
    <3>5. QED
      BY <3>3, <3>4
  <2>12. QED
    BY <2>10, <2>11
<1>3. CASE RunTask /\ Head(tasks).kind = "callback" /\ Callback(Head(tasks))
  <2> DEFINE t == Head(tasks)
             a == t.asker
  <2>1. /\ a \in Askers /\ tasks' = Tail(tasks) /\ UNCHANGED <<cache, aged, callbacks, querying, queries, atAsk>>
        /\ asks' = [asks EXCEPT ![a] = {}] /\ got' = [got EXCEPT ![a] = t.list] /\ t.kind = "callback"
        /\ t \in Tasks /\ Range(tasks) = {t} \cup Range(Tail(tasks))
    BY <1>3, FirstTask DEF RunTask, Callback
  <2>2. t.list \in atAsk[a] /\ t.list \in Nat
    BY <2>1 DEF FreshInv, Tasks
  <2>3. \A d : Acceptable(d)' = Acceptable(d)
    BY <2>1 DEF Acceptable
  <2> HIDE DEF a, t
  <2>4. got' \in [Askers -> Nat] /\ \A b \in Askers : got'[b] = IF b = a THEN t.list ELSE got[b]
    BY <2>1, <2>2 DEF FreshInv
  <2>5. \A b \in Askers : asks'[b] = IF b = a THEN {} ELSE asks[b]
    BY <2>1 DEF KnownInv
  <2>6. QED
    BY <2>1, <2>2, <2>3, <2>4, <2>5 DEF FreshInv
<1>4. ASSUME NEW c \in Cells, NEW n \in 1..MaxQueries, NEW ok \in BOOLEAN, ReceivedData(c, n, ok)
      PROVE  FreshInv'
  <2>1. /\ UNCHANGED <<aged, queries, asks, got, atAsk>> /\ n \in Nat /\ n # 0 /\ n \in querying[c]
        /\ querying' = [querying EXCEPT ![c] = @ \ {n}]
    BY <1>4 DEF ReceivedData, ListAssumption
  <2>2. \A d \in Cells : querying'[d] \subseteq querying[d]
    BY <2>1 DEF QueryingInv
  <2>3. CASE UNCHANGED <<callbacks, tasks, cache>>
    <3>1. \A d \in Cells : Acceptable(d)' \subseteq Acceptable(d)
      BY <2>1, <2>2, <2>3 DEF Acceptable
    <3>2. \A v \in Range(tasks) : v.cell \in Cells
      BY <1>0 DEF Tasks
    <3>3. QED
      BY <2>1, <2>2, <2>3, <3>1, <3>2 DEF FreshInv
  <2>4. CASE ~(UNCHANGED <<callbacks, tasks, cache>>)
    <3>1. callbacks' = [callbacks EXCEPT ![c] = {}] /\ cache' = [cache EXCEPT ![c] = n] /\ cache[c] = 0
      BY <1>4, <2>4 DEF ReceivedData
    <3>2. PICK order \in SetToSeqs(callbacks[c]) : tasks' = tasks \o Posted(order, c, n)
      BY <1>4, <2>4 DEF ReceivedData, Posted
    <3>3. /\ Range(tasks') = Range(tasks) \cup Range(Posted(order, c, n))
          /\ Range(Posted(order, c, n)) \subseteq [kind : {"callback"}, asker : callbacks[c], cell : {c}, list : {n}]
      BY <2>1, <3>2, PostedFacts
    <3>4. \A v \in Range(tasks') : \/ v \in Range(tasks) /\ v.cell \in Cells
                                   \/ v.kind = "callback" /\ v.asker \in callbacks[c] /\ v.list = n
      BY <1>0, <3>3 DEF Tasks
    <3>5. \A d \in Cells : Acceptable(d)' \subseteq Acceptable(d)
      <4>1. /\ \A d \in Cells : cache'[d] = IF d = c THEN n ELSE cache[d]
            /\ \A d \in Cells : querying'[d] = IF d = c THEN querying[c] \ {n} ELSE querying[d]
        BY <2>1, <3>1 DEF QueryingInv
      <4>2. QED
        BY <2>1, <4>1 DEF Acceptable
    <3>6. \A d \in Cells : callbacks'[d] \subseteq callbacks[d]
      BY <3>1 DEF QueryingInv
    <3>7. \A v \in Range(tasks') :
           /\ v.kind = "callback" => v.list \in atAsk'[v.asker]
           /\ v.kind = "get" /\ v.asker \notin Blocking => Acceptable(v.cell)' \subseteq atAsk'[v.asker]
      <4>1. \A b \in callbacks[c] : n \in atAsk[b]
        BY <2>1 DEF FreshInv
      <4>2. QED
        BY <2>1, <3>4, <3>5, <4>1 DEF FreshInv
    <3>8. \A d \in Cells : \A b \in callbacks'[d] : querying'[d] \subseteq atAsk'[b]
      BY <2>1, <2>2, <3>6 DEF FreshInv
    <3>9. QED
      BY <2>1, <3>7, <3>8 DEF FreshInv
  <2>5. QED
    BY <2>3, <2>4
<1>5. ASSUME NEW c \in Cells, CacheAges(c)
      PROVE  FreshInv'
  <2>1. /\ aged' = aged \cup {c}
        /\ UNCHANGED <<tasks, cache, callbacks, querying, queries, asks, got, atAsk>>
    BY <1>5 DEF CacheAges
  <2>2. \A d : Acceptable(d)' \subseteq Acceptable(d)
    BY <2>1 DEF Acceptable
  <2>3. QED
    BY <2>1, <2>2 DEF FreshInv
<1>6. CASE UNCHANGED listVars
  <2>1. \A d : Acceptable(d)' = Acceptable(d)
    BY <1>6 DEF Acceptable, listVars
  <2>2. QED
    BY <1>6, <2>1 DEF listVars, FreshInv
<1>7. QED
  BY <1>1, <1>2, <1>3, <1>4, <1>5, <1>6, ListCases DEF RunTask

(* The invariants hold together always.                                    *)
LEMMA ListInvAlways ==
  ASSUME ListAssumption
  PROVE  ListSpec => [](QueryingInv /\ KnownInv /\ FreshInv /\ dead \in BOOLEAN)
<1>1. ASSUME ListInit
      PROVE  QueryingInv /\ KnownInv /\ FreshInv /\ dead \in BOOLEAN
  <2>1. /\ tasks = <<>> /\ cache = [c \in Cells |-> 0] /\ aged = {}
        /\ callbacks = [c \in Cells |-> {}] /\ querying = [c \in Cells |-> {}] /\ queries = 0
        /\ asks = [a \in Askers |-> {}] /\ got = [a \in Askers |-> 0]
        /\ atAsk = [a \in Askers |-> {}] /\ dead = FALSE
    BY <1>1 DEF ListInit
  <2>2. QueryingInv
    BY <2>1, FS_EmptySet DEF QueryingInv, ListAssumption
  <2>3. KnownInv
    BY <2>1, EmptyBy DEF KnownInv
  <2>4. Range(tasks) = {}
    BY <2>1 DEF Range
  <2>5. FreshInv
    BY <2>1, <2>4 DEF FreshInv
  <2>6. QED
    BY <2>1, <2>2, <2>3, <2>5
<1>2. ASSUME dead \in BOOLEAN, [ListNext]_listVars
      PROVE  dead' \in BOOLEAN
  BY <1>2, ListCases DEF Ask, RunTask, ReceivedData, CacheAges, listVars
<1>3. ASSUME QueryingInv, KnownInv, FreshInv, dead \in BOOLEAN, [ListNext]_listVars
      PROVE  (QueryingInv /\ KnownInv /\ FreshInv /\ dead \in BOOLEAN)'
  BY <1>2, <1>3, QueryingStep, KnownStep, ListsFreshStep
<1>4. QED
  BY <1>1, <1>3, PTL DEF ListSpec

(* For every number of callers and cells, one query is under way per cell, *)
(* a caller who waits is a callback or has one posted for him, and the     *)
(* list he gets is not older than his question, except one from the cache  *)
(* that was young enough (GetCMList.cpp:133-243).                          *)
THEOREM CallersGetFreshLists ==
  ASSUME ListAssumption
  PROVE  ListSpec => [](OneQueryPerCell /\ AskersAreKnown /\ ListsAreFresh)
<1>1. ASSUME QueryingInv
      PROVE  OneQueryPerCell
  <2>1. ASSUME NEW c \in Cells
        PROVE  Cardinality(querying[c]) <= 1
    BY <1>1, AtMostOne DEF QueryingInv
  <2>2. QED
    BY <1>1, <2>1 DEF QueryingInv, OneQueryPerCell
<1>2. ASSUME QueryingInv, KnownInv
      PROVE  AskersAreKnown
  <2>1. ASSUME NEW a \in Askers, asks[a] # {}
        PROVE  Cardinality({i \in 1..Len(tasks) : tasks[i].asker = a})
                 + Cardinality({c \in Cells : a \in callbacks[c]}) = 1
    <3> DEFINE posts == {i \in 1..Len(tasks) : tasks[i].asker = a}
               cells == {c \in Cells : a \in callbacks[c]}
    <3>1. posts = {i \in 1..Len(tasks) : AskerOf[tasks[i]] = a}
      BY <1>2 DEF QueryingInv, AskerOf
    <3>2. Cardinality(posts) = IF HasBy(AskerOf, tasks, a) THEN 1 ELSE 0
      BY <1>2, <3>1, CountBy, SMTT(30) DEF QueryingInv, KnownInv
    <3>3. CASE HasBy(AskerOf, tasks, a)
      <4>1. cells = {}
        BY <1>2, <3>3 DEF KnownInv
      <4>2. Cardinality(cells) = 0
        BY <4>1, FS_EmptySet
      <4> HIDE DEF posts, cells
      <4>3. Cardinality(posts) + Cardinality(cells) = 1
        BY <3>2, <3>3, <4>2
      <4>4. QED
        BY <4>3 DEF posts, cells
    <3>4. CASE ~HasBy(AskerOf, tasks, a)
      <4>1. PICK c \in Cells : a \in callbacks[c]
        BY <1>2, <2>1, <3>4 DEF KnownInv
      <4>2. cells = {c}
        BY <1>2, <4>1 DEF KnownInv
      <4>3. Cardinality(cells) = 1
        BY <4>2, FS_Singleton
      <4> HIDE DEF posts, cells
      <4>4. Cardinality(posts) + Cardinality(cells) = 1
        BY <3>2, <3>4, <4>3
      <4>5. QED
        BY <4>4 DEF posts, cells
    <3>5. QED
      BY <3>3, <3>4
  <2>2. QED
    BY <2>1 DEF AskersAreKnown
<1>3. FreshInv => ListsAreFresh
  BY DEF FreshInv, ListsAreFresh
<1>4. QED
  BY <1>1, <1>2, <1>3, ListInvAlways, PTL

-----------------------------------------------------------------------------
(* Streams                                                                 *)

(* What an enqueued function is made of.                                   *)
Functs == [watcher : Watchers, action : {"start", "stop"}, urls : SUBSET Urls]
WatcherOf == [f \in Functs |-> f.watcher]

(* A caller that waits has made one function, which is queued or runs.     *)
CallingInv ==
  /\ functions \in Seq(Functs) /\ running \subseteq Functs
  /\ viewQuit \in BOOLEAN
  /\ calling \in [Watchers -> {"no", "yes", "true", "false", "cancelled"}]
  /\ running # {} => viewPc \in {"page", "tmpd"}
  /\ \A f, g \in running : f = g
  /\ DistinctBy(WatcherOf, functions)
  /\ \A f \in running : ~HasBy(WatcherOf, functions, f.watcher)
  /\ ~viewQuit => /\ \A w \in Watchers : HasBy(WatcherOf, functions, w) => calling[w] = "yes"
                  /\ \A f \in running : calling[f.watcher] = "yes"
  /\ viewQuit => \A w \in Watchers : calling[w] # "yes"
  /\ \A w \in Watchers : calling[w] = "yes" => \/ HasBy(WatcherOf, functions, w)
                                               \/ \E f \in running : f.watcher = w

(* The function that runs next is of a caller who has no other.            *)
LEMMA FirstFunction ==
  ASSUME CallingInv, functions # <<>>
  PROVE  /\ Head(functions) \in Functs /\ Tail(functions) \in Seq(Functs)
         /\ Head(functions).watcher \in Watchers
         /\ DistinctBy(WatcherOf, Tail(functions))
         /\ HasBy(WatcherOf, functions, Head(functions).watcher)
         /\ \A w : HasBy(WatcherOf, Tail(functions), w) <=>
                     HasBy(WatcherOf, functions, w) /\ w # Head(functions).watcher
<1>1. Head(functions) \in Functs /\ Tail(functions) \in Seq(Functs)
  BY DEF CallingInv
<1>2. Head(functions).watcher \in Watchers /\ WatcherOf[Head(functions)] = Head(functions).watcher
  BY <1>1 DEF Functs, WatcherOf
<1>3. /\ DistinctBy(WatcherOf, Tail(functions))
      /\ HasBy(WatcherOf, functions, WatcherOf[Head(functions)])
      /\ \A w : HasBy(WatcherOf, Tail(functions), w) <=>
                  HasBy(WatcherOf, functions, w) /\ w # WatcherOf[Head(functions)]
  BY TailBy DEF CallingInv
<1>4. QED
  BY <1>1, <1>2, <1>3

(* The steps of the streams, one disjunct for each.                        *)
LEMMA StreamCases ==
  ASSUME [StreamNext]_streamVars
  PROVE  \/ \E w \in Watchers, urls \in SUBSET Urls, action \in {"start", "stop"} : ViewAction(w, action, urls)
         \/ \E w \in Watchers : Returned(w)
         \/ \E i \in 1..MaxStreams : BeatDue(i)
         \/ RoundBegins \/ HeartbeatAnswered
         \/ \E ok \in BOOLEAN : StartAnswered(ok)
         \/ ViewQuit \/ CancelledStart \/ ModuleEnds
         \/ UNCHANGED streamVars
BY DEF StreamNext

(* A round of the module: heartbeats, then one function.                   *)
LEMMA RoundStep ==
  ASSUME CallingInv, viewPc \in {"wait", "beat"}, ~viewQuit, viewQuit' = viewQuit, NEW k, BeatsFrom(k)
  PROVE  CallingInv'
<1>1. running = {}
  BY DEF CallingInv
<1>2. CASE viewPc' = "beat" /\ UNCHANGED <<functions, running, calling>>
  BY <1>1, <1>2 DEF CallingInv
<1>3. CASE RunFunction
  <2>1. CASE functions = <<>>
    BY <1>1, <1>3, <2>1 DEF RunFunction, CallingInv
  <2>2. CASE functions # <<>>
    <3> DEFINE f == Head(functions)
    <3>1. /\ f \in Functs /\ Tail(functions) \in Seq(Functs) /\ f.watcher \in Watchers
          /\ DistinctBy(WatcherOf, Tail(functions))
          /\ HasBy(WatcherOf, functions, f.watcher)
          /\ \A w : HasBy(WatcherOf, Tail(functions), w) <=>
                      HasBy(WatcherOf, functions, w) /\ w # f.watcher
      BY <2>2, FirstFunction
    <3>2. functions' = Tail(functions)
      BY <1>3, <2>2 DEF RunFunction
    <3>3. CASE f.action = "start"
      <4>1. viewPc' = "page" /\ running' = {f} /\ calling' = calling
        BY <1>3, <2>2, <3>3 DEF RunFunction
      <4> HIDE DEF f
      <4>2. QED
        BY <1>1, <3>1, <3>2, <4>1 DEF CallingInv
    <3>4. CASE f.action # "start"
      <4>1. /\ viewPc' = "wait" /\ running' = running
            /\ calling' = [calling EXCEPT ![f.watcher] = IF @ = "yes" THEN "true" ELSE @]
        BY <1>3, <2>2, <3>4 DEF RunFunction, Complete
      <4> HIDE DEF f
      <4>2. /\ calling' \in [Watchers -> {"no", "yes", "true", "false", "cancelled"}]
            /\ calling'[f.watcher] # "yes"
            /\ \A w \in Watchers : w # f.watcher => calling'[w] = calling[w]
        BY <3>1, <4>1 DEF CallingInv
      <4>3. QED
        BY <1>1, <3>1, <3>2, <4>1, <4>2 DEF CallingInv
    <3>5. QED
      BY <3>3, <3>4
  <2>3. QED
    BY <2>1, <2>2
<1>4. QED
  BY <1>2, <1>3 DEF BeatsFrom

(* A caller makes one function and waits until it has run.                 *)
LEMMA CallingStep ==
  ASSUME CallingInv, [StreamNext]_streamVars
  PROVE  CallingInv'
<1>1. ASSUME NEW w \in Watchers, NEW urls \in SUBSET Urls, NEW action \in {"start", "stop"},
             ViewAction(w, action, urls)
      PROVE  CallingInv'
  <2> DEFINE f == [watcher |-> w, action |-> action, urls |-> urls]
  <2>1. /\ calling[w] = "no" /\ ~viewQuit /\ functions' = Append(functions, f)
        /\ calling' = [calling EXCEPT ![w] = "yes"] /\ UNCHANGED <<viewPc, running, viewQuit>>
    BY <1>1 DEF ViewAction
  <2>2. f \in Functs /\ f.watcher = w /\ WatcherOf[f] = w
    BY DEF Functs, WatcherOf
  <2> HIDE DEF f
  <2>3. ~HasBy(WatcherOf, functions, w) /\ \A g \in running : g.watcher # w
    BY <2>1 DEF CallingInv
  <2>4. /\ functions' \in Seq(Functs) /\ DistinctBy(WatcherOf, functions')
        /\ \A y : HasBy(WatcherOf, functions', y) <=> HasBy(WatcherOf, functions, y) \/ y = w
    BY <2>1, <2>2, <2>3, AppendBy DEF CallingInv
  <2>5. QED
    BY <2>1, <2>3, <2>4 DEF CallingInv
<1>2. ASSUME NEW w \in Watchers, Returned(w)
      PROVE  CallingInv'
  <2>1. /\ calling[w] \in {"true", "false"} /\ calling' = [calling EXCEPT ![w] = "no"]
        /\ UNCHANGED <<functions, viewPc, running, viewQuit>>
    BY <1>2 DEF Returned
  <2>2. /\ calling' \in [Watchers -> {"no", "yes", "true", "false", "cancelled"}]
        /\ \A v \in Watchers : calling'[v] = "yes" <=> calling[v] = "yes"
    BY <2>1 DEF CallingInv
  <2>3. \A g \in running : g.watcher \in Watchers
    BY DEF CallingInv, Functs
  <2>4. QED
    BY <2>1, <2>2, <2>3 DEF CallingInv
<1>3. CASE RoundBegins \/ HeartbeatAnswered
  BY <1>3, RoundStep DEF RoundBegins, HeartbeatAnswered
<1>4. ASSUME NEW ok \in BOOLEAN, StartAnswered(ok)
      PROVE  CallingInv'
  <2>1. PICK f \in running :
          IF ok /\ viewPc = "page" THEN viewPc' = "tmpd" /\ UNCHANGED <<running, streams, calling>>
          ELSE /\ running' = {} /\ viewPc' = "wait"
               /\ calling' = [calling EXCEPT ![f.watcher] = IF @ = "yes" THEN IF ok THEN "true" ELSE "false" ELSE @]
    BY <1>4 DEF StartAnswered, Complete
  <2>2. ~viewQuit /\ UNCHANGED <<functions, viewQuit>>
    BY <1>4 DEF StartAnswered
  <2>3. CASE ok /\ viewPc = "page"
    BY <2>1, <2>2, <2>3 DEF CallingInv
  <2>4. CASE ~(ok /\ viewPc = "page")
    <3>1. running' = {} /\ viewPc' = "wait" /\ f.watcher \in Watchers
      BY <2>1, <2>4 DEF CallingInv, Functs
    <3>2. /\ calling' \in [Watchers -> {"no", "yes", "true", "false", "cancelled"}]
          /\ calling'[f.watcher] # "yes"
          /\ \A v \in Watchers : v # f.watcher => calling'[v] = calling[v]
      BY <2>1, <2>4, <3>1 DEF CallingInv
    <3>3. QED
      BY <2>1, <2>2, <3>1, <3>2 DEF CallingInv
  <2>5. QED
    BY <2>3, <2>4
<1>5. CASE ViewQuit
  <2>1. /\ ~viewQuit /\ viewQuit' = TRUE /\ UNCHANGED <<functions, running>>
        /\ calling' = [w \in Watchers |-> IF calling[w] = "yes" THEN "cancelled" ELSE calling[w]]
        /\ viewPc \in {"page", "tmpd"} => viewPc' = viewPc
    BY <1>5 DEF ViewQuit
  <2>2. /\ calling' \in [Watchers -> {"no", "yes", "true", "false", "cancelled"}]
        /\ \A v \in Watchers : calling'[v] # "yes"
    BY <2>1 DEF CallingInv
  <2>3. QED
    BY <2>1, <2>2 DEF CallingInv
<1>6. CASE CancelledStart
  BY <1>6 DEF CancelledStart, CallingInv
<1>7. CASE ModuleEnds
  BY <1>7 DEF ModuleEnds, CallingInv
<1>8. ASSUME NEW i, BeatDue(i)
      PROVE  CallingInv'
  BY <1>8 DEF BeatDue, CallingInv
<1>9. CASE UNCHANGED streamVars
  BY <1>9 DEF streamVars, CallingInv
<1>10. QED
  BY <1>1, <1>2, <1>3, <1>4, <1>5, <1>6, <1>7, <1>8, <1>9, StreamCases

(* The streams, and those that have had a heartbeat among them.            *)
Watched == [url : Urls, due : BOOLEAN]
BeatingInv ==
  /\ streams \in Seq(Watched) /\ beatNext \in Nat /\ (viewPc = "beat" => beatNext # 0)
  /\ \A u \in beats : \E s \in Range(streams) : s.url = u

(* Whether a stream is due says nothing of its url.                        *)
LEMMA DueChanges ==
  ASSUME BeatingInv, NEW i \in 1..Len(streams), NEW due \in BOOLEAN,
         streams' = [streams EXCEPT ![i].due = due]
  PROVE  /\ streams' \in Seq(Watched)
         /\ \A s \in Range(streams) : \E t \in Range(streams') : t.url = s.url
<1>1. streams \in Seq(Watched) /\ streams[i] \in Watched /\ Len(streams) \in Nat
  BY DEF BeatingInv
<1> DEFINE t == [streams[i] EXCEPT !.due = due]
<1>2. t \in Watched /\ t.url = streams[i].url /\ streams' = [streams EXCEPT ![i] = t]
  BY <1>1 DEF Watched
<1> HIDE DEF t
<1>3. /\ streams' \in Seq(Watched) /\ Len(streams') = Len(streams) /\ streams'[i] = t
      /\ \A j \in 1..Len(streams) : j # i => streams'[j] = streams[j]
  BY <1>1, <1>2, OneOtherElement
<1>4. ASSUME NEW s \in Range(streams)
      PROVE  \E r \in Range(streams') : r.url = s.url
  <2>1. PICK j \in 1..Len(streams) : s = streams[j]
    BY <1>1, RangeIs
  <2>2. streams'[j].url = s.url
    BY <1>2, <1>3, <2>1
  <2>3. streams'[j] \in Range(streams')
    <3>1. \A q \in Seq(Watched) : q[j] \in Range(q) \/ j \notin 1..Len(q)
      BY RangeIs
    <3>2. QED
      BY <1>3, <3>1
  <2>4. QED
    BY <2>2, <2>3
<1>5. QED
  BY <1>3, <1>4

(* A heartbeat is sent for a stream that is there, and those of a url go   *)
(* together.                                                               *)
LEMMA RoundBeats ==
  ASSUME CallingInv, BeatingInv, NEW k \in Nat \ {0}, BeatsFrom(k)
  PROVE  BeatingInv'
<1>1. streams \in Seq(Watched) /\ Len(streams) \in Nat
  BY DEF BeatingInv
<1> DEFINE due == {i \in k..Len(streams) : streams[i].due}
<1>2. CASE due = {}
  <2>1. RunFunction
    BY <1>2 DEF BeatsFrom
  <2>0. beatNext' = beatNext /\ viewPc' # "beat"
    BY <1>2, <2>1 DEF BeatsFrom, RunFunction
  <2>2. CASE streams' = streams /\ beats' = beats
    BY <2>0, <2>2 DEF BeatingInv
  <2>3. CASE ~(streams' = streams /\ beats' = beats)
    <3> DEFINE f == Head(functions)
               others == {s \in Range(streams) : s.url \notin f.urls}
    <3>1. streams' = Kept(streams, others) /\ beats' = beats \ f.urls
      BY <2>1, <2>3 DEF RunFunction
    <3>2. Kept(streams, others) \in Seq(Watched) /\ Range(Kept(streams, others)) = Range(streams) \cap others
      BY <1>1, KeptRange
    <3>3. Range(streams') = others
      BY <3>1, <3>2
    <3> HIDE DEF f
    <3>4. ASSUME NEW u \in beats'
          PROVE  \E s \in Range(streams') : s.url = u
      <4>1. u \in beats /\ u \notin f.urls
        BY <3>1
      <4>2. PICK s \in Range(streams) : s.url = u
        BY <4>1 DEF BeatingInv
      <4>3. QED
        BY <3>3, <4>1, <4>2
    <3>5. QED
      BY <2>0, <3>1, <3>2, <3>4 DEF BeatingInv
  <2>4. QED
    BY <2>2, <2>3
<1>3. CASE due # {}
  <2>1. due \in SUBSET (1..Len(streams))
    BY <1>1
  <2> DEFINE i == Min(due)
  <2>2. i \in 1..Len(streams)
    <3>1. i \in due
      <4>1. due \in SUBSET Nat
        BY <2>1
      <4> HIDE DEF due
      <4>2. QED
        BY <1>3, <4>1, LeastIndex
    <3>2. QED
      BY <2>1, <3>1
  <2>3. streams' = [streams EXCEPT ![i].due = FALSE] /\ beats' = beats \cup {streams[i].url}
    BY <1>3 DEF BeatsFrom
  <2>0. beatNext' = i + 1 /\ i + 1 \in Nat \ {0}
    BY <1>3, <2>2 DEF BeatsFrom
  <2> HIDE DEF i, due
  <2>4. /\ streams' \in Seq(Watched)
        /\ \A s \in Range(streams) : \E t \in Range(streams') : t.url = s.url
    BY <2>2, <2>3, DueChanges
  <2>5. streams[i] \in Range(streams)
    BY <1>1, <2>2, RangeIs
  <2>6. ASSUME NEW u \in beats'
        PROVE  \E s \in Range(streams') : s.url = u
    <3>1. u \in beats \/ u = streams[i].url
      BY <2>3
    <3>2. \E s \in Range(streams) : s.url = u
      BY <2>5, <3>1 DEF BeatingInv
    <3>3. QED
      BY <2>4, <3>2
  <2>7. QED
    BY <2>0, <2>4, <2>6 DEF BeatingInv
<1>4. QED
  BY <1>2, <1>3

(* The streams and their heartbeats stay together.                         *)
LEMMA BeatingStep ==
  ASSUME CallingInv, BeatingInv, [StreamNext]_streamVars
  PROVE  BeatingInv'
<1>1. CASE UNCHANGED <<streams, beats, beatNext>> /\ (viewPc' = "beat" => viewPc = "beat")
  BY <1>1 DEF BeatingInv
<1>2. ASSUME NEW i, BeatDue(i)
      PROVE  BeatingInv'
  <2>1. i \in 1..Len(streams) /\ streams' = [streams EXCEPT ![i].due = TRUE]
       /\ UNCHANGED <<beats, beatNext, viewPc>>
    BY <1>2 DEF BeatDue
  <2>2. /\ streams' \in Seq(Watched)
        /\ \A s \in Range(streams) : \E t \in Range(streams') : t.url = s.url
    BY <2>1, DueChanges
  <2>3. ASSUME NEW u \in beats'
        PROVE  \E s \in Range(streams') : s.url = u
    <3>1. PICK s \in Range(streams) : s.url = u
      BY <2>1 DEF BeatingInv
    <3>2. QED
      BY <2>2, <3>1
  <2>4. QED
    BY <2>1, <2>2, <2>3 DEF BeatingInv
<1>3. CASE RoundBegins
  BY <1>3, RoundBeats DEF RoundBegins
<1>4. CASE HeartbeatAnswered
  <2>1. beatNext \in Nat \ {0} /\ BeatsFrom(beatNext)
    BY <1>4 DEF HeartbeatAnswered, BeatingInv
  <2>2. QED
    BY <2>1, RoundBeats
<1>5. ASSUME NEW ok \in BOOLEAN, StartAnswered(ok), streams' # streams
      PROVE  BeatingInv'
  <2>1. UNCHANGED <<beats, beatNext>> /\ viewPc' = "wait"
    BY <1>5 DEF StartAnswered
  <2>2. PICK f \in running : \E u \in f.urls : streams' = Append(streams, [url |-> u, due |-> TRUE])
    BY <1>5, <2>1 DEF StartAnswered
  <2>3. PICK u \in f.urls : streams' = Append(streams, [url |-> u, due |-> TRUE])
    BY <2>2
  <2>4. f \in Functs
    BY <2>2 DEF CallingInv
  <2>5. [url |-> u, due |-> TRUE] \in Watched
    BY <2>3, <2>4 DEF Functs, Watched
  <2>6. streams' \in Seq(Watched) /\ Range(streams') = Range(streams) \cup {[url |-> u, due |-> TRUE]}
    <3>1. \A x \in Watched : /\ Append(streams, x) \in Seq(Watched)
                              /\ Range(Append(streams, x)) = Range(streams) \cup {x}
      BY RangeAppend DEF BeatingInv
    <3>2. QED
      BY <2>3, <2>5, <3>1
  <2>7. QED
    BY <2>1, <2>6 DEF BeatingInv
<1>6. \/ UNCHANGED <<streams, beats, beatNext>> /\ (viewPc' = "beat" => viewPc = "beat")
      \/ \E i \in 1..MaxStreams : BeatDue(i)
      \/ RoundBegins \/ HeartbeatAnswered
      \/ \E ok \in BOOLEAN : StartAnswered(ok) /\ streams' # streams
  BY StreamCases DEF ViewAction, Returned, StartAnswered, ViewQuit, CancelledStart, ModuleEnds, streamVars
<1>7. QED
  BY <1>1, <1>2, <1>3, <1>4, <1>5, <1>6

(* The callers and the streams are as described in every state.            *)
LEMMA StreamsInvAlways ==
  ASSUME StreamAssumption
  PROVE  StreamSpec => [](CallingInv /\ BeatingInv)
<1>1. ASSUME StreamInit
      PROVE  CallingInv /\ BeatingInv
  <2>1. /\ functions = <<>> /\ running = {} /\ calling = [w \in Watchers |-> "no"] /\ viewQuit = FALSE
    BY <1>1 DEF StreamInit
  <2>2. DistinctBy(WatcherOf, functions) /\ \A w : ~HasBy(WatcherOf, functions, w)
    BY <2>1, EmptyBy
  <2>3. /\ functions \in Seq(Functs)
        /\ calling \in [Watchers -> {"no", "yes", "true", "false", "cancelled"}]
        /\ \A w \in Watchers : calling[w] # "yes"
    BY <2>1
  <2>4. BeatingInv
    <3>1. streams = <<>> /\ beats = {} /\ beatNext = 0 /\ viewPc = "wait"
      BY <1>1 DEF StreamInit
    <3>2. QED
      BY <3>1 DEF BeatingInv
  <2>5. QED
    BY <2>1, <2>2, <2>3, <2>4 DEF CallingInv
<1>2. QED
  BY <1>1, CallingStep, BeatingStep, PTL DEF StreamSpec

(* For every number of callers, each one that waits in start() or stop()   *)
(* has a function queued or running, and the urls the module uses then are *)
(* of a caller who is still there; and no heartbeat goes out for a stream  *)
(* that has been stopped (ViewStream.cpp:352-466).                         *)
THEOREM CallersOfStreamsAreServed ==
  ASSUME StreamAssumption
  PROVE  StreamSpec => [](CallersHaveFunctions /\ UrlPointersAreValid /\ OnlyLiveStreamsBeat)
<1>1. ASSUME CallingInv
      PROVE  UrlPointersAreValid
  BY <1>1, FirstFunction DEF CallingInv, UrlPointersAreValid
<1>2. ASSUME CallingInv
      PROVE  CallersHaveFunctions
  <2>1. ASSUME NEW w \in Watchers, calling[w] = "yes"
        PROVE  Cardinality({i \in 1..Len(functions) : functions[i].watcher = w})
                 + Cardinality({f \in running : f.watcher = w}) = 1
    <3> DEFINE queuedOnes == {i \in 1..Len(functions) : functions[i].watcher = w}
               runs == {f \in running : f.watcher = w}
    <3>1. queuedOnes = {i \in 1..Len(functions) : WatcherOf[functions[i]] = w}
      BY <1>2 DEF CallingInv, WatcherOf
    <3>2. Cardinality(queuedOnes) = IF HasBy(WatcherOf, functions, w) THEN 1 ELSE 0
      BY <1>2, <3>1, CountBy DEF CallingInv
    <3>3. Cardinality(runs) = IF HasBy(WatcherOf, functions, w) THEN 0 ELSE 1
      <4>1. CASE HasBy(WatcherOf, functions, w)
        <5>1. runs = {}
          BY <1>2, <4>1 DEF CallingInv
        <5>2. QED
          BY <4>1, <5>1, FS_EmptySet
      <4>2. CASE ~HasBy(WatcherOf, functions, w)
        <5>1. PICK f \in running : f.watcher = w
          BY <1>2, <2>1, <4>2 DEF CallingInv
        <5>2. runs = {f}
          BY <1>2, <5>1 DEF CallingInv
        <5>3. QED
          BY <4>2, <5>2, FS_Singleton
      <4>3. QED
        BY <4>1, <4>2
    <3> HIDE DEF queuedOnes, runs
    <3>4. Cardinality(queuedOnes) + Cardinality(runs) = 1
      BY <3>2, <3>3
    <3>5. QED
      BY <3>4 DEF queuedOnes, runs
  <2>2. QED
    BY <2>1 DEF CallersHaveFunctions
<1>3. ASSUME BeatingInv
      PROVE  OnlyLiveStreamsBeat
  <2>1. \A s \in Range(streams) : \E i \in 1..Len(streams) : s = streams[i]
    BY <1>3, RangeIs DEF BeatingInv
  <2>2. QED
    BY <1>3, <2>1 DEF BeatingInv, OnlyLiveStreamsBeat
<1>4. QED
  BY <1>1, <1>2, <1>3, StreamsInvAlways, PTL

-----------------------------------------------------------------------------
(* Accounts                                                                *)

\* "free" is no account's name.
NobodyIsFree == "free" \notin AccountThreads

(* What a thread can be at.                                                *)
Doings == {"off", "display", "load", "setString", "idle", "search", "names", "store"}

(* Who has locked which mutex, and who does not have one.                  *)
HoldersInv ==
  /\ registryHolder \in AccountThreads \cup {"free"}
  /\ fileHolder \in [Accounts -> AccountThreads \cup {"free"}]
  /\ op \in [AccountThreads -> Doings]
  /\ \A c \in AccountThreads : registryHolder = c => op[c] \in {"display", "search", "names"}
  /\ \A a \in Accounts, c \in AccountThreads : fileHolder[a] = c => c = a /\ op[c] = "setString"
  /\ \A c \in AccountThreads : op[c] \in {"display", "setString"} => c \in Accounts
  /\ \A c \in Accounts : op[c] = "setString" => fileHolder[c] = c

(* What a search goes through.                                             *)
SearchInv ==
  /\ registered \subseteq Accounts
  /\ accountTodo \in [AccountThreads -> SUBSET (Accounts \cup Kinds)]
  /\ \A c \in AccountThreads : op[c] \in {"search", "names"} => accountTodo[c] \subseteq Accounts

(* The steps of the accounts, one disjunct for each.                       *)
LEMMA AccountCases ==
  ASSUME [AccountNext]_accountVars
  PROVE  \/ \E c \in Accounts :
              \/ Create(c) \/ Launch(c) \/ DisplayName(c) \/ LoadBotName(c) \/ Loaded(c)
              \/ StoreItem(c) \/ Quit(c)
              \/ \E kind \in Kinds : LoadSetting(c, kind)
              \/ \E kind \in Kinds, v \in Values \cup {""} : ChangeValue(c, kind, v)
         \/ \E c \in AccountThreads :
              \/ Find(c) \/ (\E names \in SUBSET registered : ReadNames(c, names))
              \/ \E a \in registered : Examine(c, a)
         \/ UNCHANGED accountVars
<1>1. \A a \in registered : {a} \in SUBSET registered
  OBVIOUS
<1>2. QED
  BY <1>1 DEF AccountNext

(* A step of one thread leaves the other threads' places alone.            *)
LEMMA HoldersStep ==
  ASSUME NobodyIsFree, HoldersInv, [AccountNext]_accountVars
  PROVE  HoldersInv'
<1>0. Accounts \subseteq AccountThreads
  BY DEF AccountThreads
<1>1. ASSUME NEW c \in Accounts, Create(c)
      PROVE  HoldersInv'
  BY <1>1 DEF Create, HoldersInv
<1>2. ASSUME NEW c \in Accounts, Launch(c)
      PROVE  HoldersInv'
  BY <1>0, <1>2 DEF Launch, HoldersInv, NobodyIsFree, Doings
<1>3. ASSUME NEW c \in Accounts, DisplayName(c)
      PROVE  HoldersInv'
  BY <1>0, <1>3 DEF DisplayName, HoldersInv, NobodyIsFree, Doings
<1>4. ASSUME NEW c \in Accounts, NEW kind \in Kinds, LoadSetting(c, kind)
      PROVE  HoldersInv'
  <2>1. CASE fileHolder' = [fileHolder EXCEPT ![c] = c] /\ op' = [op EXCEPT ![c] = "setString"]
    <3>1. /\ op[c] = "load" /\ fileHolder[c] = "free" /\ registryHolder' = registryHolder
      BY <1>4 DEF LoadSetting
    <3>2. QED
      BY <1>0, <2>1, <3>1 DEF HoldersInv, Doings
  <2>2. CASE UNCHANGED <<registryHolder, fileHolder, op>>
    BY <2>2 DEF HoldersInv
  <2>3. QED
    BY <1>4, <2>1, <2>2 DEF LoadSetting
<1>5. ASSUME NEW c \in Accounts, LoadBotName(c)
      PROVE  HoldersInv'
  <2>1. /\ op[c] = "setString" /\ registryHolder = "free" /\ registryHolder' = registryHolder
        /\ fileHolder' = [fileHolder EXCEPT ![c] = "free"] /\ op' = [op EXCEPT ![c] = "load"]
    BY <1>5 DEF LoadBotName
  <2>2. QED
    BY <1>0, <2>1 DEF HoldersInv, NobodyIsFree, Doings
<1>6. ASSUME NEW c \in Accounts, Loaded(c) \/ Quit(c)
      PROVE  HoldersInv'
  <2>1. /\ op[c] \in {"load", "idle"} /\ UNCHANGED <<registryHolder, fileHolder>>
        /\ op' = [op EXCEPT ![c] = "idle"] \/ op' = [op EXCEPT ![c] = "off"]
    BY <1>6 DEF Loaded, Quit
  <2>2. QED
    BY <1>0, <2>1 DEF HoldersInv, Doings
<1>7. ASSUME NEW c \in AccountThreads, Find(c) \/ \E names \in SUBSET registered : ReadNames(c, names)
      PROVE  HoldersInv'
  <2>1. /\ op[c] = "idle" /\ registryHolder' = c /\ fileHolder' = fileHolder
        /\ op' = [op EXCEPT ![c] = "search"] \/ op' = [op EXCEPT ![c] = "names"]
        /\ registryHolder = "free"
    BY <1>7 DEF Find, ReadNames
  <2>2. QED
    BY <1>0, <2>1 DEF HoldersInv, NobodyIsFree, Doings
<1>8. ASSUME NEW c \in AccountThreads, NEW a \in registered, Examine(c, a)
      PROVE  HoldersInv'
  <2>1. /\ op[c] \in {"search", "names"} /\ fileHolder' = fileHolder
        /\ \/ registryHolder' = "free" /\ op' = [op EXCEPT ![c] = "idle"]
           \/ UNCHANGED <<registryHolder, op>>
    BY <1>8 DEF Examine
  <2>2. QED
    BY <1>0, <2>1 DEF HoldersInv, NobodyIsFree, Doings
<1>9. ASSUME NEW c \in Accounts, NEW kind \in Kinds, NEW v \in Values \cup {""}, ChangeValue(c, kind, v)
      PROVE  HoldersInv'
  <2>1. /\ op[c] = "idle" /\ op' = [op EXCEPT ![c] = "store"] /\ UNCHANGED <<registryHolder, fileHolder>>
    BY <1>9 DEF ChangeValue
  <2>2. QED
    BY <1>0, <2>1 DEF HoldersInv, Doings
<1>10. ASSUME NEW c \in Accounts, StoreItem(c)
       PROVE  HoldersInv'
  <2>1. /\ op[c] = "store" /\ op' = [op EXCEPT ![c] = "idle"] /\ UNCHANGED <<registryHolder, fileHolder>>
    BY <1>10 DEF StoreItem
  <2>2. QED
    BY <1>0, <2>1 DEF HoldersInv, Doings
<1>11. CASE UNCHANGED accountVars
  BY <1>11 DEF HoldersInv, accountVars
<1>12. QED
  BY <1>1, <1>2, <1>3, <1>4, <1>5, <1>6, <1>7, <1>8, <1>9, <1>10, <1>11, AccountCases

(* A search goes through registered accounts only.                         *)
LEMMA SearchStep ==
  ASSUME HoldersInv, SearchInv, [AccountNext]_accountVars
  PROVE  SearchInv'
<1>0. Accounts \subseteq AccountThreads
  BY DEF AccountThreads
<1>1. ASSUME NEW c \in Accounts, Create(c)
      PROVE  SearchInv'
  BY <1>1 DEF Create, SearchInv
<1>2. ASSUME NEW c \in Accounts, NEW s \in {"display", "setString", "load", "idle", "store", "off"},
             UNCHANGED <<registered, accountTodo>>, op' = [op EXCEPT ![c] = s]
      PROVE  SearchInv'
  BY <1>0, <1>2 DEF SearchInv, HoldersInv
<1>3. ASSUME NEW c \in Accounts, NEW s \in {"load"}, NEW some \in SUBSET Kinds,
             registered' = registered, op' = [op EXCEPT ![c] = s], accountTodo' = [accountTodo EXCEPT ![c] = some]
      PROVE  SearchInv'
  BY <1>0, <1>3 DEF SearchInv, HoldersInv
<1>4. ASSUME NEW c \in Accounts, Launch(c) \/ Loaded(c) \/ StoreItem(c) \/ Quit(c)
      PROVE  SearchInv'
  <2>1. /\ UNCHANGED <<registered, accountTodo>>
        /\ \E s \in {"display", "setString", "load", "idle", "store", "off"} : op' = [op EXCEPT ![c] = s]
    BY <1>4 DEF Launch, Loaded, StoreItem, Quit
  <2>2. QED
    BY <1>2, <2>1
<1>5. ASSUME NEW c \in Accounts, DisplayName(c)
      PROVE  SearchInv'
  BY <1>3, <1>5 DEF DisplayName
<1>6. ASSUME NEW c \in Accounts, NEW kind, op[c] = "load",
             registered' = registered, accountTodo' = [accountTodo EXCEPT ![c] = @ \ {kind}], op' = op
      PROVE  SearchInv'
  BY <1>0, <1>6 DEF SearchInv, HoldersInv
<1>7. ASSUME NEW c \in Accounts, NEW kind \in Kinds, LoadSetting(c, kind)
      PROVE  SearchInv'
  <2>1. op[c] = "load" /\ registered' = registered
    BY <1>7 DEF LoadSetting
  <2>2. \/ op' = [op EXCEPT ![c] = "setString"] /\ accountTodo' = accountTodo
        \/ accountTodo' = [accountTodo EXCEPT ![c] = @ \ {kind}] /\ op' = op
    BY <1>7 DEF LoadSetting
  <2>3. QED
    BY <1>2, <1>6, <2>1, <2>2
<1>8. ASSUME NEW c \in Accounts, LoadBotName(c)
      PROVE  SearchInv'
  <2>1. /\ registered' = registered /\ op' = [op EXCEPT ![c] = "load"]
        /\ accountTodo' = [accountTodo EXCEPT ![c] = @ \ {"BotName"}]
    BY <1>8 DEF LoadBotName
  <2>2. QED
    BY <1>0, <2>1 DEF SearchInv, HoldersInv
<1>9. ASSUME NEW c \in AccountThreads, Find(c) \/ \E names \in SUBSET registered : ReadNames(c, names)
      PROVE  SearchInv'
  <2>1. /\ registered' = registered
        /\ op' = [op EXCEPT ![c] = "search"] \/ op' = [op EXCEPT ![c] = "names"]
        /\ \E some \in SUBSET registered : accountTodo' = [accountTodo EXCEPT ![c] = some]
    BY <1>9 DEF Find, ReadNames
  <2>2. QED
    BY <2>1 DEF SearchInv, HoldersInv
<1>10. ASSUME NEW c \in AccountThreads, NEW a \in registered, Examine(c, a)
       PROVE  SearchInv'
  <2>1. op[c] \in {"search", "names"} /\ registered' = registered
    BY <1>10 DEF Examine
  <2>2. \E some \in SUBSET accountTodo[c] : accountTodo' = [accountTodo EXCEPT ![c] = some]
    BY <1>10 DEF Examine
  <2>3. op' = op \/ op' = [op EXCEPT ![c] = "idle"]
    BY <1>10 DEF Examine
  <2>4. QED
    BY <2>1, <2>2, <2>3 DEF SearchInv, HoldersInv
<1>11. ASSUME NEW c \in Accounts, NEW kind \in Kinds, NEW v \in Values \cup {""}, ChangeValue(c, kind, v)
       PROVE  SearchInv'
  BY <1>2, <1>11 DEF ChangeValue
<1>12. CASE UNCHANGED accountVars
  BY <1>12 DEF SearchInv, accountVars
<1>13. QED
  BY <1>1, <1>4, <1>5, <1>7, <1>8, <1>9, <1>10, <1>11, <1>12, AccountCases

(* Whoever holds a mutex is in one of three places only.                   *)
LEMMA HoldersAlways ==
  ASSUME AccountAssumption
  PROVE  AccountSpec => [](HoldersInv /\ SearchInv)
<1>0. NobodyIsFree
  BY DEF AccountAssumption, NobodyIsFree, AccountThreads
<1>1. AccountInit => HoldersInv
  <2>1. SUFFICES ASSUME AccountInit
                 PROVE  HoldersInv
    OBVIOUS
  <2>2. /\ registryHolder = "free" /\ fileHolder = [a \in Accounts |-> "free"]
        /\ op = [c \in AccountThreads |-> IF c \in Accounts THEN "off" ELSE "idle"]
    BY <2>1 DEF AccountInit
  <2>3. QED
    BY <1>0, <2>2 DEF HoldersInv, NobodyIsFree, Doings, AccountThreads
<1>2. AccountInit => SearchInv
  <2>1. SUFFICES ASSUME AccountInit
                 PROVE  SearchInv
    OBVIOUS
  <2>2. /\ registered = HasFile /\ accountTodo = [c \in AccountThreads |-> {}]
        /\ op = [c \in AccountThreads |-> IF c \in Accounts THEN "off" ELSE "idle"]
    BY <2>1 DEF AccountInit
  <2>3. QED
    BY <2>2 DEF SearchInv, AccountAssumption
<1>3. HoldersInv /\ SearchInv /\ [AccountNext]_accountVars => (HoldersInv /\ SearchInv)'
  BY <1>0, HoldersStep, SearchStep
<1>4. QED
  BY <1>1, <1>2, <1>3, PTL DEF AccountSpec

(* Of all the ways in which threads lock the registry and the account      *)
(* files, for finding, showing, loading and changing, only one can leave   *)
(* two of them waiting for each other: a client that loads its bot name,   *)
(* with its file's mutex locked, and a thread that looks through accounts  *)
(* and has that file still to read, with the registry's (ClientInfo.cpp:   *)
(* 123-151, 307-376, Settings.cpp:96-121, SettingBotName.cpp:31-42).       *)
THEOREM OneDeadlockOnly ==
  ASSUME AccountAssumption
  PROVE  AccountSpec => []OnlyBotNamesBlock
<1>1. HoldersInv /\ SearchInv => OnlyBotNamesBlock
  <2>1. SUFFICES ASSUME HoldersInv, SearchInv
                 PROVE  OnlyBotNamesBlock
    OBVIOUS
  <2>2. ASSUME NEW c \in AccountThreads, NEW d \in AccountThreads, c # d, op[c] = "setString",
               registryHolder = d, Waits(d, c)
        PROVE  BotNameAgainst(c, d)
    <3>1. op[d] # "setString"
      BY <2>1, <2>2 DEF HoldersInv
    <3>2. op[d] \in {"search", "names"} /\ \E a \in accountTodo[d] : fileHolder[a] = c
      <4>1. op[d] = "display" => fileHolder[d] # c
        BY <2>1, <2>2 DEF HoldersInv, AccountThreads, SearchInv
      <4>2. QED
        BY <2>2, <3>1, <4>1 DEF Waits
    <3>3. PICK a \in accountTodo[d] : fileHolder[a] = c
      BY <3>2
    <3>4. a \in Accounts
      BY <2>1, <3>2, <3>3 DEF SearchInv
    <3>5. QED
      BY <2>1, <2>2, <3>2, <3>3, <3>4 DEF BotNameAgainst, HoldersInv
  <2>3. ASSUME NEW c \in AccountThreads, NEW d \in AccountThreads, c # d, Waits(c, d), Waits(d, c)
        PROVE  BotNameAgainst(c, d) \/ BotNameAgainst(d, c)
    <3>1. CASE op[c] = "setString" /\ registryHolder = d
      BY <2>2, <2>3, <3>1
    <3>2. CASE op[c] = "display" /\ fileHolder[c] = d
      BY <2>1, <2>3, <3>2 DEF HoldersInv
    <3>3. CASE op[c] \in {"search", "names"} /\ \E a \in accountTodo[c] : fileHolder[a] = d
      <4>1. op[d] = "setString"
        BY <2>1, <3>3 DEF HoldersInv, SearchInv
      <4>2. registryHolder = c
        BY <2>3, <4>1 DEF Waits
      <4>3. QED
        BY <2>2, <2>3, <4>1, <4>2
    <3>4. QED
      BY <2>3, <3>1, <3>2, <3>3 DEF Waits
  <2>4. QED
    BY <2>1, <2>3 DEF OnlyBotNamesBlock, HoldersInv
<1>2. QED
  BY <1>1, HoldersAlways, PTL

(* What loading makes of a string a file has for a setting, when the       *)
(* accounts known are registered.                                          *)
LoadedAs(accountsThen, c, k, v) ==
  CASE k = "String" -> v
    [] k = "Bool" -> IF v \in OnWords THEN "on" ELSE "off"
    [] k = "BotName" -> IF v \in accountsThen /\ v # c THEN v ELSE ""

(* A setting has what the file says, or is a bot registered later.         *)
AsFile(c, k) ==
  LET v == fileSettings[c][k]
      asLoaded == IF v = "absent" THEN Default(k) ELSE LoadedAs(registered, c, k, v)
  IN settings[c][k] = asLoaded \/ (k = "BotName" /\ settings[c][k] = "")

(* A setting is what its file says, from when it has been loaded to when   *)
(* the client is gone; what is about to be stored can be loaded again.     *)
AccountInv(c) ==
  /\ op[c] = "setString" => "BotName" \in accountTodo[c] /\ "BotName" \in Kinds
  /\ op[c] = "store" => /\ chosen[c][1] \in Kinds /\ chosen[c][2] # "absent"
                        /\ LoadedAs(registered, c, chosen[c][1], chosen[c][2]) = chosen[c][2]
  /\ \A k \in Kinds :
       /\ op[c] \in {"off", "display"} => settings[c][k] = Default(k)
       /\ op[c] \in {"load", "setString"} =>
            IF k \in accountTodo[c] THEN settings[c][k] = Default(k) ELSE AsFile(c, k)
       /\ op[c] \in {"idle", "search", "names", "store"} => AsFile(c, k)

SettingsInv ==
  /\ registered \subseteq Accounts
  /\ op \in [AccountThreads -> Doings]
  /\ DOMAIN chosen = Accounts /\ DOMAIN accountTodo = AccountThreads
  /\ DOMAIN settings = Accounts /\ \A a \in Accounts : DOMAIN settings[a] = Kinds
  /\ DOMAIN fileSettings = Accounts /\ \A a \in Accounts : DOMAIN fileSettings[a] = Kinds
  /\ \A c \in Accounts : AccountInv(c)

(* One setting of one account changes.                                     *)
LEMMA WithIs ==
  ASSUME NEW f, DOMAIN f = Accounts, \A a \in Accounts : DOMAIN f[a] = Kinds,
         NEW c \in Accounts, NEW k \in Kinds, NEW v
  PROVE  /\ DOMAIN With(f, c, k, v) = Accounts
         /\ \A a \in Accounts : DOMAIN With(f, c, k, v)[a] = Kinds
         /\ \A a \in Accounts, j \in Kinds :
              With(f, c, k, v)[a][j] = IF a = c /\ j = k THEN v ELSE f[a][j]
BY DEF With

(* A set with one element, or none.                                        *)
LEMMA ResultIs ==
  ASSUME NEW old
  PROVE  /\ Result({}, old) = old
         /\ \A v : Result({v}, old) = v
<1>1. \A v : {v} # {} /\ (CHOOSE x \in {v} : TRUE) = v
  OBVIOUS
<1>2. QED
  BY <1>1 DEF Result

(* setString() accepts a string as what loading makes of it, or refuses it. *)
LEMMA SetStrings ==
  ASSUME AccountAssumption, NEW c, NEW v, NEW k \in Kinds
  PROVE  /\ SetString(c, k, v) = {} \/ SetString(c, k, v) = {LoadedAs(registered, c, k, v)}
         /\ SetString(c, k, v) = {} => LoadedAs(registered, c, k, v) = Default(k)
         /\ Result(SetString(c, k, v), Default(k)) = LoadedAs(registered, c, k, v)
<1>1. k \in {"String", "Bool", "BotName"} /\ (v \in OnWords => v \notin OffWords)
  BY DEF AccountAssumption
<1>2. ASSUME k = "String"
      PROVE  /\ SetString(c, k, v) = {} \/ SetString(c, k, v) = {LoadedAs(registered, c, k, v)}
             /\ SetString(c, k, v) = {} => LoadedAs(registered, c, k, v) = Default(k)
  <2>1. SetString(c, k, v) = {v} /\ LoadedAs(registered, c, k, v) = v
    BY <1>2 DEF SetString, LoadedAs
  <2>2. QED
    BY <2>1
<1>3. ASSUME k = "Bool"
      PROVE  /\ SetString(c, k, v) = {} \/ SetString(c, k, v) = {LoadedAs(registered, c, k, v)}
             /\ SetString(c, k, v) = {} => LoadedAs(registered, c, k, v) = Default(k)
  <2>1. /\ SetString(c, k, v) = IF v \in OnWords THEN {"on"} ELSE IF v \in OffWords THEN {"off"} ELSE {}
        /\ LoadedAs(registered, c, k, v) = IF v \in OnWords THEN "on" ELSE "off"
        /\ Default(k) = "off"
    BY <1>3 DEF SetString, LoadedAs, Default
  <2>2. QED
    BY <2>1
<1>4. ASSUME k = "BotName"
      PROVE  /\ SetString(c, k, v) = {} \/ SetString(c, k, v) = {LoadedAs(registered, c, k, v)}
             /\ SetString(c, k, v) = {} => LoadedAs(registered, c, k, v) = Default(k)
  <2>1. /\ SetString(c, k, v) = {a \in registered : a = v} \ {c}
        /\ LoadedAs(registered, c, k, v) = IF v \in registered /\ v # c THEN v ELSE ""
        /\ Default(k) = ""
    BY <1>4 DEF SetString, DoFind, LoadedAs, Default
  <2>2. QED
    BY <2>1
<1>5. /\ SetString(c, k, v) = {} \/ SetString(c, k, v) = {LoadedAs(registered, c, k, v)}
      /\ SetString(c, k, v) = {} => LoadedAs(registered, c, k, v) = Default(k)
  BY <1>1, <1>2, <1>3, <1>4
<1>6. Result(SetString(c, k, v), Default(k)) = LoadedAs(registered, c, k, v)
  <2>1. CASE SetString(c, k, v) = {}
    BY <1>5, <2>1, ResultIs
  <2>2. CASE SetString(c, k, v) = {LoadedAs(registered, c, k, v)}
    BY <2>2, ResultIs
  <2>3. QED
    BY <1>5, <2>1, <2>2
<1>7. QED
  BY <1>5, <1>6

(* What an account has as its file keeps being so.                         *)
LEMMA AsFileStays ==
  ASSUME AccountAssumption, registered \subseteq registered',
         NEW c \in Accounts, NEW k \in Kinds,
         fileSettings'[c][k] = fileSettings[c][k], settings'[c][k] = settings[c][k], AsFile(c, k)
  PROVE  AsFile(c, k)'
<1>1. k \in {"String", "Bool", "BotName"}
  BY DEF AccountAssumption
<1>2. QED
  BY <1>1 DEF AsFile, LoadedAs, Default

(* What is stored now can be loaded later.                                 *)
LEMMA StableStays ==
  ASSUME AccountAssumption, registered \subseteq registered', NEW c, NEW k \in Kinds, NEW v,
         LoadedAs(registered, c, k, v) = v
  PROVE  LoadedAs(registered', c, k, v) = v
<1>1. k \in {"String", "Bool", "BotName"}
  BY DEF AccountAssumption
<1>2. QED
  BY <1>1 DEF LoadedAs

(* Where the settings and files of an account stay, and its thread where   *)
(* it was, nothing is lost.                                                *)
LEMMA OthersStay ==
  ASSUME AccountAssumption, registered \subseteq registered', NEW c \in Accounts, AccountInv(c),
         op'[c] = op[c], accountTodo'[c] = accountTodo[c], chosen'[c] = chosen[c],
         \A k \in Kinds : fileSettings'[c][k] = fileSettings[c][k] /\ settings'[c][k] = settings[c][k]
  PROVE  AccountInv(c)'
<1>1. \A k \in Kinds : AsFile(c, k) => AsFile(c, k)'
  BY AsFileStays
<1>2. op[c] = "store" => LoadedAs(registered', c, chosen[c][1], chosen[c][2]) = chosen[c][2]
  BY StableStays DEF AccountInv
<1>3. QED
  BY <1>1, <1>2 DEF AccountInv

(* Its thread moves on, and the settings stay.                             *)
LEMMA ThreadMoves ==
  ASSUME AccountAssumption, SettingsInv, UNCHANGED <<registered, fileSettings, settings, chosen>>,
         NEW c \in AccountThreads, NEW s \in Doings, op' = [op EXCEPT ![c] = s],
         DOMAIN accountTodo' = AccountThreads,
         \A d \in AccountThreads \ {c} : accountTodo'[d] = accountTodo[d],
         \/ op[c] = "off" /\ s = "display"
         \/ op[c] = "display" /\ s = "load" /\ accountTodo'[c] = Kinds
         \/ op[c] = "load" /\ s = "setString" /\ accountTodo'[c] = accountTodo[c]
            /\ "BotName" \in accountTodo[c] \cap Kinds
         \/ op[c] = "load" /\ s = "idle" /\ accountTodo[c] = {}
         \/ op[c] \in {"idle", "search", "names"} /\ s \in {"idle", "search", "names"}
  PROVE  SettingsInv'
<1>1. ASSUME NEW d \in Accounts, d # c
      PROVE  AccountInv(d)'
  BY <1>1, OthersStay DEF SettingsInv, AccountThreads
<1>2. ASSUME c \in Accounts
      PROVE  AccountInv(c)'
  <2>1. \A k \in Kinds : AsFile(c, k)' <=> AsFile(c, k)
    BY DEF AsFile
  <2>2. op'[c] = s /\ AccountInv(c)
    BY <1>2 DEF SettingsInv
  <2>3. QED
    BY <2>1, <2>2 DEF AccountInv
<1>3. QED
  BY <1>1, <1>2 DEF SettingsInv

(* The settings are loaded one by one, changed in the file and here, and   *)
(* forgotten when the client ends.                                         *)
LEMMA SettingsStep ==
  ASSUME AccountAssumption, SettingsInv, [AccountNext]_accountVars
  PROVE  SettingsInv'
<1> USE DEF AccountThreads, Doings
<1>1. CASE \/ UNCHANGED accountVars
           \/ \E a \in Accounts : Create(a)
  <2>1. /\ registered \subseteq registered' /\ registered' \subseteq Accounts
        /\ UNCHANGED <<fileSettings, settings, op, accountTodo, chosen>>
    BY <1>1 DEF Create, accountVars, SettingsInv
  <2>2. ASSUME NEW c \in Accounts PROVE AccountInv(c)'
    BY <2>1, OthersStay DEF SettingsInv
  <2>3. QED
    BY <2>1, <2>2 DEF SettingsInv
<1>2. ASSUME NEW c \in AccountThreads,
             \/ c \in Accounts /\ (Launch(c) \/ DisplayName(c) \/ Loaded(c))
             \/ Find(c) \/ (\E names \in SUBSET registered : ReadNames(c, names))
             \/ \E a \in registered : Examine(c, a)
      PROVE  SettingsInv'
  <2>1. CASE Launch(c)
    BY <2>1, ThreadMoves DEF Launch, SettingsInv, Doings
  <2>2. CASE DisplayName(c)
    BY <2>2, ThreadMoves DEF DisplayName, SettingsInv, Doings
  <2>3. CASE Loaded(c)
    BY <2>3, ThreadMoves DEF Loaded, SettingsInv, Doings
  <2>4. CASE Find(c) \/ \E names \in SUBSET registered : ReadNames(c, names)
    BY <2>4, ThreadMoves DEF Find, ReadNames, SettingsInv, Doings
  <2>5. ASSUME NEW a \in registered, Examine(c, a)
        PROVE  SettingsInv'
    <3>1. /\ op[c] \in {"search", "names"} /\ UNCHANGED <<registered, fileSettings, settings, chosen>>
          /\ DOMAIN accountTodo' = AccountThreads
          /\ \A d \in AccountThreads \ {c} : accountTodo'[d] = accountTodo[d]
          /\ op' = [op EXCEPT ![c] = "idle"] \/ op' = op
      BY <2>5 DEF Examine, SettingsInv
    <3>2. op' = op => op' = [op EXCEPT ![c] = op[c]]
      BY <3>1 DEF SettingsInv
    <3>3. QED
      BY <3>1, <3>2, ThreadMoves DEF Doings
  <2>6. QED
    BY <1>2, <2>1, <2>2, <2>3, <2>4, <2>5
<1>3. ASSUME NEW c \in Accounts, NEW k \in Kinds, LoadSetting(c, k)
      PROVE  SettingsInv'
  <2>v. PICK v : v = fileSettings[c][k]
    OBVIOUS
  <2>n. PICK new : new = LoadedAs(registered, c, k, v)
    OBVIOUS
  <2>0. op[c] = "load" /\ k \in accountTodo[c] /\ UNCHANGED <<registered, fileSettings, chosen>>
    BY <1>3 DEF LoadSetting
  <2>1. CASE k = "BotName" /\ v # "absent"
    BY <1>3, <2>v, <2>0, <2>1, ThreadMoves DEF LoadSetting, SettingsInv
  <2>2. CASE ~(k = "BotName" /\ v # "absent")
    <3>1. /\ settings' = IF v = "absent" THEN settings
                         ELSE With(settings, c, k, Result(SetString(c, k, v), settings[c][k]))
          /\ accountTodo' = [accountTodo EXCEPT ![c] = @ \ {k}] /\ op' = op
      BY <1>3, <2>v, <2>2 DEF LoadSetting
    <3>2. settings[c][k] = Default(k)
      BY <2>0 DEF SettingsInv, AccountInv
    <3>3. Result(SetString(c, k, v), settings[c][k]) = new
      BY <2>n, <3>2, SetStrings
    <3>4. /\ DOMAIN settings' = Accounts /\ \A a \in Accounts : DOMAIN settings'[a] = Kinds
          /\ \A a \in Accounts, j \in Kinds : a # c \/ j # k => settings'[a][j] = settings[a][j]
          /\ settings'[c][k] = IF v = "absent" THEN Default(k) ELSE new
      BY <3>1, <3>2, <3>3, WithIs DEF SettingsInv
    <3>5. ASSUME NEW d \in Accounts, d # c
          PROVE  AccountInv(d)'
      BY <2>0, <3>1, <3>4, <3>5, OthersStay DEF SettingsInv
    <3>6. AccountInv(c)'
      <4>1. AsFile(c, k)'
        <5>1. fileSettings'[c][k] = v /\ LoadedAs(registered', c, k, v) = new
          BY <2>v, <2>n, <2>0
        <5>2. QED
          BY <3>4, <5>1 DEF AsFile
      <4>2. \A j \in Kinds : j # k => (AsFile(c, j) => AsFile(c, j)')
        BY <2>0, <3>4, AsFileStays
      <4>3. /\ op'[c] = "load" /\ accountTodo'[c] = accountTodo[c] \ {k}
            /\ \A j \in Kinds : j # k => settings'[c][j] = settings[c][j]
        BY <2>0, <3>1, <3>4 DEF SettingsInv
      <4>4. AccountInv(c)
        BY DEF SettingsInv
      <4>5. QED
        BY <2>0, <4>1, <4>2, <4>3, <4>4 DEF AccountInv
    <3>7. QED
      BY <2>0, <3>1, <3>4, <3>5, <3>6 DEF SettingsInv
  <2>3. QED
    BY <2>1, <2>2
<1>4. ASSUME NEW c \in Accounts, LoadBotName(c)
      PROVE  SettingsInv'
  <2>k. PICK k : k = "BotName"
    OBVIOUS
  <2>v. PICK v : v = fileSettings[c][k]
    OBVIOUS
  <2>n. PICK new : new = LoadedAs(registered, c, k, v)
    OBVIOUS
  <2>0. /\ op[c] = "setString" /\ op' = [op EXCEPT ![c] = "load"]
        /\ accountTodo' = [accountTodo EXCEPT ![c] = @ \ {k}]
        /\ settings' = With(settings, c, k, Result(SetString(c, k, v), settings[c][k]))
        /\ UNCHANGED <<registered, fileSettings, chosen>>
    BY <1>4, <2>k, <2>v DEF LoadBotName
  <2>1. k \in accountTodo[c] /\ k \in Kinds /\ settings[c][k] = Default(k)
    BY <2>k, <2>0 DEF SettingsInv, AccountInv
  <2>2. Result(SetString(c, k, v), settings[c][k]) = new
    BY <2>n, <2>1, SetStrings
  <2>3. /\ DOMAIN settings' = Accounts /\ \A a \in Accounts : DOMAIN settings'[a] = Kinds
        /\ \A a \in Accounts, j \in Kinds : a # c \/ j # k => settings'[a][j] = settings[a][j]
        /\ settings'[c][k] = new
    BY <2>0, <2>1, <2>2, WithIs DEF SettingsInv
  <2>4. ASSUME NEW d \in Accounts, d # c
        PROVE  AccountInv(d)'
    BY <2>0, <2>3, <2>4, OthersStay DEF SettingsInv
  <2>5. AccountInv(c)'
    <3>1. AsFile(c, k)'
      <4>1. v = "absent" => new = ""
        BY <2>k, <2>n DEF LoadedAs, AccountAssumption, SettingsInv
      <4>2. /\ fileSettings'[c][k] = v /\ LoadedAs(registered', c, k, v) = new
            /\ Default(k) = ""
        BY <2>k, <2>v, <2>n, <2>0 DEF Default
      <4>3. QED
        BY <2>3, <4>1, <4>2 DEF AsFile
    <3>2. \A j \in Kinds : j # k => (AsFile(c, j) => AsFile(c, j)')
      BY <2>0, <2>3, AsFileStays
    <3>3. /\ op'[c] = "load" /\ accountTodo'[c] = accountTodo[c] \ {k}
          /\ \A j \in Kinds : j # k => settings'[c][j] = settings[c][j]
      BY <2>0, <2>3 DEF SettingsInv
    <3>4. AccountInv(c)
      BY DEF SettingsInv
    <3>5. QED
      BY <2>0, <3>1, <3>2, <3>3, <3>4 DEF AccountInv
  <2>6. QED
    BY <2>0, <2>3, <2>4, <2>5 DEF SettingsInv
<1>5. ASSUME NEW c \in Accounts, NEW k \in Kinds, NEW v \in Values \cup {""}, ChangeValue(c, k, v)
      PROVE  SettingsInv'
  <2> DEFINE new == IF v = "" THEN {Default(k)} ELSE SetString(c, k, v)
             word == IF v = "" THEN Default(k) ELSE LoadedAs(registered, c, k, v)
  <2>1. /\ op[c] = "idle" /\ new # {} /\ chosen' = [chosen EXCEPT ![c] = <<k, Result(new, "")>>]
        /\ op' = [op EXCEPT ![c] = "store"]
        /\ UNCHANGED <<registered, fileSettings, settings, accountTodo>>
    BY <1>5 DEF ChangeValue
  <2>2. new = {word}
    BY <2>1, SetStrings
  <2>3. Result(new, "") = word
    BY <2>2, ResultIs
  <2>4. word # "absent" /\ LoadedAs(registered, c, k, word) = word
    <3>1. k \in {"String", "Bool", "BotName"} /\ v # "absent" /\ "on" \in OnWords /\ "off" \notin OnWords
          /\ "" \notin registered
      BY DEF AccountAssumption, SettingsInv
    <3>2. QED
      BY <3>1 DEF LoadedAs, Default
  <2>5. ASSUME NEW d \in Accounts, d # c
        PROVE  AccountInv(d)'
    BY <2>1, <2>5, OthersStay DEF SettingsInv
  <2>6. AccountInv(c)'
    <3>1. \A j \in Kinds : AsFile(c, j)' <=> AsFile(c, j)
      BY <2>1 DEF AsFile
    <3>2. op'[c] = "store" /\ chosen'[c][1] = k /\ chosen'[c][2] = word /\ AccountInv(c)
      BY <2>1, <2>3 DEF SettingsInv
    <3> HIDE DEF word, new
    <3>3. QED
      BY <2>1, <2>4, <3>1, <3>2 DEF AccountInv
  <2>7. QED
    BY <2>1, <2>5, <2>6 DEF SettingsInv
<1>6. ASSUME NEW c \in Accounts, StoreItem(c)
      PROVE  SettingsInv'
  <2>k. PICK k, v : k = chosen[c][1] /\ v = chosen[c][2]
    OBVIOUS
  <2>1. /\ op[c] = "store" /\ op' = [op EXCEPT ![c] = "idle"]
        /\ fileSettings' = With(fileSettings, c, k, v) /\ settings' = With(settings, c, k, v)
        /\ chosen' = [chosen EXCEPT ![c] = <<"", "">>]
        /\ UNCHANGED <<registered, accountTodo>>
    BY <1>6, <2>k DEF StoreItem
  <2>2. k \in Kinds /\ v # "absent" /\ LoadedAs(registered, c, k, v) = v
    BY <2>k, <2>1 DEF SettingsInv, AccountInv
  <2>3. /\ DOMAIN settings' = Accounts /\ \A a \in Accounts : DOMAIN settings'[a] = Kinds
        /\ \A a \in Accounts, j \in Kinds : settings'[a][j] = IF a = c /\ j = k THEN v ELSE settings[a][j]
    <3>1. DOMAIN settings = Accounts /\ \A a \in Accounts : DOMAIN settings[a] = Kinds
      BY DEF SettingsInv
    <3>2. /\ DOMAIN With(settings, c, k, v) = Accounts
          /\ \A a \in Accounts : DOMAIN With(settings, c, k, v)[a] = Kinds
          /\ \A a \in Accounts, j \in Kinds :
               With(settings, c, k, v)[a][j] = IF a = c /\ j = k THEN v ELSE settings[a][j]
      BY <2>2, <3>1, WithIs
    <3>3. QED
      BY <2>1, <3>2
  <2>4. /\ DOMAIN fileSettings' = Accounts /\ \A a \in Accounts : DOMAIN fileSettings'[a] = Kinds
        /\ \A a \in Accounts, j \in Kinds :
              fileSettings'[a][j] = IF a = c /\ j = k THEN v ELSE fileSettings[a][j]
    <3>1. DOMAIN fileSettings = Accounts /\ \A a \in Accounts : DOMAIN fileSettings[a] = Kinds
      BY DEF SettingsInv
    <3>2. /\ DOMAIN With(fileSettings, c, k, v) = Accounts
          /\ \A a \in Accounts : DOMAIN With(fileSettings, c, k, v)[a] = Kinds
          /\ \A a \in Accounts, j \in Kinds :
               With(fileSettings, c, k, v)[a][j] = IF a = c /\ j = k THEN v ELSE fileSettings[a][j]
      BY <2>2, <3>1, WithIs
    <3>3. QED
      BY <2>1, <3>2
  <2>5. ASSUME NEW d \in Accounts, d # c
        PROVE  AccountInv(d)'
    BY <2>1, <2>3, <2>4, <2>5, OthersStay DEF SettingsInv
  <2>6. AccountInv(c)'
    <3>1. AsFile(c, k)'
      <4>1. settings'[c][k] = v /\ fileSettings'[c][k] = v /\ LoadedAs(registered', c, k, v) = v
        BY <2>1, <2>2, <2>3, <2>4
      <4>2. QED
        BY <2>2, <4>1 DEF AsFile
    <3>2. \A j \in Kinds : j # k => (AsFile(c, j) => AsFile(c, j)')
      BY <2>1, <2>3, <2>4, AsFileStays
    <3>3. op'[c] = "idle" /\ AccountInv(c)
      BY <2>1 DEF SettingsInv
    <3>4. QED
      BY <2>1, <3>1, <3>2, <3>3 DEF AccountInv
  <2>7. QED
    BY <2>1, <2>3, <2>4, <2>5, <2>6 DEF SettingsInv
<1>7. ASSUME NEW c \in Accounts, Quit(c)
      PROVE  SettingsInv'
  <2>1. /\ op' = [op EXCEPT ![c] = "off"]
        /\ settings' = [settings EXCEPT ![c] = [k \in Kinds |-> Default(k)]]
        /\ UNCHANGED <<registered, fileSettings, accountTodo, chosen>>
    BY <1>7 DEF Quit
  <2>2. /\ DOMAIN settings' = Accounts
        /\ \A a \in Accounts : settings'[a] = IF a = c THEN [k \in Kinds |-> Default(k)] ELSE settings[a]
    BY <2>1 DEF SettingsInv
  <2>3. ASSUME NEW d \in Accounts, d # c
        PROVE  AccountInv(d)'
    BY <2>1, <2>2, <2>3, OthersStay DEF SettingsInv
  <2>4. AccountInv(c)'
    BY <2>1, <2>2 DEF AccountInv, SettingsInv
  <2>5. QED
    BY <2>1, <2>2, <2>3, <2>4 DEF SettingsInv
<1>8. QED
  BY <1>1, <1>2, <1>3, <1>4, <1>5, <1>6, <1>7 DEF AccountNext

(* For all accounts, names and words: after any loading, changing and      *)
(* restarting a client has the settings its file says, but for a bot that  *)
(* was registered later (Settings.cpp:83-189, SettingBotName.cpp:31-53).   *)
THEOREM SettingsAreRead ==
  ASSUME AccountAssumption
  PROVE  AccountSpec => []SettingsAreTheFiles
<1> USE DEF AccountThreads, Doings
<1>1. ASSUME AccountInit
      PROVE  SettingsInv
  <2>1. ASSUME NEW c \in Accounts PROVE AccountInv(c)
    BY <1>1 DEF AccountInit, AccountInv
  <2>2. DOMAIN fileSettings = Accounts /\ \A a \in Accounts : DOMAIN fileSettings[a] = Kinds
    <3>1. fileSettings \in [Accounts -> {[j \in Kinds |-> v] : v \in Values \cup {"absent"}}]
      BY <1>1 DEF AccountInit
    <3>2. \A a \in Accounts : \E v : fileSettings[a] = [j \in Kinds |-> v]
      BY <3>1
    <3>3. QED
      BY <3>1, <3>2
  <2>3. QED
    BY <1>1, <2>1, <2>2 DEF AccountInit, SettingsInv, AccountAssumption
<1>2. ASSUME SettingsInv
      PROVE  SettingsAreTheFiles
  <2> SUFFICES ASSUME NEW c \in Accounts, NEW k \in Kinds, op[c] \in {"idle", "search", "names", "store"}
               PROVE  LET anyValue == fileSettings[c][k]
                          asLoaded == IF anyValue = "absent" THEN Default(k)
                                     ELSE Result(SetString(c, k, anyValue), Default(k))
                      IN settings[c][k] = asLoaded \/ (k = "BotName" /\ settings[c][k] = "")
    BY DEF SettingsAreTheFiles
  <2> DEFINE v == fileSettings[c][k]
  <2>1. Result(SetString(c, k, v), Default(k)) = LoadedAs(registered, c, k, v)
    BY SetStrings
  <2>2. AsFile(c, k)
    BY <1>2 DEF SettingsInv, AccountInv
  <2>3. QED
    BY <2>1, <2>2 DEF AsFile
<1>3. QED
  BY <1>1, <1>2, SettingsStep, PTL DEF AccountSpec

-----------------------------------------------------------------------------
(* FreeLicenses                                                            *)

(* Everything that can be asked for, and what has been.                    *)
Free == FreePackages \cup FreeApps
FreeInv ==
  /\ adds \in Seq(Free) /\ added \in Seq(Free) /\ appRequests \in Nat
  /\ freeRequested \in Seq(FreePackages) /\ reported \in Seq(FreePackages)
  /\ licences \subseteq FreePackages

(* The messages for apps before the first one for a package.               *)
LEMMA FirstPackage ==
  ASSUME FreeAssumption, FreeInv, PackagesAt(adds) # {}
  PROVE  LET i == Min(PackagesAt(adds))
             rest == SubSeq(adds, i + 1, Len(adds))
         IN /\ i \in 1..Len(adds) /\ adds[i] \in FreePackages /\ rest \in Seq(Free)
            /\ Count(adds, FreeApps) = (i - 1) + Count(rest, FreeApps)
            /\ \A p \in FreePackages :
                 Count(adds, {p}) = (IF p = adds[i] THEN 1 ELSE 0) + Count(rest, {p})
<1> DEFINE i == Min(PackagesAt(adds))
           first == SubSeq(adds, 1, i - 1)
           rest == SubSeq(adds, i + 1, Len(adds))
<1>1. adds \in Seq(Free) /\ Len(adds) \in Nat
  BY DEF FreeInv
<1>2. PackagesAt(adds) \in SUBSET Nat /\ PackagesAt(adds) \subseteq 1..Len(adds)
  BY <1>1 DEF PackagesAt
<1>3. i \in PackagesAt(adds) /\ \A m \in PackagesAt(adds) : i <= m
  BY <1>2, LeastIndex
<1> HIDE DEF i
<1>4. i \in 1..Len(adds) /\ adds[i] \in FreePackages /\ i \in Nat /\ i - 1 \in Nat
  BY <1>1, <1>3 DEF PackagesAt
<1>5. \A j \in 1..(i - 1) : adds[j] \in FreeApps
  <2>1. ASSUME NEW j \in 1..(i - 1)
        PROVE  adds[j] \in FreeApps
    <3>1. j \in 1..Len(adds) /\ ~(i <= j)
      BY <1>1, <1>4
    <3>2. adds[j] \notin FreePackages
      BY <1>3, <3>1 DEF PackagesAt
    <3>3. adds[j] \in Free
      BY <1>1, <3>1
    <3>4. QED
      BY <3>2, <3>3 DEF Free
  <2>2. QED
    BY <2>1
<1>6. /\ first \in Seq(Free) /\ Len(first) = i - 1
      /\ \A j \in 1..(i - 1) : first[j] = adds[j]
  <2>1. \A j \in 1..(i - 1) : adds[j] \in Free /\ j = 1 + j - 1
    BY <1>1, <1>4
  <2>2. /\ first \in Seq(Free) /\ Len(first) = (IF 1 <= i - 1 THEN (i - 1) - 1 + 1 ELSE 0)
        /\ \A j \in 1..((i - 1) - 1 + 1) : first[j] = adds[1 + j - 1]
    BY <1>4, <2>1, SubSeqProperties
  <2> HIDE DEF first
  <2>3. QED
    BY <1>4, <2>1, <2>2
<1>7. rest \in Seq(Free)
  <2>1. \A j \in (i + 1)..Len(adds) : adds[j] \in Free
    BY <1>1, <1>4
  <2>2. QED
    BY <1>1, <1>4, <2>1, SubSeqProperties
<1>8. adds = Append(first, adds[i]) \o rest
  <2>1. SubSeq(adds, 1, i) = Append(first, adds[i])
    BY <1>1, <1>4, SubSeqAppended
  <2>2. adds = SubSeq(adds, 1, i) \o rest
    BY <1>1, <1>4, SubSeqSplit
  <2>3. QED
    BY <2>1, <2>2
<1>9. Range(first) \subseteq FreeApps
  <2>1. \A x \in Range(first) : \E j \in 1..(i - 1) : x = first[j]
    <3> HIDE DEF first
    <3>1. QED
      BY <1>6, RangeIs
  <2>2. QED
    BY <1>5, <1>6, <2>1
<1> HIDE DEF first, rest
<1>10. adds[i] \in Free /\ adds[i] \notin FreeApps /\ Append(first, adds[i]) \in Seq(Free)
  BY <1>4, <1>6, AppendFacts DEF Free, FreeAssumption
<1>11. ASSUME NEW S
       PROVE  /\ Count(adds, S) = Count(first, S) + (IF adds[i] \in S THEN 1 ELSE 0) + Count(rest, S)
              /\ Count(first, S) \in Nat /\ Count(rest, S) \in Nat
  <2>1. Count(adds, S) = Count(Append(first, adds[i]), S) + Count(rest, S)
    <3>1. \A r, t \in Seq(Free) : Count(r \o t, S) = Count(r, S) + Count(t, S)
      BY CountConcat
    <3>2. QED
      BY <1>7, <1>8, <1>10, <3>1
  <2>2. /\ Count(first, S) \in Nat
        /\ Count(Append(first, adds[i]), S) = IF adds[i] \in S THEN Count(first, S) + 1 ELSE Count(first, S)
    BY <1>6, <1>10, CountAppend
  <2>3. Count(rest, S) \in Nat
    BY <1>7, CountKept
  <2>4. QED
    BY <2>1, <2>2, <2>3
<1>12. Count(adds, FreeApps) = (i - 1) + Count(rest, FreeApps)
  <2>1. Count(first, FreeApps) = i - 1
    BY <1>6, <1>9, CountKept
  <2>2. QED
    BY <1>4, <1>10, <1>11, <2>1
<1>13. ASSUME NEW p \in FreePackages
       PROVE  Count(adds, {p}) = (IF p = adds[i] THEN 1 ELSE 0) + Count(rest, {p})
  <2>1. Range(first) \cap {p} = {}
    BY <1>9 DEF FreeAssumption
  <2>2. Count(first, {p}) = 0
    BY <1>6, <2>1, CountKept
  <2>3. adds[i] \in {p} <=> p = adds[i]
    OBVIOUS
  <2>4. Count(adds, {p}) = 0 + (IF p = adds[i] THEN 1 ELSE 0) + Count(rest, {p}) /\ Count(rest, {p}) \in Nat
    BY <1>11, <2>2, <2>3
  <2>5. QED
    BY <2>4
<1>14. QED
  BY <1>4, <1>7, <1>12, <1>13 DEF i, rest

(* The types of what is asked for.                                         *)
LEMMA FreeTypes ==
  ASSUME FreeAssumption, FreeInv, [FreeNext]_freeVars
  PROVE  FreeInv'
<1>1. CASE FreeLogin
  BY <1>1 DEF FreeLogin, FreeInv
<1>2. ASSUME NEW id \in Free, Add(id)
      PROVE  FreeInv'
  BY <1>2, AppendFacts DEF Add, FreeInv
<1>3. ASSUME NEW p \in FreePackages, LicenceListComes(p)
      PROVE  FreeInv'
  BY <1>3 DEF LicenceListComes, FreeInv
<1>a. CASE AppAnswered
  BY <1>a DEF AppAnswered, FreeInv
<1>4. CASE AddFreeLicenseWakes
  <2>1. UNCHANGED <<licences, added>>
    BY <1>4 DEF AddFreeLicenseWakes
  <2>2. CASE PackagesAt(adds) # {}
    <3> DEFINE i == Min(PackagesAt(adds))
               rest == SubSeq(adds, i + 1, Len(adds))
    <3>1. i \in 1..Len(adds) /\ adds[i] \in FreePackages /\ rest \in Seq(Free)
      BY <2>2, FirstPackage
    <3>2. /\ freeRequested' = Append(freeRequested, adds[i]) /\ adds' = rest
          /\ appRequests' = appRequests + i - 1 /\ reported' = reported
      BY <1>4, <2>2 DEF AddFreeLicenseWakes, HandlePackage
    <3> HIDE DEF i, rest
    <3>3. freeRequested' \in Seq(FreePackages)
      BY <3>1, <3>2, AppendFacts DEF FreeInv
    <3>4. appRequests' \in Nat
      BY <3>1, <3>2 DEF FreeInv
    <3>5. QED
      BY <2>1, <3>1, <3>2, <3>3, <3>4 DEF FreeInv
  <2>3. CASE PackagesAt(adds) = {}
    <3>1. /\ adds' = <<>> /\ appRequests' = appRequests + Len(adds)
          /\ reported' = reported \o Kept(freeRequested, licences)
          /\ freeRequested' = Kept(freeRequested, FreePackages \ licences)
      BY <1>4, <2>3 DEF AddFreeLicenseWakes, CheckLicenses
    <3>2. /\ Kept(freeRequested, licences) \in Seq(FreePackages)
          /\ Kept(freeRequested, FreePackages \ licences) \in Seq(FreePackages)
      BY KeptRange DEF FreeInv
    <3>3. reported \o Kept(freeRequested, licences) \in Seq(FreePackages)
      BY <3>2, ConcatFacts DEF FreeInv
    <3>4. adds' \in Seq(Free) /\ appRequests' \in Nat
      BY <3>1 DEF FreeInv
    <3>5. QED
      BY <2>1, <3>1, <3>2, <3>3, <3>4 DEF FreeInv
  <2>4. QED
    BY <2>2, <2>3
<1>5. CASE UNCHANGED freeVars
  BY <1>5 DEF freeVars, FreeInv
<1>6. QED
  BY <1>1, <1>2, <1>3, <1>a, <1>4, <1>5 DEF FreeNext, Free

(* Every request stays in one place.                                       *)
LEMMA RequestsStay ==
  ASSUME FreeAssumption, FreeInv, NoRequestLost, [FreeNext]_freeVars
  PROVE  NoRequestLost'
<1>1. /\ appRequests + Count(adds, FreeApps) = Count(added, FreeApps)
      /\ \A p \in FreePackages :
           Count(freeRequested, {p}) + Count(reported, {p}) + Count(adds, {p})
             = Count(added, {p})
  BY DEF NoRequestLost
<1>2. \A S : /\ Count(adds, S) \in Nat /\ Count(added, S) \in Nat
             /\ Count(freeRequested, S) \in Nat /\ Count(reported, S) \in Nat
  <2>1. ASSUME NEW S
        PROVE  /\ Count(adds, S) \in Nat /\ Count(added, S) \in Nat
               /\ Count(freeRequested, S) \in Nat /\ Count(reported, S) \in Nat
    BY CountKept DEF FreeInv
  <2>2. QED
    BY <2>1
<1>3. CASE UNCHANGED <<adds, added, appRequests, freeRequested, reported>>
  BY <1>1, <1>3 DEF NoRequestLost
<1>4. ASSUME NEW id \in Free, Add(id)
      PROVE  NoRequestLost'
  <2>1. /\ added' = Append(added, id) /\ adds' = Append(adds, id)
        /\ UNCHANGED <<appRequests, freeRequested, reported>>
    BY <1>4 DEF Add
  <2>2. \A S : /\ Count(added', S) = IF id \in S THEN Count(added, S) + 1 ELSE Count(added, S)
               /\ Count(adds', S) = IF id \in S THEN Count(adds, S) + 1 ELSE Count(adds, S)
    <3>1. \A S : Count(Append(added, id), S) = IF id \in S THEN Count(added, S) + 1 ELSE Count(added, S)
      BY CountAppend DEF FreeInv
    <3>2. \A S : Count(Append(adds, id), S) = IF id \in S THEN Count(adds, S) + 1 ELSE Count(adds, S)
      BY CountAppend DEF FreeInv
    <3>3. QED
      BY <2>1, <3>1, <3>2
  <2>3. appRequests' + Count(adds', FreeApps) = Count(added', FreeApps)
    <3>1. appRequests \in Nat /\ Count(adds, FreeApps) \in Nat /\ Count(added, FreeApps) \in Nat
      BY <1>2 DEF FreeInv
    <3>2. /\ Count(added', FreeApps) = IF id \in FreeApps THEN Count(added, FreeApps) + 1 ELSE Count(added, FreeApps)
          /\ Count(adds', FreeApps) = IF id \in FreeApps THEN Count(adds, FreeApps) + 1 ELSE Count(adds, FreeApps)
      BY <2>2
    <3>3. QED
      BY <1>1, <2>1, <3>1, <3>2
  <2>4. ASSUME NEW p \in FreePackages
        PROVE  Count(freeRequested', {p}) + Count(reported', {p}) + Count(adds', {p})
                 = Count(added', {p})
    <3>1. Count(freeRequested, {p}) + Count(reported, {p}) + Count(adds, {p})
            = Count(added, {p})
      BY <1>1
    <3>2. QED
      BY <1>2, <2>1, <2>2, <3>1, SMTT(30)
  <2>5. QED
    BY <2>3, <2>4 DEF NoRequestLost
<1>5. CASE AddFreeLicenseWakes
  <2>1. added' = added
    BY <1>5 DEF AddFreeLicenseWakes
  <2>2. CASE PackagesAt(adds) # {}
    <3> DEFINE i == Min(PackagesAt(adds))
               rest == SubSeq(adds, i + 1, Len(adds))
    <3>1. /\ i \in 1..Len(adds) /\ adds[i] \in FreePackages
          /\ Count(adds, FreeApps) = (i - 1) + Count(rest, FreeApps)
          /\ \A p \in FreePackages :
               Count(adds, {p}) = (IF p = adds[i] THEN 1 ELSE 0) + Count(rest, {p})
      BY <2>2, FirstPackage
    <3>2. /\ freeRequested' = Append(freeRequested, adds[i]) /\ adds' = rest
          /\ appRequests' = appRequests + i - 1 /\ reported' = reported
      BY <1>5, <2>2 DEF AddFreeLicenseWakes, HandlePackage
    <3>3. \A S : Count(rest, S) \in Nat
      <4>1. rest \in Seq(Free)
        BY <2>2, FirstPackage
      <4>2. QED
        BY <4>1, CountKept
    <3> HIDE DEF i, rest
    <3>4. appRequests' + Count(adds', FreeApps) = Count(added', FreeApps)
      <4>1. appRequests \in Nat /\ i \in Int
        BY <3>1 DEF FreeInv
      <4>2. QED
        BY <1>1, <2>1, <3>1, <3>2, <3>3, <4>1
    <3>5. ASSUME NEW p \in FreePackages
          PROVE  Count(freeRequested', {p}) + Count(reported', {p}) + Count(adds', {p})
                   = Count(added', {p})
      <4>1. Count(freeRequested', {p})
              = IF adds[i] \in {p} THEN Count(freeRequested, {p}) + 1 ELSE Count(freeRequested, {p})
        <5>1. \A x \in FreePackages :
                Count(Append(freeRequested, x), {p})
                  = IF x \in {p} THEN Count(freeRequested, {p}) + 1 ELSE Count(freeRequested, {p})
          BY CountAppend DEF FreeInv
        <5>2. QED
          BY <3>1, <3>2, <5>1
      <4>2. adds[i] \in {p} <=> p = adds[i]
        OBVIOUS
      <4>3. Count(freeRequested', {p}) = Count(freeRequested, {p}) + (IF p = adds[i] THEN 1 ELSE 0)
        BY <1>2, <4>1, <4>2
      <4>4. Count(adds, {p}) = (IF p = adds[i] THEN 1 ELSE 0) + Count(rest, {p})
        BY <3>1
      <4>5. Count(freeRequested, {p}) + Count(reported, {p}) + Count(adds, {p})
              = Count(added, {p})
        BY <1>1
      <4>6. QED
        BY <1>2, <2>1, <3>2, <3>3, <4>3, <4>4, <4>5
    <3>6. QED
      BY <3>4, <3>5 DEF NoRequestLost
  <2>3. CASE PackagesAt(adds) = {}
    <3>1. /\ adds' = <<>> /\ appRequests' = appRequests + Len(adds)
          /\ reported' = reported \o Kept(freeRequested, licences)
          /\ freeRequested' = Kept(freeRequested, FreePackages \ licences)
      BY <1>5, <2>3 DEF AddFreeLicenseWakes, CheckLicenses
    <3>2. Range(adds) \subseteq FreeApps /\ Range(adds) \cap FreePackages = {}
      <4>1. \A j \in 1..Len(adds) : adds[j] \in FreeApps
        BY <2>3 DEF PackagesAt, FreeInv, Free
      <4>2. \A x \in Range(adds) : \E j \in 1..Len(adds) : x = adds[j]
        BY RangeIs DEF FreeInv
      <4>3. QED
        BY <4>1, <4>2 DEF FreeAssumption
    <3>3. Count(adds, FreeApps) = Len(adds) /\ \A p \in FreePackages : Count(adds, {p}) = 0
      <4>1. adds \in Seq(Free)
        BY DEF FreeInv
      <4>2. ASSUME NEW p \in FreePackages PROVE Count(adds, {p}) = 0
        <5>1. Range(adds) \cap {p} = {}
          BY <3>2
        <5>2. QED
          BY <4>1, <5>1, CountKept
      <4>3. Count(adds, FreeApps) = Len(adds)
        BY <3>2, <4>1, CountKept
      <4>4. QED
        BY <4>2, <4>3
    <3>4. \A S : Count(adds', S) = 0
      BY <3>1, CountEmpty
    <3>6. appRequests' + Count(adds', FreeApps) = Count(added', FreeApps)
      <4>1. Len(adds) \in Nat /\ appRequests \in Nat
        BY DEF FreeInv
      <4>2. QED
        BY <1>1, <2>1, <3>1, <3>3, <3>4, <4>1
    <3>7. ASSUME NEW p \in FreePackages
          PROVE  Count(freeRequested', {p}) + Count(reported', {p})
                   = Count(freeRequested, {p}) + Count(reported, {p})
      <4>1. /\ freeRequested \in Seq(FreePackages) /\ reported \in Seq(FreePackages)
            /\ Kept(freeRequested, licences) \in Seq(FreePackages)
        BY KeptRange DEF FreeInv
      <4>2. \A R : Count(Kept(freeRequested, R), {p}) = Count(freeRequested, R \cap {p})
        BY <4>1, CountKept
      <4>3. Count(reported \o Kept(freeRequested, licences), {p})
              = Count(reported, {p}) + Count(Kept(freeRequested, licences), {p})
        BY <4>1, CountConcat
      <4>4. /\ Count(freeRequested', {p}) = Count(freeRequested, (FreePackages \ licences) \cap {p})
            /\ Count(reported', {p}) = Count(reported, {p}) + Count(freeRequested, licences \cap {p})
        BY <3>1, <4>2, <4>3
      <4>5. Count(freeRequested, {}) = 0
        BY <4>1, CountKept
      <4>6. Count(freeRequested, {p}) \in Nat /\ Count(reported, {p}) \in Nat
        BY <1>2
      <4>7. CASE p \in licences
        <5>1. licences \cap {p} = {p} /\ (FreePackages \ licences) \cap {p} = {}
          BY <4>7
        <5>2. QED
          BY <4>4, <4>5, <4>6, <5>1
      <4>8. CASE p \notin licences
        <5>1. licences \cap {p} = {} /\ (FreePackages \ licences) \cap {p} = {p}
          BY <4>8
        <5>2. QED
          BY <4>4, <4>5, <4>6, <5>1
      <4>9. QED
        BY <4>7, <4>8
    <3>8. ASSUME NEW p \in FreePackages
          PROVE  Count(freeRequested', {p}) + Count(reported', {p}) + Count(adds', {p})
                   = Count(added', {p})
      <4>1. Count(adds, {p}) = 0 /\ Count(adds', {p}) = 0
        BY <3>3, <3>4
      <4>2. Count(freeRequested, {p}) + Count(reported, {p}) + Count(adds, {p})
              = Count(added, {p})
        BY <1>1
      <4>3. QED
        BY <1>2, <2>1, <3>7, <4>1, <4>2
    <3>9. QED
      BY <3>6, <3>8 DEF NoRequestLost
  <2>4. QED
    BY <2>2, <2>3
<1>6. \/ UNCHANGED <<adds, added, appRequests, freeRequested, reported>>
      \/ \E id \in Free : Add(id)
      \/ AddFreeLicenseWakes
  BY DEF FreeNext, FreeLogin, LicenceListComes, AppAnswered, freeVars, Free
<1>7. QED
  BY <1>3, <1>4, <1>5, <1>6

(* What is reported is there, and stays.                                   *)
LEMMA ReportsStay ==
  ASSUME FreeAssumption, FreeInv, ReportedIsHere, [FreeNext]_freeVars
  PROVE  ReportedIsHere'
<1>1. licences \subseteq licences'
  BY DEF FreeNext, FreeLogin, Add, LicenceListComes, AppAnswered, AddFreeLicenseWakes, freeVars
<1>2. CASE reported' = reported
  BY <1>1, <1>2 DEF ReportedIsHere
<1>3. CASE reported' = reported \o Kept(freeRequested, licences)
  <2>1. /\ Kept(freeRequested, licences) \in Seq(FreePackages)
        /\ Range(Kept(freeRequested, licences)) \subseteq licences
    BY KeptRange DEF FreeInv
  <2>2. Range(reported \o Kept(freeRequested, licences)) = Range(reported) \cup Range(Kept(freeRequested, licences))
    BY <2>1, RangeConcat DEF FreeInv
  <2>3. QED
    BY <1>1, <1>3, <2>1, <2>2 DEF ReportedIsHere
<1>4. QED
  BY <1>2, <1>3 DEF FreeNext, FreeLogin, Add, LicenceListComes, AppAnswered, AddFreeLicenseWakes,
     freeVars, HandlePackage, CheckLicenses

(* What is in the list is forgotten before the module waits.               *)
LEMMA NoneIsKept ==
  ASSUME FreeAssumption, FreeInv, ReportedAtOnce, [FreeNext]_freeVars
  PROVE  ReportedAtOnce'
<1>1. CASE UNCHANGED <<addPc, licencesChanged, freeRequested, licences>>
  BY <1>1 DEF ReportedAtOnce
<1>2. ASSUME NEW p \in FreePackages, LicenceListComes(p)
      PROVE  ReportedAtOnce'
  BY <1>2 DEF LicenceListComes, ReportedAtOnce
<1>3. CASE AddFreeLicenseWakes
  <2>1. CASE addPc' = "page"
    BY <2>1 DEF ReportedAtOnce
  <2>2. CASE addPc' # "page"
    <3>1. licences' = licences /\ freeRequested' = Kept(freeRequested, FreePackages \ licences)
      BY <1>3, <2>2 DEF AddFreeLicenseWakes, HandlePackage, CheckLicenses
    <3>2. Range(freeRequested') \subseteq FreePackages \ licences
      BY <3>1, KeptRange DEF FreeInv
    <3>3. QED
      BY <3>1, <3>2 DEF ReportedAtOnce
  <2>3. QED
    BY <2>1, <2>2
<1>4. QED
  BY <1>1, <1>2, <1>3 DEF FreeNext, FreeLogin, Add, AppAnswered, freeVars

(* The requests are as described in every state.                           *)
LEMMA FreeInvAlways ==
  ASSUME FreeAssumption
  PROVE  FreeSpec => [](FreeInv /\ NoRequestLost /\ ReportedIsHere /\ ReportedAtOnce)
<1>1. ASSUME FreeInit
      PROVE  FreeInv /\ NoRequestLost /\ ReportedIsHere /\ ReportedAtOnce
  <2>1. /\ adds = <<>> /\ added = <<>> /\ appRequests = 0 /\ freeRequested = <<>> /\ reported = <<>>
        /\ licences = {}
    BY <1>1 DEF FreeInit
  <2>2. FreeInv
    BY <2>1 DEF FreeInv
  <2>3. \A S : Count(<<>>, S) = 0
    BY CountEmpty
  <2>4. NoRequestLost
    BY <2>1, <2>3 DEF NoRequestLost
  <2>5. Range(<<>>) = {}
    <3>1. DOMAIN <<>> = {}
      OBVIOUS
    <3>2. QED
      BY <3>1 DEF Range
  <2>6. QED
    BY <2>1, <2>2, <2>4, <2>5 DEF ReportedIsHere, ReportedAtOnce
<1>2. QED
  BY <1>1, FreeTypes, RequestsStay, ReportsStay, NoneIsKept, PTL DEF FreeSpec

(* For any packages and apps: no request for a free licence is lost or     *)
(* made twice, only what is in the account's list is reported, and while   *)
(* the module waits no package is left to be reported whose licence is in  *)
(* the list the module was last woken for, whether it got there before the *)
(* package was asked for or after (AddFreeLicense.cpp:150-268).            *)
THEOREM RequestsAreMadeOnce ==
  ASSUME FreeAssumption
  PROVE  FreeSpec => [](NoRequestLost /\ ReportedIsHere /\ ReportedAtOnce)
BY FreeInvAlways, PTL

-----------------------------------------------------------------------------
(* Cloud                                                                   *)

AllFiles == Range(CloudFiles)
AllRows == UNION {Range(table) : table \in CloudPages}

(* A list names nothing twice.                                             *)
Distinct(s) == \A i, j \in 1..Len(s) : s[i] = s[j] => i = j

(* The files Steam has, and what has been read of them: all that did not   *)
(* move and lie before the next chunk once, and without a change exactly   *)
(* these.                                                                  *)
FilesInv ==
  /\ cloudServer \in Seq(AllFiles) /\ Distinct(cloudServer)
  /\ files \in Seq(AllFiles) /\ fileIndex \in Nat /\ changes \in Nat
  /\ Range(files) \subseteq ever \ Broken /\ always \subseteq ever
  /\ cloudPc = "files" => Range(cloudServer) \subseteq ever
  /\ always \subseteq Range(cloudServer)
  /\ changes = 0 => IF cloudPc = "files"
                    THEN /\ fileIndex <= Len(cloudServer)
                         /\ files = Valid(SubSeq(cloudServer, 1, fileIndex))
                    ELSE ever # {} => files = Valid(cloudServer)
  /\ \A p \in 1..Len(cloudServer) :
       cloudServer[p] \in always \ Broken =>
         Count(files, {cloudServer[p]})
           = IF cloudPc = "files" /\ fileIndex < p THEN 0 ELSE 1

(* The rows that have been read, and the table while it is read.           *)
RowsInv ==
  /\ cloudPage \in Seq(AllRows) /\ rowsSeen \in Seq(AllRows)
  /\ cloudPc = "page" => (tableOpen <=> \A k \in 1..Len(rowsSeen) : RowAsExpected(rowsSeen[k]))
  /\ AppsAreTheRows

(* A list without one of its elements.                                     *)
LEMMA RemoveFacts ==
  ASSUME NEW T, NEW s \in Seq(T), NEW k \in 1..Len(s)
  PROVE  LET r == RemoveAt(s, k)
         IN /\ r \in Seq(T) /\ Len(r) = Len(s) - 1
            /\ \A i \in 1..(k - 1) : r[i] = s[i]
            /\ \A i \in k..(Len(s) - 1) : r[i] = s[i + 1]
<1> DEFINE a == SubSeq(s, 1, k - 1)
           b == SubSeq(s, k + 1, Len(s))
           n == Len(s)
<1>1. n \in Nat /\ k \in Nat /\ 1 <= k /\ k <= n
  OBVIOUS
<1>2. a \in Seq(T) /\ Len(a) = k - 1 /\ \A i \in 1..(k - 1) : a[i] = s[i]
  <2>1. \A i \in 1..(k - 1) : s[i] \in T /\ 1 + i - 1 = i
    BY <1>1
  <2>2. /\ a \in Seq(T) /\ Len(a) = IF 1 <= k - 1 THEN (k - 1) - 1 + 1 ELSE 0
        /\ \A i \in 1..((k - 1) - 1 + 1) : a[i] = s[1 + i - 1]
    BY <1>1, <2>1, SubSeqProperties
  <2> HIDE DEF a
  <2>3. QED
    BY <1>1, <2>1, <2>2
<1>3. b \in Seq(T) /\ Len(b) = n - k /\ \A i \in 1..(n - k) : b[i] = s[k + i]
  <2>1. \A i \in (k + 1)..n : s[i] \in T
    BY <1>1
  <2>2. /\ b \in Seq(T) /\ Len(b) = IF k + 1 <= n THEN n - (k + 1) + 1 ELSE 0
        /\ \A i \in 1..(n - (k + 1) + 1) : b[i] = s[(k + 1) + i - 1]
    BY <1>1, <2>1, SubSeqProperties
  <2>3. \A i \in 1..(n - k) : i \in 1..(n - (k + 1) + 1) /\ (k + 1) + i - 1 = k + i
    BY <1>1
  <2> HIDE DEF b, n
  <2>4. QED
    BY <1>1, <2>2, <2>3
<1>4. RemoveAt(s, k) = a \o b
  BY DEF RemoveAt
<1> HIDE DEF a, b, n
<1>5. /\ a \o b \in Seq(T) /\ Len(a \o b) = (k - 1) + (n - k)
      /\ \A i \in 1..(k - 1) : (a \o b)[i] = a[i]
      /\ \A i \in 1..(n - k) : (a \o b)[i + (k - 1)] = b[i]
  <2>1. /\ a \o b \in Seq(T) /\ Len(a \o b) = Len(a) + Len(b)
        /\ \A i \in 1..Len(a) : (a \o b)[i] = a[i]
        /\ \A i \in 1..Len(b) : (a \o b)[i + Len(a)] = b[i]
    <3>1. a \in Seq(T) /\ b \in Seq(T)
      BY <1>2, <1>3
    <3>2. QED
      BY <3>1, ConcatFacts
  <2>2. QED
    BY <1>2, <1>3, <2>1
<1>6. ASSUME NEW i \in k..(n - 1)
      PROVE  (a \o b)[i] = s[i + 1]
  <2>1. i - (k - 1) \in 1..(n - k) /\ (i - (k - 1)) + (k - 1) = i /\ k + (i - (k - 1)) = i + 1
    BY <1>1
  <2>2. QED
    BY <1>3, <1>5, <2>1
<1>7. Len(a \o b) = n - 1
  BY <1>1, <1>5
<1>8. QED
  BY <1>2, <1>4, <1>5, <1>6, <1>7 DEF n

(* A file is gone, or comes last: those before it stay where they are.     *)
LEMMA FileMoves ==
  ASSUME NEW s \in Seq(AllFiles), Distinct(s), NEW k \in 1..Len(s),
         NEW r, r = RemoveAt(s, k) \/ r = Append(RemoveAt(s, k), s[k])
  PROVE  /\ r \in Seq(AllFiles) /\ Distinct(r) /\ Range(r) \subseteq Range(s)
         /\ \A i \in 1..Len(s) : i < k => i \in 1..Len(r) /\ r[i] = s[i]
         /\ \A i \in 1..Len(r) : i < k => r[i] = s[i]
         /\ \A i \in 1..Len(r) : i >= k => \E j \in k..Len(s) : r[i] = s[j]
<1> DEFINE q == RemoveAt(s, k)
           n == Len(s)
<1>1. /\ q \in Seq(AllFiles) /\ Len(q) = n - 1 /\ n \in Nat /\ k \in Nat /\ 1 <= k /\ k <= n
      /\ \A i \in 1..(k - 1) : q[i] = s[i]
      /\ \A i \in k..(n - 1) : q[i] = s[i + 1]
  <2>1. n \in Nat /\ k \in Nat /\ 1 <= k /\ k <= n
    OBVIOUS
  <2>2. /\ q \in Seq(AllFiles) /\ Len(q) = n - 1
        /\ \A i \in 1..(k - 1) : q[i] = s[i]
        /\ \A i \in k..(n - 1) : q[i] = s[i + 1]
    BY RemoveFacts, Zenon
  <2>3. QED
    BY <2>1, <2>2
<1> HIDE DEF q, n
<1> DEFINE from(i) == IF i < k THEN i ELSE IF i = n THEN k ELSE i + 1
<1>2. /\ r \in Seq(AllFiles) /\ Len(r) \in {n - 1, n}
      /\ \A i \in 1..Len(r) : r[i] = s[from(i)]
  <2>1. \A i \in 1..(n - 1) : q[i] = s[from(i)]
    <3>1. \A i \in 1..(n - 1) : i # n /\ (i \in 1..(k - 1) \/ i \in k..(n - 1))
      BY <1>1
    <3>2. \A i \in 1..(k - 1) : from(i) = i
      BY <1>1
    <3>3. \A i \in k..(n - 1) : from(i) = i + 1
      BY <1>1
    <3> HIDE DEF from
    <3>4. QED
      BY <1>1, <3>1, <3>2, <3>3
  <2>2. from(n) = k
    BY <1>1
  <2> HIDE DEF from
  <2>3. CASE r = q
    BY <1>1, <2>1, <2>3
  <2>4. CASE r = Append(q, s[k])
    <3>1. s[k] \in AllFiles
      OBVIOUS
    <3>2. /\ r \in Seq(AllFiles) /\ Len(r) = n /\ r[n] = s[k]
          /\ \A i \in 1..(n - 1) : r[i] = q[i]
      <4>1. /\ r \in Seq(AllFiles) /\ Len(r) = Len(q) + 1 /\ r[Len(q) + 1] = s[k]
            /\ \A i \in 1..Len(q) : r[i] = q[i]
        BY <1>1, <2>4, <3>1, AppendFacts
      <4>2. Len(q) + 1 = n
        BY <1>1
      <4>3. QED
        BY <1>1, <4>1, <4>2
    <3>3. \A i \in 1..n : i = n \/ i \in 1..(n - 1)
      BY <1>1
    <3>4. QED
      BY <2>1, <2>2, <3>2, <3>3
  <2>5. QED
    BY <2>3, <2>4 DEF q
<1>3. \A i \in 1..Len(r) : from(i) \in 1..n /\ (i >= k => from(i) \in k..n)
  BY <1>1, <1>2
<1>4. \A i, j \in 1..Len(r) : from(i) = from(j) => i = j
  BY <1>1, <1>2
<1>5. \A i \in 1..n : i < k => i \in 1..Len(r) /\ from(i) = i
  BY <1>1, <1>2
<1>6. \A i \in 1..Len(r) : i < k => from(i) = i
  OBVIOUS
<1> HIDE DEF from
<1>7. Distinct(r)
  <2>1. \A i, j \in 1..n : s[i] = s[j] => i = j
    BY DEF Distinct, n
  <2>2. QED
    BY <1>2, <1>3, <1>4, <2>1 DEF Distinct
<1>8. Range(r) \subseteq Range(s)
  <2>1. ASSUME NEW x \in Range(r) PROVE x \in Range(s)
    <3>1. PICK i \in 1..Len(r) : x = r[i]
      BY <1>2, RangeIs
    <3>2. from(i) \in 1..Len(s) /\ x = s[from(i)]
      BY <1>2, <1>3, <3>1 DEF n
    <3>3. QED
      BY <3>2, RangeIs
  <2>2. QED
    BY <2>1
<1>9. QED
  BY <1>2, <1>3, <1>5, <1>6, <1>7, <1>8 DEF n

(* What a chunk has of one file.                                           *)
LEMMA FileInChunk ==
  ASSUME NEW s \in Seq(AllFiles), Distinct(s), NEW p \in 1..Len(s),
         NEW from \in 0..Len(s), NEW to \in from..Len(s), s[p] \notin Broken
  PROVE  Count(Valid(SubSeq(s, from + 1, to)), {s[p]}) = IF from < p /\ p <= to THEN 1 ELSE 0
<1> DEFINE c == SubSeq(s, from + 1, to)
           S == Range(CloudFiles) \ Broken
<1>1. Len(s) \in Nat /\ from \in Nat /\ to \in Nat /\ from <= to /\ to <= Len(s) /\ s[p] \in AllFiles
  OBVIOUS
<1>2. c \in Seq(AllFiles) /\ Len(c) = to - from /\ \A i \in 1..(to - from) : c[i] = s[from + i]
  <2>1. \A i \in (from + 1)..to : s[i] \in AllFiles
    BY <1>1
  <2>2. /\ c \in Seq(AllFiles) /\ Len(c) = IF from + 1 <= to THEN to - (from + 1) + 1 ELSE 0
        /\ \A i \in 1..(to - (from + 1) + 1) : c[i] = s[(from + 1) + i - 1]
    BY <1>1, <2>1, SubSeqProperties
  <2>3. \A i \in 1..(to - from) : i \in 1..(to - (from + 1) + 1) /\ (from + 1) + i - 1 = from + i
    BY <1>1
  <2> HIDE DEF c
  <2>4. QED
    BY <1>1, <2>2, <2>3
<1> HIDE DEF c
<1>3. Count(Kept(c, S), {s[p]}) = Count(c, S \cap {s[p]}) /\ S \cap {s[p]} = {s[p]}
  <2>1. \A R : Count(Kept(c, R), {s[p]}) = Count(c, R \cap {s[p]})
    BY <1>2, CountKept
  <2>2. S \cap {s[p]} = {s[p]}
    BY <1>1 DEF AllFiles
  <2>3. QED
    BY <2>1, <2>2
<1>4. CASE from < p /\ p <= to
  <2>1. p - from \in 1..Len(c) /\ from + (p - from) = p
    BY <1>1, <1>2, <1>4
  <2>2. c[p - from] = s[p]
    BY <1>2, <2>1
  <2>3. \A i, j \in 1..Len(c) : c[i] = c[j] => i = j
    <3>1. ASSUME NEW i \in 1..Len(c), NEW j \in 1..Len(c), c[i] = c[j]
          PROVE  i = j
      <4>1. from + i \in 1..Len(s) /\ from + j \in 1..Len(s)
        BY <1>1, <1>2
      <4>2. s[from + i] = s[from + j]
        BY <1>2, <3>1
      <4>3. from + i = from + j
        BY <4>1, <4>2 DEF Distinct
      <4>4. QED
        BY <1>1, <1>2, <4>3
    <3>2. QED
      BY <3>1
  <2>4. Kept(c, {c[p - from]}) = <<c[p - from]>>
    BY <1>2, <2>1, <2>3, KeptOnce
  <2>5. Len(<<c[p - from]>>) = 1
    OBVIOUS
  <2>6. QED
    BY <1>3, <1>4, <2>2, <2>4, <2>5 DEF Count, Valid, c, S
<1>5. CASE ~(from < p /\ p <= to)
  <2>1. ASSUME NEW i \in 1..Len(c) PROVE c[i] # s[p]
    <3>1. from + i \in 1..Len(s) /\ from + i # p
      BY <1>1, <1>2, <1>5
    <3>2. s[from + i] # s[p]
      BY <3>1 DEF Distinct
    <3>3. QED
      BY <1>2, <3>2
  <2>2. Range(c) \cap {s[p]} = {}
    <3>1. \A x \in Range(c) : \E i \in 1..Len(c) : x = c[i]
      BY <1>2, RangeIs
    <3>2. QED
      BY <2>1, <3>1
  <2>3. Count(c, {s[p]}) = 0
    BY <1>2, <2>2, CountKept
  <2>4. QED
    BY <1>3, <1>5, <2>3 DEF Valid, c, S
<1>6. QED
  BY <1>4, <1>5

(* Files are loaded, gone, moved and read.                                 *)
LEMMA FilesStep ==
  ASSUME CloudAssumption, FilesInv, [CloudNext]_cloudVars
  PROVE  FilesInv'
<1> DEFINE N == Len(cloudServer)
<1>1. /\ cloudServer \in Seq(AllFiles) /\ Distinct(cloudServer) /\ N \in Nat
      /\ files \in Seq(AllFiles) /\ fileIndex \in Nat /\ changes \in Nat
      /\ Range(files) \subseteq ever \ Broken /\ always \subseteq ever
      /\ cloudPc = "files" => Range(cloudServer) \subseteq ever
      /\ always \subseteq Range(cloudServer)
  BY DEF FilesInv
<1>2. changes = 0 => IF cloudPc = "files"
                     THEN fileIndex <= N /\ files = Valid(SubSeq(cloudServer, 1, fileIndex))
                     ELSE ever # {} => files = Valid(cloudServer)
  BY DEF FilesInv
<1>3. \A p \in 1..N :
        cloudServer[p] \in always \ Broken =>
          Count(files, {cloudServer[p]}) = IF cloudPc = "files" /\ fileIndex < p THEN 0 ELSE 1
  BY DEF FilesInv
<1>4. CASE UNCHANGED <<cloudServer, changes, fileIndex, files, ever, always>>
             /\ (cloudPc' = "files" <=> cloudPc = "files")
  BY <1>4 DEF FilesInv
<1>5. CASE LoadFiles
  <2>1. /\ cloudPc' = "files" /\ files' = <<>> /\ fileIndex' = 0 /\ UNCHANGED <<cloudServer, changes>>
        /\ ever' = Range(cloudServer) /\ always' = Range(cloudServer)
    BY <1>5 DEF LoadFiles, fileVars
  <2>2. files' \in Seq(AllFiles) /\ Range(files') \subseteq ever' \ Broken
    <3>1. <<>> \in Seq(AllFiles)
      OBVIOUS
    <3>2. DOMAIN <<>> = {}
      OBVIOUS
    <3>3. Range(<<>>) = {}
      BY <3>2 DEF Range
    <3>4. QED
      BY <2>1, <3>1, <3>3
  <2>3. Valid(SubSeq(cloudServer, 1, 0)) = <<>>
    <3>1. SubSeq(cloudServer, 1, 0) = <<>>
      BY SubSeqEmpty
    <3>2. QED
      BY <3>1, KeptEmpty DEF Valid
  <2>4. \A S : Count(<<>>, S) = 0
    BY CountEmpty
  <2>5. \A p \in 1..N : 0 < p
    BY <1>1
  <2>6. QED
    BY <1>1, <2>1, <2>2, <2>3, <2>4, <2>5 DEF FilesInv
<1>6. ASSUME NEW f, FilesChange(f)
      PROVE  FilesInv'
  <2>1. f \in Range(cloudServer)
    BY <1>6 DEF FilesChange
  <2> DEFINE at == CHOOSE i \in 1..N : cloudServer[i] = f
  <2>2. at \in 1..N /\ cloudServer[at] = f
    <3>1. \E i \in 1..N : cloudServer[i] = f
      BY <1>1, <2>1, RangeIs
    <3>2. QED
      BY <3>1
  <2>3. /\ changes' = changes + 1 /\ UNCHANGED <<cloudPc, fileIndex, files, ever>>
        /\ \/ cloudServer' = RemoveAt(cloudServer, at)
           \/ cloudServer' = Append(RemoveAt(cloudServer, at), f)
        /\ always' = always \ {cloudServer[i] : i \in at..N}
    BY <1>6 DEF FilesChange
  <2> HIDE DEF at
  <2>4. PICK k \in 1..N : k = at
    BY <2>2
  <2>5. PICK r : r = cloudServer'
    OBVIOUS
  <2>6. /\ r \in Seq(AllFiles) /\ Distinct(r) /\ Range(r) \subseteq Range(cloudServer)
        /\ \A i \in 1..N : i < k => i \in 1..Len(r) /\ r[i] = cloudServer[i]
        /\ \A i \in 1..Len(r) : i < k => r[i] = cloudServer[i]
        /\ \A i \in 1..Len(r) : i >= k => \E j \in k..N : r[i] = cloudServer[j]
    <3>1. r = RemoveAt(cloudServer, k) \/ r = Append(RemoveAt(cloudServer, k), cloudServer[k])
      BY <2>2, <2>3, <2>4, <2>5
    <3>2. QED
      BY <1>1, <3>1, FileMoves
  <2>7. always' \subseteq Range(r)
    <3>1. ASSUME NEW x \in always'
          PROVE  x \in Range(r)
      <4>1. x \in Range(cloudServer) /\ \A i \in k..N : x # cloudServer[i]
        BY <1>1, <2>3, <2>4
      <4>2. PICK i \in 1..N : x = cloudServer[i]
        BY <1>1, <4>1, RangeIs
      <4>3. i < k
        BY <1>1, <4>1, <4>2
      <4>4. i \in 1..Len(r) /\ r[i] = x
        BY <2>6, <4>2, <4>3
      <4>5. QED
        BY <2>6, <4>4, RangeIs
    <3>2. QED
      BY <3>1
  <2>8. ASSUME NEW p \in 1..Len(r), r[p] \in always' \ Broken
        PROVE  Count(files, {r[p]}) = IF cloudPc = "files" /\ fileIndex < p THEN 0 ELSE 1
    <3>1. r[p] \in always /\ \A i \in k..N : r[p] # cloudServer[i]
      BY <2>3, <2>4, <2>8
    <3>2. p < k
      <4>1. p \in Int /\ k \in Int
        BY <2>6
      <4>2. ~(p >= k)
        BY <2>6, <3>1
      <4>3. QED
        BY <4>1, <4>2
    <3>3. p \in 1..N /\ r[p] = cloudServer[p]
      <4>1. r[p] = cloudServer[p]
        BY <2>6, <3>2
      <4>2. p \in 1..N
        BY <1>1, <2>6, <3>2
      <4>3. QED
        BY <4>1, <4>2
    <3>4. QED
      BY <1>3, <2>8, <3>1, <3>3
  <2>9. changes' \in Nat /\ changes' # 0
    BY <1>1, <2>3
  <2>10. /\ cloudServer' \in Seq(AllFiles) /\ Distinct(cloudServer') /\ always' \subseteq Range(cloudServer')
         /\ Range(cloudServer') \subseteq Range(cloudServer) /\ always' \subseteq ever'
    BY <1>1, <2>3, <2>5, <2>6, <2>7
  <2>11. \A p \in 1..Len(cloudServer') :
           cloudServer'[p] \in always' \ Broken =>
             Count(files', {cloudServer'[p]}) = IF cloudPc' = "files" /\ fileIndex' < p THEN 0 ELSE 1
    BY <2>3, <2>5, <2>8
  <2>12. QED
    BY <1>1, <2>3, <2>9, <2>10, <2>11 DEF FilesInv
<1>7. ASSUME NEW count \in 0..Len(CloudFiles), ReceiveChunk(count)
      PROVE  FilesInv'
  <2> DEFINE from == IF fileIndex < N THEN fileIndex ELSE N
             to == from + count
             chunk == SubSeq(cloudServer, from + 1, to)
  <2>1. /\ cloudPc = "files" /\ to <= N /\ (count = 0 => from = N)
        /\ files' = files \o Valid(chunk) /\ fileIndex' = fileIndex + Len(chunk)
        /\ cloudPc' = IF fileIndex' < N THEN "files" ELSE "idle"
        /\ UNCHANGED <<cloudServer, changes, ever, always>>
    BY <1>7 DEF ReceiveChunk
  <2>2. count \in Nat /\ from \in 0..N /\ to \in from..N
    <3>1. Len(CloudFiles) \in Nat
      BY DEF CloudAssumption
    <3>2. QED
      BY <1>1, <2>1, <3>1
  <2>3. chunk \in Seq(AllFiles) /\ Len(chunk) = count /\ Range(chunk) \subseteq Range(cloudServer)
    <3>1. \A i \in (from + 1)..to : i \in 1..N /\ cloudServer[i] \in Range(cloudServer)
      <4>1. \A i \in (from + 1)..to : i \in 1..N
        BY <1>1, <2>2
      <4>2. \A i \in 1..N : cloudServer[i] \in Range(cloudServer)
        BY <1>1, RangeIs
      <4>3. QED
        BY <4>1, <4>2
    <3>2. /\ chunk \in Seq(Range(cloudServer))
          /\ Len(chunk) = IF from + 1 <= to THEN to - (from + 1) + 1 ELSE 0
      BY <1>1, <2>2, <3>1, SubSeqProperties
    <3>3. Range(cloudServer) \subseteq AllFiles
      BY <1>1, RangeIs
    <3>4. Range(chunk) \subseteq Range(cloudServer)
      BY <3>2, RangeIs
    <3>5. Len(chunk) = count
      <4> HIDE DEF chunk
      <4>1. QED
        BY <1>1, <2>2, <3>2
    <3>6. QED
      BY <3>2, <3>3, <3>4, <3>5
  <2>4. /\ Valid(chunk) \in Seq(AllFiles)
        /\ Range(Valid(chunk)) \subseteq Range(cloudServer) \ Broken
    <3>1. \A c \in Seq(AllFiles) : /\ Valid(c) \in Seq(AllFiles)
                                    /\ Range(Valid(c)) = Range(c) \cap (AllFiles \ Broken)
      BY KeptRange DEF Valid, AllFiles
    <3> HIDE DEF chunk
    <3>2. QED
      BY <2>3, <3>1
  <2>5. \A p \in 1..N : cloudServer[p] \notin Broken =>
          Count(Valid(chunk), {cloudServer[p]}) = IF from < p /\ p <= to THEN 1 ELSE 0
    BY <1>1, <2>2, FileInChunk
  <2>6. changes = 0 => Valid(SubSeq(cloudServer, 1, fileIndex)) \o Valid(chunk)
                         = Valid(SubSeq(cloudServer, 1, to))
    <3>1. SUFFICES ASSUME changes = 0
                   PROVE  Valid(SubSeq(cloudServer, 1, fileIndex)) \o Valid(chunk)
                            = Valid(SubSeq(cloudServer, 1, to))
      OBVIOUS
    <3>2. from = fileIndex /\ fileIndex \in 0..N
      BY <1>1, <1>2, <2>1, <3>1
    <3>3. SubSeq(cloudServer, 1, fileIndex) \o chunk = SubSeq(cloudServer, 1, to)
      <4>1. 1 \in 1..(N + 1) /\ fileIndex \in (1 - 1)..N /\ to \in fileIndex..N
        BY <1>1, <2>2, <3>2
      <4>2. SubSeq(cloudServer, 1, fileIndex) \o SubSeq(cloudServer, fileIndex + 1, to) = SubSeq(cloudServer, 1, to)
        BY <1>1, <4>1, ConcatAdjacentSubSeq
      <4>3. QED
        BY <3>2, <4>2
    <3>4. SubSeq(cloudServer, 1, fileIndex) \in Seq(AllFiles)
      <4>1. \A i \in 1..fileIndex : cloudServer[i] \in AllFiles
        BY <1>1, <3>2
      <4>2. QED
        BY <1>1, <4>1, SubSeqProperties
    <3>5. QED
      <4>1. \A c, d \in Seq(AllFiles) : Valid(c \o d) = Valid(c) \o Valid(d)
        BY KeptConcat DEF Valid
      <4> HIDE DEF chunk
      <4>2. QED
        BY <2>3, <3>3, <3>4, <4>1
  <2>7. SubSeq(cloudServer, 1, N) = cloudServer
    BY <1>1, SubSeqFull
  <2>8. to = from + count /\ (fileIndex < N => from = fileIndex) /\ (~(fileIndex < N) => from = N)
    OBVIOUS
  <2>9. fileIndex' = fileIndex + count /\ fileIndex' \in Nat
    BY <1>1, <2>1, <2>2, <2>3
  <2> HIDE DEF N, from, to, chunk
  <2>10. files' \in Seq(AllFiles) /\ Range(files') \subseteq ever' \ Broken
    <3>1. files \o Valid(chunk) \in Seq(AllFiles) /\ Range(files \o Valid(chunk)) = Range(files) \cup Range(Valid(chunk))
      BY <1>1, <2>4, RangeConcat
    <3>2. QED
      BY <1>1, <2>1, <2>4, <3>1
  <2>11. changes' = 0 => IF cloudPc' = "files"
                         THEN fileIndex' <= N /\ files' = Valid(SubSeq(cloudServer, 1, fileIndex'))
                         ELSE files' = Valid(cloudServer)
    <3>1. SUFFICES ASSUME changes = 0
                   PROVE  IF cloudPc' = "files"
                          THEN fileIndex' <= N /\ files' = Valid(SubSeq(cloudServer, 1, fileIndex'))
                          ELSE files' = Valid(cloudServer)
      BY <2>1
    <3>2. fileIndex <= N /\ files' = Valid(SubSeq(cloudServer, 1, to))
      BY <1>2, <2>1, <2>6, <3>1
    <3>3. from = fileIndex /\ to = fileIndex'
      BY <1>1, <2>2, <2>8, <2>9, <3>2
    <3>4. CASE fileIndex' < N
      BY <1>1, <2>1, <2>9, <3>2, <3>3, <3>4
    <3>5. CASE ~(fileIndex' < N)
      <4>1. to = N /\ cloudPc' # "files"
        BY <1>1, <2>1, <2>2, <2>9, <3>3, <3>5
      <4>2. QED
        BY <2>7, <3>2, <4>1
    <3>6. QED
      BY <3>4, <3>5
  <2>12. ASSUME NEW p \in 1..N, cloudServer[p] \in always \ Broken
         PROVE  Count(files', {cloudServer[p]}) = IF cloudPc' = "files" /\ fileIndex' < p THEN 0 ELSE 1
    <3>1. Count(files', {cloudServer[p]}) = Count(files, {cloudServer[p]}) + Count(Valid(chunk), {cloudServer[p]})
      BY <1>1, <2>1, <2>4, CountConcat
    <3>2. Count(files, {cloudServer[p]}) = IF fileIndex < p THEN 0 ELSE 1
      BY <1>3, <2>1, <2>12
    <3>3. Count(Valid(chunk), {cloudServer[p]}) = IF from < p /\ p <= to THEN 1 ELSE 0
      BY <2>5, <2>12
    <3>4. p \in Nat /\ 1 <= p /\ p <= N
      BY <1>1
    <3>5. CASE fileIndex < N
      <4>1. from = fileIndex /\ to = fileIndex'
        BY <2>8, <2>9, <3>5
      <4>2. fileIndex < p /\ p <= to => ~(fileIndex' < p)
        BY <2>9, <3>4, <4>1
      <4>3. ~(fileIndex < p) => ~(fileIndex' < p)
        BY <1>1, <2>2, <2>9, <3>4
      <4>4. fileIndex < p /\ ~(p <= to) => cloudPc' = "files" /\ fileIndex' < p
        BY <1>1, <2>1, <2>9, <3>4, <4>1
      <4>5. QED
        BY <3>1, <3>2, <3>3, <4>1, <4>2, <4>3, <4>4
    <3>6. CASE ~(fileIndex < N)
      <4>1. from = N /\ ~(fileIndex < p) /\ ~(from < p)
        BY <1>1, <2>8, <3>4, <3>6
      <4>2. ~(fileIndex' < p)
        BY <1>1, <2>2, <2>9, <3>4, <4>1
      <4>3. QED
        BY <3>1, <3>2, <3>3, <4>1, <4>2
    <3>7. QED
      BY <3>5, <3>6
  <2>13. cloudPc' = "files" => Range(cloudServer') \subseteq ever'
    BY <1>1, <2>1
  <2>14. QED
    BY <1>1, <2>1, <2>9, <2>10, <2>11, <2>12, <2>13 DEF FilesInv, N
<1>8. \/ UNCHANGED <<cloudServer, changes, fileIndex, files, ever, always>>
          /\ (cloudPc' = "files" <=> cloudPc = "files")
      \/ LoadFiles
      \/ \E f : FilesChange(f)
      \/ \E count \in 0..Len(CloudFiles) : ReceiveChunk(count)
  BY DEF CloudNext, ReadRow, PageEnds, LoadApps, fileVars, cloudVars
<1>9. QED
  BY <1>4, <1>5, <1>6, <1>7, <1>8

(* The table ends at the first row that is not as expected.                *)
LEMMA RowsStep ==
  ASSUME CloudAssumption, RowsInv, [CloudNext]_cloudVars
  PROVE  RowsInv'
<1> DEFINE N == Len(rowsSeen)
<1>1. cloudPage \in Seq(AllRows) /\ rowsSeen \in Seq(AllRows) /\ N \in Nat
  BY DEF RowsInv
<1>2. cloudPc = "page" => (tableOpen <=> \A k \in 1..N : RowAsExpected(rowsSeen[k]))
  BY DEF RowsInv
<1>3. \A n \in 0..N :
        (\A k \in 1..n : RowAsExpected(rowsSeen[k])) /\ (n < N => ~RowAsExpected(rowsSeen[n + 1]))
          => apps = Kept(SubSeq(rowsSeen, 1, n), BodyRows)
  BY DEF RowsInv, AppsAreTheRows
<1>4. CASE UNCHANGED <<cloudPage, rowsSeen, apps, tableOpen>> /\ (cloudPc' = "page" => cloudPc = "page")
  BY <1>4 DEF RowsInv, AppsAreTheRows
<1>5. ASSUME NEW table \in CloudPages, LoadApps(table)
      PROVE  RowsInv'
  <2>1. cloudPage' = table /\ tableOpen' = TRUE /\ apps' = <<>> /\ rowsSeen' = <<>>
    BY <1>5 DEF LoadApps
  <2>2. table \in Seq(AllRows)
    <3>1. table \in Seq(Range(table)) /\ Range(table) \subseteq AllRows
      BY DEF CloudAssumption, AllRows
    <3>2. QED
      BY <3>1
  <2>3. <<>> \in Seq(AllRows) /\ Len(<<>>) = 0
    OBVIOUS
  <2>4. AppsAreTheRows'
    <3>1. SubSeq(<<>>, 1, 0) = <<>>
      BY SubSeqEmpty
    <3>2. Kept(<<>>, BodyRows) = <<>>
      BY KeptEmpty
    <3>3. \A n \in 0..Len(<<>>) : n = 0
      BY <2>3
    <3>4. QED
      BY <2>1, <3>1, <3>2, <3>3 DEF AppsAreTheRows
  <2>5. \A k \in 1..Len(<<>>) : FALSE
    BY <2>3
  <2>6. QED
    BY <2>1, <2>2, <2>3, <2>4, <2>5 DEF RowsInv
<1>6. CASE ReadRow
  <2> DEFINE row == Head(cloudPage)
             seen == Append(rowsSeen, row)
  <2>1. /\ cloudPc = "page" /\ cloudPage # <<>> /\ cloudPc' = cloudPc
        /\ tableOpen' = (tableOpen /\ RowAsExpected(row))
        /\ apps' = IF tableOpen /\ RowAsExpected(row) /\ row.section = "tbody" THEN Append(apps, row) ELSE apps
        /\ rowsSeen' = seen /\ cloudPage' = Tail(cloudPage)
    BY <1>6 DEF ReadRow
  <2>2. row \in AllRows /\ Tail(cloudPage) \in Seq(AllRows)
    BY <1>1, <2>1
  <2>3. row \in BodyRows <=> row.section = "tbody"
    BY <2>2 DEF BodyRows, AllRows
  <2>4. /\ seen \in Seq(AllRows) /\ Len(seen) = N + 1 /\ seen[N + 1] = row
        /\ \A k \in 1..N : seen[k] = rowsSeen[k]
    BY <1>1, <2>2, AppendFacts
  <2>5. \A n \in 0..N : SubSeq(seen, 1, n) = SubSeq(rowsSeen, 1, n)
    <3>1. ASSUME NEW n \in 0..N
          PROVE  SubSeq(seen, 1, n) = SubSeq(rowsSeen, 1, n)
      <4>1. <<row>> \in Seq(AllRows) /\ seen = rowsSeen \o <<row>>
        BY <1>1, <2>2, AppendIsConcat
      <4> HIDE DEF seen, row
      <4>2. 1 \in 1..(N + 1) /\ n \in 0..N
        BY <1>1
      <4>3. QED
        BY <1>1, <4>1, <4>2, SubSeqOfConcat1
    <3>2. QED
      BY <3>1
  <2>6. SubSeq(seen, 1, N + 1) = seen /\ SubSeq(rowsSeen, 1, N) = rowsSeen
    BY <1>1, <2>4, SubSeqFull
  <2>7. Kept(seen, BodyRows) = IF row \in BodyRows THEN Append(Kept(rowsSeen, BodyRows), row)
                               ELSE Kept(rowsSeen, BodyRows)
    BY <1>1, <2>2, KeptAppend
  <2> HIDE DEF row, seen
  <2>8. \A k \in 1..(N + 1) : k \in 1..N \/ k = N + 1
    BY <1>1
  <2>9. \A k \in 1..N : k \in 1..(N + 1)
    BY <1>1
  <2>10. N + 1 \in 1..(N + 1) /\ N \in 0..N
    BY <1>1
  <2>11. tableOpen' <=> \A k \in 1..(N + 1) : RowAsExpected(seen[k])
    BY <1>2, <2>1, <2>4, <2>8, <2>9, <2>10
  <2>12. ASSUME NEW n \in 0..(N + 1),
                \A k \in 1..n : RowAsExpected(seen[k]), n < N + 1 => ~RowAsExpected(seen[n + 1])
         PROVE  apps' = Kept(SubSeq(seen, 1, n), BodyRows)
    <3>1. CASE n = N + 1
      <4>1. RowAsExpected(row) /\ \A k \in 1..N : RowAsExpected(rowsSeen[k])
        BY <2>4, <2>9, <2>10, <2>12, <3>1
      <4>2. tableOpen /\ apps = Kept(rowsSeen, BodyRows)
        <5>1. N \in 0..N /\ ~(N < N)
          BY <1>1
        <5>2. apps = Kept(SubSeq(rowsSeen, 1, N), BodyRows)
          <6>1. (\A k \in 1..N : RowAsExpected(rowsSeen[k])) /\ (N < N => ~RowAsExpected(rowsSeen[N + 1]))
                  => apps = Kept(SubSeq(rowsSeen, 1, N), BodyRows)
            BY <1>3, <5>1
          <6>2. QED
            BY <4>1, <5>1, <6>1
        <5>3. QED
          BY <1>2, <2>1, <2>6, <4>1, <5>2
      <4>3. apps' = IF row \in BodyRows THEN Append(apps, row) ELSE apps
        BY <2>1, <2>3, <4>1, <4>2
      <4>4. QED
        BY <2>6, <2>7, <3>1, <4>2, <4>3
    <3>2. CASE n # N + 1
      <4>1. n \in 0..N /\ n < N + 1 /\ n + 1 \in 1..(N + 1)
        BY <1>1, <3>2
      <4>2. ~RowAsExpected(seen[n + 1])
        BY <2>12, <4>1
      <4>3. apps' = apps
        <5>1. ~tableOpen'
          BY <2>11, <4>1, <4>2
        <5>2. QED
          BY <2>1, <5>1
      <4>4. \A k \in 1..n : k \in 1..N
        BY <1>1, <4>1
      <4>5. \A k \in 1..n : RowAsExpected(rowsSeen[k])
        BY <2>4, <2>12, <4>4
      <4>6. n < N => ~RowAsExpected(rowsSeen[n + 1])
        <5>1. ASSUME n < N PROVE n + 1 \in 1..N
          BY <1>1, <4>1, <5>1
        <5>2. QED
          BY <2>4, <4>2, <5>1
      <4>7. apps = Kept(SubSeq(rowsSeen, 1, n), BodyRows)
        BY <1>3, <4>1, <4>5, <4>6
      <4>8. QED
        BY <2>5, <4>1, <4>3, <4>7
    <3>3. QED
      BY <3>1, <3>2
  <2>13. AppsAreTheRows'
    BY <2>1, <2>4, <2>12 DEF AppsAreTheRows
  <2>14. QED
    BY <2>1, <2>2, <2>4, <2>11, <2>13 DEF RowsInv
<1>7. CASE PageEnds
  <2>1. cloudPage' = <<>> /\ cloudPc' = "idle" /\ UNCHANGED <<apps, rowsSeen>>
    BY <1>7 DEF PageEnds
  <2>2. cloudPage' \in Seq(AllRows)
    BY <2>1
  <2>3. QED
    BY <2>1, <2>2 DEF RowsInv, AppsAreTheRows
<1>8. \/ UNCHANGED <<cloudPage, rowsSeen, apps, tableOpen>> /\ (cloudPc' = "page" => cloudPc = "page")
      \/ \E table \in CloudPages : LoadApps(table)
      \/ ReadRow \/ PageEnds
  BY DEF CloudNext, LoadFiles, FilesChange, ReceiveChunk, pageVars, cloudVars
<1>9. QED
  BY <1>4, <1>5, <1>6, <1>7, <1>8

(* The files and the rows are as described in every state.                 *)
LEMMA CloudInvAlways ==
  ASSUME CloudAssumption
  PROVE  CloudSpec => [](FilesInv /\ RowsInv)
<1>1. ASSUME CloudInit
      PROVE  FilesInv /\ RowsInv
  <2>1. /\ cloudServer = CloudFiles /\ changes = 0 /\ cloudPc = "idle" /\ fileIndex = 0 /\ files = <<>>
        /\ ever = {} /\ always = {} /\ cloudPage = <<>> /\ apps = <<>> /\ rowsSeen = <<>>
    BY <1>1 DEF CloudInit
  <2>2. <<>> \in Seq(AllFiles) /\ <<>> \in Seq(AllRows) /\ Len(<<>>) = 0
    OBVIOUS
  <2>3. Range(<<>>) = {}
    <3>1. DOMAIN <<>> = {}
      OBVIOUS
    <3>2. QED
      BY <3>1 DEF Range
  <2>4. cloudServer \in Seq(AllFiles) /\ Distinct(cloudServer)
    <3>1. CloudFiles \in Seq(AllFiles) /\ IsInjective(CloudFiles)
      BY DEF CloudAssumption, AllFiles
    <3>2. \A i, j \in 1..Len(CloudFiles) : CloudFiles[i] = CloudFiles[j] => i = j
      BY <3>1 DEF IsInjective
    <3>3. QED
      BY <2>1, <3>1, <3>2 DEF Distinct
  <2>5. FilesInv
    BY <2>1, <2>2, <2>3, <2>4 DEF FilesInv
  <2>6. AppsAreTheRows
    <3>1. SubSeq(<<>>, 1, 0) = <<>>
      BY SubSeqEmpty
    <3>2. Kept(<<>>, BodyRows) = <<>>
      BY KeptEmpty
    <3>3. \A n \in 0..Len(<<>>) : n = 0
      BY <2>2
    <3>4. QED
      BY <2>1, <3>1, <3>2, <3>3 DEF AppsAreTheRows
  <2>7. RowsInv
    BY <2>1, <2>2, <2>6 DEF RowsInv
  <2>8. QED
    BY <2>5, <2>7
<1>2. QED
  BY <1>1, FilesStep, RowsStep, PTL DEF CloudSpec

(* For any files and tables: what has been read of the files is what Steam *)
(* had, each that stayed where it was once, and all of them if none has    *)
(* changed (Cloud/Files.cpp:63-169); the apps are the rows of the table    *)
(* before the first one that is not as expected (Cloud/Apps.cpp:146-317).  *)
THEOREM CloudIsRead ==
  ASSUME CloudAssumption
  PROVE  CloudSpec => [](FilesAreComplete /\ AppsAreTheRows)
<1>1. ASSUME FilesInv
      PROVE  FilesAreComplete
  <2>1. ASSUME cloudPc = "idle", NEW f \in always \ Broken
        PROVE  Count(files, {f}) = 1
    <3>1. PICK p \in 1..Len(cloudServer) : f = cloudServer[p]
      BY <1>1, <2>1, RangeIs DEF FilesInv
    <3>2. QED
      BY <1>1, <2>1, <3>1 DEF FilesInv
  <2>2. QED
    BY <1>1, <2>1 DEF FilesInv, FilesAreComplete
<1>2. RowsInv => AppsAreTheRows
  BY DEF RowsInv
<1>3. QED
  BY <1>1, <1>2, CloudInvAlways, PTL

-----------------------------------------------------------------------------
(* Folds                                                                   *)

\* FoldLeft() with a function: f[I] is what the elements with an index in I make of base.
Folds(f, next, base, s, I) ==
  f = [J \in SUBSET I |->
         IF J = {} THEN base ELSE next[f[J \ {Max(J)}], s[Max(J)]]]

\* What a function that is applied to one element after the other makes of base.
Folding(g, next, base, s) ==
  /\ g[0] = base
  /\ \A i \in 1..Len(s) : g[i] = next[g[i - 1], s[i]]
Folded(next, base, s) == (CHOOSE g : Folding(g, next, base, s))[Len(s)]

\* Its folds over sets of the first n elements.
FoldsFirst(n, X, next, base, s) ==
  \E f \in [SUBSET (1..n) -> X] : Folds(f, next, base, s, 1..n)

\* A folding in the set X.
FoldingIn(g, X, next, base, s) ==
  /\ g[0] = base
  /\ \A i \in 1..Len(s) : g[i - 1] \in X => g[i] = next[g[i - 1], s[i]]

(* The indices up to one of them.                                          *)
LEMMA IndicesUpTo ==
  ASSUME NEW N \in Nat, NEW i \in 1..N
  PROVE  /\ 1..i \in SUBSET (1..N) /\ 1..i # {} /\ Max(1..i) = i
         /\ (1..i) \ {i} = 1..(i - 1)
<1>1. i \in Nat /\ 1 <= i /\ i <= N /\ i - 1 \in Nat /\ (i - 1) + 1 = i /\ i \in 1..i
  OBVIOUS
<1>2. 1..i \in SUBSET (1..N) /\ 1..i # {}
  <2>1. \A x \in 1..i : x \in 1..N
    BY <1>1
  <2>2. QED
    BY <1>1, <2>1
<1>3. Max(1..i) = i
  <2>1. \A n \in Nat : n + 1 \in 1..(n + 1) => Max(1..(n + 1)) = n + 1
    BY LastIndex
  <2>2. QED
    BY <1>1, <2>1
<1>4. (1..i) \ {i} = 1..(i - 1)
  BY <1>1
<1>5. QED
  BY <1>2, <1>3, <1>4

(* Two that fold the same as far as they go do so alike.                   *)
LEMMA FoldingIsOne ==
  ASSUME NEW T, NEW s \in Seq(T), NEW t \in Seq(T), Len(s) <= Len(t),
         \A i \in 1..Len(s) : s[i] = t[i],
         NEW next, NEW base, NEW g, NEW h,
         Folding(g, next, base, s), Folding(h, next, base, t)
  PROVE  \A n \in 0..Len(s) : g[n] = h[n]
<1> DEFINE N == {n \in Nat : n <= Len(s) => h[n] = g[n]}
<1>1. 0 \in N
  BY DEF Folding
<1>2. ASSUME NEW n \in Nat, n \in N
      PROVE  n + 1 \in N
  <2>1. SUFFICES ASSUME n + 1 <= Len(s) PROVE h[n + 1] = g[n + 1]
    OBVIOUS
  <2>2. Len(s) \in Nat /\ Len(t) \in Nat
    OBVIOUS
  <2>3. n + 1 \in 1..Len(s) /\ n + 1 \in 1..Len(t) /\ (n + 1) - 1 = n /\ n <= Len(s)
    BY <2>1, <2>2
  <2>4. h[n] = g[n] /\ t[n + 1] = s[n + 1]
    BY <1>2, <2>3
  <2>5. g[n + 1] = next[g[n], s[n + 1]] /\ h[n + 1] = next[h[n], t[n + 1]]
    BY <2>3 DEF Folding
  <2>6. QED
    BY <2>4, <2>5
<1>3. Nat \subseteq N
  <2> HIDE DEF N
  <2>1. QED
    BY <1>1, <1>2, SetInduction
<1>4. QED
  BY <1>3

(* There is one, and it stays where the function leads to.                 *)
LEMMA FoldingExists ==
  ASSUME NEW T, NEW X, NEW base \in X, NEW next \in [X \X T -> X], NEW s \in Seq(T)
  PROVE  \E f : /\ f \in [SUBSET (1..Len(s)) -> X]
                /\ Folds(f, next, base, s, 1..Len(s))
<1> DEFINE N == {n \in Nat : n <= Len(s) => FoldsFirst(n, X, next, base, s)}
<1>0. Len(s) \in Nat
  OBVIOUS
<1>1. 0 \in N
  <2> DEFINE f == [J \in SUBSET (1..0) |-> base]
  <2>0. 1..0 = {}
    OBVIOUS
  <2>1. \A J \in SUBSET (1..0) : J = {}
    BY <2>0
  <2>2. Folds(f, next, base, s, 1..0)
    BY <2>1 DEF Folds
  <2>3. f \in [SUBSET (1..0) -> X]
    OBVIOUS
  <2>4. FoldsFirst(0, X, next, base, s)
    BY <2>2, <2>3 DEF FoldsFirst
  <2>5. QED
    BY <2>4
<1>2. ASSUME NEW n \in Nat, n \in N
      PROVE  n + 1 \in N
  <2>1. SUFFICES ASSUME n + 1 <= Len(s)
                 PROVE  FoldsFirst(n + 1, X, next, base, s)
    OBVIOUS
  <2>a. n <= Len(s)
    BY <1>0, <2>1
  <2>2. PICK f \in [SUBSET (1..n) -> X] : Folds(f, next, base, s, 1..n)
    BY <1>2, <2>a DEF FoldsFirst
  <2>3. \A J \in SUBSET (1..n) :
            f[J] = IF J = {} THEN base ELSE next[f[J \ {Max(J)}], s[Max(J)]]
    BY <2>2 DEF Folds
  <2>4. s[n + 1] \in T
    BY <1>0, <2>1
  <2> DEFINE g == [J \in SUBSET (1..(n + 1)) |->
                     IF n + 1 \in J THEN next[f[J \ {n + 1}], s[n + 1]] ELSE f[J]]
  <2>5. ASSUME NEW J \in SUBSET (1..(n + 1))
        PROVE  /\ g[J] \in X
               /\ g[J] = IF J = {} THEN base ELSE next[g[J \ {Max(J)}], s[Max(J)]]
    <3>1. CASE n + 1 \in J
      <4>1. Max(J) = n + 1
        BY <3>1, LastIndex
      <4>2. J \ {n + 1} \in SUBSET (1..n) /\ J \ {n + 1} \in SUBSET (1..(n + 1))
        OBVIOUS
      <4>3. g[J \ {n + 1}] = f[J \ {n + 1}]
        BY <4>2
      <4>4. g[J] = next[f[J \ {n + 1}], s[n + 1]] /\ J # {}
        BY <3>1
      <4>5. f[J \ {n + 1}] \in X
        BY <2>2, <4>2
      <4> HIDE DEF g
      <4>6. g[J] \in X
        BY <2>4, <4>4, <4>5
      <4>7. QED
        BY <4>1, <4>3, <4>4, <4>6
    <3>2. CASE n + 1 \notin J
      <4>1. ASSUME NEW x \in J PROVE x \in 1..n
        <5>1. x \in 1..(n + 1) /\ x # n + 1
          BY <3>2
        <5>2. QED
          BY <5>1
      <4>2. J \in SUBSET (1..n) /\ J \ {Max(J)} \in SUBSET (1..n)
        BY <4>1
      <4>3. g[J] = f[J] /\ g[J \ {Max(J)}] = f[J \ {Max(J)}]
        <5>1. J \ {Max(J)} \in SUBSET (1..(n + 1)) /\ n + 1 \notin J \ {Max(J)}
          BY <3>2
        <5>2. QED
          BY <3>2, <5>1
      <4> HIDE DEF g
      <4>4. QED
        BY <2>2, <2>3, <4>2, <4>3
    <3>3. QED
      BY <3>1, <3>2
  <2>6. g = [J \in SUBSET (1..(n + 1)) |-> g[J]]
    OBVIOUS
  <2> HIDE DEF g
  <2>7. g \in [SUBSET (1..(n + 1)) -> X]
    BY <2>5, <2>6
  <2>8. Folds(g, next, base, s, 1..(n + 1))
    BY <2>5, <2>6 DEF Folds
  <2>9. QED
    BY <2>7, <2>8 DEF FoldsFirst
<1>3. Nat \subseteq N
  <2> HIDE DEF N
  <2>1. QED
    BY <1>1, <1>2, SetInduction
<1>4. Len(s) \in N
  BY <1>0, <1>3
<1>5. FoldsFirst(Len(s), X, next, base, s)
  BY <1>0, <1>4
<1>6. QED
  BY <1>5 DEF FoldsFirst

(* One that folds step by step ends with what is made of the sequence.     *)
LEMMA FoldedIs ==
  ASSUME NEW T, NEW X, NEW base \in X, NEW next \in [X \X T -> X], NEW s \in Seq(T), NEW g,
         Folding(g, next, base, s)
  PROVE  Folded(next, base, s) = g[Len(s)] /\ \A n \in 0..Len(s) : g[n] \in X
<1>0. Len(s) \in Nat
  OBVIOUS
<1> DEFINE c == CHOOSE h : Folding(h, next, base, s)
<1>1. Folding(c, next, base, s)
  OBVIOUS
<1>2. Folded(next, base, s) = c[Len(s)]
  BY DEF Folded
<1> HIDE DEF c
<1>3. \A n \in 0..Len(s) : g[n] = c[n]
  BY <1>0, <1>1, FoldingIsOne
<1> DEFINE N == {n \in Nat : n <= Len(s) => g[n] \in X}
<1>4. 0 \in N
  BY DEF Folding
<1>5. ASSUME NEW n \in Nat, n \in N
      PROVE  n + 1 \in N
  <2>1. SUFFICES ASSUME n + 1 <= Len(s) PROVE g[n + 1] \in X
    OBVIOUS
  <2>2. n + 1 \in 1..Len(s) /\ (n + 1) - 1 = n /\ n <= Len(s)
    BY <1>0, <2>1
  <2>3. g[n] \in X /\ s[n + 1] \in T
    BY <1>5, <2>2
  <2>4. g[n + 1] = next[g[n], s[n + 1]]
    BY <2>2 DEF Folding
  <2>5. QED
    BY <2>3, <2>4
<1>6. Nat \subseteq N
  <2> HIDE DEF N
  <2>1. QED
    BY <1>4, <1>5, SetInduction
<1>7. QED
  BY <1>0, <1>2, <1>3, <1>6

(* A fold of sets of indices does fold step by step.                       *)
LEMMA FoldsStepwise ==
  ASSUME NEW T, NEW X, NEW base \in X, NEW next \in [X \X T -> X], NEW s \in Seq(T), NEW f,
         Folds(f, next, base, s, 1..Len(s))
  PROVE  Folding([n \in 0..Len(s) |-> f[1..n]], next, base, s)
<1>0. Len(s) \in Nat
  OBVIOUS
<1> DEFINE g == [n \in 0..Len(s) |-> f[1..n]]
<1>1. \A J \in SUBSET (1..Len(s)) :
          f[J] = IF J = {} THEN base ELSE next[f[J \ {Max(J)}], s[Max(J)]]
  BY DEF Folds
<1>2. g[0] = base
  <2>1. 1..0 = {} /\ 1..0 \in SUBSET (1..Len(s))
    OBVIOUS
  <2>2. g[0] = f[1..0]
    BY <1>0
  <2>3. f[{}] = base
    BY <1>1
  <2> HIDE DEF g
  <2>4. QED
    BY <2>1, <2>2, <2>3
<1>3. ASSUME NEW i \in 1..Len(s)
      PROVE  g[i] = next[g[i - 1], s[i]]
  <2>1. /\ 1..i \in SUBSET (1..Len(s)) /\ 1..i # {} /\ Max(1..i) = i
        /\ (1..i) \ {i} = 1..(i - 1)
    BY <1>0, IndicesUpTo
  <2>2. g[i] = f[1..i] /\ g[i - 1] = f[1..(i - 1)]
    BY <1>0
  <2> HIDE DEF g
  <2>3. QED
    BY <1>1, <2>1, <2>2
<1> HIDE DEF g
<1>4. Folding(g, next, base, s)
  BY <1>2, <1>3 DEF Folding
<1>5. QED
  BY <1>4 DEF g

\* Nothing is made of no elements, and one more is the last to be folded.
FoldsInTurn(next, base, s, X, T) ==
  /\ Folded(next, base, s) \in X
  /\ s = <<>> => Folded(next, base, s) = base
  /\ \A x \in T : Folded(next, base, Append(s, x)) = next[Folded(next, base, s), x]

(* So it does.                                                             *)
LEMMA FoldedFacts ==
  ASSUME NEW T, NEW X, NEW base \in X, NEW next \in [X \X T -> X], NEW s \in Seq(T)
  PROVE  FoldsInTurn(next, base, s, X, T)
<1>0. Len(s) \in Nat
  OBVIOUS
<1>1. \A t \in Seq(T) : \E g : Folding(g, next, base, t)
  BY FoldingExists, FoldsStepwise
<1>2. PICK g : Folding(g, next, base, s)
  BY <1>1
<1>3. Folded(next, base, s) = g[Len(s)] /\ g[Len(s)] \in X
  <2>1. Folded(next, base, s) = g[Len(s)] /\ \A n \in 0..Len(s) : g[n] \in X
    BY <1>2, FoldedIs, Zenon
  <2>2. QED
    BY <1>0, <2>1
<1>4. s = <<>> => g[Len(s)] = base
  BY <1>2 DEF Folding
<1>5. ASSUME NEW x \in T
      PROVE  Folded(next, base, Append(s, x)) = next[Folded(next, base, s), x]
  <2> DEFINE t == Append(s, x)
  <2>1. /\ t \in Seq(T) /\ Len(t) = Len(s) + 1 /\ t[Len(s) + 1] = x
        /\ \A i \in 1..Len(s) : t[i] = s[i]
    BY AppendFacts
  <2> HIDE DEF t
  <2>2. PICK h : Folding(h, next, base, t)
    BY <1>1, <2>1
  <2>3. Folded(next, base, t) = h[Len(t)] /\ \A n \in 0..Len(t) : h[n] \in X
    BY <2>1, <2>2, FoldedIs, Zenon
  <2>4. Len(s) + 1 \in 1..Len(t) /\ (Len(s) + 1) - 1 = Len(s) /\ Len(s) <= Len(t)
    BY <1>0, <2>1
  <2>5. h[Len(s) + 1] = next[h[Len(s)], x]
    BY <2>1, <2>2, <2>4 DEF Folding
  <2>6. \A n \in 0..Len(s) : g[n] = h[n]
    BY <1>2, <2>1, <2>2, <2>4, FoldingIsOne
  <2>7. g[Len(s)] = h[Len(s)]
    BY <1>0, <2>6
  <2>8. QED
    BY <1>3, <2>1, <2>3, <2>5, <2>7 DEF t
<1>6. QED
  BY <1>3, <1>4, <1>5 DEF FoldsInTurn

(* Steps that are those of the function as long as they stay where it      *)
(* leads to always are.                                                    *)
LEMMA FoldingBy ==
  ASSUME NEW T, NEW X, NEW base \in X, NEW next \in [X \X T -> X], NEW s \in Seq(T), NEW g,
         FoldingIn(g, X, next, base, s)
  PROVE  Folding(g, next, base, s)
<1>0. Len(s) \in Nat
  OBVIOUS
<1> DEFINE N == {n \in Nat : n <= Len(s) => g[n] \in X}
<1>1. 0 \in N
  BY DEF FoldingIn
<1>2. ASSUME NEW n \in Nat, n \in N
      PROVE  n + 1 \in N
  <2>1. SUFFICES ASSUME n + 1 <= Len(s) PROVE g[n + 1] \in X
    OBVIOUS
  <2>2. n + 1 \in 1..Len(s) /\ (n + 1) - 1 = n /\ n <= Len(s)
    BY <1>0, <2>1
  <2>3. g[n] \in X /\ s[n + 1] \in T
    BY <1>2, <2>2
  <2>4. g[n + 1] = next[g[n], s[n + 1]]
    BY <2>2, <2>3 DEF FoldingIn
  <2>5. QED
    BY <2>3, <2>4
<1>3. Nat \subseteq N
  <2> HIDE DEF N
  <2>1. QED
    BY <1>1, <1>2, SetInduction
<1>4. ASSUME NEW i \in 1..Len(s)
      PROVE  g[i] = next[g[i - 1], s[i]]
  <2>1. i - 1 \in Nat /\ i - 1 <= Len(s)
    BY <1>0
  <2>2. g[i - 1] \in X
    BY <1>3, <2>1
  <2>3. QED
    BY <2>2 DEF FoldingIn
<1>5. QED
  BY <1>4 DEF Folding, FoldingIn

\* f[i] is what the first i sequences make together.
Flattens(f, ss) ==
  f = [i \in 1..Len(ss) |-> IF i = 1 THEN ss[i] ELSE f[i - 1] \o ss[i]]

(* FlattenSeq() is the last of them.                                       *)
LEMMA FlattenIs ==
  ASSUME NEW ss
  PROVE  FlattenSeq(ss) = IF Len(ss) = 0 THEN ss ELSE (CHOOSE f : Flattens(f, ss))[Len(ss)]
BY DEF FlattenSeq, Flattens

\* It makes one sequence after the other a part of the result.
FlattensInTurn(ss, T) ==
  /\ FlattenSeq(ss) \in Seq(T)
  /\ ss = <<>> => FlattenSeq(ss) = <<>>
  /\ \A t \in Seq(T) : FlattenSeq(Append(ss, t)) = FlattenSeq(ss) \o t

(* So it does.                                                             *)
LEMMA FlattenSteps ==
  ASSUME NEW T, NEW ss \in Seq(Seq(T))
  PROVE  FlattensInTurn(ss, T)
<1> DEFINE e == <<>>
           next == [p \in Seq(T) \X Seq(T) |-> p[1] \o p[2]]
<1>1. /\ e \in Seq(T) /\ next \in [Seq(T) \X Seq(T) -> Seq(T)]
      /\ \A s, t \in Seq(T) : next[s, t] = s \o t
  <2>1. \A s, t \in Seq(T) : s \o t \in Seq(T)
    BY ConcatFacts
  <2>2. \A p \in Seq(T) \X Seq(T) : p[1] \o p[2] \in Seq(T)
    BY <2>1, Zenon
  <2>3. next \in [Seq(T) \X Seq(T) -> Seq(T)]
    BY <2>2, Zenon
  <2>4. \A s, t \in Seq(T) : next[s, t] = s \o t
    OBVIOUS
  <2>5. e \in Seq(T)
    OBVIOUS
  <2>6. QED
    BY <2>3, <2>4, <2>5
<1>2. \A t \in Seq(T) : e \o t = t
  OBVIOUS
<1> HIDE DEF next
<1>3. ASSUME NEW xs \in Seq(Seq(T))
      PROVE  FlattenSeq(xs) = Folded(next, e, xs)
  <2>0. Len(xs) \in Nat /\ \A i \in 1..Len(xs) : xs[i] \in Seq(T)
    OBVIOUS
  <2>1. CASE Len(xs) = 0
    <3> HIDE DEF e
    <3>1. FoldsInTurn(next, e, xs, Seq(T), Seq(T))
      BY <1>1, FoldedFacts
    <3>2. xs = <<>>
      BY <2>1, EmptySeq
    <3>3. Folded(next, e, xs) = e
      BY <3>1, <3>2 DEF FoldsInTurn
    <3>4. FlattenSeq(xs) = xs
      BY <2>1, FlattenIs
    <3>5. QED
      BY <3>2, <3>3, <3>4 DEF e
  <2>2. CASE Len(xs) # 0
    <3> HIDE DEF e
    <3>0. Len(xs) \in 1..Len(xs) /\ Len(xs) > 0 /\ 1 \in 1..Len(xs)
      BY <2>0, <2>2
    <3>1. PICK g : Folding(g, next, e, xs)
      <4>1. PICK E : E = Seq(T)
        OBVIOUS
      <4>2. e \in E /\ next \in [E \X E -> E] /\ xs \in Seq(E)
        BY <1>1, <4>1
      <4>3. QED
        BY <4>2, FoldingExists, FoldsStepwise
    <3>2. Folded(next, e, xs) = g[Len(xs)] /\ \A n \in 0..Len(xs) : g[n] \in Seq(T)
      BY <1>1, <3>1, FoldedIs, Zenon
    <3>3. /\ g[0] = e
          /\ \A i \in 1..Len(xs) : g[i] = next[g[i - 1], xs[i]]
      BY <3>1 DEF Folding
    <3>4. \A i \in 1..Len(xs) : g[i] = g[i - 1] \o xs[i]
      <4>1. TAKE i \in 1..Len(xs)
      <4>2. i - 1 \in 0..Len(xs)
        BY <2>0
      <4>3. QED
        BY <1>1, <2>0, <3>2, <3>3, <4>2
    <3>5. g[1] = xs[1]
      <4>1. g[1] = g[0] \o xs[1]
        <5>1. 1 - 1 = 0
          OBVIOUS
        <5>2. QED
          BY <3>0, <3>4, <5>1
      <4>2. QED
        BY <1>2, <2>0, <3>0, <3>3, <4>1
    <3>6. PICK h : h = [i \in 1..Len(xs) |-> g[i]]
      OBVIOUS
    <3>7. Flattens(h, xs)
      <4>1. ASSUME NEW i \in 1..Len(xs)
            PROVE  h[i] = IF i = 1 THEN xs[i] ELSE h[i - 1] \o xs[i]
        <5>1. i # 1 => i - 1 \in 1..Len(xs)
          BY <2>0
        <5>2. h[i] = g[i] /\ (i # 1 => h[i - 1] = g[i - 1])
          BY <3>6, <5>1
        <5>3. QED
          BY <3>4, <3>5, <5>2
      <4>2. h = [i \in 1..Len(xs) |-> h[i]]
        BY <3>6
      <4>3. QED
        BY <4>1, <4>2 DEF Flattens
    <3> DEFINE f == CHOOSE f : Flattens(f, xs)
    <3>8. Flattens(f, xs)
      BY <3>7
    <3>9. FlattenSeq(xs) = f[Len(xs)]
      BY <2>2, FlattenIs
    <3> HIDE DEF f
    <3>10. \A i \in 1..Len(xs) : f[i] = IF i = 1 THEN xs[i] ELSE f[i - 1] \o xs[i]
      BY <3>8 DEF Flattens
    <3> DEFINE N == {n \in Nat : n \in 1..Len(xs) => f[n] = g[n]}
    <3>11. 0 \in N
      OBVIOUS
    <3>12. ASSUME NEW n \in Nat, n \in N
           PROVE  n + 1 \in N
      <4>1. SUFFICES ASSUME n + 1 \in 1..Len(xs) PROVE f[n + 1] = g[n + 1]
        OBVIOUS
      <4>2. CASE n = 0
        <5>1. 0 + 1 = 1
          OBVIOUS
        <5>2. f[1] = xs[1]
          BY <3>0, <3>10
        <5>3. QED
          BY <3>5, <4>2, <5>1, <5>2
      <4>3. CASE n # 0
        <5>1. n \in 1..Len(xs) /\ n + 1 # 1 /\ (n + 1) - 1 = n
          BY <2>0, <4>1, <4>3
        <5>2. f[n + 1] = f[n] \o xs[n + 1] /\ g[n + 1] = g[n] \o xs[n + 1]
          BY <3>4, <3>10, <4>1, <5>1
        <5>3. QED
          BY <3>12, <5>1, <5>2
      <4>4. QED
        BY <4>2, <4>3
    <3>13. Nat \subseteq N
      <4> HIDE DEF N
      <4>1. QED
        BY <3>11, <3>12, SetInduction
    <3>14. f[Len(xs)] = g[Len(xs)]
      BY <2>0, <3>0, <3>13
    <3>15. QED
      BY <3>2, <3>9, <3>14
  <2>3. QED
    BY <2>1, <2>2
<1> HIDE DEF e
<1>4. FoldsInTurn(next, e, ss, Seq(T), Seq(T))
  BY <1>1, FoldedFacts
<1>5. ASSUME NEW t \in Seq(T)
      PROVE  FlattenSeq(Append(ss, t)) = FlattenSeq(ss) \o t
  <2>1. Append(ss, t) \in Seq(Seq(T))
    BY AppendFacts
  <2>2. FlattenSeq(Append(ss, t)) = Folded(next, e, Append(ss, t))
    BY <1>3, <2>1
  <2>3. Folded(next, e, Append(ss, t)) = next[Folded(next, e, ss), t]
    BY <1>4 DEF FoldsInTurn
  <2>4. Folded(next, e, ss) \in Seq(T)
    BY <1>4 DEF FoldsInTurn
  <2>5. QED
    BY <1>1, <1>3, <2>2, <2>3, <2>4
<1>6. QED
  BY <1>3, <1>4, <1>5 DEF FlattensInTurn, FoldsInTurn, e

-----------------------------------------------------------------------------
(* Prefixes                                                                *)

(* A prefix has the elements the sequence starts with.                     *)
LEMMA PrefixIs ==
  ASSUME NEW T, NEW s \in Seq(T), NEW t \in Seq(T)
  PROVE  IsPrefix(s, t) <=> Len(s) <= Len(t) /\ \A i \in 1..Len(s) : s[i] = t[i]
<1>0. Len(s) \in Nat /\ Len(t) \in Nat
  OBVIOUS
<1>1. SUFFICES ASSUME Len(s) <= Len(t)
               PROVE  SubSeq(s, 1, Len(s)) = SubSeq(t, 1, Len(s))
                        <=> \A i \in 1..Len(s) : s[i] = t[i]
  BY DEF IsPrefix
<1>2. /\ SubSeq(s, 1, Len(s)) = [i \in 1..Len(s) |-> s[i]]
      /\ SubSeq(t, 1, Len(s)) = [i \in 1..Len(s) |-> t[i]]
  BY <1>0
<1>3. QED
  BY <1>2

(* The sequences of T in the order of prefixes.                            *)
PrefixOrder(T) ==
  /\ \A s \in Seq(T) : IsPrefix(s, s) /\ IsPrefix(<<>>, s)
  /\ \A s \in Seq(T) : IsPrefix(s, <<>>) => s = <<>>
  /\ \A s, t, u \in Seq(T) : IsPrefix(s, t) /\ IsPrefix(t, u) => IsPrefix(s, u)
  /\ \A s, t \in Seq(T) : IsPrefix(s, t) /\ IsPrefix(t, s) => s = t
  /\ \A s, t, u \in Seq(T) : IsPrefix(s, u) /\ IsPrefix(t, u) => IsPrefix(s, t) \/ IsPrefix(t, s)

(* It is a partial order, in which what is below one sequence is a chain.  *)
LEMMA PrefixOrdered ==
  ASSUME NEW T
  PROVE  PrefixOrder(T)
<1>1. \A s \in Seq(T) : IsPrefix(s, s) /\ IsPrefix(<<>>, s)
  <2>1. TAKE s \in Seq(T)
  <2> DEFINE e == <<>>
  <2>2. e \in Seq(T) /\ Len(e) = 0 /\ Len(s) \in Nat /\ 1..Len(e) = {}
    OBVIOUS
  <2> HIDE DEF e
  <2>3. IsPrefix(s, s)
    BY <2>2, PrefixIs
  <2>4. IsPrefix(e, s) <=> Len(e) <= Len(s) /\ \A i \in 1..Len(e) : e[i] = s[i]
    BY <2>2, PrefixIs
  <2>5. IsPrefix(e, s)
    BY <2>2, <2>4
  <2>6. QED
    BY <2>3, <2>5 DEF e
<1>2. \A s \in Seq(T) : IsPrefix(s, <<>>) => s = <<>>
  BY EmptySeq DEF IsPrefix
<1>3. \A s, t, u \in Seq(T) : IsPrefix(s, t) /\ IsPrefix(t, u) => IsPrefix(s, u)
  <2>1. TAKE s, t, u \in Seq(T)
  <2>2. HAVE IsPrefix(s, t) /\ IsPrefix(t, u)
  <2>3. Len(s) <= Len(t) /\ \A i \in 1..Len(s) : s[i] = t[i]
    BY <2>2, PrefixIs
  <2>4. Len(t) <= Len(u) /\ \A i \in 1..Len(t) : t[i] = u[i]
    BY <2>2, PrefixIs
  <2>5. Len(s) \in Nat /\ Len(t) \in Nat /\ Len(u) \in Nat
    OBVIOUS
  <2>6. Len(s) <= Len(u) /\ \A i \in 1..Len(s) : s[i] = u[i]
    BY <2>3, <2>4, <2>5
  <2>7. QED
    BY <2>6, PrefixIs
<1>4. \A s, t \in Seq(T) : IsPrefix(s, t) /\ IsPrefix(t, s) => s = t
  <2>1. TAKE s, t \in Seq(T)
  <2>2. HAVE IsPrefix(s, t) /\ IsPrefix(t, s)
  <2>3. Len(s) <= Len(t) /\ \A i \in 1..Len(s) : s[i] = t[i]
    BY <2>2, PrefixIs
  <2>4. Len(t) <= Len(s)
    BY <2>2 DEF IsPrefix
  <2>5. Len(s) = Len(t) /\ Len(s) \in Nat
    BY <2>3, <2>4
  <2>6. QED
    BY <2>3, <2>5, SeqEqual
<1>5. \A s, t, u \in Seq(T) : IsPrefix(s, u) /\ IsPrefix(t, u) => IsPrefix(s, t) \/ IsPrefix(t, s)
  <2>1. TAKE s, t, u \in Seq(T)
  <2>2. HAVE IsPrefix(s, u) /\ IsPrefix(t, u)
  <2>3. Len(s) <= Len(u) /\ \A i \in 1..Len(s) : s[i] = u[i]
    BY <2>2, PrefixIs
  <2>4. Len(t) <= Len(u) /\ \A i \in 1..Len(t) : t[i] = u[i]
    BY <2>2, PrefixIs
  <2>5. Len(s) \in Nat /\ Len(t) \in Nat
    OBVIOUS
  <2>6. CASE Len(s) <= Len(t)
    <3>1. \A i \in 1..Len(s) : s[i] = t[i]
      BY <2>3, <2>4, <2>5, <2>6
    <3>2. QED
      BY <2>6, <3>1, PrefixIs
  <2>7. CASE Len(t) <= Len(s)
    <3>1. \A i \in 1..Len(t) : t[i] = s[i]
      BY <2>3, <2>4, <2>5, <2>7
    <3>2. QED
      BY <2>7, <3>1, PrefixIs
  <2>8. QED
    BY <2>5, <2>6, <2>7
<1>6. QED
  BY <1>1, <1>2, <1>3, <1>4, <1>5 DEF PrefixOrder

(* The prefixes of a sequence.                                             *)
LEMMA PrefixesAre ==
  ASSUME NEW T, NEW t \in Seq(T)
  PROVE  Prefixes(t) = {s \in Seq(T) : IsPrefix(s, t)}
<1>0. Len(t) \in Nat
  OBVIOUS
<1>1. ASSUME NEW n \in 0..Len(t)
      PROVE  SubSeq(t, 1, n) \in Seq(T) /\ IsPrefix(SubSeq(t, 1, n), t)
  <2>1. PICK s : s = SubSeq(t, 1, n)
    OBVIOUS
  <2>2. s \in Seq(T) /\ Len(s) = n /\ \A i \in 1..n : s[i] = t[i]
    BY <1>0, <2>1
  <2>3. IsPrefix(s, t)
    BY <1>0, <2>2, PrefixIs
  <2>4. QED
    BY <2>1, <2>2, <2>3
<1>2. ASSUME NEW s \in Seq(T), IsPrefix(s, t)
      PROVE  s \in Prefixes(t)
  <2>1. Len(s) <= Len(t) /\ Len(s) \in Nat /\ \A i \in 1..Len(s) : s[i] = t[i]
    BY <1>2, PrefixIs
  <2>2. PICK u : u = SubSeq(t, 1, Len(s))
    OBVIOUS
  <2>3. u \in Seq(T) /\ Len(u) = Len(s) /\ \A i \in 1..Len(s) : u[i] = t[i]
    BY <1>0, <2>1, <2>2
  <2>4. s = u
    BY <2>1, <2>3, SeqEqual
  <2>5. QED
    BY <1>0, <2>1, <2>2, <2>4 DEF Prefixes
<1>3. QED
  BY <1>1, <1>2 DEF Prefixes

(* Before and after what is not kept.                                      *)
LEMMA KeptBetween ==
  ASSUME NEW T, NEW b \in Seq(T), NEW t \in Seq(T), NEW S, Range(b) \cap S = {}
  PROVE  Kept(b \o t, S) = Kept(t, S) /\ Kept(t \o b, S) = Kept(t, S)
<1>1. Kept(b, S) = <<>>
  BY KeptAll
<1>2. Kept(b \o t, S) = Kept(b, S) \o Kept(t, S)
  BY KeptConcat
<1>3. Kept(t \o b, S) = Kept(t, S) \o Kept(b, S)
  BY KeptConcat
<1>4. Kept(t, S) \in Seq(T)
  BY KeptRange
<1>5. Kept(t, S) \o <<>> = Kept(t, S) /\ <<>> \o Kept(t, S) = Kept(t, S)
  BY <1>4, ConcatEmptySeq
<1>6. QED
  BY <1>1, <1>2, <1>3, <1>5

=============================================================================
