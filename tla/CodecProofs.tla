---------------------------- MODULE CodecProofs -----------------------------
(***************************************************************************)
(* Proofs about what is written and read: KeyValues, Messages, CookieJars, *)
(* Ciphers and Identifiers, for any trees, fields, cookies, keys and       *)
(* times.  What the library computes step by step over a sequence, as      *)
(* folds and prefixes do, is described by a sequence of its own, whose     *)
(* elements are related one to the next.                                   *)
(***************************************************************************)
EXTENDS WaitingProofs, KeyValues, Messages, CookieJars, Ciphers, Identifiers

-----------------------------------------------------------------------------
(* CookieJars                                                              *)

\* h[I] is what a jar makes of base and of the elements with an index in I.
StoreFolds(h, base, s, I) ==
  h = [J \in SUBSET I |->
         IF J = {} THEN base ELSE StoreCookie(h[J \ {Max(J)}], s[Max(J)])]

(* It is such a function for all indices, if there is one.                 *)
LEMMA StoreIs ==
  ASSUME NEW base, NEW s
  PROVE  FoldLeft(StoreCookie, base, s) = (CHOOSE h : StoreFolds(h, base, s, DOMAIN s))[DOMAIN s]
BY DEF FoldLeft, MapThenFoldSet, StoreFolds

\* It stays within X, as long as the elements are taken from T.
StoreWithin(X, T) == \A x \in X, y \in T : StoreCookie(x, y) \in X

\* It takes the elements of s one by one.
StoreInTurn(base, s, X, T) ==
  /\ FoldLeft(StoreCookie, base, s) \in X
  /\ s = <<>> => FoldLeft(StoreCookie, base, s) = base
  /\ \A y \in T : FoldLeft(StoreCookie, base, Append(s, y)) = StoreCookie(FoldLeft(StoreCookie, base, s), y)

(* It takes the elements one by one.                                       *)
LEMMA StoreSteps ==
  ASSUME NEW T, NEW X, NEW base \in X, NEW s \in Seq(T), StoreWithin(X, T)
  PROVE  StoreInTurn(base, s, X, T)
<1>0. \A x \in X, y \in T : StoreCookie(x, y) \in X
  BY DEF StoreWithin
<1> DEFINE next == [p \in X \X T |-> StoreCookie(p[1], p[2])]
<1>1. next \in [X \X T -> X] /\ \A x \in X, y \in T : next[x, y] = StoreCookie(x, y)
  BY <1>0
<1> HIDE DEF next
<1>2. ASSUME NEW t \in Seq(T)
      PROVE  FoldLeft(StoreCookie, base, t) = Folded(next, base, t)
  <2> DEFINE h == CHOOSE f : StoreFolds(f, base, t, 1..Len(t))
             g == [n \in 0..Len(t) |-> h[1..n]]
  <2>0. Len(t) \in Nat /\ DOMAIN t = 1..Len(t)
    OBVIOUS
  <2>1. \E f : StoreFolds(f, base, t, 1..Len(t))
    <3>1. PICK f : /\ f \in [SUBSET (1..Len(t)) -> X]
                   /\ Folds(f, next, base, t, 1..Len(t))
      BY <1>1, FoldingExists
    <3>2. ASSUME NEW J \in SUBSET (1..Len(t)), J # {}
          PROVE  f[J] = StoreCookie(f[J \ {Max(J)}], t[Max(J)])
      <4>1. Max(J) \in J /\ J \ {Max(J)} \in SUBSET (1..Len(t))
        BY <2>0, <3>2, GreatestIndex
      <4>2. f[J \ {Max(J)}] \in X
        BY <3>1, <4>1, Zenon
      <4>3. Max(J) \in 1..Len(t)
        BY <4>1
      <4>4. t[Max(J)] \in T
        BY <4>3
      <4>5. f[J] = next[f[J \ {Max(J)}], t[Max(J)]]
        BY <3>1, <3>2 DEF Folds
      <4>6. QED
        BY <1>1, <4>2, <4>4, <4>5
    <3>3. f[{}] = base /\ f = [J \in SUBSET (1..Len(t)) |-> f[J]]
      BY <3>1 DEF Folds
    <3>4. StoreFolds(f, base, t, 1..Len(t))
      BY <3>2, <3>3 DEF StoreFolds
    <3>5. QED
      BY <3>4
  <2>2. StoreFolds(h, base, t, 1..Len(t))
    BY <2>1
  <2>3. FoldLeft(StoreCookie, base, t) = h[1..Len(t)]
    BY <2>0, StoreIs
  <2> HIDE DEF h
  <2>4. \A J \in SUBSET (1..Len(t)) :
            h[J] = IF J = {} THEN base ELSE StoreCookie(h[J \ {Max(J)}], t[Max(J)])
    BY <2>2 DEF StoreFolds
  <2>5. g[0] = base
    <3>1. 1..0 = {} /\ {} \in SUBSET (1..Len(t)) /\ g[0] = h[1..0]
      BY <2>0
    <3>2. h[{}] = base
      BY <2>4
    <3> HIDE DEF g
    <3>3. QED
      BY <3>1, <3>2
  <2>6. ASSUME NEW i \in 1..Len(t), g[i - 1] \in X
        PROVE  g[i] = next[g[i - 1], t[i]]
    <3>1. /\ 1..i \in SUBSET (1..Len(t)) /\ 1..i # {} /\ Max(1..i) = i
          /\ (1..i) \ {i} = 1..(i - 1)
      BY <2>0, IndicesUpTo
    <3>2. g[i] = h[1..i] /\ g[i - 1] = h[1..(i - 1)] /\ t[i] \in T
      BY <2>0
    <3> HIDE DEF g
    <3>3. g[i] = StoreCookie(g[i - 1], t[i])
      BY <2>4, <3>1, <3>2
    <3>4. QED
      BY <1>1, <2>6, <3>2, <3>3
  <2>7. g[Len(t)] = h[1..Len(t)]
    BY <2>0
  <2> HIDE DEF g
  <2>8. Folding(g, next, base, t)
    BY <1>1, <2>5, <2>6, FoldingBy DEF FoldingIn
  <2>9. Folded(next, base, t) = g[Len(t)] /\ \A n \in 0..Len(t) : g[n] \in X
    BY <1>1, <2>8, FoldedIs
  <2>10. QED
    BY <2>3, <2>7, <2>9
<1>a. next \in [X \X T -> X] /\ s \in Seq(T) /\ base \in X
  BY <1>1
<1>3. FoldsInTurn(next, base, s, X, T)
  BY <1>a, FoldedFacts
<1>4. ASSUME NEW y \in T
      PROVE  FoldLeft(StoreCookie, base, Append(s, y)) = StoreCookie(FoldLeft(StoreCookie, base, s), y)
  <2>1. Append(s, y) \in Seq(T)
    OBVIOUS
  <2>2. FoldLeft(StoreCookie, base, Append(s, y)) = Folded(next, base, Append(s, y))
    BY <1>2, <2>1
  <2>3. Folded(next, base, Append(s, y)) = StoreCookie(Folded(next, base, s), y)
    BY <1>1, <1>3 DEF FoldsInTurn
  <2>4. QED
    BY <1>2, <2>2, <2>3
<1>5. QED
  BY <1>2, <1>3, <1>4 DEF FoldsInTurn, StoreInTurn

\* The cookies that headers can give, and what is at most once in a jar.
JarHosts == Hosts \cup Addresses \cup {<<>>}
ParsedCookies == UNION {ParseCookie(header, host) : header \in SetCookies, host \in JarHosts}
CookieKey(c) == <<c.name, c.domain>>
OnceEach(jar) == \A j, k \in 1..Len(jar) : j # k => ~Match(jar[j], jar[k])
FirstMatch(jar, c) == SelectInSeq(jar, LAMBDA d : Match(c, d))

(* Cookies match that have the same name and domain.                       *)
LEMMA MatchIsKey ==
  ASSUME NEW c, NEW d
  PROVE  Match(c, d) <=> CookieKey(c) = CookieKey(d)
BY DEF Match, CookieKey

(* The first cookie that matches another, if there is one.                 *)
LEMMA FirstMatchIs ==
  ASSUME NEW T, NEW jar \in Seq(T), NEW c
  PROVE  \/ FirstMatch(jar, c) = 0 /\ \A i \in 1..Len(jar) : ~Match(c, jar[i])
         \/ FirstMatch(jar, c) \in 1..Len(jar) /\ Match(c, jar[FirstMatch(jar, c)])
<1> DEFINE I == {i \in 1..Len(jar) : Match(c, jar[i])}
<1>1. FirstMatch(jar, c) = IF I # {} THEN Min(I) ELSE 0
  BY Zenon DEF FirstMatch, SelectInSeq
<1>2. CASE I = {}
  BY <1>1, <1>2
<1>3. CASE I # {}
  <2>1. I \in SUBSET Nat
    OBVIOUS
  <2>2. Min(I) \in I
    BY <1>3, <2>1, LeastIndex
  <2>3. QED
    BY <1>1, <1>3, <2>2
<1>4. QED
  BY <1>2, <1>3

(* A cookie more is in a jar once if no other matches it.                  *)
LEMMA OnceEachAppend ==
  ASSUME NEW T, NEW jar \in Seq(T), NEW c \in T
  PROVE  OnceEach(Append(jar, c)) <=>
           OnceEach(jar) /\ \A i \in 1..Len(jar) : ~Match(jar[i], c)
<1>1. PICK t : t = Append(jar, c)
  OBVIOUS
<1>2. /\ Len(jar) \in Nat /\ Len(t) = Len(jar) + 1 /\ t[Len(jar) + 1] = c
      /\ \A i \in 1..Len(jar) : t[i] = jar[i]
  BY <1>1, AppendFacts
<1>3. \A a, b : Match(a, b) <=> Match(b, a)
  BY DEF Match
<1>4. ASSUME OnceEach(t)
      PROVE  OnceEach(jar) /\ \A i \in 1..Len(jar) : ~Match(jar[i], c)
  <2>1. \A i \in 1..Len(jar) : i \in 1..Len(t) /\ Len(t) \in 1..Len(t) /\ i # Len(t)
    BY <1>2
  <2>2. QED
    BY <1>2, <1>4, <2>1 DEF OnceEach
<1>5. ASSUME OnceEach(jar), \A i \in 1..Len(jar) : ~Match(jar[i], c)
      PROVE  OnceEach(t)
  <2>1. ASSUME NEW j \in 1..Len(t), NEW k \in 1..Len(t), j # k
        PROVE  ~Match(t[j], t[k])
    <3>1. CASE j \in 1..Len(jar) /\ k \in 1..Len(jar)
      BY <1>2, <1>5, <2>1, <3>1 DEF OnceEach
    <3>2. CASE j = Len(jar) + 1 /\ k \in 1..Len(jar)
      BY <1>2, <1>3, <1>5, <3>2
    <3>3. CASE j \in 1..Len(jar) /\ k = Len(jar) + 1
      BY <1>2, <1>5, <3>3
    <3>4. QED
      BY <1>2, <2>1, <3>1, <3>2, <3>3
  <2>2. QED
    BY <2>1 DEF OnceEach
<1>6. QED
  BY <1>1, <1>4, <1>5

(* What is kept of such a jar is in it once, too.                          *)
LEMMA OnceEachKept ==
  ASSUME NEW T, NEW jar \in Seq(T), NEW S, OnceEach(jar)
  PROVE  OnceEach(Kept(jar, S))
<1> DEFINE A == {r \in Seq(T) : OnceEach(r) => OnceEach(Kept(r, S))}
<1>1. <<>> \in A
  <2>1. <<>> \in Seq(T)
    OBVIOUS
  <2>2. QED
    BY <2>1, KeptEmpty
<1>2. ASSUME NEW r \in Seq(T), NEW x \in T, r \in A
      PROVE  Append(r, x) \in A
  <2>1. Append(r, x) \in Seq(T)
    OBVIOUS
  <2>2. ASSUME OnceEach(Append(r, x))
        PROVE  OnceEach(Kept(Append(r, x), S))
    <3>1. OnceEach(r) /\ \A i \in 1..Len(r) : ~Match(r[i], x)
      BY <2>2, OnceEachAppend
    <3>2. PICK q \in Seq(T) : q = Kept(r, S)
      BY KeptRange
    <3>3. OnceEach(q)
      BY <1>2, <3>1, <3>2
    <3>4. ASSUME NEW i \in 1..Len(q)
          PROVE  ~Match(q[i], x)
      <4>1. q[i] \in Range(q) /\ Range(q) = Range(r) \cap S
        BY <3>2, KeptRange, RangeIs
      <4>2. PICK j \in 1..Len(r) : r[j] = q[i]
        BY <4>1, RangeIs
      <4>3. QED
        BY <3>1, <4>2
    <3>5. OnceEach(Append(q, x))
      BY <3>3, <3>4, OnceEachAppend
    <3>6. Kept(Append(r, x), S) = IF x \in S THEN Append(q, x) ELSE q
      BY <3>2, KeptAppend
    <3>7. QED
      BY <3>3, <3>5, <3>6
  <2>3. QED
    BY <2>1, <2>2
<1> HIDE DEF A
<1>3. Seq(T) \subseteq A
  BY <1>1, <1>2, GrowingSeqs
<1>4. QED
  BY <1>3 DEF A

\* What a jar is after a cookie was stored.
StoredIn(jar, c, r) ==
  /\ r \in Seq(ParsedCookies) /\ OnceEach(r)
  /\ \A d \in Range(r) : d = c \/ (d \in Range(jar) /\ ~Match(c, d))
  /\ \A d \in Range(jar) : ~Match(c, d) => d \in Range(r)
  /\ c.value # <<>> => c \in Range(r)

(* A cookie takes the place of the one it matches, or removes it.          *)
LEMMA StoreOneCookie ==
  ASSUME NEW jar \in Seq(ParsedCookies), OnceEach(jar), NEW c \in ParsedCookies
  PROVE  StoredIn(jar, c, StoreCookie(jar, c))
<1> DEFINE k == FirstMatch(jar, c)
<1>1. StoreCookie(jar, c) = IF k = 0 THEN Append(jar, c)
                            ELSE IF c.value = <<>> THEN RemoveAt(jar, k) ELSE ReplaceAt(jar, k, c)
  BY Zenon DEF StoreCookie, FirstMatch
<1>2. \/ k = 0 /\ \A i \in 1..Len(jar) : ~Match(c, jar[i])
      \/ k \in 1..Len(jar) /\ Match(c, jar[k])
  BY FirstMatchIs
<1> HIDE DEF k
<1>3. \A a, b : Match(a, b) <=> Match(b, a)
  BY DEF Match
<1>4. Range(jar) = {jar[i] : i \in 1..Len(jar)} /\ Len(jar) \in Nat
  BY RangeIs
<1>5. CASE k = 0
  <2>0. Append(jar, c) \in Seq(ParsedCookies)
    BY AppendFacts
  <2>1. PICK r \in Seq(ParsedCookies) : r = Append(jar, c)
    BY <2>0
  <2>2. \A i \in 1..Len(jar) : ~Match(jar[i], c) /\ ~Match(c, jar[i])
    BY <1>2, <1>3, <1>5
  <2>3. OnceEach(r)
    BY <2>1, <2>2, OnceEachAppend
  <2>4. Range(r) = Range(jar) \cup {c}
    BY <2>1, RangeAppend
  <2>5. StoredIn(jar, c, r)
    BY <1>4, <2>2, <2>3, <2>4 DEF StoredIn
  <2>6. QED
    BY <1>1, <1>5, <2>1, <2>5
<1>6. CASE k # 0 /\ c.value = <<>>
  <2>1. k \in 1..Len(jar) /\ Match(c, jar[k])
    BY <1>2, <1>6
  <2>2. PICK r : r = RemoveAt(jar, k)
    OBVIOUS
  <2>3. /\ r \in Seq(ParsedCookies) /\ Len(r) = Len(jar) - 1
        /\ \A i \in 1..(k - 1) : r[i] = jar[i]
        /\ \A i \in k..(Len(jar) - 1) : r[i] = jar[i + 1]
    BY <2>1, <2>2, RemoveFacts
  <2> DEFINE from(i) == IF i < k THEN i ELSE i + 1
  <2>4. ASSUME NEW i \in 1..Len(r)
        PROVE  from(i) \in 1..Len(jar) /\ from(i) # k /\ r[i] = jar[from(i)]
    <3>1. CASE i < k
      BY <1>4, <2>1, <2>3, <3>1
    <3>2. CASE i >= k
      <4>1. i \in k..(Len(jar) - 1)
        BY <1>4, <2>1, <2>3, <3>2
      <4>2. QED
        BY <1>4, <2>1, <2>3, <3>2, <4>1
    <3>3. QED
      BY <1>4, <2>1, <2>3, <3>1, <3>2
  <2>5. \A i, j \in 1..Len(r) : i # j => from(i) # from(j)
    BY <1>4, <2>1, <2>3
  <2> HIDE DEF from
  <2>6. OnceEach(r)
    BY <2>4, <2>5 DEF OnceEach
  <2>7. Range(r) = {r[i] : i \in 1..Len(r)}
    BY <2>3, RangeIs
  <2>8. \A i \in 1..Len(jar) : i # k => ~Match(jar[i], jar[k])
    BY <2>1 DEF OnceEach
  <2>9. ASSUME NEW i \in 1..Len(jar), i # k
        PROVE  ~Match(c, jar[i])
    BY <2>1, <2>8, <2>9 DEF Match
  <2>10. ASSUME NEW d \in Range(r)
         PROVE  d \in Range(jar) /\ ~Match(c, d)
    <3>1. PICK i \in 1..Len(r) : d = r[i]
      BY <2>7
    <3>2. QED
      BY <1>4, <2>4, <2>9, <3>1
  <2>11. ASSUME NEW d \in Range(jar), ~Match(c, d)
         PROVE  d \in Range(r)
    <3>1. PICK i \in 1..Len(jar) : d = jar[i]
      BY <1>4
    <3>2. i # k
      BY <2>1, <2>11, <3>1
    <3>3. CASE i < k
      <4>1. i \in 1..(k - 1) /\ i \in 1..Len(r)
        BY <1>4, <2>1, <2>3, <3>1, <3>3
      <4>2. QED
        BY <2>3, <2>7, <3>1, <4>1
    <3>4. CASE i > k
      <4>1. /\ i - 1 \in k..(Len(jar) - 1) /\ i - 1 \in 1..Len(r)
            /\ (i - 1) + 1 = i
        BY <1>4, <2>1, <2>3, <3>1, <3>4
      <4>2. r[i - 1] = d
        BY <2>3, <3>1, <4>1
      <4>3. QED
        BY <2>7, <4>1, <4>2
    <3>5. QED
      BY <2>1, <3>1, <3>2, <3>3, <3>4
  <2>12. StoredIn(jar, c, r)
    BY <1>6, <2>3, <2>6, <2>10, <2>11 DEF StoredIn
  <2>13. QED
    BY <1>1, <1>6, <2>2, <2>12
<1>7. CASE k # 0 /\ c.value # <<>>
  <2>1. k \in 1..Len(jar) /\ Match(c, jar[k])
    BY <1>2, <1>7
  <2>2. PICK r : r = ReplaceAt(jar, k, c)
    OBVIOUS
  <2>3. /\ r \in Seq(ParsedCookies) /\ Len(r) = Len(jar) /\ r[k] = c
        /\ \A i \in 1..Len(jar) : i # k => r[i] = jar[i]
    BY <2>1, <2>2, OneOtherElement DEF ReplaceAt
  <2>4. \A i \in 1..Len(jar) : i # k => ~Match(jar[i], jar[k])
    BY <2>1 DEF OnceEach
  <2>5. ASSUME NEW i \in 1..Len(jar), i # k
        PROVE  ~Match(c, jar[i]) /\ ~Match(jar[i], c)
    BY <2>1, <2>4, <2>5 DEF Match
  <2>6. OnceEach(r)
    <3>1. ASSUME NEW i \in 1..Len(r), NEW j \in 1..Len(r), i # j
          PROVE  ~Match(r[i], r[j])
      <4>1. CASE i # k /\ j # k
        BY <2>3, <3>1, <4>1 DEF OnceEach
      <4>2. CASE i = k
        BY <2>3, <2>5, <3>1, <4>2
      <4>3. CASE j = k
        BY <2>3, <2>5, <3>1, <4>3
      <4>4. QED
        BY <4>1, <4>2, <4>3
    <3>2. QED
      BY <3>1 DEF OnceEach
  <2>7. Range(r) = {r[i] : i \in 1..Len(r)}
    BY <2>3, RangeIs
  <2>8. ASSUME NEW d \in Range(r), d # c
        PROVE  d \in Range(jar) /\ ~Match(c, d)
    <3>1. PICK i \in 1..Len(r) : d = r[i]
      BY <2>7
    <3>2. QED
      BY <1>4, <2>3, <2>5, <2>8, <3>1
  <2>9. ASSUME NEW d \in Range(jar), ~Match(c, d)
        PROVE  d \in Range(r)
    <3>1. PICK i \in 1..Len(jar) : d = jar[i]
      BY <1>4
    <3>2. i # k
      BY <2>1, <2>9, <3>1
    <3>3. QED
      BY <2>3, <2>7, <3>1, <3>2
  <2>10. c \in Range(r)
    BY <2>1, <2>3, <2>7
  <2>11. StoredIn(jar, c, r)
    BY <2>3, <2>6, <2>8, <2>9, <2>10 DEF StoredIn
  <2>12. QED
    BY <1>1, <1>7, <2>2, <2>11
<1>8. QED
  BY <1>5, <1>6, <1>7

(* A header gives one cookie or none.                                      *)
LEMMA OneCookie ==
  ASSUME NEW header \in SetCookies, NEW host \in JarHosts
  PROVE  \/ ParseCookie(header, host) = {}
         \/ \E c \in ParsedCookies : ParseCookie(header, host) = {c}
<1>1. ParseCookie(header, host) \subseteq ParsedCookies
  BY DEF ParsedCookies
<1>2. PICK D : D = DomainOf(Tail(header), host)
  OBVIOUS
<1>3. D = {} \/ \E d : D = {d}
  BY <1>2 DEF DomainOf
<1> DEFINE made(d) == [domain |-> d] @@ Content(Head(header))
<1>4. ParseCookie(header, host) = {made(d) : d \in D}
  BY <1>2, Zenon DEF ParseCookie
<1> HIDE DEF made
<1>5. ParseCookie(header, host) = {} \/ \E c : ParseCookie(header, host) = {c}
  BY <1>3, <1>4
<1>6. QED
  BY <1>1, <1>5

(* Sets of at most one element as sequences.                               *)
LEMMA SetToSeqOfOne ==
  ASSUME NEW c
  PROVE  SetToSeq({c}) = Append(<<>>, c) /\ SetToSeq({}) = <<>>
<1>1. Cardinality({c}) = 1 /\ Cardinality({}) = 0
  BY FS_Singleton, FS_EmptySet
<1>2. SetToSeq({c}) = <<c>>
  <2> DEFINE F == [1..Cardinality({c}) -> {c}]
  <2>1. F = {<<c>>}
    <3>1. 1..1 = {1}
      OBVIOUS
    <3>2. F = [{1} -> {c}]
      BY <1>1, <3>1
    <3> HIDE DEF F
    <3>3. \A f \in F : f = <<c>>
      BY <3>2
    <3>4. <<c>> \in F
      BY <3>2
    <3>5. QED
      BY <3>3, <3>4
  <2>2. IsInjective(<<c>>)
    <3>1. DOMAIN <<c>> = {1}
      OBVIOUS
    <3>2. QED
      BY <3>1 DEF IsInjective
  <2>3. SetToSeq({c}) = CHOOSE f \in F : IsInjective(f)
    BY DEF SetToSeq
  <2> HIDE DEF F
  <2>4. QED
    BY <2>1, <2>2, <2>3
<1>3. SetToSeq({}) = <<>>
  <2> DEFINE F == [1..Cardinality({}) -> {}]
  <2>1. F = {<<>>}
    <3>1. 1..0 = {}
      OBVIOUS
    <3>2. F = [{} -> {}]
      BY <1>1, <3>1
    <3> HIDE DEF F
    <3>3. DOMAIN <<>> = {} /\ <<>> \in [{} -> {}]
      OBVIOUS
    <3>4. \A f \in [{} -> {}] : f = <<>>
      BY <3>3
    <3>5. QED
      BY <3>2, <3>3, <3>4
  <2>2. IsInjective(<<>>)
    <3>1. DOMAIN <<>> = {}
      OBVIOUS
    <3>2. QED
      BY <3>1 DEF IsInjective
  <2>3. SetToSeq({}) = CHOOSE f \in F : IsInjective(f)
    BY DEF SetToSeq
  <2> HIDE DEF F
  <2>4. QED
    BY <2>1, <2>2, <2>3
<1>4. <<c>> = Append(<<>>, c)
  OBVIOUS
<1>5. QED
  BY <1>2, <1>3, <1>4

(* So they are stored.                                                     *)
LEMMA StoreAtMostOne ==
  ASSUME NEW jar \in Seq(ParsedCookies), OnceEach(jar)
  PROVE  /\ FoldLeft(StoreCookie, jar, SetToSeq({})) = jar
         /\ \A c \in ParsedCookies :
                FoldLeft(StoreCookie, jar, SetToSeq({c})) = StoreCookie(jar, c)
<1> DEFINE X == {r \in Seq(ParsedCookies) : OnceEach(r)}
<1>1. \A x \in X, y \in ParsedCookies : StoreCookie(x, y) \in X
  BY StoreOneCookie DEF StoredIn
<1>2. jar \in X
  OBVIOUS
<1> HIDE DEF X
<1> DEFINE e == <<>>
<1>3. e \in Seq(ParsedCookies) /\ e = <<>>
  OBVIOUS
<1> HIDE DEF e
<1>a. StoreWithin(X, ParsedCookies)
  BY <1>1 DEF StoreWithin
<1>b. StoreInTurn(jar, e, X, ParsedCookies)
  BY <1>a, <1>2, <1>3, StoreSteps
<1>4. /\ FoldLeft(StoreCookie, jar, e) = jar
      /\ \A c \in ParsedCookies : FoldLeft(StoreCookie, jar, Append(e, c))
                                    = StoreCookie(FoldLeft(StoreCookie, jar, e), c)
  BY <1>3, <1>b DEF StoreInTurn
<1>5. QED
  BY <1>3, <1>4, SetToSeqOfOne, Zenon

\* What the jar and the history of the cookies have to do with each other.
JarKept ==
  /\ cookies \in Seq(ParsedCookies) /\ OnceEach(cookies)
  /\ \A c \in Range(cookies) : CookieKey(c) \in DOMAIN latest /\ c.value = latest[CookieKey(c)]
  /\ \A k \in DOMAIN latest :
         latest[k] # <<>> => \E c \in Range(cookies) : CookieKey(c) = k
  /\ latest = [k \in DOMAIN latest |-> latest[k]]

(* That is so after an update.                                             *)
LEMMA JarUpdated ==
  ASSUME JarKept, NEW header \in SetCookies, NEW host \in JarHosts,
         UpdateJar(ParseCookie(header, host))
  PROVE  JarKept'
<1>1. CASE ParseCookie(header, host) = {}
  <2>1. cookies' = cookies
    BY <1>1, StoreAtMostOne DEF UpdateJar, JarKept
  <2>2. latest' = latest
    BY <1>1 DEF UpdateJar, JarKept
  <2>3. QED
    BY <2>1, <2>2 DEF JarKept
<1>2. ASSUME NEW c \in ParsedCookies, ParseCookie(header, host) = {c}
      PROVE  JarKept'
  <2>1. cookies' = StoreCookie(cookies, c)
    BY <1>2, StoreAtMostOne DEF UpdateJar, JarKept
  <2>2. StoredIn(cookies, c, cookies')
    BY <2>1, StoreOneCookie DEF JarKept
  <2>3. /\ DOMAIN latest' = DOMAIN latest \cup {CookieKey(c)}
        /\ latest' = [k \in DOMAIN latest' |-> latest'[k]]
        /\ latest'[CookieKey(c)] = c.value
        /\ \A k \in DOMAIN latest : k # CookieKey(c) => latest'[k] = latest[k]
    <3>1. latest' = [k \in DOMAIN latest \cup {CookieKey(d) : d \in {c}} |->
                       IF \E d \in {c} : k = CookieKey(d)
                       THEN (CHOOSE d \in {c} : k = CookieKey(d)).value ELSE latest[k]]
      BY <1>2, Zenon DEF UpdateJar, CookieKey
    <3>2. {CookieKey(d) : d \in {c}} = {CookieKey(c)}
      OBVIOUS
    <3>3. (CHOOSE d \in {c} : CookieKey(c) = CookieKey(d)) = c
      OBVIOUS
    <3>4. \A k : (\E d \in {c} : k = CookieKey(d)) <=> k = CookieKey(c)
      OBVIOUS
    <3>5. QED
      BY <3>1, <3>2, <3>3, <3>4
  <2>4. ASSUME NEW d \in Range(cookies')
        PROVE  CookieKey(d) \in DOMAIN latest' /\ d.value = latest'[CookieKey(d)]
    <3>1. CASE d = c
      BY <2>3, <3>1
    <3>2. CASE d \in Range(cookies) /\ ~Match(c, d)
      <4>1. CookieKey(d) # CookieKey(c)
        BY <3>2, MatchIsKey
      <4>2. QED
        BY <2>3, <3>2, <4>1 DEF JarKept
    <3>3. QED
      BY <2>2, <3>1, <3>2 DEF StoredIn
  <2>5. ASSUME NEW k \in DOMAIN latest', latest'[k] # <<>>
        PROVE  \E d \in Range(cookies') : CookieKey(d) = k
    <3>1. CASE k = CookieKey(c)
      BY <2>2, <2>3, <2>5, <3>1 DEF StoredIn
    <3>2. CASE k # CookieKey(c)
      <4>1. PICK d \in Range(cookies) : CookieKey(d) = k
        BY <2>3, <2>5, <3>2 DEF JarKept
      <4>2. ~Match(c, d)
        BY <3>2, <4>1, MatchIsKey
      <4>3. QED
        BY <2>2, <4>1, <4>2 DEF StoredIn
    <3>3. QED
      BY <3>1, <3>2
  <2>6. QED
    BY <2>2, <2>3, <2>4, <2>5 DEF JarKept, StoredIn
<1>3. QED
  BY <1>1, <1>2, OneCookie

(* The rest: a query that was not redirected has not taken cookies before, *)
(* and takes those of its host.                                            *)
QueryInv ==
  /\ queryPc \in {"none", "connect", "read", "done"} /\ queryHost \in JarHosts
  /\ sets \in 0..MaxSets /\ redirected \in 0..MaxRedirects
  /\ queryPc = "connect" /\ redirected = 0 => carried = <<>>
  /\ FirstUrlGetsOwnCookies

(* The cookies of a host are its own, and each is there once.              *)
LEMMA CookiesOfHost ==
  ASSUME JarKept
  PROVE  /\ \A c \in Range(GetCookies(queryHost)) : CheckCookieDomain(queryHost, c.domain)
         /\ OnceEach(GetCookies(queryHost)) /\ <<>> \o GetCookies(queryHost) = GetCookies(queryHost)
<1> DEFINE S == {c \in Range(cookies) : CheckCookieDomain(queryHost, c.domain)}
<1>1. GetCookies(queryHost) = Kept(cookies, S)
  BY DEF GetCookies
<1>2. cookies \in Seq(ParsedCookies) /\ OnceEach(cookies)
  BY DEF JarKept
<1>3. \A c \in S : CheckCookieDomain(queryHost, c.domain)
  OBVIOUS
<1> HIDE DEF S
<1>4. /\ Kept(cookies, S) \in Seq(ParsedCookies) /\ OnceEach(Kept(cookies, S))
      /\ Range(Kept(cookies, S)) = Range(cookies) \cap S
  BY <1>2, KeptRange, OnceEachKept
<1>5. <<>> \o Kept(cookies, S) = Kept(cookies, S)
  BY <1>4, ConcatEmptySeq
<1>6. QED
  BY <1>1, <1>3, <1>4, <1>5

(* The jar is a map of the cookies that were set last, whatever headers    *)
(* come in which order (CookieJar.cpp:173-222); and a query that is not    *)
(* redirected carries each cookie of its host once, and no other           *)
(* (BasicQuery.cpp:244-257).                                               *)
THEOREM CookiesAreTheLatest ==
  ASSUME JarAssumption
  PROVE  JarSpec => [](JarTypeOK /\ JarIsLatest /\ FirstUrlGetsOwnCookies)
<1> DEFINE Inv == JarKept /\ QueryInv
<1> USE DEF JarAssumption
<1>1. JarInit => Inv
  <2> SUFFICES ASSUME JarInit PROVE Inv
    OBVIOUS
  <2> DEFINE e == <<>>
  <2>1. cookies = e /\ latest = e /\ e \in Seq(ParsedCookies) /\ Len(e) = 0
    BY DEF JarInit
  <2>2. DOMAIN e = {} /\ e = [k \in DOMAIN e |-> e[k]]
    OBVIOUS
  <2> HIDE DEF e
  <2>3. Range(e) = {}
    BY <2>2 DEF Range
  <2>4. JarKept
    BY <2>1, <2>2, <2>3 DEF JarKept, OnceEach
  <2>5. QueryInv
    BY DEF JarInit, QueryInv, FirstUrlGetsOwnCookies, JarHosts
  <2>6. QED
    BY <2>4, <2>5
<1>2. ASSUME Inv, [JarNext]_jarVars
      PROVE  Inv'
  <2>1. ASSUME NEW header \in SetCookies, ClientSets(header)
        PROVE  Inv'
    <3>1. JarKept'
      <4>1. <<>> \in JarHosts /\ UpdateJar(ParseCookie(header, <<>>))
        BY <2>1 DEF ClientSets, JarHosts
      <4>2. QED
        BY <1>2, <4>1, JarUpdated
    <3>2. QueryInv'
      BY <1>2, <2>1 DEF ClientSets, QueryInv, FirstUrlGetsOwnCookies, OwnCookies
    <3>3. QED
      BY <3>1, <3>2
  <2>2. ASSUME NEW header \in SetCookies, SetCookieHeader(header)
        PROVE  Inv'
    <3>1. JarKept'
      <4>1. UpdateJar(ParseCookie(header, queryHost)) /\ queryHost \in JarHosts
        BY <1>2, <2>2 DEF SetCookieHeader, QueryInv
      <4>2. QED
        BY <1>2, <4>1, JarUpdated
    <3>2. QueryInv'
      <4>1. UNCHANGED <<queryHost, queryPc, carried, redirected>> /\ sets' = sets + 1 /\ sets < MaxSets
        BY <2>2 DEF SetCookieHeader
      <4>2. QED
        BY <1>2, <4>1 DEF QueryInv, FirstUrlGetsOwnCookies, OwnCookies
    <3>3. QED
      BY <3>1, <3>2
  <2>3. ASSUME NEW host \in Hosts \cup Addresses, StartQuery(host)
        PROVE  Inv'
    <3>1. JarKept'
      BY <1>2, <2>3 DEF StartQuery, JarKept
    <3>2. QueryInv'
      BY <1>2, <2>3 DEF StartQuery, QueryInv, FirstUrlGetsOwnCookies, JarHosts
    <3>3. QED
      BY <3>1, <3>2
  <2>4. ASSUME NEW host \in Hosts \cup Addresses, Redirected(host)
        PROVE  Inv'
    <3>1. JarKept'
      BY <1>2, <2>4 DEF Redirected, JarKept
    <3>2. QueryInv'
      BY <1>2, <2>4 DEF Redirected, QueryInv, FirstUrlGetsOwnCookies, JarHosts
    <3>3. QED
      BY <3>1, <3>2
  <2>5. CASE HandshakeCompleted
    <3>1. JarKept'
      BY <1>2, <2>5 DEF HandshakeCompleted, JarKept
    <3>2. /\ queryPc = "connect" /\ queryPc' = "read" /\ UNCHANGED <<sets, queryHost, redirected>>
          /\ carried' = carried \o GetCookies(queryHost)
      BY <2>5 DEF HandshakeCompleted
    <3>3. ASSUME redirected = 0
          PROVE  OwnCookies'
      <4>1. carried' = GetCookies(queryHost)
        BY <1>2, <3>2, <3>3, CookiesOfHost DEF QueryInv
      <4>2. (\A c \in Range(carried) : CheckCookieDomain(queryHost, c.domain))'
        BY <1>2, <3>2, <4>1, CookiesOfHost
      <4>3. OnceEach(carried')
        BY <1>2, <4>1, CookiesOfHost
      <4>4. QED
        BY <4>2, <4>3 DEF OwnCookies, OnceEach
    <3>4. QueryInv'
      BY <1>2, <3>2, <3>3 DEF QueryInv, FirstUrlGetsOwnCookies
    <3>5. QED
      BY <3>1, <3>4
  <2>6. CASE QueryCompleted
    <3>1. JarKept'
      BY <1>2, <2>6 DEF QueryCompleted, JarKept
    <3>2. QueryInv'
      BY <1>2, <2>6 DEF QueryCompleted, QueryInv, FirstUrlGetsOwnCookies
    <3>3. QED
      BY <3>1, <3>2
  <2>7. CASE UNCHANGED jarVars
    <3>1. JarKept'
      BY <1>2, <2>7 DEF jarVars, JarKept
    <3>2. QueryInv'
      BY <1>2, <2>7 DEF jarVars, QueryInv, FirstUrlGetsOwnCookies, OwnCookies
    <3>3. QED
      BY <3>1, <3>2
  <2>8. QED
    BY <1>2, <2>1, <2>2, <2>3, <2>4, <2>5, <2>6, <2>7 DEF JarNext
<1>3. Inv => JarTypeOK /\ JarIsLatest /\ FirstUrlGetsOwnCookies
  <2> SUFFICES ASSUME Inv PROVE JarTypeOK /\ JarIsLatest /\ FirstUrlGetsOwnCookies
    OBVIOUS
  <2>1. \A c \in Range(cookies) :
            <<c.name, c.domain>> \in DOMAIN latest /\ c.value = latest[c.name, c.domain]
    BY DEF JarKept, CookieKey
  <2>2. \A k \in 1..Len(cookies) : cookies[k] \in Range(cookies)
    BY RangeIs DEF JarKept
  <2>3. JarTypeOK
    BY <2>1, <2>2 DEF QueryInv, JarTypeOK, JarHosts
  <2>4. JarIsLatest
    BY <2>1 DEF JarKept, JarIsLatest, OnceEach, CookieKey
  <2>5. QED
    BY <2>3, <2>4 DEF QueryInv
<1> HIDE DEF Inv
<1>4. QED
  BY <1>1, <1>2, <1>3, PTL DEF JarSpec

-----------------------------------------------------------------------------
(* Ciphers                                                                 *)

(* The packet is the text's, made with some key and random bytes by the    *)
(* class of its sender; it is shorter if it was cut off, and its vector    *)
(* may have changed.                                                       *)
SentAs(key, random, prefix, size) ==
    /\ encrypted = [key |-> key, iv |-> [prefix |-> prefix, random |-> random],
                    text |-> plaintext, size |-> size]
    /\ \/ prefix = MakeIV(cipherOf.sender, key, plaintext, random).prefix
       \/ damage = "changed" /\ prefix = <<"garbage">>
    /\ damage # "cut" => size = EcbSize(IvSize) + CbcSize(plaintext.size)

\* From then on there is a packet.
PacketInv ==
    cipherStage # "plain" =>
        \E key \in CipherKeys, random \in {"r1", "r2"}, size \in Nat :
            \E prefix : SentAs(key, random, prefix, size)

\* The types, with a key and a text once they have been chosen.
CipherTypes ==
    /\ CipherTypeOK
    /\ plaintext = PlainText(plaintext.size)
    /\ cipherOf \in [sender : Cryptos, receiver : Cryptos]
    /\ cipherStage # "decrypted" => plainResult = {}
    /\ cipherStage \in {"plain", "encrypted"} => damage = "none"

(* What was decrypted fits into the buffer.                                *)
ResultFits == \A t \in plainResult : t.size <= encrypted.size - IvSize

CipherInv == CipherTypes /\ PacketInv /\ TextsReadBack /\ ResultFits

(* A vector made from a text is no valid vector of any other text.         *)
LEMMA DigestsDiffer ==
  ASSUME NEW key, NEW random, NEW text, NEW key2, NEW random2, NEW text2
  PROVE  /\ Digest(key, random, text) = Digest(key2, random2, text2) => text = text2
         /\ Digest(key, random, text) # <<"random">>
         /\ Digest(key, random, text) # <<"garbage">>
<1>1. Digest(key, random, text)[1] = "digest" /\ <<"random">>[1] = "random"
      /\ <<"garbage">>[1] = "garbage"
  BY DEF Digest
<1>2. Digest(key, random, text)[4] = text /\ Digest(key2, random2, text2)[4] = text2
  BY DEF Digest
<1>3. QED
  BY <1>1, <1>2

(* The buffer for a text of any size is as large as what is written to it. *)
LEMMA BufferIsLarge ==
  ASSUME NEW n \in Nat
  PROVE  /\ CbcSize(n) \in Nat /\ CbcSize(n) > n /\ CbcSize(n) % 16 = 0
         /\ EcbSize(IvSize) + CbcSize(n) = OutputSize(n)
<1>1. n \div 16 \in Nat /\ n < 16 * (n \div 16 + 1) /\ (n + 32) \div 16 = n \div 16 + 2
  BY SMT
<1>2. \A q \in Nat : (16 * q) % 16 = 0
  BY SMT
<1>3. (16 * (n \div 16 + 1)) % 16 = 0
  BY <1>1, <1>2
<1>4. QED
  BY <1>1, <1>2, <1>3, SMT DEF CbcSize, EcbSize, IvSize, OutputSize

(* Whatever the sizes and keys: a packet that arrives whole from an end    *)
(* with our key and class is read as it was sent, a class with a digest    *)
(* returns that or nothing, and the buffers are large enough.              *)
THEOREM PacketsReadBack ==
  ASSUME CipherAssumption
  PROVE  CipherSpec => [](CipherTypeOK /\ TextsReadBack /\ BuffersSuffice)
<1> USE DEF CipherAssumption
<1>1. CipherInit => CipherInv
  BY DEF CipherInit, CipherInv, CipherTypes, CipherTypeOK, PacketInv, TextsReadBack, ResultFits,
         PlainText
<1>2. ASSUME CipherInv, [CipherNext]_cipherVars
      PROVE  CipherInv'
  <2> USE <1>2
  <2>0. /\ CipherTypes /\ PacketInv /\ TextsReadBack /\ ResultFits
        /\ plaintext.size \in Nat /\ plaintext.good
    BY DEF CipherInv, CipherTypes, CipherTypeOK, PlainText
  <2>1. ASSUME NEW key \in CipherKeys, NEW random \in {"r1", "r2"}, Encrypt(key, random)
        PROVE  CipherInv'
    <3>1. CipherTypes' /\ TextsReadBack' /\ ResultFits'
      BY <2>0, <2>1 DEF Encrypt, CipherTypes, CipherTypeOK, TextsReadBack, ResultFits
    <3>2. CbcSize(plaintext.size) \in Nat
      BY <2>0, BufferIsLarge
    <3>3. /\ encrypted' = EncryptWithIV(key, plaintext, MakeIV(cipherOf.sender, key, plaintext, random))
          /\ UNCHANGED <<plaintext, cipherOf, damage>>
          /\ EcbSize(IvSize) + CbcSize(plaintext.size) \in Nat
      BY <2>1, <3>2 DEF Encrypt, EcbSize, IvSize
    <3>4. SentAs(key, random, MakeIV(cipherOf.sender, key, plaintext, random).prefix,
                 EcbSize(IvSize) + CbcSize(plaintext.size))'
      BY <3>3 DEF SentAs, EncryptWithIV, MakeIV
    <3>5. PacketInv'
      BY <3>3, <3>4 DEF PacketInv
    <3>6. QED
      BY <3>1, <3>5 DEF CipherInv
  <2>2. CASE Arrive
    <3>1. CipherTypes' /\ TextsReadBack' /\ ResultFits'
      BY <2>0, <2>2 DEF Arrive, CipherTypes, CipherTypeOK, TextsReadBack, ResultFits
    <3>2. PICK key \in CipherKeys, random \in {"r1", "r2"}, size \in Nat :
              \E prefix : SentAs(key, random, prefix, size)
      BY <2>0, <2>2 DEF Arrive, PacketInv
    <3>3. PICK prefix : SentAs(key, random, prefix, size)
      BY <3>2
    <3>4. /\ UNCHANGED <<plaintext, cipherOf>> /\ damage = "none"
          /\ encrypted = [key |-> key, iv |-> [prefix |-> prefix, random |-> random],
                          text |-> plaintext, size |-> size]
      BY <2>0, <2>2, <3>3 DEF Arrive, CipherTypes, SentAs
    <3>5. ASSUME UNCHANGED <<encrypted, damage>>
          PROVE  SentAs(key, random, prefix, size)'
      BY <3>3, <3>4, <3>5 DEF SentAs
    <3>6. ASSUME NEW n \in 0..(encrypted.size - 1), damage' = "cut",
                 encrypted' = [encrypted EXCEPT !.size = n]
          PROVE  SentAs(key, random, prefix, n)'
      BY <3>3, <3>4, <3>6 DEF SentAs
    <3>7. ASSUME damage' = "changed", UNCHANGED encrypted
          PROVE  SentAs(key, random, prefix, size)'
      BY <3>3, <3>4, <3>7 DEF SentAs
    <3>8. ASSUME damage' = "changed", encrypted' = [encrypted EXCEPT !.iv.prefix = <<"garbage">>]
          PROVE  SentAs(key, random, <<"garbage">>, size)'
      <4>1. encrypted' = [key |-> key, iv |-> [prefix |-> <<"garbage">>, random |-> random],
                          text |-> plaintext, size |-> size]
        BY <3>4, <3>8
      <4>2. QED
        BY <3>3, <3>4, <3>8, <4>1 DEF SentAs
    <3>9. encrypted.size = size
      BY <3>4
    <3>10. PacketInv'
      <4>1. \E n \in Nat : \E p : SentAs(key, random, p, n)'
        BY <2>2, <3>5, <3>6, <3>7, <3>8, <3>9 DEF Arrive
      <4>2. QED
        BY <4>1 DEF PacketInv
    <3>11. QED
      BY <3>1, <3>10 DEF CipherInv
  <2>3. CASE Decrypt
    <3>0. PICK key \in CipherKeys, random \in {"r1", "r2"}, size \in Nat :
              \E prefix : SentAs(key, random, prefix, size)
      BY <2>0, <2>3 DEF Decrypt, PacketInv
    <3>1. PICK prefix : SentAs(key, random, prefix, size)
      BY <3>0
    <3> DEFINE r == DecryptWithIV(OurKey, encrypted)
    <3> DEFINE valid == Decryptable(encrypted)
                        /\ (cipherOf.receiver = "AESHMAC" => IsValidIV(OurKey, r.text, r.iv))
    <3>2. /\ encrypted.key = key /\ encrypted.size = size /\ encrypted.text = plaintext
          /\ \/ encrypted.iv.prefix = MakeIV(cipherOf.sender, key, plaintext, random).prefix
             \/ damage = "changed" /\ encrypted.iv.prefix = <<"garbage">>
          /\ encrypted.iv.random = random
          /\ damage # "cut" => size = EcbSize(IvSize) + CbcSize(plaintext.size)
      BY <3>1 DEF SentAs
    <3>3. /\ UNCHANGED <<plaintext, cipherOf, encrypted, damage>> /\ cipherStage' = "decrypted"
          /\ plainResult' \in (IF valid THEN {{r.text}} ELSE {{}})
                               \cup (IF valid /\ r.text.good THEN {} ELSE {{}})
      BY <2>3 DEF Decrypt
    <3>4. /\ r.text = (IF key = OurKey /\ damage = "none" THEN plaintext
                       ELSE Garbage(size - IvSize - 1))
          /\ r.iv = (IF key = OurKey THEN encrypted.iv
                     ELSE [prefix |-> <<"garbage">>, random |-> "garbage"])
      BY <3>2 DEF DecryptWithIV
    <3>5. /\ CbcSize(plaintext.size) \in Nat /\ CbcSize(plaintext.size) > plaintext.size
          /\ CbcSize(plaintext.size) % 16 = 0
      BY <2>0, BufferIsLarge
    <3>6. Decryptable(encrypted) = (size > 16 /\ size % 16 = 0)
      BY <3>2 DEF Decryptable, IvSize
    <3>7. damage # "cut" => /\ size = 16 + CbcSize(plaintext.size)
                            /\ size > 16 /\ size % 16 = 0
      BY <2>0, <3>2, <3>5, SMT DEF EcbSize, IvSize
    <3>8. r.text.size <= size - 16 \/ ~Decryptable(encrypted)
      <4>1. CASE key = OurKey /\ damage = "none"
        BY <2>0, <3>4, <3>5, <3>7, <4>1
      <4>2. CASE ~(key = OurKey /\ damage = "none")
        <5>1. r.text.size = size - 17
          BY <3>4, <4>2 DEF Garbage, IvSize
        <5>2. QED
          BY <5>1
      <4>3. QED
        BY <4>1, <4>2
    <3>9. IsValidIV(OurKey, r.text, r.iv) => r.text = plaintext
      <4> SUFFICES ASSUME IsValidIV(OurKey, r.text, r.iv)
                   PROVE  r.text = plaintext
        OBVIOUS
      <4>1. r.iv.prefix = Digest(OurKey, r.iv.random, r.text)
        BY DEF IsValidIV
      <4>2. \/ r.iv.prefix = <<"garbage">> \/ r.iv.prefix = <<"random">>
            \/ r.iv.prefix = Digest(key, random, plaintext)
        BY <3>2, <3>4 DEF MakeIV
      <4>3. r.iv.prefix = Digest(key, random, plaintext)
        BY <4>1, <4>2, DigestsDiffer
      <4>4. QED
        BY <4>1, <4>3, DigestsDiffer
    <3>10. /\ cipherOf.sender = "AESHMAC" /\ key = OurKey /\ damage = "none"
             => IsValidIV(OurKey, r.text, r.iv)
          /\ cipherOf.sender \in Cryptos /\ cipherOf.receiver \in Cryptos
      BY <2>0, <3>2, <3>4 DEF IsValidIV, MakeIV, CipherTypes
    <3>11. TextsReadBack'
      <4>1. cipherOf.receiver = "AESHMAC" => plainResult' \subseteq {plaintext}
        BY <3>3, <3>9
      <4>2. ASSUME damage = "none", key = OurKey, cipherOf.sender = cipherOf.receiver
            PROVE  plainResult' = {plaintext}
        <5>1. valid /\ r.text = plaintext /\ r.text.good
          BY <2>0, <3>4, <3>6, <3>7, <3>10, <4>2
        <5>2. QED
          BY <3>3, <5>1
      <4>3. QED
        BY <3>2, <3>3, <4>1, <4>2 DEF TextsReadBack
    <3>12. ResultFits'
      <4>1. plainResult' = {} \/ (plainResult' = {r.text} /\ Decryptable(encrypted))
        BY <3>3
      <4>2. encrypted'.size = size /\ IvSize = 16
        BY <3>2, <3>3 DEF IvSize
      <4>3. QED
        BY <3>8, <4>1, <4>2 DEF ResultFits
    <3>13. CipherTypes'
      BY <2>0, <3>3 DEF CipherTypes, CipherTypeOK
    <3>14. PacketInv'
      <4>1. SentAs(key, random, prefix, size)'
        BY <3>1, <3>3 DEF SentAs
      <4>2. QED
        BY <4>1 DEF PacketInv
    <3>15. QED
      BY <3>11, <3>12, <3>13, <3>14 DEF CipherInv
  <2>4. CASE UNCHANGED cipherVars
    BY <2>0, <2>4 DEF cipherVars, CipherInv, CipherTypes, CipherTypeOK, PacketInv, SentAs,
                      TextsReadBack, ResultFits
  <2>5. QED
    BY <2>1, <2>2, <2>3, <2>4 DEF CipherNext
<1>3. CipherInv => CipherTypeOK /\ TextsReadBack /\ BuffersSuffice
  <2>1. \A n \in Sizes : EcbSize(IvSize) + CbcSize(n) <= OutputSize(n)
    <3> SUFFICES ASSUME NEW n \in Sizes
                 PROVE  EcbSize(IvSize) + CbcSize(n) <= OutputSize(n)
      OBVIOUS
    <3>1. CbcSize(n) \in Nat /\ EcbSize(IvSize) + CbcSize(n) = OutputSize(n)
      BY BufferIsLarge
    <3>2. EcbSize(IvSize) + CbcSize(n) \in Nat
      BY <3>1 DEF EcbSize, IvSize
    <3>3. QED
      BY <3>1, <3>2
  <2>2. QED
    BY <2>1 DEF CipherInv, CipherTypes, ResultFits, BuffersSuffice
<1>4. QED
  BY <1>1, <1>2, <1>3, PTL DEF CipherSpec

-----------------------------------------------------------------------------
(* Identifiers                                                             *)

\* A field as the code may declare one.
IdFields ==
    [name : {"AccountId", "AccountInstance", "AccountType", "Universe", "AppId", "AppType",
             "SequentialCount", "StartTimeSeconds", "ProcessID", "BoxID"},
     offset : 0..63, count : 1..64]

\* Two fields that have no bit in common.
Apart(f, g) == f.offset + f.count <= g.offset \/ g.offset + g.count <= f.offset

\* How many values a field of twenty bits has.
JobNumbers == 1048576

(* The bounds as they are.                                                 *)
LEMMA IdBounds ==
  ASSUME IdAssumption
  PROVE  MaxSteps \in Nat /\ MaxSteps <= JobNumbers /\ Sequences \subseteq Nat
<1>1. \A x \in 0..(2^20) : x \in Nat /\ x <= JobNumbers
  BY SMT DEF JobNumbers
<1>2. \A x \in 0..(2^30) : x \in Nat
  BY SMT
<1>3. QED
  BY <1>1, <1>2, Zenon DEF IdAssumption

(* Four fields, one above the other.                                       *)
LEMMA FourApart ==
  ASSUME NEW a \in IdFields, NEW b \in IdFields, NEW c \in IdFields, NEW d \in IdFields,
         a.offset + a.count <= b.offset, b.offset + b.count <= c.offset,
         c.offset + c.count <= d.offset, d.offset + d.count <= 64
  PROVE  /\ {a, b, c, d} \subseteq IdFields
         /\ \A f \in {a, b, c, d} : f.offset + f.count <= 64
         /\ \A f, g \in {a, b, c, d} : f # g => Apart(f, g)
<1>1. \A f \in {a, b, c, d} : f.offset \in Nat /\ f.count \in Nat
  BY DEF IdFields
<1>2. \A f \in {a, b, c, d} : f.offset + f.count <= 64
  BY <1>1
<1>3. /\ Apart(a, b) /\ Apart(a, c) /\ Apart(a, d) /\ Apart(b, c) /\ Apart(b, d)
      /\ Apart(c, d)
  BY <1>1 DEF Apart
<1>4. \A f, g : Apart(f, g) => Apart(g, f)
  BY DEF Apart
<1>5. QED
  BY <1>2, <1>3, <1>4, Zenon

(* The fields of each class are in its 64 bits and have no bit in common.  *)
LEMMA FieldsAreDeclaredApart ==
  ASSUME idKind \in {"SteamID", "GameID", "GlobalID"}
  PROVE  /\ Fields \subseteq IdFields
         /\ \A f \in Fields : f.offset + f.count <= 64
         /\ \A f, g \in Fields : f # g => Apart(f, g)
<1>1. ASSUME NEW S \in {SteamID, GameID, GlobalID}
      PROVE  /\ S \subseteq IdFields
             /\ \A f \in S : f.offset + f.count <= 64
             /\ \A f, g \in S : f # g => Apart(f, g)
  <2>1. CASE S = SteamID
    <3> DEFINE a == Field("AccountId", 0, 32)
    <3>1. a \in IdFields /\ a.offset = 0 /\ a.count = 32
      BY DEF Field, IdFields
    <3> DEFINE b == Field("AccountInstance", 32, 20)
    <3>2. b \in IdFields /\ b.offset = 32 /\ b.count = 20
      BY DEF Field, IdFields
    <3> DEFINE c == Field("AccountType", 52, 4)
    <3>3. c \in IdFields /\ c.offset = 52 /\ c.count = 4
      BY DEF Field, IdFields
    <3> DEFINE d == Field("Universe", 56, 8)
    <3>4. d \in IdFields /\ d.offset = 56 /\ d.count = 8
      BY DEF Field, IdFields
    <3>5. S = {a, b, c, d}
      BY <2>1, Zenon DEF SteamID
    <3> HIDE DEF a, b, c, d
    <3>6. /\ a.offset + a.count <= b.offset /\ b.offset + b.count <= c.offset
          /\ c.offset + c.count <= d.offset /\ d.offset + d.count <= 64
      BY <3>1, <3>2, <3>3, <3>4
    <3>7. /\ {a, b, c, d} \subseteq IdFields
          /\ \A f \in {a, b, c, d} : f.offset + f.count <= 64
          /\ \A f, g \in {a, b, c, d} : f # g => Apart(f, g)
      BY <3>1, <3>2, <3>3, <3>4, <3>6, FourApart, SMT
    <3>8. QED
      BY <3>5, <3>7
  <2>2. CASE S = GameID
    <3> DEFINE a == Field("AppId", 0, 24)
    <3>1. a \in IdFields /\ a.offset = 0 /\ a.count = 24
      BY DEF Field, IdFields
    <3> DEFINE b == Field("AppType", 24, 8)
    <3>2. b \in IdFields /\ b.offset = 24 /\ b.count = 8
      BY DEF Field, IdFields
    <3>3. S = {a, b}
      BY <2>2, Zenon DEF GameID
    <3> HIDE DEF a, b
    <3>4. Apart(a, b) /\ Apart(b, a)
      BY <3>1, <3>2 DEF Apart
    <3>5. a.offset + a.count <= 64 /\ b.offset + b.count <= 64
      BY <3>1, <3>2
    <3>6. QED
      BY <3>1, <3>2, <3>3, <3>4, <3>5, Zenon
  <2>3. CASE S = GlobalID
    <3> DEFINE a == Field("SequentialCount", 0, 20)
    <3>1. a \in IdFields /\ a.offset = 0 /\ a.count = 20
      BY DEF Field, IdFields
    <3> DEFINE b == Field("StartTimeSeconds", 20, 30)
    <3>2. b \in IdFields /\ b.offset = 20 /\ b.count = 30
      BY DEF Field, IdFields
    <3> DEFINE c == Field("ProcessID", 50, 4)
    <3>3. c \in IdFields /\ c.offset = 50 /\ c.count = 4
      BY DEF Field, IdFields
    <3> DEFINE d == Field("BoxID", 54, 10)
    <3>4. d \in IdFields /\ d.offset = 54 /\ d.count = 10
      BY DEF Field, IdFields
    <3>5. S = {a, b, c, d}
      BY <2>3, Zenon DEF GlobalID
    <3> HIDE DEF a, b, c, d
    <3>6. /\ a.offset + a.count <= b.offset /\ b.offset + b.count <= c.offset
          /\ c.offset + c.count <= d.offset /\ d.offset + d.count <= 64
      BY <3>1, <3>2, <3>3, <3>4
    <3>7. /\ {a, b, c, d} \subseteq IdFields
          /\ \A f \in {a, b, c, d} : f.offset + f.count <= 64
          /\ \A f, g \in {a, b, c, d} : f # g => Apart(f, g)
      BY <3>1, <3>2, <3>3, <3>4, <3>6, FourApart, SMT
    <3>8. QED
      BY <3>5, <3>7
  <2>4. QED
    BY <2>1, <2>2, <2>3
<1>2. Fields \in {SteamID, GameID, GlobalID}
  BY DEF Fields
<1>3. QED
  BY <1>1, <1>2

(* A field that is set has the low bits of its value, and no other field   *)
(* has changed.                                                            *)
LEMMA SetThenGet ==
  ASSUME NEW bits, NEW low, NEW f \in IdFields, NEW g \in IdFields
  PROVE  /\ GetBits(SetBits(bits, f, low), f) = low \cap ValueMask(f.count)
         /\ Apart(f, g) => GetBits(SetBits(bits, f, low), g) = GetBits(bits, g)
<1>1. /\ f.offset \in Nat /\ f.count \in Nat /\ g.offset \in Nat /\ g.count \in Nat
  BY DEF IdFields
<1>2. \A b : b \in SetBits(bits, f, low) <=>
          \/ b \in bits /\ ~\E c \in ValueMask(f.count) : b = c + f.offset
          \/ \E c \in low \cap ValueMask(f.count) : b = c + f.offset
  BY DEF SetBits, Up
<1>3. ASSUME NEW b \in ValueMask(f.count)
      PROVE  b + f.offset \in SetBits(bits, f, low) <=> b \in low
  BY <1>1, <1>2 DEF ValueMask
<1>4. ASSUME Apart(f, g), NEW b \in ValueMask(g.count)
      PROVE  b + g.offset \in SetBits(bits, f, low) <=> b + g.offset \in bits
  BY <1>1, <1>2, <1>4 DEF ValueMask, Apart
<1>5. QED
  BY <1>3, <1>4 DEF GetBits

(* All bits are in some field, before and after a field is set.            *)
LEMMA SetBitsAre ==
  ASSUME NEW bits, NEW low, NEW f \in IdFields
  PROVE  \A b : b \in SetBits(bits, f, low) <=>
             \/ b \in bits /\ b \notin Up(ValueMask(f.count), f.offset)
             \/ b \in Up(GetBits(SetBits(bits, f, low), f), f.offset)
<1>1. GetBits(SetBits(bits, f, low), f) = low \cap ValueMask(f.count)
  BY SetThenGet
<1>2. QED
  BY <1>1 DEF SetBits

(* A number has at most the bits of its fields, each what was set last.    *)
FieldsInv ==
    /\ idKind \in {"SteamID", "GameID", "GlobalID"}
    /\ idSteps \in 0..MaxSteps
    /\ DOMAIN idSet = Fields /\ idSet = [f \in Fields |-> idSet[f]]
    /\ FieldsAreApart

(* Nothing else is about the fields.                                       *)
LEMMA KeptFields ==
  ASSUME FieldsInv, UNCHANGED <<idKind, idBits, idSet, idSteps>>
  PROVE  FieldsInv'
<1>1. Fields' = Fields /\ FieldsAreApart
  BY DEF Fields, FieldsInv
<1>2. (\A f \in Fields : GetBits(idBits, f) = idSet[f] \cap ValueMask(f.count))'
  BY <1>1 DEF FieldsAreApart
<1>3. (idBits = UNION {Up(GetBits(idBits, f), f.offset) : f \in Fields})'
  BY <1>1 DEF FieldsAreApart
<1>4. QED
  BY <1>1, <1>2, <1>3 DEF FieldsInv, FieldsAreApart

(* A field that is set is right, and the others are as they were.          *)
LEMMA IdFieldsStep ==
  ASSUME IdAssumption, FieldsInv, NEW f \in Fields, NEW low, SetField(f, low)
  PROVE  FieldsInv'
<1> USE DEF FieldsInv
<1>1. /\ idSteps < MaxSteps /\ idSteps' = idSteps + 1 /\ UNCHANGED idKind
      /\ idBits' = SetBits(idBits, f, low) /\ idSet' = [idSet EXCEPT ![f] = low]
  BY DEF SetField
<1>2. Fields' = Fields
  BY <1>1 DEF Fields
<1>3. /\ Fields \subseteq IdFields
      /\ \A g \in Fields : g # f => Apart(f, g)
  BY FieldsAreDeclaredApart
<1>4. /\ GetBits(idBits', f) = low \cap ValueMask(f.count)
      /\ \A g \in Fields : g # f => GetBits(idBits', g) = GetBits(idBits, g)
  BY <1>1, <1>3, SetThenGet
<1>5. idSet' = [g \in Fields |-> IF g = f THEN low ELSE idSet[g]]
  BY <1>1
<1>6. \A g \in Fields : GetBits(idBits', g) = idSet'[g] \cap ValueMask(g.count)
  BY <1>4, <1>5 DEF FieldsAreApart
<1>7. idBits' = UNION {Up(GetBits(idBits', g), g.offset) : g \in Fields}
  <2>1. \A b : b \in idBits' <=> \/ b \in idBits /\ b \notin Up(ValueMask(f.count), f.offset)
                                 \/ b \in Up(GetBits(idBits', f), f.offset)
    BY <1>1, <1>3, SetBitsAre
  <2>2. \A b : b \in idBits <=> \E g \in Fields : b \in Up(GetBits(idBits, g), g.offset)
    <3>1. idBits = UNION {Up(GetBits(idBits, g), g.offset) : g \in Fields}
      BY DEF FieldsAreApart
    <3>2. QED
      BY <3>1
  <2>3. ASSUME NEW g \in Fields, g # f, NEW b \in Up(GetBits(idBits, g), g.offset)
        PROVE  b \notin Up(ValueMask(f.count), f.offset)
    <3>1. Apart(f, g) /\ f \in IdFields /\ g \in IdFields
      BY <1>3, <2>3
    <3>2. PICK c \in ValueMask(g.count) : b = c + g.offset
      BY DEF Up, GetBits
    <3>3. QED
      <4>1. /\ f.offset \in Nat /\ f.count \in Nat /\ g.offset \in Nat /\ g.count \in Nat
        BY <3>1 DEF IdFields
      <4>2. QED
        BY <3>1, <3>2, <4>1 DEF Apart, Up, ValueMask
  <2>4. Up(GetBits(idBits, f), f.offset) \subseteq Up(ValueMask(f.count), f.offset)
    BY DEF Up, GetBits
  <2>5. ASSUME NEW b
        PROVE  b \in idBits' <=> \E g \in Fields : b \in Up(GetBits(idBits', g), g.offset)
    <3>1. ASSUME b \in idBits'
          PROVE  \E g \in Fields : b \in Up(GetBits(idBits', g), g.offset)
      <4>1. CASE b \in Up(GetBits(idBits', f), f.offset)
        BY <4>1
      <4>2. CASE b \in idBits /\ b \notin Up(ValueMask(f.count), f.offset)
        <5>1. PICK g \in Fields : b \in Up(GetBits(idBits, g), g.offset)
          BY <2>2, <4>2
        <5>2. g # f
          BY <2>4, <4>2, <5>1
        <5>3. QED
          BY <1>4, <5>1, <5>2
      <4>3. QED
        BY <2>1, <3>1, <4>1, <4>2
    <3>2. ASSUME NEW g \in Fields, b \in Up(GetBits(idBits', g), g.offset)
          PROVE  b \in idBits'
      <4>1. CASE g = f
        BY <2>1, <3>2, <4>1
      <4>2. CASE g # f
        <5>1. b \in Up(GetBits(idBits, g), g.offset)
          BY <1>4, <3>2, <4>2
        <5>2. QED
          BY <2>1, <2>2, <2>3, <4>2, <5>1
      <4>3. QED
        BY <4>1, <4>2
    <3>3. QED
      BY <3>1, <3>2
  <2>6. QED
    BY <2>5
<1>8. QED
  <2>1. idSteps' \in 0..MaxSteps
    BY <1>1, IdBounds
  <2>2. DOMAIN idSet' = Fields' /\ idSet' = [g \in Fields' |-> idSet'[g]]
    BY <1>2, <1>5
  <2>3. FieldsAreApart'
    BY <1>2, <1>6, <1>7 DEF FieldsAreApart
  <2>4. QED
    BY <1>1, <2>1, <2>2, <2>3

-----------------------------------------------------------------------------

(* Two numbers with the same low bits, and the next of them.               *)
LEMMA OneMoreBit ==
  ASSUME NEW n \in Nat, NEW m \in Nat, NEW p \in Nat \ {0}, n % p = m % p,
         (n \div p) % 2 = (m \div p) % 2, NEW q, q = 2 * p
  PROVE  n % q = m % q
BY SMT

(* The lowest twenty bits of a number say what it is, modulo 2^20.         *)
LEMMA TwentyBits ==
  ASSUME NEW n \in Nat, NEW m \in Nat, Bits(n) \cap (0..19) = Bits(m) \cap (0..19)
  PROVE  n % JobNumbers = m % JobNumbers
<1>1. ASSUME NEW b \in 0..19
      PROVE  (n \div 2^b) % 2 = 1 <=> (m \div 2^b) % 2 = 1
  <2>1. b \in Bits(n) <=> b \in Bits(m)
    OBVIOUS
  <2>2. b \in 0..30
    OBVIOUS
  <2>3. QED
    BY <2>1, <2>2, Zenon DEF Bits
<1>2. \A p \in Nat \ {0} : (n \div p) % 2 \in {0, 1} /\ (m \div p) % 2 \in {0, 1}
  OBVIOUS
<1>3. /\ 2^0 = 1 /\ 2^1 = 2 /\ 2^2 = 4 /\ 2^3 = 8 /\ 2^4 = 16
      /\ 2^5 = 32 /\ 2^6 = 64 /\ 2^7 = 128 /\ 2^8 = 256 /\ 2^9 = 512
      /\ 2^10 = 1024 /\ 2^11 = 2048 /\ 2^12 = 4096 /\ 2^13 = 8192 /\ 2^14 = 16384
      /\ 2^15 = 32768 /\ 2^16 = 65536 /\ 2^17 = 131072 /\ 2^18 = 262144 /\ 2^19 = 524288
  BY SMT
<1>4. \A p \in {1, 2, 4, 8, 16, 32, 64, 128, 256, 512, 1024, 2048, 4096, 8192, 16384, 32768,
                65536, 131072, 262144, 524288} : (n \div p) % 2 = (m \div p) % 2
  <2>1. ASSUME NEW b \in 0..19, NEW p \in Nat \ {0}, 2^b = p
        PROVE  (n \div p) % 2 = (m \div p) % 2
    <3>1. (n \div p) % 2 = 1 <=> (m \div p) % 2 = 1
      BY <1>1, <2>1
    <3>2. QED
      BY <1>2, <3>1
  <2>2. QED
    BY <1>3, <2>1, SMT
<1>5. n % 1 = m % 1
  OBVIOUS
<1>6. n % 2 = m % 2
  BY <1>4, <1>5, OneMoreBit, SMT
<1>7. n % 4 = m % 4
  BY <1>4, <1>6, OneMoreBit, SMT
<1>8. n % 8 = m % 8
  BY <1>4, <1>7, OneMoreBit, SMT
<1>9. n % 16 = m % 16
  BY <1>4, <1>8, OneMoreBit, SMT
<1>10. n % 32 = m % 32
  BY <1>4, <1>9, OneMoreBit, SMT
<1>11. n % 64 = m % 64
  BY <1>4, <1>10, OneMoreBit, SMT
<1>12. n % 128 = m % 128
  BY <1>4, <1>11, OneMoreBit, SMT
<1>13. n % 256 = m % 256
  BY <1>4, <1>12, OneMoreBit, SMT
<1>14. n % 512 = m % 512
  BY <1>4, <1>13, OneMoreBit, SMT
<1>15. n % 1024 = m % 1024
  BY <1>4, <1>14, OneMoreBit, SMT
<1>16. n % 2048 = m % 2048
  BY <1>4, <1>15, OneMoreBit, SMT
<1>17. n % 4096 = m % 4096
  BY <1>4, <1>16, OneMoreBit, SMT
<1>18. n % 8192 = m % 8192
  BY <1>4, <1>17, OneMoreBit, SMT
<1>19. n % 16384 = m % 16384
  BY <1>4, <1>18, OneMoreBit, SMT
<1>20. n % 32768 = m % 32768
  BY <1>4, <1>19, OneMoreBit, SMT
<1>21. n % 65536 = m % 65536
  BY <1>4, <1>20, OneMoreBit, SMT
<1>22. n % 131072 = m % 131072
  BY <1>4, <1>21, OneMoreBit, SMT
<1>23. n % 262144 = m % 262144
  BY <1>4, <1>22, OneMoreBit, SMT
<1>24. n % 524288 = m % 524288
  BY <1>4, <1>23, OneMoreBit, SMT
<1>25. n % 1048576 = m % 1048576
  BY <1>4, <1>24, OneMoreBit, SMT
<1>26. QED
  BY <1>25, SMT DEF JobNumbers

\* The id of the job with that number.
CountField == CHOOSE f \in GlobalID : f.name = "SequentialCount"
StartField == CHOOSE f \in GlobalID : f.name = "StartTimeSeconds"
IdOfJob(n) == SetBits(SetBits({}, CountField, Bits(n)), StartField, {0, 29})

(* The two fields that a job id has.                                       *)
LEMMA JobFields ==
  /\ CountField \in IdFields /\ CountField.count = 20
  /\ StartField \in IdFields /\ Apart(StartField, CountField)
<1>1. CountField \in GlobalID /\ CountField.name = "SequentialCount"
  BY DEF CountField, GlobalID, Field
<1>2. StartField \in GlobalID /\ StartField.name = "StartTimeSeconds"
  BY DEF StartField, GlobalID, Field
<1>3. ASSUME NEW f \in GlobalID
      PROVE  /\ f \in IdFields
             /\ f.name = "SequentialCount" => f.offset = 0 /\ f.count = 20
             /\ f.name = "StartTimeSeconds" => f.offset = 20 /\ f.count = 30
  <2>1. CASE f = Field("SequentialCount", 0, 20)
    <3>1. f \in IdFields /\ f.name = "SequentialCount" /\ f.offset = 0 /\ f.count = 20
      BY <2>1 DEF Field, IdFields
    <3>2. QED
      BY <3>1
  <2>2. CASE f = Field("StartTimeSeconds", 20, 30)
    <3>1. f \in IdFields /\ f.name = "StartTimeSeconds" /\ f.offset = 20 /\ f.count = 30
      BY <2>2 DEF Field, IdFields
    <3>2. QED
      BY <3>1
  <2>3. CASE f = Field("ProcessID", 50, 4)
    <3>1. f \in IdFields /\ f.name = "ProcessID" /\ f.offset = 50 /\ f.count = 4
      BY <2>3 DEF Field, IdFields
    <3>2. QED
      BY <3>1
  <2>4. CASE f = Field("BoxID", 54, 10)
    <3>1. f \in IdFields /\ f.name = "BoxID" /\ f.offset = 54 /\ f.count = 10
      BY <2>4 DEF Field, IdFields
    <3>2. QED
      BY <3>1
  <2>5. QED
    BY <2>1, <2>2, <2>3, <2>4 DEF GlobalID
<1>4. QED
  BY <1>1, <1>2, <1>3 DEF Apart

(* Ids of jobs whose numbers are not a multiple of 2^20 apart are not the  *)
(* same.                                                                   *)
LEMMA JobsApart ==
  ASSUME NEW n \in Nat, NEW m \in Nat, n < m, m < n + JobNumbers
  PROVE  IdOfJob(n) # IdOfJob(m)
<1> SUFFICES ASSUME IdOfJob(n) = IdOfJob(m)
             PROVE  FALSE
  OBVIOUS
<1>1. \A k \in Nat : GetBits(IdOfJob(k), CountField) = Bits(k) \cap ValueMask(20)
  BY JobFields, SetThenGet DEF IdOfJob
<1>2. Bits(n) \cap (0..19) = Bits(m) \cap (0..19)
  BY <1>1 DEF ValueMask
<1>3. n % JobNumbers = m % JobNumbers
  BY <1>2, TwentyBits, Zenon
<1>4. QED
  BY <1>3, SMT DEF JobNumbers

(* The jobs that were made have numbers in a row, up to the counter's.     *)
JobsInv ==
    /\ jobSeq \in Nat /\ jobIds \in Seq(SUBSET Int) /\ Len(jobIds) <= MaxSteps
    /\ Len(jobIds) <= jobSeq
    /\ \A i \in 1..Len(jobIds) : jobIds[i] = IdOfJob(jobSeq - Len(jobIds) + i)

(* The next job has the next number.                                       *)
LEMMA JobsStep ==
  ASSUME IdAssumption, JobsInv, JobID
  PROVE  JobsInv'
<1>1. /\ Len(jobIds) < MaxSteps /\ jobSeq' = jobSeq + 1
      /\ jobIds' = Append(jobIds, IdOfJob(jobSeq'))
  BY DEF JobID, IdOfJob, CountField, StartField
<1>2. IdOfJob(jobSeq') \in SUBSET Int
  <2>1. CountField.offset \in Int /\ StartField.offset \in Int
    BY JobFields DEF IdFields
  <2>2. QED
    BY <2>1 DEF IdOfJob, SetBits, Up, ValueMask
<1>3. /\ jobIds' \in Seq(SUBSET Int) /\ Len(jobIds') = Len(jobIds) + 1
      /\ \A i \in 1..Len(jobIds) : jobIds'[i] = jobIds[i]
      /\ jobIds'[Len(jobIds) + 1] = IdOfJob(jobSeq')
  BY <1>1, <1>2, AppendFacts DEF JobsInv
<1>4. MaxSteps \in Nat
  BY IdBounds
<1>5. ASSUME NEW i \in 1..Len(jobIds')
      PROVE  jobIds'[i] = IdOfJob(jobSeq' - Len(jobIds') + i)
  <2>1. CASE i \in 1..Len(jobIds)
    <3>1. jobSeq' - Len(jobIds') + i = jobSeq - Len(jobIds) + i
      BY <1>1, <1>3 DEF JobsInv
    <3>2. QED
      BY <1>3, <2>1, <3>1 DEF JobsInv
  <2>2. CASE i = Len(jobIds) + 1
    <3>1. jobSeq' - Len(jobIds') + i = jobSeq'
      BY <1>1, <1>3, <2>2 DEF JobsInv
    <3>2. QED
      BY <1>3, <2>2, <3>1
  <2>3. QED
    BY <1>3, <2>1, <2>2 DEF JobsInv
<1>6. QED
  BY <1>1, <1>3, <1>4, <1>5 DEF JobsInv

(* Whatever the fields of an identifier are set to in whatever order, they *)
(* do not touch each other (BitField.hpp:77-109); and jobs that are under  *)
(* way at the same time have different ids, also when their numbers do not *)
(* fit into 20 bits any more (JobID.cpp:27-37).                            *)
THEOREM IdentifiersAreSound ==
  ASSUME IdAssumption
  PROVE  IdSpec => [](IdTypeOK /\ FieldsAreApart /\ JobsDiffer)
<1> DEFINE Inv == FieldsInv /\ JobsInv
<1>1. ASSUME IdInit
      PROVE  Inv
  <2>1. idSet = [f \in Fields |-> {}] /\ idBits = {} /\ idSteps = 0
        /\ idKind \in {"SteamID", "GameID", "GlobalID"}
    BY <1>1 DEF IdInit
  <2>2. \A f \in Fields : GetBits(idBits, f) = {} /\ Up(GetBits(idBits, f), f.offset) = {}
    BY <2>1 DEF GetBits, Up
  <2>3. FieldsInv
    <3>1. idBits = UNION {Up(GetBits(idBits, f), f.offset) : f \in Fields}
      BY <2>1, <2>2
    <3>2. \A f \in Fields : GetBits(idBits, f) = idSet[f] \cap ValueMask(f.count)
      BY <2>1, <2>2
    <3>3. FieldsAreApart
      BY <3>1, <3>2, Zenon DEF FieldsAreApart
    <3>4. QED
      BY <2>1, <3>3, IdBounds DEF FieldsInv
  <2> DEFINE e == <<>>
  <2>4. jobIds = e /\ e \in Seq(SUBSET Int) /\ Len(e) = 0 /\ jobSeq \in Nat
    BY <1>1, IdBounds DEF IdInit
  <2> HIDE DEF e
  <2>5. JobsInv
    BY <2>4, IdBounds DEF JobsInv
  <2>6. QED
    BY <2>3, <2>5
<1>2. ASSUME Inv, [IdNext]_idVars
      PROVE  Inv'
  <2>1. ASSUME NEW f \in Fields, NEW v, SetField(f, v)
        PROVE  Inv'
    <3>1. FieldsInv'
      BY <1>2, <2>1, IdFieldsStep
    <3>2. JobsInv'
      BY <1>2, <2>1 DEF SetField, JobsInv
    <3>3. QED
      BY <3>1, <3>2
  <2>2. CASE JobID
    <3>1. FieldsInv'
      <4>1. UNCHANGED <<idKind, idBits, idSet, idSteps>>
        BY <2>2 DEF JobID
      <4>2. QED
        BY <1>2, <4>1, KeptFields
    <3>2. QED
      BY <1>2, <2>2, <3>1, JobsStep
  <2>3. CASE UNCHANGED idVars
    <3>1. FieldsInv'
      BY <1>2, <2>3, KeptFields DEF idVars
    <3>2. JobsInv'
      BY <1>2, <2>3 DEF idVars, JobsInv
    <3>3. QED
      BY <3>1, <3>2
  <2>4. QED
    BY <1>2, <2>1, <2>2, <2>3 DEF IdNext
<1>3. Inv => IdTypeOK /\ FieldsAreApart /\ JobsDiffer
  <2> SUFFICES ASSUME Inv PROVE IdTypeOK /\ FieldsAreApart /\ JobsDiffer
    OBVIOUS
  <2>1. JobsDiffer
    <3>1. ASSUME NEW i \in 1..Len(jobIds), NEW j \in 1..Len(jobIds), i < j
          PROVE  jobIds[i] # jobIds[j]
      <4>0. jobSeq - Len(jobIds) \in Nat /\ Len(jobIds) \in Nat /\ Len(jobIds) <= MaxSteps
        BY DEF JobsInv
      <4>1. PICK n \in Nat : n = jobSeq - Len(jobIds)
        BY <4>0
      <4>2. n + i \in Nat /\ n + j \in Nat /\ n + i < n + j /\ n + j < n + i + JobNumbers
        BY <3>1, <4>0, IdBounds, SMT DEF JobNumbers
      <4>3. IdOfJob(n + i) # IdOfJob(n + j)
        BY <4>2, JobsApart, SMT
      <4>4. QED
        BY <4>1, <4>3 DEF JobsInv
    <3>2. DOMAIN jobIds = 1..Len(jobIds) /\ Len(jobIds) \in Nat
      BY DEF JobsInv
    <3>3. ASSUME NEW i \in DOMAIN jobIds, NEW j \in DOMAIN jobIds, i # j
          PROVE  jobIds[i] # jobIds[j]
      <4>1. i < j \/ j < i
        BY <3>2, <3>3
      <4>2. QED
        BY <3>1, <3>2, <4>1
    <3>4. QED
      BY <3>3 DEF JobsDiffer
  <2>2. idBits \subseteq 0..63
    <3>1. /\ Fields \subseteq IdFields
          /\ \A f \in Fields : f.offset + f.count <= 64
      BY FieldsAreDeclaredApart DEF FieldsInv
    <3>2. ASSUME NEW f \in Fields
          PROVE  Up(GetBits(idBits, f), f.offset) \subseteq 0..63
      BY <3>1 DEF Up, GetBits, ValueMask, IdFields
    <3>3. QED
      BY <3>2 DEF FieldsInv, FieldsAreApart
  <2>3. QED
    BY <2>1, <2>2 DEF FieldsInv, IdTypeOK
<1> HIDE DEF Inv
<1>4. QED
  BY <1>1, <1>2, <1>3, PTL DEF IdSpec

-----------------------------------------------------------------------------
(* Messages                                                                *)

\* Fields and bytes of the names N, each name's field being one.
FieldsOf(N) == [name : N, size : Nat \ {0}]
BytesOf(N) == [of : N, n : Nat]
IsNameOf(fs, i, name) == fs[i].name = name
DistinctNames(fs) == \A i, j \in 1..Len(fs) : fs[i].name = fs[j].name => i = j
HasField(fs, g) == \E k \in 1..Len(fs) : g = fs[k]

\* Three parts of that kind are the same, whichever two come together first.
AssociativeOn(S) == \A x, y, z \in S : (x \o y) \o z = x \o (y \o z)

(* Three parts can be put together in either order.                        *)
LEMMA ThreeParts ==
  ASSUME NEW T
  PROVE  AssociativeOn(Seq(T))
<1>1. \A x, y, z \in Seq(T) : (x \o y) \o z = x \o (y \o z)
  BY ConcatAssociative
<1>2. QED
  BY <1>1 DEF AssociativeOn

(* The last two of them as one part.                                       *)
LEMMA LastParts ==
  ASSUME NEW T, NEW x \in Seq(T), NEW y \in Seq(T), NEW z \in Seq(T),
         NEW w, w = y \o z
  PROVE  (x \o y) \o z = x \o w
<1>1. AssociativeOn(Seq(T))
  BY ThreeParts
<1>2. (x \o y) \o z = x \o (y \o z)
  BY <1>1, Zenon DEF AssociativeOn
<1>3. QED
  BY <1>2

(* The middle of three parts.                                              *)
LEMMA MiddlePart ==
  ASSUME NEW T, NEW a \in Seq(T), NEW s \in Seq(T), NEW c \in Seq(T)
  PROVE  /\ SubSeq((a \o s) \o c, Len(a) + 1, Len(a) + Len(s)) = s
         /\ (a \o s) \o c \in Seq(T)
<1>1. PICK ahead \in Seq(T) : ahead = a \o s
  BY ConcatFacts
<1>2. PICK d \in Seq(T) : d = ahead \o c
  BY ConcatFacts
<1>3. /\ Len(a) \in Nat /\ Len(s) \in Nat /\ Len(c) \in Nat
      /\ Len(ahead) = Len(a) + Len(s) /\ Len(d) = (Len(a) + Len(s)) + Len(c)
  BY <1>1, <1>2, ConcatFacts
<1>4. PICK u : u = SubSeq(d, Len(a) + 1, Len(a) + Len(s))
  OBVIOUS
<1>5. /\ u \in Seq(T) /\ Len(u) = Len(s)
      /\ \A i \in 1..Len(s) : u[i] = d[i + Len(a)]
  BY <1>3, <1>4
<1>6. ASSUME NEW i \in 1..Len(s)
      PROVE  u[i] = s[i]
  <2>1. i + Len(a) \in 1..Len(ahead)
    BY <1>3
  <2>2. d[i + Len(a)] = ahead[i + Len(a)]
    BY <1>2, <2>1, ConcatFacts
  <2>3. ahead[i + Len(a)] = s[i]
    BY <1>1, ConcatFacts
  <2>4. QED
    BY <1>5, <2>2, <2>3
<1>7. u = s
  BY <1>5, <1>6, SeqEqual
<1>8. QED
  BY <1>1, <1>2, <1>4, <1>7

(* What is long enough to have the first part of a sequence it begins:     *)
(* that part, and the beginning of the rest.                               *)
LEMMA FirstPart ==
  ASSUME NEW T, NEW d \in Seq(T), NEW a \in Seq(T), NEW b \in Seq(T),
         IsPrefix(d, a \o b), Len(d) >= Len(a)
  PROVE  /\ SubSeq(d, 1, Len(a)) = a
         /\ SubSeq(d, Len(a) + 1, Len(d)) \in Seq(T)
         /\ IsPrefix(SubSeq(d, Len(a) + 1, Len(d)), b)
         /\ d = a \o SubSeq(d, Len(a) + 1, Len(d))
<1>1. PICK ab \in Seq(T) : ab = a \o b
  BY ConcatFacts
<1>2. /\ Len(a) \in Nat /\ Len(b) \in Nat /\ Len(d) \in Nat /\ Len(ab) = Len(a) + Len(b)
      /\ \A i \in 1..Len(a) : ab[i] = a[i]
      /\ \A i \in 1..Len(b) : ab[i + Len(a)] = b[i]
  BY <1>1, ConcatFacts
<1>3. Len(d) <= Len(ab) /\ \A i \in 1..Len(d) : d[i] = ab[i]
  <2>1. IsPrefix(d, ab)
    BY <1>1
  <2>2. QED
    BY <2>1, PrefixIs
<1>4. PICK u : u = SubSeq(d, 1, Len(a))
  OBVIOUS
<1>5. PICK v : v = SubSeq(d, Len(a) + 1, Len(d))
  OBVIOUS
<1>6. u \in Seq(T) /\ Len(u) = Len(a) /\ \A i \in 1..Len(a) : u[i] = d[i]
  BY <1>2, <1>4
<1>7. /\ v \in Seq(T) /\ Len(v) = Len(d) - Len(a)
      /\ \A i \in 1..Len(v) : v[i] = d[i + Len(a)]
  BY <1>2, <1>5
<1>8. u = a
  <2>1. \A i \in 1..Len(u) : u[i] = a[i]
    BY <1>2, <1>3, <1>6
  <2>2. QED
    BY <1>6, <2>1, SeqEqual
<1>9. IsPrefix(v, b)
  <2>1. Len(v) <= Len(b)
    BY <1>2, <1>3, <1>7
  <2>2. ASSUME NEW i \in 1..Len(v)
        PROVE  v[i] = b[i]
    <3>1. i + Len(a) \in 1..Len(d) /\ i \in 1..Len(b)
      BY <1>2, <1>7, <2>1
    <3>2. QED
      BY <1>2, <1>3, <1>7, <3>1
  <2>3. QED
    BY <1>7, <2>1, <2>2, PrefixIs
<1>10. d = u \o v
  <2>1. Len(a) \in 0..Len(d)
    BY <1>2
  <2>2. QED
    BY <1>4, <1>5, <2>1, SubSeqSplit
<1>11. QED
  BY <1>4, <1>5, <1>7, <1>8, <1>9, <1>10

(* A sequence begins with its first part.                                  *)
LEMMA FirstBegins ==
  ASSUME NEW T, NEW a \in Seq(T), NEW b \in Seq(T)
  PROVE  /\ a \o b \in Seq(T) /\ IsPrefix(a, a \o b)
         /\ SubSeq(a \o b, Len(a) + 1, Len(a \o b)) = b
         /\ Len(a \o b) >= Len(a)
<1>1. PICK ab \in Seq(T) : ab = a \o b
  BY ConcatFacts
<1>2. /\ Len(a) \in Nat /\ Len(b) \in Nat /\ Len(ab) = Len(a) + Len(b)
      /\ \A i \in 1..Len(a) : ab[i] = a[i]
      /\ \A i \in 1..Len(b) : ab[i + Len(a)] = b[i]
  BY <1>1, ConcatFacts
<1>3. IsPrefix(a, ab)
  <2>1. Len(a) <= Len(ab) /\ \A i \in 1..Len(a) : a[i] = ab[i]
    BY <1>2
  <2>2. QED
    BY <2>1, PrefixIs
<1>4. PICK v : v = SubSeq(ab, Len(a) + 1, Len(ab))
  OBVIOUS
<1>5. /\ v \in Seq(T) /\ Len(v) = Len(b)
      /\ \A i \in 1..Len(v) : v[i] = ab[i + Len(a)]
  BY <1>2, <1>4
<1>6. v = b
  BY <1>2, <1>5, SeqEqual
<1>7. QED
  BY <1>1, <1>2, <1>3, <1>4, <1>6

(* The bytes of a field.                                                   *)
LEMMA FieldBytes ==
  ASSUME NEW N, NEW f \in FieldsOf(N)
  PROVE  /\ StoreField(f) \in Seq(BytesOf(N)) /\ Len(StoreField(f)) = f.size
         /\ f.size \in Nat /\ f.size > 0 /\ f.name \in N
         /\ \A i \in 1..f.size : StoreField(f)[i].of = f.name /\ StoreField(f)[i].n = i
<1>1. f.size \in Nat /\ f.size > 0 /\ f.name \in N
  BY DEF FieldsOf
<1>2. PICK s : s = [n \in 1..f.size |-> [of |-> f.name, n |-> n]]
  OBVIOUS
<1>3. s = StoreField(f)
  BY <1>2 DEF StoreField
<1>4. \A n \in 1..f.size : s[n] = [of |-> f.name, n |-> n]
  BY <1>2
<1>5. \A n \in 1..f.size : s[n] \in BytesOf(N) /\ s[n].of = f.name /\ s[n].n = n
  <2>1. ASSUME NEW n \in 1..f.size
        PROVE  s[n] \in BytesOf(N) /\ s[n].of = f.name /\ s[n].n = n
    <3>1. n \in Nat
      BY <1>1
    <3>2. s[n] = [of |-> f.name, n |-> n]
      BY <1>4
    <3>3. QED
      BY <1>1, <3>1, <3>2 DEF BytesOf
  <2>2. QED
    BY <2>1
<1>6. s \in [1..f.size -> BytesOf(N)]
  BY <1>2, <1>5
<1>7. s \in Seq(BytesOf(N)) /\ Len(s) = f.size
  BY <1>1, <1>6
<1>8. QED
  BY <1>1, <1>3, <1>5, <1>7

\* What one more field adds to the bytes.
Stores(fs, N) ==
  /\ StoreAll(fs) \in Seq(BytesOf(N))
  /\ fs = <<>> => StoreAll(fs) = <<>>
  /\ \A f \in FieldsOf(N) : StoreAll(Append(fs, f)) = StoreAll(fs) \o StoreField(f)

(* So store() goes through the fields.                                     *)
LEMMA FieldStoreSteps ==
  ASSUME NEW N, NEW fs \in Seq(FieldsOf(N))
  PROVE  Stores(fs, N)
<1>1. PICK F : F = FieldsOf(N)
  OBVIOUS
<1>2. PICK B : B = BytesOf(N)
  OBVIOUS
<1>3. PICK S : S = Seq(B)
  OBVIOUS
<1>4. ASSUME NEW gs \in Seq(F), NEW ss, ss = [k \in 1..Len(gs) |-> StoreField(gs[k])]
      PROVE  /\ ss \in Seq(S) /\ Len(ss) = Len(gs) /\ StoreAll(gs) = FlattenSeq(ss)
             /\ \A k \in 1..Len(gs) : ss[k] = StoreField(gs[k]) /\ ss[k] \in S
  <2>1. Len(gs) \in Nat /\ \A k \in 1..Len(gs) : gs[k] \in F
    OBVIOUS
  <2>2. \A k \in 1..Len(gs) : StoreField(gs[k]) \in S
    BY <1>1, <1>2, <1>3, <2>1, FieldBytes
  <2>3. ss \in [1..Len(gs) -> S]
    BY <1>4, <2>2
  <2>4. \A k \in 1..Len(gs) : ss[k] = StoreField(gs[k])
    BY <1>4
  <2>5. ss \in Seq(S) /\ Len(ss) = Len(gs)
    BY <2>1, <2>3
  <2>6. QED
    BY <1>4, <2>2, <2>4, <2>5 DEF StoreAll
<1>5. PICK ss : ss = [k \in 1..Len(fs) |-> StoreField(fs[k])]
  OBVIOUS
<1>6. /\ ss \in Seq(S) /\ Len(ss) = Len(fs) /\ StoreAll(fs) = FlattenSeq(ss)
      /\ \A k \in 1..Len(fs) : ss[k] = StoreField(fs[k]) /\ ss[k] \in S
  BY <1>1, <1>4, <1>5
<1>7. FlattensInTurn(ss, B)
  BY <1>3, <1>6, FlattenSteps
<1>8. ASSUME NEW f \in F
      PROVE  StoreAll(Append(fs, f)) = StoreAll(fs) \o StoreField(f)
  <2>1. PICK gs \in Seq(F) : gs = Append(fs, f)
    BY <1>1, AppendFacts
  <2>2. /\ Len(fs) \in Nat /\ Len(gs) = Len(fs) + 1 /\ gs[Len(fs) + 1] = f
        /\ \A k \in 1..Len(fs) : gs[k] = fs[k]
    BY <1>1, <2>1, AppendFacts
  <2>3. PICK ts : ts = [k \in 1..Len(gs) |-> StoreField(gs[k])]
    OBVIOUS
  <2>4. /\ ts \in Seq(S) /\ Len(ts) = Len(gs) /\ StoreAll(gs) = FlattenSeq(ts)
        /\ \A k \in 1..Len(gs) : ts[k] = StoreField(gs[k]) /\ ts[k] \in S
    BY <1>4, <2>3
  <2>5. StoreField(f) \in S
    BY <1>1, <1>2, <1>3, FieldBytes
  <2>6. PICK us \in Seq(S) : us = Append(ss, StoreField(f))
    BY <1>6, <2>5, AppendFacts
  <2>7. /\ Len(us) = Len(ss) + 1 /\ us[Len(ss) + 1] = StoreField(f)
        /\ \A k \in 1..Len(ss) : us[k] = ss[k]
    BY <1>6, <2>5, <2>6, AppendFacts
  <2>8. ts = us
    <3>1. Len(ts) = Len(us)
      BY <1>6, <2>2, <2>4, <2>7
    <3>2. ASSUME NEW k \in 1..Len(ts)
          PROVE  ts[k] = us[k]
      <4>1. CASE k = Len(fs) + 1
        BY <1>6, <2>2, <2>4, <2>7, <4>1
      <4>2. CASE k # Len(fs) + 1
        <5>1. k \in 1..Len(fs)
          BY <2>2, <2>4, <4>2
        <5>2. ts[k] = StoreField(fs[k])
          BY <2>2, <2>4, <5>1
        <5>3. us[k] = StoreField(fs[k])
          BY <1>6, <2>7, <5>1
        <5>4. QED
          BY <5>2, <5>3
      <4>3. QED
        BY <4>1, <4>2
    <3>3. QED
      BY <2>4, <3>1, <3>2, SeqEqual
  <2>9. FlattenSeq(us) = FlattenSeq(ss) \o StoreField(f)
    BY <1>3, <1>7, <2>5, <2>6 DEF FlattensInTurn
  <2>10. QED
    BY <1>6, <2>1, <2>4, <2>8, <2>9
<1>9. StoreAll(fs) \in Seq(B)
  BY <1>6, <1>7 DEF FlattensInTurn
<1>10. fs = <<>> => StoreAll(fs) = <<>>
  <2>1. SUFFICES ASSUME fs = <<>> PROVE StoreAll(fs) = <<>>
    OBVIOUS
  <2>2. Len(ss) = 0
    BY <1>6, <2>1
  <2>3. ss = <<>>
    BY <1>6, <2>2, EmptySeq
  <2>4. QED
    BY <1>6, <1>7, <2>3 DEF FlattensInTurn
<1>11. QED
  BY <1>1, <1>2, <1>8, <1>9, <1>10 DEF Stores

(* The bytes of some fields and then of others.                            *)
LEMMA StoreConcat ==
  ASSUME NEW N, NEW fs \in Seq(FieldsOf(N)), NEW gs \in Seq(FieldsOf(N))
  PROVE  /\ fs \o gs \in Seq(FieldsOf(N))
         /\ StoreAll(fs) \in Seq(BytesOf(N)) /\ StoreAll(gs) \in Seq(BytesOf(N))
         /\ StoreAll(fs \o gs) = StoreAll(fs) \o StoreAll(gs)
<1>1. PICK F : F = FieldsOf(N)
  OBVIOUS
<1>2. PICK B : B = BytesOf(N)
  OBVIOUS
<1>3. \A hs \in Seq(F) : Stores(hs, N) /\ StoreAll(hs) \in Seq(B) /\ fs \o hs \in Seq(F)
  <2>1. TAKE hs \in Seq(F)
  <2>2. Stores(hs, N)
    BY <1>1, FieldStoreSteps
  <2>3. fs \o hs \in Seq(F)
    BY <1>1, ConcatFacts
  <2>4. QED
    BY <1>2, <2>2, <2>3 DEF Stores
<1> DEFINE A == {hs \in Seq(F) : StoreAll(fs \o hs) = StoreAll(fs) \o StoreAll(hs)}
           e == <<>>
<1>4. e \in A
  <2>1. e \in Seq(F) /\ fs \o e = fs
    BY <1>1, ConcatEmptySeq
  <2>2. StoreAll(e) = <<>>
    BY <1>3, <2>1 DEF Stores
  <2>3. StoreAll(fs) \o <<>> = StoreAll(fs)
    BY <1>1, <1>3, ConcatEmptySeq
  <2>4. QED
    BY <2>1, <2>2, <2>3
<1> HIDE DEF e
<1>5. ASSUME NEW s \in Seq(F), NEW x \in F, s \in A
      PROVE  Append(s, x) \in A
  <2>1. PICK t \in Seq(F) : t = Append(s, x)
    BY AppendFacts
  <2>2. fs \o t = Append(fs \o s, x)
    BY <1>1, <2>1, AppendOfConcat
  <2>3. StoreAll(Append(fs \o s, x)) = StoreAll(fs \o s) \o StoreField(x)
    BY <1>1, <1>3 DEF Stores
  <2>4. StoreAll(t) = StoreAll(s) \o StoreField(x)
    BY <1>1, <1>3, <2>1 DEF Stores
  <2>5. StoreField(x) \in Seq(B) /\ StoreAll(s) \in Seq(B) /\ StoreAll(fs) \in Seq(B)
    BY <1>1, <1>2, <1>3, FieldBytes
  <2>6. (StoreAll(fs) \o StoreAll(s)) \o StoreField(x) = StoreAll(fs) \o (StoreAll(s) \o StoreField(x))
    <3>1. PICK p \in Seq(B) : p = StoreAll(fs)
      BY <2>5
    <3>2. PICK q \in Seq(B) : q = StoreAll(s)
      BY <2>5
    <3>3. PICK r \in Seq(B) : r = StoreField(x)
      BY <2>5
    <3>4. AssociativeOn(Seq(B))
      BY ThreeParts
    <3>5. (p \o q) \o r = p \o (q \o r)
      BY <3>4, Zenon DEF AssociativeOn
    <3>6. QED
      BY <3>1, <3>2, <3>3, <3>5
  <2>7. StoreAll(fs \o s) = StoreAll(fs) \o StoreAll(s)
    BY <1>5
  <2>8. StoreAll(fs \o t) = StoreAll(fs) \o StoreAll(t)
    BY <2>2, <2>3, <2>4, <2>6, <2>7
  <2>9. QED
    BY <2>1, <2>8
<1>6. Seq(F) \subseteq A
  <2> HIDE DEF A
  <2>1. e \in A /\ \A s \in Seq(F) : \A x \in F : s \in A => Append(s, x) \in A
    BY <1>4, <1>5
  <2>2. QED
    BY <2>1, GrowingSeqs DEF e
<1>7. QED
  BY <1>1, <1>2, <1>3, <1>6

(* One field is stored as its bytes.                                       *)
LEMMA StoreOne ==
  ASSUME NEW N, NEW f \in FieldsOf(N)
  PROVE  <<f>> \in Seq(FieldsOf(N)) /\ StoreAll(<<f>>) = StoreField(f)
<1> DEFINE e == <<>>
<1>1. e \in Seq(FieldsOf(N)) /\ Append(e, f) = <<f>> /\ <<f>> \in Seq(FieldsOf(N))
  OBVIOUS
<1>2. StoreField(f) \in Seq(BytesOf(N)) /\ e \o StoreField(f) = StoreField(f)
  BY FieldBytes, ConcatEmptySeq
<1> HIDE DEF e
<1>3. Stores(e, N)
  BY <1>1, FieldStoreSteps
<1>4. StoreAll(Append(e, f)) = StoreAll(e) \o StoreField(f)
  BY <1>3 DEF Stores
<1>5. StoreAll(e) = e
  BY <1>3 DEF Stores, e
<1>6. QED
  BY <1>1, <1>2, <1>4, <1>5

\* What is before a field, the field, and what is after it.
FieldsBefore(fs, k) == SubSeq(fs, 1, k - 1)
FieldsBehind(fs, k) == SubSeq(fs, k + 1, Len(fs))

(* The bytes of a field are between those of the others.                   *)
LEMMA StoreAt ==
  ASSUME NEW N, NEW fs \in Seq(FieldsOf(N)), NEW k \in 1..Len(fs)
  PROVE  /\ FieldsBefore(fs, k) \in Seq(FieldsOf(N)) /\ FieldsBehind(fs, k) \in Seq(FieldsOf(N))
         /\ fs[k] \in FieldsOf(N)
         /\ SubSeq(fs, 1, k) \in Seq(FieldsOf(N))
         /\ StoreAll(SubSeq(fs, 1, k)) = StoreAll(FieldsBefore(fs, k)) \o StoreField(fs[k])
         /\ StoreAll(fs) = (StoreAll(FieldsBefore(fs, k)) \o StoreField(fs[k])) \o StoreAll(FieldsBehind(fs, k))
<1>1. PICK F : F = FieldsOf(N)
  OBVIOUS
<1>2. Len(fs) \in Nat /\ k \in Nat /\ k - 1 \in Nat /\ k \in 0..Len(fs) /\ fs[k] \in F /\ fs \in Seq(F)
  BY <1>1
<1>3. PICK a : a = SubSeq(fs, 1, k - 1)
  OBVIOUS
<1>4. PICK b : b = SubSeq(fs, 1, k)
  OBVIOUS
<1>5. PICK c : c = SubSeq(fs, k + 1, Len(fs))
  OBVIOUS
<1>6. a \in Seq(F) /\ b \in Seq(F) /\ c \in Seq(F)
  BY <1>2, <1>3, <1>4, <1>5
<1>7. b = Append(a, fs[k])
  BY <1>2, <1>3, <1>4, SubSeqAppended
<1>8. fs = b \o c
  BY <1>2, <1>4, <1>5, SubSeqSplit
<1>9. StoreAll(b) = StoreAll(a) \o StoreField(fs[k])
  BY <1>1, <1>2, <1>6, <1>7, FieldStoreSteps DEF Stores
<1>10. StoreAll(fs) = StoreAll(b) \o StoreAll(c)
  BY <1>1, <1>6, <1>8, StoreConcat
<1>11. QED
  BY <1>1, <1>2, <1>3, <1>4, <1>5, <1>6, <1>9, <1>10 DEF FieldsBefore, FieldsBehind

\* The fields a byte may belong to.
NamesIn(fs) == {f.name : f \in Range(fs)}
StoredNames(fs, N) == {b.of : b \in Range(StoreAll(fs))} = NamesIn(fs)

(* They are those whose bytes are stored.                                  *)
LEMMA StoreNames ==
  ASSUME NEW N, NEW fs \in Seq(FieldsOf(N))
  PROVE  StoredNames(fs, N)
<1>1. PICK F : F = FieldsOf(N)
  OBVIOUS
<1>2. PICK B : B = BytesOf(N)
  OBVIOUS
<1> DEFINE A == {hs \in Seq(F) : StoredNames(hs, N)}
           e == <<>>
<1>3. e \in A
  <2>1. e \in Seq(F) /\ Range(e) = {} /\ e \in Seq(B)
    <3>1. \A s \in Seq(F) : s = <<>> => Range(s) = {}
      BY RangeIs
    <3>2. e \in Seq(F) /\ e \in Seq(B)
      OBVIOUS
    <3>3. QED
      BY <3>1, <3>2
  <2>2. StoreAll(e) = e
    BY <1>1, <2>1, FieldStoreSteps DEF Stores
  <2>3. StoredNames(e, N)
    BY <2>1, <2>2 DEF StoredNames, NamesIn
  <2>4. QED
    BY <2>1, <2>3
<1>4. ASSUME NEW s \in Seq(F), NEW x \in F, s \in A
      PROVE  Append(s, x) \in A
  <2>1. PICK t \in Seq(F) : t = Append(s, x)
    BY AppendFacts
  <2>2. Range(t) = Range(s) \cup {x}
    BY <2>1, RangeAppend
  <2>3. StoreAll(s) \in Seq(B) /\ StoreAll(t) = StoreAll(s) \o StoreField(x)
    BY <1>1, <1>2, <2>1, FieldStoreSteps DEF Stores
  <2>4. StoreField(x) \in Seq(B)
    BY <1>1, <1>2, FieldBytes
  <2>5. Range(StoreAll(t)) = Range(StoreAll(s)) \cup Range(StoreField(x))
    BY <2>3, <2>4, RangeConcat
  <2>6. {b.of : b \in Range(StoreField(x))} = {x.name}
    <3>1. /\ Len(StoreField(x)) = x.size /\ x.size \in Nat /\ x.size > 0
          /\ \A i \in 1..x.size : StoreField(x)[i].of = x.name
      BY <1>1, FieldBytes
    <3>2. \A b : b \in Range(StoreField(x)) <=> \E i \in 1..x.size : b = StoreField(x)[i]
      BY <2>4, <3>1, RangeIs
    <3>3. 1 \in 1..x.size
      BY <3>1
    <3>4. QED
      BY <3>1, <3>2, <3>3
  <2>7. StoredNames(s, N)
    BY <1>4
  <2>8. StoredNames(t, N)
    <3>1. PICK P : P = Range(StoreAll(s))
      OBVIOUS
    <3>2. PICK Q : Q = Range(StoreField(x))
      OBVIOUS
    <3>3. {b.of : b \in P} = {f.name : f \in Range(s)}
      BY <2>7, <3>1 DEF StoredNames, NamesIn
    <3>4. {b.of : b \in Q} = {x.name}
      BY <2>6, <3>2
    <3>5. {b.of : b \in P \cup Q} = {b.of : b \in P} \cup {b.of : b \in Q}
      OBVIOUS
    <3>6. {f.name : f \in Range(s) \cup {x}} = {f.name : f \in Range(s)} \cup {x.name}
      OBVIOUS
    <3>7. QED
      BY <2>2, <2>5, <3>1, <3>2, <3>3, <3>4, <3>5, <3>6 DEF StoredNames, NamesIn
  <2>9. QED
    BY <2>1, <2>8
<1>5. Seq(F) \subseteq A
  <2> HIDE DEF A
  <2>1. QED
    BY <1>3, <1>4, GrowingSeqs
<1>6. QED
  BY <1>1, <1>5

\* No element twice.
Injective(s) == \A i, j \in 1..Len(s) : s[i] = s[j] => i = j

(* Two parts that have no element twice, and none in common.               *)
LEMMA ConcatInjective ==
  ASSUME NEW T, NEW s \in Seq(T), NEW t \in Seq(T), Injective(s), Injective(t),
         Range(s) \cap Range(t) = {}
  PROVE  Injective(s \o t)
<1>1. PICK u \in Seq(T) : u = s \o t
  BY ConcatFacts
<1>2. /\ Len(u) = Len(s) + Len(t) /\ Len(s) \in Nat /\ Len(t) \in Nat
      /\ \A i \in 1..Len(s) : u[i] = s[i]
      /\ \A i \in 1..Len(t) : u[i + Len(s)] = t[i]
  BY <1>1, ConcatFacts
<1>3. \A i \in 1..Len(s), j \in 1..Len(t) : s[i] # t[j]
  <2>1. TAKE i \in 1..Len(s), j \in 1..Len(t)
  <2>2. s[i] \in Range(s) /\ t[j] \in Range(t)
    BY RangeIs
  <2>3. QED
    BY <2>2
<1>4. ASSUME NEW i \in 1..Len(u), i \notin 1..Len(s)
      PROVE  i - Len(s) \in 1..Len(t) /\ u[i] = t[i - Len(s)]
  <2>1. i - Len(s) \in 1..Len(t) /\ (i - Len(s)) + Len(s) = i
    BY <1>2, <1>4
  <2>2. QED
    BY <1>2, <2>1
<1>5. ASSUME NEW i \in 1..Len(u), NEW j \in 1..Len(u), u[i] = u[j]
      PROVE  i = j
  <2>1. CASE i \in 1..Len(s) /\ j \in 1..Len(s)
    BY <1>2, <1>5, <2>1 DEF Injective
  <2>2. CASE i \notin 1..Len(s) /\ j \notin 1..Len(s)
    <3>1. i - Len(s) = j - Len(s)
      BY <1>4, <1>5, <2>2 DEF Injective
    <3>2. QED
      BY <1>2, <3>1
  <2>3. CASE i \in 1..Len(s) /\ j \notin 1..Len(s)
    <3>1. j - Len(s) \in 1..Len(t) /\ u[j] = t[j - Len(s)]
      BY <1>4, <2>3
    <3>2. u[i] = s[i]
      BY <1>2, <2>3
    <3>3. s[i] # t[j - Len(s)]
      BY <1>3, <2>3, <3>1
    <3>4. QED
      BY <1>5, <3>1, <3>2, <3>3
  <2>4. CASE i \notin 1..Len(s) /\ j \in 1..Len(s)
    <3>1. i - Len(s) \in 1..Len(t) /\ u[i] = t[i - Len(s)]
      BY <1>4, <2>4
    <3>2. u[j] = s[j]
      BY <1>2, <2>4
    <3>3. s[j] # t[i - Len(s)]
      BY <1>3, <2>4, <3>1
    <3>4. QED
      BY <1>5, <3>1, <3>2, <3>3
  <2>5. QED
    BY <2>1, <2>2, <2>3, <2>4
<1>6. QED
  BY <1>1, <1>5 DEF Injective

(* Fields that are named once have no byte twice.                          *)
LEMMA StoreInjective ==
  ASSUME NEW N, NEW fs \in Seq(FieldsOf(N)), DistinctNames(fs)
  PROVE  Injective(StoreAll(fs))
<1>1. PICK F : F = FieldsOf(N)
  OBVIOUS
<1>2. PICK B : B = BytesOf(N)
  OBVIOUS
<1> DEFINE A == {hs \in Seq(F) : DistinctNames(hs) => Injective(StoreAll(hs))}
           e == <<>>
<1>3. e \in A
  <2>1. e \in Seq(F) /\ Injective(e)
    BY DEF Injective
  <2>2. StoreAll(e) = e
    BY <1>1, <2>1, FieldStoreSteps DEF Stores
  <2>3. QED
    BY <2>1, <2>2
<1>4. ASSUME NEW s \in Seq(F), NEW x \in F, s \in A
      PROVE  Append(s, x) \in A
  <2>1. PICK t \in Seq(F) : t = Append(s, x)
    BY AppendFacts
  <2>2. SUFFICES ASSUME DistinctNames(t) PROVE Injective(StoreAll(t))
    BY <2>1
  <2>3. /\ Len(s) \in Nat /\ Len(t) = Len(s) + 1 /\ t[Len(s) + 1] = x
        /\ \A i \in 1..Len(s) : t[i] = s[i]
    BY <2>1, AppendFacts
  <2>4. \A i \in 1..Len(s) : s[i].name # x.name
    <3>1. TAKE i \in 1..Len(s)
    <3>2. i \in 1..Len(t) /\ Len(s) + 1 \in 1..Len(t) /\ i # Len(s) + 1
      BY <2>3
    <3>3. QED
      BY <2>2, <2>3, <3>2 DEF DistinctNames
  <2>5. DistinctNames(s)
    <3>1. \A i \in 1..Len(s) : i \in 1..Len(t)
      BY <2>3
    <3>2. QED
      BY <2>2, <2>3, <3>1 DEF DistinctNames
  <2>6. StoreAll(s) \in Seq(B) /\ StoreAll(t) = StoreAll(s) \o StoreField(x)
    BY <1>1, <1>2, <2>1, FieldStoreSteps DEF Stores
  <2>7. /\ StoreField(x) \in Seq(B) /\ Len(StoreField(x)) = x.size
        /\ \A i \in 1..x.size : StoreField(x)[i].of = x.name /\ StoreField(x)[i].n = i
    BY <1>1, <1>2, FieldBytes
  <2>8. Injective(StoreField(x))
    BY <2>7 DEF Injective
  <2>9. Injective(StoreAll(s))
    BY <1>4, <2>5
  <2>10. Range(StoreAll(s)) \cap Range(StoreField(x)) = {}
    <3>1. SUFFICES ASSUME NEW b \in Range(StoreAll(s)), b \in Range(StoreField(x))
                   PROVE  FALSE
      OBVIOUS
    <3>2. b.of = x.name
      <4>1. PICK i \in 1..Len(StoreField(x)) : b = StoreField(x)[i]
        BY <2>7, <3>1, RangeIs
      <4>2. QED
        BY <2>7, <4>1
    <3>3. b.of \in NamesIn(s)
      BY <1>1, StoreNames DEF StoredNames
    <3>4. PICK f \in Range(s) : b.of = f.name
      BY <3>3 DEF NamesIn
    <3>5. PICK i \in 1..Len(s) : f = s[i]
      BY RangeIs
    <3>6. QED
      BY <2>4, <3>2, <3>4, <3>5
  <2>11. QED
    BY <2>6, <2>7, <2>8, <2>9, <2>10, ConcatInjective
<1>5. Seq(F) \subseteq A
  <2> HIDE DEF A
  <2>1. QED
    BY <1>3, <1>4, GrowingSeqs
<1>6. QED
  BY <1>1, <1>5

(* Bytes that a protobuf parser takes end where a field does.              *)
LEMMA ParsedFields ==
  ASSUME NEW N, NEW fs \in Seq(FieldsOf(N)), DistinctNames(fs), NEW d \in Seq(BytesOf(N)),
         IsPrefix(d, StoreAll(fs)), Parses(d, fs)
  PROVE  \E k \in 0..Len(fs) : d = StoreAll(SubSeq(fs, 1, k))
<1>1. PICK B : B = BytesOf(N)
  OBVIOUS
<1>2. PICK w \in Seq(B) : w = StoreAll(fs)
  BY <1>1, FieldStoreSteps DEF Stores
<1>3. Len(fs) \in Nat
  OBVIOUS
<1>4. CASE d = <<>>
  <2>1. PICK hs : hs = SubSeq(fs, 1, 0)
    OBVIOUS
  <2>2. hs = <<>>
    BY <2>1, SubSeqEmpty
  <2>3. hs \in Seq(FieldsOf(N))
    BY <2>2
  <2>4. StoreAll(hs) = d
    BY <1>4, <2>2, <2>3, FieldStoreSteps DEF Stores
  <2>5. 0 \in 0..Len(fs)
    BY <1>3
  <2>6. QED
    BY <2>1, <2>4, <2>5
<1>5. CASE d # <<>>
  <2>1. PICK k \in 1..Len(fs) : Last(d) = [of |-> fs[k].name, n |-> fs[k].size]
    BY <1>5 DEF Parses
  <2>2. /\ Len(d) \in Nat /\ Len(d) > 0 /\ Len(d) \in 1..Len(d)
    BY <1>5
  <2>3. d[Len(d)].of = fs[k].name /\ d[Len(d)].n = fs[k].size
    BY <2>1 DEF Last
  <2>4. PICK a \in Seq(B) : a = StoreAll(FieldsBefore(fs, k))
    BY <1>1, StoreAt, FieldStoreSteps DEF Stores
  <2>5. PICK s \in Seq(B) : s = StoreField(fs[k])
    BY <1>1, FieldBytes
  <2>6. PICK c \in Seq(B) : c = StoreAll(FieldsBehind(fs, k))
    BY <1>1, StoreAt, FieldStoreSteps DEF Stores
  <2>7. PICK p \in Seq(B) : p = a \o s
    BY ConcatFacts
  <2>8. StoreAll(SubSeq(fs, 1, k)) = p /\ w = p \o c
    BY <1>2, <2>4, <2>5, <2>6, <2>7, StoreAt
  <2>19. Len(s) \in Nat /\ Len(s) > 0
    <3>1. fs[k] \in FieldsOf(N)
      BY StoreAt
    <3>2. QED
      BY <2>5, <3>1, FieldBytes
  <2>9. /\ Len(s) = fs[k].size /\ Len(s) \in Nat /\ Len(s) > 0
        /\ s[Len(s)] = [of |-> fs[k].name, n |-> fs[k].size]
    <3>1. fs[k] \in FieldsOf(N)
      BY StoreAt
    <3>2. /\ Len(s) = fs[k].size /\ Len(s) \in Nat /\ Len(s) > 0
          /\ s[Len(s)].of = fs[k].name /\ s[Len(s)].n = fs[k].size
      <4>1. /\ Len(s) = fs[k].size /\ fs[k].size \in Nat /\ fs[k].size > 0
            /\ \A i \in 1..fs[k].size : s[i].of = fs[k].name /\ s[i].n = i
        BY <2>5, <3>1, FieldBytes
      <4>2. fs[k].size \in 1..fs[k].size
        BY <4>1
      <4>3. QED
        BY <4>1, <4>2
    <3>3. s[Len(s)] \in B
      BY <3>2
    <3>4. s[Len(s)] = [of |-> s[Len(s)].of, n |-> s[Len(s)].n]
      BY <1>1, <3>3 DEF BytesOf
    <3>5. QED
      BY <3>2, <3>4
  <2>10. Len(a) \in Nat /\ Len(c) \in Nat /\ Len(p) = Len(a) + Len(s) /\ Len(w) = Len(p) + Len(c)
    BY <2>7, <2>8, ConcatFacts
  <2>11. Len(p) \in 1..Len(w) /\ w[Len(p)] = [of |-> fs[k].name, n |-> fs[k].size]
    <3>1. Len(p) \in 1..Len(p) /\ Len(p) \in 1..Len(w) /\ Len(s) \in 1..Len(s) /\ Len(p) = Len(s) + Len(a)
      BY <2>10, <2>19
    <3>2. w[Len(p)] = p[Len(p)]
      BY <2>8, <3>1, ConcatFacts
    <3>3. p[Len(s) + Len(a)] = s[Len(s)]
      BY <2>7, <3>1, ConcatFacts
    <3>4. QED
      BY <2>9, <3>1, <3>2, <3>3
  <2>12. IsPrefix(d, w) /\ d \in Seq(B)
    BY <1>1, <1>2
  <2>13. Len(d) <= Len(w) /\ \A i \in 1..Len(d) : d[i] = w[i]
    BY <2>12, PrefixIs
  <2>14. w[Len(d)] = w[Len(p)]
    BY <2>1, <2>2, <2>11, <2>13 DEF Last
  <2>15. Len(d) = Len(p)
    <3>1. Injective(w)
      BY <1>2, StoreInjective
    <3>2. Len(d) \in 1..Len(w)
      BY <2>2, <2>10, <2>13
    <3>3. QED
      BY <2>11, <2>14, <3>1, <3>2 DEF Injective
  <2>16. d = p
    <3>1. \A i \in 1..Len(p) : w[i] = p[i]
      BY <2>8, ConcatFacts
    <3>2. \A i \in 1..Len(d) : d[i] = p[i]
      BY <2>13, <2>15, <3>1
    <3>3. QED
      BY <2>12, <2>15, <3>2, SeqEqual
  <2>17. k \in 0..Len(fs)
    BY <1>3
  <2>18. QED
    BY <2>8, <2>16, <2>17
<1>6. QED
  BY <1>4, <1>5

\* r has the bytes of the fields in G, and nothing else.
ReadsFields(r, G) == DOMAIN r = {g.name : g \in G} /\ \A g \in G : r[g.name] = StoreField(g)

(* Where a field begins.                                                   *)
LEMMA OffsetIs ==
  ASSUME NEW N, NEW fs \in Seq(FieldsOf(N)), NEW k \in 1..Len(fs)
  PROVE  Offset(fs, k) = Len(StoreAll(FieldsBefore(fs, k)))
<1>1. CASE k = 1
  <2>1. PICK b \in Seq(FieldsOf(N)) : b = FieldsBefore(fs, k)
    BY StoreAt
  <2>2. b = <<>>
    BY <1>1, <2>1, SubSeqEmpty DEF FieldsBefore
  <2>3. StoreAll(b) = <<>>
    BY <2>2, FieldStoreSteps DEF Stores
  <2>4. Len(StoreAll(b)) = 0
    BY <2>3
  <2>5. QED
    BY <1>1, <2>1, <2>4 DEF Offset
<1>2. CASE k # 1
  BY <1>2 DEF Offset, FieldsBefore
<1>3. QED
  BY <1>1, <1>2

\* The data begins with a.
DataBegins(a, rest) == msgData = a \o rest

(* get() takes the bytes of each field.                                    *)
LEMMA GetFieldsIs ==
  ASSUME NEW N, NEW fs \in Seq(FieldsOf(N)), DistinctNames(fs), NEW rest \in Seq(BytesOf(N)),
         DataBegins(StoreAll(fs), rest)
  PROVE  ReadsFields(GetFields(fs), Range(fs))
<1>1. PICK B : B = BytesOf(N)
  OBVIOUS
<1> DEFINE Associates(x, y, z) == (x \o y) \o z = x \o (y \o z)
<1>10. \A x, y, z \in Seq(B) : Associates(x, y, z)
  <2>1. AssociativeOn(Seq(B))
    BY ThreeParts
  <2>2. QED
    BY <2>1, Zenon DEF AssociativeOn
<1> HIDE DEF Associates
<1>2. PICK r : r = GetFields(fs)
  OBVIOUS
<1>3. DOMAIN r = {fs[k].name : k \in 1..Len(fs)}
  BY <1>2 DEF GetFields
<1>4. ASSUME NEW k \in 1..Len(fs)
      PROVE  r[fs[k].name] = StoreField(fs[k])
  <2> DEFINE j == CHOOSE i \in 1..Len(fs) : fs[i].name = fs[k].name
  <2>1. j = k
    <3>1. j \in 1..Len(fs) /\ fs[j].name = fs[k].name
      OBVIOUS
    <3> HIDE DEF j
    <3>2. QED
      BY <3>1 DEF DistinctNames
  <2>2. r[fs[k].name] = SubSeq(msgData, Offset(fs, j) + 1, Offset(fs, j) + fs[j].size)
    BY <1>2 DEF GetFields
  <2> HIDE DEF j
  <2>3. PICK a \in Seq(B) : a = StoreAll(FieldsBefore(fs, k))
    BY <1>1, StoreAt, FieldStoreSteps DEF Stores
  <2>4. PICK s \in Seq(B) : s = StoreField(fs[k])
    BY <1>1, StoreAt, FieldBytes
  <2>5. PICK c \in Seq(B) : c = StoreAll(FieldsBehind(fs, k))
    BY <1>1, StoreAt, FieldStoreSteps DEF Stores
  <2>6. PICK ahead \in Seq(B) : ahead = a \o s
    BY ConcatFacts
  <2>7. StoreAll(fs) = ahead \o c
    BY <2>3, <2>4, <2>5, <2>6, StoreAt
  <2>8. PICK t \in Seq(B) : t = c \o rest
    BY <1>1, ConcatFacts
  <2>9. msgData = ahead \o t
    <3>1. PICK q \in Seq(B) : q = rest
      BY <1>1
    <3>2. Associates(ahead, c, q)
      BY <1>10
    <3>3. msgData = (ahead \o c) \o rest
      BY <2>7, Zenon DEF DataBegins
    <3>4. QED
      BY <2>8, <3>1, <3>2, <3>3, Zenon DEF Associates
  <2>10. SubSeq(msgData, Len(a) + 1, Len(a) + Len(s)) = s
    BY <2>6, <2>9, MiddlePart
  <2>11. Len(s) = fs[k].size
    <3>1. fs[k] \in FieldsOf(N)
      BY StoreAt
    <3>2. QED
      BY <2>4, <3>1, FieldBytes
  <2>12. Offset(fs, k) = Len(a)
    BY <2>3, OffsetIs
  <2>13. QED
    BY <2>1, <2>2, <2>4, <2>10, <2>11, <2>12
<1>5. \A g : g \in Range(fs) <=> \E k \in 1..Len(fs) : g = fs[k]
  BY RangeIs
<1>6. {fs[k].name : k \in 1..Len(fs)} = {g.name : g \in Range(fs)}
  BY <1>5
<1>7. \A g \in Range(fs) : r[g.name] = StoreField(g)
  BY <1>4, <1>5
<1>8. DOMAIN r = {g.name : g \in Range(fs)}
  BY <1>3, <1>6
<1>9. QED
  BY <1>2, <1>7, <1>8 DEF ReadsFields

(* A protobuf parser finds the bytes of each field.                        *)
LEMMA ParseProtoIs ==
  ASSUME NEW N, NEW fs \in Seq(FieldsOf(N)), DistinctNames(fs)
  PROVE  ReadsFields(ParseProto(StoreAll(fs)), Range(fs))
<1>1. PICK B : B = BytesOf(N)
  OBVIOUS
<1>2. PICK w \in Seq(B) : w = StoreAll(fs)
  BY <1>1, FieldStoreSteps DEF Stores
<1>3. PICK r : r = ParseProto(w)
  OBVIOUS
<1>4. DOMAIN r = {g.name : g \in Range(fs)}
  <2>1. \A b : b \in Range(w) <=> \E i \in 1..Len(w) : b = w[i]
    BY RangeIs
  <2>2. {w[k].of : k \in 1..Len(w)} = {b.of : b \in Range(w)}
    BY <2>1
  <2>3. {b.of : b \in Range(w)} = {g.name : g \in Range(fs)}
    BY <1>2, StoreNames DEF StoredNames, NamesIn
  <2>4. DOMAIN r = {w[k].of : k \in 1..Len(w)}
    BY <1>3 DEF ParseProto
  <2>5. QED
    BY <2>2, <2>3, <2>4
<1>5. ASSUME NEW k \in 1..Len(fs)
      PROVE  r[fs[k].name] = StoreField(fs[k])
  <2>1. PICK a \in Seq(B) : a = StoreAll(FieldsBefore(fs, k))
    BY <1>1, StoreAt, FieldStoreSteps DEF Stores
  <2>2. PICK s \in Seq(B) : s = StoreField(fs[k])
    BY <1>1, StoreAt, FieldBytes
  <2>3. PICK c \in Seq(B) : c = StoreAll(FieldsBehind(fs, k))
    BY <1>1, StoreAt, FieldStoreSteps DEF Stores
  <2>4. PICK ahead \in Seq(B) : ahead = a \o s
    BY ConcatFacts
  <2>5. w = ahead \o c
    BY <1>2, <2>1, <2>2, <2>3, <2>4, StoreAt
  <2>6. PICK S : S = {b \in Range(w) : b.of = fs[k].name}
    OBVIOUS
  <2>7. r[fs[k].name] = Kept(w, S)
    <3>1. fs[k] \in Range(fs)
      BY RangeIs
    <3>2. fs[k].name \in DOMAIN r
      BY <1>4, <3>1
    <3>3. QED
      BY <1>3, <2>6, <3>2 DEF ParseProto
  <2>8. Range(w) = (Range(a) \cup Range(s)) \cup Range(c)
    <3>1. Range(ahead \o c) = Range(ahead) \cup Range(c)
      BY RangeConcat
    <3>2. Range(a \o s) = Range(a) \cup Range(s)
      BY RangeConcat
    <3>3. QED
      BY <2>4, <2>5, <3>1, <3>2
  <2>9. Range(s) \subseteq S
    <3>1. fs[k] \in FieldsOf(N)
      BY StoreAt
    <3>2. /\ Len(s) = fs[k].size
          /\ \A i \in 1..fs[k].size : s[i].of = fs[k].name
      BY <2>2, <3>1, FieldBytes
    <3>3. \A b \in Range(s) : b.of = fs[k].name
      <4>1. SUFFICES ASSUME NEW b \in Range(s) PROVE b.of = fs[k].name
        OBVIOUS
      <4>2. PICK i \in 1..Len(s) : b = s[i]
        BY RangeIs
      <4>3. i \in 1..fs[k].size
        BY <3>2, <4>2
      <4>4. QED
        BY <3>2, <4>2, <4>3
    <3>4. QED
      BY <2>6, <2>8, <3>3
  <2>10. ASSUME NEW hs \in Seq(FieldsOf(N)), \A i \in 1..Len(hs) : hs[i].name # fs[k].name
         PROVE  Range(StoreAll(hs)) \cap S = {}
    <3>1. SUFFICES ASSUME NEW b \in Range(StoreAll(hs)), b \in S
                   PROVE  FALSE
      OBVIOUS
    <3>2. b.of = fs[k].name
      BY <2>6, <3>1
    <3>3. b.of \in NamesIn(hs)
      BY StoreNames DEF StoredNames
    <3>4. PICK f \in Range(hs) : b.of = f.name
      BY <3>3 DEF NamesIn
    <3>5. PICK i \in 1..Len(hs) : f = hs[i]
      BY RangeIs
    <3>6. QED
      BY <2>10, <3>2, <3>4, <3>5
  <2>11. Len(fs) \in Nat /\ k \in Nat /\ k >= 1 /\ k <= Len(fs)
    OBVIOUS
  <2>12. Range(a) \cap S = {}
    <3>1. PICK hs \in Seq(FieldsOf(N)) : hs = FieldsBefore(fs, k)
      BY StoreAt
    <3>2. Len(hs) = k - 1 /\ \A i \in 1..Len(hs) : hs[i] = fs[i]
      BY <2>11, <3>1 DEF FieldsBefore
    <3>3. \A i \in 1..Len(hs) : i \in 1..Len(fs) /\ i # k
      BY <2>11, <3>2
    <3>4. \A i \in 1..Len(hs) : hs[i].name # fs[k].name
      BY <3>2, <3>3 DEF DistinctNames
    <3>5. QED
      BY <2>1, <2>10, <3>1, <3>4
  <2>13. Range(c) \cap S = {}
    <3>1. PICK hs \in Seq(FieldsOf(N)) : hs = FieldsBehind(fs, k)
      BY StoreAt
    <3>2. Len(hs) = Len(fs) - k /\ \A i \in 1..Len(hs) : hs[i] = fs[i + k]
      BY <2>11, <3>1 DEF FieldsBehind
    <3>3. \A i \in 1..Len(hs) : i + k \in 1..Len(fs) /\ i + k # k
      BY <2>11, <3>2
    <3>4. \A i \in 1..Len(hs) : hs[i].name # fs[k].name
      BY <3>2, <3>3 DEF DistinctNames
    <3>5. QED
      BY <2>3, <2>10, <3>1, <3>4
  <2>14. Kept(w, S) = Kept(ahead, S)
    <3>1. \A b, t \in Seq(B) : Range(b) \cap S = {} => Kept(t \o b, S) = Kept(t, S)
      BY KeptBetween
    <3>2. Kept(ahead \o c, S) = Kept(ahead, S)
      BY <2>13, <3>1, Zenon
    <3>3. QED
      BY <2>5, <3>2
  <2>15. Kept(ahead, S) = Kept(s, S)
    <3>1. Kept(a \o s, S) = Kept(s, S)
      BY <2>12, KeptBetween
    <3>2. QED
      BY <2>4, <3>1
  <2>16. Kept(s, S) = s
    BY <2>9, KeptAll
  <2>17. QED
    BY <2>2, <2>7, <2>14, <2>15, <2>16
<1>6. \A g : g \in Range(fs) <=> \E k \in 1..Len(fs) : g = fs[k]
  BY RangeIs
<1>7. QED
  BY <1>2, <1>3, <1>4, <1>5, <1>6 DEF ReadsFields

(* What is read now is added to what was read before.                      *)
LEMMA TakenReads ==
  ASSUME NEW G, NEW H, NEW new, ReadsFields(fields, G), ReadsFields(new, H),
         \A g \in G, h \in H : g.name # h.name
  PROVE  ReadsFields(Taken(new), G \cup H)
<1>1. PICK r : r = Taken(new)
  OBVIOUS
<1>2. DOMAIN r = {g.name : g \in G \cup H}
  <2>1. DOMAIN r = DOMAIN fields \cup DOMAIN new
    BY <1>1 DEF Taken
  <2>2. {g.name : g \in G \cup H} = {g.name : g \in G} \cup {g.name : g \in H}
    OBVIOUS
  <2>3. QED
    BY <2>1, <2>2 DEF ReadsFields
<1>3. ASSUME NEW g \in G
      PROVE  r[g.name] = StoreField(g)
  <2>1. g.name \notin DOMAIN new /\ g.name \in DOMAIN fields
    BY DEF ReadsFields
  <2>2. r[g.name] = fields[g.name]
    BY <1>1, <2>1 DEF Taken
  <2>3. QED
    BY <2>2 DEF ReadsFields
<1>4. ASSUME NEW h \in H
      PROVE  r[h.name] = StoreField(h)
  <2>1. h.name \in DOMAIN new
    BY DEF ReadsFields
  <2>2. r[h.name] = new[h.name]
    BY <1>1, <2>1 DEF Taken
  <2>3. QED
    BY <2>2 DEF ReadsFields
<1>5. QED
  BY <1>1, <1>2, <1>3, <1>4 DEF ReadsFields

\* The last field of fs is one of gs.
EndsIn(fs, gs) == fs # <<>> => \E k \in 1..Len(gs) : gs[k] = fs[Len(fs)]

(* Bytes that end with a field can be parsed.                              *)
LEMMA StoredParses ==
  ASSUME NEW N, NEW fs \in Seq(FieldsOf(N)), NEW gs, EndsIn(fs, gs)
  PROVE  Parses(StoreAll(fs), gs)
<1>1. PICK B : B = BytesOf(N)
  OBVIOUS
<1>2. PICK w \in Seq(B) : w = StoreAll(fs)
  BY <1>1, FieldStoreSteps DEF Stores
<1>3. CASE fs = <<>>
  <2>1. w = <<>>
    BY <1>2, <1>3, FieldStoreSteps DEF Stores
  <2>2. QED
    BY <1>2, <2>1 DEF Parses
<1>4. CASE fs # <<>>
  <2>1. PICK k \in 1..Len(gs) : gs[k] = fs[Len(fs)]
    BY <1>4 DEF EndsIn
  <2>2. PICK n : n = Len(fs)
    OBVIOUS
  <2>3. n \in 1..Len(fs) /\ n \in Nat /\ n + 1 > Len(fs)
    BY <1>4, <2>2
  <2>4. PICK a \in Seq(B) : a = StoreAll(FieldsBefore(fs, n))
    BY <1>1, <2>3, StoreAt, FieldStoreSteps DEF Stores
  <2>5. fs[n] \in FieldsOf(N)
    BY <2>3, StoreAt
  <2>6. PICK s \in Seq(B) : s = StoreField(fs[n])
    BY <1>1, <2>5, FieldBytes
  <2>7. Len(s) = fs[n].size /\ Len(s) \in Nat /\ Len(s) > 0
    BY <2>5, <2>6, FieldBytes
  <2>8. s[Len(s)] = [of |-> fs[n].name, n |-> fs[n].size]
    <3>1. Len(s) \in 1..Len(s)
      BY <2>7
    <3>2. s[Len(s)] \in B
      BY <3>1
    <3>3. s[Len(s)].of = fs[n].name /\ s[Len(s)].n = Len(s)
      BY <2>5, <2>6, <2>7, <3>1, FieldBytes
    <3>4. s[Len(s)] = [of |-> s[Len(s)].of, n |-> s[Len(s)].n]
      BY <1>1, <3>2 DEF BytesOf
    <3>5. QED
      BY <2>7, <3>3, <3>4
  <2>9. SubSeq(fs, 1, n) = fs
    BY <2>2, SubSeqFull
  <2>10. w = a \o s
    BY <1>2, <2>3, <2>4, <2>6, <2>9, StoreAt
  <2>11. Len(a) \in Nat /\ Len(w) = Len(a) + Len(s) /\ Len(s) \in 1..Len(s)
    <3>1. Len(a) \in Nat /\ Len(a \o s) = Len(a) + Len(s)
      BY ConcatFacts
    <3>2. Len(s) \in 1..Len(s)
      BY <2>7
    <3>3. QED
      BY <2>10, <3>1, <3>2
  <2>12. w[Len(w)] = s[Len(s)]
    <3>1. w[Len(s) + Len(a)] = s[Len(s)]
      BY <2>10, <2>11, ConcatFacts
    <3>2. Len(w) = Len(s) + Len(a)
      BY <2>7, <2>11
    <3>3. QED
      BY <3>1, <3>2
  <2>13. Last(w) = [of |-> gs[k].name, n |-> gs[k].size]
    BY <2>1, <2>2, <2>8, <2>12 DEF Last
  <2>14. QED
    BY <1>2, <2>13 DEF Parses
<1>5. QED
  BY <1>3, <1>4

(* The first of the fields that are named once are, too.                   *)
LEMMA FirstNamed ==
  ASSUME NEW F, NEW fs \in Seq(F), DistinctNames(fs), NEW k \in 0..Len(fs)
  PROVE  /\ SubSeq(fs, 1, k) \in Seq(F) /\ DistinctNames(SubSeq(fs, 1, k))
         /\ Range(SubSeq(fs, 1, k)) \subseteq Range(fs)
<1>1. PICK hs : hs = SubSeq(fs, 1, k)
  OBVIOUS
<1>2. Len(fs) \in Nat /\ k \in Nat /\ k <= Len(fs)
  OBVIOUS
<1>3. hs \in Seq(F) /\ Len(hs) = k /\ \A i \in 1..k : hs[i] = fs[i]
  BY <1>1, <1>2
<1>4. \A i \in 1..k : i \in 1..Len(fs)
  BY <1>2
<1>5. DistinctNames(hs)
  BY <1>3, <1>4 DEF DistinctNames
<1>6. Range(hs) \subseteq Range(fs)
  <2>1. SUFFICES ASSUME NEW h \in Range(hs) PROVE h \in Range(fs)
    OBVIOUS
  <2>2. PICK i \in 1..Len(hs) : h = hs[i]
    BY <1>3, RangeIs
  <2>3. i \in 1..Len(fs) /\ h = fs[i]
    BY <1>3, <1>4, <2>2
  <2>4. QED
    BY <2>3, RangeIs
<1>7. QED
  BY <1>1, <1>3, <1>5, <1>6

-----------------------------------------------------------------------------
(* The fields of the messages                                              *)

\* The fields of all messages, what the messages are, and how they are read.
MessageNames == HeaderNames \cup UNION {NamesIn(ContentOf[t]) : t \in MessageTypes}
MessageFields == FieldsOf(MessageNames)
MessageBytes == BytesOf(MessageNames)
MessageRecords == [sender : {"us", "steam"}, type : MessageTypes, ids : BOOLEAN]
IsProto(m) == HeaderOf[m.type] = "ProtoBuf"
FromUs(m) == m.sender = "us"
UsableMessage(m) == ~(m.sender = "steam" /\ HeaderOf[m.type] = "Extended")

\* The fields of a header that its reader knows, and those around them.
ReadHeader(m) ==
  IF HeaderOf[m.type] = "Simple" THEN SimpleFields
  ELSE IF HeaderOf[m.type] = "Extended" THEN ExtendedFields ELSE ProtoFields(m.ids)
\* The fields with a meaning of their own, and what may follow a content.
TypeField == Sized("msgType", 4)
LengthField == Sized("protoLength", 4)
Excess == Sized("excess", 2)
ContentAndMore(m) == Append(ContentOf[m.type], Excess)

\* The fields of a header, each once and none of the content.
HeaderSound(fs) ==
  /\ fs \in Seq(MessageFields) /\ DistinctNames(fs)
  /\ \A g \in Range(fs) : g.name \in HeaderNames /\ g.name # "protoLength" /\ g.name # "excess"

(* A record of a name and a size is one of the fields.                     *)
LEMMA SizedIs ==
  ASSUME NEW name \in MessageNames, NEW n \in Nat \ {0}
  PROVE  /\ Sized(name, n) \in MessageFields
         /\ Sized(name, n).name = name /\ Sized(name, n).size = n
BY DEF Sized, MessageFields, FieldsOf

(* The fields outside the header and the content.                          *)
LEMMA OtherFields ==
  /\ TypeField \in MessageFields /\ TypeField.size = 4
  /\ LengthField \in MessageFields /\ LengthField.size = 4 /\ LengthField.name = "protoLength"
  /\ Excess \in MessageFields /\ Excess.name = "excess"
<1>1. {"msgType", "protoLength", "excess"} \subseteq MessageNames
  BY DEF MessageNames, HeaderNames
<1>2. 4 \in Nat \ {0} /\ 2 \in Nat \ {0}
  OBVIOUS
<1>3. QED
  BY <1>1, <1>2, SizedIs DEF TypeField, LengthField, Excess

(* Fields of a header, from their names.                                   *)
LEMMA HeaderFrom ==
  ASSUME NEW fs, NEW n \in Nat, NEW name, NEW size, fs = [k \in 1..n |-> Sized(name[k], size[k])],
         \A k \in 1..n : /\ name[k] \in HeaderNames \ {"protoLength", "excess"}
                         /\ size[k] \in Nat \ {0},
         \A j, k \in 1..n : name[j] = name[k] => j = k
  PROVE  HeaderSound(fs)
<1>1. \A k \in 1..n : fs[k] \in MessageFields /\ fs[k].name = name[k]
  <2>1. TAKE k \in 1..n
  <2>2. name[k] \in MessageNames /\ size[k] \in Nat \ {0} /\ fs[k] = Sized(name[k], size[k])
    BY DEF MessageNames
  <2>3. QED
    BY <2>2, SizedIs
<1>2. fs \in [1..n -> MessageFields]
  BY <1>1
<1>3. fs \in Seq(MessageFields) /\ Len(fs) = n
  BY <1>2
<1>4. DistinctNames(fs)
  BY <1>1, <1>3 DEF DistinctNames
<1>5. \A g \in Range(fs) : \E k \in 1..n : g = fs[k]
  BY <1>3, RangeIs
<1>6. \A g \in Range(fs) : g.name \in HeaderNames /\ g.name # "protoLength" /\ g.name # "excess"
  BY <1>1, <1>5
<1>7. QED
  BY <1>3, <1>4, <1>6 DEF HeaderSound

(* The headers' fields are named once.                                     *)
LEMMA HeadersSound ==
  HeaderSound(SimpleFields) /\ HeaderSound(ExtendedFields)
  /\ HeaderSound(ProtoFields(TRUE)) /\ HeaderSound(ProtoFields(FALSE))
<1>1. HeaderSound(SimpleFields)
  <2>1. PICK name : name = <<"targetJobID", "sourceJobID">>
    OBVIOUS
  <2>2. PICK size : size = <<8, 8>>
    OBVIOUS
  <2>3. SimpleFields = [k \in 1..2 |-> Sized(name[k], size[k])]
    BY <2>1, <2>2 DEF SimpleFields
  <2>4. \A k \in 1..2 : name[k] \in HeaderNames \ {"protoLength", "excess"}
    BY <2>1 DEF HeaderNames
  <2>5. \A k \in 1..2 : size[k] \in Nat \ {0}
    BY <2>2
  <2>6. \A j, k \in 1..2 : name[j] = name[k] => j = k
    BY <2>1
  <2>7. QED
    BY <2>3, <2>4, <2>5, <2>6, HeaderFrom
<1>2. HeaderSound(ExtendedFields)
  <2>1. PICK name : name = <<"headerVersion", "targetJobID", "sourceJobID", "headerCanary",
                             "steamId", "sessionId">>
    OBVIOUS
  <2>2. PICK size : size = <<2, 8, 8, 1, 8, 4>>
    OBVIOUS
  <2>3. ExtendedFields = [k \in 1..6 |-> Sized(name[k], size[k])]
    BY <2>1, <2>2 DEF ExtendedFields
  <2>4. \A k \in 1..6 : name[k] \in HeaderNames \ {"protoLength", "excess"}
    BY <2>1 DEF HeaderNames
  <2>5. \A k \in 1..6 : size[k] \in Nat \ {0}
    BY <2>2
  <2>6. \A j, k \in 1..6 : name[j] = name[k] => j = k
    BY <2>1
  <2>7. QED
    BY <2>3, <2>4, <2>5, <2>6, HeaderFrom
<1>3. HeaderSound(ProtoFields(TRUE))
  <2>1. PICK name : name = <<"steamid", "client_sessionid">>
    OBVIOUS
  <2>2. PICK size : size = <<2, 2>>
    OBVIOUS
  <2>3. ProtoFields(TRUE) = [k \in 1..2 |-> Sized(name[k], size[k])]
    BY <2>1, <2>2 DEF ProtoFields
  <2>4. \A k \in 1..2 : name[k] \in HeaderNames \ {"protoLength", "excess"}
    BY <2>1 DEF HeaderNames
  <2>5. \A k \in 1..2 : size[k] \in Nat \ {0}
    BY <2>2
  <2>6. \A j, k \in 1..2 : name[j] = name[k] => j = k
    BY <2>1
  <2>7. QED
    BY <2>3, <2>4, <2>5, <2>6, HeaderFrom
<1>4. HeaderSound(ProtoFields(FALSE))
  <2>1. PICK e : e = ProtoFields(FALSE)
    OBVIOUS
  <2>2. e = <<>>
    BY <2>1 DEF ProtoFields
  <2>3. e \in Seq(MessageFields) /\ Len(e) = 0
    BY <2>2
  <2>4. Range(e) = {}
    BY <2>2, <2>3, RangeIs
  <2>5. HeaderSound(e)
    BY <2>3, <2>4 DEF HeaderSound, DistinctNames
  <2>6. QED
    BY <2>1, <2>5
<1>5. QED
  BY <1>1, <1>2, <1>3, <1>4

(* What is sent as the header.                                             *)
LEMMA HeaderIs ==
  ASSUME MessageAssumption, NEW m \in MessageRecords, UsableMessage(m)
  PROVE  /\ HeaderSound(ReadHeader(m))
         /\ ~IsProto(m) => HeaderFields(m) = ReadHeader(m)
         /\ IsProto(m) => /\ ReadHeader(m) = ProtoFields(m.ids)
                          /\ HeaderFields(m) = <<LengthField>> \o ReadHeader(m)
<1>1. HeaderOf[m.type] \in {"Simple", "Extended", "ProtoBuf"} /\ m.ids \in BOOLEAN
      /\ m.sender \in {"us", "steam"}
  BY DEF MessageAssumption, MessageRecords
<1>2. HeaderSound(ReadHeader(m))
  BY <1>1, HeadersSound DEF ReadHeader
<1>3. CASE HeaderOf[m.type] = "Simple"
  BY <1>2, <1>3 DEF HeaderFields, ReadHeader, IsProto
<1>4. CASE HeaderOf[m.type] = "Extended"
  <2>1. m.sender # "steam"
    BY <1>4 DEF UsableMessage
  <2>2. PICK e : e = ExtendedFields
    OBVIOUS
  <2>3. e \in Seq(MessageFields)
    BY <2>2, HeadersSound DEF HeaderSound
  <2>4. <<>> \o e = e
    BY <2>3, ConcatEmptySeq
  <2>5. HeaderFields(m) = <<>> \o e
    BY <1>4, <2>1, <2>2 DEF HeaderFields
  <2>6. QED
    BY <1>2, <1>4, <2>2, <2>4, <2>5 DEF ReadHeader, IsProto
<1>5. CASE HeaderOf[m.type] = "ProtoBuf"
  BY <1>2, <1>5 DEF HeaderFields, ReadHeader, IsProto, LengthField
<1>6. QED
  BY <1>1, <1>3, <1>4, <1>5

\* The fields of a content, each once and none of the header.
ContentSound(fs) ==
  /\ fs \in Seq(MessageFields) /\ DistinctNames(fs)
  /\ \A g \in Range(fs) : g.name \notin HeaderNames

(* What is sent as the content.                                            *)
LEMMA ContentIs ==
  ASSUME MessageAssumption, NEW m \in MessageRecords
  PROVE  /\ ContentSound(ContentOf[m.type])
         /\ ContentAndMore(m) \in Seq(MessageFields) /\ DistinctNames(ContentAndMore(m))
         /\ Range(ContentAndMore(m)) = Range(ContentOf[m.type]) \cup {Excess}
         /\ ContentAndMore(m) = ContentOf[m.type] \o <<Excess>>
<1>1. PICK fs : fs = ContentOf[m.type]
  OBVIOUS
<1>2. /\ m.type \in MessageTypes /\ fs \in Seq(Range(fs))
      /\ \A f \in Range(fs) : f = Sized(f.name, f.size) /\ f.size \in Nat \ {0}
                             /\ f.name \notin HeaderNames
      /\ \A i, j \in 1..Len(fs) : fs[i].name = fs[j].name => i = j
  BY <1>1 DEF MessageAssumption, MessageRecords
<1>3. \A f \in Range(fs) : f.name \in MessageNames
  BY <1>1, <1>2 DEF MessageNames, NamesIn
<1>4. Range(fs) \subseteq MessageFields
  BY <1>2, <1>3, SizedIs
<1>5. fs \in Seq(MessageFields)
  BY <1>2, <1>4, SeqMonotonic
<1>6. ContentSound(fs)
  BY <1>2, <1>5 DEF ContentSound, DistinctNames
<1>7. PICK t \in Seq(MessageFields) : t = Append(fs, Excess)
  BY <1>5, OtherFields, AppendFacts
<1>8. Range(t) = Range(fs) \cup {Excess} /\ t = fs \o <<Excess>>
  BY <1>5, <1>7, OtherFields, RangeAppend, AppendIsConcat
<1>9. /\ Len(fs) \in Nat /\ Len(t) = Len(fs) + 1 /\ t[Len(fs) + 1] = Excess
      /\ \A i \in 1..Len(fs) : t[i] = fs[i]
  BY <1>5, <1>7, OtherFields, AppendFacts
<1>10. \A i \in 1..Len(fs) : fs[i].name # Excess.name
  <2>1. TAKE i \in 1..Len(fs)
  <2>2. fs[i] \in Range(fs)
    BY <1>5, RangeIs
  <2>3. Excess.name \in HeaderNames
    BY OtherFields DEF HeaderNames
  <2>4. QED
    BY <1>2, <2>2, <2>3
<1>11. DistinctNames(t)
  <2>1. ASSUME NEW i \in 1..Len(t), NEW j \in 1..Len(t), t[i].name = t[j].name
        PROVE  i = j
    <3>1. i \in 1..Len(fs) \/ i = Len(fs) + 1
      BY <1>9
    <3>2. j \in 1..Len(fs) \/ j = Len(fs) + 1
      BY <1>9
    <3>3. CASE i \in 1..Len(fs) /\ j \in 1..Len(fs)
      BY <1>2, <1>9, <2>1, <3>3
    <3>4. CASE i \in 1..Len(fs) /\ j = Len(fs) + 1
      BY <1>9, <1>10, <2>1, <3>4
    <3>5. CASE i = Len(fs) + 1 /\ j \in 1..Len(fs)
      BY <1>9, <1>10, <2>1, <3>5
    <3>6. QED
      BY <3>1, <3>2, <3>3, <3>4, <3>5
  <2>2. QED
    BY <2>1 DEF DistinctNames
<1>12. QED
  BY <1>1, <1>6, <1>7, <1>8, <1>11 DEF ContentAndMore

-----------------------------------------------------------------------------
(* The message on its way                                                  *)

\* The bytes of a message and of its parts.
TypeBytes == StoreField(TypeField)
LengthBytes == StoreField(LengthField)
ExcessBytes == StoreField(Excess)
HeaderBytes(m) == StoreAll(HeaderFields(m))
ContentBytes(m) == StoreAll(ContentOf[m.type])
SentBytes(m) == HeaderBytes(m) \o ContentBytes(m)

\* d is b, or what Steam may have made of it.
Comes(d, b, m) ==
  /\ d \in Seq(MessageBytes) /\ IsPrefix(d, b \o ExcessBytes)
  /\ FromUs(m) => d = b

\* The stage and the message that is sent.
MessageKept ==
  /\ msgStage \in {"make", "wire", "header", "content", "done", "refused"}
  /\ loggedOn \in BOOLEAN
  /\ message # <<>> => message \in MessageRecords
  /\ msgStage = "make" => peeked = "Invalid"
  /\ msgStage # "make" => /\ message # <<>> /\ packet.type = message.type
                          /\ peeked \in {"Invalid", message.type}
  /\ msgStage \in {"header", "content"} => peeked = message.type

\* The packet's bytes.
DataKept ==
  msgStage # "make" /\ UsableMessage(message) =>
    /\ IsProto(message) => packet.protoLength = Len(StoreAll(ProtoFields(message.ids)))
    /\ packet.bytes = TypeBytes \o SentBytes(message)
    /\ msgStage = "wire" => /\ Comes(msgData, TypeBytes \o SentBytes(message), message)
                            /\ peeked # "Invalid" => Len(msgData) >= 4
    /\ msgStage = "header" => Comes(msgData, SentBytes(message), message)
    /\ msgStage = "content" => Comes(msgData, ContentBytes(message), message)
    /\ msgStage = "refused" => ~FromUs(message)

\* What parsing the content of the message m leaves in r.
ContentReads(r, m) ==
  \E G \in SUBSET (Range(ContentOf[m.type]) \cup {Excess}) :
    /\ ReadsFields(r, Range(ReadHeader(m)) \cup G)
    /\ ~IsProto(m) => G = Range(ContentOf[m.type])

\* What has been read of the message.
FieldsKept ==
  /\ msgStage \in {"make", "wire", "header"} => fields = <<>>
  /\ msgStage # "make" /\ UsableMessage(message) =>
       /\ msgStage = "content" => ReadsFields(fields, Range(ReadHeader(message)))
       /\ msgStage = "refused" => fields = <<>> \/ ReadsFields(fields, Range(ReadHeader(message)))
       /\ msgStage = "done" => ContentReads(fields, message)

MessageInv == MessageKept /\ DataKept /\ FieldsKept

(* The bytes of a message.                                                 *)
LEMMA MessageBytesAre ==
  ASSUME MessageAssumption, NEW m \in MessageRecords, UsableMessage(m)
  PROVE  /\ TypeBytes \in Seq(MessageBytes) /\ Len(TypeBytes) = 4
         /\ LengthBytes \in Seq(MessageBytes) /\ Len(LengthBytes) = 4
         /\ ExcessBytes \in Seq(MessageBytes)
         /\ HeaderBytes(m) \in Seq(MessageBytes) /\ ContentBytes(m) \in Seq(MessageBytes)
         /\ SentBytes(m) \in Seq(MessageBytes)
         /\ StoreAll(ReadHeader(m)) \in Seq(MessageBytes)
         /\ IsProto(m) => HeaderBytes(m) = LengthBytes \o StoreAll(ReadHeader(m))
         /\ StoreAll(ContentAndMore(m)) = ContentBytes(m) \o ExcessBytes
<1>1. PICK F : F = FieldsOf(MessageNames)
  OBVIOUS
<1>2. PICK B : B = BytesOf(MessageNames)
  OBVIOUS
<1>3. MessageFields = F /\ MessageBytes = B
  BY <1>1, <1>2 DEF MessageFields, MessageBytes
<1>4. \A f \in F : StoreField(f) \in Seq(B) /\ Len(StoreField(f)) = f.size
                   /\ <<f>> \in Seq(F) /\ StoreAll(<<f>>) = StoreField(f)
  BY <1>1, <1>2, FieldBytes, StoreOne
<1>5. /\ TypeBytes \in Seq(B) /\ Len(TypeBytes) = 4
      /\ LengthBytes \in Seq(B) /\ Len(LengthBytes) = 4
      /\ ExcessBytes \in Seq(B)
  BY <1>3, <1>4, OtherFields DEF TypeBytes, LengthBytes, ExcessBytes
<1>6. \A fs, gs \in Seq(F) : /\ StoreAll(fs) \in Seq(B) /\ fs \o gs \in Seq(F)
                             /\ StoreAll(fs \o gs) = StoreAll(fs) \o StoreAll(gs)
  BY <1>1, <1>2, StoreConcat
<1>7. PICK h \in Seq(F) : h = ReadHeader(m)
  BY <1>3, HeaderIs DEF HeaderSound
<1>8. PICK c \in Seq(F) : c = ContentOf[m.type]
  BY <1>3, ContentIs DEF ContentSound
<1>9. PICK l \in Seq(F) : l = <<LengthField>>
  BY <1>3, <1>4, OtherFields
<1>10. StoreAll(l) = LengthBytes
  BY <1>3, <1>4, <1>9, OtherFields DEF LengthBytes
<1>11. IsProto(m) => HeaderFields(m) = l \o h
  BY <1>7, <1>9, HeaderIs
<1>12. ~IsProto(m) => HeaderFields(m) = h
  BY <1>7, HeaderIs
<1>13. HeaderFields(m) \in Seq(F)
  BY <1>6, <1>11, <1>12
<1>14. HeaderBytes(m) \in Seq(B) /\ ContentBytes(m) \in Seq(B) /\ StoreAll(h) \in Seq(B)
  BY <1>6, <1>8, <1>13 DEF HeaderBytes, ContentBytes
<1>15. SentBytes(m) \in Seq(B)
  BY <1>14, ConcatFacts DEF SentBytes
<1>16. IsProto(m) => HeaderBytes(m) = LengthBytes \o StoreAll(h)
  BY <1>6, <1>10, <1>11 DEF HeaderBytes
<1>17. PICK x \in Seq(F) : x = <<Excess>>
  BY <1>3, <1>4, OtherFields
<1>18. StoreAll(x) = ExcessBytes
  BY <1>3, <1>4, <1>17, OtherFields DEF ExcessBytes
<1>19. StoreAll(ContentAndMore(m)) = ContentBytes(m) \o ExcessBytes
  <2>1. ContentAndMore(m) = c \o x
    BY <1>8, <1>17, ContentIs
  <2>2. StoreAll(c \o x) = StoreAll(c) \o StoreAll(x)
    BY <1>6
  <2>3. QED
    BY <1>8, <1>18, <2>1, <2>2 DEF ContentBytes
<1>20. QED
  BY <1>3, <1>5, <1>7, <1>14, <1>15, <1>16, <1>19

(* After its first part, the rest comes.                                   *)
LEMMA ComesOn ==
  ASSUME MessageAssumption, NEW m \in MessageRecords, UsableMessage(m),
         NEW d, NEW a \in Seq(MessageBytes), NEW b \in Seq(MessageBytes),
         Comes(d, a \o b, m), Len(d) >= Len(a)
  PROVE  /\ Comes(SubSeq(d, Len(a) + 1, Len(d)), b, m)
         /\ d = a \o SubSeq(d, Len(a) + 1, Len(d))
<1>1. PICK B : B = MessageBytes
  OBVIOUS
<1>2. PICK x \in Seq(B) : x = ExcessBytes
  BY <1>1, MessageBytesAre
<1>3. d \in Seq(B) /\ a \in Seq(B) /\ b \in Seq(B)
  BY <1>1 DEF Comes
<1>4. PICK bx \in Seq(B) : bx = b \o x
  BY <1>3, ConcatFacts
<1>5. (a \o b) \o x = a \o bx
  BY <1>3, <1>4, LastParts
<1>6. IsPrefix(d, a \o bx)
  BY <1>2, <1>5 DEF Comes
<1>7. PICK v : v = SubSeq(d, Len(a) + 1, Len(d))
  OBVIOUS
<1>8. v \in Seq(B) /\ IsPrefix(v, bx) /\ d = a \o v
  BY <1>3, <1>6, <1>7, FirstPart
<1>9. FromUs(m) => v = b
  <2>1. SUFFICES ASSUME FromUs(m) PROVE v = b
    OBVIOUS
  <2>2. d = a \o b
    BY <2>1 DEF Comes
  <2>3. QED
    BY <1>3, <1>7, <2>2, FirstBegins
<1>10. QED
  BY <1>1, <1>2, <1>4, <1>7, <1>8, <1>9 DEF Comes

(* Nothing is missing of what we have sent.                                *)
LEMMA ComesWhole ==
  ASSUME NEW m, NEW d, NEW a \in Seq(MessageBytes), NEW b \in Seq(MessageBytes),
         Comes(d, a \o b, m), FromUs(m)
  PROVE  d = a \o b /\ Len(d) >= Len(a)
<1>1. d = a \o b
  BY DEF Comes
<1>2. QED
  BY <1>1, FirstBegins

(* MessageKept is inductive.                                               *)
LEMMA MessageStep ==
  ASSUME MessageAssumption, MessageKept, [MsgNext]_msgVars
  PROVE  MessageKept'
<1> USE DEF MessageKept
<1>1. ASSUME NEW t \in MessageTypes, NEW sender \in {"us", "steam"}, Construct(t, sender)
      PROVE  MessageKept'
  <2>1. PICK ids \in BOOLEAN : message' = [sender |-> sender, type |-> t, ids |-> ids]
    BY <1>1 DEF Construct
  <2>2. message' \in MessageRecords
    BY <2>1 DEF MessageRecords
  <2>3. QED
    BY <1>1, <2>2 DEF Construct
<1>2. CASE LogOn
  BY <1>2 DEF LogOn
<1>3. CASE SendMessage
  <2>1. packet'.type = message.type
    BY <1>3 DEF SendMessage
  <2>2. msgStage = "make" /\ msgStage' = "wire" /\ UNCHANGED <<loggedOn, message, peeked, fields>>
        /\ message # <<>>
    BY <1>3 DEF SendMessage
  <2>3. QED
    BY <2>1, <2>2
<1>4. CASE OtherLength
  BY <1>4 DEF OtherLength
<1>5. CASE Peek
  BY <1>5 DEF Peek
<1>6. CASE DeserializeType
  BY <1>6 DEF DeserializeType
<1>7. CASE DeserializeHeader
  <2>1. /\ msgStage = "header" /\ msgStage' \in {"refused", "content"}
        /\ UNCHANGED <<loggedOn, message, packet, peeked>>
    BY <1>7 DEF DeserializeHeader
  <2>2. QED
    BY <2>1
<1>8. CASE DeserializeProtoHeader
  <2>1. /\ msgStage = "header" /\ msgStage' \in {"refused", "content"}
        /\ UNCHANGED <<loggedOn, message, packet, peeked>>
    BY <1>8 DEF DeserializeProtoHeader
  <2>2. QED
    BY <2>1
<1>9. CASE DeserializeContent
  <2>1. /\ msgStage = "content" /\ msgStage' \in {"refused", "done"}
        /\ UNCHANGED <<loggedOn, message, packet, peeked>>
    BY <1>9 DEF DeserializeContent
  <2>2. QED
    BY <2>1
<1>10. CASE UNCHANGED msgVars
  BY <1>10 DEF msgVars
<1>11. QED
  BY <1>1, <1>2, <1>3, <1>4, <1>5, <1>6, <1>7, <1>8, <1>9, <1>10 DEF MsgNext

(* The header is read from what has come.                                  *)
LEMMA HeaderRead ==
  ASSUME MessageAssumption, MessageInv, UsableMessage(message), DeserializeHeader
  PROVE  /\ msgStage' = "refused" => ~FromUs(message) /\ fields' = fields
         /\ msgStage' = "content" => /\ Comes(msgData', ContentBytes(message), message)
                                     /\ ReadsFields(fields', Range(ReadHeader(message)))
<1>1. /\ msgStage = "header" /\ message \in MessageRecords /\ peeked = message.type
      /\ Comes(msgData, SentBytes(message), message) /\ fields = <<>>
      /\ ~IsProto(message)
  BY DEF MessageInv, MessageKept, DataKept, FieldsKept, DeserializeHeader, IsProto
<1>2. PICK fs : fs = IF HeaderOf[peeked] = "Simple" THEN SimpleFields ELSE ExtendedFields
  OBVIOUS
<1>3. fs = ReadHeader(message)
  BY <1>1, <1>2 DEF ReadHeader, MessageAssumption, MessageRecords, IsProto
<1>4. PICK h \in Seq(MessageBytes) : h = StoreAll(fs)
  BY <1>1, <1>3, MessageBytesAre
<1>5. HeaderBytes(message) = h
  BY <1>1, <1>3, <1>4, HeaderIs DEF HeaderBytes
<1>6. PICK c \in Seq(MessageBytes) : c = ContentBytes(message)
  BY <1>1, MessageBytesAre
<1>7. Comes(msgData, h \o c, message)
  BY <1>1, <1>5, <1>6 DEF SentBytes
<1>8. IF NotEnough(Len(h)) THEN msgStage' = "refused" /\ UNCHANGED <<msgData, fields>>
      ELSE msgStage' = "content" /\ msgData' = After(Len(h)) /\ fields' = Taken(GetFields(fs))
  BY <1>2, <1>4 DEF DeserializeHeader
<1>9. CASE NotEnough(Len(h))
  <2>1. ~FromUs(message)
    <3>1. SUFFICES ASSUME FromUs(message) PROVE FALSE
      OBVIOUS
    <3>2. Len(msgData) >= Len(h)
      BY <1>7, <3>1, ComesWhole
    <3>3. Len(msgData) \in Nat /\ Len(h) \in Nat
      BY <1>7 DEF Comes
    <3>4. QED
      BY <1>9, <3>2, <3>3 DEF NotEnough
  <2>2. QED
    BY <1>8, <1>9, <2>1
<1>10. CASE ~NotEnough(Len(h))
  <2>1. Len(msgData) >= Len(h)
    <3>1. Len(msgData) \in Nat /\ Len(h) \in Nat
      BY <1>7 DEF Comes
    <3>2. QED
      BY <1>10, <3>1 DEF NotEnough
  <2>2. PICK v : v = SubSeq(msgData, Len(h) + 1, Len(msgData))
    OBVIOUS
  <2>3. Comes(v, c, message) /\ msgData = h \o v
    BY <1>1, <1>7, <2>1, <2>2, ComesOn
  <2>4. msgData' = v
    BY <1>8, <1>10, <2>2 DEF After
  <2>5. ReadsFields(GetFields(fs), Range(fs))
    <3>1. HeaderSound(fs)
      BY <1>1, <1>3, HeaderIs
    <3>2. v \in Seq(BytesOf(MessageNames)) /\ fs \in Seq(FieldsOf(MessageNames)) /\ DistinctNames(fs)
      BY <2>3, <3>1 DEF Comes, HeaderSound, MessageFields, MessageBytes
    <3>3. DataBegins(StoreAll(fs), v)
      BY <1>4, <2>3 DEF DataBegins
    <3>4. QED
      BY <3>2, <3>3, GetFieldsIs
  <2>6. ReadsFields(fields, {})
    BY <1>1 DEF ReadsFields
  <2>7. ReadsFields(Taken(GetFields(fs)), {} \cup Range(fs))
    BY <2>5, <2>6, TakenReads
  <2>8. ReadsFields(fields', Range(fs))
    BY <1>8, <1>10, <2>7
  <2>9. msgStage' = "content"
    BY <1>8, <1>10
  <2>10. QED
    BY <1>3, <1>6, <2>3, <2>4, <2>8, <2>9
<1>11. QED
  BY <1>9, <1>10

(* So is the header that is a protobuf.                                    *)
LEMMA ProtoHeaderRead ==
  ASSUME MessageAssumption, MessageInv, UsableMessage(message), DeserializeProtoHeader
  PROVE  /\ msgStage' = "refused" => ~FromUs(message) /\ fields' = fields
         /\ msgStage' = "content" => /\ Comes(msgData', ContentBytes(message), message)
                                     /\ ReadsFields(fields', Range(ReadHeader(message)))
<1>1. /\ msgStage = "header" /\ message \in MessageRecords /\ peeked = message.type
      /\ Comes(msgData, SentBytes(message), message) /\ fields = <<>>
      /\ IsProto(message)
  BY DEF MessageInv, MessageKept, DataKept, FieldsKept, DeserializeProtoHeader, IsProto
<1>2. PICK fs : fs = ReadHeader(message)
  OBVIOUS
<1>3. fs = ProtoFields(message.ids) /\ HeaderSound(fs)
  BY <1>1, <1>2, HeaderIs
<1>4. PICK B : B = MessageBytes
  OBVIOUS
<1>5. PICK p \in Seq(B) : p = StoreAll(fs)
  BY <1>1, <1>2, <1>4, MessageBytesAre
<1>6. PICK l \in Seq(B) : l = LengthBytes
  BY <1>1, <1>4, MessageBytesAre
<1>7. PICK h \in Seq(B) : h = l \o p
  BY ConcatFacts
<1>8. HeaderBytes(message) = h /\ Len(l) = 4 /\ Len(p) \in Nat /\ Len(h) = 4 + Len(p)
  <2>1. HeaderBytes(message) = h /\ Len(l) = 4
    BY <1>1, <1>2, <1>5, <1>6, <1>7, MessageBytesAre
  <2>2. Len(p) \in Nat /\ Len(l \o p) = Len(l) + Len(p)
    BY ConcatFacts
  <2>3. QED
    BY <1>7, <2>1, <2>2
<1>9. PICK c \in Seq(B) : c = ContentBytes(message)
  BY <1>1, <1>4, MessageBytesAre
<1>10. Comes(msgData, h \o c, message)
  BY <1>1, <1>8, <1>9 DEF SentBytes
<1>11. packet.protoLength = Len(p)
  BY <1>1, <1>3, <1>5 DEF MessageInv, DataKept
<1>12. PICK bytes : bytes = SubSeq(msgData, 5, 4 + Len(p))
  OBVIOUS
<1>13. IF NotEnough(4 + Len(p)) \/ ~Parses(bytes, ProtoFields(TRUE))
       THEN msgStage' = "refused" /\ UNCHANGED <<msgData, fields>>
       ELSE /\ msgStage' = "content" /\ msgData' = After(4 + Len(p))
            /\ fields' = Taken(ParseProto(bytes))
  BY <1>11, <1>12 DEF DeserializeProtoHeader
<1>14. Len(msgData) \in Nat
  BY <1>10 DEF Comes
<1>15. ASSUME ~NotEnough(4 + Len(p))
       PROVE  /\ bytes = p /\ Comes(After(4 + Len(p)), c, message)
  <2>1. Len(msgData) >= Len(h)
    BY <1>8, <1>14, <1>15 DEF NotEnough
  <2>2. PICK v : v = SubSeq(msgData, Len(h) + 1, Len(msgData))
    OBVIOUS
  <2>3. Comes(v, c, message) /\ msgData = h \o v
    BY <1>1, <1>4, <1>10, <2>1, <2>2, ComesOn
  <2>4. v \in Seq(B)
    BY <1>4, <2>3 DEF Comes
  <2>5. SubSeq(h \o v, Len(l) + 1, Len(l) + Len(p)) = p
    BY <1>7, <2>4, MiddlePart
  <2>6. Len(l) + 1 = 5 /\ Len(l) + Len(p) = 4 + Len(p)
    BY <1>8
  <2>7. bytes = p
    BY <1>12, <2>3, <2>5, <2>6
  <2>8. After(4 + Len(p)) = v
    BY <1>8, <2>2 DEF After
  <2>9. QED
    BY <2>3, <2>7, <2>8
<1>16. FromUs(message) => ~NotEnough(4 + Len(p))
  <2>1. SUFFICES ASSUME FromUs(message) PROVE ~NotEnough(4 + Len(p))
    OBVIOUS
  <2>2. Len(msgData) >= Len(h)
    BY <1>4, <1>10, <2>1, ComesWhole
  <2>3. QED
    BY <1>8, <1>14, <2>2 DEF NotEnough
<1>17. Parses(p, ProtoFields(TRUE))
  <2>1. EndsIn(fs, ProtoFields(TRUE))
    <3>1. CASE message.ids = TRUE
      <4>1. fs = ProtoFields(TRUE)
        BY <1>3, <3>1
      <4>2. PICK n : n = Len(fs)
        OBVIOUS
      <4>3. fs \in Seq(MessageFields)
        BY <1>3 DEF HeaderSound
      <4>4. fs # <<>> => n \in 1..Len(fs)
        BY <4>2, <4>3
      <4>5. QED
        BY <4>1, <4>2, <4>4 DEF EndsIn
    <3>2. CASE message.ids = FALSE
      BY <1>3, <3>2 DEF ProtoFields, EndsIn
    <3>3. message.ids \in BOOLEAN
      BY <1>1 DEF MessageRecords
    <3>4. QED
      BY <3>1, <3>2, <3>3
  <2>2. fs \in Seq(FieldsOf(MessageNames))
    BY <1>3 DEF HeaderSound, MessageFields
  <2>3. QED
    BY <1>5, <2>1, <2>2, StoredParses
<1>18. ReadsFields(Taken(ParseProto(p)), Range(fs))
  <2>1. fs \in Seq(FieldsOf(MessageNames)) /\ DistinctNames(fs)
    BY <1>3 DEF HeaderSound, MessageFields
  <2>2. ReadsFields(ParseProto(p), Range(fs))
    BY <1>5, <2>1, ParseProtoIs
  <2>3. ReadsFields(fields, {})
    BY <1>1 DEF ReadsFields
  <2>4. ReadsFields(Taken(ParseProto(p)), {} \cup Range(fs))
    BY <2>2, <2>3, TakenReads
  <2>5. QED
    BY <2>4
<1>19. CASE NotEnough(4 + Len(p))
  BY <1>13, <1>16, <1>19
<1>20. CASE ~NotEnough(4 + Len(p))
  BY <1>2, <1>9, <1>13, <1>15, <1>17, <1>18, <1>20
<1>21. QED
  BY <1>19, <1>20

(* The content is read from what has come.                                 *)
LEMMA ContentRead ==
  ASSUME MessageAssumption, MessageInv, UsableMessage(message), DeserializeContent
  PROVE  /\ msgStage' = "refused" => ~FromUs(message) /\ fields' = fields
         /\ msgStage' = "done" => ContentReads(fields', message)
<1>1. /\ msgStage = "content" /\ message \in MessageRecords /\ peeked = message.type
      /\ Comes(msgData, ContentBytes(message), message)
      /\ ReadsFields(fields, Range(ReadHeader(message)))
  BY DEF MessageInv, MessageKept, DataKept, FieldsKept, DeserializeContent
<1>2. PICK cs : cs = ContentOf[message.type]
  OBVIOUS
<1>3. PICK B : B = MessageBytes
  OBVIOUS
<1>4. PICK c \in Seq(B) : c = ContentBytes(message)
  BY <1>1, <1>3, MessageBytesAre
<1>5. PICK x \in Seq(B) : x = ExcessBytes
  BY <1>1, <1>3, MessageBytesAre
<1>6. PICK more : more = ContentAndMore(message)
  OBVIOUS
<1>7. /\ ContentSound(cs) /\ more \in Seq(MessageFields) /\ DistinctNames(more)
      /\ Range(more) = Range(cs) \cup {Excess} /\ more = cs \o <<Excess>>
      /\ c = StoreAll(cs) /\ StoreAll(more) = c \o x
  BY <1>1, <1>2, <1>4, <1>5, <1>6, ContentIs, MessageBytesAre DEF ContentBytes
<1>8. PICK d \in Seq(B) : d = msgData
  BY <1>1, <1>3 DEF Comes
<1>9. IsPrefix(d, c \o x) /\ (FromUs(message) => d = c)
  BY <1>1, <1>4, <1>5, <1>8 DEF Comes
<1>10. \A g \in Range(ReadHeader(message)), h \in Range(cs) \cup {Excess} : g.name # h.name
  <2>1. HeaderSound(ReadHeader(message))
    BY <1>1, HeaderIs
  <2>2. QED
    BY <1>7, <2>1, OtherFields DEF HeaderSound, ContentSound
<1>11. ASSUME NEW G \in SUBSET (Range(cs) \cup {Excess}), NEW new, ReadsFields(new, G)
       PROVE  ReadsFields(Taken(new), Range(ReadHeader(message)) \cup G)
  <2>1. \A g \in Range(ReadHeader(message)), h \in G : g.name # h.name
    BY <1>10
  <2>2. QED
    BY <1>1, <1>11, <2>1, TakenReads
<1>12. CASE IsProto(message)
  <2>1. IF Parses(d, more)
        THEN msgStage' = "done" /\ fields' = Taken(ParseProto(d))
        ELSE msgStage' = "refused" /\ UNCHANGED fields
    BY <1>1, <1>2, <1>7, <1>8, <1>12 DEF DeserializeContent, IsProto, Excess
  <2>2. CASE Parses(d, more)
    <3>1. /\ more \in Seq(FieldsOf(MessageNames)) /\ d \in Seq(BytesOf(MessageNames))
          /\ IsPrefix(d, StoreAll(more))
      BY <1>3, <1>7, <1>9 DEF MessageFields, MessageBytes
    <3>2. PICK k \in 0..Len(more) : d = StoreAll(SubSeq(more, 1, k))
      BY <1>7, <2>2, <3>1, ParsedFields
    <3>3. PICK hs : hs = SubSeq(more, 1, k)
      OBVIOUS
    <3>4. hs \in Seq(FieldsOf(MessageNames)) /\ DistinctNames(hs) /\ Range(hs) \subseteq Range(more)
      BY <1>7, <3>1, <3>3, FirstNamed
    <3>5. ReadsFields(ParseProto(d), Range(hs))
      BY <3>2, <3>3, <3>4, ParseProtoIs
    <3>6. Range(hs) \in SUBSET (Range(cs) \cup {Excess})
      BY <1>7, <3>4
    <3>7. ReadsFields(fields', Range(ReadHeader(message)) \cup Range(hs))
      BY <1>11, <2>1, <2>2, <3>5, <3>6
    <3>8. ContentReads(fields', message)
      BY <1>2, <1>12, <3>6, <3>7 DEF ContentReads
    <3>9. QED
      BY <2>1, <2>2, <3>8
  <2>3. CASE ~Parses(d, more)
    <3>1. ~FromUs(message)
      <4>1. SUFFICES ASSUME FromUs(message) PROVE FALSE
        OBVIOUS
      <4>2. d = StoreAll(cs)
        BY <1>7, <1>9, <4>1
      <4>3. cs \in Seq(MessageFields)
        BY <1>7 DEF ContentSound
      <4>4. EndsIn(cs, more)
        <5>1. SUFFICES ASSUME cs # <<>> PROVE \E k \in 1..Len(more) : more[k] = cs[Len(cs)]
          BY DEF EndsIn
        <5>2. PICK n : n = Len(cs)
          OBVIOUS
        <5>3. n \in 1..Len(cs) /\ n \in Nat
          BY <4>3, <5>1, <5>2
        <5>4. more = Append(cs, Excess)
          BY <1>2, <1>6 DEF ContentAndMore
        <5>5. more[n] = cs[n] /\ Len(more) = Len(cs) + 1
          BY <4>3, <5>3, <5>4, OtherFields, AppendFacts
        <5>6. n \in 1..Len(more)
          BY <5>2, <5>3, <5>5
        <5>7. QED
          BY <5>2, <5>5, <5>6
      <4>5. Parses(d, more)
        BY <4>2, <4>3, <4>4, StoredParses DEF MessageFields
      <4>6. QED
        BY <2>3, <4>5
    <3>2. QED
      BY <2>1, <2>3, <3>1
  <2>4. QED
    BY <2>2, <2>3
<1>13. CASE ~IsProto(message)
  <2>1. IF NotEnough(Len(c))
        THEN msgStage' = "refused" /\ UNCHANGED fields
        ELSE msgStage' = "done" /\ fields' = Taken(GetFields(cs))
    BY <1>1, <1>2, <1>7, <1>13 DEF DeserializeContent, IsProto
  <2>2. Len(d) \in Nat /\ Len(c) \in Nat
    OBVIOUS
  <2>3. CASE NotEnough(Len(c))
    <3>1. ~FromUs(message)
      BY <1>8, <1>9, <2>2, <2>3 DEF NotEnough
    <3>2. QED
      BY <2>1, <2>3, <3>1
  <2>4. CASE ~NotEnough(Len(c))
    <3>1. Len(d) >= Len(c)
      BY <1>8, <2>2, <2>4 DEF NotEnough
    <3>2. PICK v : v = SubSeq(d, Len(c) + 1, Len(d))
      OBVIOUS
    <3>3. v \in Seq(B) /\ d = c \o v
      BY <1>9, <3>1, <3>2, FirstPart
    <3>4. DataBegins(StoreAll(cs), v)
      BY <1>7, <1>8, <3>3 DEF DataBegins
    <3>5. v \in Seq(BytesOf(MessageNames)) /\ cs \in Seq(FieldsOf(MessageNames)) /\ DistinctNames(cs)
      BY <1>3, <1>7, <3>3 DEF MessageFields, MessageBytes, ContentSound
    <3>6. ReadsFields(GetFields(cs), Range(cs))
      BY <3>4, <3>5, GetFieldsIs
    <3>7. ReadsFields(fields', Range(ReadHeader(message)) \cup Range(cs))
      BY <1>11, <2>1, <2>4, <3>6
    <3>8. ContentReads(fields', message)
      BY <1>2, <3>7 DEF ContentReads
    <3>9. QED
      BY <2>1, <2>4, <3>8
  <2>5. QED
    BY <2>3, <2>4
<1>14. QED
  BY <1>12, <1>13

(* DataKept is inductive.                                                  *)
LEMMA PacketStep ==
  ASSUME MessageAssumption, MessageInv, MessageKept', [MsgNext]_msgVars
  PROVE  DataKept'
<1>0. SUFFICES ASSUME msgStage' # "make", UsableMessage(message')
               PROVE  /\ IsProto(message') => packet'.protoLength = Len(StoreAll(ProtoFields(message'.ids)))
                      /\ packet'.bytes = TypeBytes \o SentBytes(message')
                      /\ msgStage' = "wire" => /\ Comes(msgData', TypeBytes \o SentBytes(message'), message')
                                               /\ peeked' # "Invalid" => Len(msgData') >= 4
                      /\ msgStage' = "header" => Comes(msgData', SentBytes(message'), message')
                      /\ msgStage' = "content" => Comes(msgData', ContentBytes(message'), message')
                      /\ msgStage' = "refused" => ~FromUs(message')
  BY DEF DataKept
<1>1. ASSUME NEW t \in MessageTypes, NEW sender \in {"us", "steam"}, Construct(t, sender)
      PROVE  FALSE
  BY <1>0, <1>1 DEF Construct
<1>2. CASE LogOn
  BY <1>0, <1>2 DEF LogOn
<1>3. CASE SendMessage
  <2>1. /\ msgStage = "make" /\ message # <<>> /\ msgStage' = "wire"
        /\ UNCHANGED <<loggedOn, message, peeked, fields>>
    BY <1>3 DEF SendMessage
  <2>2. message \in MessageRecords /\ peeked = "Invalid" /\ UsableMessage(message)
    BY <1>0, <2>1 DEF MessageInv, MessageKept
  <2>3. PICK b : b = TypeBytes \o SentBytes(message)
    OBVIOUS
  <2>4. packet'.bytes = b /\ msgData' = b
    <3>1. (TypeBytes \o HeaderBytes(message)) \o ContentBytes(message) = b
      <4>1. PICK B : B = MessageBytes
        OBVIOUS
      <4>2. /\ TypeBytes \in Seq(B) /\ HeaderBytes(message) \in Seq(B)
            /\ ContentBytes(message) \in Seq(B)
        BY <2>2, <4>1, MessageBytesAre
      <4>3. AssociativeOn(Seq(B))
        BY ThreeParts
      <4>4. (TypeBytes \o HeaderBytes(message)) \o ContentBytes(message)
              = TypeBytes \o (HeaderBytes(message) \o ContentBytes(message))
        BY <4>2, <4>3, Zenon DEF AssociativeOn
      <4>5. QED
        BY <2>3, <4>4 DEF SentBytes
    <3>2. packet'.bytes = (TypeBytes \o HeaderBytes(message)) \o ContentBytes(message)
      BY <1>3 DEF SendMessage, TypeBytes, TypeField, HeaderBytes, ContentBytes
    <3>3. msgData' = packet'.bytes
      BY <1>3 DEF SendMessage
    <3>4. QED
      BY <3>1, <3>2, <3>3
  <2>5. IsProto(message) => packet'.protoLength = Len(StoreAll(ProtoFields(message.ids)))
    BY <1>3 DEF SendMessage, IsProto
  <2>6. Comes(b, b, message)
    <3>1. TypeBytes \in Seq(MessageBytes) /\ SentBytes(message) \in Seq(MessageBytes)
          /\ ExcessBytes \in Seq(MessageBytes)
      BY <2>2, MessageBytesAre
    <3>2. b \in Seq(MessageBytes)
      BY <2>3, <3>1, ConcatFacts
    <3>3. IsPrefix(b, b \o ExcessBytes)
      BY <3>1, <3>2, FirstBegins
    <3>4. QED
      BY <3>2, <3>3 DEF Comes
  <2>7. QED
    BY <2>1, <2>2, <2>3, <2>4, <2>5, <2>6
<1>4. CASE OtherLength
  <2>1. /\ msgStage = "wire" /\ peeked = "Invalid" /\ message.sender = "steam"
        /\ msgData = packet.bytes
        /\ UNCHANGED <<msgStage, loggedOn, message, packet, peeked, fields>>
    BY <1>4 DEF OtherLength
  <2>2. message \in MessageRecords /\ UsableMessage(message)
    BY <1>0, <2>1 DEF MessageInv, MessageKept
  <2>3. /\ packet.bytes = TypeBytes \o SentBytes(message)
        /\ IsProto(message) => packet.protoLength = Len(StoreAll(ProtoFields(message.ids)))
    BY <2>1, <2>2 DEF MessageInv, DataKept
  <2>4. PICK B : B = MessageBytes
    OBVIOUS
  <2>5. PICK x \in Seq(B) : x = ExcessBytes
    BY <2>2, <2>4, MessageBytesAre
  <2>6. PICK b \in Seq(B) : b = packet.bytes
    BY <2>2, <2>3, <2>4, MessageBytesAre, ConcatFacts
  <2>7. PICK bx \in Seq(B) : bx = b \o x
    BY ConcatFacts
  <2>8. \/ \E n \in 0..(Len(b) - 1) : msgData' = SubSeq(b, 1, n)
        \/ msgData' = bx
    BY <1>4, <2>1, <2>5, <2>6, <2>7 DEF OtherLength, ExcessBytes, Excess
  <2>9. msgData' \in Seq(B) /\ IsPrefix(msgData', bx)
    <3>1. CASE msgData' = bx
      BY <3>1, PrefixOrdered DEF PrefixOrder
    <3>2. CASE \E n \in 0..(Len(b) - 1) : msgData' = SubSeq(b, 1, n)
      <4>1. PICK n \in 0..(Len(b) - 1) : msgData' = SubSeq(b, 1, n)
        BY <3>2
      <4>2. n \in 0..Len(b)
        OBVIOUS
      <4>3. msgData' \in Prefixes(b)
        BY <4>1, <4>2 DEF Prefixes
      <4>4. msgData' \in Seq(B) /\ IsPrefix(msgData', b)
        BY <4>3, PrefixesAre
      <4>5. IsPrefix(b, bx)
        BY <2>7, FirstBegins
      <4>6. QED
        BY <4>4, <4>5, PrefixOrdered DEF PrefixOrder
    <3>3. QED
      BY <2>8, <3>1, <3>2
  <2>10. ~FromUs(message)
    BY <2>1 DEF FromUs
  <2>11. Comes(msgData', TypeBytes \o SentBytes(message), message)
    BY <2>3, <2>4, <2>5, <2>6, <2>7, <2>9, <2>10 DEF Comes
  <2>12. QED
    BY <2>1, <2>3, <2>11
<1>5. CASE Peek
  <2>1. /\ msgStage = "wire" /\ peeked = "Invalid"
        /\ UNCHANGED <<loggedOn, message, packet, msgData, fields>>
        /\ IF NotEnough(4) THEN msgStage' = "refused" /\ UNCHANGED peeked
                           ELSE peeked' = packet.type /\ UNCHANGED msgStage
    BY <1>5 DEF Peek
  <2>2. message \in MessageRecords /\ UsableMessage(message)
    BY <1>0, <2>1 DEF MessageInv, MessageKept
  <2>3. /\ packet.bytes = TypeBytes \o SentBytes(message)
        /\ IsProto(message) => packet.protoLength = Len(StoreAll(ProtoFields(message.ids)))
        /\ Comes(msgData, TypeBytes \o SentBytes(message), message)
    BY <2>1, <2>2 DEF MessageInv, DataKept
  <2>4. Len(msgData) \in Nat
    BY <2>3 DEF Comes
  <2>5. FromUs(message) => Len(msgData) >= 4
    <3>1. /\ TypeBytes \in Seq(MessageBytes) /\ SentBytes(message) \in Seq(MessageBytes)
          /\ Len(TypeBytes) = 4
      BY <2>2, MessageBytesAre
    <3>2. FromUs(message) => Len(msgData) >= Len(TypeBytes)
      BY <2>3, <3>1, ComesWhole
    <3>3. QED
      BY <3>1, <3>2
  <2>6. CASE NotEnough(4)
    <3>1. ~FromUs(message)
      BY <2>4, <2>5, <2>6 DEF NotEnough
    <3>2. QED
      BY <2>1, <2>3, <2>6, <3>1
  <2>7. CASE ~NotEnough(4)
    <3>1. Len(msgData) >= 4
      BY <2>4, <2>7 DEF NotEnough
    <3>2. QED
      BY <2>1, <2>3, <2>7, <3>1
  <2>8. QED
    BY <2>6, <2>7
<1>6. CASE DeserializeType
  <2>1. /\ msgStage = "wire" /\ peeked # "Invalid" /\ msgData' = After(4)
        /\ UNCHANGED <<loggedOn, message, packet, peeked, fields>>
        /\ IF packet.type = peeked THEN msgStage' = "header" ELSE msgStage' = "assert"
    BY <1>6 DEF DeserializeType
  <2>2. /\ message \in MessageRecords /\ UsableMessage(message)
        /\ packet.type = message.type /\ peeked \in {"Invalid", message.type}
    BY <1>0, <2>1 DEF MessageInv, MessageKept
  <2>3. /\ packet.bytes = TypeBytes \o SentBytes(message)
        /\ IsProto(message) => packet.protoLength = Len(StoreAll(ProtoFields(message.ids)))
        /\ Comes(msgData, TypeBytes \o SentBytes(message), message)
        /\ Len(msgData) >= 4
    BY <2>1, <2>2 DEF MessageInv, DataKept
  <2>4. /\ TypeBytes \in Seq(MessageBytes) /\ SentBytes(message) \in Seq(MessageBytes)
        /\ Len(TypeBytes) = 4
    BY <2>2, MessageBytesAre
  <2>5. Comes(SubSeq(msgData, Len(TypeBytes) + 1, Len(msgData)), SentBytes(message), message)
    BY <2>2, <2>3, <2>4, ComesOn
  <2>6. Comes(msgData', SentBytes(message), message)
    BY <2>1, <2>4, <2>5 DEF After
  <2>7. msgStage' = "header"
    BY <2>1, <2>2
  <2>8. QED
    BY <2>1, <2>3, <2>6, <2>7
<1>7. ASSUME UNCHANGED <<message, packet>>, msgStage \in {"header", "content"},
             msgStage' \in {"refused", "content", "done"},
             msgStage' = "refused" => ~FromUs(message),
             msgStage' = "content" => Comes(msgData', ContentBytes(message), message)
      PROVE  DataKept'
  <2>1. message \in MessageRecords /\ UsableMessage(message)
    BY <1>0, <1>7 DEF MessageInv, MessageKept
  <2>2. /\ packet.bytes = TypeBytes \o SentBytes(message)
        /\ IsProto(message) => packet.protoLength = Len(StoreAll(ProtoFields(message.ids)))
    BY <1>7, <2>1 DEF MessageInv, DataKept
  <2>3. QED
    BY <1>7, <2>2 DEF DataKept
<1>8. CASE DeserializeHeader
  <2>1. /\ msgStage = "header" /\ msgStage' \in {"refused", "content"}
        /\ UNCHANGED <<loggedOn, message, packet, peeked>>
    BY <1>8 DEF DeserializeHeader
  <2>2. UsableMessage(message)
    BY <1>0, <2>1
  <2>3. /\ msgStage' = "refused" => ~FromUs(message)
        /\ msgStage' = "content" => Comes(msgData', ContentBytes(message), message)
    BY <1>8, <2>2, HeaderRead
  <2>4. DataKept'
    BY <1>7, <2>1, <2>3
  <2>5. QED
    BY <1>0, <2>4 DEF DataKept
<1>9. CASE DeserializeProtoHeader
  <2>1. /\ msgStage = "header" /\ msgStage' \in {"refused", "content"}
        /\ UNCHANGED <<loggedOn, message, packet, peeked>>
    BY <1>9 DEF DeserializeProtoHeader
  <2>2. UsableMessage(message)
    BY <1>0, <2>1
  <2>3. /\ msgStage' = "refused" => ~FromUs(message)
        /\ msgStage' = "content" => Comes(msgData', ContentBytes(message), message)
    BY <1>9, <2>2, ProtoHeaderRead
  <2>4. DataKept'
    BY <1>7, <2>1, <2>3
  <2>5. QED
    BY <1>0, <2>4 DEF DataKept
<1>10. CASE DeserializeContent
  <2>1. /\ msgStage = "content" /\ msgStage' \in {"refused", "done"}
        /\ UNCHANGED <<loggedOn, message, packet, peeked>>
    BY <1>10 DEF DeserializeContent
  <2>2. UsableMessage(message)
    BY <1>0, <2>1
  <2>3. msgStage' = "refused" => ~FromUs(message)
    BY <1>10, <2>2, ContentRead
  <2>4. DataKept'
    BY <1>7, <2>1, <2>3
  <2>5. QED
    BY <1>0, <2>4 DEF DataKept
<1>11. CASE UNCHANGED msgVars
  BY <1>0, <1>11 DEF msgVars, MessageInv, DataKept
<1>12. QED
  BY <1>1, <1>2, <1>3, <1>4, <1>5, <1>6, <1>8, <1>9, <1>10, <1>11 DEF MsgNext

(* FieldsKept is inductive.                                                *)
LEMMA FieldsStep ==
  ASSUME MessageAssumption, MessageInv, [MsgNext]_msgVars
  PROVE  FieldsKept'
<1>1. ASSUME NEW t \in MessageTypes, NEW sender \in {"us", "steam"}, Construct(t, sender)
      PROVE  FieldsKept'
  BY <1>1 DEF Construct, MessageInv, FieldsKept
<1>2. CASE LogOn
  BY <1>2 DEF LogOn, MessageInv, FieldsKept
<1>3. CASE SendMessage
  <2>1. msgStage = "make" /\ msgStage' = "wire" /\ UNCHANGED fields
    BY <1>3 DEF SendMessage
  <2>2. QED
    BY <2>1 DEF MessageInv, FieldsKept
<1>4. CASE OtherLength
  <2>1. msgStage = "wire" /\ UNCHANGED <<msgStage, fields>>
    BY <1>4 DEF OtherLength
  <2>2. QED
    BY <2>1 DEF MessageInv, FieldsKept
<1>5. CASE Peek
  <2>1. msgStage = "wire" /\ msgStage' \in {"wire", "refused"} /\ UNCHANGED fields
    BY <1>5 DEF Peek
  <2>2. QED
    BY <2>1 DEF MessageInv, FieldsKept
<1>6. CASE DeserializeType
  <2>1. msgStage = "wire" /\ msgStage' \in {"header", "assert"} /\ UNCHANGED fields
    BY <1>6 DEF DeserializeType
  <2>2. QED
    BY <2>1 DEF MessageInv, FieldsKept
<1>7. CASE DeserializeHeader
  <2>1. /\ msgStage = "header" /\ msgStage' \in {"refused", "content"} /\ UNCHANGED message
    BY <1>7 DEF DeserializeHeader
  <2>2. fields = <<>>
    BY <2>1 DEF MessageInv, FieldsKept
  <2>3. UsableMessage(message) =>
          /\ msgStage' = "refused" => fields' = fields
          /\ msgStage' = "content" => ReadsFields(fields', Range(ReadHeader(message)))
    BY <1>7, HeaderRead
  <2>4. QED
    BY <2>1, <2>2, <2>3 DEF FieldsKept
<1>8. CASE DeserializeProtoHeader
  <2>1. /\ msgStage = "header" /\ msgStage' \in {"refused", "content"} /\ UNCHANGED message
    BY <1>8 DEF DeserializeProtoHeader
  <2>2. fields = <<>>
    BY <2>1 DEF MessageInv, FieldsKept
  <2>3. UsableMessage(message) =>
          /\ msgStage' = "refused" => fields' = fields
          /\ msgStage' = "content" => ReadsFields(fields', Range(ReadHeader(message)))
    BY <1>8, ProtoHeaderRead
  <2>4. QED
    BY <2>1, <2>2, <2>3 DEF FieldsKept
<1>9. CASE DeserializeContent
  <2>1. /\ msgStage = "content" /\ msgStage' \in {"refused", "done"} /\ UNCHANGED message
    BY <1>9 DEF DeserializeContent
  <2>2. UsableMessage(message) => ReadsFields(fields, Range(ReadHeader(message)))
    BY <2>1 DEF MessageInv, FieldsKept
  <2>3. UsableMessage(message) =>
          /\ msgStage' = "refused" => fields' = fields
          /\ msgStage' = "done" => ContentReads(fields', message)
    BY <1>9, ContentRead
  <2>4. QED
    BY <2>1, <2>2, <2>3 DEF FieldsKept
<1>10. CASE UNCHANGED msgVars
  BY <1>10 DEF msgVars, MessageInv, FieldsKept
<1>11. QED
  BY <1>1, <1>2, <1>3, <1>4, <1>5, <1>6, <1>7, <1>8, <1>9, <1>10 DEF MsgNext

(* A field that was read is one that was sent.                             *)
LEMMA FieldWasSent ==
  ASSUME MessageAssumption, message \in MessageRecords, UsableMessage(message),
         NEW g \in Range(ReadHeader(message)) \cup Range(ContentOf[message.type])
  PROVE  g.name \in DOMAIN SentFields /\ SentFields[g.name] = StoreField(g)
<1>1. PICK hs : hs = HeaderFields(message)
  OBVIOUS
<1>2. PICK cs : cs = ContentOf[message.type]
  OBVIOUS
<1>3. PICK rs : rs = ReadHeader(message)
  OBVIOUS
<1>4. HeaderSound(rs) /\ ContentSound(cs)
  BY <1>2, <1>3, HeaderIs, ContentIs
<1>5. PICK F : F = MessageFields
  OBVIOUS
<1>6. rs \in Seq(F) /\ cs \in Seq(F)
  BY <1>4, <1>5 DEF HeaderSound, ContentSound
<1>7. hs \in Seq(F) /\ Range(rs) \subseteq Range(hs) /\ Range(hs) \subseteq Range(rs) \cup {LengthField}
  <2>1. CASE ~IsProto(message)
    BY <1>1, <1>3, <1>6, <2>1, HeaderIs
  <2>2. CASE IsProto(message)
    <3>1. <<LengthField>> \in Seq(F) /\ Range(<<LengthField>>) = {LengthField}
      <4>1. LengthField \in F
        BY <1>5, OtherFields
      <4>2. PICK l : l = <<LengthField>>
        OBVIOUS
      <4>3. l \in Seq(F) /\ Len(l) = 1 /\ l[1] = LengthField
        BY <4>1, <4>2
      <4>4. \A x : x \in Range(l) <=> x = LengthField
        BY <4>3, RangeIs
      <4>5. QED
        BY <4>2, <4>3, <4>4
    <3>2. hs = <<LengthField>> \o rs
      BY <1>1, <1>3, <2>2, HeaderIs
    <3>3. PICK l \in Seq(F) : l = <<LengthField>>
      BY <3>1
    <3>4. l \o rs \in Seq(F) /\ Range(l \o rs) = Range(l) \cup Range(rs)
      BY <1>6, RangeConcat
    <3>5. QED
      BY <3>1, <3>2, <3>3, <3>4
  <2>3. QED
    BY <2>1, <2>2
<1>8. PICK fs \in Seq(F) : fs = hs \o cs
  BY <1>6, <1>7, ConcatFacts
<1>9. Range(fs) = Range(hs) \cup Range(cs)
  BY <1>6, <1>7, <1>8, RangeConcat
<1>10. ASSUME NEW f \in Range(fs), f.name = g.name
       PROVE  f = g
  <2>1. f \in Range(rs) \cup {LengthField} \cup Range(cs)
    BY <1>7, <1>9
  <2>2. f # LengthField
    <3>1. CASE g \in Range(rs)
      BY <1>4, <1>10, <3>1, OtherFields DEF HeaderSound
    <3>2. CASE g \in Range(cs)
      <4>1. g.name \notin HeaderNames /\ "protoLength" \in HeaderNames
        BY <1>4, <3>2 DEF ContentSound, HeaderNames
      <4>2. QED
        BY <1>10, <4>1, OtherFields
    <3>3. QED
      BY <1>2, <1>3, <3>1, <3>2
  <2>3. ASSUME NEW ss \in Seq(F), DistinctNames(ss), f \in Range(ss), g \in Range(ss)
        PROVE  f = g
    <3>1. PICK i \in 1..Len(ss) : f = ss[i]
      BY <2>3, RangeIs
    <3>2. PICK j \in 1..Len(ss) : g = ss[j]
      BY <2>3, RangeIs
    <3>3. i = j
      BY <1>10, <2>3, <3>1, <3>2 DEF DistinctNames
    <3>4. QED
      BY <3>1, <3>2, <3>3
  <2>4. CASE f \in Range(rs) /\ g \in Range(rs)
    BY <1>4, <1>6, <2>3, <2>4 DEF HeaderSound
  <2>5. CASE f \in Range(cs) /\ g \in Range(cs)
    BY <1>4, <1>6, <2>3, <2>5 DEF ContentSound
  <2>6. CASE f \in Range(rs) /\ g \in Range(cs)
    BY <1>4, <1>10, <2>6 DEF HeaderSound, ContentSound
  <2>7. CASE f \in Range(cs) /\ g \in Range(rs)
    BY <1>4, <1>10, <2>7 DEF HeaderSound, ContentSound
  <2>8. QED
    BY <1>2, <1>3, <2>1, <2>2, <2>4, <2>5, <2>6, <2>7
<1>11. g \in Range(fs)
  BY <1>2, <1>3, <1>7, <1>9
<1>12. g.name # "protoLength"
  <2>1. CASE g \in Range(rs)
    BY <1>4, <2>1 DEF HeaderSound
  <2>2. CASE g \in Range(cs)
    <3>1. g.name \notin HeaderNames /\ "protoLength" \in HeaderNames
      BY <1>4, <2>2 DEF ContentSound, HeaderNames
    <3>2. QED
      BY <3>1
  <2>3. QED
    BY <1>2, <1>3, <2>1, <2>2
<1>13. PICK k \in 1..Len(fs) : g = fs[k]
  BY <1>11, RangeIs
<1>14. g.name \in {fs[i].name : i \in 1..Len(fs)} \ {"protoLength"}
  BY <1>12, <1>13
<1>15. SentFields = [name \in {fs[i].name : i \in 1..Len(fs)} \ {"protoLength"} |->
                       StoreField(fs[CHOOSE i \in 1..Len(fs) : fs[i].name = name])]
  BY <1>1, <1>2, <1>8 DEF SentFields
<1> DEFINE j == CHOOSE i \in 1..Len(fs) : fs[i].name = g.name
<1>16. j \in 1..Len(fs) /\ fs[j].name = g.name
  BY <1>13
<1>17. g.name \in DOMAIN SentFields /\ SentFields[g.name] = StoreField(fs[j])
  BY <1>14, <1>15
<1> HIDE DEF j
<1>18. fs[j] \in Range(fs)
  BY <1>16, RangeIs
<1>19. fs[j] = g
  BY <1>10, <1>16, <1>18
<1>20. QED
  BY <1>17, <1>19

(* What a reader has taken is what was sent.                               *)
LEMMA MessagesAreRead ==
  ASSUME MessageAssumption, MessageInv
  PROVE  MessagesReadBack
<1>1. msgStage # "assert"
  BY DEF MessageInv, MessageKept
<1>2. SUFFICES ASSUME message # <<>>, UsableMessage(message)
               PROVE  /\ \A f \in DOMAIN fields :
                            f = "excess" \/ (f \in DOMAIN SentFields /\ fields[f] = SentFields[f])
                      /\ msgStage = "done" =>
                           /\ \A k \in 1..Len(HeaderFields(message)) :
                                HeaderFields(message)[k].name \in DOMAIN fields \cup {"protoLength"}
                           /\ HeaderOf[message.type] # "ProtoBuf" =>
                                DOMAIN SentFields \subseteq DOMAIN fields
                      /\ msgStage = "refused" => message.sender = "steam"
  BY <1>1 DEF MessagesReadBack, UsableMessage
<1>3. message \in MessageRecords
  BY <1>2 DEF MessageInv, MessageKept
<1>4. PICK cs : cs = ContentOf[message.type]
  OBVIOUS
<1>5. PICK rs : rs = ReadHeader(message)
  OBVIOUS
<1>6. ASSUME NEW G \in SUBSET (Range(rs) \cup Range(cs) \cup {Excess}), ReadsFields(fields, G)
      PROVE  \A f \in DOMAIN fields :
               f = "excess" \/ (f \in DOMAIN SentFields /\ fields[f] = SentFields[f])
  <2>1. TAKE f \in DOMAIN fields
  <2>2. PICK g \in G : f = g.name
    BY <1>6 DEF ReadsFields
  <2>3. fields[f] = StoreField(g)
    BY <1>6, <2>2 DEF ReadsFields
  <2>4. CASE g = Excess
    BY <2>2, <2>4, OtherFields
  <2>5. CASE g \in Range(rs) \cup Range(cs)
    BY <1>2, <1>3, <1>4, <1>5, <2>2, <2>3, <2>5, FieldWasSent
  <2>6. QED
    BY <2>4, <2>5
<1>7. msgStage = "make" => fields = <<>>
  BY DEF MessageInv, FieldsKept
<1>8. fields = <<>> => ReadsFields(fields, {})
  BY DEF ReadsFields
<1>9. \A f \in DOMAIN fields : f = "excess" \/ (f \in DOMAIN SentFields /\ fields[f] = SentFields[f])
  <2>1. CASE fields = <<>>
    BY <1>6, <1>8, <2>1
  <2>2. CASE fields # <<>> /\ msgStage # "done"
    <3>1. ReadsFields(fields, Range(rs))
      BY <1>1, <1>2, <1>5, <1>7, <2>2 DEF MessageInv, MessageKept, FieldsKept
    <3>2. QED
      BY <1>6, <3>1
  <2>3. CASE msgStage = "done"
    <3>1. ContentReads(fields, message)
      BY <1>2, <2>3 DEF MessageInv, FieldsKept
    <3>2. PICK G \in SUBSET (Range(cs) \cup {Excess}) : ReadsFields(fields, Range(rs) \cup G)
      BY <1>4, <1>5, <3>1 DEF ContentReads
    <3>3. QED
      BY <1>6, <3>2
  <2>4. QED
    BY <2>1, <2>2, <2>3
<1>10. msgStage = "refused" => message.sender = "steam"
  BY <1>2, <1>3 DEF MessageInv, DataKept, FromUs, MessageRecords
<1>11. ASSUME msgStage = "done"
       PROVE  /\ \A k \in 1..Len(HeaderFields(message)) :
                   HeaderFields(message)[k].name \in DOMAIN fields \cup {"protoLength"}
              /\ HeaderOf[message.type] # "ProtoBuf" => DOMAIN SentFields \subseteq DOMAIN fields
  <2>1. ContentReads(fields, message)
    BY <1>2, <1>11 DEF MessageInv, FieldsKept
  <2>2. PICK G \in SUBSET (Range(cs) \cup {Excess}) : /\ ReadsFields(fields, Range(rs) \cup G)
                                                      /\ ~IsProto(message) => G = Range(cs)
    BY <1>4, <1>5, <2>1 DEF ContentReads
  <2>3. PICK hs : hs = HeaderFields(message)
    OBVIOUS
  <2>4. PICK F : F = MessageFields
    OBVIOUS
  <2>5. rs \in Seq(F) /\ cs \in Seq(F)
    BY <1>2, <1>3, <1>4, <1>5, <2>4, HeaderIs, ContentIs DEF HeaderSound, ContentSound
  <2>6. \A k \in 1..Len(hs) : hs[k].name \in DOMAIN fields \cup {"protoLength"}
    <3>1. CASE ~IsProto(message)
      <4>1. hs = rs
        BY <1>2, <1>3, <1>5, <2>3, <3>1, HeaderIs
      <4>2. \A k \in 1..Len(rs) : rs[k] \in Range(rs)
        BY <2>5, RangeIs
      <4>3. QED
        BY <2>2, <4>1, <4>2 DEF ReadsFields
    <3>2. CASE IsProto(message)
      <4>1. PICK l : l = <<LengthField>>
        OBVIOUS
      <4>2. l \in Seq(F) /\ Len(l) = 1 /\ l[1] = LengthField
        BY <2>4, <4>1, OtherFields
      <4>3. hs = l \o rs
        BY <1>2, <1>3, <1>5, <2>3, <3>2, <4>1, HeaderIs
      <4>4. Range(hs) = Range(l) \cup Range(rs) /\ hs \in Seq(F)
        BY <2>5, <4>2, <4>3, RangeConcat
      <4>5. \A x \in Range(l) : x = LengthField
        BY <4>2, RangeIs
      <4>6. ASSUME NEW k \in 1..Len(hs)
            PROVE  hs[k].name \in DOMAIN fields \cup {"protoLength"}
        <5>1. hs[k] \in Range(hs)
          BY <4>4, RangeIs
        <5>2. CASE hs[k] \in Range(rs)
          BY <2>2, <5>2 DEF ReadsFields
        <5>3. CASE hs[k] = LengthField
          BY <5>3, OtherFields
        <5>4. QED
          BY <4>4, <4>5, <5>1, <5>2, <5>3
      <4>7. QED
        BY <4>6
    <3>3. QED
      BY <3>1, <3>2
  <2>7. ~IsProto(message) => DOMAIN SentFields \subseteq DOMAIN fields
    <3>1. SUFFICES ASSUME ~IsProto(message) PROVE DOMAIN SentFields \subseteq DOMAIN fields
      OBVIOUS
    <3>2. HeaderFields(message) = rs
      BY <1>2, <1>3, <1>5, <3>1, HeaderIs
    <3>3. PICK fs \in Seq(F) : fs = rs \o cs
      BY <2>5, ConcatFacts
    <3>4. DOMAIN SentFields \subseteq {fs[i].name : i \in 1..Len(fs)}
      BY <1>4, <3>2, <3>3 DEF SentFields
    <3>5. Range(fs) = Range(rs) \cup Range(cs)
      BY <2>5, <3>3, RangeConcat
    <3>6. \A i \in 1..Len(fs) : fs[i] \in Range(rs) \cup Range(cs)
      BY <3>5, RangeIs
    <3>7. \A g \in Range(rs) \cup Range(cs) : g.name \in DOMAIN fields
      BY <2>2, <3>1 DEF ReadsFields
    <3>8. QED
      BY <3>4, <3>6, <3>7
  <2>8. QED
    BY <2>3, <2>6, <2>7 DEF IsProto
<1>12. QED
  BY <1>9, <1>10, <1>11

(* Every field of a message that is read has the bytes it was sent with,   *)
(* and what we send is never refused (Message.cpp:62-197,                  *)
(* Message.hpp:379-478, Serialize.hpp:56-229).                             *)
THEOREM MessagesAreReadBack ==
  ASSUME MessageAssumption
  PROVE  MsgSpec => [](MsgTypeOK /\ MessagesReadBack)
<1>1. MsgInit => MessageInv
  BY DEF MsgInit, MessageInv, MessageKept, DataKept, FieldsKept
<1>2. MessageInv /\ [MsgNext]_msgVars => MessageInv'
  <2>1. SUFFICES ASSUME MessageInv, [MsgNext]_msgVars PROVE MessageInv'
    OBVIOUS
  <2>2. MessageKept'
    BY <2>1, MessageStep DEF MessageInv
  <2>3. DataKept'
    BY <2>1, <2>2, PacketStep
  <2>4. FieldsKept'
    BY <2>1, FieldsStep
  <2>5. QED
    BY <2>2, <2>3, <2>4 DEF MessageInv
<1>3. MessageInv => MsgTypeOK /\ MessagesReadBack
  <2>1. SUFFICES ASSUME MessageInv PROVE MsgTypeOK /\ MessagesReadBack
    OBVIOUS
  <2>2. peeked \in MessageTypes \cup {"Invalid"}
    BY <2>1 DEF MessageInv, MessageKept, MessageRecords
  <2>3. MsgTypeOK
    BY <2>1, <2>2 DEF MessageInv, MessageKept, MsgTypeOK
  <2>4. QED
    BY <2>1, <2>3, MessagesAreRead
<1>4. QED
  BY <1>1, <1>2, <1>3, PTL DEF MsgSpec

-----------------------------------------------------------------------------
(* KeyValues                                                               *)

(* What starts with a sequence and its next element.                       *)
LEMMA PrefixOfAppend ==
  ASSUME NEW T, NEW s \in Seq(T), NEW x \in T, NEW r \in Seq(T)
  PROVE  /\ Append(s, x) \in Seq(T) /\ Append(s, x) # <<>> /\ Append(s, x) # s
         /\ IsPrefix(s, Append(s, x)) /\ ~IsPrefix(Append(s, x), s)
         /\ IsPrefix(r, Append(s, x)) <=> IsPrefix(r, s) \/ r = Append(s, x)
<1>0. Append(s, x) \in Seq(T)
  OBVIOUS
<1>1. PICK t \in Seq(T) : t = Append(s, x)
  BY <1>0
<1>2. Len(s) \in Nat /\ Len(r) \in Nat /\ Len(t) = Len(s) + 1
  BY <1>1
<1>3. \A i \in 1..Len(s) : t[i] = s[i]
  BY <1>1
<1>3a. t[Len(s) + 1] = x
  BY <1>1
<1>4. IsPrefix(s, t)
  BY <1>2, <1>3, PrefixIs
<1>5. ~IsPrefix(t, s)
  BY <1>2, PrefixIs
<1>6. ASSUME IsPrefix(r, s)
      PROVE  IsPrefix(r, t)
  BY <1>4, <1>6, PrefixOrdered DEF PrefixOrder
<1>7. ASSUME IsPrefix(r, t), ~IsPrefix(r, s)
      PROVE  r = t
  <2>1. Len(r) <= Len(t) /\ \A i \in 1..Len(r) : r[i] = t[i]
    BY <1>7, PrefixIs
  <2>2. ~(Len(r) <= Len(s))
    <3>1. SUFFICES ASSUME Len(r) <= Len(s)
                   PROVE  FALSE
      OBVIOUS
    <3>2. \A i \in 1..Len(r) : r[i] = s[i]
      BY <3>1, <2>1, <1>2, <1>3
    <3>3. QED
      BY <3>1, <3>2, <1>7, PrefixIs
  <2>3. Len(r) = Len(t)
    BY <2>1, <2>2, <1>2
  <2>4. QED
    BY <2>1, <2>3, SeqEqual
<1>8. IsPrefix(t, t)
  BY PrefixOrdered DEF PrefixOrder
<1>9. t # <<>> /\ t # s
  BY <1>2
<1>10. QED
  BY <1>1, <1>4, <1>5, <1>6, <1>7, <1>8, <1>9

(* All but the last element, and the last.                                 *)
LEMMA FrontIs ==
  ASSUME NEW T, NEW s \in Seq(T), s # <<>>
  PROVE  /\ Front(s) \in Seq(T) /\ Last(s) \in T /\ s = Append(Front(s), Last(s))
         /\ Len(s) = Len(Front(s)) + 1
<1>1. Len(s) \in Nat \ {0}
  BY EmptySeq
<1>2. PICK u : u = SubSeq(s, 1, Len(s) - 1)
  OBVIOUS
<1>2c. Len(s) - 1 \in Nat /\ Len(s) - 1 <= Len(s)
  BY <1>1
<1>2a. PICK n \in Nat : n = Len(s) - 1 /\ n <= Len(s)
  BY <1>2c
<1>2b. u \in Seq(T) /\ Len(u) = n /\ \A i \in 1..n : u[i] = s[i]
  BY <1>2, <1>2a
<1>3. u \in Seq(T) /\ Len(u) = Len(s) - 1 /\ \A i \in 1..(Len(s) - 1) : u[i] = s[i]
  BY <1>2a, <1>2b
<1>4. s[Len(s)] \in T
  BY <1>1
<1>5. PICK v \in Seq(T) : v = Append(u, s[Len(s)])
  BY <1>3, <1>4
<1>6. Len(v) = Len(s) /\ \A i \in 1..Len(s) : v[i] = s[i]
  BY <1>1, <1>3, <1>4, <1>5
<1>7. v = s
  BY <1>6, SeqEqual
<1>8. QED
  BY <1>1, <1>2, <1>3, <1>4, <1>5, <1>7 DEF Front, Last

(* What is before the last element added.                                  *)
LEMMA FrontOfAppend ==
  ASSUME NEW T, NEW s \in Seq(T), NEW x \in T
  PROVE  Front(Append(s, x)) = s /\ Last(Append(s, x)) = x
<1>0. Append(s, x) \in Seq(T)
  OBVIOUS
<1>1. PICK t \in Seq(T) : t = Append(s, x)
  BY <1>0
<1>2. Len(s) \in Nat /\ Len(t) = Len(s) + 1 /\ t[Len(s) + 1] = x
  BY <1>1
<1>3. \A i \in 1..Len(s) : t[i] = s[i]
  BY <1>1
<1>4. PICK u : u = SubSeq(t, 1, Len(t) - 1)
  OBVIOUS
<1>5. u \in Seq(T) /\ Len(u) = Len(s) /\ \A i \in 1..Len(s) : u[i] = t[i]
  BY <1>2, <1>4
<1>6. u = s
  BY <1>3, <1>5, SeqEqual
<1>7. QED
  BY <1>1, <1>2, <1>4, <1>6 DEF Front, Last

(* A child is its parent and its own name.                                 *)
LEMMA ChildIs ==
  ASSUME NEW T, NEW s \in Seq(T), NEW q \in Seq(T), IsPrefix(s, q), Len(q) = Len(s) + 1
  PROVE  Last(q) \in T /\ q = Append(s, Last(q))
<1>1. Len(s) \in Nat /\ Len(q) \in Nat /\ \A i \in 1..Len(s) : s[i] = q[i]
  BY PrefixIs
<1>2. q[Len(q)] \in T
  BY <1>1
<1>2a. Append(s, q[Len(q)]) \in Seq(T)
  BY <1>2
<1>3. PICK v \in Seq(T) : v = Append(s, q[Len(q)])
  BY <1>2a
<1>4. Len(v) = Len(q) /\ \A i \in 1..Len(q) : v[i] = q[i]
  BY <1>1, <1>2, <1>3
<1>5. v = q
  BY <1>4, SeqEqual
<1>6. QED
  BY <1>2, <1>3, <1>5 DEF Last

(* A longer path goes through a child.                                     *)
LEMMA ThroughChild ==
  ASSUME NEW T, NEW s \in Seq(T), NEW q \in Seq(T), IsPrefix(s, q), s # q
  PROVE  \E x \in T : IsPrefix(Append(s, x), q)
<1>1. Len(s) \in Nat /\ Len(q) \in Nat /\ Len(s) <= Len(q) /\ \A i \in 1..Len(s) : s[i] = q[i]
  BY PrefixIs
<1>2. Len(s) # Len(q)
  BY <1>1, SeqEqual
<1>3. Len(s) + 1 \in 1..Len(q)
  BY <1>1, <1>2
<1>4. PICK x \in T : x = q[Len(s) + 1]
  BY <1>3
<1>5a. Append(s, x) \in Seq(T)
  OBVIOUS
<1>5. PICK v \in Seq(T) : v = Append(s, x)
  BY <1>5a
<1>6. Len(v) = Len(s) + 1 /\ \A i \in 1..Len(v) : v[i] = q[i]
  BY <1>1, <1>4, <1>5
<1>7. IsPrefix(v, q)
  BY <1>1, <1>3, <1>6, PrefixIs
<1>8. QED
  BY <1>5, <1>7

-----------------------------------------------------------------------------
(* Trees                                                                   *)

\* The names in a tree, the paths they make, and what is there.
KvNames == Names \cup {"root"}
KvPaths == Seq(KvNames)
KvItems == Leaves \cup {NodeItem}

(* What is above an item of the tree is a node of it, up to the root.      *)
TreeInv(t) ==
  /\ t \in [DOMAIN t -> KvItems] /\ DOMAIN t \subseteq KvPaths
  /\ Root \in DOMAIN t /\ t[Root] = NodeItem
  /\ \A q \in DOMAIN t : IsPrefix(Root, q)
  /\ \A q \in DOMAIN t : \A r \in KvPaths :
        IsPrefix(r, q) /\ r # q /\ IsPrefix(Root, r) => r \in DOMAIN t /\ t[r] = NodeItem

(* An item is a node or has a value.                                       *)
LEMMA ItemsAre ==
  ASSUME KeyValueAssumption, NEW item \in KvItems
  PROVE  /\ item = [type |-> item.type, value |-> item.value]
         /\ item.type = "None" <=> item = NodeItem
         /\ item.type # "End"
<1>1. NodeItem = [type |-> "None", value |-> "none"]
  BY DEF NodeItem
<1>2. NodeItem.type = "None" /\ NodeItem.value = "none"
  BY <1>1
<1>3. CASE item = NodeItem
  BY <1>1, <1>2, <1>3
<1>4. CASE item \in Leaves
  <2>1. item = [type |-> item.type, value |-> item.value]
        /\ item.type \in {"String", "Int32", "UInt64", "Int64"}
    BY <1>4 DEF KeyValueAssumption
  <2>2. QED
    BY <2>1, <1>2
<1>5. QED
  BY <1>3, <1>4 DEF KvItems

(* The root of a tree is a node without a parent.                          *)
LEMMA RootIs ==
  Root \in KvPaths /\ Root # <<>> /\ Len(Root) = 1 /\ Root = Append(<<>>, "root")
  BY DEF Root, KvPaths, KvNames

(* A tree remains one when an item is put below one of its nodes.          *)
LEMMA PutInTree ==
  ASSUME KeyValueAssumption, NEW t, TreeInv(t), NEW p \in DOMAIN t, t[p] = NodeItem,
         NEW name \in KvNames, NEW item \in KvItems
  PROVE  TreeInv(Put(t, Append(p, name), item))
<1>0. DOMAIN t \subseteq KvPaths /\ p \in KvPaths
  BY DEF TreeInv
<1>1. PICK q : q = Append(p, name)
  OBVIOUS
<1>2. q \in KvPaths
  BY <1>0, <1>1, PrefixOfAppend DEF KvPaths
<1>3. \A r \in KvPaths : IsPrefix(r, q) <=> IsPrefix(r, p) \/ r = q
  BY <1>0, <1>1, PrefixOfAppend DEF KvPaths
<1>4. IsPrefix(p, q) /\ ~IsPrefix(q, p) /\ q # p
  BY <1>0, <1>1, PrefixOfAppend DEF KvPaths
<1>5. PrefixOrder(KvNames)
  BY PrefixOrdered
<1>6. PICK u : u = Put(t, q, item)
  OBVIOUS
<1>7. /\ DOMAIN u = (DOMAIN t \ Descendants(t, q)) \cup {q}
      /\ u[q] = item
      /\ \A r \in DOMAIN u : r # q => r \in DOMAIN t /\ u[r] = t[r]
      /\ u = [r \in DOMAIN u |-> u[r]]
  BY <1>6 DEF Put
<1>8. \A r : r \in Descendants(t, q) <=> r \in DOMAIN t /\ IsPrefix(q, r) /\ r # q
  BY DEF Descendants, IsStrictPrefix
<1>9. \A r \in KvPaths : IsPrefix(r, p) => r \notin Descendants(t, q) /\ r # q
  <2>1. TAKE r \in KvPaths
  <2>2. HAVE IsPrefix(r, p)
  <2>3. ~IsPrefix(q, r)
    BY <2>2, <1>0, <1>2, <1>4, <1>5 DEF PrefixOrder, KvPaths
  <2>4. IsPrefix(r, r)
    BY <1>5 DEF PrefixOrder, KvPaths
  <2>5. QED
    BY <2>3, <2>4, <1>8
<1>10. IsPrefix(Root, p) /\ Root \in KvPaths
  BY RootIs DEF TreeInv
<1>11. u \in [DOMAIN u -> KvItems]
  <2>1. \A r \in DOMAIN u : u[r] \in KvItems
    BY <1>7 DEF TreeInv
  <2>2. QED
    BY <2>1, <1>7
<1>12. DOMAIN u \subseteq KvPaths
  BY <1>0, <1>2, <1>7
<1>13. Root \in DOMAIN u /\ u[Root] = NodeItem
  BY <1>7, <1>9, <1>10 DEF TreeInv
<1>14. \A r \in DOMAIN u : IsPrefix(Root, r)
  BY <1>3, <1>7, <1>10 DEF TreeInv
<1>15. ASSUME NEW s \in DOMAIN u, NEW r \in KvPaths, IsPrefix(r, s), r # s, IsPrefix(Root, r)
       PROVE  r \in DOMAIN u /\ u[r] = NodeItem
  <2>1. CASE s = q
    <3>1. IsPrefix(r, p)
      BY <2>1, <1>3, <1>15
    <3>2. r \in DOMAIN t /\ t[r] = NodeItem
      BY <3>1, <1>15 DEF TreeInv
    <3>3. r \in DOMAIN u /\ r # q
      BY <3>1, <3>2, <1>7, <1>9
    <3>4. QED
      BY <3>2, <3>3, <1>7
  <2>2. CASE s # q
    <3>1. s \in DOMAIN t /\ s \notin Descendants(t, q) /\ s \in KvPaths
      BY <2>2, <1>0, <1>7, <1>15
    <3>2. r \in DOMAIN t /\ t[r] = NodeItem
      BY <3>1, <1>15 DEF TreeInv
    <3>3. ~IsPrefix(q, r)
      <4>1. ~IsPrefix(q, s)
        BY <3>1, <2>2, <1>8
      <4>2. QED
        BY <4>1, <3>1, <1>2, <1>5, <1>15 DEF PrefixOrder, KvPaths
    <3>4. IsPrefix(q, q)
      BY <1>2, <1>5 DEF PrefixOrder, KvPaths
    <3>5. r # q /\ r \notin Descendants(t, q)
      BY <3>3, <3>4, <1>8
    <3>6. QED
      BY <3>2, <3>5, <1>7
  <2>3. QED
    BY <2>1, <2>2
<1>16. TreeInv(u)
  BY <1>11, <1>12, <1>13, <1>14, <1>15 DEF TreeInv
<1>17. QED
  BY <1>1, <1>6, <1>16

(* A part of the tree from the root down.                                  *)
FromRoot(t, V) ==
  /\ V \subseteq DOMAIN t
  /\ \A q \in V : \A r \in DOMAIN t : IsPrefix(r, q) => r \in V

(* Nothing is below what the part does not have.                           *)
LEMMA NothingBelow ==
  ASSUME NEW t, TreeInv(t), NEW u, FromRoot(t, DOMAIN u),
         NEW p \in DOMAIN t, p \notin DOMAIN u
  PROVE  Descendants(u, p) = {}
BY DEF Descendants, IsStrictPrefix, FromRoot

(* No path is above the empty one, and the empty one isn't below the root. *)
LEMMA NoneAboveRoot ==
  /\ \A s \in KvPaths : IsPrefix(s, <<>>) => s = <<>>
  /\ \A s : IsPrefix(Root, s) => s # <<>>
<1>1. \A s \in KvPaths : IsPrefix(s, <<>>) => s = <<>>
  <2>1. PrefixOrder(KvNames)
    BY PrefixOrdered
  <2>2. \A s \in Seq(KvNames) : IsPrefix(s, <<>>) => s = <<>>
    BY <2>1, Zenon DEF PrefixOrder
  <2>3. QED
    BY <2>2, Zenon DEF KvPaths
<1>2. ~IsPrefix(Root, <<>>)
  BY <1>1, RootIs, Zenon
<1>3. QED
  BY <1>1, <1>2

(* What is above a node of the part.                                       *)
LEMMA FrontOpen ==
  ASSUME NEW t, TreeInv(t), NEW V, FromRoot(t, V), NEW a \in V
  PROVE  /\ a \in KvPaths /\ a # <<>> /\ Front(a) \in KvPaths
         /\ a = Root => Front(a) = <<>>
         /\ a # Root => Front(a) \in V /\ t[Front(a)] = NodeItem
         /\ IsPrefix(Front(a), a) /\ Front(a) # a
<1>0. a \in DOMAIN t /\ a \in KvPaths /\ IsPrefix(Root, a)
  BY DEF TreeInv, FromRoot
<1>1. PrefixOrder(KvNames)
  BY PrefixOrdered
<1>2. a # <<>>
  BY <1>0, NoneAboveRoot
<1>3. PICK f, x : f = Front(a) /\ x = Last(a)
  OBVIOUS
<1>4. f \in KvPaths /\ x \in KvNames /\ a = Append(f, x)
  BY <1>0, <1>2, <1>3, FrontIs DEF KvPaths
<1>5. IsPrefix(f, a) /\ f # a /\ (IsPrefix(Root, a) <=> IsPrefix(Root, f) \/ Root = a)
  BY <1>4, PrefixOfAppend, RootIs DEF KvPaths
<1>6. ASSUME a = Root
      PROVE  f = <<>>
  <2>1. <<>> \in Seq(KvNames) /\ "root" \in KvNames
    BY DEF KvNames
  <2>2. QED
    BY <1>6, <1>3, <2>1, RootIs, FrontOfAppend
<1>7. ASSUME a # Root
      PROVE  f \in V /\ t[f] = NodeItem
  <2>1. IsPrefix(Root, f)
    BY <1>0, <1>5, <1>7
  <2>2. f \in DOMAIN t /\ t[f] = NodeItem
    BY <2>1, <1>0, <1>4, <1>5 DEF TreeInv
  <2>3. QED
    BY <2>2, <1>5 DEF FromRoot
<1>8. QED
  BY <1>0, <1>2, <1>3, <1>4, <1>5, <1>6, <1>7

\* What is written: the end of a node, or an item with its name.
EndToken == [type |-> "End", name |-> "", value |-> ""]
ItemToken(item, name) == [type |-> item.type, name |-> name, value |-> item.value]
KvTokens == {ItemToken(item, name) : item \in KvItems, name \in KvNames} \cup {EndToken}

(* The types of tokens, and the item a token tells of.                     *)
LEMMA TokensAre ==
  ASSUME KeyValueAssumption
  PROVE  /\ EndToken \in KvTokens /\ EndToken.type = "End"
         /\ \A item \in KvItems, name \in KvNames :
              LET k == ItemToken(item, name)
              IN k \in KvTokens /\ k.type # "End" /\ k.name = name /\ Value(k) = item
         /\ \A k \in KvTokens : k.type = "End" <=> k = EndToken
         /\ \A k \in KvTokens : k.type # "End" =>
              /\ k.name \in KvNames /\ Value(k) \in KvItems
              /\ k.type = "None" <=> Value(k) = NodeItem
<1>1. EndToken \in KvTokens /\ EndToken.type = "End"
  BY DEF KvTokens, EndToken
<1>2. ASSUME NEW item \in KvItems, NEW name \in KvNames
      PROVE  /\ ItemToken(item, name) \in KvTokens /\ ItemToken(item, name).type # "End"
             /\ ItemToken(item, name).name = name /\ Value(ItemToken(item, name)) = item
             /\ ItemToken(item, name).type = "None" <=> item = NodeItem
  <2>1. PICK k : k = ItemToken(item, name)
    OBVIOUS
  <2>2. k.type = item.type /\ k.name = name /\ k.value = item.value
    BY <2>1 DEF ItemToken
  <2>3. /\ item = [type |-> item.type, value |-> item.value]
        /\ item.type = "None" <=> item = NodeItem
        /\ item.type # "End"
    BY ItemsAre
  <2>4. Value(k) = item
    BY <2>2, <2>3 DEF Value
  <2>5. k \in KvTokens
    BY <2>1 DEF KvTokens
  <2>6. QED
    BY <2>1, <2>2, <2>3, <2>4, <2>5
<1>3. ASSUME NEW k \in KvTokens, k # EndToken
      PROVE  \E item \in KvItems, name \in KvNames : k = ItemToken(item, name)
  BY <1>3 DEF KvTokens
<1>4. QED
  BY <1>1, <1>2, <1>3

-----------------------------------------------------------------------------
(* Walks through a tree                                                    *)

(* One token takes the writer or the reader from the node a to the node b. *)
KvStep(t, a, k, b) ==
  \/ /\ k.type # "End" /\ Append(a, k.name) \in DOMAIN t /\ t[Append(a, k.name)] = Value(k)
     /\ b = IF k.type = "None" THEN Append(a, k.name) ELSE a
  \/ k.type = "End" /\ b = IF a = <<>> THEN a ELSE Front(a)

(* The path of the item that the i-th token of a walk stands for.          *)
PathAt(f, w, i) == Append(f[i - 1], w[i].name)

(* Where the tokens w lead: f[i] is the node after the i-th of them.       *)
KvWalk(f, w, t) ==
  /\ f \in [0..Len(w) -> KvPaths]
  /\ \A i \in 1..Len(w) : KvStep(t, f[i - 1], w[i], f[i])

(* The walk meets the items of V, each once.                               *)
KvVisits(f, w, V) ==
  /\ \A i \in 1..Len(w) : w[i].type # "End" => PathAt(f, w, i) \in V
  /\ \A p \in V : \E i \in 1..Len(w) : w[i].type # "End" /\ PathAt(f, w, i) = p
  /\ \A i, j \in 1..Len(w) : w[i].type # "End" /\ w[j].type # "End" /\ i # j
                             => PathAt(f, w, i) # PathAt(f, w, j)

(* The end of the node around the root.                                    *)
KvFinal(f, w, i) == w[i].type = "End" /\ f[i - 1] = <<>>

(* The items V have been written; the writer is in the node b.             *)
Writes(w, t, V, b) ==
  \E f : /\ KvWalk(f, w, t) /\ KvVisits(f, w, V)
         /\ f[0] = <<>> /\ f[Len(w)] = b
         /\ \A i \in 1..Len(w) : ~KvFinal(f, w, i)

(* From the node a the items V will be read, and the end if there is one.  *)
ReadsOn(w, t, V, a, ends) ==
  \E f : /\ KvWalk(f, w, t) /\ KvVisits(f, w, V)
         /\ f[0] = a
         /\ ends => w # <<>>
         /\ \A i \in 1..Len(w) : KvFinal(f, w, i) <=> ends /\ i = Len(w)

(* The walk v is w with one more step, to the node c.                      *)
GoesOn(f, w, t, k, c, v) ==
  \E g : /\ KvWalk(g, v, t)
         /\ \A i \in 0..Len(w) : g[i] = f[i]
         /\ g[Len(v)] = c
         /\ \A i \in 1..Len(w) : v[i] = w[i] /\ PathAt(g, v, i) = PathAt(f, w, i)
         /\ v[Len(v)] = k /\ PathAt(g, v, Len(v)) = Append(f[Len(w)], k.name)

(* A walk goes on by one token, and visits that item besides.              *)
LEMMA WalkMore ==
  ASSUME NEW t, NEW w \in Seq(KvTokens), NEW f, KvWalk(f, w, t), NEW k \in KvTokens,
         NEW c \in KvPaths, KvStep(t, f[Len(w)], k, c), NEW v, v = Append(w, k)
  PROVE  GoesOn(f, w, t, k, c, v)
<1>1. /\ v \in Seq(KvTokens) /\ Len(w) \in Nat /\ Len(v) = Len(w) + 1
      /\ v[Len(w) + 1] = k /\ \A i \in 1..Len(w) : v[i] = w[i]
  BY AppendFacts
<1>2. PICK n \in Nat : n = Len(w)
  BY <1>1
<1>3. /\ Len(v) = n + 1 /\ v[n + 1] = k /\ \A i \in 1..n : v[i] = w[i]
  BY <1>1, <1>2
<1>4. /\ f \in [0..n -> KvPaths] /\ \A i \in 1..n : KvStep(t, f[i - 1], w[i], f[i])
      /\ KvStep(t, f[n], k, c)
  BY <1>2 DEF KvWalk
<1>5. PICK g : g = [i \in 0..(n + 1) |-> IF i <= n THEN f[i] ELSE c]
  OBVIOUS
<1>6. g \in [0..(n + 1) -> KvPaths] /\ (\A i \in 0..n : g[i] = f[i]) /\ g[n + 1] = c
  BY <1>4, <1>5
<1>7. \A i \in 1..n : i - 1 \in 0..n /\ i \in 0..n
  OBVIOUS
<1>8. \A i \in 1..n : g[i - 1] = f[i - 1] /\ g[i] = f[i]
  BY <1>6, <1>7
<1>9. \A i \in 1..n : KvStep(t, g[i - 1], v[i], g[i])
  BY <1>3, <1>4, <1>8
<1>10. g[n] = f[n] /\ (n + 1) - 1 = n
  BY <1>6
<1>11. KvStep(t, g[(n + 1) - 1], v[n + 1], g[n + 1])
  BY <1>3, <1>4, <1>6, <1>10
<1>12. \A i \in 1..(n + 1) : i \in 1..n \/ i = n + 1
  OBVIOUS
<1>13. \A i \in 1..(n + 1) : KvStep(t, g[i - 1], v[i], g[i])
  BY <1>9, <1>11, <1>12
<1>14. KvWalk(g, v, t)
  BY <1>3, <1>6, <1>13 DEF KvWalk
<1>15. \A i \in 1..n : PathAt(g, v, i) = PathAt(f, w, i)
  BY <1>3, <1>8 DEF PathAt
<1>16. PathAt(g, v, n + 1) = Append(f[n], k.name)
  BY <1>3, <1>10 DEF PathAt
<1>17. QED
  BY <1>2, <1>3, <1>6, <1>14, <1>15, <1>16 DEF GoesOn

(* The writer writes an item.                                              *)
LEMMA WritesItem ==
  ASSUME NEW t, NEW w \in Seq(KvTokens), NEW V, NEW a \in KvPaths, Writes(w, t, V, a),
         NEW k \in KvTokens, k.type # "End", NEW p \in KvPaths, p = Append(a, k.name), p \notin V,
         p \in DOMAIN t, t[p] = Value(k)
  PROVE  Writes(Append(w, k), t, V \cup {p}, IF k.type = "None" THEN p ELSE a)
<1>1. PICK f : /\ KvWalk(f, w, t) /\ KvVisits(f, w, V)
               /\ f[0] = <<>> /\ f[Len(w)] = a
               /\ \A i \in 1..Len(w) : ~KvFinal(f, w, i)
  BY DEF Writes
<1>2. PICK c \in KvPaths : c = IF k.type = "None" THEN p ELSE a
  OBVIOUS
<1>3. KvStep(t, f[Len(w)], k, c)
  BY <1>1, <1>2 DEF KvStep
<1>4. PICK v : v = Append(w, k)
  OBVIOUS
<1>4a. GoesOn(f, w, t, k, c, v)
  BY <1>1, <1>3, <1>4, WalkMore
<1>5. PICK g : /\ KvWalk(g, v, t)
               /\ \A i \in 0..Len(w) : g[i] = f[i]
               /\ g[Len(v)] = c
               /\ \A i \in 1..Len(w) : v[i] = w[i] /\ PathAt(g, v, i) = PathAt(f, w, i)
               /\ v[Len(v)] = k /\ PathAt(g, v, Len(v)) = Append(f[Len(w)], k.name)
  BY <1>4a DEF GoesOn
<1>6. PICK n \in Nat : n = Len(w)
  OBVIOUS
<1>7. Len(v) = n + 1
  BY <1>4, <1>6
<1>8. PathAt(g, v, n + 1) = p /\ v[n + 1] = k
  BY <1>1, <1>5, <1>7
<1>9. \A i \in 1..(n + 1) : i \in 1..n \/ i = n + 1
  OBVIOUS
<1>9a. \A i \in 1..n : i \in 1..(n + 1)
  OBVIOUS
<1>9b. n + 1 \in 1..(n + 1)
  OBVIOUS
<1>10. KvVisits(g, v, V \cup {p})
  <2>1. \A i \in 1..n : /\ v[i] = w[i] /\ PathAt(g, v, i) = PathAt(f, w, i)
                        /\ w[i].type # "End" => PathAt(f, w, i) \in V
    BY <1>1, <1>5, <1>6 DEF KvVisits
  <2>2. \A i \in 1..(n + 1) : v[i].type # "End" => PathAt(g, v, i) \in V \cup {p}
    BY <2>1, <1>8, <1>9
  <2>3. \A q \in V : \E i \in 1..n : w[i].type # "End" /\ PathAt(f, w, i) = q
    BY <1>1, <1>6 DEF KvVisits
  <2>4. \A q \in V : \E i \in 1..(n + 1) : v[i].type # "End" /\ PathAt(g, v, i) = q
    BY <2>1, <2>3, <1>9a
  <2>5. \A i, j \in 1..n : w[i].type # "End" /\ w[j].type # "End" /\ i # j
                             => PathAt(f, w, i) # PathAt(f, w, j)
    BY <1>1, <1>6 DEF KvVisits
  <2>6. ASSUME NEW i \in 1..(n + 1), NEW j \in 1..(n + 1), v[i].type # "End", v[j].type # "End",
               i # j
        PROVE  PathAt(g, v, i) # PathAt(g, v, j)
    <3>1. CASE i \in 1..n /\ j \in 1..n
      BY <3>1, <2>1, <2>5, <2>6
    <3>2. CASE i = n + 1 /\ j \in 1..n
      BY <3>2, <2>1, <2>6, <1>8
    <3>3. CASE j = n + 1 /\ i \in 1..n
      BY <3>3, <2>1, <2>6, <1>8
    <3>4. QED
      BY <3>1, <3>2, <3>3, <2>6, <1>9
  <2>7. \A q \in V \cup {p} : \E i \in 1..(n + 1) : v[i].type # "End" /\ PathAt(g, v, i) = q
    BY <2>4, <1>8, <1>9b
  <2>8. QED
    BY <2>2, <2>6, <2>7, <1>7 DEF KvVisits
<1>11. g[0] = <<>>
  BY <1>1, <1>5, <1>6
<1>12. ASSUME NEW i \in 1..(n + 1)
       PROVE  ~KvFinal(g, v, i)
  <2>1. CASE i \in 1..n
    <3>1. i - 1 \in 0..n
      BY <2>1
    <3>2. g[i - 1] = f[i - 1] /\ v[i] = w[i]
      BY <2>1, <3>1, <1>5, <1>6
    <3>3. QED
      BY <2>1, <3>2, <1>1, <1>6 DEF KvFinal
  <2>2. CASE i = n + 1
    BY <2>2, <1>8 DEF KvFinal
  <2>3. QED
    BY <2>1, <2>2, <1>9
<1>13. Writes(v, t, V \cup {p}, c)
  BY <1>5, <1>7, <1>10, <1>11, <1>12 DEF Writes
<1>14. QED
  BY <1>2, <1>4, <1>13

(* It writes the end of the node it is in.                                 *)
LEMMA WritesEnd ==
  ASSUME NEW t, NEW w \in Seq(KvTokens), NEW V, NEW a \in KvPaths, a # <<>>, Writes(w, t, V, a),
         EndToken \in KvTokens
  PROVE  Writes(Append(w, EndToken), t, V, Front(a)) /\ Front(a) \in KvPaths
<1>1. PICK f : /\ KvWalk(f, w, t) /\ KvVisits(f, w, V)
               /\ f[0] = <<>> /\ f[Len(w)] = a
               /\ \A i \in 1..Len(w) : ~KvFinal(f, w, i)
  BY DEF Writes
<1>2. PICK c : c = Front(a)
  OBVIOUS
<1>2a. c \in KvPaths
  BY <1>2, FrontIs DEF KvPaths
<1>2b. EndToken.type = "End"
  BY DEF EndToken
<1>3. KvStep(t, f[Len(w)], EndToken, c)
  BY <1>1, <1>2, <1>2b DEF KvStep
<1>4. PICK v : v = Append(w, EndToken)
  OBVIOUS
<1>4a. GoesOn(f, w, t, EndToken, c, v)
  BY <1>1, <1>2a, <1>3, <1>4, WalkMore
<1>5. PICK g : /\ KvWalk(g, v, t)
               /\ \A i \in 0..Len(w) : g[i] = f[i]
               /\ g[Len(v)] = c
               /\ \A i \in 1..Len(w) : v[i] = w[i] /\ PathAt(g, v, i) = PathAt(f, w, i)
               /\ v[Len(v)] = EndToken
  BY <1>4a DEF GoesOn
<1>6. PICK n \in Nat : n = Len(w)
  OBVIOUS
<1>7. Len(v) = n + 1 /\ v[n + 1].type = "End"
  BY <1>2b, <1>4, <1>5, <1>6
<1>9. \A i \in 1..(n + 1) : i \in 1..n \/ i = n + 1
  OBVIOUS
<1>9a. \A i \in 1..n : i \in 1..(n + 1)
  OBVIOUS
<1>10. KvVisits(g, v, V)
  <2>1. \A i \in 1..n : /\ v[i] = w[i] /\ PathAt(g, v, i) = PathAt(f, w, i)
                        /\ w[i].type # "End" => PathAt(f, w, i) \in V
    BY <1>1, <1>5, <1>6 DEF KvVisits
  <2>2. \A i \in 1..(n + 1) : v[i].type # "End" => i \in 1..n
    BY <1>7, <1>9
  <2>3. \A q \in V : \E i \in 1..n : w[i].type # "End" /\ PathAt(f, w, i) = q
    BY <1>1, <1>6 DEF KvVisits
  <2>4. \A q \in V : \E i \in 1..(n + 1) : v[i].type # "End" /\ PathAt(g, v, i) = q
    BY <2>1, <2>3, <1>9a
  <2>5. \A i, j \in 1..n : w[i].type # "End" /\ w[j].type # "End" /\ i # j
                             => PathAt(f, w, i) # PathAt(f, w, j)
    BY <1>1, <1>6 DEF KvVisits
  <2>6. \A i, j \in 1..(n + 1) : v[i].type # "End" /\ v[j].type # "End" /\ i # j
                             => PathAt(g, v, i) # PathAt(g, v, j)
    BY <2>1, <2>2, <2>5
  <2>7. \A i \in 1..(n + 1) : v[i].type # "End" => PathAt(g, v, i) \in V
    BY <2>1, <2>2
  <2>8. QED
    BY <2>4, <2>6, <2>7, <1>7 DEF KvVisits
<1>11. g[0] = <<>>
  BY <1>1, <1>5, <1>6
<1>12. ASSUME NEW i \in 1..(n + 1)
       PROVE  ~KvFinal(g, v, i)
  <2>1. CASE i \in 1..n
    <3>1. i - 1 \in 0..n
      BY <2>1
    <3>2. g[i - 1] = f[i - 1] /\ v[i] = w[i]
      BY <2>1, <3>1, <1>5, <1>6
    <3>3. QED
      BY <2>1, <3>2, <1>1, <1>6 DEF KvFinal
  <2>2. CASE i = n + 1
    <3>1. n \in 0..n /\ i - 1 = n
      BY <2>2
    <3>2. g[i - 1] = a
      BY <3>1, <1>1, <1>5, <1>6
    <3>3. QED
      BY <3>2 DEF KvFinal
  <2>3. QED
    BY <2>1, <2>2, <1>9
<1>13. Writes(v, t, V, c)
  BY <1>5, <1>7, <1>10, <1>11, <1>12 DEF Writes
<1>14. QED
  BY <1>2, <1>2a, <1>4, <1>13

(* What has been written is what will be read ...                          *)
LEMMA WrittenReads ==
  ASSUME NEW t, NEW w \in Seq(KvTokens), NEW V, Writes(w, t, V, <<>>)
  PROVE  ReadsOn(w, t, V, <<>>, FALSE)
<1>1. PICK f : /\ KvWalk(f, w, t) /\ KvVisits(f, w, V)
               /\ f[0] = <<>>
               /\ \A i \in 1..Len(w) : ~KvFinal(f, w, i)
  BY DEF Writes
<1>2. QED
  BY <1>1 DEF ReadsOn

(* ... and one more marker ends the node around the root.                  *)
LEMMA WrittenEnds ==
  ASSUME NEW t, NEW w \in Seq(KvTokens), NEW V, Writes(w, t, V, <<>>), EndToken \in KvTokens
  PROVE  ReadsOn(Append(w, EndToken), t, V, <<>>, TRUE)
<1>0. PICK e : e = <<>>
  OBVIOUS
<1>0a. e \in KvPaths
  BY <1>0 DEF KvPaths
<1>1. PICK f : /\ KvWalk(f, w, t) /\ KvVisits(f, w, V)
               /\ f[0] = e /\ f[Len(w)] = e
               /\ \A i \in 1..Len(w) : ~KvFinal(f, w, i)
  BY <1>0 DEF Writes
<1>2b. EndToken.type = "End"
  BY DEF EndToken
<1>3. KvStep(t, f[Len(w)], EndToken, e)
  BY <1>0, <1>1, <1>2b DEF KvStep
<1>4. PICK v : v = Append(w, EndToken)
  OBVIOUS
<1>4a. GoesOn(f, w, t, EndToken, e, v)
  BY <1>0a, <1>1, <1>3, <1>4, WalkMore
<1>5. PICK g : /\ KvWalk(g, v, t)
               /\ \A i \in 0..Len(w) : g[i] = f[i]
               /\ g[Len(v)] = e
               /\ \A i \in 1..Len(w) : v[i] = w[i] /\ PathAt(g, v, i) = PathAt(f, w, i)
               /\ v[Len(v)] = EndToken
  BY <1>4a DEF GoesOn
<1>6. PICK n \in Nat : n = Len(w)
  OBVIOUS
<1>7. Len(v) = n + 1 /\ v[n + 1].type = "End"
  BY <1>2b, <1>4, <1>5, <1>6
<1>9. \A i \in 1..(n + 1) : (i \in 1..n /\ i # n + 1) \/ i = n + 1
  OBVIOUS
<1>9a. \A i \in 1..n : i \in 1..(n + 1)
  OBVIOUS
<1>10. KvVisits(g, v, V)
  <2>1. \A i \in 1..n : /\ v[i] = w[i] /\ PathAt(g, v, i) = PathAt(f, w, i)
                        /\ w[i].type # "End" => PathAt(f, w, i) \in V
    BY <1>1, <1>5, <1>6 DEF KvVisits
  <2>2. \A i \in 1..(n + 1) : v[i].type # "End" => i \in 1..n
    BY <1>7, <1>9
  <2>3. \A q \in V : \E i \in 1..n : w[i].type # "End" /\ PathAt(f, w, i) = q
    BY <1>1, <1>6 DEF KvVisits
  <2>4. \A q \in V : \E i \in 1..(n + 1) : v[i].type # "End" /\ PathAt(g, v, i) = q
    BY <2>1, <2>3, <1>9a
  <2>5. \A i, j \in 1..n : w[i].type # "End" /\ w[j].type # "End" /\ i # j
                             => PathAt(f, w, i) # PathAt(f, w, j)
    BY <1>1, <1>6 DEF KvVisits
  <2>6. \A i, j \in 1..(n + 1) : v[i].type # "End" /\ v[j].type # "End" /\ i # j
                             => PathAt(g, v, i) # PathAt(g, v, j)
    BY <2>1, <2>2, <2>5
  <2>7. \A i \in 1..(n + 1) : v[i].type # "End" => PathAt(g, v, i) \in V
    BY <2>1, <2>2
  <2>8. QED
    BY <2>4, <2>6, <2>7, <1>7 DEF KvVisits
<1>11. g[0] = e
  BY <1>1, <1>5, <1>6
<1>12. ASSUME NEW i \in 1..(n + 1)
       PROVE  KvFinal(g, v, i) <=> i = n + 1
  <2>1. CASE i \in 1..n /\ i # n + 1
    <3>1. i - 1 \in 0..n
      BY <2>1
    <3>2. g[i - 1] = f[i - 1] /\ v[i] = w[i]
      BY <2>1, <3>1, <1>5, <1>6
    <3>3. QED
      BY <2>1, <3>2, <1>1, <1>6 DEF KvFinal
  <2>2. CASE i = n + 1
    <3>1. n \in 0..n /\ i - 1 = n
      BY <2>2
    <3>2. g[i - 1] = e
      BY <3>1, <1>1, <1>5, <1>6
    <3>3. QED
      BY <2>2, <3>2, <1>0, <1>7 DEF KvFinal
  <2>3. QED
    BY <2>1, <2>2, <1>9
<1>13. v # <<>>
  BY <1>4
<1>14. \A i \in 1..Len(v) : KvFinal(g, v, i) <=> TRUE /\ i = Len(v)
  BY <1>7, <1>12
<1>15. ReadsOn(v, t, V, e, TRUE)
  BY <1>5, <1>10, <1>11, <1>13, <1>14 DEF ReadsOn
<1>16. QED
  BY <1>0, <1>4, <1>15

(* The walk v is w without its first step.                                 *)
LaterAt(f, w, g, v) ==
  \A i \in 1..Len(v) : v[i] = w[i + 1] /\ PathAt(g, v, i) = PathAt(f, w, i + 1)
\* There is a walk from the second token on.
GoesFrom(f, w, t, v) ==
  \E g : /\ KvWalk(g, v, t)
         /\ \A i \in 1..Len(w) : g[i - 1] = f[i]
         /\ LaterAt(f, w, g, v)

(* A walk without its first token is one from where that token led to.     *)
LEMMA WalkRest ==
  ASSUME NEW t, NEW w \in Seq(KvTokens), w # <<>>, NEW f, KvWalk(f, w, t), NEW v, v = Tail(w)
  PROVE  GoesFrom(f, w, t, v)
<1>1. /\ v \in Seq(KvTokens) /\ Len(w) \in Nat \ {0} /\ Len(v) = Len(w) - 1
      /\ \A i \in 1..(Len(w) - 1) : v[i] = w[i + 1]
  BY TailFacts
<1>1a. Len(w) - 1 \in Nat
  BY <1>1
<1>2. PICK n \in Nat : n = Len(w) - 1
  BY <1>1a
<1>3. Len(w) = n + 1 /\ Len(v) = n /\ \A i \in 1..n : v[i] = w[i + 1]
  BY <1>1, <1>2
<1>4. f \in [0..(n + 1) -> KvPaths] /\ \A i \in 1..(n + 1) : KvStep(t, f[i - 1], w[i], f[i])
  BY <1>3 DEF KvWalk
<1>5. PICK g : g = [i \in 0..n |-> f[i + 1]]
  OBVIOUS
<1>6. \A i \in 0..n : i + 1 \in 0..(n + 1)
  OBVIOUS
<1>7. g \in [0..n -> KvPaths] /\ \A i \in 0..n : g[i] = f[i + 1]
  BY <1>4, <1>5, <1>6
<1>8. \A i \in 1..n : /\ i \in 0..n /\ i - 1 \in 0..n /\ (i - 1) + 1 = i /\ (i + 1) - 1 = i
                      /\ i + 1 \in 1..(n + 1)
  OBVIOUS
<1>9. \A i \in 1..n : g[i - 1] = f[i] /\ g[i] = f[i + 1]
  BY <1>7, <1>8
<1>10. \A i \in 1..n : KvStep(t, f[i], w[i + 1], f[i + 1])
  BY <1>4, <1>8
<1>11. \A i \in 1..n : KvStep(t, g[i - 1], v[i], g[i])
  BY <1>3, <1>9, <1>10
<1>12. KvWalk(g, v, t)
  BY <1>3, <1>7, <1>11 DEF KvWalk
<1>13. \A i \in 1..n : PathAt(g, v, i) = PathAt(f, w, i + 1)
  BY <1>3, <1>8, <1>9 DEF PathAt
<1>14. \A i \in 1..(n + 1) : i - 1 \in 0..n /\ (i - 1) + 1 = i
  OBVIOUS
<1>15. \A i \in 1..(n + 1) : g[i - 1] = f[i]
  BY <1>7, <1>14
<1>16. QED
  BY <1>3, <1>12, <1>13, <1>15 DEF GoesFrom, LaterAt

(* What remains to be met after the first token.                           *)
LEMMA VisitsRest ==
  ASSUME NEW w \in Seq(KvTokens), w # <<>>, NEW f, NEW v, v = Tail(w), NEW g, NEW V,
         KvVisits(f, w, V), LaterAt(f, w, g, v)
  PROVE  KvVisits(g, v, IF w[1].type = "End" THEN V ELSE V \ {PathAt(f, w, 1)})
<1>1. /\ v \in Seq(KvTokens) /\ Len(w) \in Nat \ {0} /\ Len(v) = Len(w) - 1
  BY TailFacts
<1>1a. Len(w) - 1 \in Nat
  BY <1>1
<1>2. PICK n \in Nat : n = Len(w) - 1
  BY <1>1a
<1>3. Len(w) = n + 1 /\ Len(v) = n
  BY <1>1, <1>2
<1>4. \A i \in 1..n : i + 1 \in 1..(n + 1) /\ i + 1 # 1
  OBVIOUS
<1>5. \A i \in 1..(n + 1) : i # 1 => i - 1 \in 1..n /\ (i - 1) + 1 = i
  OBVIOUS
<1>5a. \A i, j \in 1..n : i # j => i + 1 # j + 1
  OBVIOUS
<1>6. PICK U : U = IF w[1].type = "End" THEN V ELSE V \ {PathAt(f, w, 1)}
  OBVIOUS
<1>7. \A i \in 1..(n + 1) : w[i].type # "End" => PathAt(f, w, i) \in V
  BY <1>3 DEF KvVisits
<1>8. \A p \in V : \E i \in 1..(n + 1) : w[i].type # "End" /\ PathAt(f, w, i) = p
  BY <1>3 DEF KvVisits
<1>9. \A i, j \in 1..(n + 1) : w[i].type # "End" /\ w[j].type # "End" /\ i # j
                             => PathAt(f, w, i) # PathAt(f, w, j)
  BY <1>3 DEF KvVisits
<1>10. \A i \in 1..n : v[i] = w[i + 1] /\ PathAt(g, v, i) = PathAt(f, w, i + 1)
  BY <1>3 DEF LaterAt
<1>10a. 1 \in 1..(n + 1)
  OBVIOUS
<1>11. ASSUME NEW i \in 1..n, v[i].type # "End"
       PROVE  PathAt(g, v, i) \in U
  <2>1. i + 1 \in 1..(n + 1) /\ i + 1 # 1 /\ w[i + 1].type # "End"
    BY <1>4, <1>10, <1>11
  <2>2. PathAt(f, w, i + 1) \in V /\ PathAt(g, v, i) = PathAt(f, w, i + 1)
    BY <1>7, <1>10, <2>1
  <2>3. w[1].type # "End" => PathAt(f, w, i + 1) # PathAt(f, w, 1)
    BY <1>9, <1>10a, <2>1
  <2>4. QED
    BY <1>6, <2>2, <2>3
<1>12. ASSUME NEW p \in U
       PROVE  \E i \in 1..n : v[i].type # "End" /\ PathAt(g, v, i) = p
  <2>1. PICK i \in 1..(n + 1) : w[i].type # "End" /\ PathAt(f, w, i) = p
    BY <1>6, <1>8
  <2>2. i # 1
    BY <2>1, <1>6
  <2>3. PICK j : j = i - 1
    OBVIOUS
  <2>4. j \in 1..n /\ j + 1 = i
    BY <2>2, <2>3, <1>5
  <2>5. QED
    BY <2>1, <2>4, <1>10
<1>13. ASSUME NEW i \in 1..n, NEW j \in 1..n, v[i].type # "End", v[j].type # "End", i # j
       PROVE  PathAt(g, v, i) # PathAt(g, v, j)
  <2>1. PICK k, l : k = i + 1 /\ l = j + 1
    OBVIOUS
  <2>2. k \in 1..(n + 1) /\ l \in 1..(n + 1) /\ k # l
    BY <2>1, <1>4, <1>5a, <1>13
  <2>3. /\ w[k].type # "End" /\ w[l].type # "End"
        /\ PathAt(g, v, i) = PathAt(f, w, k) /\ PathAt(g, v, j) = PathAt(f, w, l)
    BY <2>1, <1>10, <1>13
  <2>4. QED
    BY <2>2, <2>3, <1>9
<1>14. KvVisits(g, v, U)
  BY <1>3, <1>11, <1>12, <1>13 DEF KvVisits
<1>15. QED
  BY <1>6, <1>14

(* What a token that does not end the node around the root brings.         *)
AfterToken(w, t, V, a, ends) ==
  LET p == Append(a, Head(w).name)
      item == Head(w).type # "End"
  IN /\ item => p \in V /\ p \in DOMAIN t /\ t[p] = Value(Head(w))
     /\ ReadsOn(Tail(w), t, IF item THEN V \ {p} ELSE V,
                IF Head(w).type = "End" THEN Front(a)
                  ELSE IF Head(w).type = "None" THEN p ELSE a, ends)

(* Reading an item takes it from what is still to come.                    *)
LEMMA ReadsToken ==
  ASSUME NEW t, NEW w \in Seq(KvTokens), w # <<>>, NEW V, NEW a \in KvPaths, NEW ends \in BOOLEAN,
         ReadsOn(w, t, V, a, ends), ~(Head(w).type = "End" /\ a = <<>>)
  PROVE  AfterToken(w, t, V, a, ends)
<1>1. PICK f : /\ KvWalk(f, w, t) /\ KvVisits(f, w, V)
               /\ f[0] = a
               /\ ends => w # <<>>
               /\ \A i \in 1..Len(w) : KvFinal(f, w, i) <=> ends /\ i = Len(w)
  BY DEF ReadsOn
<1>2. PICK k : k = Head(w)
  OBVIOUS
<1>3. k = w[1] /\ Len(w) \in Nat \ {0}
  BY <1>2, TailFacts
<1>4. 1 \in 1..Len(w) /\ 1 - 1 = 0
  BY <1>3
<1>5. PICK p : p = Append(a, k.name)
  OBVIOUS
<1>6. PathAt(f, w, 1) = p
  BY <1>1, <1>3, <1>4, <1>5 DEF PathAt
<1>7. KvStep(t, a, k, f[1])
  BY <1>1, <1>3, <1>4 DEF KvWalk
<1>8. k.type # "End" => p \in V /\ p \in DOMAIN t /\ t[p] = Value(k)
  <2>1. k.type # "End" => p \in V
    BY <1>1, <1>3, <1>4, <1>6 DEF KvVisits
  <2>2. QED
    BY <2>1, <1>5, <1>7 DEF KvStep
<1>9. PICK b : b = IF k.type = "End" THEN Front(a) ELSE IF k.type = "None" THEN p ELSE a
  OBVIOUS
<1>10. f[1] = b
  BY <1>2, <1>5, <1>7, <1>9 DEF KvStep
<1>11. PICK v : v = Tail(w)
  OBVIOUS
<1>11a. GoesFrom(f, w, t, v)
  BY <1>1, <1>11, WalkRest
<1>12. PICK g : /\ KvWalk(g, v, t)
                /\ \A i \in 1..Len(w) : g[i - 1] = f[i]
                /\ LaterAt(f, w, g, v)
  BY <1>11a DEF GoesFrom
<1>13. PICK U : U = IF k.type = "End" THEN V ELSE V \ {p}
  OBVIOUS
<1>14. KvVisits(g, v, U)
  BY <1>1, <1>3, <1>6, <1>11, <1>12, <1>13, VisitsRest
<1>15. g[0] = b
  BY <1>4, <1>10, <1>12
<1>16. ~KvFinal(f, w, 1)
  BY <1>1, <1>2, <1>3, <1>4 DEF KvFinal
<1>17. ends => Len(w) # 1
  BY <1>1, <1>4, <1>16
<1>18. PICK n \in Nat : n = Len(w) - 1
  BY <1>3
<1>19. Len(w) = n + 1 /\ Len(v) = n
  BY <1>3, <1>11, <1>18, TailFacts
<1>20. ends => v # <<>>
  BY <1>17, <1>19
<1>21. ASSUME NEW i \in 1..n
       PROVE  KvFinal(g, v, i) <=> ends /\ i = n
  <2>1. i \in 1..(n + 1) /\ i + 1 \in 1..(n + 1) /\ (i + 1) - 1 = i /\ (i = n <=> i + 1 = n + 1)
    OBVIOUS
  <2>2. v[i] = w[i + 1] /\ g[i - 1] = f[(i + 1) - 1]
    BY <2>1, <1>12, <1>19 DEF LaterAt
  <2>3. KvFinal(g, v, i) <=> KvFinal(f, w, i + 1)
    BY <2>2 DEF KvFinal
  <2>4. KvFinal(f, w, i + 1) <=> ends /\ i + 1 = n + 1
    BY <2>1, <1>1, <1>19
  <2>5. QED
    BY <2>1, <2>3, <2>4
<1>22. \A i \in 1..Len(v) : KvFinal(g, v, i) <=> ends /\ i = Len(v)
  BY <1>19, <1>21
<1>23. ReadsOn(v, t, U, b, ends)
  BY <1>12, <1>14, <1>15, <1>20, <1>22 DEF ReadsOn
<1>24. QED
  BY <1>2, <1>5, <1>8, <1>9, <1>11, <1>13, <1>23 DEF AfterToken

(* It reads the end of the node around the root.                           *)
LEMMA ReadsFinal ==
  ASSUME NEW t, NEW w \in Seq(KvTokens), w # <<>>, NEW V, NEW ends \in BOOLEAN,
         ReadsOn(w, t, V, <<>>, ends), Head(w).type = "End"
  PROVE  ends /\ V = {}
<1>1. PICK f : /\ KvWalk(f, w, t) /\ KvVisits(f, w, V)
               /\ f[0] = <<>>
               /\ \A i \in 1..Len(w) : KvFinal(f, w, i) <=> ends /\ i = Len(w)
  BY DEF ReadsOn
<1>2. Head(w) = w[1] /\ Len(w) \in Nat \ {0}
  BY TailFacts
<1>3. 1 \in 1..Len(w) /\ 1 - 1 = 0
  BY <1>2
<1>4. KvFinal(f, w, 1)
  BY <1>1, <1>2, <1>3 DEF KvFinal
<1>5. ends /\ Len(w) = 1
  BY <1>1, <1>3, <1>4
<1>6. \A i \in 1..Len(w) : i = 1
  BY <1>5
<1>7. \A p \in V : \E i \in 1..Len(w) : w[i].type # "End"
  BY <1>1 DEF KvVisits
<1>8. QED
  BY <1>2, <1>5, <1>6, <1>7

(* Nothing comes any more.                                                 *)
LEMMA ReadsNone ==
  ASSUME NEW t, NEW V, NEW a, NEW ends \in BOOLEAN, ReadsOn(<<>>, t, V, a, ends)
  PROVE  ~ends /\ V = {}
<1>1. PICK w : w = <<>>
  OBVIOUS
<1>2. 1..Len(w) = {}
  BY <1>1
<1>3. PICK f : KvVisits(f, w, V) /\ (ends => w # <<>>)
  BY <1>1 DEF ReadsOn
<1>4. QED
  BY <1>1, <1>2, <1>3 DEF KvVisits

(* The data ends earlier.                                                  *)
ReadsPart(w, t, V, a) == \E U \in SUBSET V : ReadsOn(w, t, U, a, FALSE)

(* The first tokens of a walk are read up to where they are cut off.       *)
LEMMA ReadsCut ==
  ASSUME NEW t, NEW w \in Seq(KvTokens), NEW V, NEW a, NEW ends \in BOOLEAN,
         ReadsOn(w, t, V, a, ends), NEW n \in 0..(Len(w) - 1)
  PROVE  ReadsPart(SubSeq(w, 1, n), t, V, a)
<1>1. PICK f : /\ KvWalk(f, w, t) /\ KvVisits(f, w, V)
               /\ f[0] = a
               /\ \A i \in 1..Len(w) : KvFinal(f, w, i) <=> ends /\ i = Len(w)
  BY DEF ReadsOn
<1>2. PICK m \in Nat : m = Len(w)
  OBVIOUS
<1>3. n \in Nat /\ n < m
  BY <1>2
<1>4. PICK v : v = SubSeq(w, 1, n)
  OBVIOUS
<1>5. v \in Seq(KvTokens) /\ Len(v) = n /\ \A i \in 1..n : v[i] = w[i]
  BY <1>2, <1>3, <1>4
<1>6. /\ f \in [0..m -> KvPaths] /\ \A i \in 1..m : KvStep(t, f[i - 1], w[i], f[i])
  BY <1>1, <1>2 DEF KvWalk
<1>7. PICK g : g = [i \in 0..n |-> f[i]]
  OBVIOUS
<1>8. \A i \in 0..n : i \in 0..m
  BY <1>3
<1>9. g \in [0..n -> KvPaths] /\ \A i \in 0..n : g[i] = f[i]
  BY <1>6, <1>7, <1>8
<1>10. \A i \in 1..n : i - 1 \in 0..n /\ i \in 0..n /\ i \in 1..m /\ i # m
  BY <1>3
<1>11. \A i \in 1..n : g[i - 1] = f[i - 1] /\ g[i] = f[i]
  BY <1>9, <1>10
<1>12. KvWalk(g, v, t)
  BY <1>5, <1>6, <1>9, <1>10, <1>11 DEF KvWalk
<1>13. \A i \in 1..n : PathAt(g, v, i) = PathAt(f, w, i)
  BY <1>5, <1>11 DEF PathAt
<1>14. \A i \in 1..m : w[i].type # "End" => PathAt(f, w, i) \in V
  BY <1>1, <1>2 DEF KvVisits
<1>15. \A i, j \in 1..m : w[i].type # "End" /\ w[j].type # "End" /\ i # j
                             => PathAt(f, w, i) # PathAt(f, w, j)
  BY <1>1, <1>2 DEF KvVisits
<1>16. PICK U : U = {p \in V : \E i \in 1..n : w[i].type # "End" /\ PathAt(f, w, i) = p}
  OBVIOUS
<1>17. KvVisits(g, v, U)
  <2>1. \A i \in 1..n : v[i].type # "End" => PathAt(g, v, i) \in U
    BY <1>5, <1>10, <1>13, <1>14, <1>16
  <2>2. \A p \in U : \E i \in 1..n : v[i].type # "End" /\ PathAt(g, v, i) = p
    BY <1>5, <1>13, <1>16
  <2>3. \A i, j \in 1..n : v[i].type # "End" /\ v[j].type # "End" /\ i # j
                             => PathAt(g, v, i) # PathAt(g, v, j)
    BY <1>5, <1>10, <1>13, <1>15
  <2>4. QED
    BY <2>1, <2>2, <2>3, <1>5 DEF KvVisits
<1>18. g[0] = a
  BY <1>1, <1>9
<1>19. \A i \in 1..n : ~KvFinal(g, v, i)
  <2>1. \A i \in 1..n : KvFinal(g, v, i) <=> KvFinal(f, w, i)
    BY <1>5, <1>11 DEF KvFinal
  <2>2. \A i \in 1..n : ~KvFinal(f, w, i)
    BY <1>1, <1>2, <1>10
  <2>3. QED
    BY <2>1, <2>2
<1>20. ReadsOn(v, t, U, a, FALSE)
  BY <1>5, <1>12, <1>17, <1>18, <1>19 DEF ReadsOn
<1>21. U \in SUBSET V
  BY <1>16
<1>22. QED
  BY <1>4, <1>20, <1>21 DEF ReadsPart

(* serialize() of a tree with a node below the root.                       *)
Doubled == form = "own" /\ Nested

\* The reader has seen all ends of nodes.
KvEnds == ~cut /\ form # "text"

\* Types, and what is in the tree.
KvTyped ==
  /\ kvStage \in {"build", "write", "read", "done", "refused", "assert"}
  /\ form \in {"own", "steam", "text"} /\ cut \in BOOLEAN
  /\ TreeInv(tree) /\ kvLeft \subseteq DOMAIN tree
  /\ kvTokens \in Seq(KvTokens) /\ kvAt \in KvPaths
  /\ kvGot \in [DOMAIN kvGot -> KvItems]

\* Nothing is written or read before the tree is complete.
BuildInv ==
  kvStage = "build" =>
    kvLeft = {} /\ kvAt = <<>> /\ kvTokens = <<>> /\ ~cut /\ DOMAIN kvGot = {}

(* The items that have been written.                                       *)
KvWritten == DOMAIN tree \ kvLeft

\* While it writes, and what it has written in the end.
WriteInv ==
  kvStage = "write" =>
    /\ ~cut /\ DOMAIN kvGot = {}
    /\ ~Doubled =>
         /\ Writes(kvTokens, tree, KvWritten, kvAt)
         /\ FromRoot(tree, KvWritten)
         /\ kvAt = <<>> \/ (kvAt \in KvWritten /\ tree[kvAt] = NodeItem)
         /\ kvAt = <<>> => kvLeft = DOMAIN tree
         /\ \A q \in kvLeft : \A p \in KvWritten : IsPrefix(p, q) => IsPrefix(p, kvAt)

(* What has been read is a part of the tree, and the rest will be read.    *)
GotInv ==
  /\ FromRoot(tree, DOMAIN kvGot)
  /\ \A p \in DOMAIN kvGot : kvGot[p] = tree[p]

\* What has not been read is still to come, all of it unless the data was cut off.
RestComes ==
  \E V \in SUBSET (DOMAIN tree \ DOMAIN kvGot) :
    /\ ReadsOn(kvTokens, tree, V, kvAt, KvEnds)
    /\ ~cut => V = DOMAIN tree \ DOMAIN kvGot

\* While it reads.
ReadInv ==
  kvStage = "read" /\ ~Doubled => /\ GotInv /\ RestComes
                                  /\ kvAt = <<>> \/ kvAt \in DOMAIN kvGot

\* What a reader that has ended has read.
KvEndInv ==
  ~Doubled =>
    /\ kvStage = "done" => GotInv /\ (cut => form = "text") /\ (~cut => DOMAIN kvGot = DOMAIN tree)
    /\ kvStage = "refused" => cut
    /\ kvStage = "assert" => form = "text" /\ cut

\* All of it.
KvInv == KvTyped /\ BuildInv /\ WriteInv /\ ReadInv /\ KvEndInv

\* The tree of a text has strings only.
TextInv == form = "text" => \A p \in DOMAIN tree : tree[p].type \in {"None", "String"}

(* Only a string can be put into the tree of a text, and the tree does not *)
(* change any more when it is written.                                     *)
LEMMA TextsAreStrings ==
  ASSUME TextInv, KvNext
  PROVE  TextInv'
<1>1. CASE \E p \in DOMAIN tree, name \in Names : SetItem(p, name)
  <2>1. PICK p \in DOMAIN tree, name \in Names : SetItem(p, name)
    BY <1>1
  <2>2. form' = form
    BY <2>1 DEF SetItem
  <2>3. NodeItem.type = "None"
    BY DEF NodeItem
  <2>4. ASSUME form = "text", NEW item, item.type \in {"None", "String"},
               tree' = Put(tree, Append(p, name), item)
        PROVE  \A q \in DOMAIN tree' : tree'[q].type \in {"None", "String"}
    BY <2>4 DEF TextInv, Put
  <2>5. CASE \E leaf \in Leaves : /\ form = "text" => leaf.type = "String"
                                   /\ tree' = Put(tree, Append(p, name), leaf)
    BY <2>2, <2>4, <2>5 DEF TextInv
  <2>6. CASE tree' = CreateNode(tree, Append(p, name))
    <3>1. CASE tree' = tree
      BY <3>1, <2>2 DEF TextInv
    <3>2. CASE tree' = Put(tree, Append(p, name), NodeItem)
      BY <3>2, <2>2, <2>3, <2>4 DEF TextInv
    <3>3. QED
      BY <3>1, <3>2, <2>6 DEF CreateNode
  <2>7. QED
    BY <2>1, <2>5, <2>6 DEF SetItem
<1>2. CASE ~\E p \in DOMAIN tree, name \in Names : SetItem(p, name)
  <2>1. tree' = tree /\ form' = form
    BY <1>2 DEF KvNext, WriteItem, Serialize, WriteEnd, CutOff, ReadItem, ReadEnd, BytesEnd,
                ReadTextItem, ReadBrace, TextEnds
  <2>2. QED
    BY <2>1 DEF TextInv
<1>3. QED
  BY <1>1, <1>2

(* The next item of a text that can be read is a node or a string.         *)
LEMMA NextOfText ==
  ASSUME KeyValueAssumption, KvInv, TextInv, kvStage = "read", form = "text", kvTokens # <<>>,
         Head(kvTokens).type # "End"
  PROVE  Value(Head(kvTokens)).type \in {"None", "String"}
<1>1. ~Doubled
  BY DEF Doubled
<1>2. RestComes
  BY <1>1 DEF KvInv, ReadInv
<1>3. PICK V : ReadsOn(kvTokens, tree, V, kvAt, KvEnds)
  BY <1>2 DEF RestComes
<1>4. KvEnds \in BOOLEAN /\ kvTokens \in Seq(KvTokens) /\ kvAt \in KvPaths
  BY DEF KvEnds, KvInv, KvTyped
<1>5. AfterToken(kvTokens, tree, V, kvAt, KvEnds)
  BY <1>3, <1>4, ReadsToken
<1>6. PICK p \in DOMAIN tree : tree[p] = Value(Head(kvTokens))
  BY <1>5 DEF AfterToken
<1>7. QED
  BY <1>6 DEF TextInv

(* The invariant holds at first.                                           *)
LEMMA KvInitially ==
  ASSUME KeyValueAssumption, KvInit
  PROVE  KvInv
<1>1. PICK r : r = Root
  OBVIOUS
<1>2. r \in KvPaths /\ IsPrefix(r, r)
  BY <1>1, RootIs, PrefixOrdered DEF PrefixOrder, KvPaths
<1>3. \A q \in KvPaths : IsPrefix(q, r) /\ IsPrefix(r, q) => q = r
  BY <1>2, PrefixOrdered DEF PrefixOrder, KvPaths
<1>4. tree = [q \in {r} |-> NodeItem]
  BY <1>1 DEF KvInit
<1>5. TreeInv(tree)
  <2>1. DOMAIN tree = {r} /\ tree[r] = NodeItem /\ NodeItem \in KvItems
    BY <1>4 DEF KvItems
  <2>2. tree \in [DOMAIN tree -> KvItems]
    BY <1>4, <2>1
  <2>3. \A q \in KvPaths : IsPrefix(q, r) /\ q # r /\ IsPrefix(Root, q) => FALSE
    BY <1>1, <1>3
  <2>4. QED
    BY <1>1, <1>2, <2>1, <2>2, <2>3 DEF TreeInv
<1>6. /\ kvStage = "build" /\ form \in {"own", "steam", "text"}
      /\ kvLeft = {} /\ kvAt = <<>> /\ kvTokens = <<>> /\ cut = FALSE /\ kvGot = << >>
  BY DEF KvInit
<1>7. kvTokens \in Seq(KvTokens) /\ kvAt \in KvPaths /\ DOMAIN kvGot = {}
      /\ kvGot \in [DOMAIN kvGot -> KvItems]
  BY <1>6 DEF KvPaths
<1>8. KvTyped
  BY <1>5, <1>6, <1>7 DEF KvTyped
<1>9. BuildInv /\ WriteInv /\ ReadInv /\ KvEndInv
  BY <1>6, <1>7 DEF BuildInv, WriteInv, ReadInv, KvEndInv
<1>10. QED
  BY <1>8, <1>9 DEF KvInv

(* The owner builds a tree.                                                *)
LEMMA SetItemKeeps ==
  ASSUME KeyValueAssumption, KvInv, NEW p \in DOMAIN tree, NEW name \in Names, SetItem(p, name)
  PROVE  KvInv'
<1>1. /\ kvStage = "build" /\ kvStage' = kvStage /\ form' = form /\ kvLeft' = kvLeft
      /\ kvAt' = kvAt /\ kvTokens' = kvTokens /\ cut' = cut /\ kvGot' = kvGot
      /\ tree[p].type = "None"
  BY DEF SetItem
<1>2. TreeInv(tree)
  BY DEF KvInv, KvTyped
<1>3. tree[p] \in KvItems /\ name \in KvNames
  BY <1>2 DEF TreeInv, KvNames
<1>4. tree[p] = NodeItem
  BY <1>1, <1>3, ItemsAre
<1>5. NodeItem \in KvItems /\ \A leaf \in Leaves : leaf \in KvItems
  BY DEF KvItems
<1>6. TreeInv(tree')
  <2>1. CASE \E leaf \in Leaves : tree' = Put(tree, Append(p, name), leaf)
    BY <2>1, <1>2, <1>3, <1>4, <1>5, PutInTree
  <2>2. CASE tree' = CreateNode(tree, Append(p, name))
    <3>1. CASE Append(p, name) \in DOMAIN tree
      BY <3>1, <2>2, <1>2 DEF CreateNode
    <3>2. CASE Append(p, name) \notin DOMAIN tree
      BY <3>2, <2>2, <1>2, <1>3, <1>4, <1>5, PutInTree DEF CreateNode
    <3>3. QED
      BY <3>1, <3>2
  <2>3. QED
    BY <2>1, <2>2 DEF SetItem
<1>7. BuildInv /\ kvLeft = {}
  BY <1>1 DEF KvInv, BuildInv
<1>8. KvTyped'
  BY <1>1, <1>6, <1>7 DEF KvInv, KvTyped
<1>9. BuildInv' /\ WriteInv' /\ ReadInv' /\ KvEndInv'
  BY <1>1, <1>7 DEF BuildInv, WriteInv, ReadInv, KvEndInv
<1>10. QED
  BY <1>8, <1>9 DEF KvInv

(* Starting to write keeps it.                                             *)
LEMMA SerializeKeeps ==
  ASSUME KeyValueAssumption, KvInv, Serialize
  PROVE  KvInv'
<1>1. /\ kvStage = "build" /\ kvStage' = "write" /\ kvLeft' = DOMAIN tree
      /\ tree' = tree /\ form' = form
      /\ kvAt' = kvAt /\ kvTokens' = kvTokens /\ cut' = cut /\ kvGot' = kvGot
  BY DEF Serialize
<1>2. kvAt = <<>> /\ kvTokens = <<>> /\ ~cut /\ DOMAIN kvGot = {}
  BY <1>1 DEF KvInv, BuildInv
<1>3. KvTyped'
  BY <1>1 DEF KvInv, KvTyped
<1>4. KvWritten' = {}
  BY <1>1 DEF KvWritten
<1>5. Writes(kvTokens, tree, {}, <<>>)
  <2>1. PICK w : w = <<>>
    OBVIOUS
  <2>2. Len(w) = 0 /\ 1..Len(w) = {} /\ w \in KvPaths
    BY <2>1 DEF KvPaths
  <2>3. PICK f : f = [i \in 0..0 |-> w]
    OBVIOUS
  <2>4. f \in [0..0 -> KvPaths] /\ f[0] = w
    BY <2>2, <2>3
  <2>5. KvWalk(f, w, tree) /\ KvVisits(f, w, {})
    BY <2>2, <2>4 DEF KvWalk, KvVisits
  <2>6. Writes(w, tree, {}, w)
    BY <2>1, <2>2, <2>4, <2>5 DEF Writes
  <2>7. QED
    BY <2>1, <2>6, <1>2
<1>6. FromRoot(tree, {})
  BY DEF FromRoot
<1>7. WriteInv'
  BY <1>1, <1>2, <1>4, <1>5, <1>6 DEF WriteInv
<1>8. BuildInv' /\ ReadInv' /\ KvEndInv'
  BY <1>1 DEF BuildInv, ReadInv, KvEndInv
<1>9. QED
  BY <1>3, <1>7, <1>8 DEF KvInv

(* The writer goes down to a child ...                                     *)
LEMMA WriteItemKeeps ==
  ASSUME KeyValueAssumption, KvInv, NEW p \in kvLeft, WriteItem(p)
  PROVE  KvInv'
<1>1. PICK name : name = Last(p)
  OBVIOUS
<1>2. /\ kvStage = "write" /\ p \in kvLeft \cap Children(tree, kvAt)
      /\ kvLeft' = kvLeft \ {p}
      /\ kvAt' = (IF tree[p].type = "None" THEN p ELSE kvAt)
      /\ kvTokens' = Append(kvTokens, ItemToken(tree[p], name))
      /\ kvStage' = kvStage /\ tree' = tree /\ form' = form /\ cut' = cut /\ kvGot' = kvGot
  BY <1>1 DEF WriteItem, ItemToken
<1>3. p \in DOMAIN tree /\ IsPrefix(kvAt, p) /\ Len(p) = Len(kvAt) + 1
  BY <1>2 DEF Children, Descendants, IsStrictPrefix
<1>4. p \in KvPaths /\ kvAt \in KvPaths /\ tree[p] \in KvItems /\ TreeInv(tree)
      /\ kvTokens \in Seq(KvTokens)
  BY <1>3 DEF KvInv, KvTyped, TreeInv
<1>5. name \in KvNames /\ p = Append(kvAt, name)
  BY <1>1, <1>3, <1>4, ChildIs DEF KvPaths
<1>6. PICK k : k = ItemToken(tree[p], name)
  OBVIOUS
<1>7. k \in KvTokens /\ k.type # "End" /\ k.name = name /\ Value(k) = tree[p]
  BY <1>4, <1>5, <1>6, TokensAre
<1>8. k.type = "None" <=> tree[p].type = "None"
  BY <1>6 DEF ItemToken
<1>9. tree[p].type = "None" <=> tree[p] = NodeItem
  BY <1>4, ItemsAre
<1>10. kvTokens' \in Seq(KvTokens)
  BY <1>2, <1>4, <1>6, <1>7, AppendFacts
<1>11. kvAt' \in KvPaths
  BY <1>2, <1>4
<1>12. KvTyped'
  BY <1>2, <1>10, <1>11 DEF KvInv, KvTyped
<1>13. ~cut /\ DOMAIN kvGot = {}
  BY <1>2 DEF KvInv, WriteInv
<1>14. ASSUME ~Doubled'
       PROVE  /\ Writes(kvTokens', tree', KvWritten', kvAt')
              /\ FromRoot(tree', KvWritten')
              /\ kvAt' = <<>> \/ (kvAt' \in KvWritten' /\ tree'[kvAt'] = NodeItem)
              /\ kvAt' = <<>> => kvLeft' = DOMAIN tree'
              /\ \A q \in kvLeft' : \A r \in KvWritten' : IsPrefix(r, q) => IsPrefix(r, kvAt')
  <2>1. ~Doubled
    BY <1>2, <1>14 DEF Doubled, Nested
  <2>2. /\ Writes(kvTokens, tree, KvWritten, kvAt)
        /\ FromRoot(tree, KvWritten)
        /\ kvAt = <<>> \/ (kvAt \in KvWritten /\ tree[kvAt] = NodeItem)
        /\ kvAt = <<>> => kvLeft = DOMAIN tree
        /\ \A q \in kvLeft : \A r \in KvWritten : IsPrefix(r, q) => IsPrefix(r, kvAt)
    BY <2>1, <1>2 DEF KvInv, WriteInv
  <2>3. KvWritten' = KvWritten \cup {p} /\ p \notin KvWritten
    BY <1>2, <1>3 DEF KvWritten
  <2>4. PICK b : b = IF k.type = "None" THEN p ELSE kvAt
    OBVIOUS
  <2>5. b = kvAt'
    BY <2>4, <1>2, <1>8
  <2>6. Writes(Append(kvTokens, k), tree, KvWritten \cup {p}, b)
    BY <2>2, <2>3, <2>4, <1>3, <1>4, <1>5, <1>7, WritesItem
  <2>7. Writes(kvTokens', tree', KvWritten', kvAt')
    BY <2>3, <2>5, <2>6, <1>2, <1>6
  <2>8. \A r \in KvPaths : IsPrefix(r, p) <=> IsPrefix(r, kvAt) \/ r = p
    BY <1>4, <1>5, PrefixOfAppend DEF KvPaths
  <2>9. \A r \in DOMAIN tree : r \in KvPaths /\ IsPrefix(Root, r)
    BY <1>4 DEF TreeInv
  <2>10. ASSUME kvAt = <<>>
         PROVE  \A r \in DOMAIN tree : ~IsPrefix(r, kvAt)
    <3>1. TAKE r \in DOMAIN tree
    <3>2. r # <<>> /\ r \in KvPaths
      BY <2>9, NoneAboveRoot
    <3>3. QED
      BY <3>2, <2>10, NoneAboveRoot
  <2>11. FromRoot(tree, KvWritten \cup {p})
    <3>1. KvWritten \cup {p} \subseteq DOMAIN tree
      BY <1>3 DEF KvWritten
    <3>2. ASSUME NEW r \in DOMAIN tree, IsPrefix(r, p)
          PROVE  r \in KvWritten \cup {p}
      <4>1. IsPrefix(r, kvAt) \/ r = p
        BY <2>8, <2>9, <3>2
      <4>2. CASE IsPrefix(r, kvAt)
        BY <4>2, <2>2, <2>10 DEF FromRoot
      <4>3. QED
        BY <4>1, <4>2
    <3>3. QED
      BY <3>1, <3>2, <2>2 DEF FromRoot
  <2>12. kvAt' = <<>> \/ (kvAt' \in KvWritten' /\ tree'[kvAt'] = NodeItem)
    <3>1. CASE tree[p].type = "None"
      BY <3>1, <2>3, <1>2, <1>9
    <3>2. CASE tree[p].type # "None"
      BY <3>2, <2>2, <2>3, <1>2
    <3>3. QED
      BY <3>1, <3>2
  <2>13. kvAt' = <<>> => kvLeft' = DOMAIN tree'
    <3>1. SUFFICES ASSUME kvAt' = <<>>
                   PROVE  FALSE
      OBVIOUS
    <3>2. p # <<>>
      BY <1>4, <1>5, PrefixOfAppend DEF KvPaths
    <3>3. kvAt = <<>> /\ tree[p].type # "None"
      BY <3>1, <3>2, <1>2
    <3>4. p = Root
      <4>1. IsPrefix(Root, p) /\ Root \in KvPaths
        BY <2>9, <1>3, RootIs
      <4>2. ~IsPrefix(Root, kvAt)
        BY <2>10, <3>3, <1>4 DEF TreeInv
      <4>3. QED
        BY <4>1, <4>2, <2>8
    <3>5. tree[p].type = "None"
      BY <3>4, <1>4, <1>9 DEF TreeInv
    <3>6. QED
      BY <3>3, <3>5
  <2>14. ASSUME NEW q \in kvLeft', NEW r \in KvWritten', IsPrefix(r, q)
         PROVE  IsPrefix(r, kvAt')
    <3>1. q \in kvLeft /\ q # p /\ q \in DOMAIN tree /\ q \in KvPaths
      BY <2>9, <2>14, <1>2 DEF KvInv, KvTyped
    <3>2. CASE r \in KvWritten
      <4>1. IsPrefix(r, kvAt) /\ r \in KvPaths
        BY <3>1, <3>2, <2>2, <2>9, <2>14 DEF KvWritten
      <4>2. IsPrefix(r, p)
        BY <4>1, <2>8
      <4>3. QED
        BY <4>1, <4>2, <1>2
    <3>3. CASE r = p
      <4>1. tree[p] = NodeItem
        BY <3>1, <3>3, <2>9, <2>14, <1>3, <1>4 DEF TreeInv
      <4>2. kvAt' = p
        BY <4>1, <1>2, <1>9
      <4>3. QED
        BY <4>2, <3>3, <1>4, PrefixOrdered DEF PrefixOrder, KvPaths
    <3>4. QED
      BY <3>2, <3>3, <2>3, <2>14
  <2>15. QED
    BY <2>3, <2>7, <2>11, <2>12, <2>13, <2>14, <1>2
<1>15. WriteInv'
  BY <1>2, <1>13, <1>14 DEF WriteInv
<1>16. BuildInv' /\ ReadInv' /\ KvEndInv'
  BY <1>2 DEF BuildInv, ReadInv, KvEndInv
<1>17. QED
  BY <1>12, <1>15, <1>16 DEF KvInv

(* The end of a node is one marker or two.                                 *)
LEMMA EndsAre ==
  ASSUME NEW w \in Seq(KvTokens), NEW p, EndToken \in KvTokens
  PROVE  /\ Append(w, EndToken) \in Seq(KvTokens)
         /\ w \o EndMarkers(p) \in Seq(KvTokens)
         /\ form = "own" \/ (form = "steam" /\ p = Root) =>
              w \o EndMarkers(p) = Append(Append(w, EndToken), EndToken)
         /\ ~(form = "own" \/ (form = "steam" /\ p = Root)) =>
              w \o EndMarkers(p) = Append(w, EndToken)
<1>1. PICK e \in KvTokens : e = EndToken
  OBVIOUS
<1>2. Append(w, e) \in Seq(KvTokens) /\ Append(Append(w, e), e) \in Seq(KvTokens)
  BY AppendFacts
<1>3. w \o <<e>> = Append(w, e)
  OBVIOUS
<1>4. w \o <<e, e>> = Append(Append(w, e), e)
  OBVIOUS
<1>5. EndMarkers(p) = IF form = "own" \/ (form = "steam" /\ p = Root) THEN <<e, e>> ELSE <<e>>
  BY <1>1 DEF EndMarkers, EndToken
<1>6. CASE form = "own" \/ (form = "steam" /\ p = Root)
  BY <1>1, <1>2, <1>4, <1>5, <1>6
<1>7. CASE ~(form = "own" \/ (form = "steam" /\ p = Root))
  BY <1>1, <1>2, <1>3, <1>5, <1>7
<1>8. QED
  BY <1>6, <1>7

(* ... and up again.                                                       *)
LEMMA WriteEndKeeps ==
  ASSUME KeyValueAssumption, KvInv, WriteEnd
  PROVE  KvInv'
<1>1. /\ kvStage = "write" /\ kvAt # <<>> /\ kvLeft \cap Children(tree, kvAt) = {}
      /\ kvTokens' = kvTokens \o EndMarkers(kvAt)
      /\ kvAt' = Front(kvAt)
      /\ kvStage' = (IF kvAt = Root THEN "read" ELSE "write")
      /\ tree' = tree /\ form' = form /\ kvLeft' = kvLeft /\ cut' = cut /\ kvGot' = kvGot
  BY DEF WriteEnd
<1>2. kvAt \in KvPaths /\ TreeInv(tree) /\ kvTokens \in Seq(KvTokens) /\ EndToken \in KvTokens
      /\ EndToken.type = "End"
  BY TokensAre DEF KvInv, KvTyped
<1>3. kvTokens' \in Seq(KvTokens)
  BY <1>1, <1>2, EndsAre
<1>4. kvAt' \in KvPaths
  BY <1>1, <1>2, FrontIs DEF KvPaths
<1>5. kvStage' \in {"read", "write"}
  BY <1>1
<1>6. KvTyped'
  BY <1>1, <1>3, <1>4, <1>5 DEF KvInv, KvTyped
<1>7. ~cut /\ DOMAIN kvGot = {}
  BY <1>1 DEF KvInv, WriteInv
<1>8. BuildInv' /\ KvEndInv'
  BY <1>5 DEF BuildInv, KvEndInv
<1>9. Doubled' <=> Doubled
  BY <1>1 DEF Doubled, Nested
<1>10. KvWritten' = KvWritten
  BY <1>1 DEF KvWritten
<1>11. WriteInv' /\ ReadInv'
  <2>1. CASE Doubled
    BY <2>1, <1>1, <1>7, <1>9 DEF WriteInv, ReadInv
  <2>2. CASE ~Doubled
    <3>1. /\ Writes(kvTokens, tree, KvWritten, kvAt)
          /\ FromRoot(tree, KvWritten)
          /\ kvAt \in KvWritten /\ tree[kvAt] = NodeItem
          /\ \A q \in kvLeft : \A r \in KvWritten : IsPrefix(r, q) => IsPrefix(r, kvAt)
      BY <2>2, <1>1 DEF KvInv, WriteInv
    <3>2. PICK w : w = Append(kvTokens, EndToken)
      OBVIOUS
    <3>3. Writes(w, tree, KvWritten, Front(kvAt)) /\ w \in Seq(KvTokens)
      BY <3>1, <3>2, <1>1, <1>2, WritesEnd, AppendFacts
    <3>4. /\ kvAt = Root => Front(kvAt) = <<>>
          /\ kvAt # Root => Front(kvAt) \in KvWritten /\ tree[Front(kvAt)] = NodeItem
          /\ IsPrefix(Front(kvAt), kvAt)
      BY <3>1, <1>2, FrontOpen
    <3>5. \A r \in DOMAIN tree : r \in KvPaths /\ IsPrefix(Root, r)
      BY <1>2 DEF TreeInv
    <3>6. ASSUME NEW q \in kvLeft, IsPrefix(kvAt, q)
          PROVE  FALSE
      <4>1. q \in DOMAIN tree /\ q \in KvPaths /\ q \notin KvWritten /\ q # kvAt
        BY <3>1, <3>5 DEF KvWritten, KvInv, KvTyped
      <4>2. PICK x \in KvNames : IsPrefix(Append(kvAt, x), q)
        BY <3>6, <4>1, <1>2, ThroughChild DEF KvPaths
      <4>3. PICK c : c = Append(kvAt, x)
        OBVIOUS
      <4>4. c \in KvPaths /\ IsPrefix(kvAt, c) /\ c # kvAt /\ ~IsPrefix(c, kvAt)
        BY <4>3, <1>2, PrefixOfAppend DEF KvPaths
      <4>5. Len(c) = Len(kvAt) + 1
        BY <4>3, <1>2, AppendFacts DEF KvPaths
      <4>6. IsPrefix(Root, kvAt) /\ IsPrefix(c, q)
        BY <4>2, <4>3, <3>1, <3>5 DEF KvWritten
      <4>7. IsPrefix(Root, c)
        BY <4>4, <4>6, <1>2, RootIs, PrefixOrdered DEF PrefixOrder, KvPaths
      <4>8. c \in DOMAIN tree
        BY <4>1, <4>4, <4>6, <4>7, <1>2 DEF TreeInv
      <4>9. c \in Children(tree, kvAt)
        BY <4>4, <4>5, <4>8 DEF Children, Descendants, IsStrictPrefix
      <4>10. c \in KvWritten
        BY <4>8, <4>9, <1>1 DEF KvWritten
      <4>11. IsPrefix(c, kvAt)
        BY <4>6, <4>10, <3>1
      <4>12. QED
        BY <4>4, <4>11
    <3>7. CASE kvAt = Root
      <4>1. kvLeft = {}
        <5>1. \A q \in kvLeft : IsPrefix(kvAt, q)
          BY <3>5, <3>7 DEF KvInv, KvTyped
        <5>2. QED
          BY <5>1, <3>6
      <4>2. KvWritten = DOMAIN tree /\ kvAt' = <<>> /\ kvStage' = "read"
        BY <4>1, <3>4, <3>7, <1>1 DEF KvWritten
      <4>3. Writes(w, tree, DOMAIN tree, <<>>)
        BY <4>2, <3>3, <1>1
      <4>4. PICK ends \in BOOLEAN : ends = (form # "text")
        OBVIOUS
      <4>5. ReadsOn(kvTokens', tree, DOMAIN tree, <<>>, ends)
        <5>1. CASE form = "text"
          <6>1. kvTokens' = w /\ ends = FALSE
            BY <5>1, <4>4, <3>2, <1>1, <1>2, EndsAre
          <6>2. QED
            BY <6>1, <4>3, <3>3, WrittenReads
        <5>2. CASE form # "text"
          <6>1. form = "own" \/ form = "steam"
            BY <5>2 DEF KvInv, KvTyped
          <6>2. kvTokens' = Append(w, EndToken)
            BY <6>1, <3>2, <3>7, <1>1, <1>2, EndsAre
          <6>3. ends = TRUE
            BY <5>2, <4>4
          <6>4. ReadsOn(Append(w, EndToken), tree, DOMAIN tree, <<>>, TRUE)
            BY <4>3, <3>3, <1>2, WrittenEnds
          <6>5. QED
            BY <6>2, <6>3, <6>4
        <5>3. QED
          BY <5>1, <5>2
      <4>6. KvEnds' = ends
        BY <4>4, <1>1, <1>7 DEF KvEnds
      <4>7. (DOMAIN tree \ DOMAIN kvGot)' = DOMAIN tree
        BY <1>1, <1>7
      <4>8. ReadsOn(kvTokens', tree', DOMAIN tree, kvAt', KvEnds')
        BY <4>2, <4>5, <4>6, <1>1
      <4>9. RestComes'
        BY <4>7, <4>8 DEF RestComes
      <4>10. GotInv'
        BY <1>1, <1>7 DEF GotInv, FromRoot
      <4>11. WriteInv'
        BY <4>2 DEF WriteInv
      <4>12. QED
        BY <4>2, <4>9, <4>10, <4>11 DEF ReadInv
    <3>8. CASE kvAt # Root
      <4>1. ~(form = "own")
        BY <3>1, <3>8, <2>2, <1>2, ItemsAre DEF Doubled, Nested, KvWritten, NodeItem
      <4>2. kvTokens' = w
        BY <4>1, <3>2, <3>8, <1>1, <1>2, EndsAre
      <4>3. kvAt' \in KvWritten /\ tree[kvAt'] = NodeItem
        BY <3>4, <3>8, <1>1
      <4>4. kvAt' # <<>>
        <5>1. <<>> \notin DOMAIN tree
          BY <3>5, RootIs, PrefixOrdered DEF PrefixOrder, KvPaths
        <5>2. QED
          BY <5>1, <4>3 DEF KvWritten
      <4>5. ASSUME NEW q \in kvLeft, NEW r \in KvWritten, IsPrefix(r, q)
            PROVE  IsPrefix(r, kvAt')
        <5>1. IsPrefix(r, kvAt) /\ r # kvAt
          BY <4>5, <3>1, <3>6
        <5>2. kvAt = Append(Front(kvAt), Last(kvAt)) /\ Front(kvAt) \in KvPaths
              /\ Last(kvAt) \in KvNames
          BY <1>1, <1>2, FrontIs DEF KvPaths
        <5>3. r \in KvPaths
          BY <3>5 DEF KvWritten
        <5>4. PICK f, x : f = Front(kvAt) /\ x = Last(kvAt)
          OBVIOUS
        <5>5. IsPrefix(r, Append(f, x)) <=> IsPrefix(r, f) \/ r = Append(f, x)
          BY <5>2, <5>3, <5>4, PrefixOfAppend DEF KvPaths
        <5>6. QED
          BY <5>1, <5>2, <5>4, <5>5, <1>1
      <4>6. Writes(kvTokens', tree', KvWritten', kvAt')
        BY <4>2, <3>3, <1>1, <1>10
      <4>7. FromRoot(tree', KvWritten')
        BY <3>1, <1>1, <1>10
      <4>8. kvAt' \in KvWritten' /\ tree'[kvAt'] = NodeItem
        BY <4>3, <1>1, <1>10
      <4>9. \A q \in kvLeft' : \A r \in KvWritten' : IsPrefix(r, q) => IsPrefix(r, kvAt')
        BY <4>5, <1>1, <1>10
      <4>10. ~cut' /\ DOMAIN kvGot' = {}
        BY <1>1, <1>7
      <4>11. WriteInv'
        BY <4>4, <4>6, <4>7, <4>8, <4>9, <4>10 DEF WriteInv
      <4>12. ReadInv'
        BY <3>8, <1>1 DEF ReadInv
      <4>13. QED
        BY <4>11, <4>12
    <3>9. QED
      BY <3>7, <3>8
  <2>3. QED
    BY <2>1, <2>2
<1>12. QED
  BY <1>6, <1>8, <1>11 DEF KvInv

(* A reader puts in what the next token stands for.                        *)
LEMMA ReadKeeps ==
  ASSUME KeyValueAssumption, KvInv, kvStage = "read", kvTokens # <<>>, Head(kvTokens).type # "End",
         NEW k, k = Head(kvTokens), NEW p, p = Append(kvAt, k.name),
         kvGot' = (IF k.type = "None" /\ form = "text" THEN CreateNode(kvGot, p)
                     ELSE Put(kvGot, p, Value(k))),
         kvAt' = (IF k.type = "None" THEN p ELSE kvAt), kvTokens' = Tail(kvTokens),
         UNCHANGED <<kvStage, tree, form, kvLeft, cut>>
  PROVE  KvInv'
<1>1. kvAt \in KvPaths /\ TreeInv(tree) /\ kvTokens \in Seq(KvTokens)
      /\ kvGot \in [DOMAIN kvGot -> KvItems]
  BY DEF KvInv, KvTyped
<1>2. k \in KvTokens
  BY <1>1, TailFacts
<1>3. k.type # "End" /\ k.name \in KvNames /\ Value(k) \in KvItems
      /\ (k.type = "None" <=> Value(k) = NodeItem)
  BY <1>2, TokensAre
<1>4. p \in KvPaths
  BY <1>1, <1>3, PrefixOfAppend DEF KvPaths
<1>5. kvTokens' \in Seq(KvTokens) /\ kvAt' \in KvPaths
  BY <1>1, <1>4, TailFacts
<1>6. kvGot' \in [DOMAIN kvGot' -> KvItems]
  <2>1. ASSUME NEW item \in KvItems, NEW u, u = Put(kvGot, p, item)
        PROVE  u \in [DOMAIN u -> KvItems]
    BY <2>1, <1>1 DEF Put
  <2>2. NodeItem \in KvItems
    BY DEF KvItems
  <2>3. CASE kvGot' = kvGot
    BY <2>3, <1>1
  <2>4. CASE kvGot' # kvGot
    BY <2>1, <2>2, <2>4, <1>3 DEF CreateNode
  <2>5. QED
    BY <2>3, <2>4
<1>7. /\ kvStage' = kvStage /\ tree' = tree /\ form' = form /\ kvLeft' = kvLeft /\ cut' = cut
  OBVIOUS
<1>8. KvTyped'
  BY <1>5, <1>6, <1>7 DEF KvInv, KvTyped
<1>9. BuildInv' /\ WriteInv' /\ KvEndInv'
  BY <1>7 DEF BuildInv, WriteInv, KvEndInv
<1>10. ASSUME ~Doubled'
       PROVE  GotInv' /\ RestComes' /\ (kvAt' = <<>> \/ kvAt' \in DOMAIN kvGot')
  <2>1. ~Doubled
    BY <1>7, <1>10 DEF Doubled, Nested
  <2>2. GotInv /\ RestComes /\ (kvAt = <<>> \/ kvAt \in DOMAIN kvGot)
    BY <2>1 DEF KvInv, ReadInv
  <2>3. PICK V \in SUBSET (DOMAIN tree \ DOMAIN kvGot) :
          /\ ReadsOn(kvTokens, tree, V, kvAt, KvEnds)
          /\ ~cut => V = DOMAIN tree \ DOMAIN kvGot
    BY <2>2 DEF RestComes
  <2>4. KvEnds \in BOOLEAN
    BY DEF KvEnds
  <2>5. /\ p \in V /\ p \in DOMAIN tree /\ tree[p] = Value(k)
        /\ ReadsOn(Tail(kvTokens), tree, V \ {p}, IF k.type = "None" THEN p ELSE kvAt, KvEnds)
    <3>1. AfterToken(kvTokens, tree, V, kvAt, KvEnds)
      BY <2>3, <2>4, <1>1, <1>3, ReadsToken
    <3>2. QED
      BY <3>1, <1>3 DEF AfterToken
  <2>6. p \notin DOMAIN kvGot /\ FromRoot(tree, DOMAIN kvGot)
        /\ \A q \in DOMAIN kvGot : kvGot[q] = tree[q]
    BY <2>2, <2>3, <2>5 DEF GotInv
  <2>7. CreateNode(kvGot, p) = Put(kvGot, p, NodeItem)
    BY <2>6 DEF CreateNode
  <2>8. kvGot' = Put(kvGot, p, Value(k))
    BY <2>7, <1>3
  <2>9. /\ DOMAIN kvGot' = DOMAIN kvGot \cup {p} /\ kvGot'[p] = Value(k)
        /\ \A q \in DOMAIN kvGot : kvGot'[q] = kvGot[q]
    <3>1. Descendants(kvGot, p) = {}
      BY <2>5, <2>6, <1>1, NothingBelow
    <3>2. QED
      BY <3>1, <2>6, <2>8 DEF Put
  <2>10. \A q \in DOMAIN kvGot' : kvGot'[q] = tree[q]
    BY <2>5, <2>6, <2>9
  <2>11. \A r \in DOMAIN tree : r \in KvPaths /\ IsPrefix(Root, r)
    BY <1>1 DEF TreeInv
  <2>12. ASSUME NEW r \in DOMAIN tree, IsPrefix(r, p)
         PROVE  r \in DOMAIN kvGot'
    <3>1. IsPrefix(r, kvAt) \/ r = p
      BY <2>11, <2>12, <1>1, <1>3, PrefixOfAppend DEF KvPaths
    <3>2. CASE IsPrefix(r, kvAt) /\ kvAt = <<>>
      <4>1. r = <<>> /\ IsPrefix(Root, r)
        BY <3>2, <2>11, PrefixOrdered DEF PrefixOrder, KvPaths
      <4>2. QED
        BY <4>1, RootIs, PrefixOrdered DEF PrefixOrder, KvPaths
    <3>3. CASE IsPrefix(r, kvAt) /\ kvAt \in DOMAIN kvGot
      BY <3>3, <2>6, <2>9 DEF FromRoot
    <3>4. QED
      BY <3>1, <3>2, <3>3, <2>2, <2>9
  <2>13. FromRoot(tree, DOMAIN kvGot')
    BY <2>5, <2>6, <2>9, <2>12 DEF FromRoot
  <2>14. GotInv'
    BY <2>10, <2>13, <1>7 DEF GotInv
  <2>15. V \ {p} \in SUBSET (DOMAIN tree \ DOMAIN kvGot')
    BY <2>3, <2>9
  <2>16. ~cut => V \ {p} = DOMAIN tree \ DOMAIN kvGot'
    BY <2>3, <2>9
  <2>17. KvEnds' = KvEnds
    BY <1>7 DEF KvEnds
  <2>18. ReadsOn(kvTokens', tree, V \ {p}, kvAt', KvEnds)
    BY <2>5
  <2>19. RestComes'
    BY <2>15, <2>16, <2>17, <2>18, <1>7 DEF RestComes
  <2>20. kvAt' = <<>> \/ kvAt' \in DOMAIN kvGot'
    BY <2>2, <2>9
  <2>21. QED
    BY <2>14, <2>19, <2>20
<1>11. ReadInv'
  BY <1>7, <1>10 DEF ReadInv
<1>12. QED
  BY <1>8, <1>9, <1>11 DEF KvInv

(* A marker closes the node it is in.                                      *)
LEMMA CloseKeeps ==
  ASSUME KeyValueAssumption, KvInv, kvStage = "read", kvTokens # <<>>, Head(kvTokens).type = "End",
         kvAt # <<>>, kvAt' = Front(kvAt), kvTokens' = Tail(kvTokens),
         UNCHANGED <<kvStage, tree, form, kvLeft, cut, kvGot>>
  PROVE  KvInv'
<1>1. kvAt \in KvPaths /\ TreeInv(tree) /\ kvTokens \in Seq(KvTokens)
  BY DEF KvInv, KvTyped
<1>2. kvTokens' \in Seq(KvTokens) /\ kvAt' \in KvPaths
  BY <1>1, TailFacts, FrontIs DEF KvPaths
<1>3. /\ kvStage' = kvStage /\ tree' = tree /\ form' = form /\ kvLeft' = kvLeft /\ cut' = cut
      /\ kvGot' = kvGot
  OBVIOUS
<1>4. KvTyped'
  BY <1>2, <1>3 DEF KvInv, KvTyped
<1>5. BuildInv' /\ WriteInv' /\ KvEndInv'
  BY <1>3 DEF BuildInv, WriteInv, KvEndInv
<1>6. ASSUME ~Doubled'
      PROVE  GotInv' /\ RestComes' /\ (kvAt' = <<>> \/ kvAt' \in DOMAIN kvGot')
  <2>1. ~Doubled
    BY <1>3, <1>6 DEF Doubled, Nested
  <2>2. GotInv /\ RestComes /\ kvAt \in DOMAIN kvGot
    BY <2>1 DEF KvInv, ReadInv
  <2>3. PICK V \in SUBSET (DOMAIN tree \ DOMAIN kvGot) :
          /\ ReadsOn(kvTokens, tree, V, kvAt, KvEnds)
          /\ ~cut => V = DOMAIN tree \ DOMAIN kvGot
    BY <2>2 DEF RestComes
  <2>4. KvEnds \in BOOLEAN
    BY DEF KvEnds
  <2>5. ReadsOn(Tail(kvTokens), tree, V, Front(kvAt), KvEnds)
    <3>1. AfterToken(kvTokens, tree, V, kvAt, KvEnds)
      BY <2>3, <2>4, <1>1, ReadsToken
    <3>2. QED
      BY <3>1 DEF AfterToken
  <2>6. KvEnds' = KvEnds
    BY <1>3 DEF KvEnds
  <2>7. RestComes'
    BY <2>3, <2>5, <2>6, <1>3 DEF RestComes
  <2>8. GotInv'
    BY <2>2, <1>3 DEF GotInv
  <2>9. Front(kvAt) = <<>> \/ Front(kvAt) \in DOMAIN kvGot
    BY <2>2, <1>1, FrontOpen DEF GotInv
  <2>10. QED
    BY <2>7, <2>8, <2>9, <1>3
<1>7. ReadInv'
  BY <1>3, <1>6 DEF ReadInv
<1>8. QED
  BY <1>4, <1>5, <1>7 DEF KvInv

(* The reader ends.                                                        *)
LEMMA EndKeeps ==
  ASSUME KvInv, kvStage' \in {"done", "refused", "assert"}, kvTokens' \in Seq(KvTokens),
         UNCHANGED <<tree, form, kvLeft, kvAt, cut, kvGot>>, KvEndInv'
  PROVE  KvInv'
<1>1. kvStage' \notin {"build", "write", "read"}
  OBVIOUS
<1>2. KvTyped'
  BY DEF KvInv, KvTyped
<1>3. BuildInv' /\ WriteInv' /\ ReadInv'
  BY <1>1 DEF BuildInv, WriteInv, ReadInv
<1>4. QED
  BY <1>2, <1>3 DEF KvInv

(* A part of the tree with a root makes a document, an empty part none.    *)
LEMMA OutcomeIs ==
  ASSUME TreeInv(tree), GotInv, kvGot \in [DOMAIN kvGot -> KvItems], DOMAIN kvGot # {},
         KeyValueAssumption
  PROVE  Outcome = "done"
<1>1. \A q \in DOMAIN tree : q \in KvPaths /\ IsPrefix(Root, q)
  BY DEF TreeInv
<1>2. DOMAIN kvGot \subseteq DOMAIN tree /\ Root \in DOMAIN tree /\ tree[Root] = NodeItem
  BY DEF GotInv, FromRoot, TreeInv
<1>3. Root \in DOMAIN kvGot
  BY <1>1, <1>2 DEF GotInv, FromRoot
<1>4. kvGot[Root] = NodeItem
  BY <1>2, <1>3 DEF GotInv
<1>5. kvGot[Root].type = "None"
  BY <1>4 DEF NodeItem
<1>6. PICK e : e = <<>>
  OBVIOUS
<1>6a. e \in KvPaths /\ Len(e) = 0
  BY <1>6 DEF KvPaths
<1>7. Root \in Children(kvGot, e)
  <2>1. IsPrefix(e, Root) /\ e # Root
    BY <1>6, RootIs, PrefixOrdered DEF PrefixOrder, KvPaths
  <2>2. Len(Root) = Len(e) + 1
    BY <1>6a, RootIs
  <2>3. QED
    BY <2>1, <2>2, <1>3 DEF Children, Descendants, IsStrictPrefix
<1>8. ASSUME NEW q \in Children(kvGot, e)
      PROVE  q = Root
  <2>1. q \in DOMAIN kvGot /\ Len(q) = Len(e) + 1
    BY DEF Children, Descendants
  <2>2. q \in KvPaths /\ IsPrefix(Root, q) /\ Len(q) = 1
    BY <2>1, <1>1, <1>2, <1>6a
  <2>3. Len(Root) = 1 /\ Root \in KvPaths /\ \A i \in 1..1 : Root[i] = q[i]
    <3>1. Root \in KvPaths /\ Len(Root) = 1
      BY RootIs
    <3>2. \A i \in 1..Len(Root) : Root[i] = q[i]
      BY <2>2, <3>1, PrefixIs DEF KvPaths
    <3>3. QED
      BY <3>1, <3>2
  <2>4. QED
    BY <2>2, <2>3, SeqEqual DEF KvPaths
<1>9. Children(kvGot, <<>>) = {Root}
  BY <1>6, <1>7, <1>8
<1>10. QED
  BY <1>3, <1>5, <1>9 DEF Outcome

(* Reading an item or the begin of a node keeps it.                        *)
LEMMA ReadItemKeeps ==
  ASSUME KeyValueAssumption, KvInv, TextInv, ReadItem \/ ReadTextItem
  PROVE  KvInv'
<1>1. PICK k, p : k = Head(kvTokens) /\ p = Append(kvAt, k.name)
  OBVIOUS
<1>2. /\ kvStage = "read" /\ kvTokens # <<>> /\ Head(kvTokens).type # "End"
      /\ kvTokens' = Tail(kvTokens)
      /\ UNCHANGED <<kvStage, tree, form, kvLeft, cut>>
  BY DEF ReadItem, ReadTextItem, MoreBytes, MoreText
<1>3. kvTokens \in Seq(KvTokens)
  BY DEF KvInv, KvTyped
<1>4. k \in KvTokens /\ k.type # "End"
  BY <1>1, <1>2, <1>3, TailFacts
<1>5. k.type = "None" => Value(k) = NodeItem
  BY <1>4, TokensAre
<1>5a. form = "text" /\ k.type # "None" => TextValue(k) = Value(k)
  <2>1. form = "text" => Value(k).type \in {"None", "String"}
    BY <1>1, <1>2, NextOfText
  <2>2. QED
    BY <2>1 DEF TextValue, Value
<1>6. kvGot' = (IF k.type = "None" /\ form = "text" THEN CreateNode(kvGot, p)
                  ELSE Put(kvGot, p, Value(k)))
  BY <1>1, <1>5, <1>5a DEF ReadItem, ReadTextItem, MoreBytes, MoreText
<1>7. kvAt' = IF k.type = "None" THEN p ELSE kvAt
  BY <1>1 DEF ReadItem, ReadTextItem
<1>8. QED
  BY <1>1, <1>2, <1>6, <1>7, ReadKeeps

(* Reading the end of a node keeps it.                                     *)
LEMMA ReadEndKeeps ==
  ASSUME KeyValueAssumption, KvInv, ReadEnd \/ ReadBrace
  PROVE  KvInv'
<1>1. /\ kvStage = "read" /\ kvTokens # <<>> /\ Head(kvTokens).type = "End"
      /\ kvTokens' = Tail(kvTokens)
      /\ UNCHANGED <<tree, form, kvLeft, cut, kvGot>>
  BY DEF ReadEnd, ReadBrace, MoreBytes, MoreText
<1>2. kvTokens \in Seq(KvTokens) /\ TreeInv(tree) /\ kvGot \in [DOMAIN kvGot -> KvItems]
  BY DEF KvInv, KvTyped
<1>3. CASE kvAt # <<>>
  BY <1>3, <1>1, CloseKeeps DEF ReadEnd, ReadBrace
<1>4. CASE kvAt = <<>>
  <2>1. kvAt' = kvAt /\ kvStage' = (IF form = "text" THEN "refused" ELSE Outcome)
    BY <1>4 DEF ReadEnd, ReadBrace, MoreBytes, MoreText
  <2>2. kvStage' \in {"done", "refused", "assert"}
    BY <2>1 DEF Outcome
  <2>3. kvTokens' \in Seq(KvTokens)
    BY <1>1, <1>2, TailFacts
  <2>4. KvEndInv'
    <3>1. SUFFICES ASSUME ~Doubled'
                   PROVE  /\ kvStage' = "done"
                          /\ GotInv' /\ form # "text" /\ ~cut
                          /\ DOMAIN kvGot' = DOMAIN tree'
      BY <1>1 DEF KvEndInv
    <3>2. ~Doubled
      BY <1>1, <3>1 DEF Doubled, Nested
    <3>3. GotInv /\ RestComes
      BY <3>2, <1>1 DEF KvInv, ReadInv
    <3>4. PICK V \in SUBSET (DOMAIN tree \ DOMAIN kvGot) :
            /\ ReadsOn(kvTokens, tree, V, kvAt, KvEnds)
            /\ ~cut => V = DOMAIN tree \ DOMAIN kvGot
      BY <3>3 DEF RestComes
    <3>5. KvEnds \in BOOLEAN
      BY DEF KvEnds
    <3>6. KvEnds /\ V = {}
      BY <3>4, <3>5, <1>1, <1>2, <1>4, ReadsFinal
    <3>7. ~cut /\ form # "text"
      BY <3>6 DEF KvEnds
    <3>8. DOMAIN kvGot = DOMAIN tree
      BY <3>3, <3>4, <3>6, <3>7 DEF GotInv, FromRoot
    <3>9. Root \in DOMAIN kvGot
      BY <3>8, <1>2 DEF TreeInv
    <3>10. Outcome = "done"
      BY <3>3, <3>9, <1>2, OutcomeIs
    <3>11. kvStage' = "done"
      BY <3>7, <3>10, <2>1
    <3>12. GotInv'
      BY <3>3, <1>1 DEF GotInv
    <3>13. QED
      BY <3>7, <3>8, <3>11, <3>12, <1>1
  <2>5. QED
    BY <2>1, <2>2, <2>3, <2>4, <1>1, EndKeeps
<1>5. QED
  BY <1>3, <1>4

(* Coming to the end of what there is to read keeps it.                    *)
LEMMA EndsKeep ==
  ASSUME KeyValueAssumption, KvInv, BytesEnd \/ TextEnds
  PROVE  KvInv'
<1>1. /\ kvStage = "read" /\ kvTokens = <<>>
      /\ UNCHANGED <<tree, form, kvLeft, kvAt, kvTokens, cut, kvGot>>
  BY DEF BytesEnd, TextEnds
<1>2. kvTokens \in Seq(KvTokens) /\ TreeInv(tree) /\ kvGot \in [DOMAIN kvGot -> KvItems]
  BY DEF KvInv, KvTyped
<1>3. \/ kvStage' = "refused" /\ (form # "text" \/ cut)
      \/ kvStage' = Outcome /\ form = "text"
  BY DEF BytesEnd, TextEnds
<1>4. kvStage' \in {"done", "refused", "assert"}
  BY <1>3 DEF Outcome
<1>5. KvEndInv'
  <2>1. SUFFICES ASSUME ~Doubled'
                 PROVE  \/ kvStage' = "refused" /\ cut
                        \/ kvStage' = "assert" /\ form = "text" /\ cut
                        \/ /\ kvStage' = "done" /\ form = "text" /\ GotInv'
                           /\ ~cut => DOMAIN kvGot = DOMAIN tree
    BY <1>1 DEF KvEndInv
  <2>2. ~Doubled
    BY <1>1, <2>1 DEF Doubled, Nested
  <2>3. GotInv /\ RestComes
    BY <2>2, <1>1 DEF KvInv, ReadInv
  <2>4. PICK V \in SUBSET (DOMAIN tree \ DOMAIN kvGot) :
          /\ ReadsOn(kvTokens, tree, V, kvAt, KvEnds)
          /\ ~cut => V = DOMAIN tree \ DOMAIN kvGot
    BY <2>3 DEF RestComes
  <2>5. KvEnds \in BOOLEAN
    BY DEF KvEnds
  <2>6. ~KvEnds /\ V = {}
    BY <2>4, <2>5, <1>1, ReadsNone
  <2>7. form # "text" => cut
    BY <2>6 DEF KvEnds
  <2>8. ~cut => DOMAIN kvGot = DOMAIN tree
    BY <2>3, <2>4, <2>6 DEF GotInv, FromRoot
  <2>9. GotInv'
    BY <2>3, <1>1 DEF GotInv
  <2>10. ASSUME ~cut
         PROVE  Outcome = "done"
    <3>1. Root \in DOMAIN kvGot
      BY <2>8, <2>10, <1>2 DEF TreeInv
    <3>2. QED
      BY <3>1, <2>3, <1>2, OutcomeIs
  <2>11. Outcome \in {"done", "assert"}
    BY DEF Outcome
  <2>12. QED
    BY <2>7, <2>8, <2>9, <2>10, <2>11, <1>3
<1>6. QED
  BY <1>1, <1>2, <1>4, <1>5, EndKeeps

(* Losing the end of what was written keeps it.                            *)
LEMMA CutOffKeeps ==
  ASSUME KeyValueAssumption, KvInv, CutOff
  PROVE  KvInv'
<1>1. /\ kvStage = "read" /\ ~cut /\ kvTokens # <<>> /\ cut' = TRUE
      /\ kvStage' = kvStage /\ tree' = tree /\ form' = form /\ kvLeft' = kvLeft
      /\ kvAt' = kvAt /\ kvGot' = kvGot
  BY DEF CutOff
<1>2. PICK n \in 0..(Len(kvTokens) - 1) : kvTokens' = SubSeq(kvTokens, 1, n)
  BY DEF CutOff
<1>3. kvTokens \in Seq(KvTokens)
  BY DEF KvInv, KvTyped
<1>4. kvTokens' \in Seq(KvTokens)
  <2>1. PICK m \in Nat : m = Len(kvTokens)
    BY <1>3
  <2>2. n \in Nat /\ n <= m
    BY <2>1
  <2>3. QED
    BY <2>1, <2>2, <1>2, <1>3
<1>5. KvTyped'
  BY <1>1, <1>4 DEF KvInv, KvTyped
<1>6. BuildInv' /\ WriteInv' /\ KvEndInv'
  BY <1>1 DEF BuildInv, WriteInv, KvEndInv
<1>7. ASSUME ~Doubled'
      PROVE  GotInv' /\ RestComes' /\ (kvAt' = <<>> \/ kvAt' \in DOMAIN kvGot')
  <2>1. ~Doubled
    BY <1>1, <1>7 DEF Doubled, Nested
  <2>2. GotInv /\ RestComes /\ (kvAt = <<>> \/ kvAt \in DOMAIN kvGot)
    BY <2>1, <1>1 DEF KvInv, ReadInv
  <2>3. PICK V \in SUBSET (DOMAIN tree \ DOMAIN kvGot) :
          ReadsOn(kvTokens, tree, V, kvAt, KvEnds)
    BY <2>2 DEF RestComes
  <2>4. KvEnds \in BOOLEAN
    BY DEF KvEnds
  <2>5. PICK U \in SUBSET V : ReadsOn(SubSeq(kvTokens, 1, n), tree, U, kvAt, FALSE)
    <3>1. ReadsPart(SubSeq(kvTokens, 1, n), tree, V, kvAt)
      BY <2>3, <2>4, <1>3, ReadsCut
    <3>2. QED
      BY <3>1 DEF ReadsPart
  <2>6. KvEnds' = FALSE
    BY <1>1 DEF KvEnds
  <2>7. ReadsOn(kvTokens', tree', U, kvAt', KvEnds')
    BY <2>5, <2>6, <1>1, <1>2
  <2>8. RestComes'
    BY <2>7, <2>3, <1>1 DEF RestComes
  <2>9. GotInv'
    BY <2>2, <1>1 DEF GotInv
  <2>10. QED
    BY <2>2, <2>8, <2>9, <1>1
<1>8. ReadInv'
  BY <1>1, <1>7 DEF ReadInv
<1>9. QED
  BY <1>5, <1>6, <1>8 DEF KvInv

(* A step of something else keeps it.                                      *)
LEMMA KvStutters ==
  ASSUME KvInv, UNCHANGED kvVars
  PROVE  KvInv'
<1>1. /\ kvStage' = kvStage /\ tree' = tree /\ form' = form /\ kvLeft' = kvLeft /\ cut' = cut
      /\ kvAt' = kvAt /\ kvTokens' = kvTokens /\ kvGot' = kvGot
  BY DEF kvVars
<1>2. KvTyped' /\ BuildInv'
  BY <1>1 DEF KvInv, KvTyped, BuildInv
<1>3. (Doubled' <=> Doubled) /\ KvWritten' = KvWritten /\ (GotInv' <=> GotInv)
      /\ KvEnds' = KvEnds
  BY <1>1 DEF Doubled, Nested, KvWritten, GotInv, KvEnds
<1>4. WriteInv'
  BY <1>1, <1>3 DEF KvInv, WriteInv
<1>5. RestComes' <=> RestComes
  BY <1>1, <1>3 DEF RestComes
<1>6. ReadInv' /\ KvEndInv'
  BY <1>1, <1>3, <1>5 DEF KvInv, ReadInv, KvEndInv
<1>7. QED
  BY <1>2, <1>4, <1>6 DEF KvInv

(* The types and the property follow from the invariant.                   *)
LEMMA TreesAreRead ==
  ASSUME KvInv
  PROVE  KvTypeOK /\ TreesReadBack
<1>1. KvTyped
  BY DEF KvInv
<1>2. KvTypeOK
  BY <1>1 DEF KvTyped, KvTypeOK, TreeInv, KvItems
<1>3. ASSUME kvStage = "done", ~Doubled
      PROVE  /\ \A p \in DOMAIN kvGot : p \in DOMAIN tree /\ kvGot[p] = tree[p]
             /\ cut => form = "text"
             /\ ~cut => kvGot = tree
  <2>1. GotInv /\ (cut => form = "text") /\ (~cut => DOMAIN kvGot = DOMAIN tree)
    BY <1>3 DEF KvInv, KvEndInv
  <2>2. kvGot \in [DOMAIN kvGot -> KvItems] /\ tree \in [DOMAIN tree -> KvItems]
    BY <1>1 DEF KvTyped, TreeInv
  <2>3. \A p \in DOMAIN kvGot : p \in DOMAIN tree /\ kvGot[p] = tree[p]
    BY <2>1 DEF GotInv, FromRoot
  <2>4. ~cut => kvGot = tree
    BY <2>1, <2>2, <2>3
  <2>5. QED
    BY <2>1, <2>3, <2>4
<1>4. Doubled => form = "own" /\ Nested
  BY DEF Doubled
<1>5. ~Doubled => (kvStage = "refused" => cut) /\ (kvStage = "assert" => form = "text" /\ cut)
  BY DEF KvInv, KvEndInv
<1>6. TreesReadBack
  BY <1>3, <1>4, <1>5 DEF TreesReadBack, Doubled
<1>7. QED
  BY <1>2, <1>6

(* What is read of a KeyValue tree is what was written, in each of the     *)
(* three forms and wherever the data ends: nested trees in Steam's two     *)
(* forms, flat trees in the form that serialize() writes                   *)
(* (KeyValue_Serialize.cpp:88-131, KeyValue_Deserialize.cpp:93-173,        *)
(* KeyValue_Deserialize_Text.cpp:128-199).                                 *)
THEOREM TreesAreReadBack ==
  ASSUME KeyValueAssumption
  PROVE  KvSpec => [](KvTypeOK /\ TreesReadBack)
<1>1. KvInit => KvInv /\ TextInv
  <2>1. ASSUME KvInit
        PROVE  TextInv
    <3>1. \A p \in DOMAIN tree : tree[p].type = "None"
      BY <2>1 DEF KvInit, NodeItem
    <3>2. QED
      BY <3>1 DEF TextInv
  <2>2. QED
    BY <2>1, KvInitially
<1>2. KvInv /\ TextInv /\ [KvNext]_kvVars => (KvInv /\ TextInv)'
  <2>0. ASSUME TextInv, UNCHANGED kvVars
        PROVE  TextInv'
    BY <2>0 DEF TextInv, kvVars
  <2>1. SUFFICES ASSUME KvInv, TextInv, KvNext
                 PROVE  KvInv'
    BY <2>0, KvStutters, TextsAreStrings
  <2>2. CASE \E p \in DOMAIN tree, name \in Names : SetItem(p, name)
    BY <2>1, <2>2, SetItemKeeps
  <2>3. CASE \E p \in kvLeft : WriteItem(p)
    BY <2>1, <2>3, WriteItemKeeps
  <2>4. QED
    BY <2>1, <2>2, <2>3, SerializeKeeps, WriteEndKeeps, CutOffKeeps, ReadItemKeeps, ReadEndKeeps,
       EndsKeep DEF KvNext
<1>3. KvInv => KvTypeOK /\ TreesReadBack
  BY TreesAreRead
<1>4. QED
  BY <1>1, <1>2, <1>3, PTL DEF KvSpec

=============================================================================
