---------------------------- MODULE VmOptionsProofs ----------------------------
(* What startVm() puts into mOptions, for every setting of the properties and *)
(* every text of extra options.                                               *)
EXTENDS VmOptions, FiniteSetTheorems, SequenceTheorems, TLAPS

-------------------------------------------------------------------------------
(* The extra options: the recursion of parseExtraOpts() *)

\* The well-foundedness of the numbers, in the form that an induction by a least
\* counterexample needs.
LEMMA LeastNumber ==
  ASSUME NEW S, S \subseteq Nat, S # {}
  PROVE  \E x \in S : \A y \in S : x <= y
  <1> DEFINE R == {p \in Nat \X Nat : p[1] < p[2]}
  <1>1. IsWellFoundedOn(R, Nat)
    BY NatLessThanWellFounded DEF OpToRel
  <1>2. PICK x \in S : \A y \in S : <<y, x>> \notin R
    BY <1>1, WFMin
  <1>3. \A y \in S : ~(y < x)
    BY <1>2
  <1> QED
    BY <1>2, <1>3

\* A token ends at the first blank behind its beginning, or with the text.
LEMMA TokenEndIs ==
  ASSUME NEW t, t \in Seq(STRING), NEW i \in 1 .. Len(t)
  PROVE  /\ TokenEnd(t, i) \in i + 1 .. Len(t) + 1
         /\ TokenEnd(t, i) = Len(t) + 1 \/ t[TokenEnd(t, i)] = Blank
         /\ \A k \in i + 1 .. TokenEnd(t, i) - 1 : t[k] # Blank
  <1> DEFINE S == {j \in i + 1 .. Len(t) + 1 : j = Len(t) + 1 \/ t[j] = Blank}
  <1>1. S \subseteq Nat /\ Len(t) + 1 \in S
    OBVIOUS
  <1>2. PICK e \in S : \A j \in S : e <= j
    <2> HIDE DEF S
    <2> QED
      BY <1>1, LeastNumber
  <1>3. /\ e \in i + 1 .. Len(t) + 1
        /\ e = Len(t) + 1 \/ t[e] = Blank
        /\ \A k \in i + 1 .. e - 1 : t[k] # Blank
    BY <1>2
  <1> QED
    BY <1>3 DEF TokenEnd

\* One call of the recursion.
Parsed(t, f, i) ==
  IF i > Len(t) THEN <<>>
  ELSE IF t[i] = Blank THEN f[i + 1]
  ELSE <<Glued(SubSeq(t, i, TokenEnd(t, i) - 1))>> \o f[TokenEnd(t, i)]

\* It asks only for what lies behind.
LEMMA ParsedLater ==
  ASSUME NEW t, t \in Seq(STRING), NEW i \in 1 .. Len(t) + 1, NEW f, NEW g,
         \A j \in i + 1 .. Len(t) + 1 : f[j] = g[j]
  PROVE  Parsed(t, f, i) = Parsed(t, g, i)
  <1>1. CASE i > Len(t)
    BY <1>1 DEF Parsed
  <1>2. CASE i <= Len(t)
    <2>1. i \in 1 .. Len(t) /\ i + 1 \in i + 1 .. Len(t) + 1
      BY <1>2
    <2>2. TokenEnd(t, i) \in i + 1 .. Len(t) + 1
      BY <2>1, TokenEndIs
    <2>3. f[i + 1] = g[i + 1] /\ f[TokenEnd(t, i)] = g[TokenEnd(t, i)]
      BY <2>1, <2>2
    <2> QED
      BY <2>3 DEF Parsed
  <1> QED
    BY <1>1, <1>2

\* So there is a function that does what the recursion says.
LEMMA ParsedExists ==
  ASSUME NEW t, t \in Seq(STRING)
  PROVE  \E f : f = [i \in 1 .. Len(t) + 1 |-> Parsed(t, f, i)]
  <1> DEFINE N == Len(t)
  <1> DEFINE Bad == {n \in 0 .. N : ~ \E f : f = [i \in N + 1 - n .. N + 1 |-> Parsed(t, f, i)]}
  <1>1. N \in Nat
    OBVIOUS
  <1>2. Bad = {}
    <2>1. SUFFICES ASSUME Bad # {} PROVE FALSE
      OBVIOUS
    <2>2. PICK n \in Bad : \A m \in Bad : n <= m
      <3>1. Bad \subseteq Nat
        BY <1>1
      <3> HIDE DEF Bad
      <3> QED
        BY <2>1, <3>1, LeastNumber
    <2>3. n \in 0 .. N
      BY <2>2
    <2>4. CASE n = 0
      <3> DEFINE f == [i \in N + 1 .. N + 1 |-> <<>>]
      <3>1. \A i \in N + 1 .. N + 1 : Parsed(t, f, i) = <<>>
        BY <1>1 DEF Parsed
      <3>2. f = [i \in N + 1 .. N + 1 |-> Parsed(t, f, i)]
        BY <3>1
      <3>3. N + 1 - n .. N + 1 = N + 1 .. N + 1
        BY <1>1, <2>4
      <3> QED
        BY <2>2, <3>2, <3>3
    <2>5. CASE n > 0
      <3>1. n - 1 \in 0 .. N /\ n - 1 \notin Bad
        <4>1. n \in Nat /\ n - 1 \in 0 .. N /\ ~(n <= n - 1)
          BY <1>1, <2>3, <2>5
        <4> HIDE DEF Bad
        <4> QED
          BY <2>2, <4>1
      <3>2. PICK m \in 1 .. N : m = N + 1 - n
        BY <1>1, <2>3, <2>5
      <3>3. m + 1 .. N + 1 = N + 1 - (n - 1) .. N + 1
        BY <1>1, <2>3, <3>2
      <3>4. PICK f : f = [i \in m + 1 .. N + 1 |-> Parsed(t, f, i)]
        BY <3>1, <3>3
      <3> DEFINE g == [i \in m .. N + 1 |-> IF i = m THEN Parsed(t, f, m) ELSE f[i]]
      <3>5. \A j \in m + 1 .. N + 1 : j \in m .. N + 1 /\ g[j] = f[j]
        BY <1>1, <3>2
      <3>6. ASSUME NEW i \in m .. N + 1 PROVE g[i] = Parsed(t, g, i)
        <4>1. i \in 1 .. Len(t) + 1 /\ i + 1 .. N + 1 \subseteq m + 1 .. N + 1
          BY <1>1, <3>2
        <4>2. \A j \in i + 1 .. Len(t) + 1 : f[j] = g[j]
          BY <3>5, <4>1
        <4>3. Parsed(t, f, i) = Parsed(t, g, i)
          <5> HIDE DEF g
          <5> QED
            BY <4>1, <4>2, ParsedLater
        <4>4. g[i] = Parsed(t, f, i)
          <5>1. CASE i = m
            BY <5>1
          <5>2. CASE i # m
            <6>1. i \in m + 1 .. N + 1
              BY <1>1, <3>2, <5>2
            <6>2. f[i] = Parsed(t, f, i)
              BY <3>4, <6>1
            <6> QED
              BY <3>5, <6>1, <6>2
          <5> QED
            BY <5>1, <5>2
        <4> HIDE DEF g
        <4> QED
          BY <4>3, <4>4
      <3>7. g = [i \in m .. N + 1 |-> Parsed(t, g, i)]
        BY <3>6
      <3>8. \E h : h = [i \in m .. N + 1 |-> Parsed(t, h, i)]
        <4> HIDE DEF g
        <4> QED
          BY <3>7
      <3> QED
        BY <2>2, <3>2, <3>8
    <2> QED
      BY <2>3, <2>4, <2>5
  <1>3. N \in 0 .. N /\ N \notin Bad
    BY <1>1, <1>2
  <1>4. N + 1 - N .. N + 1 = 1 .. Len(t) + 1
    BY <1>1
  <1> QED
    BY <1>3, <1>4

Parsing(t) == CHOOSE f : f = [i \in 1 .. Len(t) + 1 |-> Parsed(t, f, i)]

\* Parsing(t) is that function.
LEMMA ParsingIs ==
  ASSUME NEW t, t \in Seq(STRING)
  PROVE  /\ ParseExtraOpts(t) = Parsing(t)[1]
         /\ \A i \in 1 .. Len(t) + 1 : Parsing(t)[i] = Parsed(t, Parsing(t), i)
  <1>1. ParseExtraOpts(t) = Parsing(t)[1]
    BY DEF ParseExtraOpts, Parsing, Parsed
  <1>2. Parsing(t) = [i \in 1 .. Len(t) + 1 |-> Parsed(t, Parsing(t), i)]
    BY ParsedExists DEF Parsing
  <1>3. \A i \in 1 .. Len(t) + 1 : Parsing(t)[i] = Parsed(t, Parsing(t), i)
    BY <1>2
  <1> QED
    BY <1>1, <1>3

-------------------------------------------------------------------------------
(* The extra options: what the recursion returns *)

ExtraOption == {Opt(n, "extra") : n \in STRING \cup {"unrecognised"}}

\* Places where a token begins, those from i on, and those of them up to k.
TokenStarts(t) == {k \in DOMAIN t : t[k] # Blank /\ (k = 1 \/ t[k - 1] = Blank)}
StartsFrom(t, i) == {k \in TokenStarts(t) : i <= k}
StartsTo(t, i, k) == {j \in TokenStarts(t) : i <= j /\ j <= k}

\* No token goes on at i.
Between(t, i) == i = 1 \/ t[i - 1] = Blank \/ i = Len(t) + 1 \/ t[i] = Blank

TokenName(t, k) == IF k = Len(t) \/ t[k + 1] = Blank THEN t[k] ELSE "unrecognised"

\* The recursion returns the tokens from i on, each once and in order.
TokensFrom(t, i, opts) ==
  /\ opts \in Seq(ExtraOption)
  /\ Between(t, i) =>
       /\ Len(opts) = Cardinality(StartsFrom(t, i))
       /\ \A k \in StartsFrom(t, i) : opts[Cardinality(StartsTo(t, i, k))].name = TokenName(t, k)

\* There are finitely many beginnings of tokens.
LEMMA StartsFinite ==
  ASSUME NEW t, t \in Seq(STRING), NEW i
  PROVE  /\ IsFiniteSet(StartsFrom(t, i)) /\ Cardinality(StartsFrom(t, i)) \in Nat
         /\ \A k : /\ IsFiniteSet(StartsTo(t, i, k)) /\ Cardinality(StartsTo(t, i, k)) \in Nat
                   /\ Cardinality(StartsTo(t, i, k)) <= Cardinality(StartsFrom(t, i))
                   /\ k \in StartsFrom(t, i) => 1 <= Cardinality(StartsTo(t, i, k))
  <1>1. IsFiniteSet(1 .. Len(t))
    BY FS_Interval
  <1>2. StartsFrom(t, i) \in SUBSET (1 .. Len(t))
    BY DEF StartsFrom, TokenStarts
  <1>3. IsFiniteSet(StartsFrom(t, i)) /\ Cardinality(StartsFrom(t, i)) \in Nat
    BY <1>1, <1>2, FS_Subset, FS_CardinalityType
  <1>4. ASSUME NEW k
        PROVE  /\ IsFiniteSet(StartsTo(t, i, k)) /\ Cardinality(StartsTo(t, i, k)) \in Nat
               /\ Cardinality(StartsTo(t, i, k)) <= Cardinality(StartsFrom(t, i))
               /\ k \in StartsFrom(t, i) => 1 <= Cardinality(StartsTo(t, i, k))
    <2>1. StartsTo(t, i, k) \in SUBSET StartsFrom(t, i)
      BY DEF StartsTo, StartsFrom
    <2>2. /\ IsFiniteSet(StartsTo(t, i, k)) /\ Cardinality(StartsTo(t, i, k)) \in Nat
          /\ Cardinality(StartsTo(t, i, k)) <= Cardinality(StartsFrom(t, i))
      BY <1>3, <2>1, FS_Subset, FS_CardinalityType
    <2>3. k \in StartsFrom(t, i) => StartsTo(t, i, k) # {}
      <3>1. k \in StartsFrom(t, i) => k <= k /\ k \in TokenStarts(t)
        BY DEF StartsFrom, TokenStarts
      <3> QED
        BY <3>1 DEF StartsFrom, StartsTo
    <2>4. Cardinality(StartsTo(t, i, k)) = 0 <=> StartsTo(t, i, k) = {}
      BY <2>2, FS_EmptySet
    <2> QED
      BY <2>2, <2>3, <2>4
  <1> QED
    BY <1>3, <1>4

\* Nothing begins at a blank.
LEMMA StartsOverBlank ==
  ASSUME NEW t, t \in Seq(STRING), NEW i \in 1 .. Len(t), t[i] = Blank
  PROVE  /\ StartsFrom(t, i) = StartsFrom(t, i + 1)
         /\ \A k : StartsTo(t, i, k) = StartsTo(t, i + 1, k)
  <1>1. \A j \in TokenStarts(t) : j \in Nat /\ (i <= j <=> i + 1 <= j)
    BY DEF TokenStarts
  <1> QED
    BY <1>1 DEF StartsFrom, StartsTo

\* One token begins before its end.
LEMMA StartsOverToken ==
  ASSUME NEW t, t \in Seq(STRING), NEW i \in 1 .. Len(t), t[i] # Blank, Between(t, i),
         NEW e, e = TokenEnd(t, i)
  PROVE  /\ i \in TokenStarts(t) /\ Between(t, e)
         /\ StartsFrom(t, i) = StartsFrom(t, e) \cup {i} /\ i \notin StartsFrom(t, e)
         /\ StartsTo(t, i, i) = {i}
         /\ \A k \in StartsFrom(t, e) :
              StartsTo(t, i, k) = StartsTo(t, e, k) \cup {i} /\ i \notin StartsTo(t, e, k)
  <1>1. /\ e \in i + 1 .. Len(t) + 1 /\ (e = Len(t) + 1 \/ t[e] = Blank)
        /\ \A k \in i + 1 .. e - 1 : t[k] # Blank
    BY TokenEndIs
  <1>2. i \in TokenStarts(t) /\ Between(t, e)
    BY <1>1 DEF TokenStarts, Between
  <1>3. \A j \in TokenStarts(t) : j \in Nat /\ (i <= j <=> j = i \/ e <= j) /\ ~(e <= i)
    <2> SUFFICES ASSUME NEW j \in TokenStarts(t)
                 PROVE  j \in Nat /\ (i <= j <=> j = i \/ e <= j) /\ ~(e <= i)
      OBVIOUS
    <2>1. j \in 1 .. Len(t) /\ t[j] # Blank /\ (j = 1 \/ t[j - 1] = Blank)
      BY DEF TokenStarts
    <2>2. ASSUME i < j, j < e PROVE FALSE
      <3>1. j - 1 = i \/ j - 1 \in i + 1 .. e - 1
        BY <1>1, <2>1, <2>2
      <3> QED
        BY <1>1, <2>1, <2>2, <3>1
    <2> QED
      BY <1>1, <2>1, <2>2
  <1>4. StartsFrom(t, i) = StartsFrom(t, e) \cup {i} /\ i \notin StartsFrom(t, e)
    BY <1>2, <1>3 DEF StartsFrom
  <1>5. StartsTo(t, i, i) = {i}
    <2>1. \A j \in TokenStarts(t) : i <= j /\ j <= i <=> j = i
      BY <1>3
    <2> QED
      BY <1>2, <2>1 DEF StartsTo
  <1>6. ASSUME NEW k \in StartsFrom(t, e)
        PROVE  StartsTo(t, i, k) = StartsTo(t, e, k) \cup {i} /\ i \notin StartsTo(t, e, k)
    <2>1. k \in Nat /\ e <= k /\ i <= k
      BY <1>1, <1>3 DEF StartsFrom
    <2> QED
      BY <1>2, <1>3, <2>1 DEF StartsTo
  <1> QED
    BY <1>2, <1>4, <1>5, <1>6

\* A token is one option, under its text if that is a single piece.
LEMMA GluedIs ==
  ASSUME NEW t, t \in Seq(STRING), NEW i \in 1 .. Len(t), NEW e, e = TokenEnd(t, i)
  PROVE  /\ Glued(SubSeq(t, i, e - 1)) \in ExtraOption
         /\ Glued(SubSeq(t, i, e - 1)).name = TokenName(t, i)
  <1>1. /\ e \in i + 1 .. Len(t) + 1 /\ (e = Len(t) + 1 \/ t[e] = Blank)
        /\ \A k \in i + 1 .. e - 1 : t[k] # Blank
    BY TokenEndIs
  <1>2. Len(SubSeq(t, i, e - 1)) = e - i /\ SubSeq(t, i, e - 1)[1] = t[i] /\ t[i] \in STRING
    BY <1>1
  <1>3. e - i = 1 <=> (i = Len(t) \/ t[i + 1] = Blank)
    <2>1. CASE e = i + 1
      BY <1>1, <2>1
    <2>2. CASE e # i + 1
      <3>1. i + 1 \in i + 1 .. e - 1 /\ i # Len(t)
        BY <1>1, <2>2
      <3> QED
        BY <1>1, <2>2, <3>1
    <2> QED
      BY <2>1, <2>2
  <1>4. /\ Glued(SubSeq(t, i, e - 1)) = Opt(TokenName(t, i), "extra")
        /\ Opt(TokenName(t, i), "extra").name = TokenName(t, i)
    BY <1>2, <1>3 DEF Glued, TokenName, Opt
  <1>5. TokenName(t, i) \in STRING \cup {"unrecognised"}
    BY <1>2 DEF TokenName
  <1> QED
    BY <1>4, <1>5 DEF ExtraOption

\* The three cases of the recursion: at the end of the text, at a blank, at a token.
LEMMA TokensAtEnd ==
  ASSUME NEW t, t \in Seq(STRING)
  PROVE  TokensFrom(t, Len(t) + 1, <<>>)
  <1>1. StartsFrom(t, Len(t) + 1) = {}
    BY DEF StartsFrom, TokenStarts
  <1>2. Cardinality(StartsFrom(t, Len(t) + 1)) = 0
    BY <1>1, FS_EmptySet
  <1>3. <<>> \in Seq(ExtraOption) /\ Len(<<>>) = 0
    OBVIOUS
  <1> QED
    BY <1>1, <1>2, <1>3 DEF TokensFrom

LEMMA TokensOverBlank ==
  ASSUME NEW t, t \in Seq(STRING), NEW i \in 1 .. Len(t), t[i] = Blank, NEW opts,
         TokensFrom(t, i + 1, opts)
  PROVE  TokensFrom(t, i, opts)
  <1>1. Between(t, i + 1)
    BY DEF Between
  <1> QED
    BY <1>1, StartsOverBlank DEF TokensFrom

LEMMA TokensOverToken ==
  ASSUME NEW t, t \in Seq(STRING), NEW i \in 1 .. Len(t), t[i] # Blank, NEW opts,
         NEW e, e = TokenEnd(t, i), TokensFrom(t, e, opts)
  PROVE  TokensFrom(t, i, <<Glued(SubSeq(t, i, e - 1))>> \o opts)
  <1> DEFINE o == Glued(SubSeq(t, i, e - 1))
  <1>1. o \in ExtraOption /\ o.name = TokenName(t, i)
    BY GluedIs
  <1> HIDE DEF o
  <1>2. opts \in Seq(ExtraOption) /\ <<o>> \o opts \in Seq(ExtraOption)
    BY <1>1 DEF TokensFrom
  <1>3. /\ Len(<<o>> \o opts) = Len(opts) + 1 /\ (<<o>> \o opts)[1] = o
        /\ \A c \in 1 .. Len(opts) : (<<o>> \o opts)[c + 1] = opts[c]
    BY <1>1, <1>2
  <1>4. ASSUME Between(t, i)
        PROVE  /\ Len(<<o>> \o opts) = Cardinality(StartsFrom(t, i))
               /\ \A k \in StartsFrom(t, i) :
                    (<<o>> \o opts)[Cardinality(StartsTo(t, i, k))].name = TokenName(t, k)
    <2>1. /\ Between(t, e)
          /\ StartsFrom(t, i) = StartsFrom(t, e) \cup {i} /\ i \notin StartsFrom(t, e)
          /\ StartsTo(t, i, i) = {i}
          /\ \A k \in StartsFrom(t, e) :
               StartsTo(t, i, k) = StartsTo(t, e, k) \cup {i} /\ i \notin StartsTo(t, e, k)
      BY <1>4, StartsOverToken
    <2>2. /\ Len(opts) = Cardinality(StartsFrom(t, e))
          /\ \A k \in StartsFrom(t, e) : opts[Cardinality(StartsTo(t, e, k))].name = TokenName(t, k)
      BY <2>1 DEF TokensFrom
    <2>3. Cardinality(StartsFrom(t, i)) = Cardinality(StartsFrom(t, e)) + 1
      BY <2>1, StartsFinite, FS_AddElement
    <2>4. ASSUME NEW k \in StartsFrom(t, i)
          PROVE  (<<o>> \o opts)[Cardinality(StartsTo(t, i, k))].name = TokenName(t, k)
      <3>1. CASE k = i
        <4>1. Cardinality(StartsTo(t, i, i)) = 1
          BY <2>1, FS_Singleton
        <4> QED
          BY <1>1, <1>3, <3>1, <4>1
      <3>2. CASE k # i
        <4>1. k \in StartsFrom(t, e)
          BY <2>1, <2>4, <3>2
        <4>2. Cardinality(StartsTo(t, i, k)) = Cardinality(StartsTo(t, e, k)) + 1
          BY <2>1, <4>1, StartsFinite, FS_AddElement
        <4>3. Cardinality(StartsTo(t, e, k)) \in 1 .. Len(opts)
          BY <2>2, <4>1, StartsFinite
        <4> QED
          BY <1>3, <2>2, <4>1, <4>2, <4>3
      <3> QED
        BY <3>1, <3>2
    <2> QED
      BY <1>3, <2>2, <2>3, <2>4
  <1> QED
    BY <1>2, <1>4 DEF TokensFrom, o

\* For every text, parseExtraOpts() returns its tokens, each once and in order.
THEOREM ExtraOptsAreTokens ==
  ASSUME NEW t, t \in Seq(STRING)
  PROVE  TokensFrom(t, 1, ParseExtraOpts(t))
  <1> DEFINE N == Len(t)
  <1> DEFINE f == Parsing(t)
  <1> DEFINE Bad == {n \in 0 .. N : ~TokensFrom(t, N + 1 - n, f[N + 1 - n])}
  <1>1. N \in Nat
    OBVIOUS
  <1>2. Bad = {}
    <2>1. SUFFICES ASSUME Bad # {} PROVE FALSE
      OBVIOUS
    <2>2. PICK n \in Bad : \A m \in Bad : n <= m
      <3>1. Bad \subseteq Nat
        BY <1>1
      <3> HIDE DEF Bad
      <3> QED
        BY <2>1, <3>1, LeastNumber
    <2>3. PICK i \in 1 .. N + 1 : i = N + 1 - n
      BY <1>1, <2>2
    <2>4. n \in 0 .. N /\ ~TokensFrom(t, i, f[i])
      BY <2>2, <2>3
    <2>5. ASSUME NEW j \in i + 1 .. N + 1 PROVE TokensFrom(t, j, f[j])
      <3>0. N + 1 - j \in 0 .. N
        BY <1>1, <2>3, <2>5
      <3>1. PICK m \in 0 .. N : m = N + 1 - j
        BY <3>0
      <3>2. ~(n <= m) /\ N + 1 - m = j
        BY <1>1, <2>3, <2>4, <3>1
      <3>3. m \notin Bad
        <4> HIDE DEF Bad
        <4> QED
          BY <2>2, <3>2
      <3> QED
        BY <3>1, <3>2, <3>3
    <2>6. f[i] = Parsed(t, f, i)
      BY ParsingIs
    <2> HIDE DEF f, Bad
    <2>7. CASE i = N + 1
      <3>1. f[i] = <<>>
        BY <1>1, <2>6, <2>7 DEF Parsed
      <3> QED
        BY <2>4, <2>7, <3>1, TokensAtEnd
    <2>8. CASE i \in 1 .. N /\ t[i] = Blank
      <3>1. f[i] = f[i + 1] /\ i + 1 \in i + 1 .. N + 1
        BY <1>1, <2>6, <2>8 DEF Parsed
      <3> QED
        BY <2>4, <2>5, <2>8, <3>1, TokensOverBlank
    <2>9. CASE i \in 1 .. N /\ t[i] # Blank
      <3>1. PICK e : e = TokenEnd(t, i)
        OBVIOUS
      <3>2. f[i] = <<Glued(SubSeq(t, i, e - 1))>> \o f[e] /\ e \in i + 1 .. N + 1
        BY <1>1, <2>6, <2>9, <3>1, TokenEndIs DEF Parsed
      <3> QED
        BY <2>4, <2>5, <2>9, <3>1, <3>2, TokensOverToken
    <2> QED
      BY <1>1, <2>7, <2>8, <2>9
  <1>3. N \in 0 .. N /\ N \notin Bad
    BY <1>1, <1>2
  <1>4. N + 1 - N = 1
    BY <1>1
  <1> QED
    BY <1>3, <1>4, ParsingIs

-------------------------------------------------------------------------------
(* The rows of startVm() *)

\* The names that startVm() gives, in the order in which it comes to them.
NameOrder ==
  <<"exit", "vfprintf", "sensitiveThread", "-verbose:gc", "-Xms", "-Xmx",
    "-XX:mainThreadStackSize=", "-Xjitcodecachesize:", "-XX:HeapGrowthLimit=",
    "-XX:HeapMinFree=", "-XX:HeapMaxFree=", "-XX:HeapTargetUtilization=",
    "-XX:LowMemoryMode", "-Xverify:", "-Xdexopt:", "-Xgenregmap", "-Xgc:",
    "-agentlib:jdwp", "-Xcheck:", "-Xjnigreflimit:", "-Xlockprofthreshold:",
    "-Xjitop:", "-Xjitmethod:", "-Xint:", "-Xcheckdexsum", "-Xlog-stdio", "-ea",
    "-Xjniopts:", "-Xstacktracefile:", "-Duser.language=", "-Duser.region=",
    "-Djava.io.tmpdir=">>

\* The values that it gives itself.
Words == {"", "4m", "16m", "24K", "none", "remote", "all", "verified", "full", "precise",
          "jni", "2000", "portable", "fast", "jit", "en", "US", "/sdcard"}

Value == (STRING \cup Words) \ {"extra", "argument"}

PlainOption == {Opt(NameOrder[p], v) : p \in 4 .. 32, v \in Value}

\* The place of an option among the names.
At(o) == CHOOSE p \in 1 .. 32 : NameOrder[p] = o.name

\* Options of which each has a name of its own, in order, out of a part of the names.
Row(q, lo, hi) ==
  /\ q \in Seq(PlainOption)
  /\ \A k \in DOMAIN q : At(q[k]) \in lo .. hi
  /\ \A j, k \in DOMAIN q : j < k => At(q[j]) < At(q[k])

\* What a setting is, where values do not mark an option of another origin.
IsSetting(s) == s \in [Prop -> STRING] /\ \A p \in Prop : s[p] \notin {"extra", "argument"}

\* The names by their numbers.
LEMMA NameOrderIs ==
  /\ NameOrder[1] = "exit" /\ NameOrder[2] = "vfprintf"
  /\ NameOrder[3] = "sensitiveThread" /\ NameOrder[4] = "-verbose:gc"
  /\ NameOrder[5] = "-Xms" /\ NameOrder[6] = "-Xmx"
  /\ NameOrder[7] = "-XX:mainThreadStackSize=" /\ NameOrder[8] = "-Xjitcodecachesize:"
  /\ NameOrder[9] = "-XX:HeapGrowthLimit=" /\ NameOrder[10] = "-XX:HeapMinFree="
  /\ NameOrder[11] = "-XX:HeapMaxFree=" /\ NameOrder[12] = "-XX:HeapTargetUtilization="
  /\ NameOrder[13] = "-XX:LowMemoryMode" /\ NameOrder[14] = "-Xverify:"
  /\ NameOrder[15] = "-Xdexopt:" /\ NameOrder[16] = "-Xgenregmap"
  /\ NameOrder[17] = "-Xgc:" /\ NameOrder[18] = "-agentlib:jdwp"
  /\ NameOrder[19] = "-Xcheck:" /\ NameOrder[20] = "-Xjnigreflimit:"
  /\ NameOrder[21] = "-Xlockprofthreshold:" /\ NameOrder[22] = "-Xjitop:"
  /\ NameOrder[23] = "-Xjitmethod:" /\ NameOrder[24] = "-Xint:"
  /\ NameOrder[25] = "-Xcheckdexsum" /\ NameOrder[26] = "-Xlog-stdio"
  /\ NameOrder[27] = "-ea" /\ NameOrder[28] = "-Xjniopts:"
  /\ NameOrder[29] = "-Xstacktracefile:" /\ NameOrder[30] = "-Duser.language="
  /\ NameOrder[31] = "-Duser.region=" /\ NameOrder[32] = "-Djava.io.tmpdir="
  BY DEF NameOrder

\* No two of them are the same.
LEMMA NamesDiffer == \A p, r \in 1 .. 32 : NameOrder[p] = NameOrder[r] => p = r
  BY SMTT(60) DEF NameOrder

LEMMA AtName ==
  ASSUME NEW p \in 1 .. 32, NEW o, o.name = NameOrder[p]
  PROVE  At(o) = p
  BY NamesDiffer DEF At

\* Rows of no option, of one, of one that may be left out, and one row behind another.
LEMMA RowEmpty ==
  ASSUME NEW lo, NEW hi
  PROVE  Row(<<>>, lo, hi)
  BY DEF Row

\* An option with a name out of the order is found at its number.
LEMMA PlainIs ==
  ASSUME NEW p \in 4 .. 32, NEW v \in Value
  PROVE  Opt(NameOrder[p], v) \in PlainOption /\ At(Opt(NameOrder[p], v)) = p
  <1>1. \E r \in 4 .. 32, w \in Value : Opt(NameOrder[p], v) = Opt(NameOrder[r], w)
    OBVIOUS
  <1>2. Opt(NameOrder[p], v).name = NameOrder[p] /\ p \in 1 .. 32
    BY DEF Opt
  <1> QED
    BY <1>1, <1>2, AtName DEF PlainOption

LEMMA RowOne ==
  ASSUME NEW p \in 4 .. 32, NEW v \in Value
  PROVE  Row(<<Opt(NameOrder[p], v)>>, p, p)
  <1>1. PICK o : o = Opt(NameOrder[p], v)
    OBVIOUS
  <1>2. o \in PlainOption /\ At(o) = p
    BY <1>1, PlainIs
  <1>3. <<o>> \in Seq(PlainOption) /\ DOMAIN <<o>> = {1} /\ <<o>>[1] = o
    BY <1>2
  <1>4. Row(<<o>>, p, p)
    BY <1>2, <1>3 DEF Row
  <1> QED
    BY <1>1, <1>4

LEMMA RowIf ==
  ASSUME NEW p \in 4 .. 32, NEW v, NEW c \in BOOLEAN, c => v \in Value
  PROVE  Row(If(c, Opt(NameOrder[p], v)), p, p)
  <1>1. CASE c
    BY <1>1, RowOne DEF If
  <1>2. CASE ~c
    BY <1>2, RowEmpty DEF If
  <1> QED
    BY <1>1, <1>2

LEMMA RowConcat ==
  ASSUME NEW lo \in Nat, NEW i \in Nat, NEW j \in Nat, NEW hi \in Nat,
         lo <= j, i < j, i <= hi,
         NEW a, Row(a, lo, i), NEW b, Row(b, j, hi)
  PROVE  Row(a \o b, lo, hi)
  <1> DEFINE q == a \o b
  <1>1. /\ a \in Seq(PlainOption) /\ b \in Seq(PlainOption)
        /\ Len(a) \in Nat /\ Len(b) \in Nat
    BY DEF Row
  <1>2. q \in Seq(PlainOption) /\ DOMAIN q = 1 .. Len(a) + Len(b)
    BY <1>1
  <1>3. \A k \in DOMAIN q :
          \/ k \in DOMAIN a /\ q[k] = a[k]
          \/ k > Len(a) /\ k - Len(a) \in DOMAIN b /\ q[k] = b[k - Len(a)]
    BY <1>1
  <1> HIDE DEF q
  <1>4. /\ \A k \in DOMAIN a : At(a[k]) \in lo .. i
        /\ \A k \in DOMAIN b : At(b[k]) \in j .. hi
    BY DEF Row
  <1>5. ASSUME NEW k \in DOMAIN q
        PROVE  At(q[k]) \in lo .. hi
    <2>1. CASE k \in DOMAIN a /\ q[k] = a[k]
      BY <1>4, <2>1
    <2>2. CASE k - Len(a) \in DOMAIN b /\ q[k] = b[k - Len(a)]
      BY <1>4, <2>2
    <2> QED
      BY <1>3, <2>1, <2>2
  <1>6. ASSUME NEW x \in DOMAIN q, NEW y \in DOMAIN q, x < y
        PROVE  At(q[x]) < At(q[y])
    <2>1. CASE x \in DOMAIN a /\ q[x] = a[x]
      <3>1. CASE y \in DOMAIN a /\ q[y] = a[y]
        BY <1>6, <2>1, <3>1 DEF Row
      <3>2. CASE y - Len(a) \in DOMAIN b /\ q[y] = b[y - Len(a)]
        <4>1. At(q[x]) \in lo .. i /\ At(q[y]) \in j .. hi
          BY <1>4, <2>1, <3>2
        <4> QED
          BY <4>1
      <3> QED
        BY <1>3, <3>1, <3>2
    <2>2. CASE x > Len(a) /\ x - Len(a) \in DOMAIN b /\ q[x] = b[x - Len(a)]
      <3>1. y - Len(a) \in DOMAIN b /\ q[y] = b[y - Len(a)] /\ x - Len(a) < y - Len(a)
        BY <1>1, <1>2, <1>3, <1>6, <2>2
      <3> QED
        BY <2>2, <3>1 DEF Row
    <2> QED
      BY <1>3, <2>1, <2>2
  <1>7. Row(q, lo, hi)
    BY <1>2, <1>5, <1>6 DEF Row
  <1> QED
    BY <1>7 DEF q

\* A property adds one option at most.
LEMMA GivenRow ==
  ASSUME NEW s, IsSetting(s), NEW x \in Prop, NEW p \in 4 .. 32
  PROVE  /\ Row(Given(s, x, NameOrder[p]), p, p)
         /\ Row(Flag(s, x, NameOrder[p]), p, p)
  <1>1. s[x] \in Value /\ "" \in Value
    BY DEF IsSetting, Value, Words
  <1> QED
    BY <1>1, RowIf DEF Given, Flag

LEMMA GetValue ==
  ASSUME NEW s, IsSetting(s), NEW x \in Prop, NEW w \in Value
  PROVE  Get(s, x, w) \in Value
  BY DEF Get, IsSetting, Value

LEMMA PairRow ==
  ASSUME NEW a, NEW b
  PROVE  <<a>> \o <<b>> = <<a, b>>
  <1>1. PICK x, y : x = <<a>> /\ y = <<b>>
    OBVIOUS
  <1>2. PICK c, w : c = x \o y /\ w = <<a, b>>
    OBVIOUS
  <1>3. /\ x \in Seq({a, b}) /\ Len(x) = 1 /\ x[1] = a
        /\ y \in Seq({a, b}) /\ Len(y) = 1 /\ y[1] = b
    BY <1>1
  <1>4. c \in Seq({a, b}) /\ Len(c) = 2 /\ c[1] = a /\ c[2] = b
    <2>1. /\ c \in Seq({a, b}) /\ Len(c) = Len(x) + Len(y)
          /\ \A i \in 1 .. Len(x) + Len(y) : c[i] = IF i <= Len(x) THEN x[i] ELSE y[i - Len(x)]
      BY <1>2, <1>3, ConcatProperties
    <2> QED
      BY <1>3, <2>1
  <1>5. w \in Seq({a, b}) /\ Len(w) = 2 /\ w[1] = a /\ w[2] = b
    BY <1>2
  <1>6. \A i \in 1 .. 2 : c[i] = w[i]
    BY <1>4, <1>5
  <1>7. c = w
    BY <1>4, <1>5, <1>6, SeqEqual
  <1> QED
    BY <1>1, <1>2, <1>7

LEMMA TwoRow ==
  ASSUME NEW a, NEW b, NEW p \in Nat, NEW r \in Nat, p < r,
         Row(<<a>>, p, p), Row(<<b>>, r, r)
  PROVE  Row(<<a, b>>, p, r)
  <1>1. Row(<<a>> \o <<b>>, p, r)
    BY RowConcat
  <1> QED
    BY <1>1, PairRow

LEMMA SplitRow ==
  ASSUME NEW a, NEW b, NEW c
  PROVE  <<a, b, c>> = <<a>> \o <<b, c>>
  OBVIOUS

\* The groups of startVm(), each in its part of the order.
LEMMA HeapRow ==
  ASSUME NEW s, IsSetting(s)
  PROVE  Row(HeapOptions(s), 5, 13)
  <1>1. PICK a, b, c :
          /\ a = Opt(NameOrder[5], Get(s, "dalvik.vm.heapstartsize", "4m"))
          /\ b = Opt(NameOrder[6], Get(s, "dalvik.vm.heapsize", "16m"))
          /\ c = Opt(NameOrder[7], "24K")
    OBVIOUS
  <1>0. 5 \in 4 .. 32 /\ 6 \in 4 .. 32 /\ 7 \in 4 .. 32
    OBVIOUS
  <1>2. Row(<<a, b, c>>, 5, 7)
    <2>1. "4m" \in Value /\ "16m" \in Value /\ "24K" \in Value
      BY DEF Value, Words
    <2>2. /\ Get(s, "dalvik.vm.heapstartsize", "4m") \in Value
          /\ Get(s, "dalvik.vm.heapsize", "16m") \in Value
      BY <2>1, GetValue DEF Prop
    <2>3. Row(<<a>>, 5, 5)
      BY <1>0, <1>1, <2>2, RowOne
    <2>4. Row(<<b>>, 6, 6)
      BY <1>0, <1>1, <2>2, RowOne
    <2>5. Row(<<c>>, 7, 7)
      BY <1>0, <1>1, <2>1, RowOne
    <2>6. Row(<<b, c>>, 6, 7)
      BY <2>4, <2>5, TwoRow
    <2>7. Row(<<a>> \o <<b, c>>, 5, 7)
      BY <2>3, <2>6, RowConcat
    <2> QED
      BY <2>7, SplitRow
  <1>3. PICK q2, q3, q4, q5, q6, q7 :
          /\ q2 = Given(s, "dalvik.vm.jit.codecachesize", NameOrder[8])
          /\ q3 = Given(s, "dalvik.vm.heapgrowthlimit", NameOrder[9])
          /\ q4 = Given(s, "dalvik.vm.heapminfree", NameOrder[10])
          /\ q5 = Given(s, "dalvik.vm.heapmaxfree", NameOrder[11])
          /\ q6 = Given(s, "dalvik.vm.heaptargetutilization", NameOrder[12])
          /\ q7 = Flag(s, "ro.config.low_ram", NameOrder[13])
    OBVIOUS
  <1>4. /\ Row(q2, 8, 8) /\ Row(q3, 9, 9) /\ Row(q4, 10, 10) /\ Row(q5, 11, 11)
        /\ Row(q6, 12, 12) /\ Row(q7, 13, 13)
    BY <1>3, GivenRow DEF Prop
  <1>5. HeapOptions(s) = <<a, b, c>> \o q2 \o q3 \o q4 \o q5 \o q6 \o q7
    BY <1>1, <1>3, NameOrderIs DEF HeapOptions
  <1>6. PICK q1 : q1 = <<a, b, c>>
    OBVIOUS
  <1>7. Row(q1 \o q2, 5, 8)
    BY <1>2, <1>4, <1>6, RowConcat
  <1>8. Row(q1 \o q2 \o q3, 5, 9)
    BY <1>4, <1>7, RowConcat
  <1>9. Row(q1 \o q2 \o q3 \o q4, 5, 10)
    BY <1>4, <1>8, RowConcat
  <1>10. Row(q1 \o q2 \o q3 \o q4 \o q5, 5, 11)
    BY <1>4, <1>9, RowConcat
  <1>11. Row(q1 \o q2 \o q3 \o q4 \o q5 \o q6, 5, 12)
    BY <1>4, <1>10, RowConcat
  <1>12. Row(q1 \o q2 \o q3 \o q4 \o q5 \o q6 \o q7, 5, 13)
    BY <1>4, <1>11, RowConcat
  <1> QED
    BY <1>5, <1>6, <1>12

LEMMA DexoptRow ==
  ASSUME NEW s, IsSetting(s)
  PROVE  Row(DexoptFlags(s), 14, 17)
  <1>1. PICK v, o : v = s["v="] /\ o = s["o="]
    OBVIOUS
  <1>2. PICK q1, q2, q3 :
          /\ q1 = IF v \in DOMAIN Verify THEN <<Opt(NameOrder[14], Verify[v])>> ELSE <<>>
          /\ q2 = IF o \in DOMAIN Dexopt THEN <<Opt(NameOrder[15], Dexopt[o])>> ELSE <<>>
          /\ q3 = IF s["m="] = "y" THEN <<Opt(NameOrder[16], ""), Opt(NameOrder[17], "precise")>>
                  ELSE <<>>
    OBVIOUS
  <1>3. DexoptFlags(s) = q1 \o q2 \o q3
    BY <1>1, <1>2, NameOrderIs DEF DexoptFlags
  <1>0. 14 \in 4 .. 32 /\ 15 \in 4 .. 32 /\ 16 \in 4 .. 32 /\ 17 \in 4 .. 32
    OBVIOUS
  <1>4. v \in DOMAIN Verify => Verify[v] \in Value
    <2>1. DOMAIN Verify = {"n", "r", "a"}
      BY DEF Verify
    <2>2. Verify["n"] = "none" /\ Verify["r"] = "remote" /\ Verify["a"] = "all"
      BY DEF Verify
    <2> QED
      BY <2>1, <2>2 DEF Value, Words
  <1>5. o \in DOMAIN Dexopt => Dexopt[o] \in Value
    <2>1. DOMAIN Dexopt = {"n", "v", "a", "f"}
      BY DEF Dexopt
    <2>2. /\ Dexopt["n"] = "none" /\ Dexopt["v"] = "verified"
          /\ Dexopt["a"] = "all" /\ Dexopt["f"] = "full"
      BY DEF Dexopt
    <2> QED
      BY <2>1, <2>2 DEF Value, Words
  <1>6. Row(q1, 14, 14)
    <2>1. CASE v \in DOMAIN Verify
      BY <1>0, <1>2, <1>4, <2>1, RowOne
    <2> QED
      BY <1>2, <2>1, RowEmpty
  <1>7. Row(q2, 15, 15)
    <2>1. CASE o \in DOMAIN Dexopt
      BY <1>0, <1>2, <1>5, <2>1, RowOne
    <2> QED
      BY <1>2, <2>1, RowEmpty
  <1>8. Row(q3, 16, 17)
    <2>1. "" \in Value /\ "precise" \in Value
      BY DEF Value, Words
    <2>2. Row(<<Opt(NameOrder[16], "")>>, 16, 16)
      BY <1>0, <2>1, RowOne
    <2>3. Row(<<Opt(NameOrder[17], "precise")>>, 17, 17)
      BY <1>0, <2>1, RowOne
    <2>4. Row(<<Opt(NameOrder[16], ""), Opt(NameOrder[17], "precise")>>, 16, 17)
      <3>1. PICK a, b : a = Opt(NameOrder[16], "") /\ b = Opt(NameOrder[17], "precise")
        OBVIOUS
      <3>2. Row(<<a>>, 16, 16) /\ Row(<<b>>, 17, 17)
        BY <2>2, <2>3, <3>1
      <3>3. Row(<<a, b>>, 16, 17)
        BY <3>2, TwoRow
      <3> QED
        BY <3>1, <3>3
    <2> QED
      BY <1>2, <2>4, RowEmpty
  <1>9. Row(q1 \o q2, 14, 15)
    BY <1>6, <1>7, RowConcat
  <1>10. Row(q1 \o q2 \o q3, 14, 17)
    BY <1>8, <1>9, RowConcat
  <1> QED
    BY <1>3, <1>10

LEMMA DebugRow ==
  ASSUME NEW s, IsSetting(s)
  PROVE  Row(DebugOptions(s), 18, 29)
  <1>0. /\ 18 \in 4 .. 32 /\ 19 \in 4 .. 32 /\ 20 \in 4 .. 32 /\ 24 \in 4 .. 32 /\ 27 \in 4 .. 32
        /\ "" \in Value /\ "jni" \in Value /\ "2000" \in Value
    BY DEF Value, Words
  <1>1. PICK q1, q2, q3, q4, q5, q6 :
          /\ q1 = <<Opt(NameOrder[18], "")>>
          /\ q2 = CheckJniOptions(s)
          /\ q3 = Given(s, "dalvik.vm.lockprof.threshold", NameOrder[21])
          /\ q4 = Given(s, "dalvik.vm.jit.op", NameOrder[22])
          /\ q5 = Given(s, "dalvik.vm.jit.method", NameOrder[23])
          /\ q6 = ExecutionModeOption(s)
    OBVIOUS
  <1>2. PICK q7, q8, q9, q10, q11 :
          /\ q7 = Flag(s, "dalvik.vm.check-dex-sum", NameOrder[25])
          /\ q8 = Flag(s, "log.redirect-stdio", NameOrder[26])
          /\ q9 = AssertOption(s)
          /\ q10 = Given(s, "dalvik.vm.jniopts", NameOrder[28])
          /\ q11 = Given(s, "dalvik.vm.stack-trace-file", NameOrder[29])
    OBVIOUS
  <1>3. DebugOptions(s) = q1 \o q2 \o q3 \o q4 \o q5 \o q6 \o q7 \o q8 \o q9 \o q10 \o q11
    BY <1>1, <1>2, NameOrderIs DEF DebugOptions
  <1>4. Row(q1, 18, 18)
    BY <1>0, <1>1, RowOne
  <1>5. Row(q2, 19, 20)
    <2>1. Row(<<Opt(NameOrder[19], "jni")>>, 19, 19)
      BY <1>0, RowOne
    <2>2. Row(<<Opt(NameOrder[20], "2000")>>, 20, 20)
      BY <1>0, RowOne
    <2>3. Row(<<Opt(NameOrder[19], "jni"), Opt(NameOrder[20], "2000")>>, 19, 20)
      BY <2>1, <2>2, TwoRow
    <2> QED
      BY <1>1, <2>3, RowEmpty, NameOrderIs DEF CheckJniOptions
  <1>6. /\ Row(q3, 21, 21) /\ Row(q4, 22, 22) /\ Row(q5, 23, 23) /\ Row(q7, 25, 25)
        /\ Row(q8, 26, 26) /\ Row(q10, 28, 28) /\ Row(q11, 29, 29)
    <2>1. /\ 21 \in 4 .. 32 /\ 22 \in 4 .. 32 /\ 23 \in 4 .. 32 /\ 25 \in 4 .. 32
          /\ 26 \in 4 .. 32 /\ 28 \in 4 .. 32 /\ 29 \in 4 .. 32
      OBVIOUS
    <2>2. /\ "dalvik.vm.lockprof.threshold" \in Prop /\ "dalvik.vm.jit.op" \in Prop
          /\ "dalvik.vm.jit.method" \in Prop /\ "dalvik.vm.check-dex-sum" \in Prop
          /\ "log.redirect-stdio" \in Prop /\ "dalvik.vm.jniopts" \in Prop
          /\ "dalvik.vm.stack-trace-file" \in Prop
      BY DEF Prop
    <2>3. Row(q3, 21, 21) /\ Row(q4, 22, 22) /\ Row(q5, 23, 23)
      BY <1>1, <2>1, <2>2, GivenRow
    <2>4. Row(q7, 25, 25) /\ Row(q8, 26, 26)
      BY <1>2, <2>1, <2>2, GivenRow
    <2>5. Row(q10, 28, 28) /\ Row(q11, 29, 29)
      BY <1>2, <2>1, <2>2, GivenRow
    <2> QED
      BY <2>3, <2>4, <2>5
  <1>7. Row(q6, 24, 24)
    <2>1. PICK p : p = s["dalvik.vm.execution-mode"]
      OBVIOUS
    <2>2. ExecutionMode[p] \in {"portable", "fast", "jit"} \/ p \notin DOMAIN ExecutionMode
      BY DEF ExecutionMode
    <2>3. CASE p \in DOMAIN ExecutionMode
      <3>1. ExecutionMode[p] \in Value
        BY <2>2, <2>3 DEF Value, Words
      <3>2. Row(<<Opt(NameOrder[24], ExecutionMode[p])>>, 24, 24)
        BY <1>0, <3>1, RowOne
      <3> QED
        BY <1>1, <2>1, <2>3, <3>2, NameOrderIs DEF ExecutionModeOption
    <2>4. CASE p \notin DOMAIN ExecutionMode
      BY <1>1, <2>1, <2>4, RowEmpty DEF ExecutionModeOption
    <2> QED
      BY <2>3, <2>4
  <1>8. Row(q9, 27, 27)
    <2>1. PICK p : p = s["dalvik.vm.enableassertions"]
      OBVIOUS
    <2>2. p \in Value
      BY <2>1 DEF IsSetting, Prop, Value
    <2>3. Row(<<Opt(NameOrder[27], "")>>, 27, 27) /\ Row(<<Opt(NameOrder[27], p)>>, 27, 27)
      BY <1>0, <2>2, RowOne
    <2>4. q9 \in {<<>>, <<Opt(NameOrder[27], "")>>, <<Opt(NameOrder[27], p)>>}
      BY <1>2, <2>1, NameOrderIs DEF AssertOption, If
    <2> QED
      BY <2>3, <2>4, RowEmpty
  <1>9. Row(q1 \o q2, 18, 20)
    BY <1>4, <1>5, RowConcat
  <1>10. Row(q1 \o q2 \o q3, 18, 21)
    BY <1>6, <1>9, RowConcat
  <1>11. Row(q1 \o q2 \o q3 \o q4, 18, 22)
    BY <1>6, <1>10, RowConcat
  <1>12. Row(q1 \o q2 \o q3 \o q4 \o q5, 18, 23)
    BY <1>6, <1>11, RowConcat
  <1>13. Row(q1 \o q2 \o q3 \o q4 \o q5 \o q6, 18, 24)
    BY <1>7, <1>12, RowConcat
  <1>14. Row(q1 \o q2 \o q3 \o q4 \o q5 \o q6 \o q7, 18, 25)
    BY <1>6, <1>13, RowConcat
  <1>15. Row(q1 \o q2 \o q3 \o q4 \o q5 \o q6 \o q7 \o q8, 18, 26)
    BY <1>6, <1>14, RowConcat
  <1>16. Row(q1 \o q2 \o q3 \o q4 \o q5 \o q6 \o q7 \o q8 \o q9, 18, 27)
    BY <1>8, <1>15, RowConcat
  <1>17. Row(q1 \o q2 \o q3 \o q4 \o q5 \o q6 \o q7 \o q8 \o q9 \o q10, 18, 28)
    BY <1>6, <1>16, RowConcat
  <1>18. Row(q1 \o q2 \o q3 \o q4 \o q5 \o q6 \o q7 \o q8 \o q9 \o q10 \o q11, 18, 29)
    BY <1>6, <1>17, RowConcat
  <1> QED
    BY <1>3, <1>18

-------------------------------------------------------------------------------
(* The list of startVm() *)

\* The functions of the hooks, which have the first three names.
Function == <<"runtime_exit", "runtime_vfprintf", "runtime_isSensitiveThread">>
Hook(p) == [name |-> NameOrder[p], value |-> "", extraInfo |-> Function[p]]
Hooks == <<>> \o <<Hook(1)>> \o <<Hook(2)>> \o <<Hook(3)>>

HookOption == {Hook(p) : p \in 1 .. 3}

\* What comes before the extra options is in order, with no name twice.
LEMMA BaseRow ==
  ASSUME NEW s, IsSetting(s)
  PROVE  Row(BaseOptions(s), 4, 29)
  <1>0. 4 \in 4 .. 32 /\ "" \in Value
    BY DEF Value, Words
  <1>1. PICK q1, q2, q3, q4 :
          /\ q1 = <<Opt(NameOrder[4], "")>> /\ q2 = HeapOptions(s)
          /\ q3 = DexoptFlags(s) /\ q4 = DebugOptions(s)
    OBVIOUS
  <1>2. BaseOptions(s) = q1 \o q2 \o q3 \o q4
    BY <1>1, NameOrderIs DEF BaseOptions
  <1>3. Row(q1, 4, 4) /\ Row(q2, 5, 13) /\ Row(q3, 14, 17) /\ Row(q4, 18, 29)
    BY <1>0, <1>1, RowOne, HeapRow, DexoptRow, DebugRow
  <1>4. Row(q1 \o q2, 4, 13)
    BY <1>3, RowConcat
  <1>5. Row(q1 \o q2 \o q3, 4, 17)
    BY <1>3, <1>4, RowConcat
  <1>6. Row(q1 \o q2 \o q3 \o q4, 4, 29)
    BY <1>3, <1>5, RowConcat
  <1> QED
    BY <1>2, <1>6

\* So is what comes behind them: the locale and the directory for temporary files.
LEMMA LastRow ==
  ASSUME NEW s, IsSetting(s)
  PROVE  Row(LastOptions(s), 30, 32) /\ Len(LastOptions(s)) = 3
         /\ LastOptions(s)[1] = LocaleOptions(s)[1] /\ LastOptions(s)[2] = LocaleOptions(s)[2]
  <1>0. 30 \in 4 .. 32 /\ 31 \in 4 .. 32 /\ 32 \in 4 .. 32 /\ "/sdcard" \in Value
        /\ "en" \in Value /\ "US" \in Value
    BY DEF Value, Words
  <1>1. PICK a, b : a = ReadLocale(s)[1] /\ b = ReadLocale(s)[2]
    OBVIOUS
  <1>2. a \in Value /\ b \in Value
    <2>1. /\ Get(s, "ro.product.locale.language", "en") \in Value
          /\ Get(s, "ro.product.locale.region", "US") \in Value
      BY <1>0, GetValue DEF Prop
    <2>2. s["persist.sys.language"] \in Value /\ s["persist.sys.country"] \in Value
      BY DEF IsSetting, Prop, Value
    <2> QED
      BY <1>1, <2>1, <2>2 DEF ReadLocale
  <1>3. LocaleOptions(s) = <<Opt(NameOrder[30], a), Opt(NameOrder[31], b)>>
    BY <1>1, NameOrderIs DEF LocaleOptions
  <1>4. Row(LocaleOptions(s), 30, 31)
    <2>1. Row(<<Opt(NameOrder[30], a)>>, 30, 30)
      BY <1>0, <1>2, RowOne
    <2>2. Row(<<Opt(NameOrder[31], b)>>, 31, 31)
      BY <1>0, <1>2, RowOne
    <2> QED
      BY <1>3, <2>1, <2>2, TwoRow
  <1>5. Row(<<Opt(NameOrder[32], "/sdcard")>>, 32, 32)
    BY <1>0, RowOne
  <1>6. PICK q, r : q = LocaleOptions(s) /\ r = <<Opt(NameOrder[32], "/sdcard")>>
    OBVIOUS
  <1>7. LastOptions(s) = q \o r
    BY <1>6, NameOrderIs DEF LastOptions
  <1>8. Row(q \o r, 30, 32)
    BY <1>4, <1>5, <1>6, RowConcat
  <1>9. q \in Seq(PlainOption) /\ r \in Seq(PlainOption) /\ Len(q) = 2 /\ Len(r) = 1
    BY <1>3, <1>4, <1>5, <1>6 DEF Row
  <1>10. Len(q \o r) = 3 /\ (q \o r)[1] = q[1] /\ (q \o r)[2] = q[2]
    <2>1. PICK S : q \in Seq(S) /\ r \in Seq(S)
      BY <1>9
    <2>2. /\ Len(q \o r) = Len(q) + Len(r)
          /\ \A i \in 1 .. Len(q) + Len(r) :
               (q \o r)[i] = IF i <= Len(q) THEN q[i] ELSE r[i - Len(q)]
      BY <2>1, ConcatProperties
    <2>3. Len(q) = 2 /\ Len(r) = 1
      BY <1>9
    <2> QED
      BY <2>2, <2>3
  <1> QED
    BY <1>6, <1>7, <1>8, <1>10

\* The hooks come first, at fixed places.
LEMMA HooksAre ==
  /\ Hooks \in Seq(HookOption) /\ Len(Hooks) = 3
  /\ \A p \in 1 .. 3 : Hooks[p] = Hook(p)
  <1>1. PICK a, b, c : a = Hook(1) /\ b = Hook(2) /\ c = Hook(3)
    OBVIOUS
  <1>2. a \in HookOption /\ b \in HookOption /\ c \in HookOption
    <2>1. 1 \in 1 .. 3 /\ 2 \in 1 .. 3 /\ 3 \in 1 .. 3
      OBVIOUS
    <2> QED
      BY <1>1, <2>1 DEF HookOption
  <1>3. PICK x, y, z : x = <<>> \o <<a>> /\ y = x \o <<b>> /\ z = y \o <<c>>
    OBVIOUS
  <1>4. x \in Seq(HookOption) /\ Len(x) = 1 /\ x[1] = a
    BY <1>2, <1>3
  <1>5. y \in Seq(HookOption) /\ Len(y) = 2 /\ y[1] = a /\ y[2] = b
    BY <1>2, <1>3, <1>4
  <1>6. z \in Seq(HookOption) /\ Len(z) = 3 /\ z[1] = a /\ z[2] = b /\ z[3] = c
    BY <1>2, <1>3, <1>5
  <1>7. Hooks = z
    BY <1>1, <1>3 DEF Hooks
  <1>8. \A p \in 1 .. 3 : p = 1 \/ p = 2 \/ p = 3
    OBVIOUS
  <1> QED
    BY <1>1, <1>6, <1>7, <1>8

\* What the JavaVMOption of startVm() does to a list with options o.
Is(list, o, f) == list = [options |-> o, extraInfo |-> f]

LEMMA AddIs ==
  ASSUME NEW list, NEW o, NEW f, Is(list, o, f), NEW row
  PROVE  Is(Add(list, row), o \o Carrying(f, row), f)
  <1>1. PICK c, q : c = Carrying(f, row) /\ q = o \o c
    OBVIOUS
  <1>2. list = [options |-> o, extraInfo |-> f] /\ list.options = o /\ list.extraInfo = f
    BY DEF Is
  <1>3. Add(list, row) = [list EXCEPT !.options = q]
    BY <1>1, <1>2, Zenon DEF Add
  <1>4. [list EXCEPT !.options = q] = [options |-> q, extraInfo |-> f]
    BY <1>2
  <1> QED
    BY <1>1, <1>3, <1>4 DEF Is

LEMMA AssignIs ==
  ASSUME NEW list, NEW o, NEW f, Is(list, o, f), NEW g
  PROVE  Is(Assign(list, g), o, g)
  BY DEF Is, Assign

LEMMA AddExtraIs ==
  ASSUME NEW list, NEW o, NEW f, Is(list, o, f), NEW t
  PROVE  Is(AddExtraOpts(list, t), o \o ParseExtraOpts(t), f)
  <1>1. PICK c, q : c = ParseExtraOpts(t) /\ q = o \o c
    OBVIOUS
  <1>2. list = [options |-> o, extraInfo |-> f] /\ list.options = o
    BY DEF Is
  <1>3. AddExtraOpts(list, t) = [list EXCEPT !.options = q]
    BY <1>1, <1>2, Zenon DEF AddExtraOpts
  <1>4. [list EXCEPT !.options = q] = [options |-> q, extraInfo |-> f]
    BY <1>2
  <1> QED
    BY <1>1, <1>3, <1>4 DEF Is

\* Options that are added while extraInfo is NULL are as they are.
LEMMA CarryingNull ==
  ASSUME NEW row \in Seq(PlainOption)
  PROVE  Carrying("null", row) = row
  <1>1. ASSUME NEW k \in DOMAIN row
        PROVE  [row[k] EXCEPT !.extraInfo = "null"] = row[k]
    <2>1. row[k] \in PlainOption
      OBVIOUS
    <2>2. PICK n, v : row[k] = [name |-> n, value |-> v, extraInfo |-> "null"]
      BY <2>1 DEF PlainOption, Opt
    <2> QED
      BY <2>2
  <1>2. row = [k \in DOMAIN row |-> row[k]]
    OBVIOUS
  <1> QED
    BY <1>1, <1>2 DEF Carrying

\* An option that is added with a function carries that one.
LEMMA CarryingOne ==
  ASSUME NEW f, NEW n, NEW v
  PROVE  Carrying(f, <<Opt(n, v)>>) = <<[name |-> n, value |-> v, extraInfo |-> f]>>
  <1>1. PICK o : o = Opt(n, v)
    OBVIOUS
  <1>2. [o EXCEPT !.extraInfo = f] = [name |-> n, value |-> v, extraInfo |-> f]
    BY <1>1 DEF Opt
  <1>3. Carrying(f, <<o>>) = [k \in 1 .. 1 |-> [o EXCEPT !.extraInfo = f]]
    BY DEF Carrying
  <1> QED
    BY <1>1, <1>2, <1>3

\* Each hook is added with its own function.
LEMMA HooksAdded == Is(AddHooks(Fresh), Hooks, "runtime_isSensitiveThread")
  <1>1. PICK a, b, c : a = Hook(1) /\ b = Hook(2) /\ c = Hook(3)
    OBVIOUS
  <1>2. /\ Carrying("runtime_exit", <<Opt("exit", "")>>) = <<a>>
        /\ Carrying("runtime_vfprintf", <<Opt("vfprintf", "")>>) = <<b>>
        /\ Carrying("runtime_isSensitiveThread", <<Opt("sensitiveThread", "")>>) = <<c>>
    <2>1. Function[1] = "runtime_exit" /\ Function[2] = "runtime_vfprintf"
          /\ Function[3] = "runtime_isSensitiveThread"
      BY DEF Function
    <2>2. /\ a = [name |-> "exit", value |-> "", extraInfo |-> "runtime_exit"]
          /\ b = [name |-> "vfprintf", value |-> "", extraInfo |-> "runtime_vfprintf"]
          /\ c = [name |-> "sensitiveThread", value |-> "",
                  extraInfo |-> "runtime_isSensitiveThread"]
      BY <1>1, <2>1, NameOrderIs, Zenon DEF Hook
    <2> QED
      BY <2>2, CarryingOne, Zenon
  <1>3. PICK x, y, z :
          /\ x = Add(Assign(Fresh, "runtime_exit"), <<Opt("exit", "")>>)
          /\ y = Add(Assign(x, "runtime_vfprintf"), <<Opt("vfprintf", "")>>)
          /\ z = Add(Assign(y, "runtime_isSensitiveThread"), <<Opt("sensitiveThread", "")>>)
    OBVIOUS
  <1>4. Is(x, <<>> \o <<a>>, "runtime_exit")
    <2>1. Is(Fresh, <<>>, "uninitialised")
      BY DEF Is, Fresh
    <2> QED
      BY <1>2, <1>3, <2>1, AssignIs, AddIs, Zenon
  <1>5. Is(y, (<<>> \o <<a>>) \o <<b>>, "runtime_vfprintf")
    BY <1>2, <1>3, <1>4, AssignIs, AddIs, Zenon
  <1>6. Is(z, ((<<>> \o <<a>>) \o <<b>>) \o <<c>>, "runtime_isSensitiveThread")
    BY <1>2, <1>3, <1>5, AssignIs, AddIs, Zenon
  <1> QED
    BY <1>1, <1>3, <1>6, Zenon DEF AddHooks, Hooks

\* The functions of the hooks do not get into the parts behind them.
LEMMA StartVmOptionsAre ==
  ASSUME NEW s, IsSetting(s), NEW t, t \in Seq(STRING)
  PROVE  StartVmOptions(s, t) = Hooks \o BaseOptions(s) \o ParseExtraOpts(t) \o LastOptions(s)
  <1>1. PICK h, b, e, l :
          h = Hooks /\ b = BaseOptions(s) /\ e = ParseExtraOpts(t) /\ l = LastOptions(s)
    OBVIOUS
  <1>2. Carrying("null", b) = b /\ Carrying("null", l) = l
    BY <1>1, BaseRow, LastRow, CarryingNull DEF Row
  <1>3. PICK w, x, y, v, z :
          /\ w = Assign(AddHooks(Fresh), "null") /\ x = Add(w, b)
          /\ y = AddExtraOpts(x, t) /\ v = Assign(y, "null") /\ z = Add(v, l)
    OBVIOUS
  <1>4. Is(w, h, "null")
    BY <1>1, <1>3, HooksAdded, AssignIs, Zenon
  <1>5. Is(x, h \o b, "null")
    BY <1>2, <1>3, <1>4, AddIs, Zenon
  <1>6. Is(y, h \o b \o e, "null")
    BY <1>1, <1>3, <1>5, AddExtraIs, Zenon
  <1>7. Is(v, h \o b \o e, "null")
    BY <1>3, <1>6, AssignIs, Zenon
  <1>8. Is(z, h \o b \o e \o l, "null")
    BY <1>2, <1>3, <1>7, AddIs, Zenon
  <1>9. StartVmOptions(s, t) = z.options
    BY <1>1, <1>3, Zenon DEF StartVmOptions
  <1> QED
    BY <1>1, <1>8, <1>9 DEF Is

-------------------------------------------------------------------------------
(* The places of the options *)

ArgOption == {Opt(n, "argument") : n \in STRING}
StartOption == HookOption \cup PlainOption \cup ExtraOption
Option == ArgOption \cup StartOption

\* Five sequences one behind the other.
Placed(q, a, h, b, e, l) ==
  /\ Len(q) = Len(a) + Len(h) + Len(b) + Len(e) + Len(l)
  /\ \A k \in 1 .. Len(a) : q[k] = a[k]
  /\ \A k \in 1 .. Len(h) : q[Len(a) + k] = h[k]
  /\ \A k \in 1 .. Len(b) : q[Len(a) + Len(h) + k] = b[k]
  /\ \A k \in 1 .. Len(e) : q[Len(a) + Len(h) + Len(b) + k] = e[k]
  /\ \A k \in 1 .. Len(l) : q[Len(a) + Len(h) + Len(b) + Len(e) + k] = l[k]

LEMMA SeqWider ==
  ASSUME NEW S, NEW T, S \subseteq T, NEW s \in Seq(S)
  PROVE  s \in Seq(T)
  <1>1. s \in [1 .. Len(s) -> S] /\ Len(s) \in Nat
    OBVIOUS
  <1>2. s \in [1 .. Len(s) -> T]
    BY <1>1
  <1> QED
    BY <1>1, <1>2, SeqDef

\* One sequence behind another.
Behind(q, x, y) ==
  /\ Len(q) = Len(x) + Len(y)
  /\ \A k \in 1 .. Len(x) : q[k] = x[k]
  /\ \A k \in 1 .. Len(y) : q[Len(x) + k] = y[k]

LEMMA BehindIs ==
  ASSUME NEW S, NEW x, NEW y, x \in Seq(S), y \in Seq(S)
  PROVE  /\ x \o y \in Seq(S) /\ Behind(x \o y, x, y)
         /\ Len(x) \in Nat /\ Len(y) \in Nat /\ Len(x \o y) \in Nat
  <1>1. PICK q : q = x \o y
    OBVIOUS
  <1>2. /\ q \in Seq(S) /\ Len(q) = Len(x) + Len(y)
        /\ \A c \in 1 .. Len(x) + Len(y) : q[c] = IF c <= Len(x) THEN x[c] ELSE y[c - Len(x)]
    BY <1>1, ConcatProperties
  <1>3. Len(x) \in Nat /\ Len(y) \in Nat /\ Len(q) \in Nat
    BY <1>2
  <1>4. ASSUME NEW k \in 1 .. Len(y) PROVE q[Len(x) + k] = y[k]
    <2>1. /\ Len(x) + k \in 1 .. Len(x) + Len(y) /\ ~(Len(x) + k <= Len(x))
          /\ Len(x) + k - Len(x) = k
      BY <1>3
    <2> QED
      BY <1>2, <2>1
  <1>5. \A k \in 1 .. Len(x) : q[k] = x[k]
    BY <1>2, <1>3
  <1>6. Behind(q, x, y)
    BY <1>2, <1>4, <1>5 DEF Behind
  <1> QED
    BY <1>1, <1>2, <1>3, <1>6

\* Where the elements of five sequences are when they stand one behind the other.
LEMMA PlacedIs ==
  ASSUME NEW S, NEW a, NEW h, NEW b, NEW e, NEW l,
         a \in Seq(S), h \in Seq(S), b \in Seq(S), e \in Seq(S), l \in Seq(S)
  PROVE  /\ a \o (h \o b \o e \o l) \in Seq(S)
         /\ Placed(a \o (h \o b \o e \o l), a, h, b, e, l)
  <1>1. PICK x : x = h \o b
    OBVIOUS
  <1>2. x \in Seq(S) /\ Behind(x, h, b) /\ Len(h) \in Nat /\ Len(b) \in Nat /\ Len(x) \in Nat
    BY <1>1, BehindIs
  <1>3. PICK y : y = x \o e
    OBVIOUS
  <1>4. y \in Seq(S) /\ Behind(y, x, e) /\ Len(e) \in Nat /\ Len(y) \in Nat
    BY <1>2, <1>3, BehindIs
  <1>5. PICK z : z = y \o l
    OBVIOUS
  <1>6. z \in Seq(S) /\ Behind(z, y, l) /\ Len(l) \in Nat /\ Len(z) \in Nat
    BY <1>4, <1>5, BehindIs
  <1>7. PICK q : q = a \o z
    OBVIOUS
  <1>8. q \in Seq(S) /\ Behind(q, a, z) /\ Len(a) \in Nat /\ Len(q) \in Nat
    BY <1>6, <1>7, BehindIs
  <1>9. ASSUME NEW k \in 1 .. Len(h) PROVE z[k] = h[k]
    <2>1. x[k] = h[k] /\ k \in 1 .. Len(x)
      BY <1>2 DEF Behind
    <2>2. y[k] = x[k] /\ k \in 1 .. Len(y)
      BY <1>2, <1>4, <2>1 DEF Behind
    <2> QED
      BY <1>4, <1>6, <2>1, <2>2 DEF Behind
  <1>10. ASSUME NEW k \in 1 .. Len(b) PROVE z[Len(h) + k] = b[k]
    <2>1. x[Len(h) + k] = b[k] /\ Len(h) + k \in 1 .. Len(x)
      BY <1>2 DEF Behind
    <2>2. y[Len(h) + k] = x[Len(h) + k] /\ Len(h) + k \in 1 .. Len(y)
      BY <1>2, <1>4, <2>1 DEF Behind
    <2> QED
      BY <1>4, <1>6, <2>1, <2>2 DEF Behind
  <1>11. ASSUME NEW k \in 1 .. Len(e) PROVE z[Len(h) + Len(b) + k] = e[k]
    <2>1. y[Len(h) + Len(b) + k] = e[k] /\ Len(h) + Len(b) + k \in 1 .. Len(y)
      BY <1>2, <1>4 DEF Behind
    <2> QED
      BY <1>4, <1>6, <2>1 DEF Behind
  <1>12. ASSUME NEW k \in 1 .. Len(l) PROVE z[Len(h) + Len(b) + Len(e) + k] = l[k]
    BY <1>2, <1>4, <1>6 DEF Behind
  <1>13. Len(z) = Len(h) + Len(b) + Len(e) + Len(l)
    BY <1>2, <1>4, <1>6 DEF Behind
  <1>14. \A k \in 1 .. Len(z) : q[Len(a) + k] = z[k]
    BY <1>8 DEF Behind
  <1>15. \A k \in 1 .. Len(h) : q[Len(a) + k] = h[k]
    BY <1>2, <1>4, <1>6, <1>9, <1>13, <1>14
  <1>16. ASSUME NEW k \in 1 .. Len(b) PROVE q[Len(a) + Len(h) + k] = b[k]
    <2>1. Len(h) + k \in 1 .. Len(z) /\ Len(a) + (Len(h) + k) = Len(a) + Len(h) + k
      BY <1>2, <1>4, <1>6, <1>8, <1>13
    <2> QED
      BY <1>10, <1>14, <2>1
  <1>17. ASSUME NEW k \in 1 .. Len(e) PROVE q[Len(a) + Len(h) + Len(b) + k] = e[k]
    <2>1. /\ Len(h) + Len(b) + k \in 1 .. Len(z)
          /\ Len(a) + (Len(h) + Len(b) + k) = Len(a) + Len(h) + Len(b) + k
      BY <1>2, <1>4, <1>6, <1>8, <1>13
    <2> QED
      BY <1>11, <1>14, <2>1
  <1>18. ASSUME NEW k \in 1 .. Len(l) PROVE q[Len(a) + Len(h) + Len(b) + Len(e) + k] = l[k]
    <2>1. /\ Len(h) + Len(b) + Len(e) + k \in 1 .. Len(z)
          /\ Len(a) + (Len(h) + Len(b) + Len(e) + k) = Len(a) + Len(h) + Len(b) + Len(e) + k
      BY <1>2, <1>4, <1>6, <1>8, <1>13
    <2> QED
      BY <1>12, <1>14, <2>1
  <1>19. /\ Len(q) = Len(a) + Len(h) + Len(b) + Len(e) + Len(l)
         /\ \A k \in 1 .. Len(a) : q[k] = a[k]
    BY <1>2, <1>4, <1>6, <1>8, <1>13 DEF Behind
  <1>20. Placed(q, a, h, b, e, l)
    BY <1>15, <1>16, <1>17, <1>18, <1>19 DEF Placed
  <1> QED
    BY <1>1, <1>3, <1>5, <1>7, <1>8, <1>20

\* What startVm() adds is a list of options, however long the text.
LEMMA StartOptionsAre ==
  ASSUME NEW s, IsSetting(s), NEW t, t \in Seq(STRING)
  PROVE  StartVmOptions(s, t) \in Seq(StartOption)
  <1>1. /\ HookOption \subseteq StartOption /\ PlainOption \subseteq StartOption
        /\ ExtraOption \subseteq StartOption
    BY DEF StartOption
  <1>2. /\ Hooks \in Seq(HookOption) /\ BaseOptions(s) \in Seq(PlainOption)
        /\ LastOptions(s) \in Seq(PlainOption) /\ ParseExtraOpts(t) \in Seq(ExtraOption)
    BY HooksAre, BaseRow, LastRow, ExtraOptsAreTokens DEF Row, TokensFrom
  <1>3. PICK h, b, e, l : h = Hooks /\ b = BaseOptions(s) /\ e = ParseExtraOpts(t) /\ l = LastOptions(s)
    OBVIOUS
  <1>4. h \in Seq(StartOption) /\ b \in Seq(StartOption) /\ e \in Seq(StartOption)
          /\ l \in Seq(StartOption)
    BY <1>1, <1>2, <1>3, SeqWider
  <1>5. PICK x : x = h \o b /\ x \in Seq(StartOption)
    BY <1>4, BehindIs
  <1>6. PICK y : y = x \o e /\ y \in Seq(StartOption)
    BY <1>4, <1>5, BehindIs
  <1>7. y \o l \in Seq(StartOption)
    BY <1>4, <1>6, BehindIs
  <1> QED
    BY <1>3, <1>5, <1>6, <1>7, StartVmOptionsAre

\* The list of a launcher: its arguments, and behind them what startVm() adds.
LEMMA OptionsArePlaced ==
  ASSUME NEW s, IsSetting(s), NEW t, t \in Seq(STRING), NEW a, a \in Seq(ArgOption)
  PROVE  /\ a \o StartVmOptions(s, t) \in Seq(Option)
         /\ Placed(a \o StartVmOptions(s, t), a, Hooks, BaseOptions(s), ParseExtraOpts(t), LastOptions(s))
  <1>1. /\ ArgOption \subseteq Option /\ HookOption \subseteq Option
        /\ PlainOption \subseteq Option /\ ExtraOption \subseteq Option
    BY DEF Option, StartOption
  <1>2. /\ Hooks \in Seq(HookOption) /\ BaseOptions(s) \in Seq(PlainOption)
        /\ LastOptions(s) \in Seq(PlainOption) /\ ParseExtraOpts(t) \in Seq(ExtraOption)
    BY HooksAre, BaseRow, LastRow, ExtraOptsAreTokens DEF Row, TokensFrom
  <1>3. PICK h, b, e, l : h = Hooks /\ b = BaseOptions(s) /\ e = ParseExtraOpts(t) /\ l = LastOptions(s)
    OBVIOUS
  <1>4. a \in Seq(Option) /\ h \in Seq(Option) /\ b \in Seq(Option) /\ e \in Seq(Option)
          /\ l \in Seq(Option)
    BY <1>1, <1>2, <1>3, SeqWider
  <1>5. a \o (h \o b \o e \o l) \in Seq(Option) /\ Placed(a \o (h \o b \o e \o l), a, h, b, e, l)
    BY <1>4, PlacedIs
  <1>6. StartVmOptions(s, t) = h \o b \o e \o l
    BY <1>3, StartVmOptionsAre
  <1> QED
    BY <1>3, <1>5, <1>6
===============================================================================
