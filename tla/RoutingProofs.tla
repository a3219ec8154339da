--------------------------- MODULE RoutingProofs ---------------------------
(***************************************************************************)
(* Proofs about Dispatcher and Routing, for every configuration and all    *)
(* URIs.                                                                   *)
(***************************************************************************)
EXTENDS Routing, SequenceTheorems, WellFoundedInduction, TLAPS

Str == Seq(Char)

-----------------------------------------------------------------------------
(* Greatest and least elements, beginnings of sequences.                   *)

\* A non-empty set of natural numbers has a least element,
LEMMA LeastNat ==
  ASSUME NEW S \in SUBSET Nat, S # {}
  PROVE  \E x \in S : \A y \in S : x <= y
<1> DEFINE Less == {p \in Nat \X Nat : p[1] < p[2]}
<1>1. IsWellFoundedOn(Less, Nat)
  BY NatLessThanWellFounded DEF OpToRel
<1>2. PICK x \in S : \A y \in S : ~(<<y, x>> \in Less)
  <2> HIDE DEF Less
  <2> QED
    BY <1>1, WFMin
<1>3. \A y \in S : x <= y
  <2>1. SUFFICES ASSUME NEW y \in S PROVE x <= y
    OBVIOUS
  <2>2. x \in Nat /\ y \in Nat /\ ~(y < x)
    BY <1>2
  <2> QED
    BY <2>2
<1> QED
  BY <1>3

LEMMA MinOfNat ==
  ASSUME NEW S \in SUBSET Nat, S # {}
  PROVE  Min(S) \in S /\ \A i \in S : Min(S) <= i
BY LeastNat DEF Min

\* and a greatest one if there is a bound.
LEMMA MaxOfBounded ==
  ASSUME NEW n \in Nat, NEW S \in SUBSET (0..n), S # {}
  PROVE  Max(S) \in S /\ \A i \in S : i <= Max(S)
<1> DEFINE T == {k \in 0..n : n - k \in S}
<1>1. T \in SUBSET Nat /\ T # {}
  <2>1. PICK i \in S : TRUE
    OBVIOUS
  <2>2. i \in 0..n /\ n - i \in 0..n /\ n - (n - i) = i
    OBVIOUS
  <2>3. n - i \in T
    BY <2>2
  <2>4. \A k \in T : k \in Nat
    OBVIOUS
  <2> HIDE DEF T
  <2> QED
    BY <2>3, <2>4
<1>2. PICK x \in T : \A y \in T : x <= y
  BY <1>1, LeastNat
<1>3. n - x \in S /\ x \in 0..n
  OBVIOUS
<1>4. \A i \in S : i <= n - x
  <2>1. SUFFICES ASSUME NEW i \in S PROVE i <= n - x
    OBVIOUS
  <2>2. i \in 0..n /\ n - i \in 0..n /\ n - (n - i) = i
    OBVIOUS
  <2>3. x <= n - i
    BY <1>2, <2>2
  <2> QED
    BY <1>3, <2>2, <2>3
<1>5. \E m \in S : \A i \in S : m >= i
  <2>1. \A i \in S : n - x >= i
    <3>1. SUFFICES ASSUME NEW i \in S PROVE n - x >= i
      OBVIOUS
    <3>2. i \in 0..n /\ i <= n - x
      BY <1>4
    <3> QED
      BY <1>3, <3>2
  <2> QED
    BY <1>3, <2>1
<1>6. Max(S) \in S /\ \A i \in S : Max(S) >= i
  BY <1>5 DEF Max
<1> QED
  BY <1>6

\* A beginning of t, element by element.
LEMMA PrefixByElement ==
  ASSUME NEW s \in Str, NEW t \in Str
  PROVE  IsPrefix(s, t) <=> Len(s) <= Len(t) /\ \A i \in 1..Len(s) : s[i] = t[i]
<1>1. Len(s) \in Nat /\ Len(t) \in Nat
  BY LenProperties DEF Str
<1>2. \A i \in 1..Len(s) : s[i] \in Char
  BY ElementOfSeq DEF Str
<1>3. /\ Len(SubSeq(s, 1, Len(s))) = Len(s)
      /\ \A i \in 1..Len(s) : SubSeq(s, 1, Len(s))[i] = s[i]
      /\ SubSeq(s, 1, Len(s)) \in Str
  BY <1>1, <1>2, SubSeqFull DEF Str
<1>4. ASSUME Len(s) <= Len(t)
      PROVE  /\ Len(SubSeq(t, 1, Len(s))) = Len(s)
             /\ \A i \in 1..Len(s) : SubSeq(t, 1, Len(s))[i] = t[i]
             /\ SubSeq(t, 1, Len(s)) \in Str
  <2>1. \A i \in 1..Len(s) : t[i] \in Char
    BY <1>1, <1>4, ElementOfSeq DEF Str
  <2> QED
    BY <1>1, <2>1, SubSeqProperties DEF Str
<1>5. CASE Len(s) <= Len(t)
  BY <1>1, <1>3, <1>4, <1>5, SeqEqual DEF IsPrefix, Str
<1> QED
  BY <1>5 DEF IsPrefix
-----------------------------------------------------------------------------
(* Induction over sequences, and FlattenSeq.                               *)

\* A set of strings that has the empty one, and with each one those that are
\* longer by a symbol, has all.
LEMMA AllSequences ==
  ASSUME NEW A, NEW P \in SUBSET Seq(A), <<>> \in P,
         \A s \in P, e \in A : Append(s, e) \in P
  PROVE  Seq(A) \subseteq P
<1> DEFINE missing == {n \in Nat : \E s \in Seq(A) : s \notin P /\ Len(s) = n}
<1>1. SUFFICES ASSUME missing # {} PROVE FALSE
  BY LenProperties
<1>2. PICK n \in missing : \A m \in missing : n <= m
  <2>1. missing \in SUBSET Nat
    OBVIOUS
  <2> HIDE DEF missing
  <2> QED
    BY <1>1, <2>1, LeastNat
<1>3. PICK s \in Seq(A) : s \notin P /\ Len(s) = n
  OBVIOUS
<1>4. PICK t \in Seq(A), e \in A : s = Append(t, e)
  BY <1>3, SequenceEmptyOrAppend
<1>5. Len(t) \in Nat /\ Len(t) + 1 = n
  BY <1>3, <1>4, LenProperties, AppendProperties
<1>6. t \notin P
  BY <1>3, <1>4
<1>7. Len(t) \in missing
  BY <1>5, <1>6
<1>8. n <= Len(t) /\ n \in Nat
  BY <1>2, <1>7
<1> QED
  BY <1>5, <1>8

\* What the recursion of FlattenSeq has to satisfy.
Flattens(f, s) ==
  f = [i \in 1..Len(s) |-> IF i = 1 THEN s[i] ELSE f[i - 1] \o s[i]]

LEMMA FlattensAt ==
  ASSUME NEW f, NEW s, Flattens(f, s), NEW i \in 1..Len(s)
  PROVE  f[i] = IF i = 1 THEN s[i] ELSE f[i - 1] \o s[i]
<1> DEFINE g == [j \in 1..Len(s) |-> IF j = 1 THEN s[j] ELSE f[j - 1] \o s[j]]
<1>1. f = g
  BY DEF Flattens
<1>2. g[i] = IF i = 1 THEN s[i] ELSE f[i - 1] \o s[i]
  OBVIOUS
<1> QED
  BY <1>1, <1>2, Zenon

\* Longer by one: the recursion goes on where it was.
LEMMA FlattensLonger ==
  ASSUME NEW A, NEW s \in Seq(Seq(A)), NEW x \in Seq(A), NEW f, Flattens(f, s)
  PROVE  \E g : Flattens(g, Append(s, x))
<1> DEFINE t == Append(s, x)
           n == Len(s)
           g == [i \in 1..n + 1 |-> IF i <= n THEN f[i]
                                    ELSE IF i = 1 THEN x ELSE f[n] \o x]
           h == [i \in 1..Len(t) |-> IF i = 1 THEN t[i] ELSE g[i - 1] \o t[i]]
<1>1. n \in Nat /\ Len(t) = n + 1 /\ t[n + 1] = x /\ \A i \in 1..n : t[i] = s[i]
  BY LenProperties, AppendProperties
<1>2. ASSUME NEW i \in 1..n + 1 PROVE g[i] = h[i]
  <2>1. CASE i <= n
    <3>1. i \in 1..n
      BY <1>1, <2>1
    <3>2. g[i] = f[i] /\ t[i] = s[i]
      BY <1>1, <3>1
    <3>3. f[i] = IF i = 1 THEN s[i] ELSE f[i - 1] \o s[i]
      BY <3>1, FlattensAt
    <3>4. i # 1 => i - 1 \in 1..n + 1 /\ i - 1 <= n
      BY <1>1, <3>1
    <3>5. i # 1 => g[i - 1] = f[i - 1]
      BY <3>4
    <3>6. h[i] = IF i = 1 THEN t[i] ELSE g[i - 1] \o t[i]
      BY <1>1
    <3> HIDE DEF t, g, h
    <3> QED
      BY <3>2, <3>3, <3>5, <3>6
  <2>2. CASE ~(i <= n)
    <3>1. i = n + 1
      BY <1>1, <2>2
    <3>2. i # 1 => n \in 1..n + 1 /\ i - 1 = n
      BY <1>1, <3>1
    <3>3. i # 1 => g[n] = f[n]
      BY <1>1, <3>2
    <3>4. g[i] = IF i = 1 THEN x ELSE f[n] \o x
      BY <1>1, <2>2, <3>1
    <3>5. h[i] = IF i = 1 THEN t[i] ELSE g[i - 1] \o t[i]
      BY <1>1
    <3>6. t[i] = x
      BY <1>1, <3>1
    <3> HIDE DEF t, g, h
    <3> QED
      BY <3>2, <3>3, <3>4, <3>5, <3>6
  <2> QED
    BY <2>1, <2>2
<1>3. g = h
  <2>1. DOMAIN g = 1..n + 1 /\ DOMAIN h = 1..n + 1
    BY <1>1
  <2>2. g = [i \in DOMAIN g |-> g[i]] /\ h = [i \in DOMAIN h |-> h[i]]
    OBVIOUS
  <2> HIDE DEF g, h
  <2> QED
    BY <1>2, <2>1, <2>2
<1>4. Flattens(g, t)
  <2> HIDE DEF g
  <2> QED
    BY <1>3 DEF Flattens
<1> QED
  BY <1>4

\* The recursion is defined for every sequence of sequences,
LEMMA FlattensExists ==
  ASSUME NEW A, NEW s \in Seq(Seq(A))
  PROVE  \E f : Flattens(f, s)
<1> DEFINE P == {t \in Seq(Seq(A)) : \E f : Flattens(f, t)}
<1>1. <<>> \in P
  <2>1. <<>> \in Seq(Seq(A)) /\ Len(<<>>) = 0
    BY EmptySeq
  <2> DEFINE g == [i \in {} |-> <<>>]
  <2>2. Flattens(g, <<>>)
    <3>1. 1..Len(<<>>) = {}
      BY <2>1
    <3> QED
      BY <3>1 DEF Flattens
  <2> QED
    BY <2>1, <2>2, Zenon
<1>2. \A t \in P, x \in Seq(A) : Append(t, x) \in P
  BY FlattensLonger, AppendProperties
<1>3. P \in SUBSET Seq(Seq(A))
  OBVIOUS
<1> HIDE DEF P
<1>4. s \in P
  BY <1>1, <1>2, <1>3, AllSequences
<1> QED
  BY <1>4 DEF P

\* and it has only one value.
LEMMA FlattensUnique ==
  ASSUME NEW A, NEW s \in Seq(Seq(A)), NEW x \in Seq(A),
         NEW f, NEW g, Flattens(f, s), Flattens(g, Append(s, x))
  PROVE  \A i \in 1..Len(s) : f[i] = g[i]
<1> DEFINE t == Append(s, x)
           n == Len(s)
<1>0. n \in Nat /\ Len(t) = n + 1 /\ \A i \in 1..n : t[i] = s[i]
  BY LenProperties, AppendProperties
<1> DEFINE differ == {i \in 1..n : f[i] # g[i]}
<1>1. SUFFICES ASSUME differ # {} PROVE FALSE
  OBVIOUS
<1>2. PICK i \in differ : \A j \in differ : i <= j
  <2>1. differ \in SUBSET Nat
    OBVIOUS
  <2> HIDE DEF differ
  <2> QED
    BY <1>1, <2>1, LeastNat
<1>3. i \in 1..n /\ i \in 1..Len(s) /\ i \in 1..Len(t) /\ f[i] # g[i]
        /\ t[i] = s[i]
  BY <1>0
<1>4. /\ f[i] = IF i = 1 THEN s[i] ELSE f[i - 1] \o s[i]
      /\ g[i] = IF i = 1 THEN t[i] ELSE g[i - 1] \o t[i]
  <2>1. Flattens(g, t)
    OBVIOUS
  <2> HIDE DEF t
  <2> QED
    BY <1>3, <2>1, FlattensAt
<1>5. i # 1 => f[i - 1] = g[i - 1]
  <2>1. SUFFICES ASSUME i # 1, i - 1 \in differ PROVE FALSE
    BY <1>3
  <2>2. i <= i - 1
    BY <1>2, <2>1
  <2> QED
    BY <1>3, <2>2
<1> QED
  BY <1>3, <1>4, <1>5

\* The two equations of FlattenSeq.
LEMMA FlattenEmpty == FlattenSeq(<<>>) = <<>>
<1>1. Len(<<>>) = 0
  BY EmptySeq
<1> QED
  BY <1>1 DEF FlattenSeq

LEMMA FlattenIs ==
  ASSUME NEW A, NEW s \in Seq(Seq(A)), s # <<>>
  PROVE  \E f : Flattens(f, s) /\ FlattenSeq(s) = f[Len(s)]
<1> DEFINE F == CHOOSE f : Flattens(f, s)
<1>1. Flattens(F, s)
  BY FlattensExists, Zenon
<1>2. Len(s) # 0
  BY EmptySeq
<1>3. FlattenSeq(s) = F[Len(s)]
  BY <1>2 DEF FlattenSeq, Flattens
<1> QED
  BY <1>1, <1>3, Zenon

LEMMA FlattenAppend ==
  ASSUME NEW A, NEW s \in Seq(Seq(A)), NEW x \in Seq(A)
  PROVE  FlattenSeq(Append(s, x)) = FlattenSeq(s) \o x
<1> DEFINE t == Append(s, x)
           n == Len(s)
<1>1. /\ t \in Seq(Seq(A)) /\ t # <<>> /\ n \in Nat /\ Len(t) = n + 1 /\ t[n + 1] = x
      /\ \A i \in 1..n : t[i] = s[i]
  BY LenProperties, AppendProperties
<1>2. PICK g : Flattens(g, t) /\ FlattenSeq(t) = g[n + 1]
  BY <1>1, FlattenIs
<1>3. g[n + 1] = IF n + 1 = 1 THEN x ELSE g[n + 1 - 1] \o x
  <2>1. n + 1 \in 1..Len(t)
    BY <1>1
  <2> HIDE DEF t, n
  <2> QED
    BY <1>1, <1>2, <2>1, FlattensAt
<1>4. CASE s = <<>>
  <2>1. n = 0 /\ <<>> \o x = x
    BY <1>4, EmptySeq, ConcatEmptySeq
  <2> QED
    BY <1>2, <1>3, <1>4, <2>1, FlattenEmpty
<1>5. CASE s # <<>>
  <2>1. PICK f : Flattens(f, s) /\ FlattenSeq(s) = f[n]
    BY <1>5, FlattenIs
  <2>2. n # 0 /\ n \in 1..n /\ n <= Len(t) /\ n + 1 - 1 = n
    BY <1>1, <1>5, EmptySeq
  <2>3. f[n] = g[n]
    <3>1. \A i \in 1..Len(s) : f[i] = g[i]
      BY <1>2, <2>1, FlattensUnique
    <3> QED
      BY <2>2, <3>1
  <2> QED
    BY <1>2, <1>3, <2>1, <2>2, <2>3
<1> QED
  BY <1>4, <1>5

-----------------------------------------------------------------------------
(* Decoding, and what the two kinds of prefix have in common.              *)

\* Decoding keeps the length; "%20" is one symbol.
LEMMA DecodedType ==
  ASSUME NEW uri \in Str
  PROVE  Decoded(uri) \in Str /\ Len(Decoded(uri)) = Len(uri)
<1>1. Len(uri) \in Nat /\ DOMAIN uri = 1..Len(uri)
  BY LenProperties DEF Str
<1>2. \A i \in 1..Len(uri) : uri[i] \in Char
  BY ElementOfSeq DEF Str
<1>3. Decoded(uri) \in [1..Len(uri) -> Char]
  BY <1>1, <1>2, DispatcherAssumption DEF Decoded
<1>4. Decoded(uri) \in Str
  BY <1>1, <1>3, SeqDef DEF Str
<1> QED
  BY <1>1, <1>3, <1>4, LenProperties DEF Str

\* A beginning of a string.
LEMMA BeginningOf ==
  ASSUME NEW u \in Str, NEW n \in 0..Len(u)
  PROVE  /\ SubSeq(u, 1, n) \in Str /\ Len(SubSeq(u, 1, n)) = n
         /\ \A i \in 1..n : SubSeq(u, 1, n)[i] = u[i]
<1>1. Len(u) \in Nat /\ \A i \in 1..n : u[i] \in Char
  BY LenProperties, ElementOfSeq DEF Str
<1> QED
  BY <1>1, SubSeqProperties DEF Str

\* l followed by a slash begins u: l ends before a slash of u.
LEMMA SlashAfter ==
  ASSUME NEW l \in Str, NEW u \in Str
  PROVE  IsPrefix(l \o <<"/">>, u) <=>
           Len(l) < Len(u) /\ SubSeq(u, 1, Len(l)) = l /\ u[Len(l) + 1] = "/"
<1>1. <<"/">> \in Str /\ Len(<<"/">>) = 1 /\ <<"/">>[1] = "/"
  <2>1. "/" \in Char
    BY DispatcherAssumption
  <2> QED
    BY <2>1 DEF Str
<1>2. Len(l) \in Nat /\ Len(u) \in Nat
  BY LenProperties DEF Str
<1>3. PICK m \in Str : m = l \o <<"/">>
  BY <1>1, ConcatProperties DEF Str
<1>4. /\ Len(m) = Len(l) + 1 /\ m[Len(l) + 1] = "/"
      /\ \A i \in 1..Len(l) : m[i] = l[i]
  BY <1>1, <1>2, <1>3, ConcatProperties DEF Str
<1>5. IsPrefix(m, u) <=> Len(m) <= Len(u) /\ \A i \in 1..Len(m) : m[i] = u[i]
  BY PrefixByElement
<1>6. CASE Len(l) < Len(u)
  <2>1. /\ SubSeq(u, 1, Len(l)) \in Str /\ Len(SubSeq(u, 1, Len(l))) = Len(l)
        /\ \A i \in 1..Len(l) : SubSeq(u, 1, Len(l))[i] = u[i]
    BY <1>2, <1>6, BeginningOf
  <2>2. SubSeq(u, 1, Len(l)) = l <=> \A i \in 1..Len(l) : l[i] = u[i]
    BY <1>2, <2>1, SeqEqual DEF Str
  <2>3. (\A i \in 1..Len(m) : m[i] = u[i]) <=>
          (\A i \in 1..Len(l) : l[i] = u[i]) /\ u[Len(l) + 1] = "/"
    BY <1>2, <1>4
  <2> QED
    BY <1>2, <1>3, <1>4, <1>5, <1>6, <2>2, <2>3
<1>7. CASE ~(Len(l) < Len(u))
  BY <1>2, <1>3, <1>4, <1>5, <1>7
<1> QED
  BY <1>6, <1>7
-----------------------------------------------------------------------------
(* The characters of a URI.                                                *)

\* Symbols of strings, and what "%20" consists of.
Sym == Char \cup {"%", "2", "0"}
CharactersOf(c) == IF c = "%20" THEN <<"%", "2", "0">> ELSE <<c>>

LEMMA CharactersOfType ==
  ASSUME NEW c \in Char
  PROVE  CharactersOf(c) \in Seq(Sym) /\ CharactersOf(c) # <<>>
<1>1. CASE c = "%20"
  <2>1. "%" \in Sym /\ "2" \in Sym /\ "0" \in Sym
    BY DEF Sym
  <2> QED
    BY <1>1, <2>1 DEF CharactersOf
<1>2. CASE c # "%20"
  <2>1. c \in Sym
    BY DEF Sym
  <2> QED
    BY <1>2, <2>1 DEF CharactersOf
<1> QED
  BY <1>1, <1>2

\* The two equations of Characters.
LEMMA CharactersEmpty == Characters(<<>>) = <<>>
<1> DEFINE b == [i \in DOMAIN <<>> |-> IF <<>>[i] = "%20" THEN <<"%", "2", "0">> ELSE <<<<>>[i]>>]
<1>1. <<>> \in Str /\ Len(<<>>) = 0
  BY EmptySeq DEF Str
<1>2. DOMAIN <<>> = {}
  BY <1>1, LenProperties DEF Str
<1>3. b = <<>>
  <2>1. b \in [1..0 -> Char]
    BY <1>2
  <2>2. b \in Str
    BY <2>1, SeqDef DEF Str
  <2>3. Len(b) = 0
    <3>1. DOMAIN b = 1..Len(b) /\ Len(b) \in Nat
      BY <2>2, LenProperties DEF Str
    <3>2. DOMAIN b = {}
      BY <1>2
    <3>3. Len(b) # 0 => 1 \in 1..Len(b)
      BY <3>1
    <3> HIDE DEF b
    <3> QED
      BY <3>1, <3>2, <3>3
  <2> HIDE DEF b
  <2> QED
    BY <2>2, <2>3, EmptySeq DEF Str
<1>4. Characters(<<>>) = FlattenSeq(b)
  BY DEF Characters
<1> QED
  BY <1>3, <1>4, FlattenEmpty

LEMMA CharactersAppend ==
  ASSUME NEW u \in Str, NEW c \in Char
  PROVE  Characters(Append(u, c)) = Characters(u) \o CharactersOf(c)
<1> DEFINE t == Append(u, c)
           b == [i \in DOMAIN u |-> CharactersOf(u[i])]
           d == [i \in DOMAIN t |-> CharactersOf(t[i])]
           n == Len(u)
<1>1. /\ n \in Nat /\ DOMAIN u = 1..n /\ t \in Str /\ Len(t) = n + 1 /\ DOMAIN t = 1..n + 1
      /\ t[n + 1] = c /\ \A i \in 1..n : t[i] = u[i]
  BY AppendProperties, LenProperties DEF Str
<1>2. /\ \A i \in 1..n : CharactersOf(u[i]) \in Seq(Sym)
      /\ \A i \in 1..n + 1 : CharactersOf(t[i]) \in Seq(Sym)
      /\ CharactersOf(c) \in Seq(Sym)
  BY <1>1, ElementOfSeq, CharactersOfType DEF Str
<1>3. b \in Seq(Seq(Sym)) /\ Len(b) = n /\ d \in Seq(Seq(Sym)) /\ Len(d) = n + 1
  <2>1. b \in [1..n -> Seq(Sym)] /\ d \in [1..n + 1 -> Seq(Sym)]
    BY <1>1, <1>2
  <2>2. n + 1 \in Nat
    BY <1>1
  <2>3. b \in Seq(Seq(Sym)) /\ d \in Seq(Seq(Sym))
    BY <1>1, <2>1, <2>2, SeqDef
  <2> HIDE DEF b, d
  <2>4. /\ DOMAIN b = 1..n /\ DOMAIN d = 1..n + 1
        /\ DOMAIN b = 1..Len(b) /\ DOMAIN d = 1..Len(d) /\ Len(b) \in Nat /\ Len(d) \in Nat
    BY <2>1, <2>3, LenProperties
  <2> QED
    BY <1>1, <2>3, <2>4
<1>4. d = Append(b, CharactersOf(c))
  <2> DEFINE e == Append(b, CharactersOf(c))
  <2>1. /\ e \in Seq(Seq(Sym)) /\ Len(e) = n + 1 /\ e[n + 1] = CharactersOf(c)
        /\ \A i \in 1..n : e[i] = b[i]
    <3> HIDE DEF b
    <3> QED
      BY <1>2, <1>3, AppendProperties
  <2>2. \A i \in 1..n + 1 : d[i] = CharactersOf(t[i])
    BY <1>1
  <2>3. \A i \in 1..n : b[i] = CharactersOf(u[i])
    BY <1>1
  <2>4. \A i \in 1..n + 1 : d[i] = e[i]
    <3> HIDE DEF b, d, e, t
    <3>1. SUFFICES ASSUME NEW i \in 1..n + 1 PROVE d[i] = e[i]
      OBVIOUS
    <3>2. i \in 1..n \/ i = n + 1
      BY <1>1
    <3> QED
      BY <1>1, <2>1, <2>2, <2>3, <3>2
  <2> HIDE DEF b, d, e
  <2> QED
    BY <1>3, <2>1, <2>4, SeqEqual
<1>5. Characters(u) = FlattenSeq(b) /\ Characters(t) = FlattenSeq(d)
  BY DEF Characters, CharactersOf
<1> HIDE DEF b, d, t
<1>6. FlattenSeq(Append(b, CharactersOf(c))) = FlattenSeq(b) \o CharactersOf(c)
  BY <1>2, <1>3, FlattenAppend
<1> QED
  BY <1>4, <1>5, <1>6 DEF t

LEMMA CharactersType ==
  ASSUME NEW u \in Str
  PROVE  Characters(u) \in Seq(Sym)
<1> DEFINE P == {v \in Seq(Char) : Characters(v) \in Seq(Sym)}
<1>1. <<>> \in P
  BY CharactersEmpty, EmptySeq
<1>2. \A v \in P, c \in Char : Append(v, c) \in P
  <2>1. SUFFICES ASSUME NEW v \in Seq(Char), Characters(v) \in Seq(Sym), NEW c \in Char
                 PROVE  Append(v, c) \in Seq(Char) /\ Characters(Append(v, c)) \in Seq(Sym)
    OBVIOUS
  <2> QED
    BY <2>1, AppendProperties, CharactersAppend, CharactersOfType, ConcatProperties DEF Str
<1>3. P \in SUBSET Seq(Char)
  OBVIOUS
<1> HIDE DEF P
<1>4. u \in P
  BY <1>1, <1>2, <1>3, AllSequences DEF Str
<1> QED
  BY <1>4 DEF P

\* Characters of a string are those of its parts,
LEMMA CharactersConcat ==
  ASSUME NEW u \in Str, NEW v \in Str
  PROVE  Characters(u \o v) = Characters(u) \o Characters(v)
<1> DEFINE P == {w \in Seq(Char) : Characters(u \o w) = Characters(u) \o Characters(w)}
<1>1. <<>> \in P
  <2>1. u \o <<>> = u /\ Characters(u) \o <<>> = Characters(u)
    BY CharactersType, ConcatEmptySeq DEF Str
  <2> QED
    BY <2>1, CharactersEmpty, EmptySeq
<1>2. \A w \in P, c \in Char : Append(w, c) \in P
  <2>1. SUFFICES ASSUME NEW w \in Seq(Char), NEW c \in Char,
                        Characters(u \o w) = Characters(u) \o Characters(w)
                 PROVE  /\ Append(w, c) \in Seq(Char)
                        /\ Characters(u \o Append(w, c)) = Characters(u) \o Characters(Append(w, c))
    OBVIOUS
  <2>2. Append(w, c) \in Seq(Char) /\ Append(w, c) = w \o <<c>> /\ <<c>> \in Seq(Char)
    BY AppendProperties, AppendIsConcat
  <2>3. u \o w \in Str /\ Append(u \o w, c) = (u \o w) \o <<c>>
    BY ConcatProperties, AppendIsConcat DEF Str
  <2>4. u \o Append(w, c) = Append(u \o w, c)
    BY <2>2, <2>3, ConcatAssociative DEF Str
  <2>5. Characters(u \o Append(w, c)) = (Characters(u) \o Characters(w)) \o CharactersOf(c)
    BY <2>1, <2>3, <2>4, CharactersAppend
  <2>6. Characters(Append(w, c)) = Characters(w) \o CharactersOf(c)
    BY CharactersAppend DEF Str
  <2>7. /\ Characters(u) \in Seq(Sym) /\ Characters(w) \in Seq(Sym)
        /\ CharactersOf(c) \in Seq(Sym)
    BY CharactersType, CharactersOfType DEF Str
  <2>8. (Characters(u) \o Characters(w)) \o CharactersOf(c) =
          Characters(u) \o (Characters(w) \o CharactersOf(c))
    BY <2>7, ConcatAssociative
  <2> QED
    BY <2>2, <2>5, <2>6, <2>8
<1>3. P \in SUBSET Seq(Char)
  OBVIOUS
<1> HIDE DEF P
<1>4. v \in P
  BY <1>1, <1>2, <1>3, AllSequences DEF Str
<1> QED
  BY <1>4 DEF P

\* and a string without "%20" is its characters.
Plain(u) == \A i \in 1..Len(u) : u[i] # "%20"

LEMMA CharactersPlain ==
  ASSUME NEW u \in Str, Plain(u)
  PROVE  Characters(u) = u
<1> DEFINE P == {v \in Seq(Char) : Plain(v) => Characters(v) = v}
<1>1. <<>> \in P
  BY CharactersEmpty, EmptySeq
<1>2. \A v \in P, c \in Char : Append(v, c) \in P
  <2>1. SUFFICES ASSUME NEW v \in Seq(Char), NEW c \in Char, Plain(v) => Characters(v) = v,
                        Plain(Append(v, c))
                 PROVE  Characters(Append(v, c)) = Append(v, c)
    BY AppendProperties
  <2>2. /\ Len(v) \in Nat /\ Len(Append(v, c)) = Len(v) + 1 /\ Append(v, c)[Len(v) + 1] = c
        /\ \A i \in 1..Len(v) : Append(v, c)[i] = v[i]
    BY LenProperties, AppendProperties
  <2>3. \A i \in 1..Len(v) + 1 : Append(v, c)[i] # "%20"
    BY <2>1, <2>2 DEF Plain
  <2>4. Plain(v) /\ c # "%20"
    <3>1. Len(v) + 1 \in 1..Len(v) + 1 /\ \A i \in 1..Len(v) : i \in 1..Len(v) + 1
      BY <2>2
    <3> QED
      BY <2>2, <2>3, <3>1 DEF Plain
  <2>5. Characters(Append(v, c)) = v \o <<c>>
    BY <2>1, <2>4, CharactersAppend DEF CharactersOf, Str
  <2> QED
    BY <2>5, AppendIsConcat
<1>3. P \in SUBSET Seq(Char)
  OBVIOUS
<1> HIDE DEF P
<1>4. u \in P
  BY <1>1, <1>2, <1>3, AllSequences DEF Str
<1> QED
  BY <1>4 DEF P

\* A string that goes on after its location: the handler cuts off as many
\* characters as the location has, which is the location.
LEMMA CutCharacters ==
  ASSUME NEW l \in Str, NEW rest \in Str, Plain(l)
  PROVE  SubSeq(Characters(l \o rest), Len(l) + 1, Len(Characters(l \o rest))) = Characters(rest)
<1> DEFINE c == Characters(rest)
           u == l \o c
           n == Len(l)
<1>1. Characters(l \o rest) = u
  BY CharactersConcat, CharactersPlain
<1>2. l \in Seq(Sym) /\ c \in Seq(Sym)
  <2>1. Characters(l) = l
    BY CharactersPlain
  <2> QED
    BY <2>1, CharactersType
<1>3. /\ n \in Nat /\ Len(c) \in Nat /\ u \in Seq(Sym) /\ Len(u) = n + Len(c)
      /\ \A i \in 1..n + Len(c) : u[i] = IF i <= n THEN l[i] ELSE c[i - n]
  <2> HIDE DEF c
  <2> QED
    BY <1>2, LenProperties, ConcatProperties
<1> HIDE DEF u, n, c
<1>4. /\ SubSeq(u, n + 1, Len(u)) \in Seq(Sym)
      /\ Len(SubSeq(u, n + 1, Len(u))) = Len(c)
      /\ \A i \in 1..Len(c) : SubSeq(u, n + 1, Len(u))[i] = u[n + i]
  <2>1. \A i \in n + 1..Len(u) : u[i] \in Sym
    BY <1>3, ElementOfSeq
  <2>2. /\ SubSeq(u, n + 1, Len(u)) \in Seq(Sym)
        /\ Len(SubSeq(u, n + 1, Len(u))) = IF n + 1 <= Len(u) THEN Len(u) - (n + 1) + 1 ELSE 0
        /\ \A i \in 1..Len(u) - (n + 1) + 1 : SubSeq(u, n + 1, Len(u))[i] = u[n + 1 + i - 1]
    BY <1>3, <2>1, SubSeqProperties
  <2>3. Len(u) - (n + 1) + 1 = Len(c) /\ (n + 1 <= Len(u) <=> Len(c) # 0)
    BY <1>3
  <2>4. \A i \in 1..Len(c) : n + 1 + i - 1 = n + i
    BY <1>3
  <2> QED
    BY <1>3, <2>2, <2>3, <2>4
<1>5. \A i \in 1..Len(c) : u[n + i] = c[i]
  <2>1. SUFFICES ASSUME NEW i \in 1..Len(c) PROVE u[n + i] = c[i]
    OBVIOUS
  <2>2. n + i \in 1..n + Len(c) /\ ~(n + i <= n) /\ n + i - n = i
    BY <1>3
  <2> QED
    BY <1>3, <2>2
<1>6. SubSeq(u, n + 1, Len(u)) = c
  BY <1>2, <1>3, <1>4, <1>5, SeqEqual
<1> QED
  BY <1>1, <1>6 DEF n, c
-----------------------------------------------------------------------------
(* What get_handler looks up.                                              *)

LocationsType == locations \in [Type -> SUBSET Location]

\* The static locations that serve a URI are those that the loop comes to.
LEMMA StaticServed ==
  ASSUME LocationsType, NEW u \in Str, NEW l \in locations["StaticHandler"]
  PROVE  Serves("StaticHandler", l, u) <=> \E n \in StaticCuts(u) : SubSeq(u, 1, n) = l
<1>1. l \in Str /\ Len(l) \in Nat /\ Len(u) \in Nat
  BY DispatcherAssumption, LenProperties DEF LocationsType, Type, Str
<1>2. SubSeq(u, 1, Len(u)) = u
  BY SubSeqFull DEF Str
<1>3. Serves("StaticHandler", l, u) <=> l = u \/ IsPrefix(l \o <<"/">>, u)
  BY DEF Serves, Type
<1>4. ASSUME Serves("StaticHandler", l, u)
      PROVE  \E n \in StaticCuts(u) : SubSeq(u, 1, n) = l
  <2>1. CASE l = u
    <3>1. Len(u) \in 0..Len(u) /\ ~(Len(u) < Len(u))
      BY <1>1
    <3>2. SubSeq(u, 1, Len(u)) \in locations["StaticHandler"]
      BY <1>2, <2>1
    <3>3. Len(u) \in StaticCuts(u)
      BY <3>1, <3>2, Zenon DEF StaticCuts
    <3> QED
      BY <1>2, <2>1, <3>3
  <2>2. CASE IsPrefix(l \o <<"/">>, u)
    <3>1. Len(l) < Len(u) /\ SubSeq(u, 1, Len(l)) = l /\ u[Len(l) + 1] = "/"
      BY <1>1, <2>2, SlashAfter
    <3>2. Len(l) \in 0..Len(u)
      BY <1>1, <3>1
    <3>3. SubSeq(u, 1, Len(l)) \in locations["StaticHandler"]
      BY <3>1, Zenon
    <3>4. Len(l) \in StaticCuts(u)
      BY <3>1, <3>2, <3>3, Zenon DEF StaticCuts
    <3> QED
      BY <3>1, <3>4
  <2> QED
    BY <1>3, <1>4, <2>1, <2>2
<1>5. ASSUME NEW n \in StaticCuts(u), SubSeq(u, 1, n) = l
      PROVE  Serves("StaticHandler", l, u)
  <2>1. n \in 0..Len(u) /\ (n < Len(u) => u[n + 1] = "/")
    BY DEF StaticCuts
  <2>2. Len(l) = n
    BY <1>5, <2>1, BeginningOf
  <2>3. CASE n = Len(u)
    BY <1>2, <1>3, <1>5, <2>3
  <2>4. CASE n < Len(u)
    <3>1. IsPrefix(l \o <<"/">>, u)
      BY <1>1, <1>5, <2>1, <2>2, <2>4, SlashAfter
    <3> QED
      BY <1>3, <3>1
  <2> QED
    BY <1>1, <2>1, <2>3, <2>4
<1> QED
  BY <1>4, <1>5

\* longest_prefix_match finds the most specific one, if there is any.
LEMMA LongestMatch ==
  ASSUME LocationsType, NEW u \in Str
  PROVE  LET p == longest_prefix_match(u) IN
         /\ p # <<>> => p \in locations["StaticHandler"] /\ Serves("StaticHandler", p, u)
         /\ \A l \in locations["StaticHandler"] :
              Serves("StaticHandler", l, u) => p # <<>> /\ Len(l) <= Len(p)
<1> DEFINE p == longest_prefix_match(u)
<1>1. StaticCuts(u) \in SUBSET (0..Len(u)) /\ Len(u) \in Nat
  BY LenProperties DEF StaticCuts, Str
<1>2. CASE StaticCuts(u) = {}
  <2>1. p = <<>>
    BY <1>2 DEF longest_prefix_match
  <2> QED
    BY <1>2, <2>1, StaticServed
<1>3. CASE StaticCuts(u) # {}
  <2>1. PICK m \in StaticCuts(u) : m = Max(StaticCuts(u)) /\ \A n \in StaticCuts(u) : n <= m
    BY <1>1, <1>3, MaxOfBounded
  <2>2. p = SubSeq(u, 1, m)
    BY <1>3, <2>1 DEF longest_prefix_match
  <2>3. p \in locations["StaticHandler"] /\ p # <<>> /\ Len(p) = m
    <3>1. p \in locations["StaticHandler"] /\ Len(p) = m
      BY <1>1, <2>2, BeginningOf DEF StaticCuts
    <3> QED
      BY <3>1, DispatcherAssumption DEF LocationsType, Type
  <2>4. Serves("StaticHandler", p, u)
    BY <2>2, <2>3, StaticServed
  <2>5. ASSUME NEW l \in locations["StaticHandler"], Serves("StaticHandler", l, u)
        PROVE  Len(l) <= Len(p)
    <3>1. PICK n \in StaticCuts(u) : SubSeq(u, 1, n) = l
      BY <2>5, StaticServed
    <3>2. Len(l) = n
      BY <1>1, <3>1, BeginningOf
    <3> QED
      BY <2>1, <2>3, <3>2
  <2> QED
    BY <2>3, <2>4, <2>5
<1> QED
  BY <1>2, <1>3

\* A key serves the URI for some type, and no static location that serves it
\* is longer.
LEMMA KeysServe ==
  ASSUME LocationsType, NEW u \in Str, NEW key \in Keys(u)
  PROVE  /\ \E k \in Type : Serves(k, key, u)
         /\ \A l \in locations["StaticHandler"] :
              Serves("StaticHandler", l, u) => Len(l) <= Len(key)
<1> DEFINE p == longest_prefix_match(u)
<1>1. ASSUME NEW l \in locations["StaticHandler"], Serves("StaticHandler", l, u)
      PROVE  Len(l) <= Len(u) /\ p # <<>> /\ Len(l) <= Len(p)
  <2>1. PICK n \in StaticCuts(u) : SubSeq(u, 1, n) = l
    BY <1>1, StaticServed
  <2>2. n \in 0..Len(u) /\ Len(u) \in Nat
    BY LenProperties DEF StaticCuts, Str
  <2>3. Len(l) = n
    BY <2>1, <2>2, BeginningOf
  <2> QED
    BY <1>1, <2>2, <2>3, LongestMatch
<1>2. CASE u \in locations["EchoHandler"]
  <2>1. key = u
    BY <1>2 DEF Keys
  <2> QED
    BY <1>1, <1>2, <2>1 DEF Serves, Type
<1>3. CASE u \notin locations["EchoHandler"] /\ p # <<>>
  <2>1. key = p
    BY <1>3 DEF Keys
  <2> QED
    BY <1>3, <2>1, LongestMatch DEF Type
<1>4. CASE u \notin locations["EchoHandler"] /\ p = <<>>
  <2>1. \A l \in locations["StaticHandler"] : ~Serves("StaticHandler", l, u)
    BY <1>1, <1>4
  <2>2. \E k \in Type : Serves(k, key, u)
    BY <1>4 DEF Keys, PrefixLocations, Serves, Type, ExactType
  <2> QED
    BY <2>1, <2>2
<1> QED
  BY <1>2, <1>3, <1>4

\* No key: no location serves the URI.
LEMMA NoKeyNoServer ==
  ASSUME LocationsType, NEW u \in Str, Keys(u) = {}
  PROVE  ~\E k \in Type, l \in Location : Serves(k, l, u)
<1>1. /\ u \notin locations["EchoHandler"] /\ longest_prefix_match(u) = <<>>
      /\ \A k \in ExactType : u \notin locations[k]
      /\ PrefixLocations("ProxyHandler", u) = {} /\ PrefixLocations("BlogHandler", u) = {}
  BY DEF Keys
<1>2. \A l \in locations["StaticHandler"] : ~Serves("StaticHandler", l, u)
  BY <1>1, LongestMatch
<1>3. ASSUME NEW k \in {"ProxyHandler", "BlogHandler"}, NEW l \in locations[k]
      PROVE  l # u /\ ~IsPrefix(l, u)
  <2>1. ~IsPrefix(l, u)
    BY <1>1 DEF PrefixLocations
  <2>2. IsPrefix(u, u)
    BY PrefixByElement, LenProperties DEF Str
  <2> QED
    BY <2>1, <2>2
<1>4. SUFFICES ASSUME NEW k \in Type, NEW l \in Location, Serves(k, l, u) PROVE FALSE
  OBVIOUS
<1> QED
  BY <1>1, <1>2, <1>3, <1>4 DEF Serves, Type
-----------------------------------------------------------------------------
(* The static handler's own way through the URI.                           *)

\* It stops where the dispatcher did.
LEMMA BelowLocation ==
  ASSUME NEW u \in Str, NEW l \in Str, IsPrefix(l \o <<"/">>, u)
  PROVE  Contains(u, "/") /\ l \o Below(l, u) = u /\ Head(Below(l, u)) = "/"
<1> DEFINE slashes == {n \in DOMAIN u : u[n] = "/"}
           stops == {n \in slashes : SubSeq(u, 1, n - 1) = l \/ n = Min(slashes)}
<1>1. /\ Len(l) < Len(u) /\ SubSeq(u, 1, Len(l)) = l /\ u[Len(l) + 1] = "/"
      /\ Len(l) \in Nat /\ Len(u) \in Nat /\ DOMAIN u = 1..Len(u)
  BY SlashAfter, LenProperties DEF Str
<1>2. PICK k \in 1..Len(u) : k = Len(l) + 1
  BY <1>1
<1>3. k \in slashes /\ slashes \in SUBSET (1..Len(u))
  BY <1>1, <1>2
<1>4. Min(slashes) \in slashes /\ Min(slashes) <= k
  <2> HIDE DEF slashes
  <2>1. slashes \in SUBSET Nat
    BY <1>3
  <2> QED
    BY <1>3, <2>1, MinOfNat
<1>5. k \in stops
  <2>1. SubSeq(u, 1, k - 1) = l
    <3>1. k - 1 = Len(l)
      BY <1>1, <1>2
    <3> QED
      BY <1>1, <3>1
  <2> HIDE DEF slashes
  <2> QED
    BY <1>3, <2>1
<1>6. \A n \in stops : n <= k
  <2>1. SUFFICES ASSUME NEW n \in slashes, SubSeq(u, 1, n - 1) = l PROVE n <= k
    BY <1>4
  <2>2. n - 1 \in 0..Len(u)
    BY <1>3
  <2>3. n - 1 = Len(l)
    BY <2>1, <2>2, BeginningOf
  <2> QED
    BY <1>2, <1>3, <2>3
<1>7. Max(stops) = k
  <2>1. stops \in SUBSET (0..Len(u))
    BY <1>3
  <2> HIDE DEF stops
  <2>2. PICK m \in stops : m = Max(stops) /\ k <= m
    BY <1>1, <1>5, <2>1, MaxOfBounded
  <2>3. m <= k /\ m \in 0..Len(u)
    BY <1>6, <2>1
  <2>4. m = k
    BY <1>1, <2>2, <2>3
  <2> QED
    BY <2>2, <2>4
<1>8. Below(l, u) = SubSeq(u, k, Len(u))
  BY <1>7 DEF Below
<1>9. SubSeq(u, 1, Len(l)) \o SubSeq(u, Len(l) + 1, Len(u)) = SubSeq(u, 1, Len(u))
  <2>1. /\ 1 \in 1..(Len(u) + 1) /\ Len(l) \in (1 - 1)..Len(u)
        /\ Len(u) \in Len(l)..Len(u)
    BY <1>1
  <2> QED
    BY <2>1, ConcatAdjacentSubSeq, Zenon DEF Str
<1>10. l \o Below(l, u) = u
  BY <1>1, <1>2, <1>8, <1>9, SubSeqFull DEF Str
<1>11. Head(Below(l, u)) = "/"
  <2>1. Len(u) \in k..Len(u)
    BY <1>1, <1>2
  <2>2. Head(SubSeq(u, k, Len(u))) = u[k]
    BY <2>1, HeadTailOfSubSeq DEF Str
  <2> QED
    BY <1>3, <1>8, <2>2
<1> QED
  BY <1>1, <1>3, <1>10, <1>11 DEF Contains

-----------------------------------------------------------------------------
(* The inductive invariant.                                                *)

ConfigType ==
  /\ LocationsType
  /\ handler_types_ \in Seq(Type) /\ next \in Nat \ {0}
  /\ stage \in {"config", "mapping", "ready"}

\* Every type that has locations is listed.
Listed ==
  \A k \in Type : locations[k] # {} => \E i \in 1..Len(handler_types_) : handler_types_[i] = k

\* The map has a handler of a right type under every location it contains, and
\* null under every other key.
Located(l) == \E k \in Type : l \in locations[k]
MapIsRight ==
  /\ dispatcher = [l \in DOMAIN dispatcher |-> dispatcher[l]]
  /\ \A l \in DOMAIN dispatcher :
       IF Located(l) THEN \E k \in Type : l \in locations[k] /\ dispatcher[l] = Handler(k, l)
       ELSE dispatcher[l] = Null

\* It contains the locations of the types that the loop is done with; all of
\* them in the end.
MapIsWhole ==
  /\ stage = "mapping" =>
       \A i \in 1..Len(handler_types_) :
         i < next => locations[handler_types_[i]] \subseteq DOMAIN dispatcher
  /\ stage = "ready" => \A k \in Type : locations[k] \subseteq DOMAIN dispatcher

NothingEarly ==
  /\ stage = "config" => dispatcher = <<>>
  /\ stage # "ready" => request = <<>>

AnswerType == answer.location \in Str

RouteInv == ConfigType /\ Listed /\ MapIsRight /\ MapIsWhole /\ NothingEarly /\ AnswerType

\* With the properties that follow from it at the step that sets the answer.
Inv == RouteInv /\ AnswerServes /\ MostSpecificStatic /\ FileIsBelowLocation

LEMMA InitInv == RoutingInit => Inv
<1>1. SUFFICES ASSUME RoutingInit PROVE Inv
  OBVIOUS
<1>2. ConfigType /\ Listed
  BY <1>1 DEF RoutingInit, Init, ConfigType, LocationsType, Listed
<1>3. /\ dispatcher = <<>> /\ stage = "config" /\ request = <<>> /\ answer = ErrorHandler
      /\ DOMAIN dispatcher = {}
  BY <1>1 DEF RoutingInit, Init
<1>4. MapIsRight
  BY <1>3 DEF MapIsRight
<1>5. MapIsWhole /\ NothingEarly /\ AnswerType
  <2>1. <<>> \in Str
    BY EmptySeq DEF Str
  <2> QED
    BY <1>3, <2>1 DEF MapIsWhole, NothingEarly, AnswerType, ErrorHandler, Handler
<1> QED
  BY <1>2, <1>3, <1>4, <1>5
     DEF Inv, RouteInv, AnswerServes, MostSpecificStatic, FileIsBelowLocation, Handled

\* Nothing is said of answers before the first request, nor after the status
\* handler was looked up.
LEMMA NoRequest ==
  ASSUME request' = <<>> \/ stage' # "ready"
  PROVE  (AnswerServes /\ MostSpecificStatic /\ FileIsBelowLocation)'
BY DEF AnswerServes, MostSpecificStatic, FileIsBelowLocation, Handled

\* The configuration and the making of the handlers.
LEMMA SetupInv == Inv /\ Setup => Inv'
<1>1. SUFFICES ASSUME Inv, Setup PROVE RouteInv' /\ request' = <<>>
  BY NoRequest DEF Inv
<1>2. /\ stage \in {"config", "mapping"} /\ request = <<>> /\ request' = <<>>
      /\ answer' = answer /\ AnswerType'
  BY <1>1 DEF Inv, RouteInv, NothingEarly, AnswerType, Setup, AddLocation, Construct,
       create_handler_mapping, Ready, ConfigType
<1>3. CASE AddLocation
  <2>1. /\ stage = "config" /\ dispatcher = <<>>
        /\ UNCHANGED <<dispatcher, stage>> /\ DOMAIN dispatcher = {}
    BY <1>1, <1>3 DEF AddLocation, Inv, RouteInv, NothingEarly
  <2>2. PICK k \in Type, l \in Location :
          /\ locations' = [locations EXCEPT ![k] = @ \cup {l}]
          /\ handler_types_' = IF locations[k] = {} THEN Append(handler_types_, k)
                               ELSE handler_types_
    BY <1>3 DEF AddLocation
  <2>3. LocationsType /\ handler_types_ \in Seq(Type) /\ next \in Nat \ {0} /\ Listed
    BY <1>1 DEF Inv, RouteInv, ConfigType
  <2>4. /\ Len(handler_types_) \in Nat
        /\ handler_types_' \in Seq(Type)
        /\ Len(handler_types_)' >= Len(handler_types_) /\ Len(handler_types_)' \in Nat
        /\ \A i \in 1..Len(handler_types_) : handler_types_'[i] = handler_types_[i]
        /\ locations[k] = {} => /\ Len(handler_types_)' = Len(handler_types_) + 1
                                /\ handler_types_'[Len(handler_types_) + 1] = k
    <3>1. CASE locations[k] = {}
      BY <2>2, <2>3, <3>1, LenProperties, AppendProperties
    <3>2. CASE locations[k] # {}
      BY <2>2, <2>3, <3>2, LenProperties
    <3> QED
      BY <3>1, <3>2
  <2>5. ConfigType'
    BY <1>3, <2>1, <2>2, <2>3, <2>4 DEF AddLocation, ConfigType, LocationsType
  <2>6. Listed'
    <3>1. SUFFICES ASSUME NEW m \in Type, locations'[m] # {}
                   PROVE  \E i \in 1..Len(handler_types_)' : handler_types_'[i] = m
      BY DEF Listed
    <3>2. CASE locations[m] # {}
      BY <2>3, <2>4, <3>2 DEF Listed
    <3>3. CASE locations[m] = {}
      <4>1. m = k
        BY <2>2, <2>3, <3>1, <3>3 DEF LocationsType
      <4> QED
        BY <2>4, <3>3, <4>1
    <3> QED
      BY <3>2, <3>3
  <2>7. MapIsRight' /\ MapIsWhole' /\ NothingEarly'
    BY <1>2, <2>1 DEF MapIsRight, MapIsWhole, NothingEarly
  <2> QED
    BY <1>2, <2>5, <2>6, <2>7 DEF RouteInv
<1>4. CASE Construct
  <2>1. /\ stage' = "mapping" /\ next' = 1 /\ dispatcher' = <<>> /\ DOMAIN dispatcher' = {}
        /\ UNCHANGED <<handler_types_, locations>>
    BY <1>1, <1>4 DEF Construct, Inv, RouteInv, NothingEarly
  <2>2. ConfigType' /\ Listed'
    BY <1>1, <2>1 DEF Inv, RouteInv, ConfigType, LocationsType, Listed
  <2>3. MapIsRight' /\ NothingEarly'
    BY <1>2, <2>1 DEF MapIsRight, NothingEarly
  <2>4. MapIsWhole'
    BY <2>1 DEF MapIsWhole
  <2> QED
    BY <1>2, <2>2, <2>3, <2>4 DEF RouteInv
<1>5. CASE create_handler_mapping
  <2> DEFINE type == handler_types_[next]
             here == locations[type]
             keys == DOMAIN dispatcher \cup here
  <2>1. /\ stage = "mapping" /\ next \in 1..Len(handler_types_) /\ next' = next + 1
        /\ UNCHANGED <<handler_types_, locations, stage>>
        /\ dispatcher' = [l \in keys |-> IF l \in here THEN Handler(type, l) ELSE dispatcher[l]]
    BY <1>1, <1>5, LenProperties DEF create_handler_mapping, Inv, RouteInv, ConfigType
  <2>2. type \in Type
    BY <1>1, <2>1, ElementOfSeq DEF Inv, RouteInv, ConfigType
  <2>3. ConfigType' /\ Listed'
    BY <1>1, <2>1 DEF Inv, RouteInv, ConfigType, LocationsType, Listed
  <2>4. DOMAIN dispatcher' = keys
    BY <2>1
  <2>5. MapIsRight'
    <3>1. dispatcher' = [l \in DOMAIN dispatcher' |-> dispatcher'[l]]
      BY <2>1
    <3>2. ASSUME NEW l \in keys
          PROVE  IF Located(l) THEN \E k \in Type : l \in locations[k] /\ dispatcher'[l] = Handler(k, l)
                 ELSE dispatcher'[l] = Null
      <4>1. CASE l \in here
        <5>1. Located(l) /\ dispatcher'[l] = Handler(type, l) /\ l \in locations[type]
          BY <2>1, <2>2, <4>1 DEF Located
        <5> HIDE DEF type
        <5> QED
          BY <2>2, <5>1
      <4>2. CASE l \notin here
        <5>1. l \in DOMAIN dispatcher /\ dispatcher'[l] = dispatcher[l]
          BY <2>1, <4>2
        <5> QED
          BY <1>1, <5>1 DEF Inv, RouteInv, MapIsRight
      <4> QED
        BY <4>1, <4>2
    <3> QED
      BY <2>1, <2>4, <3>1, <3>2 DEF MapIsRight, Located
  <2>6. MapIsWhole'
    <3>1. ASSUME NEW i \in 1..Len(handler_types_), i < next + 1
          PROVE  locations[handler_types_[i]] \subseteq keys
      <4>1. CASE i = next
        BY <4>1
      <4>2. CASE i # next
        <5>1. i < next
          BY <2>1, <3>1, <4>2
        <5> QED
          BY <1>1, <2>1, <5>1 DEF Inv, RouteInv, MapIsWhole
      <4> QED
        BY <4>1, <4>2
    <3> QED
      BY <2>1, <2>4, <3>1 DEF MapIsWhole
  <2>7. NothingEarly'
    BY <1>2, <2>1 DEF NothingEarly
  <2> QED
    BY <1>2, <2>3, <2>5, <2>6, <2>7 DEF RouteInv
<1>6. CASE Ready
  <2>1. /\ stage = "mapping" /\ next > Len(handler_types_) /\ stage' = "ready"
        /\ UNCHANGED <<handler_types_, locations, dispatcher, next>>
    BY <1>6 DEF Ready
  <2>2. ConfigType' /\ Listed' /\ MapIsRight' /\ NothingEarly'
    BY <1>1, <1>2, <2>1
       DEF Inv, RouteInv, ConfigType, LocationsType, Listed, MapIsRight, Located, NothingEarly
  <2>3. ASSUME NEW k \in Type PROVE locations[k] \subseteq DOMAIN dispatcher
    <3>1. CASE locations[k] = {}
      BY <3>1
    <3>2. CASE locations[k] # {}
      <4>1. PICK i \in 1..Len(handler_types_) : handler_types_[i] = k
        BY <1>1, <3>2 DEF Inv, RouteInv, Listed
      <4>2. i < next
        BY <1>1, <2>1, LenProperties DEF Inv, RouteInv, ConfigType
      <4> QED
        BY <1>1, <2>1, <4>1, <4>2 DEF Inv, RouteInv, MapIsWhole
    <3> QED
      BY <3>1, <3>2
  <2>4. MapIsWhole'
    BY <2>1, <2>3 DEF MapIsWhole
  <2> QED
    BY <1>2, <2>2, <2>4 DEF RouteInv
<1> QED
  BY <1>1, <1>2, <1>3, <1>4, <1>5, <1>6 DEF Setup

\* A lookup of a location finds its handler and writes nothing.
LEMMA LocatedIsFound ==
  ASSUME RouteInv, stage = "ready", NEW k \in Type, NEW key \in locations[k], Access(key)
  PROVE  /\ dispatcher' = dispatcher
         /\ \E m \in Type : key \in locations[m] /\ Find(key) = Handler(m, key)
<1>1. key \in DOMAIN dispatcher
  BY DEF RouteInv, MapIsWhole
<1>2. Find(key) = dispatcher[key] /\ Located(key)
  BY <1>1 DEF Find, Located
<1>3. \A l \in DOMAIN dispatcher : Find(l) = dispatcher[l]
  BY DEF Find
<1>4. DOMAIN dispatcher \cup {key} = DOMAIN dispatcher
  BY <1>1
<1>5. dispatcher' = [l \in DOMAIN dispatcher |-> dispatcher[l]]
  BY <1>3, <1>4 DEF Access
<1> QED
  BY <1>1, <1>2, <1>5 DEF RouteInv, MapIsRight

\* What get_handler does.
LEMMA GetHandler ==
  ASSUME RouteInv, NEW uri \in Str, get_handler(uri)
  PROVE  /\ stage = "ready" /\ request' = uri
         /\ UNCHANGED <<handler_types_, locations, dispatcher, stage, next>>
         /\ \/ Keys(Decoded(uri)) = {} /\ answer' = ErrorHandler
            \/ \E key \in Keys(Decoded(uri)), m \in Type :
                 key \in locations[m] /\ answer' = Handler(m, key)
<1>1. /\ stage = "ready" /\ request' = uri
      /\ UNCHANGED <<handler_types_, locations, stage, next>>
  BY DEF get_handler
<1>2. LocationsType /\ Decoded(uri) \in Str
  BY DecodedType DEF RouteInv, ConfigType
<1>3. CASE Keys(Decoded(uri)) = {} /\ answer' = ErrorHandler /\ UNCHANGED dispatcher
  BY <1>1, <1>3
<1>4. ASSUME NEW key \in Keys(Decoded(uri)), answer' = Find(key), Access(key)
      PROVE  /\ dispatcher' = dispatcher
             /\ \E m \in Type : key \in locations[m] /\ answer' = Handler(m, key)
  <2>1. PICK k \in Type : key \in locations[k]
    BY <1>2, KeysServe DEF Serves
  <2> QED
    BY <1>1, <1>4, <2>1, LocatedIsFound
<1> QED
  BY <1>1, <1>3, <1>4 DEF get_handler

\* The invariant of the map and the answer.
LEMMA GetHandlerInv ==
  ASSUME RouteInv, NEW uri \in Str, get_handler(uri)
  PROVE  RouteInv'
<1>1. /\ stage = "ready" /\ request' = uri
      /\ UNCHANGED <<handler_types_, locations, dispatcher, stage, next>>
      /\ \/ answer' = ErrorHandler
         \/ \E m \in Type : \E key \in locations[m] : answer' = Handler(m, key)
  BY GetHandler
<1>2. ConfigType' /\ Listed' /\ MapIsRight' /\ MapIsWhole' /\ NothingEarly'
  <2>1. ConfigType' /\ Listed'
    BY <1>1 DEF RouteInv, ConfigType, LocationsType, Listed
  <2>2. MapIsRight'
    BY <1>1 DEF RouteInv, MapIsRight, Located
  <2>3. MapIsWhole' /\ NothingEarly'
    BY <1>1 DEF RouteInv, MapIsWhole, NothingEarly
  <2> QED
    BY <2>1, <2>2, <2>3
<1>3. AnswerType'
  <2>1. <<>> \in Str
    BY EmptySeq DEF Str
  <2>2. Location \subseteq Str
    BY DispatcherAssumption DEF Str
  <2>3. \A m \in Type : locations[m] \subseteq Location
    BY DEF RouteInv, ConfigType, LocationsType
  <2> QED
    BY <1>1, <2>1, <2>2, <2>3 DEF AnswerType, ErrorHandler, Handler
<1> QED
  BY <1>2, <1>3 DEF RouteInv

\* The answer serves the URI.
LEMMA GetHandlerServes ==
  ASSUME RouteInv, NEW uri \in Str, get_handler(uri)
  PROVE  AnswerServes'
<1> DEFINE u == Decoded(uri)
<1>1. /\ request' = uri /\ UNCHANGED locations /\ LocationsType /\ u \in Str
  BY GetHandler, DecodedType DEF RouteInv, ConfigType
<1>2. SUFFICES ASSUME Unambiguous'
               PROVE  IF answer' = ErrorHandler THEN ~\E k \in Type, l \in Location : Serves(k, l, u)
                      ELSE Serves(answer'.type, answer'.location, u)
  BY <1>1 DEF AnswerServes, Serves
<1>3. CASE Keys(u) = {} /\ answer' = ErrorHandler
  BY <1>1, <1>3, NoKeyNoServer
<1>4. ASSUME NEW key \in Keys(u), NEW m \in Type,
             key \in locations[m], answer' = Handler(m, key)
      PROVE  answer' # ErrorHandler /\ Serves(answer'.type, answer'.location, u)
  <2>1. PICK k \in Type : Serves(k, key, u)
    BY <1>1, KeysServe
  <2>2. k = m
    BY <1>1, <1>2, <1>4, <2>1 DEF Unambiguous, Serves
  <2>3. answer'.type = m /\ answer'.location = key /\ ErrorHandler.type = "Error404"
    BY <1>4 DEF Handler, ErrorHandler
  <2> QED
    BY <2>1, <2>2, <2>3 DEF Type, ExactType
<1> QED
  BY <1>3, <1>4, GetHandler

\* It is the most specific one of the static handlers.
LEMMA GetHandlerSpecific ==
  ASSUME RouteInv, NEW uri \in Str, get_handler(uri)
  PROVE  MostSpecificStatic'
<1> DEFINE u == Decoded(uri)
<1>1. /\ request' = uri /\ UNCHANGED locations /\ LocationsType /\ u \in Str
  BY GetHandler, DecodedType DEF RouteInv, ConfigType
<1>2. SUFFICES ASSUME answer'.type = "StaticHandler",
                      NEW l \in locations["StaticHandler"], Serves("StaticHandler", l, u)
               PROVE  Len(l) <= Len(answer'.location)
  BY <1>1 DEF MostSpecificStatic, Serves
<1>3. PICK key \in Keys(u), m \in Type : answer' = Handler(m, key)
  BY <1>2, GetHandler DEF ErrorHandler, Handler
<1>4. answer'.location = key
  BY <1>3 DEF Handler
<1> QED
  BY <1>1, <1>2, <1>4, KeysServe

\* The static handler cuts off the location that was found.
LEMMA HandleBelow ==
  ASSUME RouteInv, NEW uri \in Str, Handle(uri), AnswerServes'
  PROVE  FileIsBelowLocation'
<1> DEFINE u == Decoded(uri)
           l == answer'.location
<1>1. request' = uri /\ UNCHANGED locations /\ u \in Str
  BY GetHandler, DecodedType DEF Handle
<1>2. SUFFICES ASSUME Handled("StaticHandler")', Unambiguous', u # l
               PROVE  l \o target' = u /\ Head(target') = "/"
  BY <1>1 DEF FileIsBelowLocation
<1>3. /\ stage' = "ready" /\ request' # <<>> /\ answer'.type = "StaticHandler"
      /\ answer' # ErrorHandler
  BY <1>2 DEF Handled, ErrorHandler, Handler
<1>4. Serves("StaticHandler", l, u)
  BY <1>1, <1>2, <1>3 DEF AnswerServes, Serves
<1>5. IsPrefix(l \o <<"/">>, u) /\ l \in locations["StaticHandler"]
  BY <1>2, <1>4 DEF Serves
<1>6. l \in Str
  BY <1>5, DispatcherAssumption DEF RouteInv, ConfigType, LocationsType, Type, Str
<1>7. target' = StaticPath(l, uri)
  BY <1>3 DEF Handle
<1>8. Contains(u, "/") /\ l \o Below(l, u) = u /\ Head(Below(l, u)) = "/"
  BY <1>1, <1>5, <1>6, BelowLocation
<1>9. StaticPath(l, uri) = Below(l, u)
  BY <1>2, <1>8 DEF StaticPath
<1> QED
  BY <1>7, <1>8, <1>9

LEMMA HandleInv ==
  ASSUME Inv, NEW uri \in Str, Handle(uri)
  PROVE  Inv'
<1>1. RouteInv /\ get_handler(uri)
  BY DEF Inv, Handle
<1> QED
  BY <1>1, GetHandlerInv, GetHandlerServes, GetHandlerSpecific, HandleBelow DEF Inv

\* A rewritten link is a string, and so is the URI that a browser makes of it.
LEMMA LinkType ==
  ASSUME NEW location \in Str, NEW link \in Link
  PROVE  handle_property(location, link) \in Str
<1>1. "/" \in Char /\ link \in Str
  BY DispatcherAssumption, RoutingAssumption DEF Str
<1>2. <<"/">> \in Str
  BY <1>1 DEF Str
<1>3. Slashed(link) \in Str
  BY <1>1, <1>2, ConcatProperties DEF Slashed, Str
<1> QED
  BY <1>3, ConcatProperties DEF handle_property, Str

LEMMA EncodedType ==
  ASSUME NEW path \in Str
  PROVE  Encoded(path) \in Str /\ Len(Encoded(path)) = Len(path)
<1>1. Len(path) \in Nat /\ DOMAIN path = 1..Len(path) /\ "%20" \in Char
  BY LenProperties, DispatcherAssumption DEF Str
<1>2. \A i \in 1..Len(path) : path[i] \in Char
  BY ElementOfSeq DEF Str
<1>3. Encoded(path) \in [1..Len(path) -> Char]
  BY <1>1, <1>2 DEF Encoded
<1>4. Encoded(path) \in Str
  BY <1>1, <1>3, SeqDef DEF Str
<1> QED
  BY <1>1, <1>3, <1>4, LenProperties DEF Str

LEMMA FollowLinkHandles ==
  ASSUME AnswerType, NEW link \in Link, FollowLink(link)
  PROVE  \E uri \in Str : Handle(uri)
<1>1. PICK path : path = handle_property(answer.location, link)
  OBVIOUS
<1>2. Encoded(path) \in Str
  BY <1>1, LinkType, EncodedType DEF AnswerType
<1>3. Handle(Encoded(path))
  BY <1>1 DEF FollowLink
<1> QED
  BY <1>2, <1>3

\* The status handler is looked up under a key that may be absent: then the
\* map gets a null pointer, and no location is lost.
LEMMA StatusInv == Inv /\ get_status_handler => Inv'
<1>1. SUFFICES ASSUME Inv, get_status_handler PROVE RouteInv'
  BY NoRequest DEF Inv, get_status_handler
<1> DEFINE keys == DOMAIN dispatcher \cup {StatusPath}
<1>2. /\ stage = "ready" /\ request' = <<>>
      /\ UNCHANGED <<handler_types_, locations, stage, next>>
      /\ dispatcher' = [l \in keys |-> Find(l)]
      /\ \/ answer' = Null
         \/ answer' = Find(StatusPath) /\ Find(StatusPath).type = "StatusHandler"
  BY <1>1 DEF get_status_handler, Access
<1>3. ConfigType' /\ Listed'
  BY <1>1, <1>2 DEF Inv, RouteInv, ConfigType, LocationsType, Listed
<1>4. \A l \in keys :
        \/ l \in DOMAIN dispatcher /\ Find(l) = dispatcher[l]
        \/ ~Located(l) /\ Find(l) = Null
  <2>1. \A k \in Type : locations[k] \subseteq DOMAIN dispatcher
    BY <1>1, <1>2 DEF Inv, RouteInv, MapIsWhole
  <2> QED
    BY <2>1 DEF Find, Located
<1>5. \A l \in keys :
        IF Located(l) THEN \E k \in Type : l \in locations[k] /\ Find(l) = Handler(k, l)
        ELSE Find(l) = Null
  BY <1>1, <1>4 DEF Inv, RouteInv, MapIsRight
<1>6. MapIsRight'
  <2>1. DOMAIN dispatcher' = keys /\ dispatcher' = [l \in DOMAIN dispatcher' |-> dispatcher'[l]]
        /\ \A l \in keys : dispatcher'[l] = Find(l)
    BY <1>2
  <2> QED
    BY <1>2, <1>5, <2>1 DEF MapIsRight, Located
<1>7. MapIsWhole' /\ NothingEarly'
  <2>1. DOMAIN dispatcher' = keys
    BY <1>2
  <2> QED
    BY <1>1, <1>2, <2>1 DEF Inv, RouteInv, MapIsWhole, NothingEarly
<1>8. AnswerType'
  <2>1. <<>> \in Str /\ Location \subseteq Str
    BY EmptySeq, DispatcherAssumption DEF Str
  <2>2. CASE answer' = Null
    BY <2>1, <2>2 DEF AnswerType, Null, Handler
  <2>3. CASE answer' = Find(StatusPath) /\ Find(StatusPath).type = "StatusHandler"
    <3>1. Find(StatusPath) # Null
      BY <2>3 DEF Null, Handler
    <3>2. PICK k \in Type : StatusPath \in locations[k] /\ Find(StatusPath) = Handler(k, StatusPath)
      BY <1>5, <3>1
    <3>3. StatusPath \in Str
      BY <1>1, <2>1, <3>2 DEF Inv, RouteInv, ConfigType, LocationsType
    <3> QED
      BY <2>3, <3>2, <3>3 DEF AnswerType, Handler
  <2> QED
    BY <1>2, <2>2, <2>3
<1> QED
  BY <1>3, <1>6, <1>7, <1>8 DEF RouteInv

LEMMA NextInv == Inv /\ [RoutingNext]_routingVars => Inv'
<1>1. ASSUME Inv, Prepare PROVE Inv'
  BY <1>1, SetupInv DEF Prepare
<1>2. ASSUME Inv, get_status_handler PROVE Inv'
  BY <1>2, StatusInv
<1>3. ASSUME Inv, NEW uri \in URI, Handle(uri) PROVE Inv'
  <2>1. uri \in Str
    BY DispatcherAssumption DEF Str
  <2> QED
    BY <1>3, <2>1, HandleInv
<1>4. ASSUME Inv, NEW link \in Link, FollowLink(link) PROVE Inv'
  <2>1. \E uri \in Str : Handle(uri)
    BY <1>4, FollowLinkHandles DEF Inv, RouteInv
  <2> QED
    BY <1>4, <2>1, HandleInv
<1>5. ASSUME Inv, UNCHANGED routingVars PROVE Inv'
  <2>1. RouteInv'
    BY <1>5 DEF Inv, RouteInv, ConfigType, LocationsType, Listed, MapIsRight, Located, MapIsWhole,
         NothingEarly, AnswerType, routingVars, vars
  <2>2. AnswerServes' /\ MostSpecificStatic' /\ FileIsBelowLocation'
    BY <1>5 DEF Inv, AnswerServes, MostSpecificStatic, FileIsBelowLocation, Handled, Unambiguous,
         Serves, routingVars, vars
  <2> QED
    BY <2>1, <2>2 DEF Inv
<1> QED
  BY <1>1, <1>2, <1>3, <1>4, <1>5 DEF RoutingNext

-----------------------------------------------------------------------------
(* What the proxy handler sends on, and links.                             *)

PathBegins ==
  server_location_path_ \in Str
    /\ (server_location_path_ # <<>> => Head(server_location_path_) = "/")

\* The last answer is the handler that the map has under its location, which
\* begins a decoded URI.
AnswerIsFound ==
  request # <<>> =>
    /\ Plain(answer.location)
    /\ answer # ErrorHandler =>
         /\ answer.type \in Type /\ answer.location \in locations[answer.type]
         /\ Find(answer.location) = answer

LinkInv == PathBegins /\ AnswerIsFound /\ ProxiedUriIsPath

LEMMA InitLinkInv == RoutingInit => LinkInv
<1>1. SUFFICES ASSUME RoutingInit PROVE LinkInv
  OBVIOUS
<1>2. server_location_path_ = <<>> /\ stage = "config" /\ request = <<>>
  BY <1>1 DEF RoutingInit, Init
<1>3. <<>> \in Str
  BY EmptySeq DEF Str
<1> QED
  BY <1>2, <1>3 DEF LinkInv, PathBegins, AnswerIsFound, ProxiedUriIsPath, Handled

\* Nothing is said before a request, nor after the status handler was looked up.
LEMMA NothingSent ==
  ASSUME request' = <<>>
  PROVE  (AnswerIsFound /\ ProxiedUriIsPath)'
BY DEF AnswerIsFound, ProxiedUriIsPath, Handled

\* A location that serves a URI begins it.
LEMMA ServesBegins ==
  ASSUME LocationsType, NEW u \in Str, NEW k \in Type, NEW l, Serves(k, l, u)
  PROVE  l \in Str /\ IsPrefix(l, u)
<1>1. l \in Str
  BY DispatcherAssumption DEF Serves, LocationsType, Str
<1>2. Len(l) \in Nat /\ Len(u) \in Nat
  BY <1>1, LenProperties DEF Str
<1>3. CASE l = u
  BY <1>1, <1>2, <1>3, PrefixByElement
<1>4. CASE IsPrefix(l \o <<"/">>, u)
  <2>1. Len(l) < Len(u) /\ SubSeq(u, 1, Len(l)) = l
    BY <1>1, <1>4, SlashAfter
  <2>2. Len(l) \in 0..Len(u)
    BY <1>2, <2>1
  <2>3. \A i \in 1..Len(l) : l[i] = u[i]
    BY <2>1, <2>2, BeginningOf
  <2> QED
    BY <1>1, <1>2, <2>1, <2>3, PrefixByElement
<1> QED
  BY <1>1, <1>3, <1>4 DEF Serves

\* A beginning of a decoded URI has no "%20", and if it has no space either the
\* URI begins with it as it is.
LEMMA BeginsDecoded ==
  ASSUME NEW uri \in Str, NEW l \in Str, IsPrefix(l, Decoded(uri))
  PROVE  /\ Plain(l)
         /\ ~Contains(l, " ") =>
              LET rest == SubSeq(uri, Len(l) + 1, Len(uri)) IN rest \in Str /\ uri = l \o rest
<1>1. /\ Decoded(uri) \in Str /\ Len(Decoded(uri)) = Len(uri)
      /\ Len(l) \in Nat /\ Len(uri) \in Nat /\ DOMAIN uri = 1..Len(uri)
  BY DecodedType, LenProperties DEF Str
<1>2. Len(l) <= Len(uri) /\ \A i \in 1..Len(l) : l[i] = Decoded(uri)[i]
  BY <1>1, PrefixByElement
<1>3. \A i \in 1..Len(l) : l[i] = IF uri[i] = "%20" THEN " " ELSE uri[i]
  <2>1. \A i \in 1..Len(l) : i \in DOMAIN uri
    BY <1>1, <1>2
  <2> QED
    BY <1>2, <2>1 DEF Decoded
<1>4. Plain(l)
  BY <1>3 DEF Plain
<1>5. ASSUME ~Contains(l, " ")
      PROVE  /\ SubSeq(uri, Len(l) + 1, Len(uri)) \in Str
             /\ uri = l \o SubSeq(uri, Len(l) + 1, Len(uri))
  <2>1. \A i \in 1..Len(l) : l[i] = uri[i]
    BY <1>3, <1>5 DEF Contains
  <2>2. Len(l) \in 0..Len(uri)
    BY <1>1, <1>2
  <2>3. SubSeq(uri, 1, Len(l)) = l
    BY <1>1, <2>1, <2>2, BeginningOf, SeqEqual DEF Str
  <2>4. SubSeq(uri, 1, Len(l)) \o SubSeq(uri, Len(l) + 1, Len(uri)) = SubSeq(uri, 1, Len(uri))
    <3>1. 1 \in 1..(Len(uri) + 1) /\ Len(l) \in (1 - 1)..Len(uri) /\ Len(uri) \in Len(l)..Len(uri)
      BY <1>1, <1>2
    <3> QED
      BY <3>1, ConcatAdjacentSubSeq, Zenon DEF Str
  <2>5. SubSeq(uri, Len(l) + 1, Len(uri)) \in Str
    <3>1. \A i \in Len(l) + 1..Len(uri) : uri[i] \in Char
      BY <1>1, ElementOfSeq DEF Str
    <3> QED
      BY <1>1, <3>1, SubSeqProperties DEF Str
  <2> QED
    BY <2>3, <2>4, <2>5, SubSeqFull DEF Str
<1> QED
  BY <1>4, <1>5

\* What is sent on of a URI that goes on with a slash, or not at all.
LEMMA SentOn ==
  ASSUME PathBegins, NEW l \in Str, NEW rest \in Str, Plain(l), rest = <<>> \/ Head(rest) = "/"
  PROVE  LET sent == ProxiedUri(l, l \o rest) IN
         /\ sent # <<>> /\ Head(sent) = "/"
         /\ rest # <<>> => sent = server_location_path_ \o Characters(rest)
<1> DEFINE p == server_location_path_
           c == Characters(rest)
<1>1. ProxiedUri(l, l \o rest) = IF p \o c = <<>> THEN <<"/">> ELSE p \o c
  BY CutCharacters DEF ProxiedUri
<1>2. p \in Seq(Sym) /\ c \in Seq(Sym)
  <2>1. Char \subseteq Sym
    BY DEF Sym
  <2> QED
    BY <2>1, CharactersType, SeqMonotonic DEF PathBegins, Str
<1>3. rest # <<>> => c # <<>> /\ Head(c) = "/"
  <2>1. SUFFICES ASSUME rest # <<>> PROVE c # <<>> /\ Head(c) = "/"
    OBVIOUS
  <2>2. Len(rest) \in Nat \ {0} /\ rest[1] = "/"
    BY <2>1, EmptySeq DEF Str
  <2>3. rest = <<"/">> \o SubSeq(rest, 2, Len(rest))
    <3>1. 1 \in 1..Len(rest) /\ Len(rest) \in 1..Len(rest) /\ 1 + 1 = 2
      BY <2>2
    <3>2. SubSeq(rest, 1, Len(rest)) = <<rest[1]>> \o SubSeq(rest, 1 + 1, Len(rest))
      BY <3>1, SubSeqRecursiveFirst DEF Str
    <3> QED
      BY <2>2, <3>1, <3>2, SubSeqFull DEF Str
  <2>4. SubSeq(rest, 2, Len(rest)) \in Str
    <3>1. \A i \in 2..Len(rest) : rest[i] \in Char
      BY <2>2, ElementOfSeq DEF Str
    <3> QED
      BY <2>2, <3>1, SubSeqProperties DEF Str
  <2>5. <<"/">> \in Str /\ Characters(<<"/">>) = <<"/">>
    <3>1. <<"/">> \in Str
      <4>1. "/" \in Char
        BY DispatcherAssumption
      <4> QED
        BY <4>1 DEF Str
    <3>2. Plain(<<"/">>)
      <4>1. Len(<<"/">>) = 1 /\ <<"/">>[1] = "/"
        OBVIOUS
      <4>2. \A i \in 1..1 : i = 1
        OBVIOUS
      <4> QED
        BY <4>1, <4>2 DEF Plain
    <3> QED
      BY <3>1, <3>2, CharactersPlain
  <2> DEFINE d == Characters(SubSeq(rest, 2, Len(rest)))
  <2>6. c = <<"/">> \o d
    BY <2>3, <2>4, <2>5, CharactersConcat, Zenon
  <2>7. d \in Seq(Sym) /\ <<"/">> \in Seq(Sym) /\ Len(<<"/">>) = 1 /\ <<"/">>[1] = "/"
    BY <2>4, <2>5, CharactersType
  <2> HIDE DEF c, d
  <2>8. Len(d) \in Nat /\ Len(c) = 1 + Len(d) /\ c[1] = "/"
    BY <2>6, <2>7, LenProperties, ConcatProperties
  <2> QED
    BY <1>2, <2>8, EmptySeq
<1> HIDE DEF p, c
<1>4. /\ p \o c \in Seq(Sym) /\ (p \o c = <<>> <=> p = <<>> /\ c = <<>>)
      /\ p # <<>> => Head(p \o c) = Head(p)
      /\ p = <<>> => p \o c = c
  <2>1. p \o c \in Seq(Sym) /\ (p \o c = <<>> <=> p = <<>> /\ c = <<>>)
    BY <1>2, ConcatProperties, ConcatEqualIffEmpty
  <2>2. ASSUME p # <<>> PROVE Head(p \o c) = Head(p)
    <3>1. Len(p) \in Nat \ {0} /\ Len(c) \in Nat
      BY <1>2, <2>2, EmptySeq, LenProperties
    <3>2. (p \o c)[1] = p[1]
      <4>1. 1 \in 1..Len(p) + Len(c) /\ 1 <= Len(p)
        BY <3>1
      <4> QED
        BY <1>2, <4>1, ConcatProperties
    <3> QED
      BY <1>2, <2>1, <2>2, <3>2
  <2> QED
    BY <1>2, <2>1, <2>2, ConcatEmptySeq
<1>5. p # <<>> => Head(p) = "/"
  BY DEF PathBegins, p
<1> DEFINE sent == ProxiedUri(l, l \o rest)
<1>6. sent # <<>> /\ Head(sent) = "/"
  <2>1. Head(<<"/">>) = "/" /\ <<"/">> # <<>>
    OBVIOUS
  <2>2. CASE p = <<>> /\ c = <<>>
    BY <1>1, <1>4, <2>1, <2>2
  <2>3. CASE p # <<>>
    <3>1. sent = p \o c
      BY <1>1, <1>4, <2>3
    <3> QED
      BY <1>4, <1>5, <2>3, <3>1
  <2>4. CASE p = <<>> /\ c # <<>>
    <3>1. sent = c /\ rest # <<>>
      <4>1. rest = <<>> => c = <<>>
        BY CharactersEmpty DEF c
      <4> QED
        BY <1>1, <1>4, <2>4, <4>1
    <3> QED
      BY <1>3, <3>1
  <2> QED
    BY <2>2, <2>3, <2>4
<1>7. rest # <<>> => sent = p \o c
  BY <1>1, <1>3, <1>4
<1> HIDE DEF sent
<1>8. rest # <<>> => sent = server_location_path_ \o Characters(rest)
  BY <1>7 DEF p, c
<1> QED
  BY <1>6, <1>8 DEF sent

\* The answer to a request is the handler under a location that begins it.
LEMMA HandleFound ==
  ASSUME RouteInv, NEW uri \in Str, Handle(uri)
  PROVE  /\ AnswerIsFound'
         /\ answer' # ErrorHandler => IsPrefix(answer'.location, Decoded(uri))
<1> DEFINE u == Decoded(uri)
<1>1. /\ request' = uri /\ UNCHANGED <<locations, dispatcher>> /\ LocationsType /\ u \in Str
  BY GetHandler, DecodedType DEF Handle, RouteInv, ConfigType
<1>2. CASE answer' = ErrorHandler
  <2>1. Len(<<>>) = 0 /\ answer'.location = <<>>
    BY <1>2, EmptySeq DEF ErrorHandler, Handler
  <2>2. Plain(answer'.location)
    BY <2>1 DEF Plain
  <2> QED
    BY <1>2, <2>2 DEF AnswerIsFound
<1>3. CASE answer' # ErrorHandler
  <2>1. PICK key \in Keys(u), m \in Type : key \in locations[m] /\ answer' = Handler(m, key)
    BY <1>3, GetHandler DEF Handle
  <2>2. PICK k \in Type : Serves(k, key, u)
    BY <1>1, <2>1, KeysServe
  <2>3. key \in Str /\ IsPrefix(key, u) /\ Plain(key)
    BY <1>1, <2>1, <2>2, ServesBegins, BeginsDecoded
  <2>4. answer'.type = m /\ answer'.location = key
    BY <2>1 DEF Handler
  <2>5. answer' = Find(key)
    <3>1. PICK other \in Keys(u) : answer' = Find(other) /\ Access(other)
      <4>1. CASE Keys(u) = {}
        BY <2>1, <4>1
      <4>2. CASE Keys(u) # {}
        BY <4>2 DEF Handle, get_handler
      <4> QED
        BY <4>1, <4>2
    <3>2. stage = "ready"
      BY GetHandler DEF Handle
    <3>3. PICK k1 \in Type : other \in locations[k1]
      BY <1>1, <3>1, KeysServe DEF Serves
    <3>4. PICK k2 \in Type : Find(other) = Handler(k2, other)
      BY <3>1, <3>2, <3>3, LocatedIsFound
    <3>5. other = key
      BY <2>4, <3>1, <3>4 DEF Handler
    <3> QED
      BY <3>1, <3>5
  <2>6. Find(key)' = Find(key)
    BY <1>1 DEF Find
  <2> QED
    BY <1>1, <2>1, <2>3, <2>4, <2>5, <2>6 DEF AnswerIsFound
<1> QED
  BY <1>2, <1>3

LEMMA HandleSendsPath ==
  ASSUME RouteInv, PathBegins, NEW uri \in Str, Handle(uri)
  PROVE  ProxiedUriIsPath'
<1> DEFINE l == answer'.location
           rest == SubSeq(uri, Len(l) + 1, Len(uri))
<1>1. request' = uri /\ UNCHANGED server_location_path_
  BY GetHandler DEF Handle
<1>2. SUFFICES ASSUME answer'.type = "ProxyHandler", ~Contains(l, " "),
                      rest = <<>> \/ Head(rest) = "/"
               PROVE  /\ target' # <<>> /\ Head(target') = "/"
                      /\ rest # <<>> => target' = server_location_path_ \o Characters(rest)
  BY <1>1 DEF ProxiedUriIsPath, Handled
<1>3. answer' # ErrorHandler /\ l \in Str
  <2>1. AnswerType'
    BY GetHandlerInv DEF Handle, RouteInv
  <2>2. l \in Str
    BY <2>1 DEF AnswerType
  <2>3. answer'.type = "ProxyHandler"
    BY <1>2
  <2> HIDE DEF l, rest
  <2>4. answer' # ErrorHandler
    BY <2>3 DEF ErrorHandler, Handler
  <2> QED
    BY <2>2, <2>4
<1>4. IsPrefix(l, Decoded(uri))
  BY <1>3, HandleFound
<1>5. Plain(l) /\ rest \in Str /\ uri = l \o rest
  BY <1>2, <1>3, <1>4, BeginsDecoded
<1>6. target' = ProxiedUri(l, uri)
  BY <1>2 DEF Handle
<1> HIDE DEF l, rest
<1>7. LET sent == ProxiedUri(l, l \o rest) IN
      /\ sent # <<>> /\ Head(sent) = "/"
      /\ rest # <<>> => sent = server_location_path_ \o Characters(rest)
  BY <1>2, <1>3, <1>5, SentOn
<1> QED
  BY <1>5, <1>6, <1>7

\* Encoding does nothing to a string without spaces, and goes part by part.
NoSpace(l) == ~Contains(l, " ")

LEMMA EncodedConcat ==
  ASSUME NEW l \in Str, NEW s \in Str, NoSpace(l)
  PROVE  Encoded(l \o s) = l \o Encoded(s)
<1> DEFINE n == Len(l)
           m == Len(s)
           t == l \o s
           e == Encoded(s)
           r == l \o e
<1>1. /\ t \in Str /\ Len(t) = n + m /\ n \in Nat /\ m \in Nat
      /\ \A i \in 1..n + m : t[i] = IF i <= n THEN l[i] ELSE s[i - n]
  BY ConcatProperties, LenProperties DEF Str
<1>2. DOMAIN s = 1..m /\ DOMAIN t = 1..Len(t)
  BY <1>1, LenProperties DEF Str
<1>3. Encoded(t) \in Str /\ Len(Encoded(t)) = Len(t) /\ e \in Str /\ Len(e) = m
  BY <1>1, EncodedType
<1>4. r \in Str /\ Len(r) = n + Len(e) /\ \A i \in 1..n + Len(e) : r[i] = IF i <= n THEN l[i] ELSE e[i - n]
  <2> HIDE DEF e
  <2> QED
    BY <1>3, ConcatProperties DEF Str
<1>5. /\ \A i \in DOMAIN t : Encoded(t)[i] = IF t[i] = " " THEN "%20" ELSE t[i]
      /\ \A i \in DOMAIN s : e[i] = IF s[i] = " " THEN "%20" ELSE s[i]
  BY DEF Encoded
<1>6. \A i \in 1..n : l[i] # " "
  BY DEF NoSpace, Contains
<1> HIDE DEF n, m, t, e, r
<1>7. ASSUME NEW i \in 1..n + m PROVE Encoded(t)[i] = r[i]
  <2>0. i \in Int /\ 1 <= i /\ i <= n + m /\ n \in Nat /\ m \in Nat
    BY <1>1
  <2>1. Encoded(t)[i] = IF t[i] = " " THEN "%20" ELSE t[i]
    BY <1>1, <1>2, <1>5
  <2>2. CASE i <= n
    <3>1. i \in 1..n
      BY <2>0, <2>2
    <3>2. t[i] = l[i] /\ r[i] = l[i]
      BY <1>1, <1>3, <1>4, <2>2
    <3> QED
      BY <1>6, <2>1, <3>1, <3>2
  <2>3. CASE ~(i <= n)
    <3>1. i - n \in 1..m
      BY <2>0, <2>3
    <3>2. t[i] = s[i - n] /\ r[i] = e[i - n]
      BY <1>1, <1>3, <1>4, <2>3
    <3> QED
      BY <1>2, <1>5, <2>1, <3>1, <3>2
  <2> QED
    BY <2>2, <2>3
<1>8. Len(Encoded(t)) = n + m /\ Len(r) = n + m
  BY <1>1, <1>3, <1>4
<1>9. Encoded(t) = r
  BY <1>3, <1>4, <1>7, <1>8, SeqEqual DEF Str
<1> QED
  BY <1>9 DEF t, e, r

\* A URI that goes on after a location is decoded part by part.
LEMMA DecodedBegins ==
  ASSUME NEW l \in Str, NEW s \in Str, Plain(l)
  PROVE  l \o s \in Str /\ IsPrefix(l, Decoded(l \o s))
<1> DEFINE n == Len(l)
           m == Len(s)
           t == l \o s
<1>1. /\ t \in Str /\ Len(t) = n + m /\ n \in Nat /\ m \in Nat
      /\ \A i \in 1..n + m : t[i] = IF i <= n THEN l[i] ELSE s[i - n]
  BY ConcatProperties, LenProperties DEF Str
<1>2. DOMAIN t = 1..Len(t)
  BY <1>1, LenProperties DEF Str
<1>3. Decoded(t) \in Str /\ Len(Decoded(t)) = Len(t)
  BY <1>1, DecodedType
<1>4. \A i \in DOMAIN t : Decoded(t)[i] = IF t[i] = "%20" THEN " " ELSE t[i]
  BY DEF Decoded
<1>5. \A i \in 1..n : l[i] # "%20"
  BY DEF Plain
<1> HIDE DEF t
<1>6. IsPrefix(l, Decoded(t)) <=> n <= Len(Decoded(t)) /\ \A i \in 1..n : l[i] = Decoded(t)[i]
  BY <1>3, PrefixByElement
<1> HIDE DEF n, m
<1>7. ASSUME NEW i \in 1..n PROVE l[i] = Decoded(t)[i]
  <2>1. i \in 1..n + m /\ i <= n
    BY <1>1
  <2> QED
    BY <1>1, <1>2, <1>4, <1>5, <2>1
<1>8. n <= Len(Decoded(t))
  BY <1>1, <1>3
<1> QED
  BY <1>1, <1>6, <1>7, <1>8 DEF t

\* What a link says begins with a slash.
LEMMA SlashedType ==
  ASSUME NEW link \in Link
  PROVE  /\ Slashed(link) \in Str /\ Encoded(Slashed(link)) \in Str
         /\ Encoded(Slashed(link)) # <<>> /\ Head(Encoded(Slashed(link))) = "/"
<1> DEFINE s == Slashed(link)
<1>1. link \in Str /\ <<"/">> \in Str /\ Len(<<"/">>) = 1 /\ <<"/">>[1] = "/"
  <2>1. "/" \in Char
    BY DispatcherAssumption
  <2> QED
    BY <2>1, RoutingAssumption DEF Str
<1>2. s \in Str /\ Len(s) \in Nat \ {0} /\ s[1] = "/"
  <2>1. CASE link = <<>> \/ Head(link) # "/"
    <3>1. s = <<"/">> \o link
      BY <2>1 DEF Slashed
    <3>2. Len(link) \in Nat /\ 1 \in 1..1 + Len(link)
      BY <1>1, LenProperties DEF Str
    <3> HIDE DEF s
    <3> QED
      BY <1>1, <3>1, <3>2, ConcatProperties DEF Str
  <2>2. CASE ~(link = <<>> \/ Head(link) # "/")
    <3>1. s = link /\ link # <<>> /\ Head(link) = "/"
      BY <2>2 DEF Slashed
    <3> HIDE DEF s
    <3> QED
      BY <1>1, <3>1, EmptySeq DEF Str
  <2> QED
    BY <2>1, <2>2
<1> HIDE DEF s
<1>3. Encoded(s) \in Str
  BY <1>2, EncodedType
<1>4. DOMAIN s = 1..Len(s) /\ 1 \in DOMAIN s
  BY <1>2, LenProperties DEF Str
<1>5. Encoded(s)[1] = "/" /\ DOMAIN Encoded(s) = DOMAIN s
  BY <1>2, <1>4 DEF Encoded
<1>6. Encoded(s) # <<>>
  <2>1. DOMAIN <<>> = {}
    BY EmptySeq, LenProperties
  <2> QED
    BY <1>4, <1>5, <2>1
<1> QED
  BY <1>2, <1>3, <1>5, <1>6 DEF s

\* A link leads back to the proxy whose page it is on.
LEMMA FollowLinkLeadsBack ==
  ASSUME RouteInv, LinkInv, NEW link \in Link, FollowLink(link), NoSpace(answer.location),
         \A k \in Type, o \in Location :
           Serves(k, o, Decoded(request')) => k = "ProxyHandler" /\ o = answer.location
  PROVE  answer' = answer /\ target' = server_location_path_ \o Characters(Encoded(Slashed(link)))
<1>0. PICK l \in Str : l = answer.location
  BY DEF RouteInv, AnswerType
<1> DEFINE s == Encoded(Slashed(link))
           u == Decoded(l \o s)
<1>1. /\ NoSpace(l)
      /\ \A k \in Type, o \in Location :
           Serves(k, o, Decoded(request')) => k = "ProxyHandler" /\ o = l
  BY <1>0
<1>2. /\ Plain(l) /\ answer.type = "ProxyHandler" /\ answer # ErrorHandler
      /\ l \in locations["ProxyHandler"] /\ Find(l) = answer
  <2>1. answer.type = "ProxyHandler" /\ request # <<>>
    BY DEF FollowLink
  <2>2. answer # ErrorHandler
    BY <2>1 DEF ErrorHandler, Handler
  <2> QED
    BY <1>0, <2>1, <2>2 DEF LinkInv, AnswerIsFound
<1>3. s \in Str /\ s # <<>> /\ Head(s) = "/" /\ Slashed(link) \in Str
  BY SlashedType
<1>4. Handle(l \o s)
  <2>1. Encoded(l \o Slashed(link)) = l \o s
    BY <1>1, <1>2, <1>3, EncodedConcat
  <2> QED
    BY <1>0, <2>1 DEF FollowLink, handle_property
<1>5. l \o s \in Str /\ IsPrefix(l, u) /\ u \in Str
  BY <1>2, <1>3, DecodedBegins, DecodedType
<1>6. /\ request' = l \o s /\ UNCHANGED <<locations, server_location_path_>> /\ LocationsType
      /\ \/ Keys(u) = {} /\ answer' = ErrorHandler
         \/ answer' # ErrorHandler
  <2>1. /\ request' = l \o s /\ UNCHANGED <<locations, server_location_path_>>
        /\ \/ Keys(u) = {} /\ answer' = ErrorHandler
           \/ \E key \in Keys(u), m \in Type : answer' = Handler(m, key)
    BY <1>4, <1>5, GetHandler DEF Handle
  <2> HIDE DEF s, u
  <2>2. \A m \in Type, key \in Keys(u) : Handler(m, key) # ErrorHandler
    BY DEF Handler, ErrorHandler, Type, ExactType
  <2> QED
    BY <2>1, <2>2 DEF RouteInv, ConfigType
<1> HIDE DEF s, u
<1>7. \A k \in Type, o \in Location : Serves(k, o, u) => k = "ProxyHandler" /\ o = l
  BY <1>1, <1>6 DEF Serves, u
<1>8. Serves("ProxyHandler", l, u)
  BY <1>2, <1>5 DEF Serves, Type
<1>9. answer' # ErrorHandler
  <2>1. l \in Location /\ "ProxyHandler" \in Type
    BY <1>2, <1>6 DEF LocationsType, Type
  <2> QED
    BY <1>5, <1>6, <1>8, <2>1, NoKeyNoServer
<1>10. answer' = Find(l)
  <2>1. PICK key \in Keys(u), m \in Type : key \in locations[m] /\ answer' = Handler(m, key)
    BY <1>4, <1>5, <1>9, GetHandler DEF Handle, u
  <2>2. PICK k \in Type : Serves(k, key, u)
    BY <1>5, <1>6, <2>1, KeysServe
  <2>3. key \in Location
    BY <1>6, <2>1 DEF LocationsType
  <2>4. key = l /\ answer'.location = key
    BY <1>7, <2>1, <2>2, <2>3 DEF Handler
  <2>5. AnswerIsFound' /\ request' # <<>>
    <3>1. l \o s # <<>>
      BY <1>2, <1>3, ConcatEqualIffEmpty DEF Str
    <3> QED
      BY <1>4, <1>5, <1>6, <3>1, HandleFound
  <2>6. Find(l)' = Find(l)
    BY <1>4, <1>5, GetHandler DEF Handle, Find
  <2> QED
    BY <1>9, <2>4, <2>5, <2>6 DEF AnswerIsFound
<1>11. answer' = answer
  BY <1>2, <1>10
<1>12. target' = ProxiedUri(l, l \o s)
  BY <1>0, <1>2, <1>4, <1>11 DEF Handle
<1>13. target' = server_location_path_ \o Characters(s)
  BY <1>2, <1>3, <1>12, SentOn DEF LinkInv
<1> QED
  BY <1>11, <1>13 DEF s

\* From the top of the server's own path handle_property rewrites a link to what
\* it names.
LEMMA SlashedIsNamed ==
  ASSUME NEW link \in Link, server_location_path_ \in Str, NamedFromTop(link)
  PROVE  server_location_path_ \o Characters(Encoded(Slashed(link))) = Named(link)
<1> DEFINE slash == <<"/">>
<1>1. slash \in Str /\ NoSpace(slash) /\ <<>> \in Str /\ link \in Str
  <2>1. slash \in Str
    <3>1. "/" \in Char
      BY DispatcherAssumption
    <3> QED
      BY <3>1 DEF Str
  <2>2. NoSpace(slash)
    <3>1. ASSUME NEW c, c # "/" PROVE ~Contains(slash, c)
      BY <3>1 DEF Contains
    <3>2. " " # "/"
      OBVIOUS
    <3> HIDE DEF slash
    <3> QED
      BY <3>1, <3>2, Zenon DEF NoSpace
  <2> QED
    BY <2>1, <2>2, EmptySeq, RoutingAssumption DEF Str
<1>2. /\ Encoded(link) \in Str /\ Encoded(<<>>) = <<>>
      /\ Encoded(slash \o link) = slash \o Encoded(link)
  <2>1. Encoded(<<>>) = <<>>
    BY <1>1, EncodedType, EmptySeq DEF Str
  <2> QED
    BY <1>1, <2>1, EncodedType, EncodedConcat
<1>3. Characters(slash) = slash /\ slash \in Seq(Sym)
  <2>1. slash = Append(<<>>, "/") /\ "/" \in Char /\ CharactersOf("/") = slash
    <3>1. "/" \in Char
      BY DispatcherAssumption
    <3> QED
      BY <3>1 DEF CharactersOf
  <2>2. Characters(slash) = <<>> \o slash
    BY <1>1, <2>1, CharactersAppend, CharactersEmpty
  <2>3. slash \in Seq(Sym)
    BY <2>1, CharactersOfType
  <2> HIDE DEF slash
  <2> QED
    BY <2>2, <2>3, ConcatEmptySeq
<1>4. Characters(Encoded(link)) \in Seq(Sym) /\ server_location_path_ \in Seq(Sym)
  <2>1. Char \subseteq Sym
    BY DEF Sym
  <2> QED
    BY <1>2, <2>1, CharactersType, SeqMonotonic DEF Str
<1>5. CASE link = <<>>
  <2>1. Slashed(link) = slash /\ Encoded(slash) = slash
    <3>1. Slashed(link) = slash \o <<>>
      BY <1>5 DEF Slashed
    <3>2. slash \o <<>> = slash
      BY <1>1, ConcatEmptySeq DEF Str
    <3> QED
      BY <1>2, <1>5, <3>1, <3>2
  <2> QED
    BY <1>3, <1>5, <2>1 DEF NamedFromTop, Named
<1>6. CASE link # <<>> /\ Head(link) = "/"
  <2>1. Slashed(link) = link /\ server_location_path_ = <<>>
    BY <1>6 DEF Slashed, NamedFromTop
  <2>2. Named(link) = Characters(Encoded(link))
    BY <1>6 DEF Named
  <2>3. <<>> \o Characters(Encoded(link)) = Characters(Encoded(link))
    BY <1>4, ConcatEmptySeq
  <2> QED
    BY <2>1, <2>2, <2>3
<1>7. CASE link # <<>> /\ Head(link) # "/"
  <2>1. Slashed(link) = slash \o link /\ Directory = server_location_path_ \o slash
    BY <1>7 DEF Slashed, NamedFromTop
  <2>2. Named(link) = Directory \o Characters(Encoded(link))
    BY <1>7 DEF Named
  <2> HIDE DEF slash
  <2>3. Characters(Encoded(Slashed(link))) = slash \o Characters(Encoded(link))
    <3>1. Encoded(Slashed(link)) = slash \o Encoded(link)
      BY <1>2, <2>1
    <3>2. Characters(slash \o Encoded(link)) = Characters(slash) \o Characters(Encoded(link))
      BY <1>1, <1>2, CharactersConcat
    <3> QED
      BY <1>3, <3>1, <3>2
  <2>4. (server_location_path_ \o slash) \o Characters(Encoded(link)) =
          server_location_path_ \o (slash \o Characters(Encoded(link)))
    BY <1>3, <1>4, ConcatAssociative
  <2> QED
    BY <2>1, <2>2, <2>3, <2>4
<1> QED
  BY <1>5, <1>6, <1>7

\* The path of the other server is kept without a slash at its end.
LEMMA PathOfServer ==
  ASSUME NEW p \in ServerPath
  PROVE  LET w == WithoutSlash(p) IN w \in Str /\ (w # <<>> => Head(w) = "/")
<1>1. p \in Str /\ (p # <<>> => Head(p) = "/")
  BY RoutingAssumption DEF Str
<1>2. CASE p # <<>> /\ Last(p) = "/"
  <2>1. Len(p) \in Nat \ {0} /\ Len(p) - 1 \in 0..Len(p)
    BY <1>1, <1>2, EmptySeq DEF Str
  <2>2. WithoutSlash(p) = SubSeq(p, 1, Len(p) - 1)
    BY <1>2 DEF WithoutSlash, Front
  <2>3. /\ SubSeq(p, 1, Len(p) - 1) \in Str /\ Len(SubSeq(p, 1, Len(p) - 1)) = Len(p) - 1
        /\ \A i \in 1..Len(p) - 1 : SubSeq(p, 1, Len(p) - 1)[i] = p[i]
    BY <1>1, <2>1, BeginningOf
  <2>4. SubSeq(p, 1, Len(p) - 1) # <<>> => Head(SubSeq(p, 1, Len(p) - 1)) = "/"
    <3> DEFINE w == SubSeq(p, 1, Len(p) - 1)
    <3>1. w \in Str /\ Len(w) = Len(p) - 1 /\ \A i \in 1..Len(p) - 1 : w[i] = p[i]
      BY <2>3
    <3> HIDE DEF w
    <3>2. ASSUME w # <<>> PROVE Head(w) = "/"
      <4>1. 1 \in 1..Len(p) - 1
        BY <2>1, <3>1, <3>2, EmptySeq DEF Str
      <4> QED
        BY <1>1, <1>2, <3>1, <3>2, <4>1 DEF Str
    <3> QED
      BY <3>2 DEF w
  <2> QED
    BY <2>2, <2>3, <2>4
<1>3. CASE ~(p # <<>> /\ Last(p) = "/")
  BY <1>1, <1>3 DEF WithoutSlash
<1> QED
  BY <1>2, <1>3

LEMMA NextLinkInv == Inv /\ LinkInv /\ [RoutingNext]_routingVars => LinkInv'
<1>1. ASSUME Inv, LinkInv, Prepare PROVE LinkInv'
  <2>1. request' = <<>>
    BY <1>1 DEF Inv, RouteInv, NothingEarly, Prepare, Setup, AddLocation, Construct,
         create_handler_mapping, Ready
  <2>2. PathBegins'
    <3>1. \/ server_location_path_' = server_location_path_
          \/ \E p \in ServerPath : server_location_path_' = WithoutSlash(p)
      BY <1>1 DEF Prepare
    <3> QED
      BY <1>1, <3>1, PathOfServer DEF LinkInv, PathBegins
  <2> QED
    BY <2>1, <2>2, NothingSent DEF LinkInv
<1>2. ASSUME Inv, LinkInv, get_status_handler, UNCHANGED server_location_path_ PROVE LinkInv'
  BY <1>2, NothingSent DEF LinkInv, PathBegins, get_status_handler
<1>3. ASSUME Inv, LinkInv, NEW uri \in Str, Handle(uri)
      PROVE  PathBegins' /\ AnswerIsFound' /\ ProxiedUriIsPath'
  BY <1>3, HandleFound, HandleSendsPath DEF Inv, LinkInv, PathBegins, Handle
<1>4. ASSUME Inv, LinkInv, NEW uri \in URI, Handle(uri) PROVE LinkInv'
  <2>1. uri \in Str
    BY DispatcherAssumption DEF Str
  <2> QED
    BY <1>3, <1>4, <2>1 DEF LinkInv
<1>5. ASSUME Inv, LinkInv, NEW link \in Link, FollowLink(link) PROVE LinkInv'
  <2>1. PICK uri \in Str : Handle(uri)
    BY <1>5, FollowLinkHandles DEF Inv, RouteInv
  <2> QED
    BY <1>3, <1>5, <2>1 DEF LinkInv
<1>6. ASSUME LinkInv, UNCHANGED routingVars PROVE LinkInv'
  <2>1. PathBegins' /\ AnswerIsFound'
    BY <1>6 DEF LinkInv, PathBegins, AnswerIsFound, Find, routingVars, vars
  <2>2. ProxiedUriIsPath'
    BY <1>6 DEF LinkInv, ProxiedUriIsPath, Handled, routingVars, vars
  <2> QED
    BY <2>1, <2>2 DEF LinkInv
<1> QED
  BY <1>1, <1>2, <1>4, <1>5, <1>6 DEF RoutingNext

-----------------------------------------------------------------------------
\* The map of the dispatcher is right and whole once the server runs, for any
\* number of location blocks of any types.
THEOREM RoutingInvariant == RoutingSpec => []Inv
<1>1. RoutingInit => Inv
  BY InitInv
<1>2. Inv /\ [RoutingNext]_routingVars => Inv'
  BY NextInv
<1> QED
  BY <1>1, <1>2, PTL DEF RoutingSpec

\* request_dispatcher::get_handler gives a request to a handler whose location
\* serves its URI, and to the 404 handler only if there is none.
THEOREM AnswersServeTheirURI == RoutingSpec => []AnswerServes
<1>1. Inv => AnswerServes
  BY DEF Inv
<1> QED
  BY <1>1, RoutingInvariant, PTL

\* longest_prefix_match: of nested static locations the most specific one
\* serves a URI.
THEOREM StaticIsMostSpecific == RoutingSpec => []MostSpecificStatic
<1>1. Inv => MostSpecificStatic
  BY DEF Inv
<1> QED
  BY <1>1, RoutingInvariant, PTL

\* static_request_handler::handle_request cuts off exactly the location that
\* the dispatcher found.
THEOREM FilesAreBelowTheirLocation == RoutingSpec => []FileIsBelowLocation
<1>1. Inv => FileIsBelowLocation
  BY DEF Inv
<1> QED
  BY <1>1, RoutingInvariant, PTL

\* An answer is the handler that the map has under a location that begins the
\* decoded URI, and the path of the other server is empty or absolute.
THEOREM LinkInvariant == RoutingSpec => []LinkInv
<1>1. RoutingInit => LinkInv
  BY InitLinkInv
<1>2. Inv /\ LinkInv /\ [RoutingNext]_routingVars => LinkInv'
  BY NextLinkInv
<1> QED
  BY <1>1, <1>2, RoutingInvariant, PTL DEF RoutingSpec

\* proxy_request_handler::handle_request sends on an absolute path: what
\* follows the location in the URI, below the server's own path.
THEOREM ProxiedURIsArePaths == RoutingSpec => []ProxiedUriIsPath
<1>1. LinkInv => ProxiedUriIsPath
  BY DEF LinkInv
<1> QED
  BY <1>1, LinkInvariant, PTL

\* A link that handle_property has rewritten leads back to the proxy whose page
\* it is on, and from there to the uri that it names there, if that is one of the
\* links that it can rewrite rightly: see NamedFromTop.
THEOREM RewrittenLinksLeadBack == RoutingSpec => LinksLeadBack
<1>1. ASSUME Inv, LinkInv, NEW link \in Link, FollowLink(link), NamedFromTop(link),
             ~Contains(answer.location, " "),
             \A k \in Type, l \in Location :
               Serves(k, l, Decoded(request')) => k = "ProxyHandler" /\ l = answer.location
      PROVE  answer' = answer /\ target' = Named(link)
  <2>1. answer' = answer /\ target' = server_location_path_ \o Characters(Encoded(Slashed(link)))
    <3>1. NoSpace(answer.location)
      BY <1>1, Zenon DEF NoSpace
    <3> QED
      BY <1>1, <3>1, FollowLinkLeadsBack, Zenon DEF Inv
  <2>2. server_location_path_ \o Characters(Encoded(Slashed(link))) = Named(link)
    BY <1>1, SlashedIsNamed DEF LinkInv, PathBegins
  <2> QED
    BY <2>1, <2>2
<1>2. Inv /\ LinkInv =>
        [\A link \in Link :
           /\ FollowLink(link) /\ NamedFromTop(link) /\ ~Contains(answer.location, " ")
           /\ \A k \in Type, l \in Location :
                Serves(k, l, Decoded(request')) => k = "ProxyHandler" /\ l = answer.location
           => answer' = answer /\ target' = Named(link)]_routingVars
  BY <1>1
<1> QED
  BY <1>2, RoutingInvariant, LinkInvariant, PTL DEF RoutingSpec, LinksLeadBack

\* Once the server runs, no lookup writes the map that the threads share
\* without a lock, if the status handler is at the path that session asks for.
THEOREM SharedMapIsOnlyRead == RoutingSpec => LookupsDoNotWrite
<1> DEFINE Guard == stage = "ready" /\ (status_handler_enabled => StatusPath \in locations["StatusHandler"])
<1>1. ASSUME Inv, [RoutingNext]_routingVars
      PROVE  [Guard => dispatcher' = dispatcher]_vars
  <2>1. CASE UNCHANGED routingVars
    BY <2>1 DEF routingVars
  <2>2. CASE Prepare
    BY <2>2 DEF Prepare, Setup, AddLocation, Construct, create_handler_mapping, Ready
  <2>3. CASE get_status_handler
    <3>1. SUFFICES ASSUME Guard PROVE dispatcher' = dispatcher
      OBVIOUS
    <3>2. /\ RouteInv /\ stage = "ready" /\ StatusPath \in locations["StatusHandler"]
          /\ Access(StatusPath)
      BY <1>1, <2>3, <3>1 DEF Inv, get_status_handler
    <3> QED
      BY <3>2, LocatedIsFound DEF Type, ExactType
  <2>4. ASSUME NEW uri \in Str, Handle(uri) PROVE dispatcher' = dispatcher
    BY <1>1, <2>4, GetHandler DEF Inv, Handle
  <2>5. ASSUME NEW uri \in URI, Handle(uri) PROVE dispatcher' = dispatcher
    <3>1. uri \in Str
      BY DispatcherAssumption DEF Str
    <3> QED
      BY <2>4, <2>5, <3>1
  <2>6. ASSUME NEW link \in Link, FollowLink(link) PROVE dispatcher' = dispatcher
    <3>1. \E uri \in Str : Handle(uri)
      BY <1>1, <2>6, FollowLinkHandles DEF Inv, RouteInv
    <3> QED
      BY <2>4, <3>1
  <2> QED
    BY <1>1, <2>1, <2>2, <2>3, <2>5, <2>6 DEF RoutingNext
<1> QED
  BY <1>1, RoutingInvariant, PTL DEF RoutingSpec, LookupsDoNotWrite
=============================================================================
