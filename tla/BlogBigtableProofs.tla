------------------------- MODULE BlogBigtableProofs -------------------------
(***************************************************************************)
(* Proofs about BlogBigtable, for any number of threads and calls, over    *)
(* every failure of a read or a write: which row keys are handed out.      *)
(* MaxKey stops no whole read of a table without gaps from 11 on: such an  *)
(* insert never chooses a key after 10.                                    *)
(***************************************************************************)
EXTENDS BlogBigtable, WellFoundedInduction, TLAPS

TypeOK ==
  /\ posts \in [Key -> Post \cup {NoPost}]
  /\ mtx_ \in Thread \cup {NoThread}
  /\ pc \in [Thread -> {"idle", "lock", "exec", "apply", "unlock", "return", "ended"}]
  /\ call \in [Thread -> Call \cup {NoCall}]
  /\ postid \in [Thread -> Int]
  /\ whole \in [Thread -> BOOLEAN]

\* The thread between lock and unlock holds the mutex.
Holder == \A t \in Thread : pc[t] \in {"exec", "apply", "unlock"} => mtx_ = t

\* A key that a whole read chose is still the next one when the row is written.
ChosenIsNext ==
  \A t \in Thread : pc[t] = "apply" =>
    /\ whole[t] => postid[t] = NextId(Stored)
    /\ postid[t] \in Key /\ call[t].op = "insert_blog"

\* The inductive invariant.
Inv == TypeOK /\ Holder /\ ChosenIsNext

-----------------------------------------------------------------------------
(* The order of the row keys.                                              *)

\* The two characters of a key, and its place among the numerals of two at most.
First(k) == IF k < 0 THEN -1 ELSE IF k < 10 THEN k ELSE k \div 10
Second(k) == IF k < 0 THEN 1 ELSE IF k < 10 THEN -1 ELSE k % 10
Rank(k) == IF k < 0 THEN -10 ELSE IF k < 10 THEN 11 * k - 1 ELSE k + (k \div 10)

LEMMA KeyCharacters ==
  ASSUME NEW k \in -1..99
  PROVE  /\ RowKey(k)[1] = First(k) /\ RowKey(k)[2] = Second(k)
         /\ First(k) \in -1..9 /\ Second(k) \in -1..9
         /\ Rank(k) = 11 * First(k) + Second(k)
         /\ \/ k = -1 /\ First(k) = -1
            \/ k = First(k) /\ First(k) > -1 /\ Second(k) = -1
            \/ k = 10 * First(k) + Second(k) /\ First(k) > 0 /\ Second(k) > -1
<1>1. CASE k = -1
  <2>1. RowKey(k) = <<-1, 1>> /\ First(k) = -1 /\ Second(k) = 1 /\ Rank(k) = -10
    BY <1>1 DEF RowKey, First, Second, Rank
  <2>2. \A r : r = <<-1, 1>> => r[1] = -1 /\ r[2] = 1
    OBVIOUS
  <2> QED
    BY <1>1, <2>1, <2>2
<1>2. CASE k \in 0..9
  <2>1. RowKey(k) = <<k, -1>> /\ First(k) = k /\ Second(k) = -1 /\ Rank(k) = 11 * k - 1
    BY <1>2 DEF RowKey, First, Second, Rank
  <2>2. \A r : r = <<k, -1>> => r[1] = k /\ r[2] = -1
    OBVIOUS
  <2> QED
    BY <1>2, <2>1, <2>2
<1>3. CASE k \in 10..99
  <2>1. PICK d \in 1..9, e \in 0..9 : d = k \div 10 /\ e = k % 10 /\ k = 10 * d + e
    <3>1. k \div 10 \in 1..9 /\ k % 10 \in 0..9 /\ k = 10 * (k \div 10) + (k % 10)
      BY <1>3
    <3> QED
      BY <3>1
  <2>2. RowKey(k) = <<d, e>> /\ First(k) = d /\ Second(k) = e /\ Rank(k) = k + d
    BY <1>3, <2>1 DEF RowKey, First, Second, Rank
  <2>3. \A r : r = <<d, e>> => r[1] = d /\ r[2] = e
    OBVIOUS
  <2> QED
    BY <2>1, <2>2, <2>3
<1> QED
  BY <1>1, <1>2, <1>3

LEMMA KeyOrder ==
  ASSUME NEW a \in -1..99, NEW b \in -1..99
  PROVE  /\ KeyBefore(a, b) <=> Rank(a) < Rank(b)
         /\ Rank(a) = Rank(b) => a = b
         /\ Rank(a) \in -12..109
<1>1. KeyBefore(a, b) <=>
        (First(a) < First(b) \/ (First(a) = First(b) /\ Second(a) < Second(b)))
  <2>1. /\ RowKey(a)[1] = First(a) /\ RowKey(a)[2] = Second(a)
        /\ RowKey(b)[1] = First(b) /\ RowKey(b)[2] = Second(b)
    BY KeyCharacters
  <2> QED
    BY <2>1, Zenon DEF KeyBefore
<1>2. /\ First(a) \in -1..9 /\ Second(a) \in -1..9 /\ Rank(a) = 11 * First(a) + Second(a)
      /\ First(b) \in -1..9 /\ Second(b) \in -1..9 /\ Rank(b) = 11 * First(b) + Second(b)
  BY KeyCharacters
<1>3. KeyBefore(a, b) <=> Rank(a) < Rank(b)
  BY <1>1, <1>2
<1>4. Rank(a) = Rank(b) => First(a) = First(b) /\ Second(a) = Second(b)
  BY <1>2
<1>5. Rank(a) = Rank(b) => a = b
  <2> DEFINE Is(k) == \/ k = -1 /\ First(k) = -1
                      \/ k = First(k) /\ First(k) > -1 /\ Second(k) = -1
                      \/ k = 10 * First(k) + Second(k) /\ First(k) > 0 /\ Second(k) > -1
  <2>1. Is(a) /\ Is(b)
    BY KeyCharacters
  <2> QED
    BY <1>2, <1>4, <2>1
<1>6. Rank(a) \in -12..109
  BY <1>2
<1> QED
  BY <1>3, <1>5, <1>6

\* The key that comes after all others is the only one that does.
LEMMA NextIsAfter ==
  ASSUME NEW S \in SUBSET (-1..99), NEW last \in S,
         \A j \in S : Rank(j) <= Rank(last)
  PROVE  NextId(S) = 1 + last
<1>1. ASSUME NEW j \in S, j # last PROVE KeyBefore(j, last) /\ ~KeyBefore(last, j)
  <2>1. j \in -1..99 /\ last \in -1..99 /\ Rank(j) <= Rank(last)
    OBVIOUS
  <2>2. Rank(j) \in -12..109 /\ Rank(last) \in -12..109
    BY <2>1, KeyOrder
  <2>3. Rank(j) # Rank(last)
    BY <1>1, <2>1, KeyOrder
  <2>4. Rank(j) < Rank(last) /\ ~(Rank(last) < Rank(j))
    BY <2>1, <2>2, <2>3
  <2> QED
    BY <2>1, <2>4, KeyOrder
<1>2. \A j \in S \ {last} : KeyBefore(j, last)
  BY <1>1
<1>3. \A k \in S : (\A j \in S \ {k} : KeyBefore(j, k)) => k = last
  BY <1>1
<1>4. (CHOOSE k \in S : \A j \in S \ {k} : KeyBefore(j, k)) = last
  BY <1>2, <1>3
<1>5. S # {}
  OBVIOUS
<1> QED
  BY <1>4, <1>5 DEF NextId

\* insert_blog takes the key that comes last for the latest one: of 10 keys or
\* less that is the largest, and of 11 it is the key before.
LEMMA NextOfContiguous ==
  ASSUME NEW n \in -2..10
  PROVE  NextId(-1..n) = IF n = 10 THEN 10 ELSE n + 1
<1>1. CASE n = -2
  <2>1. -1..n = {}
    BY <1>1
  <2> QED
    BY <1>1, <2>1 DEF NextId
<1>2. CASE n # -2
  <2> DEFINE last == IF n = 10 THEN 9 ELSE n
  <2>1. last \in -1..n /\ -1..n \subseteq -1..99
    BY <1>2
  <2>2. \A j \in -1..n : Rank(j) <= Rank(last)
    <3>1. 10 \div 10 = 1 /\ 10 % 10 = 0
      OBVIOUS
    <3> QED
      BY <1>2, <3>1 DEF Rank
  <2> HIDE DEF last
  <2>3. NextId(-1..n) = 1 + last
    BY <2>1, <2>2, NextIsAfter
  <2> QED
    BY <2>3, <1>2 DEF last
<1> QED
  BY <1>1, <1>2

\* A set of keys has one that comes last.
LEMMA LastExists ==
  ASSUME NEW S \in SUBSET (-1..99), S # {}
  PROVE  \E last \in S : \A j \in S : Rank(j) <= Rank(last)
<1> DEFINE Less == {p \in Nat \X Nat : p[1] < p[2]}
           T == {109 - Rank(k) : k \in S}
<1>1. IsWellFoundedOn(Less, Nat)
  BY NatLessThanWellFounded DEF OpToRel
<1>2. \A k \in S : Rank(k) \in -12..109
  BY KeyOrder
<1>3. T \subseteq Nat /\ T # {}
  <2>1. \A k \in S : 109 - Rank(k) \in Nat
    BY <1>2
  <2> QED
    BY <2>1
<1>4. PICK x \in T : \A y \in T : ~(<<y, x>> \in Less)
  <2> HIDE DEF Less, T
  <2> QED
    BY <1>1, <1>3, WFMin
<1>5. PICK last \in S : x = 109 - Rank(last)
  OBVIOUS
<1>6. ASSUME NEW j \in S PROVE Rank(j) <= Rank(last)
  <2>1. 109 - Rank(j) \in T /\ 109 - Rank(j) \in Nat /\ x \in Nat
    BY <1>3
  <2>2. ~(109 - Rank(j) < x)
    BY <1>4, <2>1
  <2> HIDE DEF Less, T
  <2>3. Rank(j) \in -12..109 /\ Rank(last) \in -12..109
    BY <1>2
  <2> QED
    BY <1>5, <2>2, <2>3
<1> QED
  BY <1>6

\* The key chosen is in use only if it is 10, which comes before 9.
LEMMA NextIsFreeOrTen ==
  ASSUME NEW S \in SUBSET (-1..99), NextId(S) \in S
  PROVE  NextId(S) = 10
<1>1. PICK last \in S : \A j \in S : Rank(j) <= Rank(last)
  BY LastExists
<1>2. NextId(S) = 1 + last
  BY <1>1, NextIsAfter
<1>3. Rank(1 + last) <= Rank(last) /\ last \in -1..99 /\ 1 + last \in -1..99
  BY <1>1, <1>2
<1>4. CASE last < 9
  BY <1>3, <1>4 DEF Rank
<1>5. CASE last > 9
  <2>1. Rank(last) = last + (last \div 10) /\ Rank(1 + last) = 1 + last + ((1 + last) \div 10)
    BY <1>3, <1>5 DEF Rank
  <2>2. last \div 10 \in Int /\ (1 + last) \div 10 \in Int /\ last \div 10 <= (1 + last) \div 10
    BY <1>3
  <2> QED
    BY <1>3, <2>1, <2>2
<1> QED
  BY <1>2, <1>3, <1>4, <1>5

-----------------------------------------------------------------------------
(* The steps.                                                              *)

\* What a step does to the rows, unless it writes for an insert that a failed
\* read has misled.
GapFree == Contiguous /\ (\A t \in Thread : ~Misled(t)) => Contiguous'
Keeps == \A k \in Stored \ {10} :
           posts'[k] = posts[k] \/ \E t \in Thread : Misled(t) /\ postid[t] = k

\* Writing a post under the key that was chosen, or not.
LEMMA WriteNext ==
  ASSUME Inv, NEW t \in Thread, pc[t] = "apply",
         posts' = [posts EXCEPT ![postid[t]] = call[t].post] \/ UNCHANGED posts
  PROVE  posts' \in [Key -> Post \cup {NoPost}] /\ GapFree /\ Keeps
<1> USE DEF Inv, TypeOK
<1>1. CASE UNCHANGED posts
  BY <1>1 DEF GapFree, Keeps, Contiguous, Stored
<1>2. CASE posts' = [posts EXCEPT ![postid[t]] = call[t].post]
  <2>1. postid[t] \in Key /\ call[t].post \in Post
    <3>1. call[t] \in Call \cup {NoCall} /\ call[t].op = "insert_blog" /\ postid[t] \in Key
      BY DEF ChosenIsNext
    <3> QED
      BY <3>1 DEF Call, NoCall
  <2>2. posts' \in [Key -> Post \cup {NoPost}]
    BY <1>2, <2>1
  <2>3. \A k \in Key : posts'[k] = IF k = postid[t] THEN call[t].post ELSE posts[k]
    BY <1>2, <2>1
  <2>4. Stored' = Stored \cup {postid[t]}
    BY <2>1, <2>3, BigtableAssumption DEF Stored
  <2>5. GapFree
    <3> SUFFICES ASSUME Contiguous, \A u \in Thread : ~Misled(u) PROVE Contiguous'
      BY DEF GapFree
    <3>1. PICK n \in -2..10 : Stored = -1..n
      BY DEF Contiguous
    <3>2. postid[t] = NextId(Stored)
      BY DEF Misled, ChosenIsNext
    <3>3. postid[t] = IF n = 10 THEN 10 ELSE n + 1
      BY <3>1, <3>2, NextOfContiguous
    <3>4. Stored' = -1..(IF n = 10 THEN 10 ELSE n + 1)
      BY <3>1, <3>3, <2>4
    <3>5. (IF n = 10 THEN 10 ELSE n + 1) \in -2..10
      OBVIOUS
    <3> QED
      BY <3>4, <3>5 DEF Contiguous
  <2>6. Keeps
    <3> SUFFICES ASSUME NEW k \in Stored \ {10}, posts'[k] # posts[k]
                 PROVE  Misled(t) /\ postid[t] = k
      BY DEF Keeps
    <3>1. k = postid[t] /\ k \in Stored
      BY <2>3 DEF Stored
    <3>2. Stored \subseteq -1..99
      <4>1. \A n \in Key : n \in -1..99
        BY BigtableAssumption DEF Key
      <4> QED
        BY <4>1 DEF Stored
    <3>3. ~(whole[t] /\ postid[t] = NextId(Stored))
      <4>1. k # 10 /\ Stored \in SUBSET (-1..99)
        BY <3>2
      <4> QED
        BY <3>1, <4>1, NextIsFreeOrTen
    <3>4. ~whole[t]
      BY <3>3 DEF ChosenIsNext
    <3> QED
      BY <3>1, <3>4 DEF Misled
  <2> QED
    BY <2>2, <2>5, <2>6
<1> QED
  BY <1>1, <1>2

\* A step that leaves the rows alone.
LEMMA RowsKept ==
  ASSUME UNCHANGED posts
  PROVE  GapFree /\ Keeps /\ Stored' = Stored /\ NextId(Stored)' = NextId(Stored)
BY DEF GapFree, Keeps, Contiguous, Stored, NextId

\* A step of t that leaves the rows alone and chooses nothing.
LEMMA StillNext ==
  ASSUME ChosenIsNext, NEW t \in Thread, UNCHANGED posts, pc'[t] # "apply",
         \A u \in Thread \ {t} : /\ pc'[u] = pc[u] /\ postid'[u] = postid[u]
                                /\ call'[u] = call[u] /\ whole'[u] = whole[u]
  PROVE  ChosenIsNext' /\ GapFree /\ Keeps
BY RowsKept DEF ChosenIsNext

\* Every step keeps the invariant, leaves no gap and overwrites nothing else.
LEMMA NextInv ==
  ASSUME Inv, [Next]_vars
  PROVE  Inv' /\ GapFree /\ Keeps
<1> USE DEF Inv, TypeOK
<1>1. ASSUME NEW t \in Thread, Invoke(t) PROVE Inv' /\ GapFree /\ Keeps
  <2>1. TypeOK' /\ Holder'
    BY <1>1 DEF Invoke, Step, Holder
  <2> QED
    BY <1>1, <2>1, StillNext DEF Invoke, Step
<1>2. ASSUME NEW t \in Thread, Lock(t) PROVE Inv' /\ GapFree /\ Keeps
  <2>1. TypeOK'
    BY <1>2 DEF Lock, Step
  <2>2. Holder'
    BY <1>2, BigtableAssumption DEF Lock, Step, Holder
  <2> QED
    BY <1>2, <2>1, <2>2, StillNext DEF Lock, Step
<1>3. ASSUME NEW t \in Thread, ReadLast(t) \/ ReadLastMisreads(t)
      PROVE  Inv' /\ GapFree /\ Keeps
  <2>1. /\ Step(t, "exec", "apply") /\ call[t].op = "insert_blog"
        /\ UNCHANGED <<posts, mtx_, call>>
    BY <1>3 DEF ReadLast, ReadLastMisreads
  <2>2. PICK n \in Key, w \in BOOLEAN :
          /\ postid' = [postid EXCEPT ![t] = n] /\ whole' = [whole EXCEPT ![t] = w]
          /\ whole'[t] => n = NextId(Stored)
    <3>1. CASE ReadLast(t)
      <4>1. whole' = [whole EXCEPT ![t] = whole[t]]
        BY <3>1 DEF ReadLast
      <4> QED
        BY <3>1, <4>1 DEF ReadLast
    <3>2. CASE ReadLastMisreads(t)
      BY <3>2 DEF ReadLastMisreads
    <3> QED
      BY <1>3, <3>1, <3>2
  <2>3. n \in Int
    BY BigtableAssumption DEF Key
  <2>4. TypeOK' /\ Holder'
    BY <2>1, <2>2, <2>3 DEF Step, Holder
  <2>5. \A u \in Thread \ {t} : pc'[u] # "apply"
    BY <2>1 DEF Step, Holder
  <2>6. ChosenIsNext'
    BY <2>1, <2>2, <2>5, RowsKept DEF ChosenIsNext
  <2> QED
    BY <2>1, <2>4, <2>6, RowsKept
<1>4. ASSUME NEW t \in Thread,
             ReadLastThrows(t) \/ GetBlog(t) \/ GetBlogFails(t) \/ GetAllBlogs(t)
      PROVE  Inv' /\ GapFree /\ Keeps
  <2>1. Step(t, "exec", "unlock") /\ UNCHANGED <<posts, mtx_, call, postid, whole, calls>>
    BY <1>4 DEF ReadLastThrows, GetBlog, GetBlogFails, GetAllBlogs
  <2>2. TypeOK' /\ Holder'
    BY <2>1 DEF Step, Holder
  <2> QED
    BY <2>1, <2>2, StillNext DEF Step
<1>5. ASSUME NEW t \in Thread, ReadLastEnds(t) PROVE Inv' /\ GapFree /\ Keeps
  <2>1. TypeOK' /\ Holder' /\ ChosenIsNext'
    BY <1>5 DEF ReadLastEnds, Holder, ChosenIsNext
  <2> QED
    BY <1>5, <2>1, RowsKept DEF ReadLastEnds
<1>6. ASSUME NEW t \in Thread, Apply(t) \/ ApplyFails(t) PROVE Inv' /\ GapFree /\ Keeps
  <2>1. /\ Step(t, "apply", "unlock") /\ UNCHANGED <<mtx_, call, postid, whole, calls>>
        /\ posts' = [posts EXCEPT ![postid[t]] = call[t].post] \/ UNCHANGED posts
    BY <1>6 DEF Apply, ApplyFails
  <2>2. posts' \in [Key -> Post \cup {NoPost}] /\ GapFree /\ Keeps
    BY <2>1, WriteNext DEF Step
  <2>3. TypeOK' /\ Holder'
    BY <2>1, <2>2 DEF Step, Holder
  <2>4. ChosenIsNext'
    <3>1. \A u \in Thread : pc'[u] # "apply"
      BY <2>1 DEF Step, Holder
    <3> QED
      BY <3>1 DEF ChosenIsNext
  <2> QED
    BY <2>2, <2>3, <2>4
<1>7. ASSUME NEW t \in Thread, Unlock(t) PROVE Inv' /\ GapFree /\ Keeps
  <2>1. TypeOK' /\ Holder'
    BY <1>7 DEF Unlock, Step, Holder
  <2> QED
    BY <1>7, <2>1, StillNext DEF Unlock, Step
<1>8. ASSUME NEW t \in Thread, Return(t) PROVE Inv' /\ GapFree /\ Keeps
  <2>1. TypeOK' /\ Holder'
    BY <1>8 DEF Return, Step, Holder
  <2> QED
    BY <1>8, <2>1, StillNext DEF Return, Step
<1>9. CASE UNCHANGED vars
  <2>1. TypeOK' /\ Holder' /\ ChosenIsNext'
    BY <1>9, RowsKept DEF vars, Holder, ChosenIsNext
  <2> QED
    BY <1>9, <2>1, RowsKept DEF vars
<1> QED
  BY <1>1, <1>2, <1>3, <1>4, <1>5, <1>6, <1>7, <1>8, <1>9 DEF Next

LEMMA InitInv == Init => Inv
<1> SUFFICES ASSUME Init PROVE Inv
  OBVIOUS
<1>1. posts \in [Key -> Post \cup {NoPost}]
  <2>1. PICK n \in -2..10, stray \in SUBSET Key, p \in Post :
          posts = [k \in Key |-> IF k <= n \/ k \in stray THEN p ELSE NoPost]
    BY DEF Init
  <2> QED
    BY <2>1
<1>2. TypeOK /\ Holder /\ ChosenIsNext
  BY <1>1 DEF Init, TypeOK, Holder, ChosenIsNext
<1> QED
  BY <1>2 DEF Inv

-----------------------------------------------------------------------------
(* The theorems.                                                           *)

\* The base of the theorems below.
THEOREM BigtableInvariant == Spec => []Inv
<1>1. Inv /\ [Next]_vars => Inv'
  BY NextInv
<1> QED
  BY <1>1, InitInv, PTL DEF Spec

(* An insert that has read all rows leaves no gap between the row keys,    *)
(* whatever failed in between, and never gets beyond the key 10.  One that *)
(* a failed read has misled may leave any.                                 *)
THEOREM WholeReadsLeaveNoGap == Spec => InsertsLeaveNoGap
<1>1. Inv /\ [Next]_vars =>
        [Contiguous /\ (\A t \in Thread : ~Misled(t)) => Contiguous']_vars
  BY NextInv DEF GapFree
<1> QED
  BY <1>1, BigtableInvariant, PTL DEF Spec, InsertsLeaveNoGap

(* Under the mutex, and from any table, no insert that has read all rows   *)
(* chooses a key that is in use but 10, and that only when 9 is read last. *)
THEOREM WholeReadsOverwriteTenOnly == Spec => OnlyKeyTenIsOverwritten
<1>1. Inv /\ [Next]_vars =>
        [\A k \in Stored \ {10} :
           posts'[k] = posts[k] \/ \E t \in Thread : Misled(t) /\ postid[t] = k]_vars
  BY NextInv DEF Keeps
<1> QED
  BY <1>1, BigtableInvariant, PTL DEF Spec, OnlyKeyTenIsOverwritten
=============================================================================
