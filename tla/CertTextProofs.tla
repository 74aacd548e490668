--------------------------- MODULE CertTextProofs ---------------------------
(***************************************************************************)
(* Proofs about CertText, for any words, texts, certificate files and      *)
(* widths.                                                                 *)
(*                                                                         *)
(* The operators are about sequences of any length.  What is said of all   *)
(* of a sequence is proved by induction over a set of numbers, from the    *)
(* well-foundedness of less than (SetInduction, UpTo), and what            *)
(* FlattenSeq gives from a function that joins the texts one by one        *)
(* (Recursion, FlattenParts).                                              *)
(***************************************************************************)
EXTENDS CertText, SequenceTheorems, WellFoundedInduction, TLAPS

-----------------------------------------------------------------------------
(***************************************************************************)
(* Induction and recursion over the numbers.                               *)
(***************************************************************************)

Below == {p \in Nat \X Nat : p[1] < p[2]}

\* Less than, on the natural numbers, is well founded.
LEMMA BelowWF == IsWellFoundedOn(Below, Nat)
  BY NatLessThanWellFounded DEF Below, OpToRel

\* Every set of numbers has a least one.
LEMMA LeastOf ==
  ASSUME NEW S \in SUBSET Nat, S # {}
  PROVE  \E n \in S : \A m \in S : n <= m
  <1>1. PICK n \in S : \A m \in S : ~(<<m, n>> \in Below) BY BelowWF, WFMin, Zenon
  <1>2. \A m \in S : ~(m < n) BY <1>1 DEF Below
  <1> QED BY <1>2

\* Induction, over the set of the numbers for which something holds.
LEMMA SetInduction ==
  ASSUME NEW S, 0 \in S, \A n \in Nat : n \in S => n + 1 \in S
  PROVE  \A n \in Nat : n \in S
  <1> SUFFICES ASSUME NEW k \in Nat, k \notin S PROVE FALSE OBVIOUS
  <1>1. PICK n \in Nat \ S : \A m \in Nat \ S : n <= m
    <2>1. Nat \ S # {} /\ Nat \ S \in SUBSET Nat OBVIOUS
    <2> QED BY <2>1, LeastOf, Zenon
  <1>2. n # 0 /\ n - 1 \in Nat OBVIOUS
  <1>3. n - 1 \in S BY <1>1, <1>2
  <1> QED BY <1>1, <1>2, <1>3

\* What Min is.
LEMMA MinOf ==
  ASSUME NEW S \in SUBSET Nat, S # {}
  PROVE  Min(S) \in S /\ \A m \in S : Min(S) <= m
  BY LeastOf DEF Min

\* What Max is.
LEMMA MaxOf ==
  ASSUME NEW n \in Nat, NEW S \in SUBSET (0..n), S # {}
  PROVE  Max(S) \in S /\ \A m \in S : m <= Max(S)
  <1> DEFINE R == {r \in 0..n : n - r \in S}
  <1>1. R \in SUBSET Nat /\ R # {}
    <2>1. PICK m \in S : TRUE OBVIOUS
    <2>2. m \in 0..n /\ n - m \in 0..n /\ n - (n - m) = m BY <2>1
    <2> QED BY <2>2
  <1>2. PICK r \in R : \A q \in R : r <= q BY <1>1, LeastOf, Zenon
  <1>3. ASSUME NEW m \in S PROVE m <= n - r
    <2>1. m \in 0..n /\ n - m \in 0..n /\ n - (n - m) = m OBVIOUS
    <2>2. r <= n - m BY <1>2, <2>1
    <2> QED BY <2>1, <2>2
  <1>4. n - r \in S OBVIOUS
  <1> QED BY <1>3, <1>4 DEF Max

\* Recursion: a value from the one before, up to N.
LEMMA Recursion ==
  ASSUME NEW V, NEW b \in V, NEW N \in Nat, NEW step \in [1..N -> [V -> V]]
  PROVE  \E f \in [0..N -> V] : f[0] = b /\ \A n \in 1..N : f[n] = step[n][f[n - 1]]
  <1> DEFINE Good(k) == \E f \in [0..k -> V] : f[0] = b /\ \A n \in 1..k : f[n] = step[n][f[n - 1]]
             K == {k \in Nat : k <= N => Good(k)}
  <1>1. 0 \in K
    <2> DEFINE f == [n \in 0..0 |-> b]
    <2>1. f \in [0..0 -> V] /\ f[0] = b /\ 1..0 = {} OBVIOUS
    <2> HIDE DEF f
    <2>2. Good(0) BY <2>1
    <2> QED BY <2>2
  <1>2. ASSUME NEW k \in Nat, k \in K PROVE k + 1 \in K
    <2> SUFFICES ASSUME k + 1 <= N PROVE Good(k + 1) OBVIOUS
    <2>1. PICK f \in [0..k -> V] : f[0] = b /\ \A n \in 1..k : f[n] = step[n][f[n - 1]]
      BY <1>2
    <2> DEFINE g == [n \in 0..(k + 1) |-> IF n <= k THEN f[n] ELSE step[k + 1][f[k]]]
    <2>2. step[k + 1][f[k]] \in V
      <3>1. k + 1 \in 1..N /\ f[k] \in V OBVIOUS
      <3> QED BY <3>1
    <2>3. g \in [0..(k + 1) -> V] BY <2>2
    <2>4. g[0] = b /\ \A n \in 1..(k + 1) : g[n] = step[n][g[n - 1]] BY <2>1
    <2> QED BY <2>3, <2>4
  <1>3. N \in K
    <2> HIDE DEF K
    <2> QED BY <1>1, <1>2, SetInduction
  <1> QED BY <1>3

\* Induction along a function that has been defined so.
LEMMA UpTo ==
  ASSUME NEW N \in Nat, NEW f, NEW V, f[0] \in V,
         \A n \in 1..N : f[n - 1] \in V => f[n] \in V
  PROVE  \A n \in 0..N : f[n] \in V
  <1> DEFINE K == {n \in Nat : n <= N => f[n] \in V}
  <1>1. 0 \in K OBVIOUS
  <1>2. \A n \in Nat : n \in K => n + 1 \in K
    <2> SUFFICES ASSUME NEW n \in Nat, n \in K, n + 1 <= N PROVE f[n + 1] \in V OBVIOUS
    <2>1. n + 1 \in 1..N /\ (n + 1) - 1 = n /\ f[n] \in V OBVIOUS
    <2> QED BY <2>1
  <1>3. \A n \in Nat : n \in K
    <2> HIDE DEF K
    <2> QED BY <1>1, <1>2, SetInduction
  <1> QED BY <1>3

-----------------------------------------------------------------------------
(***************************************************************************)
(* Texts, and what the operators on them give.                             *)
(***************************************************************************)

\* The members of a text.
LEMMA TokensAre ==
  ASSUME NEW s \in Tokens
  PROVE  Len(s) \in Nat /\ DOMAIN s = 1..Len(s) /\ \A i \in 1..Len(s) : s[i] \in Token
  BY DEF Tokens

\* Two texts with the same tokens are the same.
LEMMA SameTokens ==
  ASSUME NEW s \in Tokens, NEW t \in Tokens, Len(s) = Len(t), \A i \in 1..Len(s) : s[i] = t[i]
  PROVE  s = t
  BY SeqEqual DEF Tokens

\* The tokens of one text after the other.
LEMMA Joined ==
  ASSUME NEW s \in Tokens, NEW t \in Tokens
  PROVE  /\ s \o t \in Tokens
         /\ Len(s \o t) = Len(s) + Len(t)
         /\ \A i \in 1..Len(s) : (s \o t)[i] = s[i]
         /\ \A i \in 1..Len(t) : (s \o t)[Len(s) + i] = t[i]
  <1>1. Len(s) \in Nat /\ Len(t) \in Nat BY TokensAre
  <1>2. /\ s \o t \in Seq(Token) /\ Len(s \o t) = Len(s) + Len(t)
        /\ \A i \in 1..Len(s) + Len(t) :
             (s \o t)[i] = IF i <= Len(s) THEN s[i] ELSE t[i - Len(s)]
    BY ConcatProperties DEF Tokens
  <1>3. ASSUME NEW i \in 1..Len(s) PROVE (s \o t)[i] = s[i] BY <1>1, <1>2
  <1>4. ASSUME NEW i \in 1..Len(t) PROVE (s \o t)[Len(s) + i] = t[i]
    <2>1. /\ Len(s) + i \in 1..Len(s) + Len(t) /\ ~(Len(s) + i <= Len(s))
          /\ (Len(s) + i) - Len(s) = i
      BY <1>1
    <2> QED BY <1>2, <2>1
  <1> QED BY <1>2, <1>3, <1>4 DEF Tokens

\* The tokens of a part of a text.
LEMMA PartIs ==
  ASSUME NEW s \in Tokens, NEW m \in 1..(Len(s) + 1), NEW n \in (m - 1)..Len(s)
  PROVE  /\ SubSeq(s, m, n) \in Tokens
         /\ Len(SubSeq(s, m, n)) = n - m + 1
         /\ \A i \in 1..(n - m + 1) : SubSeq(s, m, n)[i] = s[m + i - 1]
  <1>1. Len(s) \in Nat /\ \A i \in 1..Len(s) : s[i] \in Token BY TokensAre
  <1>2. \A i \in m..n : s[i] \in Token BY <1>1
  <1>3. m \in Int /\ n \in Int BY <1>1
  <1>4. /\ SubSeq(s, m, n) \in Seq(Token)
        /\ Len(SubSeq(s, m, n)) = IF m <= n THEN n - m + 1 ELSE 0
        /\ \A i \in 1..n - m + 1 : SubSeq(s, m, n)[i] = s[m + i - 1]
    BY <1>2, <1>3, SubSeqProperties
  <1>5. (IF m <= n THEN n - m + 1 ELSE 0) = n - m + 1 BY <1>1, <1>3
  <1> QED BY <1>4, <1>5 DEF Tokens

\* The tokens of the rest of a text.
LEMMA AfterIs ==
  ASSUME NEW s \in Tokens, NEW n \in 0..Len(s)
  PROVE  /\ After(s, n) \in Tokens
         /\ Len(After(s, n)) = Len(s) - n
         /\ \A i \in 1..(Len(s) - n) : After(s, n)[i] = s[n + i]
  <1>1. Len(s) \in Nat BY TokensAre
  <1>2. n + 1 \in 1..(Len(s) + 1) /\ Len(s) \in ((n + 1) - 1)..Len(s) BY <1>1
  <1>3. Len(s) - (n + 1) + 1 = Len(s) - n /\ \A i \in Int : (n + 1) + i - 1 = n + i BY <1>1
  <1>4. /\ SubSeq(s, n + 1, Len(s)) \in Tokens
        /\ Len(SubSeq(s, n + 1, Len(s))) = Len(s) - n
        /\ \A i \in 1..(Len(s) - n) : SubSeq(s, n + 1, Len(s))[i] = s[n + 1 + i - 1]
    BY <1>2, <1>3, PartIs
  <1>5. ASSUME NEW i \in 1..(Len(s) - n) PROVE After(s, n)[i] = s[n + i]
    <2>1. n + 1 + i - 1 = n + i BY <1>1
    <2> QED BY <1>4, <2>1 DEF After
  <1> QED BY <1>4, <1>5 DEF After

\* What TrimLeft gives, from where the first token that is kept is.
LEMMA TrimLeftIs ==
  ASSUME NEW s \in Tokens, NEW cutset, NEW n \in 0..Len(s),
         \A i \in 1..n : s[i] \in cutset, n < Len(s) => s[n + 1] \notin cutset
  PROVE  TrimLeft(s, cutset) = After(s, n)
  <1>1. Len(s) \in Nat /\ DOMAIN s = 1..Len(s) BY TokensAre
  <1> DEFINE K == Kept(s, cutset)
  <1>2. K \in SUBSET Nat /\ \A i \in K : i > n /\ i <= Len(s) BY <1>1 DEF Kept
  <1>3. CASE n = Len(s)
    <2>1. K = {} BY <1>2, <1>3, <1>1
    <2>2. After(s, n) = << >> BY <1>1, <1>3, SubSeqEmpty DEF After
    <2> QED BY <2>1, <2>2 DEF TrimLeft
  <1>4. CASE n < Len(s)
    <2>1. n + 1 \in K BY <1>1, <1>4 DEF Kept
    <2> HIDE DEF K
    <2>2. Min(K) \in K /\ Min(K) <= n + 1 BY <1>2, <2>1, MinOf
    <2>3. Min(K) \in Nat /\ Min(K) > n BY <1>2, <2>2
    <2>4. Min(K) = n + 1 BY <2>2, <2>3
    <2>5. TrimLeft(s, cutset) = SubSeq(s, Min(K), Len(s)) BY <2>1 DEF TrimLeft, K
    <2>6. SubSeq(s, Min(K), Len(s)) = SubSeq(s, n + 1, Len(s)) BY <2>4
    <2> QED BY <2>5, <2>6 DEF After
  <1>5. n = Len(s) \/ n < Len(s)
    <2>1. Len(s) \in Nat BY <1>1
    <2> QED BY <2>1
  <1> QED BY <1>3, <1>4, <1>5

\* What is trimmed off, whatever it is.
LEMMA TrimLeftOf ==
  ASSUME NEW s \in Tokens, NEW cutset
  PROVE  \E n \in 0..Len(s) : /\ TrimLeft(s, cutset) = After(s, n)
                              /\ \A i \in 1..n : s[i] \in cutset
                              /\ n < Len(s) => s[n + 1] \notin cutset
  <1>1. Len(s) \in Nat /\ DOMAIN s = 1..Len(s) BY TokensAre
  <1> DEFINE K == Kept(s, cutset)
  <1>2. K \in SUBSET Nat /\ \A i \in K : i >= 1 /\ i <= Len(s) /\ s[i] \notin cutset
    BY <1>1 DEF Kept
  <1>3. \A i \in 1..Len(s) : i \notin K => s[i] \in cutset BY <1>1 DEF Kept
  <1> HIDE DEF K
  <1>4. CASE K = {}
    <2>1. \A i \in 1..Len(s) : s[i] \in cutset BY <1>3, <1>4
    <2> QED BY <1>1, <2>1, TrimLeftIs
  <1>5. CASE K # {}
    <2>1. Min(K) \in K /\ \A i \in K : Min(K) <= i BY <1>2, <1>5, MinOf
    <2> DEFINE n == Min(K) - 1
    <2>a. Min(K) \in Nat /\ Min(K) >= 1 /\ Min(K) <= Len(s) BY <1>2, <2>1
    <2>2. n \in 0..Len(s) /\ n + 1 = Min(K) /\ \A i \in 1..n : i \in 1..Len(s) /\ i < Min(K)
      BY <1>1, <2>a
    <2> HIDE DEF n
    <2>3. \A i \in 1..n : s[i] \in cutset BY <1>3, <2>1, <2>2, <1>2
    <2>4. s[n + 1] \notin cutset BY <1>2, <2>1, <2>2
    <2> QED BY <2>2, <2>3, <2>4, TrimLeftIs
  <1> QED BY <1>4, <1>5

\* What TrimRight gives, from where the last token that is kept is.
LEMMA TrimRightIs ==
  ASSUME NEW s \in Tokens, NEW cutset, NEW n \in 0..Len(s),
         \A i \in (n + 1)..Len(s) : s[i] \in cutset, n > 0 => s[n] \notin cutset
  PROVE  TrimRight(s, cutset) = SubSeq(s, 1, n)
  <1>1. Len(s) \in Nat /\ DOMAIN s = 1..Len(s) BY TokensAre
  <1> DEFINE K == Kept(s, cutset)
  <1>2. K \in SUBSET (0..Len(s)) /\ \A i \in K : i \in Nat /\ i >= 1 /\ i <= n BY <1>1 DEF Kept
  <1>3. CASE n = 0
    <2>1. K = {} BY <1>2, <1>3, <1>1
    <2>2. SubSeq(s, 1, n) = << >> BY <1>3, SubSeqEmpty
    <2> QED BY <2>1, <2>2 DEF TrimRight
  <1>4. CASE n > 0
    <2>1. n \in K BY <1>1, <1>4 DEF Kept
    <2> HIDE DEF K
    <2>2. Max(K) \in K /\ n <= Max(K) BY <1>1, <1>2, <2>1, MaxOf
    <2>3. Max(K) \in Nat /\ Max(K) <= n BY <1>1, <1>2, <2>2
    <2>4. Max(K) = n BY <2>2, <2>3
    <2>5. TrimRight(s, cutset) = SubSeq(s, 1, Max(K)) BY <2>1 DEF TrimRight, K
    <2> QED BY <2>4, <2>5
  <1> QED BY <1>1, <1>3, <1>4

\* What is trimmed off at the right, whatever it is.
LEMMA TrimRightOf ==
  ASSUME NEW s \in Tokens, NEW cutset
  PROVE  \E n \in 0..Len(s) : /\ TrimRight(s, cutset) = SubSeq(s, 1, n)
                              /\ \A i \in (n + 1)..Len(s) : s[i] \in cutset
                              /\ n > 0 => s[n] \notin cutset
  <1>1. Len(s) \in Nat /\ DOMAIN s = 1..Len(s) BY TokensAre
  <1> DEFINE K == Kept(s, cutset)
  <1>2. /\ K \in SUBSET (0..Len(s))
        /\ \A i \in K : i \in Nat /\ i >= 1 /\ i <= Len(s) /\ s[i] \notin cutset
    BY <1>1 DEF Kept
  <1>3. \A i \in 1..Len(s) : i \notin K => s[i] \in cutset BY <1>1 DEF Kept
  <1> HIDE DEF K
  <1>4. CASE K = {}
    <2>1. \A i \in 1..Len(s) : s[i] \in cutset BY <1>3, <1>4
    <2>2. 0 \in 0..Len(s) /\ \A i \in (0 + 1)..Len(s) : s[i] \in cutset BY <1>1, <2>1
    <2> DEFINE n == 0
    <2>3. n \in 0..Len(s) /\ ~(n > 0) /\ \A i \in (n + 1)..Len(s) : s[i] \in cutset BY <2>2
    <2> HIDE DEF n
    <2> QED BY <2>3, TrimRightIs
  <1>5. CASE K # {}
    <2>1. Max(K) \in K /\ \A i \in K : i <= Max(K) BY <1>1, <1>2, <1>5, MaxOf
    <2>a. Max(K) \in Nat /\ Max(K) <= Len(s) BY <1>1, <1>2, <2>1
    <2>2. /\ Max(K) \in 0..Len(s)
          /\ \A i \in (Max(K) + 1)..Len(s) : i \in 1..Len(s) /\ ~(i <= Max(K))
      BY <1>1, <2>a
    <2>3. \A i \in (Max(K) + 1)..Len(s) : s[i] \in cutset BY <1>3, <2>1, <2>2
    <2> QED BY <1>2, <2>1, <2>2, <2>3, TrimRightIs
  <1> QED BY <1>4, <1>5

\* A pattern is found where it occurs first.
LEMMA IndexOfIs ==
  ASSUME NEW s \in Tokens, NEW pattern, NEW n \in 1..Len(s),
         IsPrefix(pattern, After(s, n - 1)),
         \A i \in 1..(n - 1) : ~IsPrefix(pattern, After(s, i - 1))
  PROVE  IndexOf(s, pattern) = n
  <1> DEFINE K == {i \in DOMAIN s : IsPrefix(pattern, After(s, i - 1))}
  <1>1. Len(s) \in Nat /\ DOMAIN s = 1..Len(s) BY TokensAre
  <1>2. n \in K /\ K \in SUBSET Nat /\ \A i \in K : i >= n BY <1>1
  <1>3. IndexOf(s, pattern) = IF K = {} THEN 0 ELSE Min(K) BY DEF IndexOf
  <1> HIDE DEF K
  <1>4. Min(K) \in K /\ Min(K) <= n BY <1>2, MinOf
  <1>5. Min(K) \in Nat /\ Min(K) >= n BY <1>2, <1>4
  <1> QED BY <1>2, <1>3, <1>4, <1>5

\* Where a pattern is found it occurs.
LEMMA IndexOfOf ==
  ASSUME NEW s \in Tokens, NEW pattern
  PROVE  /\ IndexOf(s, pattern) \in 0..Len(s)
         /\ IndexOf(s, pattern) > 0 => IsPrefix(pattern, After(s, IndexOf(s, pattern) - 1))
  <1> DEFINE K == {i \in DOMAIN s : IsPrefix(pattern, After(s, i - 1))}
  <1>1. Len(s) \in Nat /\ DOMAIN s = 1..Len(s) BY TokensAre
  <1>2. K \in SUBSET Nat /\ \A i \in K : i \in 1..Len(s) /\ IsPrefix(pattern, After(s, i - 1))
    BY <1>1
  <1>3. IndexOf(s, pattern) = IF K = {} THEN 0 ELSE Min(K) BY DEF IndexOf
  <1> HIDE DEF K
  <1>4. CASE K = {} BY <1>1, <1>3, <1>4
  <1>5. CASE K # {}
    <2>1. Min(K) \in K BY <1>2, <1>5, MinOf
    <2>2. Min(K) \in 1..Len(s) /\ IsPrefix(pattern, After(s, Min(K) - 1)) BY <1>2, <2>1
    <2> QED BY <1>1, <1>3, <1>5, <2>2
  <1> QED BY <1>4, <1>5

\* A flattened sequence of texts, text by text.
LEMMA FlattenParts ==
  ASSUME NEW seqs \in Seq(Tokens)
  PROVE  \E f \in [0..Len(seqs) -> Tokens] :
           /\ f[0] = << >>
           /\ \A n \in 1..Len(seqs) : f[n] = f[n - 1] \o seqs[n]
           /\ FlattenSeq(seqs) = f[Len(seqs)]
  <1> DEFINE N == Len(seqs)
             step == [n \in 1..N |-> [t \in Tokens |-> t \o seqs[n]]]
             Body(g) == [n \in 1..N |-> IF n = 1 THEN seqs[n] ELSE g[n - 1] \o seqs[n]]
             flatten == CHOOSE g : g = Body(g)
  <1>0. N \in Nat /\ << >> \in Tokens /\ \A n \in 1..N : seqs[n] \in Tokens BY DEF Tokens
  <1>1. step \in [1..N -> [Tokens -> Tokens]]
    <2>1. \A n \in 1..N : \A t \in Tokens : t \o seqs[n] \in Tokens
      BY <1>0, ConcatProperties DEF Tokens
    <2> HIDE DEF N
    <2> QED BY <2>1
  <1> DEFINE empty == << >>
  <1>2. PICK f \in [0..N -> Tokens] : f[0] = empty /\ \A n \in 1..N : f[n] = step[n][f[n - 1]]
    <2>1. N \in Nat /\ empty \in Tokens BY <1>0
    <2> HIDE DEF step, N, empty
    <2> QED BY <1>1, <2>1, Recursion
  <1>3. \A n \in 1..N : f[n] = f[n - 1] \o seqs[n]
    <2> TAKE n \in 1..N
    <2>1. n - 1 \in 0..N /\ f[n - 1] \in Tokens BY <1>0
    <2>2. f[n] = step[n][f[n - 1]] BY <1>2
    <2> HIDE DEF N
    <2> QED BY <2>1, <2>2
  <1> DEFINE g0 == [n \in 1..N |-> f[n]]
  <1> HIDE DEF N, step
  <1>a. 1 \in 1..N => f[1] = f[0] \o seqs[1]
    <2>1. 1 - 1 = 0 OBVIOUS
    <2> QED BY <1>3, <2>1
  <1>4. g0 = Body(g0)
    <2>1. ASSUME NEW n \in 1..N PROVE g0[n] = Body(g0)[n]
      <3>1. CASE n = 1
        <4>0. 1 \in 1..N BY <3>1
        <4>1. f[1] = << >> \o seqs[1] BY <1>2, <1>a, <4>0
        <4>2. << >> \o seqs[1] = seqs[1] BY <1>0, <3>1, ConcatEmptySeq DEF Tokens
        <4> QED BY <3>1, <4>1, <4>2
      <3>2. CASE n # 1
        <4>1. n - 1 \in 1..N BY <1>0, <3>2
        <4> QED BY <1>3, <3>2, <4>1
      <3> QED BY <3>1, <3>2
    <2> QED BY <2>1
  <1>5. flatten = Body(flatten) BY <1>4
  <1>6. FlattenSeq(seqs) = IF N = 0 THEN seqs ELSE flatten[N] BY DEF FlattenSeq, N
  <1> HIDE DEF flatten
  <1>7. \A n \in 1..N : Body(flatten)[n] =
          IF n = 1 THEN seqs[n] ELSE flatten[n - 1] \o seqs[n]
    OBVIOUS
  <1> HIDE DEF Body
  \* what flatten is, by the same induction
  <1> DEFINE d == [n \in 0..N |-> n = 0 \/ flatten[n] = f[n]]
  <1>8. d[0] \in {TRUE} BY <1>0
  <1>9. ASSUME NEW n \in 1..N, d[n - 1] \in {TRUE} PROVE d[n] \in {TRUE}
    <2>1. flatten[n] = f[n]
      <3>1. CASE n = 1
        <4>1. flatten[n] = seqs[n] BY <1>5, <1>7, <3>1, Zenon
        <4>0. 1 \in 1..N BY <3>1
        <4>2. f[1] = << >> \o seqs[1] BY <1>2, <1>a, <4>0
        <4>3. << >> \o seqs[1] = seqs[1] BY <1>0, <3>1, ConcatEmptySeq DEF Tokens
        <4> QED BY <3>1, <4>1, <4>2, <4>3
      <3>2. CASE n # 1
        <4>1. n - 1 \in 0..N /\ n - 1 # 0 BY <1>0, <3>2
        <4>2. flatten[n - 1] = f[n - 1] BY <1>9, <4>1
        <4>3. flatten[n] = flatten[n - 1] \o seqs[n] BY <1>5, <1>7, <3>2, Zenon
        <4> QED BY <1>3, <4>2, <4>3
      <3> QED BY <3>1, <3>2
    <2>2. n \in 0..N BY <1>0
    <2> QED BY <2>1, <2>2
  <1>10. \A n \in 0..N : d[n] \in {TRUE}
    <2> HIDE DEF d
    <2> QED BY <1>0, <1>8, <1>9, UpTo
  <1>11. N # 0 => flatten[N] = f[N]
    <2>1. d[N] BY <1>0, <1>10
    <2> QED BY <1>0, <2>1
  <1>12. N = 0 => seqs = f[0] BY <1>2 DEF N
  <1>13. FlattenSeq(seqs) = f[N] BY <1>6, <1>11, <1>12
  <1> QED BY <1>2, <1>3, <1>13 DEF N

\* What a prefix is, token by token.
LEMMA PrefixIs ==
  ASSUME NEW p \in Tokens, NEW s \in Tokens
  PROVE  IsPrefix(p, s) <=> Len(p) <= Len(s) /\ \A i \in 1..Len(p) : s[i] = p[i]
  <1>1. Len(p) \in Nat /\ Len(s) \in Nat BY TokensAre
  <1>2. SubSeq(p, 1, Len(p)) = p BY SubSeqFull DEF Tokens
  <1>3. CASE Len(p) <= Len(s)
    <2> DEFINE q == SubSeq(s, 1, Len(p))
    <2>1. 1 \in 1..(Len(s) + 1) /\ Len(p) \in (1 - 1)..Len(s) BY <1>1, <1>3
    <2>2. /\ q \in Tokens /\ Len(q) = Len(p) - 1 + 1
          /\ \A i \in 1..(Len(p) - 1 + 1) : q[i] = s[1 + i - 1]
      BY <2>1, PartIs
    <2> HIDE DEF q
    <2>3. Len(q) = Len(p) /\ \A i \in 1..Len(p) : q[i] = s[i] BY <1>1, <2>2
    <2>4. p = q <=> \A i \in 1..Len(p) : s[i] = p[i] BY <2>2, <2>3, SameTokens
    <2> QED BY <1>2, <1>3, <2>4 DEF IsPrefix, q
  <1>4. CASE ~(Len(p) <= Len(s)) BY <1>4 DEF IsPrefix
  <1> QED BY <1>3, <1>4

\* The tokens with names are tokens, and different.
LEMMA Distinct ==
  /\ Dashes \in Token /\ Begin \in Token /\ End \in Token /\ Space \in Token /\ Newline \in Token
  /\ Dashes # Begin /\ Dashes # End /\ Dashes # Space /\ Dashes # Newline
  /\ Begin # End /\ Begin # Space /\ Begin # Newline /\ End # Space /\ End # Newline
  /\ Space # Newline
  <1>1. Dashes \in Token /\ Begin \in Token /\ End \in Token /\ Space \in Token /\ Newline \in Token
    BY DEF Token
  <1>2. /\ Dashes # Begin /\ Dashes # End /\ Dashes # Space /\ Dashes # Newline
        /\ Begin # End /\ Begin # Space /\ Begin # Newline /\ End # Space /\ End # Newline
        /\ Space # Newline
    BY DEF Dashes, Begin, End, Space, Newline
  <1> QED BY <1>1, <1>2

\* A text of one token.
LEMMA Single ==
  ASSUME NEW x \in Token
  PROVE  <<x>> \in Tokens /\ Len(<<x>>) = 1 /\ <<x>>[1] = x
  <1>1. <<x>> \in Tokens BY DEF Tokens
  <1> QED BY <1>1

\* A text of three tokens.
LEMMA Triple ==
  ASSUME NEW x \in Token, NEW y \in Token, NEW z \in Token
  PROVE  /\ <<x, y, z>> \in Tokens /\ Len(<<x, y, z>>) = 3
         /\ <<x, y, z>>[1] = x /\ <<x, y, z>>[2] = y /\ <<x, y, z>>[3] = z
  <1>1. <<x, y, z>> \in Tokens BY DEF Tokens
  <1> QED BY <1>1

\* The markers, token by token.
LEMMA Markers ==
  /\ BeginPrefix \in Tokens /\ Len(BeginPrefix) = 3
  /\ BeginPrefix[1] = Dashes /\ BeginPrefix[2] = Begin /\ BeginPrefix[3] = Space
  /\ EndPrefix \in Tokens /\ Len(EndPrefix) = 3
  /\ EndPrefix[1] = Dashes /\ EndPrefix[2] = End /\ EndPrefix[3] = Space
  /\ MarkerSuffix \in Tokens /\ Len(MarkerSuffix) = 1 /\ MarkerSuffix[1] = Dashes
  /\ <<Newline>> \in Tokens /\ Len(<<Newline>>) = 1 /\ <<Newline>>[1] = Newline
  /\ << >> \in Tokens /\ Len(<< >>) = 0
  <1>0. Dashes \in Token /\ Begin \in Token /\ End \in Token /\ Space \in Token /\ Newline \in Token
    BY Distinct
  <1>1. /\ BeginPrefix \in Tokens /\ Len(BeginPrefix) = 3
        /\ BeginPrefix[1] = Dashes /\ BeginPrefix[2] = Begin /\ BeginPrefix[3] = Space
    BY <1>0, Triple DEF BeginPrefix
  <1>2. /\ EndPrefix \in Tokens /\ Len(EndPrefix) = 3
        /\ EndPrefix[1] = Dashes /\ EndPrefix[2] = End /\ EndPrefix[3] = Space
    BY <1>0, Triple DEF EndPrefix
  <1>3. MarkerSuffix \in Tokens /\ Len(MarkerSuffix) = 1 /\ MarkerSuffix[1] = Dashes
    BY <1>0, Single DEF MarkerSuffix
  <1>4. <<Newline>> \in Tokens /\ Len(<<Newline>>) = 1 /\ <<Newline>>[1] = Newline
    BY <1>0, Single
  <1>5. << >> \in Tokens /\ Len(<< >>) = 0 BY EmptySeq DEF Tokens
  <1> QED BY <1>1, <1>2, <1>3, <1>4, <1>5

\* A prefix of three tokens.
LEMMA ThreeAre ==
  ASSUME NEW p \in Tokens, NEW s \in Tokens, Len(p) = 3
  PROVE  IsPrefix(p, s) <=> Len(s) >= 3 /\ s[1] = p[1] /\ s[2] = p[2] /\ s[3] = p[3]
  <1>1. Len(s) >= 3 <=> 3 <= Len(s) BY TokensAre
  <1>2. (\A i \in 1..3 : s[i] = p[i]) <=> s[1] = p[1] /\ s[2] = p[2] /\ s[3] = p[3]
    <2>1. 1..3 = {1, 2, 3} OBVIOUS
    <2> QED BY <2>1
  <1>3. IsPrefix(p, s) <=> 3 <= Len(s) /\ \A i \in 1..3 : s[i] = p[i] BY PrefixIs
  <1> QED BY <1>1, <1>2, <1>3, Zenon

\* The prefix of a BEGIN line.
LEMMA BeginIs ==
  ASSUME NEW s \in Tokens
  PROVE  IsPrefix(BeginPrefix, s)
           <=> Len(s) >= 3 /\ s[1] = Dashes /\ s[2] = Begin /\ s[3] = Space
  BY Markers, ThreeAre, Zenon

\* The prefix of an END line.
LEMMA EndIs ==
  ASSUME NEW s \in Tokens
  PROVE  IsPrefix(EndPrefix, s) <=> Len(s) >= 3 /\ s[1] = Dashes /\ s[2] = End /\ s[3] = Space
  BY Markers, ThreeAre, Zenon

\* The end of a marker.
LEMMA SuffixIs ==
  ASSUME NEW s \in Tokens
  PROVE  IsPrefix(MarkerSuffix, s) <=> Len(s) >= 1 /\ s[1] = Dashes
  <1>1. Len(s) >= 1 <=> 1 <= Len(s) BY TokensAre
  <1>2. (\A i \in 1..1 : s[i] = Dashes) <=> s[1] = Dashes OBVIOUS
  <1>3. MarkerSuffix[1] = Dashes /\ Len(MarkerSuffix) = 1 /\ MarkerSuffix \in Tokens BY Markers
  <1>4. IsPrefix(MarkerSuffix, s)
          <=> Len(MarkerSuffix) <= Len(s) /\ \A i \in 1..Len(MarkerSuffix) : s[i] = MarkerSuffix[i]
    BY <1>3, PrefixIs
  <1>5. (\A i \in 1..Len(MarkerSuffix) : s[i] = MarkerSuffix[i]) <=> (\A i \in 1..1 : s[i] = Dashes)
    BY <1>3
  <1>6. Len(MarkerSuffix) <= Len(s) <=> 1 <= Len(s) BY <1>3
  <1> QED BY <1>1, <1>2, <1>4, <1>5, <1>6, Zenon

\* No space at either end.
Trimmed(s) == s # << >> => s[1] \notin {Space, Newline} /\ s[Len(s)] \notin {Space, Newline}

\* The text without tokens.
LEMMA Empty == ASSUME NEW s \in Tokens PROVE s = << >> <=> Len(s) = 0
  BY EmptySeq DEF Tokens

\* What TrimSpace gives.
LEMMA TrimSpaceOf ==
  ASSUME NEW s \in Tokens
  PROVE  TrimSpace(s) \in Tokens /\ Trimmed(TrimSpace(s))
  <1> DEFINE white == {Space, Newline}
             l == TrimLeft(s, white)
             r == TrimRight(l, white)
  <1>1. PICK n \in 0..Len(s) : l = After(s, n) /\ (n < Len(s) => s[n + 1] \notin white)
    BY TrimLeftOf
  <1>2. Len(s) \in Nat BY TokensAre
  <1>3. l \in Tokens /\ Len(l) = Len(s) - n /\ (Len(l) > 0 => l[1] \notin white)
    <2>1. /\ After(s, n) \in Tokens /\ Len(After(s, n)) = Len(s) - n
          /\ \A i \in 1..(Len(s) - n) : After(s, n)[i] = s[n + i]
      BY AfterIs
    <2>2. Len(s) - n > 0 => n < Len(s) /\ 1 \in 1..(Len(s) - n) BY <1>2
    <2> HIDE DEF l, white
    <2> QED BY <1>1, <2>1, <2>2
  <1> HIDE DEF l
  <1>4. PICK m \in 0..Len(l) : r = SubSeq(l, 1, m) /\ (m > 0 => l[m] \notin white)
    BY <1>3, TrimRightOf
  <1>5. Len(l) \in Nat BY <1>3, TokensAre
  <1>6. r \in Tokens /\ Len(r) = m /\ \A i \in 1..m : r[i] = l[i]
    <2>1. 1 \in 1..(Len(l) + 1) /\ m \in (1 - 1)..Len(l) BY <1>5
    <2>2. /\ SubSeq(l, 1, m) \in Tokens /\ Len(SubSeq(l, 1, m)) = m - 1 + 1
          /\ \A i \in 1..(m - 1 + 1) : SubSeq(l, 1, m)[i] = l[1 + i - 1]
      BY <1>3, <2>1, PartIs
    <2>3. m - 1 + 1 = m /\ \A i \in 1..m : 1 + i - 1 = i BY <1>5
    <2> HIDE DEF r
    <2> QED BY <1>4, <2>2, <2>3
  <1> HIDE DEF r, white
  <1>7. ASSUME r # << >> PROVE r[1] \notin white /\ r[Len(r)] \notin white
    <2>1. m # 0 BY <1>6, <1>7, Empty
    <2>2. 1 \in 1..m /\ m \in 1..m /\ m > 0 /\ Len(l) > 0 BY <1>5, <2>1
    <2> QED BY <1>3, <1>4, <1>6, <2>2
  <1> QED BY <1>6, <1>7 DEF Trimmed, TrimSpace, r, l, white

\* A text with one token more.
LEMMA WithOne ==
  ASSUME NEW s \in Tokens, NEW x \in Token
  PROVE  /\ s \o <<x>> \in Tokens /\ Len(s \o <<x>>) = Len(s) + 1
         /\ \A i \in 1..Len(s) : (s \o <<x>>)[i] = s[i]
         /\ (s \o <<x>>)[Len(s) + 1] = x
  <1>1. <<x>> \in Tokens /\ Len(<<x>>) = 1 /\ <<x>>[1] = x BY Single
  <1>2. 1 \in 1..Len(<<x>>) BY <1>1
  <1> QED BY <1>1, <1>2, Joined

\* A text with a newline more.
LEMMA WithNewline ==
  ASSUME NEW s \in Tokens
  PROVE  /\ s \o <<Newline>> \in Tokens /\ Len(s \o <<Newline>>) = Len(s) + 1
         /\ \A i \in 1..Len(s) : (s \o <<Newline>>)[i] = s[i]
         /\ (s \o <<Newline>>)[Len(s) + 1] = Newline
  BY WithOne, Distinct

\* The tokens of the front of a text.
LEMMA FrontIs ==
  ASSUME NEW s \in Tokens, NEW n \in 0..Len(s)
  PROVE  /\ SubSeq(s, 1, n) \in Tokens
         /\ Len(SubSeq(s, 1, n)) = n
         /\ \A i \in 1..n : SubSeq(s, 1, n)[i] = s[i]
  <1>1. Len(s) \in Nat BY TokensAre
  <1>2. 1 \in 1..(Len(s) + 1) /\ n \in (1 - 1)..Len(s) BY <1>1
  <1>3. /\ SubSeq(s, 1, n) \in Tokens /\ Len(SubSeq(s, 1, n)) = n - 1 + 1
        /\ \A i \in 1..(n - 1 + 1) : SubSeq(s, 1, n)[i] = s[1 + i - 1]
    BY <1>2, PartIs
  <1>4. n - 1 + 1 = n /\ \A i \in 1..n : 1 + i - 1 = i BY <1>1
  <1> QED BY <1>3, <1>4

\* The rest of a text after nothing.
LEMMA AfterNone == ASSUME NEW s \in Tokens PROVE After(s, 0) = s
  <1>1. SubSeq(s, 1, Len(s)) = s BY SubSeqFull DEF Tokens
  <1>2. 0 + 1 = 1 OBVIOUS
  <1> QED BY <1>1, <1>2 DEF After

\* The white space at the end of a text is all that TrimSpace takes off.
LEMMA TrimOne ==
  ASSUME NEW s \in Tokens, Trimmed(s), NEW x \in {Space, Newline}
  PROVE  TrimSpace(s \o <<x>>) = s /\ TrimRight(s, {Newline}) = s
  <1> DEFINE t == s \o <<x>>
             white == {Space, Newline}
  <1>1. Len(s) \in Nat /\ SubSeq(s, 1, Len(s)) = s BY TokensAre, SubSeqFull DEF Tokens
  <1>2. /\ t \in Tokens /\ Len(t) = Len(s) + 1
        /\ \A i \in 1..Len(s) : t[i] = s[i]
        /\ t[Len(s) + 1] = x
    BY WithOne, Distinct
  <1> HIDE DEF t
  <1>3. CASE s = << >>
    <2>1. Len(s) = 0 BY <1>3, Empty
    <2>2. 1 \in 0..Len(t) /\ \A i \in 1..1 : t[i] \in white BY <1>2, <2>1
    <2>3. TrimLeft(t, white) = After(t, 1)
      <3>1. ~(1 < Len(t)) BY <1>2, <2>1
      <3> HIDE DEF white
      <3> QED BY <1>2, <2>2, <3>1, TrimLeftIs
    <2>4. After(t, 1) \in Tokens /\ Len(After(t, 1)) = Len(t) - 1 BY <1>2, <2>2, AfterIs
    <2>a. Len(t) - 1 = 0 BY <1>2, <2>1
    <2>5. After(t, 1) = << >> BY <2>4, <2>a, Empty
    <2>6. TrimRight(<< >>, white) = << >> /\ TrimRight(<< >>, {Newline}) = << >>
      BY DEF TrimRight, Kept
    <2> QED BY <1>3, <2>3, <2>5, <2>6 DEF TrimSpace, t
  <1>4. CASE s # << >>
    <2>1. s[1] \notin white /\ s[Len(s)] \notin white /\ Len(s) > 0 BY <1>1, <1>4, Empty DEF Trimmed
    <2>2. TrimLeft(t, white) = t
      <3>1. t[1] \notin white BY <1>1, <1>2, <2>1
      <3> DEFINE n == 0
      <3>2. n \in 0..Len(t) /\ t[n + 1] \notin white /\ \A i \in 1..n : t[i] \in white
        BY <1>1, <1>2, <3>1
      <3>3. TrimLeft(t, white) = After(t, n)
        <4> HIDE DEF n, white
        <4> QED BY <1>2, <3>2, TrimLeftIs
      <3> QED BY <1>2, <3>3, AfterNone
    <2>3. TrimRight(t, white) = SubSeq(t, 1, Len(s))
      <3>1. /\ Len(s) \in 0..Len(t) /\ t[Len(s)] \notin white
            /\ \A i \in (Len(s) + 1)..Len(t) : t[i] \in white
        BY <1>1, <1>2, <2>1
      <3> HIDE DEF white
      <3> QED BY <1>2, <3>1, TrimRightIs
    <2>4. SubSeq(t, 1, Len(s)) = s
      <3>1. Len(s) \in 0..Len(t) BY <1>1, <1>2
      <3>2. /\ SubSeq(t, 1, Len(s)) \in Tokens /\ Len(SubSeq(t, 1, Len(s))) = Len(s)
            /\ \A i \in 1..Len(s) : SubSeq(t, 1, Len(s))[i] = t[i]
        BY <1>2, <3>1, FrontIs
      <3> QED BY <1>2, <3>2, SameTokens
    <2>5. TrimRight(s, {Newline}) = SubSeq(s, 1, Len(s))
      <3>1. /\ Len(s) \in 0..Len(s) /\ s[Len(s)] \notin {Newline}
            /\ \A i \in (Len(s) + 1)..Len(s) : s[i] \in {Newline}
        BY <1>1, <2>1
      <3> QED BY <3>1, TrimRightIs
    <2> QED BY <1>1, <2>2, <2>3, <2>4, <2>5 DEF TrimSpace, t
  <1> QED BY <1>3, <1>4

\* A newline at the end is what TrimSpace takes off.
LEMMA TrimNewline ==
  ASSUME NEW s \in Tokens, Trimmed(s)
  PROVE  TrimSpace(s \o <<Newline>>) = s /\ TrimRight(s, {Newline}) = s
  BY TrimOne

\* A function on an initial part of the numbers is a sequence.
LEMMA FunctionIsSeq ==
  ASSUME NEW S, NEW n \in Nat, NEW f \in [1..n -> S]
  PROVE  f \in Seq(S) /\ Len(f) = n
  OBVIOUS

\* What is flattened is text.
LEMMA FlattenIsText ==
  ASSUME NEW n \in Nat, NEW f \in [1..n -> Tokens]
  PROVE  FlattenSeq(f) \in Tokens
  <1>1. f \in Seq(Tokens) /\ Len(f) = n BY FunctionIsSeq
  <1>2. PICK g \in [0..Len(f) -> Tokens] : FlattenSeq(f) = g[Len(f)] BY <1>1, FlattenParts
  <1>3. n \in 0..n OBVIOUS
  <1> QED BY <1>1, <1>2, <1>3

\* A text without its spaces is a text.
LEMMA UnspacedIsText == ASSUME NEW s \in Tokens PROVE Unspaced(s) \in Tokens
  <1> DEFINE f == [i \in DOMAIN s |-> IF s[i] = Space THEN << >> ELSE <<s[i]>>]
  <1>1. Len(s) \in Nat /\ DOMAIN s = 1..Len(s) /\ \A i \in 1..Len(s) : s[i] \in Token
    BY TokensAre
  <1>2. << >> \in Tokens /\ \A i \in 1..Len(s) : <<s[i]>> \in Tokens BY <1>1, Single, Markers
  <1>3. f \in [1..Len(s) -> Tokens] BY <1>1, <1>2
  <1> QED BY <1>1, <1>3, FlattenIsText DEF Unspaced

\* A text of two tokens.
LEMMA Pair ==
  ASSUME NEW x \in Token, NEW y \in Token
  PROVE  /\ <<x, y>> \in Tokens /\ Len(<<x, y>>) = 2
         /\ <<x, y>>[1] = x /\ <<x, y>>[2] = y
  <1>1. <<x, y>> \in Tokens BY DEF Tokens
  <1> QED BY <1>1

\* A text on lines is a text.
LEMMA WrappedIsText ==
  ASSUME NEW s \in Tokens, NEW width PROVE Wrapped(s, width) \in Tokens
  <1> DEFINE last(i) == i % width = 0 \/ i = Len(s)
             f == [i \in DOMAIN s |-> IF last(i) THEN <<s[i], Newline>> ELSE <<s[i]>>]
  <1>1. Len(s) \in Nat /\ DOMAIN s = 1..Len(s) /\ \A i \in 1..Len(s) : s[i] \in Token
    BY TokensAre
  <1>2. \A i \in 1..Len(s) : <<s[i]>> \in Tokens /\ <<s[i], Newline>> \in Tokens
    BY <1>1, Single, Pair, Distinct
  <1>3. f \in [1..Len(s) -> Tokens]
    <2> HIDE DEF last
    <2> QED BY <1>1, <1>2
  <1> QED BY <1>1, <1>3, FlattenIsText DEF Wrapped

\* Where a BEGIN line ends: at dashes, after its prefix.
LEMMA HeaderEndOf ==
  ASSUME NEW s \in Tokens
  PROVE  /\ HeaderEnd(s) \in 0..Len(s)
         /\ HeaderEnd(s) > 0 => /\ IsPrefix(BeginPrefix, s)
                                /\ HeaderEnd(s) > 3
                                /\ s[HeaderEnd(s)] = Dashes
  <1> DEFINE rest == After(s, 3)
             tail == IndexOf(rest, MarkerSuffix)
  <1>0. Len(s) \in Nat BY TokensAre
  <1>1. HeaderEnd(s) = IF IsPrefix(BeginPrefix, s) /\ tail > 0 THEN 3 + tail ELSE 0
    <2>1. Len(BeginPrefix) = 3 BY Markers, Zenon
    <2> QED BY <2>1 DEF HeaderEnd
  <1>2. CASE ~IsPrefix(BeginPrefix, s)
    <2>1. HeaderEnd(s) = 0 BY <1>1, <1>2, Zenon
    <2> QED BY <1>0, <2>1
  <1>3. CASE IsPrefix(BeginPrefix, s)
    <2>1. Len(s) >= 3 BY <1>3, BeginIs, Zenon
    <2>2. 3 \in 0..Len(s) BY <1>0, <2>1
    <2>3. /\ rest \in Tokens /\ Len(rest) = Len(s) - 3
          /\ \A i \in 1..(Len(s) - 3) : rest[i] = s[3 + i]
      BY <2>2, AfterIs
    <2> HIDE DEF rest
    <2>4. tail \in 0..Len(rest) /\ (tail > 0 => IsPrefix(MarkerSuffix, After(rest, tail - 1)))
      BY <2>3, IndexOfOf
    <2>5. CASE tail > 0
      <3>1. tail \in 1..(Len(s) - 3) /\ tail - 1 \in 0..Len(rest) BY <1>0, <2>3, <2>4, <2>5
      <3>2. /\ After(rest, tail - 1) \in Tokens
            /\ \A i \in 1..(Len(rest) - (tail - 1)) : After(rest, tail - 1)[i] = rest[tail - 1 + i]
        BY <2>3, <3>1, AfterIs
      <3>3. After(rest, tail - 1)[1] = Dashes BY <2>4, <2>5, <3>2, SuffixIs, Zenon
      <3> HIDE DEF tail
      <3>4. 1 \in 1..(Len(rest) - (tail - 1)) /\ tail - 1 + 1 = tail BY <1>0, <2>3, <3>1
      <3>5. rest[tail] = Dashes BY <3>2, <3>3, <3>4
      <3>6. s[3 + tail] = Dashes BY <2>3, <3>1, <3>5
      <3>7. HeaderEnd(s) = 3 + tail BY <1>1, <1>3, <2>5, Zenon
      <3>8. 3 + tail \in 0..Len(s) /\ 3 + tail > 3 BY <1>0, <3>1
      <3> QED BY <1>3, <3>6, <3>7, <3>8
    <2>6. CASE ~(tail > 0)
      <3>1. HeaderEnd(s) = 0 BY <1>1, <2>6, Zenon
      <3> QED BY <1>0, <3>1
    <2> QED BY <2>5, <2>6
  <1> QED BY <1>2, <1>3

\* Where an END line ends: at dashes, after its prefix.
LEMMA FooterEndOf ==
  ASSUME cert \in Tokens, FooterEnd > 0
  PROVE  /\ EndStart \in 1..Len(cert)
         /\ FooterEnd \in (EndStart + 3)..Len(cert)
         /\ cert[FooterEnd] = Dashes
  <1> DEFINE begun == EndStart - 1 + 3
             rest == After(cert, begun)
             tail == IndexOf(rest, MarkerSuffix)
  <1>0. Len(cert) \in Nat BY TokensAre
  <1>1. FooterEnd = IF EndStart > 0 /\ tail > 0 THEN begun + tail ELSE 0
    <2>1. Len(EndPrefix) = 3 BY Markers, Zenon
    <2> QED BY <2>1 DEF FooterEnd
  <1>2. EndStart > 0 /\ tail > 0 /\ FooterEnd = begun + tail
    <2>1. ~(0 > 0) OBVIOUS
    <2> HIDE DEF begun, tail
    <2> QED BY <1>1, <2>1, Zenon
  <1>3. EndStart \in 0..Len(cert) /\ IsPrefix(EndPrefix, After(cert, EndStart - 1))
    BY <1>2, IndexOfOf, Zenon DEF EndStart
  <1> DEFINE e == EndStart
  <1>4. e \in 1..Len(cert) /\ e - 1 \in 0..Len(cert) BY <1>0, <1>2, <1>3
  <1>5. After(cert, e - 1) \in Tokens /\ Len(After(cert, e - 1)) = Len(cert) - (e - 1)
    BY <1>4, AfterIs
  <1>6. Len(After(cert, e - 1)) >= 3 BY <1>3, <1>5, EndIs, Zenon
  <1> HIDE DEF e
  <1>7. begun = e + 2 /\ e + 2 \in 0..Len(cert) BY <1>0, <1>4, <1>5, <1>6 DEF e
  <1>8. /\ rest \in Tokens /\ Len(rest) = Len(cert) - (e + 2)
        /\ \A i \in 1..(Len(cert) - (e + 2)) : rest[i] = cert[e + 2 + i]
    BY <1>7, AfterIs
  <1> HIDE DEF rest, begun
  <1>9. tail \in 0..Len(rest) /\ IsPrefix(MarkerSuffix, After(rest, tail - 1))
    BY <1>2, <1>8, IndexOfOf
  <1>10. tail \in 1..(Len(cert) - (e + 2)) /\ tail - 1 \in 0..Len(rest)
    BY <1>0, <1>2, <1>4, <1>8, <1>9
  <1>11. /\ After(rest, tail - 1) \in Tokens
         /\ \A i \in 1..(Len(rest) - (tail - 1)) : After(rest, tail - 1)[i] = rest[tail - 1 + i]
    BY <1>8, <1>10, AfterIs
  <1>12. After(rest, tail - 1)[1] = Dashes BY <1>9, <1>11, SuffixIs, Zenon
  <1> HIDE DEF tail
  <1>13. 1 \in 1..(Len(rest) - (tail - 1)) /\ tail - 1 + 1 = tail BY <1>0, <1>4, <1>8, <1>10
  <1>14. rest[tail] = Dashes BY <1>11, <1>12, <1>13
  <1>15. cert[e + 2 + tail] = Dashes BY <1>8, <1>10, <1>14
  <1>16. e + 2 + tail \in (e + 3)..Len(cert) BY <1>0, <1>4, <1>10
  <1> QED BY <1>2, <1>4, <1>7, <1>15, <1>16 DEF e

-----------------------------------------------------------------------------
(***************************************************************************)
(* Type correctness.                                                       *)
(***************************************************************************)

\* A trimmed text is a text.
LEMMA TrimLeftText ==
  ASSUME NEW s \in Tokens, NEW cutset PROVE TrimLeft(s, cutset) \in Tokens
  <1>1. PICK n \in 0..Len(s) : TrimLeft(s, cutset) = After(s, n) BY TrimLeftOf
  <1> QED BY <1>1, AfterIs

\* The same at the right.
LEMMA TrimRightText ==
  ASSUME NEW s \in Tokens, NEW cutset PROVE TrimRight(s, cutset) \in Tokens
  <1>1. PICK n \in 0..Len(s) : TrimRight(s, cutset) = SubSeq(s, 1, n) BY TrimRightOf
  <1> QED BY <1>1, FrontIs

\* What CutHeader takes off and what it leaves.
LEMMA CutHeaderText ==
  ASSUME NEW s \in Tokens, HeaderEnd(s) > 0
  PROVE  /\ SubSeq(s, 1, HeaderEnd(s)) \in Tokens
         /\ IsPrefix(BeginPrefix, SubSeq(s, 1, HeaderEnd(s)))
         /\ After(s, HeaderEnd(s)) \in Tokens
  <1> DEFINE n == HeaderEnd(s)
  <1>1. n \in 0..Len(s) /\ IsPrefix(BeginPrefix, s) /\ n > 3 BY HeaderEndOf
  <1>2. Len(s) \in Nat BY TokensAre
  <1>3. s[1] = Dashes /\ s[2] = Begin /\ s[3] = Space BY <1>1, BeginIs
  <1> HIDE DEF n
  <1>4. /\ SubSeq(s, 1, n) \in Tokens /\ Len(SubSeq(s, 1, n)) = n
        /\ \A i \in 1..n : SubSeq(s, 1, n)[i] = s[i]
    BY <1>1, FrontIs
  <1>5. n >= 3 /\ 1 \in 1..n /\ 2 \in 1..n /\ 3 \in 1..n BY <1>1, <1>2
  <1>6. IsPrefix(BeginPrefix, SubSeq(s, 1, n)) BY <1>3, <1>4, <1>5, BeginIs
  <1>7. After(s, n) \in Tokens BY <1>1, AfterIs
  <1> QED BY <1>4, <1>6, <1>7 DEF n

\* What CutBlock takes off and what it leaves.
LEMMA CutBlockText ==
  ASSUME cert \in Tokens, FooterEnd > 0
  PROVE  /\ SubSeq(cert, 1, EndStart - 1) \in Tokens
         /\ SubSeq(cert, EndStart, FooterEnd) \in Tokens
         /\ Len(SubSeq(cert, EndStart, FooterEnd)) \in Nat \ {0}
         /\ SubSeq(cert, EndStart, FooterEnd)[Len(SubSeq(cert, EndStart, FooterEnd))] = Dashes
         /\ After(cert, FooterEnd) \in Tokens
  <1> DEFINE e == EndStart
             n == FooterEnd
             f == SubSeq(cert, e, n)
  <1>1. e \in 1..Len(cert) /\ n \in (e + 3)..Len(cert) /\ cert[n] = Dashes BY FooterEndOf
  <1>2. Len(cert) \in Nat BY TokensAre
  <1> HIDE DEF e, n
  <1>3. /\ e - 1 \in 0..Len(cert) /\ n \in 0..Len(cert)
        /\ e \in 1..(Len(cert) + 1) /\ n \in (e - 1)..Len(cert)
    BY <1>1, <1>2
  <1>4. SubSeq(cert, 1, e - 1) \in Tokens /\ After(cert, n) \in Tokens BY <1>3, FrontIs, AfterIs
  <1>5. f \in Tokens /\ Len(f) = n - e + 1 /\ \A i \in 1..(n - e + 1) : f[i] = cert[e + i - 1]
    BY <1>3, PartIs
  <1>6. n - e + 1 \in Nat \ {0} /\ n - e + 1 \in 1..(n - e + 1) /\ e + (n - e + 1) - 1 = n
    BY <1>1, <1>2
  <1> HIDE DEF f
  <1>7. Len(f) \in Nat \ {0} /\ f[Len(f)] = Dashes BY <1>1, <1>5, <1>6
  <1> QED BY <1>4, <1>5, <1>7 DEF f, e, n

\* What CutBlock writes.
Written(o, h, b, f) == o \o h \o <<Newline>> \o b \o f \o <<Newline>>

\* What CutBlock writes is a text.
LEMMA WrittenText ==
  ASSUME NEW o \in Tokens, NEW h \in Tokens, NEW b \in Tokens, NEW f \in Tokens
  PROVE  Written(o, h, b, f) \in Tokens
  <1>1. <<Newline>> \in Tokens BY Markers
  <1>2. o \o h \in Tokens BY Joined
  <1>3. o \o h \o <<Newline>> \in Tokens BY <1>1, <1>2, Joined
  <1>4. o \o h \o <<Newline>> \o b \in Tokens BY <1>3, Joined
  <1>5. o \o h \o <<Newline>> \o b \o f \in Tokens BY <1>4, Joined
  <1> QED BY <1>1, <1>5, Joined DEF Written

\* What Finish gives.
LEMMA ResultText == ASSUME cert \in Tokens, out \in Tokens PROVE Result \in Tokens
  <1>1. TrimRight(cert, {Newline}) \in Tokens BY TrimRightText
  <1>2. TrimRight(cert, {Newline}) \o <<Newline>> \in Tokens BY <1>1, WithNewline
  <1> QED BY <1>2 DEF Result

\* Every step preserves the types.
LEMMA TypesStep == ASSUME TypeOK, [Next]_vars PROVE TypeOK'
  <1> USE DEF TypeOK
  <1>1. CASE Trim BY <1>1, TrimSpaceOf, Zenon DEF Trim
  <1>2. CASE CutHeader
    <2>1. TrimLeft(After(cert, HeaderEnd(cert)), {Space}) \in Tokens
      BY <1>2, CutHeaderText, TrimLeftText DEF CutHeader
    <2> QED BY <1>2, <2>1, CutHeaderText DEF CutHeader
  <1>3. CASE CutBlock
    <2> DEFINE b == Wrapped(Unspaced(SubSeq(cert, 1, EndStart - 1)), Width)
               f == SubSeq(cert, EndStart, FooterEnd)
    <2>1. b \in Tokens /\ f \in Tokens
      BY <1>3, CutBlockText, UnspacedIsText, WrappedIsText DEF CutBlock
    <2>2. TrimLeft(After(cert, FooterEnd), {Space}) \in Tokens
      BY <1>3, CutBlockText, TrimLeftText DEF CutBlock
    <2>3. Written(out, header, b, f) \in Tokens BY <2>1, WrittenText
    <2>4. out' = Written(out, header, b, f) BY <1>3 DEF CutBlock, Written
    <2> QED BY <1>3, <2>2, <2>3, <2>4 DEF CutBlock
  <1>4. CASE LeaveLoop BY <1>4 DEF LeaveLoop
  <1>5. CASE Finish
    <2>1. Result \in Tokens /\ << >> \in Tokens BY ResultText, Markers
    <2> QED BY <1>5, <2>1 DEF Finish
  <1>6. CASE UNCHANGED vars BY <1>6 DEF vars
  <1> QED BY <1>1, <1>2, <1>3, <1>4, <1>5, <1>6 DEF Next, Stopped

\* Type correctness, in every behaviour: what normalizePEMCert reads and writes is
\* text, and a block is only begun by a BEGIN line.
THEOREM TypeCorrect == Spec => []TypeOK
  <1>1. Init => TypeOK
    <2>1. << >> \in Tokens BY Markers
    <2> QED BY <2>1, TextsAssumption DEF Init, TypeOK
  <1>2. TypeOK /\ [Next]_vars => TypeOK' BY TypesStep
  <1> QED BY <1>1, <1>2, PTL DEF Spec

-----------------------------------------------------------------------------
(***************************************************************************)
(* To normalize twice is to normalize once.                                *)
(*                                                                         *)
(* The result of the first round is a core and a newline, where the core   *)
(* has no space at its ends and is a file with its newlines or no block at *)
(* all: the second round takes the newline off and puts it back.           *)
(***************************************************************************)

\* Lines of a PEM file: what is written is never trimmed but for the last newline.
Lines(s) ==
  /\ Len(s) > 1
  /\ s[1] = Dashes
  /\ s[Len(s) - 1] = Dashes
  /\ s[Len(s)] = Newline
  /\ \E i \in 1..(Len(s) - 1) : s[i] = Newline

\* Lines are a trimmed text and a newline.
LEMMA LinesCore ==
  ASSUME NEW s \in Tokens, Lines(s)
  PROVE  \E core \in Tokens : s = core \o <<Newline>> /\ Trimmed(core) /\ Contains(core, Newline)
  <1> DEFINE n == Len(s) - 1
             core == SubSeq(s, 1, n)
  <1>1. /\ Len(s) \in Nat /\ Len(s) > 1 /\ s[1] = Dashes /\ s[n] = Dashes /\ s[Len(s)] = Newline
        /\ \E i \in 1..n : s[i] = Newline
    BY TokensAre DEF Lines
  <1>2. n \in 0..Len(s) /\ 1 \in 1..n /\ n \in 1..n /\ n \in Nat /\ Len(s) = n + 1 BY <1>1
  <1> HIDE DEF n
  <1>3. core \in Tokens /\ Len(core) = n /\ \A i \in 1..n : core[i] = s[i] BY <1>2, FrontIs
  <1> HIDE DEF core
  <1>4. Trimmed(core)
    <2>1. core[1] = Dashes /\ core[Len(core)] = Dashes BY <1>1, <1>2, <1>3
    <2> QED BY <2>1, Distinct DEF Trimmed
  <1>5. Contains(core, Newline) BY <1>1, <1>3 DEF Contains
  <1>6. s = core \o <<Newline>>
    <2>1. /\ core \o <<Newline>> \in Tokens /\ Len(core \o <<Newline>>) = n + 1
          /\ \A i \in 1..n : (core \o <<Newline>>)[i] = core[i]
          /\ (core \o <<Newline>>)[n + 1] = Newline
      BY <1>3, WithNewline
    <2>2. ASSUME NEW i \in 1..Len(s) PROVE s[i] = (core \o <<Newline>>)[i]
      <3>1. i \in 1..n \/ i = n + 1 BY <1>2
      <3> QED BY <1>1, <1>2, <1>3, <2>1, <3>1
    <2> QED BY <1>2, <2>1, <2>2, SameTokens
  <1> QED BY <1>3, <1>4, <1>5, <1>6

\* What a text begins with it begins with when another follows.
LEMMA Starts ==
  ASSUME NEW s \in Tokens, NEW t \in Tokens, Len(s) >= 1
  PROVE  s \o t \in Tokens /\ (s \o t)[1] = s[1] /\ Len(s \o t) >= 1
  <1>1. Len(s) \in Nat /\ Len(t) \in Nat BY TokensAre
  <1>2. 1 \in 1..Len(s) BY <1>1
  <1>3. s \o t \in Tokens /\ Len(s \o t) = Len(s) + Len(t) /\ (s \o t)[1] = s[1] BY <1>2, Joined
  <1> QED BY <1>1, <1>3

\* What CutBlock writes after lines is lines.
LEMMA LinesGrow ==
  ASSUME NEW o \in Tokens, o = << >> \/ Lines(o),
         NEW h \in Tokens, IsPrefix(BeginPrefix, h),
         NEW b \in Tokens,
         NEW f \in Tokens, Len(f) \in Nat \ {0}, f[Len(f)] = Dashes
  PROVE  Lines(Written(o, h, b, f))
  <1> DEFINE t == o \o h
             u == t \o <<Newline>>
             v == u \o b
             x == v \o f
             y == x \o <<Newline>>
  <1>1. h[1] = Dashes /\ Len(h) >= 1 /\ Len(h) \in Nat
    <2>1. Len(h) >= 3 /\ h[1] = Dashes BY BeginIs
    <2> QED BY <2>1, TokensAre
  <1>2. t \in Tokens /\ Len(t) \in Nat /\ Len(t) >= 1 /\ t[1] = Dashes
    <2>1. t \in Tokens /\ Len(t) = Len(o) + Len(h) BY Joined
    <2>2. Len(o) \in Nat BY TokensAre
    <2>3. CASE o = << >>
      <3>1. t = h BY <2>3, ConcatEmptySeq DEF Tokens
      <3> HIDE DEF t
      <3> QED BY <1>1, <3>1
    <2>4. CASE Lines(o)
      <3>1. Len(o) >= 1 /\ o[1] = Dashes BY <2>2, <2>4 DEF Lines
      <3>2. t[1] = Dashes /\ Len(t) >= 1 BY <3>1, Starts
      <3> HIDE DEF t
      <3> QED BY <2>1, <3>2, TokensAre
    <2> QED BY <2>3, <2>4
  <1> HIDE DEF t
  <1>3. /\ u \in Tokens /\ Len(u) = Len(t) + 1 /\ u[Len(t) + 1] = Newline
        /\ \A i \in 1..Len(t) : u[i] = t[i]
    BY <1>2, WithNewline
  <1> HIDE DEF u
  <1>4. 1 \in 1..Len(t) /\ 1 \in 1..Len(u) /\ Len(t) + 1 \in 1..Len(u) /\ Len(u) \in Nat
    BY <1>2, <1>3
  <1>5. u[1] = Dashes BY <1>2, <1>3, <1>4
  <1>6. v \in Tokens /\ Len(v) = Len(u) + Len(b) /\ \A i \in 1..Len(u) : v[i] = u[i] BY <1>3, Joined
  <1> HIDE DEF v
  <1>7. v[1] = Dashes /\ v[Len(t) + 1] = Newline BY <1>3, <1>4, <1>5, <1>6
  <1>8. Len(v) \in Nat /\ 1 \in 1..Len(v) /\ Len(t) + 1 \in 1..Len(v)
    <2>1. Len(b) \in Nat BY TokensAre
    <2> QED BY <1>4, <1>6, <2>1
  <1>9. /\ x \in Tokens /\ Len(x) = Len(v) + Len(f)
        /\ \A i \in 1..Len(v) : x[i] = v[i]
        /\ \A i \in 1..Len(f) : x[Len(v) + i] = f[i]
    BY <1>6, Joined
  <1> HIDE DEF x
  <1>10. Len(f) \in 1..Len(f) OBVIOUS
  <1>11. x[1] = Dashes /\ x[Len(t) + 1] = Newline /\ x[Len(x)] = Dashes
    BY <1>7, <1>8, <1>9, <1>10
  <1>12. /\ Len(x) \in Nat /\ 1 \in 1..Len(x) /\ Len(t) + 1 \in 1..Len(x) /\ Len(x) \in 1..Len(x)
    BY <1>8, <1>9
  <1>13. /\ y \in Tokens /\ Len(y) = Len(x) + 1 /\ y[Len(x) + 1] = Newline
         /\ \A i \in 1..Len(x) : y[i] = x[i]
    BY <1>9, WithNewline
  <1>14. y = Written(o, h, b, f) BY DEF y, x, v, u, t, Written
  <1> HIDE DEF y
  <1>15. y[1] = Dashes /\ y[Len(t) + 1] = Newline /\ y[Len(x)] = Dashes
    BY <1>11, <1>12, <1>13
  <1>16. Len(y) > 1 /\ Len(y) - 1 = Len(x) BY <1>12, <1>13
  <1>17. Lines(y) BY <1>12, <1>13, <1>15, <1>16 DEF Lines
  <1> QED BY <1>14, <1>17

\* What is left of a line to read is a line with no space at its ends.
Line(s) == s \in Tokens /\ Trimmed(s) /\ ~Contains(s, Newline)

\* What is left of a line when its front has been read is a line.
LEMMA RestOfLine ==
  ASSUME NEW s, Line(s), NEW n \in 0..Len(s)
  PROVE  Line(TrimLeft(After(s, n), {Space}))
  <1>1. s \in Tokens /\ Len(s) \in Nat BY TokensAre DEF Line
  <1> DEFINE a == After(s, n)
             r == TrimLeft(a, {Space})
  <1>2. a \in Tokens /\ Len(a) = Len(s) - n /\ \A i \in 1..(Len(s) - n) : a[i] = s[n + i]
    BY <1>1, AfterIs
  <1> HIDE DEF a
  <1>3. PICK m \in 0..Len(a) : r = After(a, m) /\ (m < Len(a) => a[m + 1] \notin {Space})
    BY <1>2, TrimLeftOf
  <1>4. r \in Tokens /\ Len(r) = Len(a) - m /\ \A i \in 1..(Len(a) - m) : r[i] = a[m + i]
    <2> HIDE DEF r
    <2> QED BY <1>2, <1>3, AfterIs
  <1> HIDE DEF r
  <1>5. ASSUME NEW i \in 1..Len(r) PROVE n + m + i \in 1..Len(s) /\ r[i] = s[n + m + i]
    <2>1. i \in 1..(Len(a) - m) /\ m + i \in 1..(Len(s) - n) /\ n + (m + i) = n + m + i
      BY <1>1, <1>2, <1>4
    <2>2. n + m + i \in 1..Len(s) BY <1>1, <2>1
    <2> QED BY <1>2, <1>4, <2>1, <2>2
  <1>6. ~Contains(r, Newline)
    <2>1. \A i \in 1..Len(r) : r[i] # Newline BY <1>5 DEF Line, Contains
    <2> QED BY <2>1 DEF Contains
  <1>7. ASSUME r # << >> PROVE r[1] \notin {Space, Newline} /\ r[Len(r)] \notin {Space, Newline}
    <2>1. Len(r) \in Nat /\ Len(r) # 0 BY <1>4, <1>7, Empty, TokensAre
    <2>2. /\ 1 \in 1..Len(r) /\ Len(r) \in 1..Len(r)
          /\ m < Len(a) /\ n + m + Len(r) = Len(s) /\ Len(s) # 0
      BY <1>1, <1>2, <1>4, <2>1
    <2>3. r[Len(r)] = s[Len(s)] BY <1>5, <2>2
    <2>4. s[Len(s)] \notin {Space, Newline} BY <1>1, <2>2, Empty DEF Line, Trimmed
    <2>5. r[1] = a[m + 1] BY <1>2, <1>4, <2>2
    <2>6. r[1] # Newline BY <1>6, <2>2 DEF Contains
    <2> QED BY <1>3, <2>2, <2>3, <2>4, <2>5, <2>6
  <1>8. Line(r) BY <1>4, <1>6, <1>7 DEF Line, Trimmed
  <1> QED BY <1>8 DEF r, a

\* A core that the next round leaves as it is.
Settled(core) ==
  /\ core \in Tokens /\ Trimmed(core)
  /\ Contains(core, Newline) \/ HeaderEnd(core) = 0 \/ BeginTwice

\* Where the first round is.
FirstRound ==
  round = 1 =>
    /\ pc \in {"trim", "header", "block", "finish"}
    /\ out = << >> \/ Lines(out)
    /\ pc = "trim" => cert = text /\ out = << >>
    /\ pc \in {"header", "block"} => Line(cert)
    /\ pc = "header" /\ out = << >> => cert = TrimSpace(text)
    /\ pc = "block" /\ out = << >> => BeginTwice \/ HeaderEnd(cert) = 0
    /\ pc = "finish" /\ out = << >> => Settled(cert)

\* Where the second round is, for the core of the first's result.
Repeats(core) ==
  /\ Settled(core)
  /\ first = core \o <<Newline>>
  /\ pc = "trim" => cert = first /\ out = << >>
  /\ pc = "header" => cert = core /\ out = << >> /\ HeaderEnd(core) = 0
  /\ pc # "block"
  /\ pc = "finish" => cert = core /\ out = << >>
  /\ pc = "done" => out = first

SecondRound == round = 2 => BeginTwice \/ \E core \in Tokens : Repeats(core)

TwiceInv == TypeOK /\ FirstRound /\ SecondRound

\* Trim, in the first round.
LEMMA FirstTrim == ASSUME TwiceInv, round = 1, Trim PROVE TwiceInv'
  <1>1. TypeOK' BY TypesStep DEF TwiceInv, Next
  <1>2. cert = text /\ out = << >> /\ cert \in Tokens BY DEF TwiceInv, FirstRound, Trim, TypeOK
  <1>3. cert' = TrimSpace(text) /\ out' = << >> /\ round' = 1 /\ text' = text
    BY <1>2 DEF Trim
  <1>4. cert' \in Tokens /\ Trimmed(cert') BY <1>2, <1>3, TrimSpaceOf
  <1>5. FirstRound'
    <2>1. CASE Contains(cert', Newline)
      <3>1. pc' = "finish" BY <2>1 DEF Trim
      <3> QED BY <1>3, <1>4, <2>1, <3>1 DEF FirstRound, Settled
    <2>2. CASE ~Contains(cert', Newline)
      <3>1. pc' = "header" BY <2>2 DEF Trim
      <3> QED BY <1>3, <1>4, <2>2, <3>1 DEF FirstRound, Line
    <2> QED BY <2>1, <2>2
  <1>6. SecondRound' BY <1>3 DEF SecondRound
  <1> QED BY <1>1, <1>5, <1>6 DEF TwiceInv

\* CutHeader, in the first round.
LEMMA FirstCutHeader == ASSUME TwiceInv, round = 1, CutHeader PROVE TwiceInv'
  <1>1. TypeOK' BY TypesStep DEF TwiceInv, Next
  <1> DEFINE rest == TrimLeft(After(cert, HeaderEnd(cert)), {Space})
  <1>2. /\ cert' = rest /\ pc' = "block" /\ out' = out /\ round' = 1 /\ text' = text
        /\ pc = "header" /\ HeaderEnd(cert) > 0
    BY DEF CutHeader
  <1>3. /\ Line(cert) /\ (out = << >> \/ Lines(out))
        /\ out = << >> => cert = TrimSpace(text)
    BY <1>2 DEF TwiceInv, FirstRound
  <1>4. HeaderEnd(cert) \in 0..Len(cert) BY <1>3, HeaderEndOf DEF Line
  <1>5. Line(rest) BY <1>3, <1>4, RestOfLine
  <1> HIDE DEF rest
  <1>6. ASSUME out = << >> PROVE BeginTwice \/ HeaderEnd(rest) = 0
    <2>1. cert = TrimSpace(text) BY <1>3, <1>6
    <2>2. CASE IsPrefix(BeginPrefix, rest)
      BY <1>2, <2>1, <2>2, Zenon DEF BeginTwice, rest
    <2>3. CASE ~IsPrefix(BeginPrefix, rest)
      <3>1. ~(HeaderEnd(rest) > 0) BY <1>5, <2>3, HeaderEndOf DEF Line
      <3>2. HeaderEnd(rest) \in 0..Len(rest) /\ Len(rest) \in Nat
        BY <1>5, HeaderEndOf, TokensAre DEF Line
      <3> QED BY <3>1, <3>2
    <2> QED BY <2>2, <2>3
  <1>7. BeginTwice' = BeginTwice BY <1>2 DEF BeginTwice
  <1>8. FirstRound' BY <1>2, <1>3, <1>5, <1>6, <1>7, Zenon DEF FirstRound
  <1>9. SecondRound' BY <1>2 DEF SecondRound
  <1> QED BY <1>1, <1>8, <1>9 DEF TwiceInv

\* CutBlock, in the first round.
LEMMA FirstCutBlock == ASSUME TwiceInv, round = 1, CutBlock PROVE TwiceInv'
  <1>1. TypeOK' BY TypesStep DEF TwiceInv, Next
  <1> DEFINE rest == TrimLeft(After(cert, FooterEnd), {Space})
             b == Wrapped(Unspaced(SubSeq(cert, 1, EndStart - 1)), Width)
             f == SubSeq(cert, EndStart, FooterEnd)
  <1>2. /\ cert' = rest /\ pc' = "header" /\ round' = 1 /\ text' = text
        /\ out' = Written(out, header, b, f)
        /\ pc = "block" /\ FooterEnd > 0
    BY DEF CutBlock, Written
  <1>3. /\ Line(cert) /\ (out = << >> \/ Lines(out))
        /\ {cert, out, header} \subseteq Tokens /\ IsPrefix(BeginPrefix, header)
    BY <1>2 DEF TwiceInv, FirstRound, TypeOK
  <1>4. /\ b \in Tokens /\ f \in Tokens
        /\ Len(f) \in Nat \ {0} /\ f[Len(f)] = Dashes
    BY <1>2, <1>3, CutBlockText, UnspacedIsText, WrappedIsText
  <1>5. Line(rest)
    <2>1. EndStart \in 1..Len(cert) /\ FooterEnd \in (EndStart + 3)..Len(cert)
      BY <1>2, <1>3, FooterEndOf
    <2>2. Len(cert) \in Nat BY <1>3, TokensAre
    <2>3. FooterEnd \in 0..Len(cert) BY <2>1, <2>2
    <2> QED BY <1>3, <2>3, RestOfLine
  <1> HIDE DEF rest, b, f
  <1>6. Lines(out') BY <1>2, <1>3, <1>4, LinesGrow
  <1>7. out' # << >>
    <2>1. Len(out') # 0
      <3>1. Len(out') > 1 BY <1>6 DEF Lines
      <3> QED BY <3>1
    <2>2. out' \in Tokens BY <1>1 DEF TypeOK
    <2> QED BY <2>1, <2>2, Empty
  <1>8. FirstRound' BY <1>2, <1>5, <1>6, <1>7, Zenon DEF FirstRound
  <1>9. SecondRound' BY <1>2 DEF SecondRound
  <1> QED BY <1>1, <1>8, <1>9 DEF TwiceInv

\* LeaveLoop, in the first round.
LEMMA FirstLeaveLoop == ASSUME TwiceInv, round = 1, LeaveLoop PROVE TwiceInv'
  <1>1. TypeOK' BY TypesStep DEF TwiceInv, Next
  <1>2. /\ pc' = "finish" /\ cert' = cert /\ out' = out /\ round' = 1 /\ text' = text
        /\ pc \in {"header", "block"} /\ (pc = "header" => HeaderEnd(cert) = 0)
    BY DEF LeaveLoop
  <1>3. Line(cert) /\ (out = << >> \/ Lines(out)) BY <1>2 DEF TwiceInv, FirstRound
  <1>4. out = << >> => HeaderEnd(cert) = 0 \/ BeginTwice BY <1>2 DEF TwiceInv, FirstRound
  <1>5. (HeaderEnd(cert))' = HeaderEnd(cert) /\ BeginTwice' = BeginTwice
    BY <1>2 DEF HeaderEnd, BeginTwice
  <1>6. FirstRound' BY <1>2, <1>3, <1>4, <1>5 DEF FirstRound, Settled, Line
  <1>7. SecondRound' BY <1>2 DEF SecondRound
  <1> QED BY <1>1, <1>6, <1>7 DEF TwiceInv

\* The result of the first round is a settled core and a newline.
LEMMA ResultOf ==
  ASSUME TwiceInv, round = 1, Finish
  PROVE  \E core \in Tokens : Settled(core) /\ Result = core \o <<Newline>>
  <1>1. /\ pc = "finish" /\ cert \in Tokens /\ out \in Tokens
        /\ out = << >> \/ Lines(out)
        /\ out = << >> => Settled(cert)
    BY DEF Finish, TwiceInv, FirstRound, TypeOK
  <1>2. CASE out = << >>
    <2>1. TrimRight(cert, {Newline}) = cert BY <1>1, <1>2, TrimNewline DEF Settled
    <2>2. Result = cert \o <<Newline>> BY <1>2, <2>1 DEF Result
    <2> QED BY <1>1, <1>2, <2>2
  <1>3. CASE out # << >>
    <2>1. PICK core \in Tokens :
            out = core \o <<Newline>> /\ Trimmed(core) /\ Contains(core, Newline)
      BY <1>1, <1>3, LinesCore
    <2>2. Settled(core) BY <2>1 DEF Settled
    <2> QED BY <1>3, <2>1, <2>2 DEF Result
  <1> QED BY <1>2, <1>3

\* Finish, in the first round.
LEMMA FirstFinish == ASSUME TwiceInv, round = 1, Finish PROVE TwiceInv'
  <1>1. TypeOK' BY TypesStep DEF TwiceInv, Next
  <1>2. PICK core \in Tokens : Settled(core) /\ Result = core \o <<Newline>> BY ResultOf
  <1>3. /\ round' = 2 /\ pc' = "trim" /\ first' = Result /\ cert' = Result /\ out' = << >>
        /\ text' = text
    BY DEF Finish
  <1>4. Settled(core)' BY <1>2, <1>3 DEF Settled, BeginTwice
  <1>5. Repeats(core)' BY <1>2, <1>3, <1>4 DEF Repeats
  <1>6. SecondRound' BY <1>2, <1>5 DEF SecondRound
  <1>7. FirstRound' BY <1>3 DEF FirstRound
  <1> QED BY <1>1, <1>6, <1>7 DEF TwiceInv

\* Every step of the second round.
LEMMA SecondStep == ASSUME TwiceInv, round = 2, Next PROVE TwiceInv'
  <1>1. TypeOK' BY TypesStep DEF TwiceInv
  <1>2. round' = 2 /\ text' = text /\ first' = first
    <2>1. round # 1 OBVIOUS
    <2> QED BY <2>1 DEF Next, Trim, CutHeader, CutBlock, LeaveLoop, Finish, Stopped, vars
  <1>3. FirstRound' BY <1>2 DEF FirstRound
  <1>4. BeginTwice' = BeginTwice BY <1>2 DEF BeginTwice
  <1>5. ASSUME NEW core \in Tokens, Repeats(core) PROVE BeginTwice \/ Repeats(core)'
    <2> SUFFICES ASSUME ~BeginTwice PROVE Repeats(core)' OBVIOUS
    <2>1. /\ Trimmed(core) /\ first = core \o <<Newline>>
          /\ Contains(core, Newline) \/ HeaderEnd(core) = 0
          /\ TrimSpace(core \o <<Newline>>) = core /\ TrimRight(core, {Newline}) = core
      BY <1>5, TrimNewline DEF Repeats, Settled
    <2>2. Settled(core)' BY <1>4, <1>5 DEF Repeats, Settled
    <2>3. CASE Trim
      <3>1. cert' = core /\ out' = << >> /\ pc' \in {"header", "finish"}
        BY <1>5, <2>1, <2>3, Zenon DEF Trim, Repeats
      <3>2. pc' = "header" => HeaderEnd(core) = 0 BY <2>1, <2>3, <3>1 DEF Trim
      <3> QED BY <1>2, <2>1, <2>2, <3>1, <3>2 DEF Repeats
    <2>4. CASE CutHeader
      <3>1. ~(0 > 0) OBVIOUS
      <3> QED BY <1>5, <2>4, <3>1, Zenon DEF CutHeader, Repeats
    <2>5. CASE CutBlock BY <1>5, <2>5 DEF CutBlock, Repeats
    <2>6. CASE LeaveLoop
      <3>1. pc = "header" /\ pc' = "finish" /\ cert' = cert /\ out' = out
        BY <1>5, <2>6 DEF LeaveLoop, Repeats
      <3> QED BY <1>2, <1>5, <2>1, <2>2, <3>1 DEF Repeats
    <2>7. CASE Finish
      <3>1. pc = "finish" /\ pc' = "done" /\ out' = Result BY <2>7 DEF Finish
      <3>2. Result = core \o <<Newline>> BY <1>5, <2>1, <3>1 DEF Result, Repeats
      <3> QED BY <1>2, <2>1, <2>2, <3>1, <3>2 DEF Repeats
    <2>8. CASE Stopped BY <1>2, <1>5, <2>2, <2>8 DEF Stopped, vars, Repeats
    <2> QED BY <2>3, <2>4, <2>5, <2>6, <2>7, <2>8 DEF Next
  <1>6. BeginTwice \/ \E core \in Tokens : Repeats(core) BY DEF TwiceInv, SecondRound
  <1>7. SecondRound' BY <1>4, <1>5, <1>6 DEF SecondRound
  <1> QED BY <1>1, <1>3, <1>7 DEF TwiceInv

\* The initial states satisfy the invariant.
LEMMA TwiceInit == Init => TwiceInv
  <1>1. << >> \in Tokens BY Markers
  <1> QED BY <1>1, TextsAssumption DEF Init, TwiceInv, TypeOK, FirstRound, SecondRound

\* Every step preserves it.
LEMMA TwiceStep == TwiceInv /\ [Next]_vars => TwiceInv'
  <1> SUFFICES ASSUME TwiceInv, [Next]_vars PROVE TwiceInv' OBVIOUS
  <1>1. CASE UNCHANGED vars
    <2>1. TypeOK' BY TypesStep DEF TwiceInv
    <2>2. FirstRound' BY <1>1 DEF vars, TwiceInv, FirstRound, Settled, BeginTwice
    <2>3. SecondRound' BY <1>1 DEF vars, TwiceInv, SecondRound, Repeats, Settled, BeginTwice
    <2> QED BY <2>1, <2>2, <2>3 DEF TwiceInv
  <1>2. CASE round = 2 /\ Next BY <1>2, SecondStep
  <1>3. CASE round = 1 /\ Next
    <2>1. ~Stopped BY <1>3 DEF Stopped, TwiceInv, FirstRound
    <2> QED BY <1>3, <2>1, FirstTrim, FirstCutHeader, FirstCutBlock, FirstLeaveLoop, FirstFinish
          DEF Next
  <1>4. round \in {1, 2} BY DEF TwiceInv, TypeOK
  <1> QED BY <1>1, <1>2, <1>3, <1>4

\* The invariant, in every behaviour.
LEMMA Twice == Spec => []TwiceInv
  BY TwiceInit, TwiceStep, PTL DEF Spec

\* To normalize the result of normalizePEMCert leaves it as it is, for every text of
\* a class, damaged or not, but for one BEGIN line directly after another.
THEOREM Idempotent == Spec => []SameTwice
  <1>1. TwiceInv => SameTwice
    <2>1. TwiceInv /\ pc = "done" => round = 2 BY DEF TwiceInv, FirstRound, TypeOK
    <2> QED BY <2>1 DEF TwiceInv, SecondRound, Repeats, SameTwice
  <1> QED BY <1>1, Twice, PTL

-----------------------------------------------------------------------------
(***************************************************************************)
(* Markers, lines and bodies of a file of certificates.                    *)
(***************************************************************************)

\* One text after the other is a text.
LEMMA JoinedText ==
  ASSUME NEW s \in Tokens, NEW t \in Tokens PROVE s \o t \in Tokens
  BY Joined

\* In whatever order texts are joined.
LEMMA Regrouped ==
  ASSUME NEW a \in Tokens, NEW b \in Tokens, NEW c \in Tokens
  PROVE  (a \o b) \o c = a \o (b \o c)
  BY ConcatAssociative DEF Tokens

\* Nothing in front or behind.
LEMMA JoinedNone ==
  ASSUME NEW s \in Tokens PROVE << >> \o s = s /\ s \o << >> = s
  BY ConcatEmptySeq DEF Tokens

\* The two parts of a joined text.
LEMMA PartsOfJoin ==
  ASSUME NEW s \in Tokens, NEW t \in Tokens
  PROVE  SubSeq(s \o t, 1, Len(s)) = s /\ After(s \o t, Len(s)) = t
  <1> DEFINE u == s \o t
  <1>1. Len(s) \in Nat /\ Len(t) \in Nat BY TokensAre
  <1>2. /\ u \in Tokens /\ Len(u) = Len(s) + Len(t)
        /\ \A i \in 1..Len(s) : u[i] = s[i]
        /\ \A i \in 1..Len(t) : u[Len(s) + i] = t[i]
    BY Joined
  <1> HIDE DEF u
  <1>3. Len(s) \in 0..Len(u) /\ Len(u) - Len(s) = Len(t) BY <1>1, <1>2
  <1>4. /\ SubSeq(u, 1, Len(s)) \in Tokens /\ Len(SubSeq(u, 1, Len(s))) = Len(s)
        /\ \A i \in 1..Len(s) : SubSeq(u, 1, Len(s))[i] = u[i]
    BY <1>2, <1>3, FrontIs
  <1>5. SubSeq(u, 1, Len(s)) = s BY <1>2, <1>4, SameTokens
  <1>6. /\ After(u, Len(s)) \in Tokens /\ Len(After(u, Len(s))) = Len(t)
        /\ \A i \in 1..Len(t) : After(u, Len(s))[i] = u[Len(s) + i]
    BY <1>2, <1>3, AfterIs
  <1>7. After(u, Len(s)) = t BY <1>2, <1>6, SameTokens
  <1> QED BY <1>5, <1>7 DEF u

\* The three parts of a text that is joined twice.
LEMMA MiddleOfJoin ==
  ASSUME NEW a \in Tokens, NEW b \in Tokens, NEW c \in Tokens
  PROVE  /\ SubSeq((a \o b) \o c, Len(a) + 1, Len(a) + Len(b)) = b
         /\ After((a \o b) \o c, Len(a) + Len(b)) = c
         /\ SubSeq((a \o b) \o c, 1, Len(a)) = a
         /\ After((a \o b) \o c, Len(a)) = b \o c
  <1> DEFINE u == a \o b
             v == u \o c
  <1>1. Len(a) \in Nat /\ Len(b) \in Nat /\ Len(c) \in Nat BY TokensAre
  <1>2. u \in Tokens /\ Len(u) = Len(a) + Len(b) /\ \A i \in 1..Len(b) : u[Len(a) + i] = b[i]
    BY Joined
  <1>a. v = a \o (b \o c) BY Regrouped
  <1>b. b \o c \in Tokens BY JoinedText
  <1>3. v = a \o (b \o c) /\ b \o c \in Tokens BY <1>a, <1>b
  <1>4. SubSeq(v, 1, Len(a)) = a /\ After(v, Len(a)) = b \o c
    <2> HIDE DEF v
    <2> QED BY <1>3, PartsOfJoin
  <1> HIDE DEF u
  <1>5. After(v, Len(a) + Len(b)) = c BY <1>2, PartsOfJoin
  <1>6. v \in Tokens /\ Len(v) = Len(u) + Len(c) /\ \A i \in 1..Len(u) : v[i] = u[i] BY <1>2, Joined
  <1> HIDE DEF v
  <1> DEFINE m == Len(a) + 1
             n == Len(a) + Len(b)
             p == SubSeq(v, m, n)
  <1>7. /\ m \in 1..(Len(v) + 1) /\ n \in (m - 1)..Len(v) /\ n - m + 1 = Len(b)
        /\ \A i \in 1..Len(b) : m + i - 1 = Len(a) + i /\ Len(a) + i \in 1..Len(u)
    BY <1>1, <1>2, <1>6
  <1> HIDE DEF m, n
  <1>8. p \in Tokens /\ Len(p) = n - m + 1 /\ \A i \in 1..(n - m + 1) : p[i] = v[m + i - 1]
    BY <1>6, <1>7, PartIs
  <1> HIDE DEF p
  <1>9. ASSUME NEW i \in 1..Len(b) PROVE p[i] = b[i]
    <2>1. p[i] = v[Len(a) + i] BY <1>7, <1>8
    <2>2. v[Len(a) + i] = u[Len(a) + i] BY <1>6, <1>7
    <2> QED BY <1>2, <2>1, <2>2
  <1>10. p = b BY <1>7, <1>8, <1>9, SameTokens
  <1> QED BY <1>4, <1>5, <1>10 DEF p, m, n, v, u

\* A marker is found where the first dashes are.
LEMMA FirstDashes ==
  ASSUME NEW a \in Tokens, \A i \in 1..Len(a) : a[i] # Dashes,
         NEW p \in Tokens, Len(p) >= 1, p[1] = Dashes,
         NEW r \in Tokens, IsPrefix(p, r)
  PROVE  IndexOf(a \o r, p) = Len(a) + 1
  <1> DEFINE u == a \o r
  <1>1. Len(a) \in Nat /\ Len(r) \in Nat /\ Len(p) \in Nat /\ Len(p) <= Len(r)
    BY TokensAre, PrefixIs
  <1>2. u \in Tokens /\ Len(u) = Len(a) + Len(r) /\ \A i \in 1..Len(a) : u[i] = a[i] BY Joined
  <1>3. After(u, Len(a)) = r BY PartsOfJoin
  <1> HIDE DEF u
  <1> DEFINE n == Len(a) + 1
  <1>4. /\ n \in 1..Len(u) /\ n - 1 = Len(a)
        /\ \A i \in 1..(n - 1) : i - 1 \in 0..Len(u) /\ i \in 1..Len(a)
    BY <1>1, <1>2
  <1>5. ASSUME NEW i \in 1..(n - 1), IsPrefix(p, After(u, i - 1)) PROVE FALSE
    <2>1. /\ After(u, i - 1) \in Tokens
          /\ \A j \in 1..(Len(u) - (i - 1)) : After(u, i - 1)[j] = u[i - 1 + j]
      BY <1>2, <1>4, AfterIs
    <2>2. 1 \in 1..Len(p) /\ 1 \in 1..(Len(u) - (i - 1)) /\ i - 1 + 1 = i BY <1>1, <1>2
    <2>3. After(u, i - 1)[1] = Dashes BY <1>5, <2>1, <2>2, PrefixIs
    <2>4. u[i] = Dashes BY <2>1, <2>2, <2>3
    <2> QED BY <1>2, <1>4, <2>4
  <1> HIDE DEF n
  <1>6. IsPrefix(p, After(u, n - 1)) BY <1>3, <1>4
  <1>7. IndexOf(u, p) = n BY <1>2, <1>4, <1>5, <1>6, IndexOfIs
  <1> QED BY <1>7 DEF u, n

\* The line of a marker.
Marker(prefix, label) == prefix \o label \o MarkerSuffix

\* What a text begins with is a prefix of it.
LEMMA PrefixOfJoin ==
  ASSUME NEW p \in Tokens, NEW s \in Tokens PROVE IsPrefix(p, p \o s)
  <1>1. Len(p) \in Nat /\ Len(s) \in Nat BY TokensAre
  <1>2. /\ p \o s \in Tokens /\ Len(p \o s) = Len(p) + Len(s)
        /\ \A i \in 1..Len(p) : (p \o s)[i] = p[i]
    BY Joined
  <1>3. Len(p) <= Len(p \o s) BY <1>1, <1>2
  <1> QED BY <1>2, <1>3, PrefixIs

\* A marker ends with dashes.
LEMMA MarkerIs ==
  ASSUME NEW prefix \in Tokens, NEW label \in Tokens
  PROVE  /\ Marker(prefix, label) \in Tokens
         /\ Len(Marker(prefix, label)) = Len(prefix) + Len(label) + 1
         /\ Marker(prefix, label)[Len(prefix) + Len(label) + 1] = Dashes
  <1>1. MarkerSuffix \in Tokens /\ Len(MarkerSuffix) = 1 /\ MarkerSuffix[1] = Dashes BY Markers
  <1>2. prefix \o label \in Tokens /\ Len(prefix \o label) = Len(prefix) + Len(label) BY Joined
  <1> DEFINE t == prefix \o label
             m == t \o MarkerSuffix
  <1>3. /\ m \in Tokens /\ Len(m) = Len(t) + Len(MarkerSuffix)
        /\ \A i \in 1..Len(MarkerSuffix) : m[Len(t) + i] = MarkerSuffix[i]
    <2> HIDE DEF t, m
    <2>1. t \in Tokens BY <1>2 DEF t
    <2> QED BY <1>1, <2>1, Joined, Zenon DEF m
  <1>4. m = Marker(prefix, label) BY DEF Marker
  <1> HIDE DEF m, t
  <1>5. 1 \in 1..Len(MarkerSuffix) /\ Len(t) = Len(prefix) + Len(label) BY <1>1, <1>2 DEF t
  <1> QED BY <1>1, <1>3, <1>4, <1>5

\* A marker and what follows it, from the left.
LEMMA MarkerThen ==
  ASSUME NEW prefix \in Tokens, NEW label \in Tokens, NEW r \in Tokens
  PROVE  Marker(prefix, label) \o r = prefix \o (label \o (MarkerSuffix \o r))
  <1> DEFINE p == prefix \o label
             m == MarkerSuffix \o r
  <1>1. MarkerSuffix \in Tokens BY Markers
  <1>2. p \in Tokens BY JoinedText
  <1>3. m \in Tokens BY <1>1, JoinedText
  <1>4. (p \o MarkerSuffix) \o r = p \o m
    <2> HIDE DEF p
    <2> QED BY <1>1, <1>2, Regrouped
  <1>5. p \o m = prefix \o (label \o m)
    <2> HIDE DEF m
    <2> QED BY <1>3, Regrouped
  <1> QED BY <1>4, <1>5 DEF Marker

\* The BEGIN line of a label is found whole.
LEMMA HeaderFound ==
  ASSUME NEW label \in Tokens, \A i \in 1..Len(label) : label[i] # Dashes, NEW r \in Tokens
  PROVE  HeaderEnd(Marker(BeginPrefix, label) \o r) = Len(Marker(BeginPrefix, label))
  <1> DEFINE s == Marker(BeginPrefix, label) \o r
  <1>1. /\ BeginPrefix \in Tokens /\ Len(BeginPrefix) = 3
        /\ MarkerSuffix \in Tokens /\ Len(MarkerSuffix) = 1 /\ MarkerSuffix[1] = Dashes
    BY Markers
  <1>2. /\ Len(label) \in Nat /\ Len(Marker(BeginPrefix, label)) = 3 + Len(label) + 1
        /\ Marker(BeginPrefix, label) \in Tokens
    <2>1. Len(label) \in Nat BY TokensAre
    <2>2. /\ Marker(BeginPrefix, label) \in Tokens
          /\ Len(Marker(BeginPrefix, label)) = Len(BeginPrefix) + Len(label) + 1
      BY <1>1, MarkerIs
    <2> QED BY <1>1, <2>1, <2>2
  <1>3. MarkerSuffix \o r \in Tokens /\ label \o (MarkerSuffix \o r) \in Tokens
    BY <1>1, JoinedText
  <1>4. s = BeginPrefix \o (label \o (MarkerSuffix \o r))
    BY <1>1, MarkerThen
  <1> HIDE DEF s
  <1>5. IsPrefix(BeginPrefix, s) /\ After(s, 3) = label \o (MarkerSuffix \o r)
    BY <1>1, <1>3, <1>4, PrefixOfJoin, PartsOfJoin
  <1>6. IndexOf(label \o (MarkerSuffix \o r), MarkerSuffix) = Len(label) + 1
    <2>1. IsPrefix(MarkerSuffix, MarkerSuffix \o r) BY <1>1, PrefixOfJoin
    <2>2. Len(MarkerSuffix) >= 1 BY <1>1
    <2> QED BY <1>1, <1>3, <2>1, <2>2, FirstDashes
  <1>7. HeaderEnd(s) = 3 + (Len(label) + 1)
    <2>1. Len(label) + 1 > 0 BY <1>2
    <2> QED BY <1>1, <1>5, <1>6, <2>1 DEF HeaderEnd
  <1> QED BY <1>2, <1>7 DEF s

\* The END line of a label is found whole, behind a body without dashes.
LEMMA FooterFound ==
  ASSUME NEW b \in Tokens, \A i \in 1..Len(b) : b[i] # Dashes,
         NEW label \in Tokens, \A i \in 1..Len(label) : label[i] # Dashes, NEW r \in Tokens,
         cert = (b \o Marker(EndPrefix, label)) \o r
  PROVE  EndStart = Len(b) + 1 /\ FooterEnd = Len(b) + Len(Marker(EndPrefix, label))
  <1>1. /\ EndPrefix \in Tokens /\ Len(EndPrefix) = 3 /\ EndPrefix[1] = Dashes
        /\ MarkerSuffix \in Tokens /\ Len(MarkerSuffix) = 1 /\ MarkerSuffix[1] = Dashes
    BY Markers
  <1>2. /\ Len(label) \in Nat /\ Len(Marker(EndPrefix, label)) = 3 + Len(label) + 1
        /\ Marker(EndPrefix, label) \in Tokens /\ Len(b) \in Nat
    <2>1. Len(label) \in Nat /\ Len(b) \in Nat BY TokensAre
    <2>2. /\ Marker(EndPrefix, label) \in Tokens
          /\ Len(Marker(EndPrefix, label)) = Len(EndPrefix) + Len(label) + 1
      BY <1>1, MarkerIs
    <2> QED BY <1>1, <2>1, <2>2
  <1> DEFINE tail == label \o (MarkerSuffix \o r)
  <1>a. EndPrefix \in Tokens /\ MarkerSuffix \in Tokens BY <1>1
  <1>b. MarkerSuffix \o r \in Tokens BY <1>a, JoinedText
  <1>3. tail \in Tokens BY <1>b, JoinedText
  <1>4. Marker(EndPrefix, label) \o r = EndPrefix \o tail
    BY <1>a, MarkerThen
  <1>5. IndexOf(tail, MarkerSuffix) = Len(label) + 1
    <2>1. IsPrefix(MarkerSuffix, MarkerSuffix \o r) BY <1>a, PrefixOfJoin
    <2>2. Len(MarkerSuffix) >= 1 BY <1>1
    <2> QED BY <1>1, <1>b, <2>1, <2>2, FirstDashes
  <1> HIDE DEF tail
  <1>6. EndPrefix \o tail \in Tokens /\ cert = b \o (EndPrefix \o tail)
    <2>1. EndPrefix \o tail \in Tokens BY <1>1, <1>3, JoinedText
    <2>2. cert = b \o (Marker(EndPrefix, label) \o r) BY <1>2, Regrouped
    <2> QED BY <1>4, <2>1, <2>2
  <1>7. EndStart = Len(b) + 1
    <2>1. IsPrefix(EndPrefix, EndPrefix \o tail) BY <1>1, <1>3, PrefixOfJoin
    <2>2. Len(EndPrefix) >= 1 BY <1>1
    <2> QED BY <1>1, <1>6, <2>1, <2>2, FirstDashes DEF EndStart
  <1>8. After(cert, Len(b) + 3) = tail
    <2>1. (b \o EndPrefix) \o tail = b \o (EndPrefix \o tail) BY <1>a, <1>3, Regrouped
    <2>2. After((b \o EndPrefix) \o tail, Len(b) + Len(EndPrefix)) = tail
      BY <1>a, <1>3, MiddleOfJoin
    <2> QED BY <1>1, <1>6, <2>1, <2>2
  <1>9. Len(b) + 1 - 1 + 3 = Len(b) + 3 /\ Len(b) + 1 > 0 /\ Len(label) + 1 > 0 BY <1>2
  <1>10. FooterEnd = Len(b) + 3 + (Len(label) + 1)
    BY <1>1, <1>5, <1>7, <1>8, <1>9 DEF FooterEnd
  <1> QED BY <1>2, <1>7, <1>10

\* The tokens of a text on one line.
LEMMA OneLineIs ==
  ASSUME NEW s \in Tokens
  PROVE  /\ OneLine(s) \in Tokens /\ Len(OneLine(s)) = Len(s)
         /\ \A i \in 1..Len(s) : OneLine(s)[i] = IF s[i] = Newline THEN Space ELSE s[i]
  <1>1. Len(s) \in Nat /\ DOMAIN s = 1..Len(s) /\ \A i \in 1..Len(s) : s[i] \in Token
    BY TokensAre
  <1> DEFINE t == [i \in 1..Len(s) |-> IF s[i] = Newline THEN Space ELSE s[i]]
  <1>2. t \in [1..Len(s) -> Token] BY <1>1, Distinct
  <1>3. t \in Seq(Token) /\ Len(t) = Len(s)
    <2> HIDE DEF t
    <2> QED BY <1>1, <1>2, FunctionIsSeq
  <1>4. OneLine(s) = t BY <1>1 DEF OneLine
  <1>5. \A i \in 1..Len(s) : t[i] = IF s[i] = Newline THEN Space ELSE s[i] OBVIOUS
  <1> HIDE DEF t
  <1> QED BY <1>3, <1>4, <1>5 DEF Tokens

\* A text without newlines is on one line.
LEMMA OneLinePlain ==
  ASSUME NEW s \in Tokens, \A i \in 1..Len(s) : s[i] # Newline PROVE OneLine(s) = s
  <1>1. /\ OneLine(s) \in Tokens /\ Len(OneLine(s)) = Len(s)
        /\ \A i \in 1..Len(s) : OneLine(s)[i] = IF s[i] = Newline THEN Space ELSE s[i]
    BY OneLineIs
  <1> QED BY <1>1, SameTokens

\* A newline becomes a space.
LEMMA OneLineNewline == OneLine(<<Newline>>) = <<Space>>
  <1>1. <<Newline>> \in Tokens /\ Len(<<Newline>>) = 1 /\ <<Newline>>[1] = Newline BY Markers
  <1>2. <<Space>> \in Tokens /\ Len(<<Space>>) = 1 /\ <<Space>>[1] = Space BY Single, Distinct
  <1>3. 1 \in 1..1 /\ \A i \in 1..1 : i = 1 OBVIOUS
  <1>4. /\ OneLine(<<Newline>>) \in Tokens /\ Len(OneLine(<<Newline>>)) = 1
        /\ OneLine(<<Newline>>)[1] = Space
    BY <1>1, <1>3, OneLineIs
  <1> QED BY <1>2, <1>3, <1>4, SameTokens

\* A joined text on one line.
LEMMA OneLineJoin ==
  ASSUME NEW s \in Tokens, NEW t \in Tokens PROVE OneLine(s \o t) = OneLine(s) \o OneLine(t)
  <1> DEFINE u == s \o t
             p == OneLine(s)
             q == OneLine(t)
             r == p \o q
             o == OneLine(u)
  <1>1. Len(s) \in Nat /\ Len(t) \in Nat BY TokensAre
  <1>2. /\ u \in Tokens /\ Len(u) = Len(s) + Len(t)
        /\ \A i \in 1..Len(s) : u[i] = s[i]
        /\ \A i \in 1..Len(t) : u[Len(s) + i] = t[i]
    BY Joined
  <1>3. /\ p \in Tokens /\ Len(p) = Len(s)
        /\ \A i \in 1..Len(s) : p[i] = IF s[i] = Newline THEN Space ELSE s[i]
    BY OneLineIs
  <1>4. /\ q \in Tokens /\ Len(q) = Len(t)
        /\ \A i \in 1..Len(t) : q[i] = IF t[i] = Newline THEN Space ELSE t[i]
    BY OneLineIs
  <1> HIDE DEF u, p, q
  <1>5. /\ r \in Tokens /\ Len(r) = Len(s) + Len(t)
        /\ \A i \in 1..Len(s) : r[i] = p[i]
        /\ \A i \in 1..Len(t) : r[Len(s) + i] = q[i]
    <2>1. p \in Tokens /\ q \in Tokens BY <1>3, <1>4
    <2>2. /\ r \in Tokens /\ Len(r) = Len(p) + Len(q)
          /\ \A i \in 1..Len(p) : r[i] = p[i]
          /\ \A i \in 1..Len(q) : r[Len(p) + i] = q[i]
      BY <2>1, Joined
    <2>3. Len(p) = Len(s) /\ Len(q) = Len(t) BY <1>3, <1>4
    <2> HIDE DEF r
    <2> QED BY <2>2, <2>3
  <1>6. /\ o \in Tokens /\ Len(o) = Len(u)
        /\ \A i \in 1..Len(u) : o[i] = IF u[i] = Newline THEN Space ELSE u[i]
    BY <1>2, OneLineIs
  <1> HIDE DEF r, o
  <1>7. ASSUME NEW i \in 1..Len(o) PROVE o[i] = r[i]
    <2>1. CASE i <= Len(s)
      <3>1. i \in 1..Len(s) /\ i \in 1..Len(u) BY <1>1, <1>2, <1>6, <2>1
      <3> QED BY <1>2, <1>3, <1>5, <1>6, <3>1
    <2>2. CASE ~(i <= Len(s))
      <3> DEFINE j == i - Len(s)
      <3>1. j \in 1..Len(t) /\ i = Len(s) + j /\ i \in 1..Len(u) BY <1>1, <1>2, <1>6, <2>2
      <3> HIDE DEF j
      <3>2. u[i] = t[j] /\ r[i] = q[j] BY <1>2, <1>5, <3>1
      <3> QED BY <1>4, <1>6, <3>1, <3>2
    <2> QED BY <2>1, <2>2
  <1>8. o = r BY <1>2, <1>5, <1>6, <1>7, SameTokens
  <1> QED BY <1>8 DEF o, r, p, q, u

\* All but the last token.
Cut(s) == SubSeq(s, 1, Len(s) - 1)

\* The token in the end is cut off.
LEMMA CutLast ==
  ASSUME NEW s \in Tokens, NEW x \in Token PROVE Cut(s \o <<x>>) = s
  <1>1. <<x>> \in Tokens /\ Len(<<x>>) = 1 BY Single
  <1>2. SubSeq(s \o <<x>>, 1, Len(s)) = s BY <1>1, PartsOfJoin
  <1>3. Len(s \o <<x>>) = Len(s) + 1 /\ Len(s) \in Nat BY <1>1, Joined, TokensAre
  <1>4. Len(s \o <<x>>) - 1 = Len(s) BY <1>3
  <1> QED BY <1>2, <1>4 DEF Cut

\* A text is the rest and its last token.
LEMMA LastOf ==
  ASSUME NEW s \in Tokens, s # << >>
  PROVE  /\ Cut(s) \in Tokens /\ Len(Cut(s)) = Len(s) - 1 /\ Len(s) \in Nat \ {0}
         /\ s[Len(s)] \in Token
         /\ s = Cut(s) \o <<s[Len(s)]>>
  <1> DEFINE n == Len(s) - 1
             x == s[Len(s)]
             c == SubSeq(s, 1, n)
  <1>1. Len(s) \in Nat \ {0} /\ Len(s) \in 1..Len(s) /\ x \in Token BY TokensAre, Empty
  <1>2. n \in 0..Len(s) /\ Len(s) = n + 1 /\ n \in Nat BY <1>1
  <1> HIDE DEF n
  <1>3. c \in Tokens /\ Len(c) = n /\ \A i \in 1..n : c[i] = s[i] BY <1>2, FrontIs
  <1>4. Cut(s) = c BY DEF Cut, n
  <1> HIDE DEF c
  <1>5. <<x>> \in Tokens /\ Len(<<x>>) = 1 /\ <<x>>[1] = x BY <1>1, Single
  <1> DEFINE t == c \o <<x>>
  <1>6. /\ t \in Tokens /\ Len(t) = n + 1 /\ \A i \in 1..n : t[i] = c[i]
        /\ \A i \in 1..1 : t[n + i] = <<x>>[i]
    BY <1>3, <1>5, Joined
  <1> HIDE DEF t
  <1>7. t[n + 1] = x
    <2>1. 1 \in 1..1 OBVIOUS
    <2> QED BY <1>5, <1>6, <2>1
  <1>8. ASSUME NEW i \in 1..Len(s) PROVE s[i] = t[i]
    <2>1. i \in 1..n \/ i = n + 1 BY <1>2
    <2> QED BY <1>2, <1>3, <1>6, <1>7, <2>1 DEF x
  <1>9. s = t BY <1>2, <1>6, <1>8, SameTokens
  <1>10. Len(c) = Len(s) - 1 BY <1>2, <1>3
  <1> QED BY <1>1, <1>3, <1>4, <1>9, <1>10 DEF t, x

\* Only the second of two texts is cut.
LEMMA CutJoin ==
  ASSUME NEW s \in Tokens, NEW t \in Tokens, t # << >> PROVE Cut(s \o t) = s \o Cut(t)
  <1> DEFINE c == Cut(t)
             x == t[Len(t)]
  <1>1. c \in Tokens /\ x \in Token /\ t = c \o <<x>> BY LastOf
  <1> HIDE DEF c, x
  <1>2. <<x>> \in Tokens BY <1>1, Single
  <1>3. s \o (c \o <<x>>) = (s \o c) \o <<x>> BY <1>1, <1>2, Regrouped
  <1>4. s \o c \in Tokens BY <1>1, JoinedText
  <1>5. Cut((s \o c) \o <<x>>) = s \o c BY <1>1, <1>4, CutLast
  <1>6. Cut(s \o t) = s \o c BY <1>1, <1>3, <1>5
  <1> QED BY <1>6 DEF c

\* The rest of a sequence of texts, from each of them on.
LEMMA FlattenTails ==
  ASSUME NEW seqs \in Seq(Tokens)
  PROVE  \E t \in [0..Len(seqs) -> Tokens] :
           /\ t[Len(seqs)] = << >>
           /\ \A n \in 1..Len(seqs) : t[n - 1] = seqs[n] \o t[n]
           /\ FlattenSeq(seqs) = t[0]
  <1> DEFINE N == Len(seqs)
             step == [j \in 1..N |-> [v \in Tokens |-> seqs[N + 1 - j] \o v]]
             empty == << >>
  <1>0. N \in Nat /\ empty \in Tokens /\ \A n \in 1..N : seqs[n] \in Tokens BY Markers
  <1> HIDE DEF N, empty
  <1>1. step \in [1..N -> [Tokens -> Tokens]]
    <2>1. ASSUME NEW j \in 1..N, NEW v \in Tokens PROVE seqs[N + 1 - j] \o v \in Tokens
      <3>1. N + 1 - j \in 1..N BY <1>0
      <3>2. seqs[N + 1 - j] \in Tokens BY <1>0, <3>1
      <3> QED BY <3>2, JoinedText
    <2> QED BY <2>1
  <1>2. PICK g \in [0..N -> Tokens] : g[0] = empty /\ \A j \in 1..N : g[j] = step[j][g[j - 1]]
    <2> HIDE DEF step
    <2>1. N \in Nat /\ empty \in Tokens BY <1>0
    <2> QED BY <1>1, <2>1, Recursion
  <1>3. PICK f \in [0..N -> Tokens] :
          f[0] = empty /\ (\A n \in 1..N : f[n] = f[n - 1] \o seqs[n]) /\ FlattenSeq(seqs) = f[N]
    BY FlattenParts DEF N, empty
  <1>4. ASSUME NEW j \in 1..N PROVE g[j] = seqs[N + 1 - j] \o g[j - 1]
    <2>1. j - 1 \in 0..N /\ g[j - 1] \in Tokens BY <1>0
    <2>2. g[j] = step[j][g[j - 1]] BY <1>2
    <2> QED BY <2>1, <2>2
  <1> HIDE DEF step
  <1> DEFINE t == [k \in 0..N |-> g[N - k]]
  <1>5. t \in [0..N -> Tokens] /\ t[N] = empty
    <2>1. \A k \in 0..N : N - k \in 0..N BY <1>0
    <2>2. N \in 0..N /\ N - N = 0 BY <1>0
    <2> QED BY <1>2, <2>1, <2>2
  <1>6. ASSUME NEW n \in 1..N PROVE t[n - 1] = seqs[n] \o t[n]
    <2>1. /\ N - (n - 1) \in 1..N /\ N + 1 - (N - (n - 1)) = n /\ N - (n - 1) - 1 = N - n
          /\ n - 1 \in 0..N /\ n \in 0..N
      BY <1>0
    <2>2. g[N - (n - 1)] = seqs[n] \o g[N - n] BY <1>4, <2>1
    <2> QED BY <2>1, <2>2
  <1> HIDE DEF t
  <1> DEFINE c == [k \in 0..N |-> f[k] \o t[k]]
  <1>7. \A k \in 0..N : c[k] \in {t[0]}
    <2>1. c[0] \in {t[0]}
      <3>1. 0 \in 0..N BY <1>0
      <3>2. empty \o t[0] = t[0] BY <1>5, <3>1, JoinedNone DEF empty
      <3> QED BY <1>3, <3>1, <3>2
    <2>2. ASSUME NEW k \in 1..N, c[k - 1] \in {t[0]} PROVE c[k] \in {t[0]}
      <3>1. k - 1 \in 0..N /\ k \in 0..N BY <1>0
      <3>2. f[k - 1] \in Tokens /\ t[k] \in Tokens /\ seqs[k] \in Tokens BY <1>0, <1>5, <3>1
      <3>3. (f[k - 1] \o seqs[k]) \o t[k] = f[k - 1] \o (seqs[k] \o t[k]) BY <3>2, Regrouped
      <3>4. f[k] \o t[k] = f[k - 1] \o t[k - 1] BY <1>3, <1>6, <3>3
      <3> QED BY <2>2, <3>1, <3>4
    <2> HIDE DEF c
    <2> QED BY <1>0, <2>1, <2>2, UpTo
  <1>8. f[N] = t[0]
    <2>1. N \in 0..N BY <1>0
    <2>2. f[N] \o t[N] = t[0] BY <1>7, <2>1
    <2>3. f[N] \o empty = f[N] BY <2>1, JoinedNone DEF empty
    <2> QED BY <1>5, <2>2, <2>3
  <1> QED BY <1>3, <1>5, <1>6, <1>8 DEF N, empty

\* A flattened sequence with one text more.
LEMMA FlattenOneMore ==
  ASSUME NEW n \in Nat, NEW f \in [1..(n + 1) -> Tokens]
  PROVE  FlattenSeq(f) = FlattenSeq([i \in 1..n |-> f[i]]) \o f[n + 1]
  <1> DEFINE h == [i \in 1..n |-> f[i]]
  <1>1. h \in [1..n -> Tokens] /\ n + 1 \in 1..(n + 1) OBVIOUS
  <1>2. f \in Seq(Tokens) /\ Len(f) = n + 1 BY FunctionIsSeq
  <1> HIDE DEF h
  <1>3. h \in Seq(Tokens) /\ Len(h) = n BY <1>1, FunctionIsSeq
  <1>4. PICK g \in [0..n -> Tokens] :
          g[0] = << >> /\ (\A i \in 1..n : g[i] = g[i - 1] \o h[i]) /\ FlattenSeq(h) = g[n]
    BY <1>3, FlattenParts
  <1>5. PICK e \in [0..(n + 1) -> Tokens] :
          /\ e[0] = << >> /\ \A i \in 1..(n + 1) : e[i] = e[i - 1] \o f[i]
          /\ FlattenSeq(f) = e[n + 1]
    BY <1>2, FlattenParts
  <1> DEFINE d == [i \in 0..n |-> e[i] = g[i]]
  <1>6. \A i \in 0..n : d[i] \in {TRUE}
    <2>1. d[0] \in {TRUE}
      <3>1. e[0] = g[0] BY <1>4, <1>5, Zenon
      <3>2. 0 \in 0..n OBVIOUS
      <3> QED BY <3>1, <3>2
    <2>2. ASSUME NEW i \in 1..n, d[i - 1] \in {TRUE} PROVE d[i] \in {TRUE}
      <3>1. i \in 1..(n + 1) /\ i \in 0..n /\ i - 1 \in 0..n OBVIOUS
      <3>2. e[i - 1] = g[i - 1] BY <2>2, <3>1
      <3>3. h[i] = f[i] BY DEF h
      <3> QED BY <1>4, <1>5, <3>1, <3>2, <3>3
    <2> HIDE DEF d
    <2> QED BY <2>1, <2>2, UpTo
  <1>7. e[n] = g[n]
    <2>1. n \in 0..n OBVIOUS
    <2>2. d[n] BY <1>6, <2>1
    <2> QED BY <2>1, <2>2
  <1>8. e[n + 1] = e[n] \o f[n + 1]
    <2>1. (n + 1) - 1 = n OBVIOUS
    <2> QED BY <1>1, <1>5, <2>1
  <1> QED BY <1>4, <1>5, <1>7, <1>8 DEF h

\* A text without its spaces, with one token more.
LEMMA UnspacedOneMore ==
  ASSUME NEW s \in Tokens, NEW x \in Token
  PROVE  Unspaced(s \o <<x>>) = Unspaced(s) \o (IF x = Space THEN << >> ELSE <<x>>)
  <1> DEFINE n == Len(s)
             t == s \o <<x>>
             piece(y) == IF y = Space THEN << >> ELSE <<y>>
             f == [i \in 1..(n + 1) |-> piece(t[i])]
             h == [i \in 1..n |-> piece(s[i])]
  <1>1. n \in Nat /\ DOMAIN s = 1..n /\ \A i \in 1..n : s[i] \in Token BY TokensAre
  <1>2. t \in Tokens /\ Len(t) = n + 1 /\ (\A i \in 1..n : t[i] = s[i]) /\ t[n + 1] = x
    BY WithOne
  <1> HIDE DEF t, n
  <1>3. DOMAIN t = 1..(n + 1) /\ \A i \in 1..(n + 1) : t[i] \in Token BY <1>2, TokensAre
  <1>4. \A y \in Token : piece(y) \in Tokens BY Single, Markers
  <1>5. Unspaced(t) = FlattenSeq(f) BY <1>3 DEF Unspaced
  <1>6. Unspaced(s) = FlattenSeq(h) BY <1>1 DEF Unspaced
  <1> HIDE DEF piece
  <1>7. f \in [1..(n + 1) -> Tokens] BY <1>3, <1>4
  <1>8. n + 1 \in 1..(n + 1) /\ f[n + 1] = piece(x) BY <1>1, <1>2
  <1>9. [i \in 1..n |-> f[i]] = h
    <2>1. \A i \in 1..n : i \in 1..(n + 1) /\ f[i] = piece(s[i]) BY <1>1, <1>2
    <2> HIDE DEF f
    <2> QED BY <2>1
  <1> HIDE DEF f, h
  <1>10. FlattenSeq(f) = FlattenSeq(h) \o piece(x) BY <1>1, <1>7, <1>8, <1>9, FlattenOneMore
  <1> QED BY <1>5, <1>6, <1>10 DEF t, piece

\* A body without dashes, spaces and newlines.
Plain(s) == s \in Tokens /\ \A i \in 1..Len(s) : s[i] \notin {Dashes, Space, Newline}

\* The front of a text, with one token more.
LEMMA FrontOneMore ==
  ASSUME NEW s \in Tokens, NEW k \in 1..Len(s)
  PROVE  SubSeq(s, 1, k) = SubSeq(s, 1, k - 1) \o <<s[k]>>
  <1> DEFINE a == SubSeq(s, 1, k)
             b == SubSeq(s, 1, k - 1)
             t == b \o <<s[k]>>
  <1>1. Len(s) \in Nat /\ s[k] \in Token BY TokensAre
  <1>2. k \in 0..Len(s) /\ k - 1 \in 0..Len(s) /\ k \in Nat /\ k - 1 \in Nat BY <1>1
  <1>3. a \in Tokens /\ Len(a) = k /\ \A i \in 1..k : a[i] = s[i] BY <1>2, FrontIs
  <1>4. b \in Tokens /\ Len(b) = k - 1 /\ \A i \in 1..(k - 1) : b[i] = s[i] BY <1>2, FrontIs
  <1> HIDE DEF a, b
  <1>5. /\ t \in Tokens /\ Len(t) = Len(b) + 1
        /\ \A i \in 1..Len(b) : t[i] = b[i]
        /\ t[Len(b) + 1] = s[k]
    BY <1>1, <1>4, WithOne
  <1> HIDE DEF t
  <1>6. ASSUME NEW i \in 1..Len(a) PROVE a[i] = t[i]
    <2>1. i \in 1..(k - 1) \/ i = k BY <1>2, <1>3
    <2>2. k - 1 + 1 = k BY <1>2
    <2> QED BY <1>3, <1>4, <1>5, <2>1, <2>2
  <1>7. Len(t) = Len(a) BY <1>2, <1>3, <1>4, <1>5
  <1>8. a = t BY <1>3, <1>5, <1>6, <1>7, SameTokens
  <1> QED BY <1>8 DEF a, t, b

\* The first k pieces of a body, with spaces between them.
Unwrapped(body, k, s) ==
  /\ s \in Tokens
  /\ \A i \in 1..Len(s) : s[i] # Dashes
  /\ (k = 0 /\ s = << >>) \/ (Len(s) >= 1 /\ s[1] # Space)
  /\ Unspaced(s) = SubSeq(body, 1, k)

\* No pieces.
LEMMA NoneUnwrapped == ASSUME NEW body PROVE Unwrapped(body, 0, << >>)
  <1>1. Unspaced(<< >>) = << >>
    <2>1. [i \in DOMAIN << >> |-> IF << >>[i] = Space THEN << >> ELSE << << >>[i] >>] = << >>
      OBVIOUS
    <2>2. FlattenSeq(<< >>) = << >> BY DEF FlattenSeq
    <2> QED BY <2>1, <2>2 DEF Unspaced
  <1>2. SubSeq(body, 1, 0) = << >> BY SubSeqEmpty
  <1>3. << >> \in Tokens /\ \A i \in 1..Len(<< >>) : << >>[i] # Dashes BY Markers
  <1> QED BY <1>1, <1>2, <1>3 DEF Unwrapped

\* A text without dashes, with one token more.
LEMMA NoDashesMore ==
  ASSUME NEW s \in Tokens, \A i \in 1..Len(s) : s[i] # Dashes, NEW x \in Token, x # Dashes
  PROVE  \A i \in 1..Len(s \o <<x>>) : (s \o <<x>>)[i] # Dashes
  <1> DEFINE t == s \o <<x>>
  <1>1. Len(s) \in Nat BY TokensAre
  <1>2. Len(t) = Len(s) + 1 /\ (\A i \in 1..Len(s) : t[i] = s[i]) /\ t[Len(s) + 1] = x BY WithOne
  <1> HIDE DEF t
  <1>3. ASSUME NEW i \in 1..Len(t) PROVE t[i] # Dashes
    <2>1. i \in 1..Len(s) \/ i = Len(s) + 1 BY <1>1, <1>2
    <2> QED BY <1>2, <2>1
  <1> QED BY <1>3 DEF t

\* One piece more.
LEMMA OneUnwrapped ==
  ASSUME NEW body, Plain(body), NEW k \in 1..Len(body), NEW s, Unwrapped(body, k - 1, s)
  PROVE  Unwrapped(body, k, s \o <<body[k]>>)
  <1> DEFINE x == body[k]
             t == s \o <<x>>
  <1>1. body \in Tokens /\ x \in Token /\ x # Dashes /\ x # Space BY TokensAre DEF Plain
  <1>2. s \in Tokens /\ Len(s) \in Nat BY TokensAre DEF Unwrapped
  <1> HIDE DEF x
  <1>3. /\ t \in Tokens /\ Len(t) = Len(s) + 1 /\ t[Len(s) + 1] = x
        /\ \A i \in 1..Len(s) : t[i] = s[i]
    BY <1>1, <1>2, WithOne
  <1>4. \A i \in 1..Len(t) : t[i] # Dashes BY <1>1, <1>2, NoDashesMore DEF Unwrapped
  <1>5. Unspaced(t) = Unspaced(s) \o <<x>> BY <1>1, <1>2, UnspacedOneMore
  <1>6. SubSeq(body, 1, k) = SubSeq(body, 1, k - 1) \o <<x>> BY <1>1, FrontOneMore DEF x
  <1>7. Unspaced(t) = SubSeq(body, 1, k) BY <1>5, <1>6 DEF Unwrapped
  <1> HIDE DEF t
  <1>8. Len(t) >= 1 /\ t[1] # Space
    <2>1. CASE Len(s) = 0 BY <1>1, <1>3, <2>1
    <2>2. CASE Len(s) # 0
      <3>1. 1 \in 1..Len(s) BY <1>2, <2>2
      <3>2. s # << >> BY <1>2, <2>2, Empty
      <3>3. s[1] # Space BY <3>2 DEF Unwrapped
      <3> QED BY <1>2, <1>3, <3>1, <3>3
    <2> QED BY <2>1, <2>2
  <1>9. Unwrapped(body, k, t) BY <1>3, <1>4, <1>7, <1>8 DEF Unwrapped
  <1> QED BY <1>9 DEF t, x

\* A space behind the last piece.
LEMMA SpaceUnwrapped ==
  ASSUME NEW body, NEW k \in Nat, k # 0, NEW s, Unwrapped(body, k, s)
  PROVE  Unwrapped(body, k, s \o <<Space>>)
  <1> DEFINE t == s \o <<Space>>
  <1>1. Space \in Token /\ Space # Dashes BY Distinct
  <1>2. s \in Tokens /\ Len(s) \in Nat /\ Len(s) >= 1 /\ s[1] # Space BY TokensAre DEF Unwrapped
  <1>3. /\ t \in Tokens /\ Len(t) = Len(s) + 1
        /\ \A i \in 1..Len(s) : t[i] = s[i]
    BY <1>1, <1>2, WithOne
  <1>4. \A i \in 1..Len(t) : t[i] # Dashes BY <1>1, <1>2, NoDashesMore DEF Unwrapped
  <1>5. Unspaced(t) = Unspaced(s) \o << >> BY <1>1, <1>2, UnspacedOneMore
  <1>6. Unspaced(s) \o << >> = Unspaced(s) BY <1>2, UnspacedIsText, JoinedNone
  <1>7. Unspaced(t) = SubSeq(body, 1, k) BY <1>5, <1>6 DEF Unwrapped
  <1> HIDE DEF t
  <1>8. Len(t) >= 1 /\ t[1] # Space
    <2>1. 1 \in 1..Len(s) BY <1>2
    <2> QED BY <1>2, <1>3, <2>1
  <1>9. Unwrapped(body, k, t) BY <1>3, <1>4, <1>7, <1>8 DEF Unwrapped
  <1> QED BY <1>9 DEF t

\* A piece of a body on one line, with the newline behind it or without.
LEMMA OneLinePiece ==
  ASSUME NEW x \in Token, x # Newline
  PROVE  OneLine(<<x>>) = <<x>> /\ OneLine(<<x, Newline>>) = <<x>> \o <<Space>>
  <1>1. <<x>> \in Tokens /\ Len(<<x>>) = 1 /\ <<x>>[1] = x BY Single
  <1>2. \A i \in 1..1 : i = 1 OBVIOUS
  <1>3. OneLine(<<x>>) = <<x>> BY <1>1, <1>2, OneLinePlain
  <1>4. <<Newline>> \in Tokens BY Markers
  <1>5. <<x, Newline>> = <<x>> \o <<Newline>> OBVIOUS
  <1>6. OneLine(<<x>> \o <<Newline>>) = OneLine(<<x>>) \o OneLine(<<Newline>>)
    BY <1>1, <1>4, OneLineJoin
  <1> QED BY <1>3, <1>5, <1>6, OneLineNewline

\* The lines of a body, on one line: no dashes, the body's first token in front,
\* and the body when the spaces are gone.
LEMMA WrappedLine ==
  ASSUME NEW body, Plain(body), NEW width
  PROVE  Unwrapped(body, Len(body), OneLine(Wrapped(body, width)))
  <1> DEFINE n == Len(body)
             last(i) == i % width = 0 \/ i = Len(body)
             f == [i \in DOMAIN body |-> IF last(i) THEN <<body[i], Newline>> ELSE <<body[i]>>]
  <1>1. /\ body \in Tokens /\ n \in Nat /\ DOMAIN body = 1..n
        /\ \A i \in 1..n : body[i] \in Token /\ body[i] # Newline
    BY TokensAre DEF Plain
  <1>2. ASSUME NEW x \in Token PROVE <<x>> \in Tokens /\ <<x, Newline>> \in Tokens
    BY Single, Pair, Distinct
  <1> HIDE DEF n, last
  <1>3. f \in [1..n -> Tokens]
    BY <1>1, <1>2
  <1>4. f \in Seq(Tokens) /\ Len(f) = n
    <2> HIDE DEF f
    <2> QED BY <1>1, <1>3, FunctionIsSeq
  <1>5. \A i \in 1..n : f[i] = <<body[i]>> \/ f[i] = <<body[i], Newline>> BY <1>1
  <1>6. Wrapped(body, width) = FlattenSeq(f) BY DEF Wrapped, last
  <1> HIDE DEF f
  <1>7. PICK g \in [0..n -> Tokens] :
          g[0] = << >> /\ (\A i \in 1..n : g[i] = g[i - 1] \o f[i]) /\ FlattenSeq(f) = g[n]
    BY <1>4, FlattenParts
  <1> DEFINE d == [k \in 0..n |-> Unwrapped(body, k, OneLine(g[k]))]
  <1>8. d[0] \in {TRUE}
    <2>1. OneLine(g[0]) = << >> BY <1>7, Markers, OneLinePlain
    <2>2. Unwrapped(body, 0, OneLine(g[0])) BY <2>1, NoneUnwrapped
    <2>3. 0 \in 0..n BY <1>1
    <2> QED BY <2>2, <2>3
  <1>9. ASSUME NEW k \in 1..n, d[k - 1] \in {TRUE} PROVE d[k] \in {TRUE}
    <2> DEFINE x == body[k]
               a == OneLine(g[k - 1])
    <2>1. k - 1 \in 0..n /\ k \in 0..n /\ k \in Nat /\ k # 0 /\ k \in 1..Len(body)
      BY <1>1 DEF n
    <2>2. Unwrapped(body, k - 1, a) BY <1>9, <2>1
    <2>3. g[k - 1] \in Tokens /\ f[k] \in Tokens /\ x \in Token /\ x # Newline
      BY <1>1, <1>3, <2>1
    <2>4. OneLine(g[k]) = a \o OneLine(f[k]) BY <1>7, <2>3, OneLineJoin
    <2>5. Unwrapped(body, k, a \o <<x>>) BY <2>1, <2>2, OneUnwrapped
    <2>6. Unwrapped(body, k, (a \o <<x>>) \o <<Space>>) BY <2>1, <2>5, SpaceUnwrapped
    <2>7. (a \o <<x>>) \o <<Space>> = a \o (<<x>> \o <<Space>>)
      <3>1. a \in Tokens /\ <<x>> \in Tokens /\ <<Space>> \in Tokens
        BY <1>2, <2>2, <2>3, Distinct DEF Unwrapped
      <3> HIDE DEF a, x
      <3> QED BY <3>1, Regrouped
    <2>8. Unwrapped(body, k, OneLine(g[k]))
      <3>1. f[k] = <<x>> \/ f[k] = <<x, Newline>> BY <1>5
      <3>2. OneLine(<<x>>) = <<x>> /\ OneLine(<<x, Newline>>) = <<x>> \o <<Space>>
        BY <2>3, OneLinePiece
      <3> HIDE DEF a, x
      <3> QED BY <2>4, <2>5, <2>6, <2>7, <3>1, <3>2
    <2> QED BY <2>1, <2>8
  <1>10. \A k \in 0..n : d[k] \in {TRUE}
    <2> HIDE DEF d
    <2> QED BY <1>1, <1>8, <1>9, UpTo
  <1>11. Unwrapped(body, n, OneLine(g[n]))
    <2>1. n \in 0..n BY <1>1
    <2>2. d[n] BY <1>10, <2>1
    <2> QED BY <2>1, <2>2
  <1> QED BY <1>6, <1>7, <1>11 DEF n

-----------------------------------------------------------------------------
(***************************************************************************)
(* Blocks, and what is left of a file on one line when some have been read. *)
(***************************************************************************)

IsLabel(label) == label \in Tokens /\ \A i \in 1..Len(label) : label[i] \notin {Dashes, Newline}
IsBlock(block) == IsLabel(block.label) /\ Plain(block.body)

\* The blocks of a certificate file.
LEMMA BlocksAre ==
  ASSUME NEW blocks \in Certificates
  PROVE  /\ Len(blocks) \in Nat \ {0} /\ DOMAIN blocks = 1..Len(blocks)
         /\ \A k \in 1..Len(blocks) : IsBlock(blocks[k])
  <1>1. IsCertificate(blocks) BY CertificatesAssumption
  <1> DEFINE R == [label : Tokens, body : Tokens]
  <1>2. blocks \in Seq(R) /\ blocks # << >> BY <1>1 DEF IsCertificate
  <1>3. Len(blocks) \in Nat \ {0} /\ DOMAIN blocks = 1..Len(blocks)
    <2> HIDE DEF R
    <2> QED BY <1>2, EmptySeq
  <1>4. ASSUME NEW k \in 1..Len(blocks) PROVE IsBlock(blocks[k])
    <2>1. blocks[k] \in R
      <3> HIDE DEF R
      <3> QED BY <1>2
    <2>2. blocks[k].label \in Tokens /\ blocks[k].body \in Tokens BY <2>1
    <2>3. /\ DOMAIN blocks[k].label = 1..Len(blocks[k].label)
          /\ DOMAIN blocks[k].body = 1..Len(blocks[k].body)
      BY <2>2, TokensAre
    <2>4. \A j \in DOMAIN blocks[k].label : blocks[k].label[j] \notin {Dashes, Newline}
      BY <1>1, <1>3 DEF IsCertificate
    <2>5. \A j \in DOMAIN blocks[k].body : blocks[k].body[j] \notin {Dashes, Space, Newline}
      BY <1>1, <1>3 DEF IsCertificate
    <2> QED BY <2>2, <2>3, <2>4, <2>5 DEF IsBlock, IsLabel, Plain
  <1> QED BY <1>3, <1>4

\* The two lines around a body, without their newlines.
Begun(block) == Marker(BeginPrefix, block.label)
Ended(block) == Marker(EndPrefix, block.label)

\* Two texts without newlines.
LEMMA NoNewlineJoin ==
  ASSUME NEW s \in Tokens, \A i \in 1..Len(s) : s[i] # Newline,
         NEW t \in Tokens, \A i \in 1..Len(t) : t[i] # Newline
  PROVE  s \o t \in Tokens /\ \A i \in 1..Len(s \o t) : (s \o t)[i] # Newline
  <1> DEFINE u == s \o t
  <1>1. Len(s) \in Nat /\ Len(t) \in Nat BY TokensAre
  <1>2. /\ u \in Tokens /\ Len(u) = Len(s) + Len(t)
        /\ \A i \in 1..Len(s) : u[i] = s[i]
        /\ \A i \in 1..Len(t) : u[Len(s) + i] = t[i]
    BY Joined
  <1> HIDE DEF u
  <1>3. ASSUME NEW i \in 1..Len(u) PROVE u[i] # Newline
    <2>1. CASE i <= Len(s)
      <3>1. i \in 1..Len(s) BY <1>1, <1>2, <2>1
      <3> QED BY <1>2, <3>1
    <2>2. CASE ~(i <= Len(s))
      <3> DEFINE j == i - Len(s)
      <3>1. j \in 1..Len(t) /\ i = Len(s) + j BY <1>1, <1>2, <2>2
      <3> HIDE DEF j
      <3> QED BY <1>2, <3>1
    <2> QED BY <2>1, <2>2
  <1> QED BY <1>2, <1>3 DEF u

\* A marker is on one line.
LEMMA MarkerOneLine ==
  ASSUME NEW p \in {BeginPrefix, EndPrefix}, NEW label, IsLabel(label)
  PROVE  Marker(p, label) \in Tokens /\ OneLine(Marker(p, label)) = Marker(p, label)
  <1>1. /\ Dashes # Newline /\ Begin # Newline /\ End # Newline /\ Space # Newline
    BY Distinct
  <1>2. p \in Tokens /\ \A i \in 1..Len(p) : p[i] # Newline
    <2>1. 1..3 = {1, 2, 3} OBVIOUS
    <2>2. /\ p \in Tokens /\ Len(p) = 3 /\ p[1] = Dashes /\ p[2] \in {Begin, End} /\ p[3] = Space
      BY Markers
    <2> QED BY <1>1, <2>1, <2>2
  <1>3. MarkerSuffix \in Tokens /\ \A i \in 1..Len(MarkerSuffix) : MarkerSuffix[i] # Newline
    <2>1. \A i \in 1..1 : i = 1 OBVIOUS
    <2> QED BY <1>1, <2>1, Markers
  <1>4. label \in Tokens /\ \A i \in 1..Len(label) : label[i] # Newline BY DEF IsLabel
  <1> DEFINE t == p \o label
             m == t \o MarkerSuffix
  <1>5. t \in Tokens /\ \A i \in 1..Len(t) : t[i] # Newline BY <1>2, <1>4, NoNewlineJoin
  <1> HIDE DEF t
  <1>6. m \in Tokens /\ \A i \in 1..Len(m) : m[i] # Newline BY <1>3, <1>5, NoNewlineJoin
  <1> HIDE DEF m
  <1>7. OneLine(m) = m BY <1>6, OneLinePlain
  <1>8. m = Marker(p, label) BY DEF m, t, Marker
  <1> QED BY <1>6, <1>7, <1>8

\* The two lines of a block.
LEMMA LinesAre ==
  ASSUME NEW block, IsBlock(block)
  PROVE  /\ Begun(block) \in Tokens /\ OneLine(Begun(block)) = Begun(block)
         /\ Ended(block) \in Tokens /\ OneLine(Ended(block)) = Ended(block)
         /\ IsPrefix(BeginPrefix, Begun(block))
         /\ Len(Ended(block)) \in Nat \ {0} /\ Ended(block)[Len(Ended(block))] = Dashes
         /\ Ended(block)[1] = Dashes
  <1>1. IsLabel(block.label) /\ block.label \in Tokens /\ Len(block.label) \in Nat
    BY TokensAre DEF IsBlock, IsLabel
  <1>2. /\ Begun(block) \in Tokens /\ OneLine(Begun(block)) = Begun(block)
        /\ Ended(block) \in Tokens /\ OneLine(Ended(block)) = Ended(block)
    BY <1>1, MarkerOneLine DEF Begun, Ended
  <1> DEFINE rest == block.label \o MarkerSuffix
  <1>3. /\ BeginPrefix \in Tokens /\ EndPrefix \in Tokens /\ MarkerSuffix \in Tokens
        /\ Len(EndPrefix) = 3 /\ EndPrefix[1] = Dashes
    BY Markers
  <1>4. rest \in Tokens BY <1>1, <1>3, JoinedText
  <1>5. Begun(block) = BeginPrefix \o rest /\ Ended(block) = EndPrefix \o rest
    BY <1>1, <1>3, Regrouped DEF Begun, Ended, Marker
  <1> HIDE DEF rest
  <1>6. IsPrefix(BeginPrefix, Begun(block)) BY <1>3, <1>4, <1>5, PrefixOfJoin
  <1>7. Ended(block)[1] = Dashes
    <2>1. Len(EndPrefix) >= 1 /\ EndPrefix \in Tokens BY <1>3
    <2>2. (EndPrefix \o rest)[1] = EndPrefix[1] BY <1>4, <2>1, Starts
    <2> QED BY <1>3, <1>5, <2>2
  <1> DEFINE n == Len(block.label)
  <1>8. Len(Ended(block)) = 3 + n + 1 /\ Ended(block)[3 + n + 1] = Dashes
    <2>1. EndPrefix \in Tokens /\ block.label \in Tokens /\ Len(EndPrefix) = 3 BY <1>1, <1>3
    <2>2. /\ Len(Ended(block)) = Len(EndPrefix) + n + 1
          /\ Ended(block)[Len(EndPrefix) + n + 1] = Dashes
      BY <2>1, MarkerIs DEF Ended
    <2> QED BY <2>1, <2>2
  <1>9. 3 + n + 1 \in Nat \ {0} BY <1>1
  <1> QED BY <1>2, <1>6, <1>7, <1>8, <1>9

\* A block is what CutBlock writes for it.
LEMMA BlockWritten ==
  ASSUME NEW o \in Tokens, NEW block, IsBlock(block), NEW width
  PROVE  /\ Block(block, width) \in Tokens
         /\ o \o Block(block, width) =
              Written(o, Begun(block), Wrapped(block.body, width), Ended(block))
  <1> DEFINE h == Begun(block)
             e == Ended(block)
             w == Wrapped(block.body, width)
             nl == <<Newline>>
             l == block.label
  <1>1. /\ h \in Tokens /\ e \in Tokens /\ nl \in Tokens /\ l \in Tokens
        /\ EndPrefix \in Tokens /\ MarkerSuffix \in Tokens
    BY LinesAre, Markers DEF IsBlock, IsLabel
  <1>2. w \in Tokens BY WrappedIsText DEF IsBlock, Plain
  <1>3. Block(block, width) = (((((((h \o nl) \o w) \o EndPrefix) \o l) \o MarkerSuffix)) \o nl)
    BY DEF Block, Begun, Marker
  <1>4. e = (EndPrefix \o l) \o MarkerSuffix BY DEF Ended, Marker
  <1> HIDE DEF h, e, w, nl, l
  <1> DEFINE a == h \o nl
  <1>5. a \in Tokens BY <1>1, JoinedText
  <1> HIDE DEF a
  <1> DEFINE b == a \o w
  <1>6. b \in Tokens BY <1>2, <1>5, JoinedText
  <1> HIDE DEF b
  <1>7. ((b \o EndPrefix) \o l) \o MarkerSuffix = b \o e
    <2> DEFINE p == EndPrefix \o l
    <2>1. (b \o EndPrefix) \o l = b \o p BY <1>1, <1>6, Regrouped
    <2>2. p \in Tokens BY <1>1, JoinedText
    <2> HIDE DEF p
    <2>a. MarkerSuffix \in Tokens BY <1>1
    <2>3. (b \o p) \o MarkerSuffix = b \o (p \o MarkerSuffix) BY <1>6, <2>2, <2>a, Regrouped
    <2> QED BY <1>4, <2>1, <2>3 DEF p
  <1> DEFINE c == b \o e
  <1>8. c \in Tokens BY <1>1, <1>6, JoinedText
  <1>9. Block(block, width) = c \o nl BY <1>3, <1>7 DEF a, b
  <1> HIDE DEF c
  <1>10. Block(block, width) \in Tokens BY <1>1, <1>8, <1>9, JoinedText
  <1>a. nl \in Tokens /\ e \in Tokens BY <1>1
  <1>11. o \o (c \o nl) = (o \o c) \o nl BY <1>8, <1>a, Regrouped
  <1>12. o \o (b \o e) = (o \o b) \o e BY <1>6, <1>a, Regrouped
  <1>13. o \o b = (o \o a) \o w BY <1>2, <1>5, Regrouped DEF b
  <1>14. o \o a = (o \o h) \o nl BY <1>1, Regrouped DEF a
  <1>15. o \o Block(block, width) = (((((o \o h) \o nl) \o w) \o e) \o nl)
    BY <1>9, <1>11, <1>12, <1>13, <1>14 DEF c
  <1> QED BY <1>10, <1>15 DEF Written, h, e, w, nl

\* A file up to each of its blocks, and from each on.
Heads(blocks, width) ==
  CHOOSE f \in [0..Len(blocks) -> Tokens] :
    /\ f[0] = << >>
    /\ \A k \in 1..Len(blocks) : f[k] = f[k - 1] \o Block(blocks[k], width)
    /\ File(blocks, width) = f[Len(blocks)]
Tails(blocks, width) ==
  CHOOSE t \in [0..Len(blocks) -> Tokens] :
    /\ t[Len(blocks)] = << >>
    /\ \A k \in 1..Len(blocks) : t[k - 1] = Block(blocks[k], width) \o t[k]
    /\ File(blocks, width) = t[0]

\* The heads and tails of a file exist.
LEMMA FileParts ==
  ASSUME NEW blocks \in Certificates, NEW width
  PROVE  /\ Heads(blocks, width) \in [0..Len(blocks) -> Tokens]
         /\ Heads(blocks, width)[0] = << >>
         /\ \A k \in 1..Len(blocks) :
              Heads(blocks, width)[k] = Heads(blocks, width)[k - 1] \o Block(blocks[k], width)
         /\ File(blocks, width) = Heads(blocks, width)[Len(blocks)]
         /\ Tails(blocks, width) \in [0..Len(blocks) -> Tokens]
         /\ Tails(blocks, width)[Len(blocks)] = << >>
         /\ \A k \in 1..Len(blocks) :
              Tails(blocks, width)[k - 1] = Block(blocks[k], width) \o Tails(blocks, width)[k]
         /\ File(blocks, width) = Tails(blocks, width)[0]
         /\ File(blocks, width) \in Tokens
  <1> DEFINE n == Len(blocks)
             seqs == [k \in DOMAIN blocks |-> Block(blocks[k], width)]
  <1>1. n \in Nat \ {0} /\ DOMAIN blocks = 1..n /\ \A k \in 1..n : IsBlock(blocks[k]) BY BlocksAre
  <1> HIDE DEF n
  <1>2. \A k \in 1..n : Block(blocks[k], width) \in Tokens
    <2>1. << >> \in Tokens BY Markers
    <2> QED BY <1>1, <2>1, BlockWritten
  <1>3. seqs \in [1..n -> Tokens] /\ \A k \in 1..n : seqs[k] = Block(blocks[k], width)
    BY <1>1, <1>2
  <1>4. File(blocks, width) = FlattenSeq(seqs) BY DEF File
  <1> HIDE DEF seqs
  <1>5. seqs \in Seq(Tokens) /\ Len(seqs) = n BY <1>1, <1>3, FunctionIsSeq
  <1>6. \E f \in [0..n -> Tokens] :
          /\ f[0] = << >>
          /\ \A k \in 1..n : f[k] = f[k - 1] \o seqs[k]
          /\ FlattenSeq(seqs) = f[n]
    BY <1>5, FlattenParts
  <1>7. \E f \in [0..n -> Tokens] :
          /\ f[0] = << >>
          /\ \A k \in 1..n : f[k] = f[k - 1] \o Block(blocks[k], width)
          /\ File(blocks, width) = f[n]
    BY <1>3, <1>4, <1>6
  <1>8. \E t \in [0..n -> Tokens] :
          /\ t[n] = << >>
          /\ \A k \in 1..n : t[k - 1] = seqs[k] \o t[k]
          /\ FlattenSeq(seqs) = t[0]
    BY <1>5, FlattenTails
  <1>9. \E t \in [0..n -> Tokens] :
          /\ t[n] = << >>
          /\ \A k \in 1..n : t[k - 1] = Block(blocks[k], width) \o t[k]
          /\ File(blocks, width) = t[0]
    BY <1>3, <1>4, <1>8
  <1>10. /\ Heads(blocks, width) \in [0..n -> Tokens]
         /\ Heads(blocks, width)[0] = << >>
         /\ \A k \in 1..n :
              Heads(blocks, width)[k] = Heads(blocks, width)[k - 1] \o Block(blocks[k], width)
         /\ File(blocks, width) = Heads(blocks, width)[n]
    BY <1>7, Zenon DEF Heads, n
  <1>11. /\ Tails(blocks, width) \in [0..n -> Tokens]
         /\ Tails(blocks, width)[n] = << >>
         /\ \A k \in 1..n :
              Tails(blocks, width)[k - 1] = Block(blocks[k], width) \o Tails(blocks, width)[k]
         /\ File(blocks, width) = Tails(blocks, width)[0]
    BY <1>9, Zenon DEF Tails, n
  <1>12. File(blocks, width) \in Tokens
    <2>1. n \in 0..n BY <1>1
    <2> QED BY <1>10, <2>1
  <1> QED BY <1>10, <1>11, <1>12 DEF n

\* A file is lines, as what is written is.
LEMMA FileLines ==
  ASSUME NEW blocks \in Certificates, NEW width
  PROVE  Lines(File(blocks, width))
  <1> DEFINE n == Len(blocks)
             f == Heads(blocks, width)
             Good == {s \in Tokens : s = << >> \/ Lines(s)}
  <1>1. n \in Nat \ {0} /\ \A k \in 1..n : IsBlock(blocks[k]) BY BlocksAre
  <1>2. /\ f \in [0..n -> Tokens] /\ f[0] = << >>
        /\ \A k \in 1..n : f[k] = f[k - 1] \o Block(blocks[k], width)
        /\ File(blocks, width) = f[n]
    BY FileParts
  <1> HIDE DEF f, n
  <1>3. ASSUME NEW k \in 1..n, f[k - 1] \in Good PROVE Lines(f[k])
    <2> DEFINE b == blocks[k]
               o == f[k - 1]
    <2>1. IsBlock(b) /\ f[k] = o \o Block(b, width) BY <1>1, <1>2
    <2>2. o \in Tokens /\ (o = << >> \/ Lines(o)) BY <1>3
    <2> HIDE DEF b, o
    <2>3. f[k] = Written(o, Begun(b), Wrapped(b.body, width), Ended(b))
      BY <2>1, <2>2, BlockWritten
    <2>4. Wrapped(b.body, width) \in Tokens BY <2>1, WrappedIsText DEF IsBlock, Plain
    <2>5. /\ Begun(b) \in Tokens /\ IsPrefix(BeginPrefix, Begun(b))
          /\ Ended(b) \in Tokens /\ Len(Ended(b)) \in Nat \ {0}
          /\ Ended(b)[Len(Ended(b))] = Dashes
      BY <2>1, LinesAre
    <2>6. Lines(Written(o, Begun(b), Wrapped(b.body, width), Ended(b)))
      BY <2>2, <2>4, <2>5, LinesGrow
    <2> QED BY <2>3, <2>6
  <1>4. \A k \in 0..n : f[k] \in Good
    <2>1. f[0] \in Good BY <1>1, <1>2
    <2>2. ASSUME NEW k \in 1..n, f[k - 1] \in Good PROVE f[k] \in Good
      <3>1. k \in 0..n /\ f[k] \in Tokens BY <1>1, <1>2
      <3>2. Lines(f[k]) BY <1>3, <2>2
      <3> QED BY <3>1, <3>2
    <2> HIDE DEF Good
    <2> QED BY <1>1, <2>1, <2>2, UpTo
  <1>5. n \in 1..n /\ n - 1 \in 0..n BY <1>1
  <1>6. Lines(f[n])
    <2> HIDE DEF Good
    <2> QED BY <1>3, <1>4, <1>5
  <1> QED BY <1>2, <1>6

\* What is left to read of a file on one line: from a block on, and from the end
\* of a block on.
Left(blocks, width, k) == Cut(OneLine(Tails(blocks, width)[k]))
Ahead(blocks, width, k) == Cut(<<Space>> \o OneLine(Tails(blocks, width)[k]))
BodyLine(block, width) == OneLine(Wrapped(block.body, width))

\* A block on one line.
LEMMA BlockOneLine ==
  ASSUME NEW block, IsBlock(block), NEW width
  PROVE  /\ BodyLine(block, width) \in Tokens
         /\ OneLine(Block(block, width)) =
              ((((Begun(block) \o <<Space>>) \o BodyLine(block, width)) \o Ended(block))
                \o <<Space>>)
  <1> DEFINE h == Begun(block)
             e == Ended(block)
             w == Wrapped(block.body, width)
             nl == <<Newline>>
             a == << >> \o h
             b == a \o nl
             c == b \o w
             d == c \o e
             f == d \o nl
  <1>1. /\ h \in Tokens /\ OneLine(h) = h /\ e \in Tokens /\ OneLine(e) = e
        /\ nl \in Tokens /\ OneLine(nl) = <<Space>> /\ << >> \in Tokens
    BY LinesAre, Markers, OneLineNewline
  <1>2. w \in Tokens BY WrappedIsText DEF IsBlock, Plain
  <1>3. Block(block, width) \in Tokens /\ << >> \o Block(block, width) = f
    BY <1>1, BlockWritten DEF Written
  <1>4. Block(block, width) = f
    <2> HIDE DEF f
    <2> QED BY <1>3, JoinedNone
  <1> HIDE DEF h, e, w, nl
  <1>5. a = h BY <1>1, JoinedNone
  <1> HIDE DEF a
  <1>6. b \in Tokens /\ OneLine(b) = h \o <<Space>>
    <2>1. h \o nl \in Tokens BY <1>1, JoinedText
    <2>2. OneLine(h \o nl) = OneLine(h) \o OneLine(nl) BY <1>1, OneLineJoin
    <2> QED BY <1>1, <1>5, <2>1, <2>2
  <1> HIDE DEF b
  <1>7. c \in Tokens /\ OneLine(c) = OneLine(b) \o OneLine(w) BY <1>2, <1>6, JoinedText, OneLineJoin
  <1> HIDE DEF c
  <1>8. d \in Tokens /\ OneLine(d) = OneLine(c) \o e BY <1>1, <1>7, JoinedText, OneLineJoin
  <1> HIDE DEF d
  <1>9. OneLine(f) = OneLine(d) \o <<Space>> BY <1>1, <1>8, OneLineJoin
  <1>10. BodyLine(block, width) = OneLine(w) BY DEF BodyLine, w
  <1>11. OneLine(w) \in Tokens BY <1>2, OneLineIs
  <1> HIDE DEF f
  <1> QED BY <1>4, <1>6, <1>7, <1>8, <1>9, <1>10, <1>11 DEF h, e

\* What is left from a block on is the block, and what is ahead of it.
LEMMA Remaining ==
  ASSUME NEW blocks \in Certificates, NEW width, NEW k \in 1..Len(blocks)
  PROVE  /\ Ahead(blocks, width, k) \in Tokens
         /\ BodyLine(blocks[k], width) \in Tokens
         /\ Left(blocks, width, k - 1) =
              Begun(blocks[k]) \o (<<Space>> \o
                ((BodyLine(blocks[k], width) \o Ended(blocks[k])) \o Ahead(blocks, width, k)))
  <1> DEFINE block == blocks[k]
             h == Begun(block)
             e == Ended(block)
             b == BodyLine(block, width)
             sp == <<Space>>
             r == OneLine(Tails(blocks, width)[k])
             z == Ahead(blocks, width, k)
             s == sp \o r
             hs == h \o sp
             be == b \o e
             hb == hs \o b
             hbe == hb \o e
  <1>1. IsBlock(block) BY BlocksAre
  <1>2. h \in Tokens /\ e \in Tokens /\ sp \in Tokens BY <1>1, LinesAre, Single, Distinct
  <1>3. b \in Tokens /\ OneLine(Block(block, width)) = hbe \o sp
        /\ Block(block, width) \in Tokens
    <2>1. << >> \in Tokens BY Markers
    <2>2. Block(block, width) \in Tokens BY <1>1, <2>1, BlockWritten
    <2> QED BY <1>1, <2>2, BlockOneLine
  <1>4. /\ Tails(blocks, width)[k] \in Tokens
        /\ Tails(blocks, width)[k - 1] = Block(block, width) \o Tails(blocks, width)[k]
    <2>1. k \in 0..Len(blocks) BY BlocksAre
    <2> QED BY <2>1, FileParts
  <1>5. r \in Tokens BY <1>4, OneLineIs
  <1>6. OneLine(Tails(blocks, width)[k - 1]) = (hbe \o sp) \o r BY <1>3, <1>4, OneLineJoin
  <1> HIDE DEF h, e, b, block, r, sp
  <1>7. hs \in Tokens /\ be \in Tokens BY <1>2, <1>3, JoinedText
  <1>8. hb \in Tokens
    <2>1. hs \in Tokens BY <1>7
    <2> HIDE DEF hs
    <2> QED BY <1>3, <2>1, JoinedText
  <1>9. hbe \in Tokens
    <2> HIDE DEF hb
    <2> QED BY <1>2, <1>8, JoinedText
  <1>10. s \in Tokens /\ s # << >>
    <2>1. s \in Tokens /\ Len(s) = Len(sp) + Len(r) BY <1>2, <1>5, Joined
    <2>2. Len(sp) = 1 /\ Len(r) \in Nat BY <1>5, Single, Distinct, TokensAre DEF sp
    <2>3. Len(s) # 0 BY <2>1, <2>2
    <2> HIDE DEF s
    <2> QED BY <2>1, <2>3, Empty
  <1>11. (hbe \o sp) \o r = hbe \o s
    <2> HIDE DEF hbe
    <2> QED BY <1>2, <1>5, <1>9, Regrouped
  <1>12. Cut(hbe \o s) = hbe \o Cut(s)
    <2> HIDE DEF hbe, s
    <2> QED BY <1>9, <1>10, CutJoin
  <1>13. Cut(s) = z /\ Cut(s) \in Tokens
    <2> HIDE DEF s
    <2>1. Cut(s) \in Tokens BY <1>10, LastOf
    <2> QED BY <2>1 DEF Ahead, s, sp, r
  <1> HIDE DEF z, s
  <1>14. hbe = hs \o be
    <2>1. hs \in Tokens BY <1>7
    <2>2. b \in Tokens /\ e \in Tokens BY <1>2, <1>3
    <2> HIDE DEF hs
    <2> QED BY <2>1, <2>2, Regrouped
  <1>15. (hs \o be) \o z = hs \o (be \o z)
    <2> HIDE DEF hs, be
    <2> QED BY <1>7, <1>13, Regrouped
  <1> DEFINE q == be \o z
  <1>16. q \in Tokens
    <2> HIDE DEF be
    <2> QED BY <1>7, <1>13, JoinedText
  <1> HIDE DEF q
  <1>17. hs \o q = h \o (sp \o q) BY <1>2, <1>16, Regrouped
  <1>18. Left(blocks, width, k - 1) = h \o (sp \o q)
    <2> HIDE DEF hbe, hs
    <2>1. Left(blocks, width, k - 1) = hbe \o z BY <1>6, <1>11, <1>12, <1>13 DEF Left
    <2> QED BY <1>14, <1>15, <1>17, <2>1 DEF q
  <1> QED BY <1>3, <1>13, <1>18 DEF q, be, z, h, sp, b, e, block

\* There is nothing to cut off an empty text.
LEMMA CutNone == Cut(<< >>) = << >> /\ OneLine(<< >>) = << >>
  <1>1. << >> \in Tokens /\ Len(<< >>) = 0 BY Markers
  <1>2. \A i \in 1..Len(<< >>) : << >>[i] # Newline BY <1>1
  <1>3. OneLine(<< >>) = << >> BY <1>1, <1>2, OneLinePlain
  <1>4. Cut(<< >>) = << >>
    <2>1. Len(<< >>) - 1 < 1 BY <1>1
    <2>2. Len(<< >>) - 1 \in Int BY <1>1
    <2> QED BY <2>1, <2>2, SubSeqEmpty DEF Cut
  <1> QED BY <1>3, <1>4

\* One space in front is skipped.
LEMMA SkipSpace ==
  ASSUME NEW s \in Tokens, s = << >> \/ s[1] # Space
  PROVE  TrimLeft(<<Space>> \o s, {Space}) = s
  <1> DEFINE sp == <<Space>>
             t == sp \o s
  <1>1. sp \in Tokens /\ Len(sp) = 1 /\ sp[1] = Space BY Single, Distinct
  <1>2. Len(s) \in Nat BY TokensAre
  <1> HIDE DEF sp
  <1>3. After(t, 1) = s BY <1>1, PartsOfJoin
  <1>4. /\ t \in Tokens /\ Len(t) = 1 + Len(s)
        /\ \A i \in 1..1 : t[i] = sp[i]
        /\ \A i \in 1..Len(s) : t[1 + i] = s[i]
    <2>1. /\ t \in Tokens /\ Len(t) = Len(sp) + Len(s)
          /\ \A i \in 1..Len(sp) : t[i] = sp[i]
          /\ \A i \in 1..Len(s) : t[Len(sp) + i] = s[i]
      BY <1>1, Joined
    <2> QED BY <1>1, <2>1
  <1> HIDE DEF t
  <1>5. 1 \in 0..Len(t) /\ \A i \in 1..1 : t[i] \in {Space}
    <2>1. 1 \in 0..Len(t) BY <1>2, <1>4
    <2>2. \A i \in 1..1 : i = 1 OBVIOUS
    <2> QED BY <1>1, <1>4, <2>1, <2>2
  <1>6. 1 < Len(t) => t[1 + 1] \notin {Space}
    <2> SUFFICES ASSUME 1 < Len(t) PROVE t[1 + 1] # Space OBVIOUS
    <2>1. 1 \in 1..Len(s) /\ Len(s) # 0 BY <1>2, <1>4
    <2>2. s # << >> BY <1>2, <2>1, Empty
    <2> QED BY <1>4, <2>1, <2>2
  <1>7. TrimLeft(t, {Space}) = After(t, 1) BY <1>4, <1>5, <1>6, TrimLeftIs
  <1> QED BY <1>3, <1>7 DEF t, sp

\* Where the blocks of a file on one line begin.
LEMMA LeftIs ==
  ASSUME NEW blocks \in Certificates, NEW width
  PROVE  /\ Left(blocks, width, Len(blocks)) = << >>
         /\ \A k \in 1..Len(blocks) :
              /\ Left(blocks, width, k - 1) \in Tokens
              /\ Left(blocks, width, k - 1)[1] = Dashes
              /\ HeaderEnd(Left(blocks, width, k - 1)) = Len(Begun(blocks[k]))
              /\ Len(Begun(blocks[k])) > 0
  <1>1. Left(blocks, width, Len(blocks)) = << >> BY FileParts, CutNone DEF Left
  <1>2. ASSUME NEW k \in 1..Len(blocks)
        PROVE  /\ Left(blocks, width, k - 1) \in Tokens
               /\ Left(blocks, width, k - 1)[1] = Dashes
               /\ HeaderEnd(Left(blocks, width, k - 1)) = Len(Begun(blocks[k]))
               /\ Len(Begun(blocks[k])) > 0
    <2> DEFINE block == blocks[k]
               h == Begun(block)
               be == BodyLine(block, width) \o Ended(block)
               q == be \o Ahead(blocks, width, k)
               r == <<Space>> \o q
    <2>1. IsBlock(block) BY BlocksAre
    <2>2. /\ Ahead(blocks, width, k) \in Tokens /\ BodyLine(block, width) \in Tokens
          /\ Left(blocks, width, k - 1) = h \o r
      BY Remaining
    <2>3. h \in Tokens /\ IsPrefix(BeginPrefix, h) /\ Ended(block) \in Tokens BY <2>1, LinesAre
    <2>4. be \in Tokens BY <2>2, <2>3, JoinedText
    <2> HIDE DEF be
    <2>5. q \in Tokens BY <2>2, <2>4, JoinedText
    <2> HIDE DEF q
    <2>6. <<Space>> \in Tokens BY Single, Distinct
    <2>7. r \in Tokens BY <2>5, <2>6, JoinedText
    <2> HIDE DEF r
    <2>8. h[1] = Dashes /\ Len(h) >= 1 /\ Len(h) > 0
      <3>1. h[1] = Dashes /\ Len(h) >= 3 BY <2>3, BeginIs
      <3>2. Len(h) \in Nat BY <2>3, TokensAre
      <3> QED BY <3>1, <3>2
    <2>9. HeaderEnd(h \o r) = Len(h)
      <3>1. /\ block.label \in Tokens
            /\ \A i \in 1..Len(block.label) : block.label[i] # Dashes
        BY <2>1 DEF IsBlock, IsLabel
      <3> QED BY <2>7, <3>1, HeaderFound DEF Begun
    <2>10. h \o r \in Tokens /\ (h \o r)[1] = Dashes
      <3> HIDE DEF h
      <3> QED BY <2>3, <2>7, <2>8, Starts
    <2> QED BY <2>2, <2>8, <2>9, <2>10
  <1> QED BY <1>1, <1>2

\* CutHeader takes the BEGIN line off.
LEMMA HeaderTaken ==
  ASSUME NEW blocks \in Certificates, NEW width, NEW k \in 1..Len(blocks),
         NEW s, s = Left(blocks, width, k - 1)
  PROVE  /\ SubSeq(s, 1, HeaderEnd(s)) = Begun(blocks[k])
         /\ TrimLeft(After(s, HeaderEnd(s)), {Space}) =
              (BodyLine(blocks[k], width) \o Ended(blocks[k])) \o Ahead(blocks, width, k)
  <1> DEFINE block == blocks[k]
             h == Begun(block)
             b == BodyLine(block, width)
             e == Ended(block)
             a == Ahead(blocks, width, k)
             be == b \o e
             q == be \o a
             r == <<Space>> \o q
  <1>1. IsBlock(block) /\ Plain(block.body) BY BlocksAre DEF IsBlock
  <1>2. a \in Tokens /\ b \in Tokens /\ s = h \o r /\ HeaderEnd(s) = Len(h) BY Remaining, LeftIs
  <1>3. h \in Tokens /\ e \in Tokens /\ e[1] = Dashes /\ Len(e) \in Nat \ {0} BY <1>1, LinesAre
  <1>4. b = << >> \/ (Len(b) >= 1 /\ b[1] # Space)
    BY <1>1, WrappedLine DEF Unwrapped, BodyLine
  <1> HIDE DEF h, b, e, a
  <1>5. be \in Tokens BY <1>2, <1>3, JoinedText
  <1>6. Len(be) >= 1 /\ be[1] # Space
    <2>1. CASE b = << >>
      <3>1. be = e BY <1>3, <2>1, JoinedNone
      <3> HIDE DEF be
      <3> QED BY <1>3, <3>1, Distinct
    <2>2. CASE Len(b) >= 1 /\ b[1] # Space BY <1>2, <1>3, <2>2, Starts
    <2> QED BY <1>4, <2>1, <2>2
  <1> HIDE DEF be
  <1>7. q \in Tokens /\ q[1] # Space BY <1>2, <1>5, <1>6, Starts
  <1> HIDE DEF q
  <1>8. r \in Tokens
    <2>1. <<Space>> \in Tokens BY Single, Distinct
    <2> QED BY <1>7, <2>1, JoinedText
  <1>9. TrimLeft(r, {Space}) = q BY <1>7, SkipSpace
  <1> HIDE DEF r
  <1>10. SubSeq(s, 1, Len(h)) = h /\ After(s, Len(h)) = r
    <2>1. SubSeq(h \o r, 1, Len(h)) = h /\ After(h \o r, Len(h)) = r BY <1>3, <1>8, PartsOfJoin
    <2>2. s = h \o r BY <1>2 DEF r, q, be
    <2> QED BY <2>1, <2>2
  <1>11. SubSeq(s, 1, HeaderEnd(s)) = h /\ TrimLeft(After(s, HeaderEnd(s)), {Space}) = q
    BY <1>2, <1>9, <1>10
  <1> QED BY <1>11 DEF h, q, be, b, e, a, block

\* The space between two blocks is skipped.
LEMMA SkipAhead ==
  ASSUME NEW blocks \in Certificates, NEW width, NEW k \in 1..Len(blocks)
  PROVE  TrimLeft(Ahead(blocks, width, k), {Space}) = Left(blocks, width, k)
  <1> DEFINE r == OneLine(Tails(blocks, width)[k])
             sp == <<Space>>
             c == Left(blocks, width, k)
  <1>1. Len(blocks) \in Nat /\ sp \in Tokens /\ Space \in Token BY BlocksAre, Single, Distinct
  <1>2. r \in Tokens
    <2>1. k \in 0..Len(blocks) BY <1>1
    <2>2. Tails(blocks, width)[k] \in Tokens BY <2>1, FileParts
    <2> QED BY <2>2, OneLineIs
  <1>3. c = Cut(r) BY DEF Left
  <1>4. Ahead(blocks, width, k) = Cut(sp \o r) BY DEF Ahead
  <1> HIDE DEF sp, r
  <1>5. CASE k = Len(blocks)
    <2>1. r = << >> BY <1>5, FileParts, CutNone DEF r
    <2>2. sp \o r = << >> \o sp BY <1>1, <2>1, JoinedNone
    <2>3. Cut(<< >> \o sp) = << >> BY <1>1, CutLast, Markers DEF sp
    <2>4. TrimLeft(<< >>, {Space}) = << >> BY DEF TrimLeft, Kept
    <2> QED BY <1>3, <1>4, <2>1, <2>2, <2>3, <2>4, CutNone
  <1>6. CASE k # Len(blocks)
    <2>1. k + 1 \in 1..Len(blocks) /\ (k + 1) - 1 = k BY <1>1, <1>6
    <2>2. /\ Left(blocks, width, (k + 1) - 1) \in Tokens
          /\ Left(blocks, width, (k + 1) - 1)[1] = Dashes
          /\ HeaderEnd(Left(blocks, width, (k + 1) - 1)) = Len(Begun(blocks[k + 1]))
          /\ Len(Begun(blocks[k + 1])) > 0
      BY <2>1, LeftIs
    <2>3. c \in Tokens /\ c[1] = Dashes /\ HeaderEnd(c) > 0 BY <2>1, <2>2
    <2> HIDE DEF c
    <2>4. c # << >>
      <3>1. HeaderEnd(c) \in 0..Len(c) /\ Len(c) \in Nat BY <2>3, HeaderEndOf, TokensAre
      <3>2. Len(c) # 0 BY <2>3, <3>1
      <3> QED BY <2>3, <3>2, Empty
    <2>5. r # << >> BY <1>3, <2>4, CutNone
    <2>6. Cut(sp \o r) = sp \o c BY <1>1, <1>2, <1>3, <2>5, CutJoin
    <2>7. TrimLeft(sp \o c, {Space}) = c BY <2>3, Distinct, SkipSpace DEF sp
    <2> QED BY <1>4, <2>6, <2>7 DEF c
  <1> QED BY <1>5, <1>6

\* CutBlock takes the body and the END line off, and writes the block.
LEMMA BlockTaken ==
  ASSUME NEW blocks \in Certificates, NEW width, NEW k \in 1..Len(blocks),
         cert = (BodyLine(blocks[k], width) \o Ended(blocks[k])) \o Ahead(blocks, width, k)
  PROVE  /\ FooterEnd > 0
         /\ Unspaced(SubSeq(cert, 1, EndStart - 1)) = blocks[k].body
         /\ SubSeq(cert, EndStart, FooterEnd) = Ended(blocks[k])
         /\ TrimLeft(After(cert, FooterEnd), {Space}) = Left(blocks, width, k)
  <1> DEFINE block == blocks[k]
             b == BodyLine(block, width)
             e == Ended(block)
             a == Ahead(blocks, width, k)
             n == Len(b)
             m == Len(e)
  <1>1. IsBlock(block) /\ Plain(block.body) /\ block.body \in Tokens BY BlocksAre DEF IsBlock, Plain
  <1>2. a \in Tokens /\ b \in Tokens BY Remaining
  <1>3. e \in Tokens /\ m \in Nat \ {0} BY <1>1, LinesAre
  <1>4. Unwrapped(block.body, Len(block.body), b) BY <1>1, WrappedLine DEF BodyLine
  <1>5. Unspaced(b) = block.body
    <2>1. SubSeq(block.body, 1, Len(block.body)) = block.body BY <1>1, SubSeqFull DEF Tokens
    <2> QED BY <1>4, <2>1 DEF Unwrapped
  <1>6. \A i \in 1..Len(b) : b[i] # Dashes BY <1>4 DEF Unwrapped
  <1>7. /\ block.label \in Tokens
        /\ \A i \in 1..Len(block.label) : block.label[i] # Dashes
    BY <1>1 DEF IsBlock, IsLabel
  <1>8. EndStart = n + 1 /\ FooterEnd = n + m
    BY <1>2, <1>6, <1>7, FooterFound DEF Ended
  <1>9. n \in Nat BY <1>2, TokensAre
  <1> HIDE DEF n, m, b, e, a
  <1>10. n + m > 0 /\ n + 1 - 1 = n BY <1>3, <1>9
  <1>11. /\ SubSeq((b \o e) \o a, n + 1, n + m) = e
         /\ After((b \o e) \o a, n + m) = a
         /\ SubSeq((b \o e) \o a, 1, n) = b
    BY <1>2, <1>3, MiddleOfJoin DEF n, m
  <1>12. cert = (b \o e) \o a BY DEF b, e, a
  <1>13. TrimLeft(a, {Space}) = Left(blocks, width, k) BY SkipAhead DEF a
  <1>14. FooterEnd > 0 BY <1>8, <1>10
  <1>15. SubSeq(cert, 1, EndStart - 1) = b
    <2>1. EndStart - 1 = n BY <1>8, <1>9
    <2> QED BY <1>11, <1>12, <2>1
  <1>16. SubSeq(cert, EndStart, FooterEnd) = e /\ After(cert, FooterEnd) = a
    BY <1>8, <1>11, <1>12
  <1> QED BY <1>5, <1>13, <1>14, <1>15, <1>16 DEF e, block

\* What Trim leaves of a file on one line is all of its blocks.
LEMMA OneLineTrimmed ==
  ASSUME NEW blocks \in Certificates, NEW width
  PROVE  /\ TrimSpace(OneLine(File(blocks, width))) = Left(blocks, width, 0)
         /\ ~Contains(Left(blocks, width, 0), Newline)
  <1> DEFINE file == File(blocks, width)
  <1>1. file \in Tokens /\ Lines(file) /\ file = Tails(blocks, width)[0] BY FileParts, FileLines
  <1> HIDE DEF file
  <1>2. PICK core \in Tokens : file = core \o <<Newline>> /\ Trimmed(core) BY <1>1, LinesCore
  <1> DEFINE line == OneLine(core)
  <1>3. /\ line \in Tokens /\ Len(line) = Len(core) /\ Len(core) \in Nat
        /\ \A i \in 1..Len(core) : line[i] = IF core[i] = Newline THEN Space ELSE core[i]
    BY OneLineIs, TokensAre
  <1>4. OneLine(file) = line \o <<Space>>
    <2>1. <<Newline>> \in Tokens BY Markers
    <2> QED BY <1>2, <2>1, OneLineJoin, OneLineNewline
  <1> HIDE DEF line
  <1>5. Trimmed(line)
    <2> SUFFICES ASSUME line # << >>
                 PROVE  line[1] \notin {Space, Newline} /\ line[Len(line)] \notin {Space, Newline}
      BY DEF Trimmed
    <2>1. Len(core) # 0 BY <1>3, Empty
    <2>2. core # << >> BY <2>1, Empty
    <2>3. core[1] \notin {Space, Newline} /\ core[Len(core)] \notin {Space, Newline}
      BY <1>2, <2>2 DEF Trimmed
    <2>4. 1 \in 1..Len(core) /\ Len(core) \in 1..Len(core) BY <1>3, <2>1
    <2> QED BY <1>3, <2>3, <2>4
  <1>6. TrimSpace(line \o <<Space>>) = line BY <1>3, <1>5, TrimOne
  <1>7. Left(blocks, width, 0) = line
    <2>1. Cut(line \o <<Space>>) = line BY <1>3, CutLast, Distinct
    <2> QED BY <1>1, <1>4, <2>1 DEF Left
  <1>8. ~Contains(line, Newline) BY <1>3, Distinct DEF Contains
  <1> QED BY <1>4, <1>6, <1>7, <1>8 DEF file

-----------------------------------------------------------------------------
(***************************************************************************)
(* A file on one line is restored.                                         *)
(*                                                                         *)
(* After each turn of the loop the output is the file's head up to a block *)
(* and the rest is what is left from this block on.                        *)
(***************************************************************************)

\* The first round over a file on one line, block by block, and its result.
Reads(blocks, width) ==
  /\ round = 1 =>
       /\ pc = "trim" => cert = text /\ out = << >>
       /\ pc = "header" => \E k \in 0..Len(blocks) :
            out = Heads(blocks, Width)[k] /\ cert = Left(blocks, width, k)
       /\ pc = "block" => \E k \in 1..Len(blocks) :
            /\ out = Heads(blocks, Width)[k - 1]
            /\ header = Begun(blocks[k])
            /\ cert = (BodyLine(blocks[k], width) \o Ended(blocks[k])) \o Ahead(blocks, width, k)
       /\ pc = "finish" => out = File(blocks, Width)
  /\ round = 2 => first = File(blocks, Width)

\* The first round over a text that is lines, and its result.
Copies ==
  /\ round = 1 =>
       /\ pc = "trim" => cert = text /\ out = << >>
       /\ pc \in {"trim", "finish"}
       /\ pc = "finish" =>
            /\ out = << >>
            /\ cert \in Tokens /\ Trimmed(cert) /\ text = cert \o <<Newline>>
  /\ round = 2 => first = text

RestoredInv ==
  \A blocks \in Certificates, width \in Widths :
    /\ text = OneLine(File(blocks, width)) => Reads(blocks, width)
    /\ text = File(blocks, width) => Copies

\* Every step preserves what is said of a text that is lines.
LEMMA CopiesStep ==
  ASSUME TypeOK, text \in Tokens, Lines(text), Copies, [Next]_vars
  PROVE  Copies'
  <1>1. PICK core \in Tokens :
          text = core \o <<Newline>> /\ Trimmed(core) /\ Contains(core, Newline)
    BY LinesCore
  <1>2. TrimSpace(text) = core BY <1>1, TrimNewline
  <1>3. ASSUME NEW c \in Tokens, Trimmed(c) PROVE TrimRight(c, {Newline}) = c BY <1>3, TrimNewline
  <1>4. CASE round = 1
    <2>1. CASE Trim
      <3>1. cert' = core /\ out' = << >> /\ round' = 1 /\ text' = text
        BY <1>2, <1>4, <2>1 DEF Trim, Copies
      <3>2. pc' = "finish" BY <1>1, <2>1, <3>1 DEF Trim
      <3> QED BY <1>1, <3>1, <3>2 DEF Copies
    <2>2. CASE Finish
      <3>1. /\ first' = Result /\ round' = 2 /\ text' = text
            /\ pc = "finish"
        BY <1>4, <2>2 DEF Finish
      <3>2. /\ out = << >> /\ cert \in Tokens /\ Trimmed(cert)
            /\ text = cert \o <<Newline>>
        BY <1>4, <3>1 DEF Copies
      <3>3. Result = text BY <1>3, <3>2 DEF Result
      <3> QED BY <3>1, <3>3 DEF Copies
    <2>3. CASE UNCHANGED vars BY <2>3 DEF Copies, vars
    <2>4. ~(CutHeader \/ CutBlock \/ LeaveLoop \/ Stopped)
      BY <1>4 DEF Copies, CutHeader, CutBlock, LeaveLoop, Stopped
    <2> QED BY <2>1, <2>2, <2>3, <2>4 DEF Next
  <1>5. CASE round = 2
    <2>1. round' = 2 /\ text' = text /\ first' = first
      <3>1. round # 1 BY <1>5
      <3> QED BY <1>5, <3>1 DEF Next, Trim, CutHeader, CutBlock, LeaveLoop, Finish, Stopped, vars
    <2> QED BY <1>5, <2>1 DEF Copies
  <1> QED BY <1>4, <1>5 DEF TypeOK

\* Trim, over a file on one line.
LEMMA ReadsTrim ==
  ASSUME NEW blocks \in Certificates, NEW width, text = OneLine(File(blocks, width)),
         Reads(blocks, width), round = 1, Trim
  PROVE  Reads(blocks, width)'
  <1>1. /\ cert' = TrimSpace(text) /\ out' = << >> /\ round' = 1 /\ text' = text
    BY DEF Trim, Reads
  <1>2. cert' = Left(blocks, width, 0) /\ ~Contains(cert', Newline) BY <1>1, OneLineTrimmed
  <1>3. pc' = "header" BY <1>2 DEF Trim
  <1>4. out' = Heads(blocks, Width)[0] BY <1>1, FileParts
  <1>5. 0 \in 0..Len(blocks) BY BlocksAre
  <1>6. Reads(blocks, width)' BY <1>1, <1>2, <1>3, <1>4, <1>5 DEF Reads
  <1> QED BY <1>6

\* CutHeader, over a file on one line.
LEMMA ReadsCutHeader ==
  ASSUME NEW blocks \in Certificates, NEW width, Reads(blocks, width), round = 1, CutHeader
  PROVE  Reads(blocks, width)'
  <1>1. /\ pc = "header" /\ HeaderEnd(cert) > 0
        /\ pc' = "block" /\ round' = 1 /\ out' = out
        /\ header' = SubSeq(cert, 1, HeaderEnd(cert))
        /\ cert' = TrimLeft(After(cert, HeaderEnd(cert)), {Space})
    BY DEF CutHeader
  <1>2. PICK j \in 0..Len(blocks) : out = Heads(blocks, Width)[j] /\ cert = Left(blocks, width, j)
    BY <1>1 DEF Reads
  <1>3. Len(blocks) \in Nat BY BlocksAre
  <1>4. j # Len(blocks)
    <2> SUFFICES ASSUME j = Len(blocks) PROVE FALSE OBVIOUS
    <2>1. cert = << >> BY <1>2, LeftIs
    <2>2. << >> \in Tokens /\ Len(<< >>) = 0 BY Markers
    <2>3. HeaderEnd(<< >>) \in 0..0 BY <2>2, HeaderEndOf
    <2>4. HeaderEnd(<< >>) = 0 BY <2>3
    <2> QED BY <1>1, <2>1, <2>4
  <1> DEFINE k == j + 1
  <1>5. k \in 1..Len(blocks) /\ k - 1 = j BY <1>3, <1>4
  <1> HIDE DEF k
  <1>6. /\ SubSeq(cert, 1, HeaderEnd(cert)) = Begun(blocks[k])
        /\ TrimLeft(After(cert, HeaderEnd(cert)), {Space}) =
             (BodyLine(blocks[k], width) \o Ended(blocks[k])) \o Ahead(blocks, width, k)
    BY <1>2, <1>5, HeaderTaken
  <1>7. out' = Heads(blocks, Width)[k - 1] BY <1>1, <1>2, <1>5
  <1>8. /\ header' = Begun(blocks[k])
        /\ cert' = (BodyLine(blocks[k], width) \o Ended(blocks[k])) \o Ahead(blocks, width, k)
    BY <1>1, <1>6, Zenon
  <1>9. pc' = "block" /\ round' # 2
    <2>1. round' = 1 BY <1>1, Zenon
    <2>2. round' # 2 BY <2>1
    <2> QED BY <1>1, <2>2, Zenon
  <1> QED BY <1>5, <1>7, <1>8, <1>9, Zenon DEF Reads

\* CutBlock, over a file on one line.
LEMMA ReadsCutBlock ==
  ASSUME NEW blocks \in Certificates, NEW width, Reads(blocks, width), round = 1, CutBlock
  PROVE  Reads(blocks, width)'
  <1>1. pc = "block" /\ pc' = "header" /\ round' = 1 BY DEF CutBlock
  <1>2. PICK k \in 1..Len(blocks) :
          /\ out = Heads(blocks, Width)[k - 1]
          /\ header = Begun(blocks[k])
          /\ cert = (BodyLine(blocks[k], width) \o Ended(blocks[k])) \o Ahead(blocks, width, k)
    BY <1>1 DEF Reads
  <1>3. k \in 0..Len(blocks) /\ k - 1 \in 0..Len(blocks) BY BlocksAre
  <1>4. /\ Unspaced(SubSeq(cert, 1, EndStart - 1)) = blocks[k].body
        /\ SubSeq(cert, EndStart, FooterEnd) = Ended(blocks[k])
        /\ TrimLeft(After(cert, FooterEnd), {Space}) = Left(blocks, width, k)
    BY <1>2, BlockTaken
  <1>5. out' = Written(out, Begun(blocks[k]), Wrapped(blocks[k].body, Width), Ended(blocks[k]))
    BY <1>2, <1>4 DEF CutBlock, Written
  <1>6. out' = out \o Block(blocks[k], Width)
    <2>1. IsBlock(blocks[k]) BY BlocksAre
    <2>2. out \in Tokens BY <1>2, <1>3, FileParts
    <2> QED BY <1>5, <2>1, <2>2, BlockWritten
  <1>7. out' = Heads(blocks, Width)[k] BY <1>2, <1>6, FileParts
  <1>8. cert' = Left(blocks, width, k) BY <1>4 DEF CutBlock
  <1> QED BY <1>1, <1>3, <1>7, <1>8 DEF Reads

\* LeaveLoop, over a file on one line.
LEMMA ReadsLeaveLoop ==
  ASSUME NEW blocks \in Certificates, NEW width, Reads(blocks, width), round = 1, LeaveLoop
  PROVE  Reads(blocks, width)'
  <1>1. /\ (pc = "header" /\ HeaderEnd(cert) = 0) \/ (pc = "block" /\ FooterEnd = 0)
        /\ pc' = "finish" /\ round' = 1 /\ out' = out
    BY Zenon DEF LeaveLoop
  <1>2. ~(pc = "block" /\ FooterEnd = 0)
    <2> SUFFICES ASSUME pc = "block", FooterEnd = 0 PROVE FALSE OBVIOUS
    <2>1. PICK k \in 1..Len(blocks) :
            cert = (BodyLine(blocks[k], width) \o Ended(blocks[k])) \o Ahead(blocks, width, k)
      BY DEF Reads
    <2>2. FooterEnd > 0 BY <2>1, BlockTaken
    <2> QED BY <2>2
  <1>3. PICK j \in 0..Len(blocks) : out = Heads(blocks, Width)[j] /\ cert = Left(blocks, width, j)
    BY <1>1, <1>2 DEF Reads
  <1>4. j = Len(blocks)
    <2> SUFFICES ASSUME j # Len(blocks) PROVE FALSE OBVIOUS
    <2>1. Len(blocks) \in Nat BY BlocksAre
    <2>2. j + 1 \in 1..Len(blocks) /\ (j + 1) - 1 = j BY <2>1
    <2>3. /\ HeaderEnd(Left(blocks, width, (j + 1) - 1)) = Len(Begun(blocks[j + 1]))
          /\ Len(Begun(blocks[j + 1])) > 0
      BY <2>2, LeftIs
    <2>4. HeaderEnd(cert) > 0 BY <1>3, <2>2, <2>3
    <2>5. HeaderEnd(cert) = 0 BY <1>1, <1>2, Zenon
    <2> QED BY <2>4, <2>5
  <1>5. out' = File(blocks, Width) BY <1>1, <1>3, <1>4, FileParts
  <1> QED BY <1>1, <1>5 DEF Reads

\* Finish, over a file on one line.
LEMMA ReadsFinish ==
  ASSUME NEW blocks \in Certificates, NEW width, Reads(blocks, width), round = 1, Finish
  PROVE  Reads(blocks, width)'
  <1>1. /\ pc = "finish" /\ round' = 2 /\ first' = Result BY DEF Finish
  <1>2. out = File(blocks, Width) BY <1>1 DEF Reads
  <1>3. out # << >>
    <2>1. Lines(out) BY <1>2, FileLines
    <2>2. out \in Tokens BY <1>2, FileParts
    <2>3. Len(out) # 0
      <3>1. Len(out) > 1 BY <2>1 DEF Lines
      <3> QED BY <3>1
    <2> QED BY <2>2, <2>3, Empty
  <1>4. first' = File(blocks, Width) BY <1>1, <1>2, <1>3 DEF Result
  <1> QED BY <1>1, <1>4 DEF Reads

\* Every step, over a file on one line.
LEMMA ReadsStep ==
  ASSUME TwiceInv, NEW blocks \in Certificates, NEW width, text = OneLine(File(blocks, width)),
         Reads(blocks, width), [Next]_vars
  PROVE  Reads(blocks, width)'
  <1>1. CASE UNCHANGED vars BY <1>1 DEF Reads, vars
  <1>2. CASE round = 1 /\ Next
    <2>1. ~Stopped BY <1>2 DEF Stopped, TwiceInv, FirstRound
    <2> QED BY <1>2, <2>1, ReadsTrim, ReadsCutHeader, ReadsCutBlock, ReadsLeaveLoop, ReadsFinish
          DEF Next
  <1>3. CASE round = 2 /\ Next
    <2>1. round' = 2 /\ first' = first
      <3>1. round # 1 BY <1>3
      <3> QED BY <1>3, <3>1 DEF Next, Trim, CutHeader, CutBlock, LeaveLoop, Finish, Stopped, vars
    <2> QED BY <1>3, <2>1 DEF Reads
  <1> QED BY <1>1, <1>2, <1>3 DEF TwiceInv, TypeOK

\* A file of certificates that comes on one line comes back from normalizePEMCert
\* block by block, with the lines of a PEM file, for every number of blocks, every
\* label and body and every width of its lines; one with its newlines comes back as it was.
THEOREM BlocksRestored == Spec => []Restored
  <1>1. Init => RestoredInv
    <2>1. ASSUME Init PROVE round = 1 /\ pc = "trim" /\ cert = text /\ out = << >>
      BY <2>1 DEF Init
    <2> QED BY <2>1 DEF RestoredInv, Reads, Copies
  <1>2. TwiceInv /\ RestoredInv /\ [Next]_vars => RestoredInv'
    <2> SUFFICES ASSUME TwiceInv, RestoredInv, [Next]_vars,
                        NEW blocks \in Certificates, NEW width \in Widths
                 PROVE  /\ text' = OneLine(File(blocks, width)) => Reads(blocks, width)'
                        /\ text' = File(blocks, width) => Copies'
      BY DEF RestoredInv
    <2>1. text' = text
      BY DEF Next, Trim, CutHeader, CutBlock, LeaveLoop, Finish, Stopped, vars
    <2>2. text = OneLine(File(blocks, width)) => Reads(blocks, width)' BY ReadsStep DEF RestoredInv
    <2>3. text = File(blocks, width) => Copies'
      <3>1. TypeOK BY DEF TwiceInv
      <3>2. File(blocks, width) \in Tokens /\ Lines(File(blocks, width)) BY FileParts, FileLines
      <3>3. text = File(blocks, width) => Copies BY DEF RestoredInv
      <3> QED BY <3>1, <3>2, <3>3, CopiesStep
    <2> QED BY <2>1, <2>2, <2>3
  <1>3. RestoredInv => Restored BY DEF RestoredInv, Reads, Copies, Restored, Normalized
  <1>4. Spec => []TwiceInv BY Twice
  <1> QED BY <1>1, <1>2, <1>3, <1>4, PTL DEF Spec
=============================================================================
