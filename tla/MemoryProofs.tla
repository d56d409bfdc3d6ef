---------------------------- MODULE MemoryProofs ----------------------------
(***************************************************************************)
(* Proofs about Memory, for any number of messages, conversations, turns,  *)
(* resolves, /reset commands and failures.                                 *)
(*                                                                         *)
(* What could lose a message is a rewrite: it takes out of the thread what *)
(* its run folded, and a run folds what an earlier summary may already     *)
(* stand for.  So the invariant has to say what a summary stands for once  *)
(* its end is all that is compared:                                        *)
(*                                                                         *)
(*   FreshInv    a message that waits is nowhere else yet;                 *)
(*   SnapInv     no message stands twice in the thread, and what a turn    *)
(*               loaded has everything the thread still has;               *)
(*   LockInv     a /reset that holds the row keeps turns and appends out;  *)
(*   BackedInv   wherever the end of a summary stands raw, in the thread,  *)
(*               in a loaded channel or in a fold, all that stands before  *)
(*               it is safe (covered, told as cleared, blank or torn), and *)
(*               of a run that has not written its row yet, all before the *)
(*               end of its fold is safe or in the fold;                   *)
(*   HeadInv     a head carries the id of a message that is safe.          *)
(*                                                                         *)
(* ClearedStaysForgotten adds the fence.  RowInv: a row that is made again *)
(* is newer than every run.  ClearInv: what was told is nowhere live.      *)
(* FenceInv: the run of a row that is still there folds nothing cleared.   *)
(* UptoInv: no row is written while a /reset is open; this one needs the   *)
(* /reset to run in the leader's section.                                  *)
(*                                                                         *)
(* SummarizedOnce, for a contact with one conversation, adds ApartInv      *)
(* (what the newest summary covers stands raw only together with its end,  *)
(* so the next run finds it) and NewInv (what a run decided to describe    *)
(* no summary covers).                                                     *)
(***************************************************************************)
EXTENDS MCEnds, SequenceTheorems, FiniteSetTheorems, TLAPS

-----------------------------------------------------------------------------
(* Sequences of messages                                                    *)

LEMMA SeqFacts ==
    ASSUME NEW S, NEW s \in Seq(S)
    PROVE  /\ Len(s) \in Nat /\ DOMAIN s = 1..Len(s)
           /\ \A k \in 1..Len(s) : s[k] \in S
           /\ ToSet(s) \subseteq S
           /\ \A m : m \in ToSet(s) <=> \E k \in 1..Len(s) : s[k] = m
           /\ \A k \in 1..Len(s) : s[k] \in ToSet(s)
           /\ s # <<>> => Len(s) >= 1 /\ Last(s) = s[Len(s)] /\ Last(s) \in ToSet(s)
<1>1. Len(s) \in Nat /\ DOMAIN s = 1..Len(s) /\ \A k \in 1..Len(s) : s[k] \in S
  BY LenProperties, ElementOfSeq
<1>2. s # <<>> => Len(s) >= 1
  BY EmptySeq
<1>. QED BY <1>1, <1>2 DEF ToSet, Last

LEMMA EmptyFacts == ToSet(<<>>) = {} /\ \A S : <<>> \in Seq(S)
  BY EmptySeq DEF ToSet

LEMMA AppendFacts ==
    ASSUME NEW S, NEW s \in Seq(S), NEW m \in S
    PROVE  /\ Append(s, m) \in Seq(S)
           /\ Len(Append(s, m)) = Len(s) + 1
           /\ \A k \in 1..Len(s) : Append(s, m)[k] = s[k]
           /\ Append(s, m)[Len(s) + 1] = m
           /\ ToSet(Append(s, m)) = ToSet(s) \cup {m}
<1>1. /\ Append(s, m) \in Seq(S) /\ Len(Append(s, m)) = Len(s) + 1
      /\ \A k \in 1..Len(s) : Append(s, m)[k] = s[k]
      /\ Append(s, m)[Len(s) + 1] = m
  BY SeqFacts
<1>2. ToSet(Append(s, m)) = ToSet(s) \cup {m}
  <2>1. ASSUME NEW x \in ToSet(Append(s, m)) PROVE x \in ToSet(s) \cup {m}
    <3>1. PICK k \in 1..Len(Append(s, m)) : Append(s, m)[k] = x
      BY <1>1, <2>1, SeqFacts
    <3>2. CASE k \in 1..Len(s)
      BY <1>1, <3>1, <3>2, SeqFacts
    <3>3. CASE k = Len(s) + 1
      BY <1>1, <3>1, <3>3
    <3>4. k \in 1..Len(s) \/ k = Len(s) + 1
      BY <1>1, SeqFacts
    <3>. QED BY <3>2, <3>3, <3>4
  <2>2. ASSUME NEW x \in ToSet(s) PROVE x \in ToSet(Append(s, m))
    <3>1. PICK k \in 1..Len(s) : s[k] = x
      BY SeqFacts
    <3>2. k \in 1..Len(Append(s, m)) /\ Append(s, m)[k] = x
      BY <1>1, <3>1, SeqFacts
    <3>. QED BY <1>1, <3>2, SeqFacts
  <2>3. m \in ToSet(Append(s, m))
    <3>1. Len(s) + 1 \in 1..Len(Append(s, m))
      BY <1>1, SeqFacts
    <3>. QED BY <1>1, <3>1, SeqFacts
  <2>. QED BY <2>1, <2>2, <2>3
<1>. QED BY <1>1, <1>2

LEMMA SliceFacts ==
    ASSUME NEW S, NEW s \in Seq(S), NEW m \in Nat \ {0}, NEW n \in Nat, m <= n + 1, n <= Len(s)
    PROVE  /\ SubSeq(s, m, n) \in Seq(S) /\ Len(SubSeq(s, m, n)) = n - m + 1
           /\ \A k \in 1..n - m + 1 : SubSeq(s, m, n)[k] = s[m + k - 1]
           /\ ToSet(SubSeq(s, m, n)) \subseteq ToSet(s)
           /\ \A k \in m..n : s[k] \in ToSet(SubSeq(s, m, n))
<1>. DEFINE r == SubSeq(s, m, n)
<1>1. \A k \in m..n : s[k] \in S
  BY SeqFacts
<1>2. /\ r \in Seq(S)
      /\ Len(r) = IF m <= n THEN n - m + 1 ELSE 0
      /\ \A k \in 1..n - m + 1 : r[k] = s[m + k - 1]
  BY <1>1, SubSeqProperties
<1>. HIDE DEF r
<1>3. Len(r) = n - m + 1
  BY <1>2
<1>4. ASSUME NEW x \in ToSet(r) PROVE x \in ToSet(s)
  <2>1. PICK k \in 1..Len(r) : r[k] = x
    BY <1>2, SeqFacts
  <2>2. m + k - 1 \in 1..Len(s) /\ s[m + k - 1] = x
    BY <1>2, <1>3, <2>1, SeqFacts
  <2>. QED BY <2>2, SeqFacts
<1>5. ASSUME NEW k \in m..n PROVE s[k] \in ToSet(r)
  <2>1. k - m + 1 \in 1..Len(r) /\ m + (k - m + 1) - 1 = k
    BY <1>3
  <2>2. r[k - m + 1] = s[k]
    BY <1>2, <1>3, <2>1
  <2>. QED BY <1>2, <2>1, <2>2, SeqFacts
<1>. QED BY <1>2, <1>3, <1>4, <1>5 DEF r

\* The first n elements.
LEMMA FrontFacts ==
    ASSUME NEW S, NEW s \in Seq(S), NEW n \in 0..Len(s)
    PROVE  /\ SubSeq(s, 1, n) \in Seq(S) /\ Len(SubSeq(s, 1, n)) = n
           /\ \A k \in 1..n : SubSeq(s, 1, n)[k] = s[k]
           /\ ToSet(SubSeq(s, 1, n)) \subseteq ToSet(s)
<1>1. n \in Nat /\ n <= Len(s) /\ 1 <= n + 1 /\ n - 1 + 1 = n
      /\ \A k \in 1..n : 1 + k - 1 = k
  BY SeqFacts
<1>2. /\ SubSeq(s, 1, n) \in Seq(S) /\ Len(SubSeq(s, 1, n)) = n - 1 + 1
      /\ \A k \in 1..n - 1 + 1 : SubSeq(s, 1, n)[k] = s[1 + k - 1]
      /\ ToSet(SubSeq(s, 1, n)) \subseteq ToSet(s)
  BY <1>1, SliceFacts
<1>. QED BY <1>1, <1>2

\* All but the first n elements.
LEMMA RestFacts ==
    ASSUME NEW S, NEW s \in Seq(S), NEW n \in 0..Len(s)
    PROVE  /\ SubSeq(s, n + 1, Len(s)) \in Seq(S)
           /\ Len(SubSeq(s, n + 1, Len(s))) = Len(s) - n
           /\ \A k \in 1..Len(s) - n : SubSeq(s, n + 1, Len(s))[k] = s[n + k]
           /\ ToSet(SubSeq(s, n + 1, Len(s))) \subseteq ToSet(s)
           /\ \A k \in n + 1..Len(s) : s[k] \in ToSet(SubSeq(s, n + 1, Len(s)))
<1>. DEFINE m == n + 1
            l == Len(s)
<1>1. m \in Nat \ {0} /\ l \in Nat /\ m <= l + 1 /\ l <= Len(s) /\ l - m + 1 = Len(s) - n
      /\ \A k \in 1..Len(s) - n : m + k - 1 = n + k
  BY SeqFacts
<1>2. /\ SubSeq(s, m, l) \in Seq(S) /\ Len(SubSeq(s, m, l)) = l - m + 1
      /\ \A k \in 1..l - m + 1 : SubSeq(s, m, l)[k] = s[m + k - 1]
      /\ ToSet(SubSeq(s, m, l)) \subseteq ToSet(s)
      /\ \A k \in m..l : s[k] \in ToSet(SubSeq(s, m, l))
  <2>. HIDE DEF m, l
  <2>. QED BY <1>1, SliceFacts
<1>. QED BY <1>1, <1>2

\* A set of positions has a last one.
LEMMA LastPosition ==
    ASSUME NEW n \in Nat, NEW T \in SUBSET (1..n), T # {}
    PROVE  \E i \in T : \A j \in T : j <= i
<1>. DEFINE After(i) == i..n
            Tails == {After(i) : i \in T}
<1>1. IsWellFoundedOn(StrictSubsetOrdering(1..n), FiniteSubsetsOf(1..n))
  BY FS_StrictSubsetOrderingWellFounded
<1>2. Tails \subseteq FiniteSubsetsOf(1..n) /\ Tails # {}
  <2>1. ASSUME NEW i \in T PROVE After(i) \subseteq 1..n /\ IsFiniteSet(After(i))
    BY FS_Interval
  <2>. QED BY <2>1 DEF FiniteSubsetsOf
<1>3. PICK X \in Tails : \A Y \in Tails : <<Y, X>> \notin StrictSubsetOrdering(1..n)
  <2>. HIDE DEF Tails
  <2>. QED BY <1>1, <1>2, WFMin
<1>4. PICK i \in T : X = After(i)
  OBVIOUS
<1>5. ASSUME NEW j \in T, i < j PROVE FALSE
  <2>1. After(j) \subseteq After(i) /\ i \in After(i) /\ i \notin After(j)
    BY <1>5
  <2>2. After(j) \subseteq 1..n /\ After(i) \subseteq 1..n
    OBVIOUS
  <2>3. <<After(j), After(i)>> \in StrictSubsetOrdering(1..n)
    BY <2>1, <2>2 DEF StrictSubsetOrdering
  <2>. QED BY <1>3, <1>4, <2>3
<1>. QED BY <1>5

-----------------------------------------------------------------------------
(* What stands before the end of a summary                                  *)

\* In the sequence, whatever stands up to one of lasts is safe.
Backed(s, lasts, safe) ==
    \A k \in DOMAIN s : s[k] \in lasts => \A j \in 1..k : s[j] \in safe

LEMMA BackedWeaker ==
    ASSUME NEW s, NEW L, NEW S, NEW M, NEW T, Backed(s, L, S), M \subseteq L, S \subseteq T
    PROVE  Backed(s, M, T)
  BY DEF Backed

LEMMA BackedJoined ==
    ASSUME NEW s, NEW L, NEW S, NEW M, NEW T, Backed(s, L, S), Backed(s, M, T)
    PROVE  Backed(s, L \cup M, S \cup T)
  BY DEF Backed

LEMMA BackedEmpty == ASSUME NEW L, NEW S PROVE Backed(<<>>, L, S)
  BY EmptySeq, SeqFacts DEF Backed

LEMMA BackedAppend ==
    ASSUME NEW V, NEW s \in Seq(V), NEW m \in V, NEW L, NEW S, Backed(s, L, S), m \notin L
    PROVE  Backed(Append(s, m), L, S)
<1>. DEFINE r == Append(s, m)
<1>1. /\ r \in Seq(V) /\ Len(r) = Len(s) + 1 /\ \A k \in 1..Len(s) : r[k] = s[k]
      /\ r[Len(s) + 1] = m
  BY AppendFacts
<1>. HIDE DEF r
<1>2. Len(s) \in Nat /\ DOMAIN r = 1..Len(s) + 1 /\ DOMAIN s = 1..Len(s)
  BY <1>1, SeqFacts
<1>3. ASSUME NEW k \in DOMAIN r, r[k] \in L, NEW j \in 1..k PROVE r[j] \in S
  <2>1. k # Len(s) + 1
    BY <1>1, <1>3
  <2>2. k \in 1..Len(s) /\ j \in 1..Len(s)
    BY <1>2, <2>1
  <2>3. r[k] = s[k] /\ r[j] = s[j]
    BY <1>1, <2>2
  <2>. QED BY <1>2, <1>3, <2>2, <2>3 DEF Backed
<1>4. Backed(r, L, S)
  BY <1>3 DEF Backed
<1>. QED BY <1>4 DEF r

LEMMA BackedFront ==
    ASSUME NEW V, NEW s \in Seq(V), NEW n \in 0..Len(s), NEW L, NEW S, Backed(s, L, S)
    PROVE  Backed(SubSeq(s, 1, n), L, S)
<1>. DEFINE r == SubSeq(s, 1, n)
<1>1. r \in Seq(V) /\ Len(r) = n /\ \A k \in 1..n : r[k] = s[k]
  BY FrontFacts
<1>. HIDE DEF r
<1>2. n \in Nat /\ n <= Len(s) /\ Len(s) \in Nat /\ DOMAIN r = 1..n /\ DOMAIN s = 1..Len(s)
  BY <1>1, SeqFacts
<1>3. ASSUME NEW k \in DOMAIN r, r[k] \in L, NEW j \in 1..k PROVE r[j] \in S
  <2>1. k \in 1..n /\ j \in 1..n /\ k \in DOMAIN s
    BY <1>2
  <2>2. r[k] = s[k] /\ r[j] = s[j]
    BY <1>1, <2>1
  <2>. QED BY <1>3, <2>1, <2>2 DEF Backed
<1>4. Backed(r, L, S)
  BY <1>3 DEF Backed
<1>. QED BY <1>4 DEF r

LEMMA BackedRest ==
    ASSUME NEW V, NEW s \in Seq(V), NEW n \in 0..Len(s), NEW L, NEW S, Backed(s, L, S)
    PROVE  Backed(SubSeq(s, n + 1, Len(s)), L, S)
<1>. DEFINE r == SubSeq(s, n + 1, Len(s))
<1>1. r \in Seq(V) /\ Len(r) = Len(s) - n /\ \A k \in 1..Len(s) - n : r[k] = s[n + k]
  BY RestFacts
<1>. HIDE DEF r
<1>2. /\ n \in Nat /\ n <= Len(s) /\ Len(s) \in Nat
      /\ DOMAIN r = 1..Len(s) - n /\ DOMAIN s = 1..Len(s)
  BY <1>1, SeqFacts
<1>3. ASSUME NEW k \in DOMAIN r, r[k] \in L, NEW j \in 1..k PROVE r[j] \in S
  <2>1. k \in 1..Len(s) - n /\ j \in 1..Len(s) - n /\ n + k \in DOMAIN s /\ n + j \in 1..n + k
    BY <1>2
  <2>2. r[k] = s[n + k] /\ r[j] = s[n + j]
    BY <1>1, <2>1
  <2>. QED BY <1>3, <2>1, <2>2 DEF Backed
<1>4. Backed(r, L, S)
  BY <1>3 DEF Backed
<1>. QED BY <1>4 DEF r

\* Up to its own last element, a front of s is that front, for no message stands twice.
LEMMA BackedByFront ==
    ASSUME NEW V, NEW s \in Seq(V), IsInjective(s), NEW n \in 1..Len(s), NEW S
    PROVE  LET f == SubSeq(s, 1, n) IN Backed(s, {Last(f)}, ToSet(f) \cup S)
<1>. DEFINE f == SubSeq(s, 1, n)
<1>1. f \in Seq(V) /\ Len(f) = n /\ \A k \in 1..n : f[k] = s[k]
  BY FrontFacts
<1>. HIDE DEF f
<1>2. Last(f) = s[n] /\ n \in DOMAIN s /\ DOMAIN s = 1..Len(s) /\ Len(s) \in Nat
  BY <1>1, SeqFacts DEF Last
<1>3. ASSUME NEW k \in DOMAIN s, s[k] \in {Last(f)}, NEW j \in 1..k
      PROVE  s[j] \in ToSet(f) \cup S
  <2>1. k = n
    BY <1>2, <1>3 DEF IsInjective
  <2>2. j \in 1..n /\ f[j] = s[j]
    BY <1>1, <2>1
  <2>. QED BY <1>1, <2>2, SeqFacts
<1>4. Backed(s, {Last(f)}, ToSet(f) \cup S)
  BY <1>3 DEF Backed
<1>. QED BY <1>4 DEF f

LEMMA BackedWhole ==
    ASSUME NEW V, NEW s \in Seq(V), s # <<>>, NEW L, NEW S, Backed(s, L, S), Last(s) \in L
    PROVE  ToSet(s) \subseteq S
<1>1. Len(s) \in DOMAIN s /\ s[Len(s)] \in L /\ DOMAIN s = 1..Len(s)
  BY SeqFacts
<1>2. \A j \in 1..Len(s) : s[j] \in S
  BY <1>1 DEF Backed
<1>. QED BY <1>2, SeqFacts

LEMMA InjectiveAppend ==
    ASSUME NEW V, NEW s \in Seq(V), NEW m \in V, IsInjective(s), m \notin ToSet(s)
    PROVE  IsInjective(Append(s, m))
<1>. DEFINE r == Append(s, m)
<1>1. /\ r \in Seq(V) /\ Len(r) = Len(s) + 1 /\ \A k \in 1..Len(s) : r[k] = s[k]
      /\ r[Len(s) + 1] = m
  BY AppendFacts
<1>. HIDE DEF r
<1>2. Len(s) \in Nat /\ DOMAIN r = 1..Len(s) + 1 /\ DOMAIN s = 1..Len(s)
  BY <1>1, SeqFacts
<1>3. \A k \in 1..Len(s) : r[k] = s[k] /\ r[k] # m
  BY <1>1, SeqFacts
<1>4. ASSUME NEW a \in DOMAIN r, NEW b \in DOMAIN r, r[a] = r[b] PROVE a = b
  <2>1. (a \in 1..Len(s) \/ a = Len(s) + 1) /\ (b \in 1..Len(s) \/ b = Len(s) + 1)
    BY <1>2
  <2>. QED BY <1>1, <1>2, <1>3, <1>4, <2>1 DEF IsInjective
<1>5. IsInjective(r)
  BY <1>4 DEF IsInjective
<1>. QED BY <1>5 DEF r

LEMMA InjectiveRest ==
    ASSUME NEW V, NEW s \in Seq(V), NEW n \in 0..Len(s), IsInjective(s)
    PROVE  IsInjective(SubSeq(s, n + 1, Len(s)))
<1>. DEFINE r == SubSeq(s, n + 1, Len(s))
<1>1. r \in Seq(V) /\ Len(r) = Len(s) - n /\ \A k \in 1..Len(s) - n : r[k] = s[n + k]
  BY RestFacts
<1>. HIDE DEF r
<1>2. /\ n \in Nat /\ n <= Len(s) /\ Len(s) \in Nat
      /\ DOMAIN r = 1..Len(s) - n /\ DOMAIN s = 1..Len(s)
  BY <1>1, SeqFacts
<1>3. ASSUME NEW a \in DOMAIN r, NEW b \in DOMAIN r, r[a] = r[b] PROVE a = b
  <2>1. n + a \in DOMAIN s /\ n + b \in DOMAIN s /\ s[n + a] = s[n + b]
    BY <1>1, <1>2, <1>3
  <2>2. n + a = n + b
    BY <2>1 DEF IsInjective
  <2>. QED BY <1>2, <2>2
<1>4. IsInjective(r)
  BY <1>3 DEF IsInjective
<1>. QED BY <1>4 DEF r

-----------------------------------------------------------------------------
(* The operators of the model                                               *)

LEMMA NaturalCutRange ==
    ASSUME NEW whole \in BOOLEAN, body \in Seq(Msgs)
    PROVE  NaturalCut(whole) \in 0..Len(body)
<1>. DEFINE others == {i \in DOMAIN body : stampOf[body[i]] # stampOf[Last(body)]}
<1>1. Len(body) \in Nat /\ DOMAIN body = 1..Len(body)
  BY SeqFacts
<1>2. ASSUME body # <<>> PROVE LastRunFrom(body) - 1 \in 0..Len(body)
  <2>1. CASE others = {}
    BY <1>1, <2>1 DEF LastRunFrom
  <2>2. CASE others # {}
    <3>1. \E i \in others : \A j \in others : j <= i
      BY <1>1, <2>2, LastPosition
    <3>2. (CHOOSE i \in others : \A j \in others : j <= i) \in others
      BY <3>1
    <3>3. LastRunFrom(body) = 1 + (CHOOSE i \in others : \A j \in others : j <= i)
      BY <2>2 DEF LastRunFrom
    <3>. QED BY <1>1, <3>2, <3>3
  <2>. QED BY <2>1, <2>2
<1>. QED BY <1>1, <1>2 DEF NaturalCut

LEMMA OwedRange == ASSUME body \in Seq(Msgs) PROVE OwedUpTo \in 0..Len(body)
<1>1. Len(body) \in Nat /\ DOMAIN body = 1..Len(body)
  BY SeqFacts
<1>2. CASE summaries = <<>> \/ Last(summaries).last \notin ToSet(body)
  BY <1>1, <1>2 DEF OwedUpTo
<1>3. CASE summaries # <<>> /\ Last(summaries).last \in ToSet(body)
  <2>1. \E i \in DOMAIN body : body[i] = Last(summaries).last
    BY <1>3 DEF ToSet
  <2>. QED BY <1>1, <1>3, <2>1 DEF OwedUpTo
<1>. QED BY <1>2, <1>3

LEMMA ChannelFacts ==
    ASSUME NEW h \in {0} \cup Msgs, NEW s \in Seq(Msgs)
    PROVE  /\ Channel(h, s) \in Seq(Msgs)
           /\ h = 0 => Channel(h, s) = s
           /\ h # 0 => /\ Len(Channel(h, s)) = Len(s) + 1 /\ Channel(h, s)[1] = h
                       /\ \A k \in 1..Len(s) : Channel(h, s)[k + 1] = s[k]
<1>1. CASE h = 0
  BY <1>1 DEF Channel
<1>2. CASE h # 0
  <2>1. h \in Msgs /\ <<h>> \in Seq(Msgs) /\ Len(<<h>>) = 1 /\ <<h>>[1] = h
    BY <1>2
  <2>. DEFINE c == <<h>> \o s
  <2>2. /\ c \in Seq(Msgs) /\ Len(c) = 1 + Len(s)
        /\ \A i \in 1..1 + Len(s) : c[i] = IF i <= 1 THEN <<h>>[i] ELSE s[i - 1]
    BY <2>1, ConcatProperties
  <2>. HIDE DEF c
  <2>3. Len(s) \in Nat
    BY SeqFacts
  <2>4. c[1] = h /\ Len(c) = Len(s) + 1
    BY <2>1, <2>2, <2>3
  <2>5. ASSUME NEW k \in 1..Len(s) PROVE c[k + 1] = s[k]
    <3>1. k + 1 \in 1..1 + Len(s) /\ ~(k + 1 <= 1) /\ k + 1 - 1 = k
      BY <2>3
    <3>. QED BY <2>2, <3>1
  <2>6. Channel(h, s) = c
    BY <1>2 DEF Channel, c
  <2>. QED BY <1>2, <2>2, <2>4, <2>5, <2>6
<1>. QED BY <1>1, <1>2

\* A rewrite that finds what it consumed unchanged leaves the rest of the body, and what it takes
\* out it had read: as a message, or as the head.
LEMMA KeptIsRest ==
    ASSUME body \in Seq(Msgs), pass.fold \in Seq(Msgs), pass.fold # <<>>,
           head \in {0} \cup Msgs, pass.head \in {0} \cup Msgs, Unchanged
    PROVE  \E n \in 0..Len(body) :
             /\ Kept = SubSeq(body, n + 1, Len(body))
             /\ \A j \in 1..n : body[j] \in ToSet(pass.fold) \cup ({pass.head} \ {0})
<1>. DEFINE C == Consumed
            D == Current
            taken == ToSet(pass.fold) \cup ({pass.head} \ {0})
<1>1. C \in Seq(Msgs) /\ D \in Seq(Msgs)
  BY ChannelFacts DEF Consumed, Current
<1>2. Len(body) \in Nat /\ Len(C) \in Nat \ {0} /\ Len(D) \in Nat /\ Len(pass.fold) \in Nat \ {0}
  <2>1. Len(pass.fold) \in Nat \ {0}
    BY SeqFacts
  <2>2. pass.head = 0 => C = pass.fold
    BY ChannelFacts DEF Consumed
  <2>3. pass.head # 0 => Len(C) = Len(pass.fold) + 1
    BY ChannelFacts DEF Consumed
  <2>. QED BY <1>1, <2>1, <2>2, <2>3, SeqFacts
<1>3. \A k \in 1..Len(C) : C[k] \in taken
  <2>1. CASE pass.head = 0
    BY <2>1, ChannelFacts, SeqFacts DEF Consumed
  <2>2. CASE pass.head # 0
    <3>1. /\ Len(C) = Len(pass.fold) + 1 /\ C[1] = pass.head
          /\ \A k \in 1..Len(pass.fold) : C[k + 1] = pass.fold[k]
      BY <2>2, ChannelFacts DEF Consumed
    <3>2. ASSUME NEW k \in 1..Len(C) PROVE C[k] \in taken
      <4>1. CASE k = 1
        BY <2>2, <3>1, <4>1
      <4>2. CASE k # 1
        <5>1. k - 1 \in 1..Len(pass.fold) /\ (k - 1) + 1 = k
          BY <1>2, <3>1, <4>2
        <5>2. C[k] = pass.fold[k - 1]
          BY <3>1, <5>1
        <5>. QED BY <5>1, <5>2, SeqFacts
      <4>. QED BY <4>1, <4>2
    <3>. QED BY <3>2
  <2>. QED BY <2>1, <2>2
<1>4. Len(C) <= Len(D) /\ \A k \in 1..Len(C) : D[k] = C[k]
  <2>1. Len(C) <= Len(D) /\ SubSeq(D, 1, Len(C)) = C
    BY DEF Unchanged
  <2>2. Len(C) \in 0..Len(D)
    BY <1>2, <2>1
  <2>3. \A k \in 1..Len(C) : SubSeq(D, 1, Len(C))[k] = D[k]
    BY <1>1, <2>2, FrontFacts
  <2>. QED BY <2>1, <2>3
<1>5. CASE head = 0
  <2>1. D = body
    BY <1>5, ChannelFacts DEF Current
  <2>2. Kept = SubSeq(body, Len(C) + 1, Len(body)) /\ Len(C) \in 0..Len(body)
    BY <1>2, <1>4, <2>1 DEF Kept
  <2>3. \A j \in 1..Len(C) : body[j] \in taken
    BY <1>3, <1>4, <2>1
  <2>. QED BY <2>2, <2>3
<1>6. CASE head # 0
  <2>. DEFINE n == Len(C) - 1
              r == SubSeq(D, Len(C) + 1, Len(D))
              b == SubSeq(body, n + 1, Len(body))
  <2>1. Len(D) = Len(body) + 1 /\ \A k \in 1..Len(body) : D[k + 1] = body[k]
    BY <1>6, ChannelFacts DEF Current
  <2>2. n \in 0..Len(body) /\ Len(C) \in 0..Len(D) /\ n + 1 = Len(C) /\ Len(D) - Len(C) = Len(body) - n
    BY <1>2, <1>4, <2>1
  <2>3. /\ r \in Seq(Msgs) /\ Len(r) = Len(D) - Len(C)
        /\ \A k \in 1..Len(D) - Len(C) : r[k] = D[Len(C) + k]
    BY <1>1, <2>2, RestFacts
  <2>4. /\ b \in Seq(Msgs) /\ Len(b) = Len(body) - n
        /\ \A k \in 1..Len(body) - n : b[k] = body[n + k]
    BY <2>2, RestFacts
  <2>5. ASSUME NEW k \in 1..Len(body) - n PROVE r[k] = b[k]
    <3>1. n + k \in 1..Len(body) /\ (n + k) + 1 = Len(C) + k
      BY <1>2, <2>2
    <3>2. D[Len(C) + k] = body[n + k]
      BY <2>1, <3>1
    <3>. QED BY <2>2, <2>3, <2>4, <3>2
  <2>6. r = b
    <3>. HIDE DEF r, b, n
    <3>. QED BY <2>2, <2>3, <2>4, <2>5, SeqEqual
  <2>7. ASSUME NEW j \in 1..n PROVE body[j] \in taken
    <3>1. j \in 1..Len(body) /\ j + 1 \in 1..Len(C)
      BY <1>2, <2>2
    <3>2. body[j] = C[j + 1]
      BY <1>4, <2>1, <3>1
    <3>. QED BY <1>3, <3>1, <3>2
  <2>8. Kept = b
    BY <2>6 DEF Kept
  <2>. QED BY <2>2, <2>7, <2>8
<1>. QED BY <1>5, <1>6

\* What a list of summaries covers, and where they end.
CoversOf(s) == UNION {s[i].covers : i \in DOMAIN s}
LastsOf(s)  == {s[i].last : i \in DOMAIN s}

LEMMA SummariesAppend ==
    ASSUME NEW s \in Seq(SummaryType), NEW r \in SummaryType
    PROVE  /\ Append(s, r) \in Seq(SummaryType) /\ Len(Append(s, r)) = Len(s) + 1
           /\ CoversOf(Append(s, r)) = CoversOf(s) \cup r.covers
           /\ LastsOf(Append(s, r)) = LastsOf(s) \cup {r.last}
           /\ (\A i \in DOMAIN s : s[i].last \in s[i].covers) /\ r.last \in r.covers
                 => \A i \in DOMAIN Append(s, r) : Append(s, r)[i].last \in Append(s, r)[i].covers
<1>. DEFINE a == Append(s, r)
<1>1. /\ a \in Seq(SummaryType) /\ Len(a) = Len(s) + 1 /\ \A k \in 1..Len(s) : a[k] = s[k]
      /\ a[Len(s) + 1] = r
  BY AppendFacts
<1>. HIDE DEF a
<1>2. Len(s) \in Nat /\ DOMAIN a = 1..Len(s) + 1 /\ DOMAIN s = 1..Len(s)
  BY <1>1, SeqFacts
<1>3. DOMAIN a = DOMAIN s \cup {Len(s) + 1}
  BY <1>2
<1>4. \A k \in DOMAIN s : a[k] = s[k]
  BY <1>1, <1>2
<1>5. CoversOf(a) = CoversOf(s) \cup r.covers
  BY <1>1, <1>3, <1>4 DEF CoversOf
<1>6. LastsOf(a) = LastsOf(s) \cup {r.last}
  BY <1>1, <1>3, <1>4 DEF LastsOf
<1>. QED BY <1>1, <1>3, <1>4, <1>5, <1>6 DEF a

LEMMA SummariesRest ==
    ASSUME NEW s \in Seq(SummaryType), NEW n \in 0..Len(s)
    PROVE  LET r == SubSeq(s, n + 1, Len(s)) IN
           /\ r \in Seq(SummaryType)
           /\ CoversOf(s) = CoversOf(r) \cup UNION {s[i].covers : i \in 1..n}
           /\ LastsOf(r) \subseteq LastsOf(s)
           /\ (\A i \in DOMAIN s : s[i].last \in s[i].covers)
                 => \A i \in DOMAIN r : r[i].last \in r[i].covers
<1>. DEFINE r == SubSeq(s, n + 1, Len(s))
<1>1. r \in Seq(SummaryType) /\ Len(r) = Len(s) - n /\ \A k \in 1..Len(s) - n : r[k] = s[n + k]
  BY RestFacts
<1>. HIDE DEF r
<1>2. /\ n \in Nat /\ n <= Len(s) /\ Len(s) \in Nat
      /\ DOMAIN r = 1..Len(s) - n /\ DOMAIN s = 1..Len(s)
  BY <1>1, SeqFacts
<1>3. \A k \in DOMAIN r : n + k \in DOMAIN s /\ r[k] = s[n + k]
  BY <1>1, <1>2
<1>4. ASSUME NEW i \in DOMAIN s, i \notin 1..n PROVE \E k \in DOMAIN r : r[k] = s[i]
  <2>1. i - n \in DOMAIN r /\ n + (i - n) = i
    BY <1>2, <1>4
  <2>. QED BY <1>3, <2>1
<1>5. 1..n \subseteq DOMAIN s
  BY <1>2
<1>6. CoversOf(s) = CoversOf(r) \cup UNION {s[i].covers : i \in 1..n}
  <2>1. ASSUME NEW x \in CoversOf(s) PROVE x \in CoversOf(r) \cup UNION {s[i].covers : i \in 1..n}
    <3>1. PICK i \in DOMAIN s : x \in s[i].covers
      BY <2>1 DEF CoversOf
    <3>2. CASE i \in 1..n
      BY <3>1, <3>2
    <3>3. CASE i \notin 1..n
      BY <1>4, <3>1, <3>3 DEF CoversOf
    <3>. QED BY <3>2, <3>3
  <2>2. CoversOf(r) \subseteq CoversOf(s)
    BY <1>3 DEF CoversOf
  <2>3. UNION {s[i].covers : i \in 1..n} \subseteq CoversOf(s)
    BY <1>5 DEF CoversOf
  <2>. QED BY <2>1, <2>2, <2>3
<1>7. LastsOf(r) \subseteq LastsOf(s)
  BY <1>3 DEF LastsOf
<1>. QED BY <1>1, <1>3, <1>6, <1>7 DEF r

-----------------------------------------------------------------------------
(* Types                                                                    *)

SaidType == /\ stampOf \in Seq(Convs) /\ Len(stampOf) <= MaxMsgs
            /\ closed \subseteq Convs /\ queued \subseteq Msgs
BodyType == /\ body \in Seq(Msgs) /\ summaries \in Seq(SummaryType)
            /\ head \in {0} \cup Msgs
MarkType == marker \in {0} \cup Convs /\ gen \in Nat /\ gens \in Nat
WorkType == /\ compaction \in JobType /\ pass \in PassType
            /\ pass.pc # "idle" => compaction.status \notin {"none", "dead"}
TurnKind == turning \in TurnType /\ (turning.pc # "idle" => turning.msg \in Msgs)
GoneType == gone \subseteq Msgs /\ blank \subseteq Msgs /\ torn \subseteq Msgs
CapsType == faults \in 0..MaxFaults /\ resets \in 0..MaxResets /\ resolves \in 0..MaxResolves

LEMMA TypeParts ==
    TypeOK <=> /\ SaidType /\ BodyType /\ MarkType /\ WorkType /\ TurnKind
               /\ clearing \in ResetType /\ GoneType /\ CapsType
  BY DEF TypeOK, SaidType, BodyType, MarkType, WorkType, TurnKind, GoneType, CapsType

LEMMA TypePartsNext ==
    ASSUME SaidType', BodyType', MarkType', WorkType', TurnKind',
           clearing' \in ResetType, GoneType', CapsType'
    PROVE  TypeOK'
  BY DEF TypeOK, SaidType, BodyType, MarkType, WorkType, TurnKind, GoneType, CapsType

LEMMA IdleTypes == IdlePass \in PassType /\ IdleTurn \in TurnType /\ IdleReset \in ResetType
  BY EmptyFacts DEF IdlePass, IdleTurn, IdleReset, PassType, TurnType, ResetType, PassPcs, Reasons

LEMMA SaidKept == SaidType /\ UNCHANGED <<stampOf, closed, queued>> => SaidType'
  BY DEF SaidType
LEMMA BodyKept == BodyType /\ UNCHANGED <<body, head, summaries>> => BodyType'
  BY DEF BodyType
LEMMA MarkKept == MarkType /\ UNCHANGED <<gen, gens, marker>> => MarkType'
  BY DEF MarkType
LEMMA WorkKept == WorkType /\ UNCHANGED <<compaction, pass>> => WorkType'
  BY DEF WorkType
LEMMA TurnKept == TurnKind /\ UNCHANGED turning => TurnKind'
  BY DEF TurnKind
LEMMA GoneKept == GoneType /\ UNCHANGED told => GoneType'
  BY DEF GoneType, told
LEMMA CapsKept == CapsType /\ UNCHANGED <<faults, resets, resolves>> => CapsType'
  BY DEF CapsType

LEMMA FaultTyped ==
    ASSUME NEW f, CapsType, Goes(f), UNCHANGED <<resets, resolves>>
    PROVE  CapsType'
  BY ConstantsAssumption DEF CapsType, Goes

LEMMA ArmedType == \A c \in Convs, why \in Reasons : Armed(c, why) \in JobType /\ Armed(c, why).status = "pending"
  BY DEF Armed, JobType

\* Taking the row moves the marker, makes a generation where there is none, and may arm.
LEMMA EntersTyped ==
    ASSUME NEW c \in Convs, MarkType, WorkType, EntersThread(c), UNCHANGED pass
    PROVE  MarkType' /\ WorkType'
<1>1. MarkType'
  BY DEF MarkType, EntersThread
<1>2. compaction' = compaction \/ (compaction' \in JobType /\ compaction'.status = "pending")
  BY ArmedType DEF EntersThread, Reasons
<1>. QED BY <1>1, <1>2 DEF WorkType

LEMMA ReturnsTyped ==
    ASSUME NEW status \in {"pending", "done", "dead"}, WorkType, Returns(status)
    PROVE  WorkType' /\ pass' = IdlePass
<1>1. pass' = IdlePass /\ pass' \in PassType /\ pass'.pc = "idle"
  BY IdleTypes DEF Returns, IdlePass
<1>2. compaction' \in JobType
  BY DEF Returns, RowEnds, WorkType, JobType
<1>. QED BY <1>1, <1>2 DEF WorkType

\* A run goes on: its fields change, its row does not.
LEMMA PassTyped ==
    ASSUME WorkType, pass.pc # "idle", pass' \in PassType, UNCHANGED compaction
    PROVE  WorkType'
  BY DEF WorkType

LEMMA InitTypes == Init => TypeOK
<1>. SUFFICES ASSUME Init PROVE TypeOK
  OBVIOUS
<1>1. SaidType /\ BodyType
  BY EmptyFacts, EmptySeq, ConstantsAssumption DEF Init, SaidType, BodyType
<1>2. MarkType /\ GoneType /\ CapsType
  BY ConstantsAssumption DEF Init, MarkType, GoneType, CapsType
<1>3. WorkType
  BY IdleTypes DEF Init, WorkType, JobType, Reasons, IdlePass
<1>4. TurnKind /\ clearing \in ResetType
  BY IdleTypes DEF Init, TurnKind, IdleTurn
<1>. QED BY <1>1, <1>2, <1>3, <1>4, TypeParts

LEMMA NewMessage ==
    ASSUME SaidType, Len(stampOf) < MaxMsgs
    PROVE  /\ Len(stampOf) \in Nat /\ Len(stampOf) + 1 \in Msgs /\ DOMAIN stampOf = 1..Len(stampOf)
           /\ Len(stampOf) + 1 \notin DOMAIN stampOf
           /\ \A c \in Convs : /\ Append(stampOf, c) \in Seq(Convs)
                               /\ Len(Append(stampOf, c)) = Len(stampOf) + 1
                               /\ DOMAIN Append(stampOf, c) = DOMAIN stampOf \cup {Len(stampOf) + 1}
<1>1. Len(stampOf) \in Nat /\ DOMAIN stampOf = 1..Len(stampOf)
  BY SeqFacts DEF SaidType
<1>2. Len(stampOf) + 1 \in Msgs /\ Len(stampOf) + 1 \notin DOMAIN stampOf
  BY <1>1, ConstantsAssumption DEF Msgs
<1>3. ASSUME NEW c \in Convs
      PROVE  /\ Append(stampOf, c) \in Seq(Convs) /\ Len(Append(stampOf, c)) = Len(stampOf) + 1
             /\ DOMAIN Append(stampOf, c) = DOMAIN stampOf \cup {Len(stampOf) + 1}
  <2>1. Append(stampOf, c) \in Seq(Convs) /\ Len(Append(stampOf, c)) = Len(stampOf) + 1
    BY AppendFacts DEF SaidType
  <2>2. DOMAIN Append(stampOf, c) = 1..Len(stampOf) + 1
    BY <2>1, SeqFacts
  <2>. QED BY <1>1, <2>1, <2>2
<1>. QED BY <1>1, <1>2, <1>3

LEMMA SaysTyped ==
    \A c \in Convs : TypeOK /\ (SaysToIngest(c) \/ Resolves(c) \/ \E at \in TurnsAt : SaysToTurn(c, at)) => TypeOK'
<1>. SUFFICES ASSUME NEW c \in Convs, TypeOK,
                     SaysToIngest(c) \/ Resolves(c) \/ \E at \in TurnsAt : SaysToTurn(c, at)
              PROVE  TypeOK'
  OBVIOUS
<1>0. /\ SaidType /\ BodyType /\ MarkType /\ WorkType /\ TurnKind
      /\ clearing \in ResetType /\ GoneType /\ CapsType
  BY TypeParts
<1>1. CASE SaysToIngest(c)
  <2>1. SaidType'
    BY <1>0, <1>1, NewMessage, ConstantsAssumption DEF SaysToIngest, SaidType
  <2>. QED BY <1>0, <1>1, <2>1, BodyKept, MarkKept, WorkKept, TurnKept, GoneKept, CapsKept, TypePartsNext
           DEF SaysToIngest, memory, told, caps
<1>2. CASE \E at \in TurnsAt : SaysToTurn(c, at)
  <2>. PICK at \in TurnsAt : SaysToTurn(c, at)
    BY <1>2
  <2>a. SaidType /\ Len(stampOf) < MaxMsgs /\ stampOf' = Append(stampOf, c)
        /\ closed' = closed \ {c} /\ queued' = queued
    BY <1>0 DEF SaysToTurn
  <2>b. stampOf' \in Seq(Convs) /\ Len(stampOf') = Len(stampOf) + 1 /\ Len(stampOf) \in Nat
    BY <2>a, NewMessage
  <2>1. SaidType'
    BY <2>a, <2>b, ConstantsAssumption DEF SaidType
  <2>2. TurnKind'
    BY <1>0, NewMessage, IdleTypes, ConstantsAssumption DEF SaysToTurn, TurnType, TurnKind
  <2>. QED BY <1>0, <2>1, <2>2, BodyKept, MarkKept, WorkKept, TurnKept, GoneKept, CapsKept, TypePartsNext
           DEF SaysToTurn, memory, told, caps
<1>3. CASE Resolves(c)
  <2>1. SaidType'
    BY <1>0, <1>3 DEF Resolves, SaidType
  <2>2. WorkType'
    BY <1>0, <1>3, ArmedType DEF Resolves, WorkType, Reasons
  <2>3. CapsType'
    BY <1>0, <1>3, ConstantsAssumption DEF Resolves, CapsType
  <2>. QED BY <1>0, <1>3, <2>1, <2>2, <2>3, BodyKept, MarkKept, TurnKept, GoneKept, TypePartsNext
           DEF Resolves, memory, told
<1>. QED BY <1>1, <1>2, <1>3

\* What the messages of the model are: said.
Waiting == queued \cup (IF turning.pc = "idle" THEN {} ELSE {turning.msg})
Loaded  == IF turning.pc = "loaded" THEN ToSet(turning.snap) ELSE {}
Folded  == ToSet(pass.fold)
Placed  == ToSet(body) \cup Loaded \cup Folded \cup Covered \cup clearing.taken

SaidInv == Waiting \cup Placed \cup gone \cup clearing.revoked \subseteq DOMAIN stampOf

LEMMA StampsTyped ==
    ASSUME SaidType, NEW m \in DOMAIN stampOf PROVE stampOf[m] \in Convs
  BY SeqFacts DEF SaidType

LEMMA TurnTyped == TypeOK /\ SaidInv /\ (TurnStep \/ Ingests) => TypeOK'
<1>. SUFFICES ASSUME TypeOK, SaidInv, TurnStep \/ Ingests PROVE TypeOK'
  OBVIOUS
<1>0. /\ SaidType /\ BodyType /\ MarkType /\ WorkType /\ TurnKind
      /\ clearing \in ResetType /\ GoneType /\ CapsType
  BY TypeParts
<1>1. CASE TurnClaims
  <2>1. stampOf[turning.msg] \in Convs
    BY <1>0, <1>1, StampsTyped DEF TurnClaims, SaidInv, Waiting
  <2>2. MarkType' /\ WorkType'
    BY <1>0, <1>1, <2>1, EntersTyped DEF TurnClaims
  <2>3. TurnKind'
    BY <1>0, <1>1 DEF TurnClaims, TurnKind, TurnType
  <2>. QED BY <1>0, <1>1, <2>2, <2>3, SaidKept, BodyKept, GoneKept, CapsKept, TypePartsNext
           DEF TurnClaims, told
<1>2. CASE TurnLoads
  <2>1. TurnKind'
    BY <1>0, <1>2 DEF TurnLoads, TurnKind, TurnType, BodyType
  <2>. QED BY <1>0, <1>2, <2>1, SaidKept, BodyKept, MarkKept, WorkKept, GoneKept, CapsKept,
              TypePartsNext
           DEF TurnLoads, memory, told, caps
<1>3. CASE TurnSaves
  <2>1. BodyType'
    <3>1. Append(turning.snap, turning.msg) \in Seq(Msgs)
      BY <1>0, <1>3, AppendFacts DEF TurnSaves, TurnKind, TurnType
    <3>. QED BY <1>0, <1>3, <3>1 DEF TurnSaves, BodyType, TurnKind, TurnType
  <2>2. TurnKind'
    BY <1>3, IdleTypes DEF TurnSaves, TurnKind, IdleTurn
  <2>. QED BY <1>0, <1>3, <2>1, <2>2, SaidKept, MarkKept, WorkKept, GoneKept, CapsKept, TypePartsNext
           DEF TurnSaves, told, caps
<1>4. CASE Ingests
  <2>1. PICK m \in queued : /\ queued' = queued \ {m} /\ body' = Append(body, m)
                            /\ EntersThread(stampOf[m])
                            /\ UNCHANGED <<stampOf, closed, head, summaries, pass, turning, clearing,
                                           told, resolves, resets, faults>>
    BY <1>4 DEF Ingests
  <2>2. stampOf[m] \in Convs /\ m \in Msgs
    BY <1>0, <2>1, StampsTyped DEF SaidInv, Waiting, SaidType
  <2>3. MarkType' /\ WorkType'
    BY <1>0, <2>1, <2>2, EntersTyped
  <2>4. BodyType'
    BY <1>0, <2>1, <2>2, AppendFacts DEF BodyType
  <2>5. SaidType'
    BY <1>0, <2>1 DEF SaidType
  <2>. QED BY <1>0, <2>1, <2>3, <2>4, <2>5, TurnKept, GoneKept, CapsKept, TypePartsNext
<1>. QED BY <1>1, <1>2, <1>3, <1>4 DEF TurnStep

\* A run holds what it folds from its cut to its end.
Early   == {"idle", "loading", "draining", "reading"}
FoldInv == pass.pc \in Early <=> pass.fold = <<>>

\* The steps that touch nothing but the job, its run and the bounds.
Frame == UNCHANGED <<stampOf, closed, queued, memory, turning, clearing, told, gens>>
LEMMA FrameTyped ==
    ASSUME TypeOK, Frame, WorkType', CapsType'
    PROVE  TypeOK'
<1>0. /\ SaidType /\ BodyType /\ MarkType /\ TurnKind
      /\ clearing \in ResetType /\ GoneType
  BY TypeParts
<1>1. /\ UNCHANGED <<stampOf, closed, queued>> /\ UNCHANGED <<body, head, summaries>>
      /\ UNCHANGED <<gen, gens, marker>> /\ UNCHANGED turning /\ UNCHANGED clearing /\ UNCHANGED told
  BY DEF memory, Frame
<1>2. SaidType' /\ BodyType' /\ MarkType' /\ TurnKind' /\ clearing' \in ResetType /\ GoneType'
  BY <1>0, <1>1, SaidKept, BodyKept, MarkKept, TurnKept, GoneKept
<1>. QED BY ONLY <1>2, WorkType', CapsType', TypePartsNext

\* What a cut folds: the front of the body, up to one position of it.
LEMMA CutShape ==
    ASSUME TypeOK, Cuts, ~(Returns("pending") \/ Returns("done"))
    PROVE  \E n, c, b :
             /\ n \in 1..Len(body) /\ pass.pc = "reading" /\ ~TurnOwns /\ UNCHANGED compaction
             /\ pass' = [pass EXCEPT !.pc = "summarizing", !.head = head, !.fold = SubSeq(body, 1, n),
                                     !.more = b, !.seg = c]
             /\ b \in BOOLEAN
             /\ c \in {0} \cup Convs \cup {stampOf[body[n]]}
<1>. DEFINE whole == ~pass.reopened /\ pass.reason = "resolved" /\ AttendanceIsCurrent
            natural == NaturalCut(whole)
            edge == OwedUpTo
            pending == edge > 0 /\ (pass.reopened \/ edge <= natural)
            upto == IF pending THEN edge ELSE IF pass.reopened THEN 0 ELSE natural
            c == IF pending THEN Last(summaries).conv ELSE stampOf[body[upto]]
            b == pending /\ natural > edge
<1>0. BodyType /\ WorkType
  BY TypeParts
<1>1. /\ upto # 0 /\ UNCHANGED compaction /\ pass.pc = "reading" /\ ~TurnOwns
      /\ pass' = [pass EXCEPT !.pc = "summarizing", !.head = head,
                          !.fold = SubSeq(body, 1, upto), !.more = b, !.seg = c]
  BY DEF Cuts
<1>2. natural \in 0..Len(body) /\ edge \in 0..Len(body)
  <2>1. whole \in BOOLEAN
    OBVIOUS
  <2>. HIDE DEF whole
  <2>. QED BY <1>0, <2>1, NaturalCutRange, OwedRange DEF BodyType
<1>3. pending => Last(summaries).conv \in {0} \cup Convs
  <2>1. pending => summaries # <<>>
    BY <1>2 DEF OwedUpTo
  <2>2. summaries # <<>> => Last(summaries) \in SummaryType
    BY <1>0, SeqFacts DEF BodyType
  <2>. QED BY <2>1, <2>2 DEF SummaryType
<1>. HIDE DEF natural, edge
<1>4. upto \in 1..Len(body)
  BY <1>1, <1>2
<1>. HIDE DEF pending
<1>5. c \in {0} \cup Convs \cup {stampOf[body[upto]]}
  BY <1>3
<1>6. b \in BOOLEAN
  OBVIOUS
<1>. HIDE DEF upto, c, b
<1>. QED BY <1>1, <1>4, <1>5, <1>6

LEMMA CutTyped ==
    ASSUME TypeOK, SaidInv, Cuts
    PROVE  WorkType'
<1>0. WorkType /\ BodyType /\ SaidType
  BY TypeParts
<1>1. CASE Returns("pending") \/ Returns("done")
  BY <1>0, <1>1, ReturnsTyped
<1>2. CASE ~(Returns("pending") \/ Returns("done"))
  <2>1. PICK n, c, b :
             /\ n \in 1..Len(body) /\ pass.pc = "reading" /\ ~TurnOwns /\ UNCHANGED compaction
             /\ pass' = [pass EXCEPT !.pc = "summarizing", !.head = head, !.fold = SubSeq(body, 1, n),
                                     !.more = b, !.seg = c]
             /\ b \in BOOLEAN
             /\ c \in {0} \cup Convs \cup {stampOf[body[n]]}
    BY <1>2, CutShape
  <2>2. stampOf[body[n]] \in Convs
    BY <1>0, <2>1, StampsTyped, SeqFacts DEF SaidInv, Placed, BodyType
  <2>3. SubSeq(body, 1, n) \in Seq(Msgs)
    <3>1. n \in 0..Len(body)
      BY <1>0, <2>1, SeqFacts DEF BodyType
    <3>. QED BY <1>0, <3>1, FrontFacts DEF BodyType
  <2>. DEFINE f == SubSeq(body, 1, n)
  <2>. HIDE DEF f
  <2>4. f \in Seq(Msgs) /\ c \in {0} \cup Convs /\ head \in {0} \cup Msgs /\ pass \in PassType
        /\ pass' = [pass EXCEPT !.pc = "summarizing", !.head = head, !.fold = f, !.more = b, !.seg = c]
    BY <1>0, <2>1, <2>2, <2>3 DEF BodyType, WorkType, f
  <2>5. pass' \in PassType
    BY ONLY <2>1, <2>4 DEF PassType, PassPcs
  <2>. QED BY <1>0, <2>1, <2>5, PassTyped
<1>. QED BY <1>1, <1>2

LEMMA CommitTyped ==
    ASSUME TypeOK, FoldInv, Commits
    PROVE  WorkType' /\ BodyType'
<1>0. WorkType /\ BodyType
  BY TypeParts
<1>1. CASE ~SameGeneration
  BY <1>0, <1>1, ReturnsTyped, BodyKept DEF Commits
<1>2. CASE SameGeneration
  <2>1. WorkType'
    BY <1>0, <1>2, PassTyped DEF Commits, WorkType, PassType, PassPcs
  <2>. DEFINE r == [conv |-> pass.seg, last |-> Last(pass.fold), covers |-> ToSet(pass.fold)]
  <2>2. pass.fold \in Seq(Msgs) /\ pass.fold # <<>> /\ pass.seg \in {0} \cup Convs
    BY <1>0 DEF WorkType, PassType, Commits, FoldInv, Early
  <2>3. r \in SummaryType
    BY <2>2, SeqFacts DEF SummaryType
  <2>4. summaries' = summaries \/ summaries' = Append(summaries, r)
    BY <1>2 DEF Commits
  <2>. HIDE DEF r
  <2>5. summaries' \in Seq(SummaryType)
    BY <1>0, <2>3, <2>4, SummariesAppend DEF BodyType
  <2>. QED BY <1>0, <2>1, <2>5 DEF Commits, BodyType
<1>. QED BY <1>1, <1>2

LEMMA RewriteTyped ==
    ASSUME TypeOK, FoldInv, Rewrites
    PROVE  WorkType' /\ BodyType' /\ GoneType'
<1>0. WorkType /\ BodyType /\ GoneType
  BY TypeParts
<1>1. pass.fold \in Seq(Msgs) /\ pass.fold # <<>> /\ pass.head \in {0} \cup Msgs /\ body \in Seq(Msgs)
      /\ head \in {0} \cup Msgs
  BY <1>0 DEF WorkType, PassType, BodyType, Rewrites, FoldInv, Early
<1>2. WorkType'
  BY <1>0, ReturnsTyped DEF Rewrites
<1>3. CASE ~Unchanged
  BY <1>0, <1>2, <1>3, BodyKept, GoneKept DEF Rewrites, told
<1>4. CASE Unchanged
  <2>1. Kept \in Seq(Msgs)
    <3>1. PICK n \in 0..Len(body) : Kept = SubSeq(body, n + 1, Len(body))
      BY <1>1, <1>4, KeptIsRest
    <3>. QED BY <1>1, <3>1, RestFacts
  <2>2. Head(pass.fold) \in Msgs
    BY <1>1
  <2>3. ToSet(pass.fold) \subseteq Msgs
    BY <1>1, SeqFacts
  <2>4. body' \in Seq(Msgs) /\ head' \in {0} \cup Msgs
    BY <1>1, <1>4, <2>1, <2>2 DEF Rewrites
  <2>. QED BY <1>0, <1>2, <1>4, <2>3, <2>4 DEF Rewrites, BodyType, GoneType
<1>. QED BY <1>3, <1>4

LEMMA CompactsTyped == TypeOK /\ SaidInv /\ FoldInv /\ (Compacts \/ Crash) => TypeOK'
<1>. SUFFICES ASSUME TypeOK, SaidInv, FoldInv, Compacts \/ Crash PROVE TypeOK'
  OBVIOUS
<1>0. /\ SaidType /\ BodyType /\ MarkType /\ WorkType /\ TurnKind
      /\ clearing \in ResetType /\ GoneType /\ CapsType
  BY TypeParts
<1>b. UNCHANGED caps => CapsType' /\ UNCHANGED gens
  BY <1>0, CapsKept DEF caps
<1>1. CASE CompactionClaims
  <2>1. WorkType'
    BY <1>0, <1>1, IdleTypes DEF CompactionClaims, WorkType, PassType, JobType, PassPcs
  <2>. QED BY <1>1, <1>b, <2>1, FrameTyped DEF CompactionClaims, Frame
<1>2. CASE Loads
  <2>1. pass' \in PassType
    BY <1>0, <1>2 DEF Loads, WorkType, PassType, PassPcs, MarkType
  <2>2. WorkType'
    BY <1>0, <1>2, <2>1, PassTyped DEF Loads
  <2>. QED BY <1>2, <1>b, <2>2, FrameTyped DEF Loads, Frame
<1>3. CASE Drains
  <2>1. CASE pass' = [pass EXCEPT !.pc = "reading", !.gen = IF pass.gen # 0 THEN pass.gen ELSE gen]
             /\ UNCHANGED compaction
    <3>1. pass' \in PassType
      BY <1>0, <2>1 DEF WorkType, PassType, PassPcs, MarkType
    <3>2. WorkType'
      BY <1>0, <1>3, <2>1, <3>1, PassTyped DEF Drains
    <3>. QED BY <1>3, <1>b, <3>2, FrameTyped DEF Drains, Frame
  <2>2. CASE Returns("pending") \/ Returns("done")
    <3>1. WorkType'
      BY <1>0, <2>2, ReturnsTyped
    <3>. QED BY <1>3, <1>b, <3>1, FrameTyped DEF Drains, Frame
  <2>. QED BY <1>3, <2>1, <2>2 DEF Drains
<1>4. CASE Cuts
  BY <1>4, <1>b, CutTyped, FrameTyped DEF Cuts, Frame
<1>5. CASE Summarizes
  <2>1. CASE pass' = [pass EXCEPT !.pc = "committing", !.text = TRUE] /\ UNCHANGED <<compaction, faults>>
    <3>1. pass' \in PassType
      BY <1>0, <2>1 DEF WorkType, PassType, PassPcs
    <3>2. WorkType' /\ CapsType'
      BY <1>0, <1>5, <2>1, <3>1, PassTyped, CapsKept DEF Summarizes
    <3>. QED BY <1>5, <3>2, FrameTyped DEF Summarizes, Frame
  <2>2. CASE Goes("blank") /\ pass' = [pass EXCEPT !.pc = "entering", !.text = FALSE]
             /\ UNCHANGED compaction
    <3>1. pass' \in PassType
      BY <1>0, <2>2 DEF WorkType, PassType, PassPcs
    <3>2. WorkType' /\ CapsType'
      BY <1>0, <1>5, <2>2, <3>1, PassTyped, FaultTyped DEF Summarizes
    <3>. QED BY <1>5, <3>2, FrameTyped DEF Summarizes, Frame
  <2>3. CASE (Goes("fails") /\ Returns("pending")) \/ (Goes("dies") /\ Returns("dead"))
    <3>1. WorkType'
      BY <1>0, <2>3, ReturnsTyped
    <3>2. CapsType'
      BY <1>0, <1>5, <2>3, FaultTyped DEF Summarizes
    <3>. QED BY <1>5, <3>1, <3>2, FrameTyped DEF Summarizes, Frame
  <2>. QED BY <1>5, <2>1, <2>2, <2>3 DEF Summarizes
<1>6. CASE Commits
  <2>1. WorkType' /\ BodyType'
    BY <1>6, CommitTyped
  <2>. QED BY <1>0, <1>6, <1>b, <2>1, SaidKept, MarkKept, TurnKept, GoneKept, TypePartsNext
           DEF Commits
<1>7. CASE EntersRewrite
  <2>1. WorkType'
    <3>1. CASE TurnOwns
      BY <1>0, <1>7, <3>1, ReturnsTyped DEF EntersRewrite
    <3>2. CASE ~TurnOwns
      <4>1. pass' \in PassType
        BY <1>0, <1>7, <3>2 DEF EntersRewrite, WorkType, PassType, PassPcs
      <4>. QED BY <1>0, <1>7, <3>2, <4>1, PassTyped DEF EntersRewrite
    <3>. QED BY <3>1, <3>2
  <2>. QED BY <1>7, <1>b, <2>1, FrameTyped DEF EntersRewrite, Frame
<1>8. CASE Rewrites
  <2>1. WorkType' /\ BodyType' /\ GoneType'
    BY <1>8, RewriteTyped
  <2>. QED BY <1>0, <1>8, <1>b, <2>1, SaidKept, MarkKept, TurnKept, TypePartsNext DEF Rewrites
<1>9. CASE Crash
  <2>1. WorkType'
    BY <1>0, <1>9, ReturnsTyped DEF Crash
  <2>2. TurnKind'
    BY <1>0, <1>9 DEF Crash, TurnKind, TurnType, TurnOwns
  <2>. QED BY <1>0, <1>9, <2>1, <2>2, SaidKept, BodyKept, MarkKept, GoneKept, FaultTyped, TypePartsNext
           DEF Crash, memory
<1>. QED BY <1>1, <1>2, <1>3, <1>4, <1>5, <1>6, <1>7, <1>8, <1>9 DEF Compacts

LEMMA ResetTyped ==
    TypeOK /\ (RowLocked => clearing.upto <= Len(summaries)) /\ (ResetStarts \/ ResetStep) => TypeOK'
<1>. SUFFICES ASSUME TypeOK, RowLocked => clearing.upto <= Len(summaries), ResetStarts \/ ResetStep
              PROVE  TypeOK'
  OBVIOUS
<1>0. /\ SaidType /\ BodyType /\ MarkType /\ WorkType /\ TurnKind
      /\ clearing \in ResetType /\ GoneType /\ CapsType
  BY TypeParts
<1>1. CASE ResetStarts
  <2>1. clearing' \in ResetType
    BY <1>0, <1>1, SeqFacts DEF ResetStarts, ResetType, SaidType, BodyType
  <2>2. TurnKind' /\ GoneType'
    BY <1>0, <1>1, IdleTypes DEF ResetStarts, TurnKind, GoneType, IdleTurn
  <2>3. CapsType'
    BY <1>0, <1>1, ConstantsAssumption DEF ResetStarts, CapsType
  <2>. QED BY <1>0, <1>1, <2>1, <2>2, <2>3, SaidKept, BodyKept, MarkKept, WorkKept, TypePartsNext
           DEF ResetStarts, memory
<1>2. CASE ResetClears
  <2>1. clearing' \in ResetType
    <3>1. ToSet(body) \subseteq Msgs
      BY <1>0, SeqFacts DEF BodyType
    <3>2. CASE clearing' = [clearing EXCEPT !.pc = "commit", !.taken = ToSet(body)]
      BY <1>0, <3>1, <3>2 DEF ResetType
    <3>3. CASE clearing' = IdleReset
      BY <3>3, IdleTypes
    <3>. QED BY <1>2, <3>2, <3>3 DEF ResetClears
  <2>2. BodyType'
    BY <1>0, <1>2, EmptyFacts DEF ResetClears, BodyType
  <2>3. CapsType'
    BY <1>0, <1>2, FaultTyped, CapsKept DEF ResetClears
  <2>. QED BY <1>0, <1>2, <2>1, <2>2, <2>3, SaidKept, MarkKept, WorkKept, TurnKept, GoneKept,
              TypePartsNext
           DEF ResetClears
<1>3. CASE ResetCommits
  <2>0. clearing.upto \in 0..Len(summaries)
    BY <1>0, <1>3, SeqFacts DEF ResetCommits, RowLocked, ResetType, BodyType
  <2>1. clearing' \in ResetType
    BY <1>0, <1>3, IdleTypes DEF ResetCommits, ResetType
  <2>. DEFINE r == SubSeq(summaries, clearing.upto + 1, Len(summaries))
              u == UNION {summaries[i].covers : i \in 1..clearing.upto}
  <2>2. r \in Seq(SummaryType)
    BY <1>0, <2>0, RestFacts DEF BodyType
  <2>3. u \subseteq Msgs
    <3>1. \A i \in 1..clearing.upto : summaries[i] \in SummaryType
      BY <1>0, <2>0, SeqFacts DEF BodyType
    <3>. QED BY <3>1 DEF SummaryType
  <2>. HIDE DEF r, u
  <2>4. \/ /\ queued' = queued \ clearing.revoked /\ gen' = 0 /\ marker' = 0 /\ summaries' = r
           /\ gone' = gone \cup clearing.revoked \cup clearing.taken \cup u /\ UNCHANGED <<torn, faults>>
        \/ /\ Goes("commit") /\ torn' = torn \cup clearing.taken
           /\ UNCHANGED <<queued, gen, marker, summaries, gone>>
    BY <1>3 DEF ResetCommits, r, u
  <2>5. UNCHANGED <<stampOf, closed, body, head, compaction, pass, turning, blank, resolves, resets,
                    gens>>
    BY <1>3 DEF ResetCommits
  <2>6. clearing.revoked \subseteq Msgs /\ clearing.taken \subseteq Msgs
    BY <1>0 DEF ResetType
  <2>7. SaidType'
    BY <1>0, <2>4, <2>5 DEF SaidType
  <2>8. BodyType'
    BY <1>0, <2>2, <2>4, <2>5 DEF BodyType
  <2>9. MarkType'
    BY <1>0, <2>4, <2>5 DEF MarkType
  <2>10. GoneType'
    BY <1>0, <2>3, <2>4, <2>5, <2>6 DEF GoneType
  <2>11. CapsType'
    BY <1>0, <2>4, <2>5, FaultTyped, CapsKept
  <2>12. WorkType' /\ TurnKind'
    BY <1>0, <2>5, WorkKept, TurnKept
  <2>. QED BY ONLY <2>1, <2>7, <2>8, <2>9, <2>10, <2>11, <2>12, TypePartsNext
<1>4. CASE ResetCancels
  <2>1. clearing' \in ResetType
    BY <1>4, IdleTypes DEF ResetCancels
  <2>2. WorkType'
    BY <1>0, <1>4 DEF ResetCancels, WorkType, JobType
  <2>. QED BY <1>0, <1>4, <2>1, <2>2, SaidKept, BodyKept, MarkKept, TurnKept, GoneKept, CapsKept,
              TypePartsNext
           DEF ResetCancels, memory, caps
<1>. QED BY <1>1, <1>2, <1>3, <1>4 DEF ResetStep

-----------------------------------------------------------------------------
(* The inductive invariant                                                  *)

\* What stands for a message that is nowhere raw.
Safe  == Covered \cup gone \cup blank \cup torn
Lasts == LastsOf(summaries)
\* The sequences the next channel is made of, and the heads it may carry.
Holders == {body} \cup (IF turning.pc = "loaded" THEN {turning.snap} ELSE {})
Heads   == {head, pass.head} \cup (IF turning.pc = "loaded" THEN {turning.head} ELSE {})
Deciding == pass.pc \in {"summarizing", "committing"}
Writing  == pass.pc \in {"entering", "rewriting"} /\ pass.text

\* A message that waits is nowhere else yet, and waits once.
FreshInv == Waiting \cap Placed = {} /\ (turning.pc # "idle" => turning.msg \notin queued)

\* No message stands twice in the thread, and what a turn loaded has all that is there.
SnapInv == \A s \in Holders : IsInjective(s) /\ ToSet(body) \subseteq ToSet(s)

\* A reset that holds the row: no turn, no append, no row of its own gone.
LockInv ==
    /\ ~(TurnOwns /\ RowLocked)
    /\ clearing.pc = "commit" => body = <<>>
    /\ clearing.pc # "commit" => clearing.taken = {}
    /\ RowLocked => clearing.revoked \subseteq queued /\ clearing.upto <= Len(summaries)

SumInv == \A i \in DOMAIN summaries : summaries[i].last \in summaries[i].covers

\* Wherever the end of a summary stands raw, all that stands before it is safe; of the run that
\* is about to write one, all that stands before its end is safe or in its fold.
BackedInv ==
    /\ \A s \in Holders : Backed(s, Lasts, Safe)
    /\ Deciding => /\ Backed(pass.fold, Lasts, Safe)
                   /\ \A s \in Holders : Backed(s, {Last(pass.fold)}, Folded \cup Safe)
    /\ Writing => Folded \subseteq Safe

\* A head carries the id of a message that is safe.
HeadInv == Heads \subseteq {0} \cup Safe

Accounted == Waiting \cup ToSet(body) \cup Safe \cup clearing.taken
AllAccounted == DOMAIN stampOf \subseteq Accounted

IInv == TypeOK /\ SaidInv /\ FreshInv /\ SnapInv /\ LockInv /\ SumInv /\ FoldInv /\ BackedInv
            /\ HeadInv /\ AllAccounted

\* Where a message is live: what a reset tells is cleared is none of it.
Live == Waiting \cup ToSet(body) \cup Loaded \cup Covered
LiveMoves == Live' \subseteq Live \cup (DOMAIN stampOf' \ DOMAIN stampOf)

\* What stands in the thread and in a loaded channel is what stood there, a rest of it, or all of
\* it and a message that waited.
StandsMoves ==
    \A s \in Holders' :
        \/ s \in Holders \/ s = <<>>
        \/ \E t \in Holders : \E n \in 0..Len(t) : s = SubSeq(t, n + 1, Len(t))
        \/ \E t \in Holders : \E m \in Waiting : s = Append(t, m)

LEMMA RememberedIsAccounted == Remembered <=> AllAccounted
  BY DEF Remembered, AllAccounted, Accounted, Waiting, Safe

LEMMA CoveredIsCovers == Covered = CoversOf(summaries) /\ Covered' = CoversOf(summaries')
  BY DEF Covered, CoversOf

LEMMA LastsCovered == SumInv => Lasts \subseteq Covered
  BY DEF SumInv, Lasts, LastsOf, Covered

-----------------------------------------------------------------------------
(* What steps have in common                                                *)

\* Messages move from waiting to placed, and only new ones begin to wait.
Moves ==
    /\ DOMAIN stampOf \subseteq DOMAIN stampOf'
    /\ Waiting' \subseteq Waiting \cup (DOMAIN stampOf' \ DOMAIN stampOf)
    /\ Waiting' \subseteq DOMAIN stampOf'
    /\ Placed' \subseteq Placed \cup (Waiting \ Waiting')
    /\ gone' \cup clearing'.revoked \subseteq gone \cup clearing.revoked \cup Waiting \cup Placed
    /\ turning'.pc # "idle" => turning'.msg \notin queued'

LEMMA MovesKeep ==
    ASSUME SaidInv, FreshInv, Moves
    PROVE  SaidInv' /\ FreshInv'
<1>1. Placed' \subseteq DOMAIN stampOf'
  BY DEF SaidInv, Moves
<1>2. gone' \cup clearing'.revoked \subseteq DOMAIN stampOf'
  BY DEF SaidInv, Moves
<1>3. Waiting' \cap Placed' = {}
  <2>1. Placed \subseteq DOMAIN stampOf /\ Waiting \cap Placed = {}
    BY DEF SaidInv, FreshInv
  <2>. QED BY <2>1 DEF Moves
<1>. QED BY <1>1, <1>2, <1>3 DEF SaidInv, FreshInv, Moves

LEMMA AccountedKeeps ==
    ASSUME AllAccounted, Accounted \cup (DOMAIN stampOf' \ DOMAIN stampOf) \subseteq Accounted'
    PROVE  AllAccounted'
  BY DEF AllAccounted

\* The run of the job stays where it is, gives its fold up, or goes on with it.
PassQuiet ==
    \/ UNCHANGED pass
    \/ pass'.pc \in Early /\ pass'.fold = <<>> /\ pass'.head \in {0, pass.head}
    \/ /\ pass.pc \notin Early /\ pass'.pc \in PassPcs \ Early
       /\ pass'.fold = pass.fold /\ pass'.head = pass.head
       /\ Deciding' => Deciding
       /\ Writing' => Folded \subseteq Safe

LEMMA PassQuietKeeps ==
    ASSUME PassQuiet, FoldInv PROVE FoldInv' /\ Folded' \subseteq Folded
  BY EmptyFacts DEF PassQuiet, FoldInv, Folded

\* Nothing new stands in the thread, no summary is written, and what was safe stays safe.
LEMMA LessKeeps ==
    ASSUME SnapInv, BackedInv, FoldInv, PassQuiet,
           \/ body' = body /\ Holders' \subseteq Holders
           \/ body' = <<>> /\ Holders' \subseteq Holders \cup {<<>>},
           Lasts' \subseteq Lasts, Safe \subseteq Safe'
    PROVE  SnapInv' /\ BackedInv'
<1>0. Holders' \subseteq Holders \cup {<<>>}
  OBVIOUS
<1>1. SnapInv'
  <2>1. IsInjective(<<>>)
    BY EmptySeq DEF IsInjective
  <2>2. \A s \in Holders' : IsInjective(s)
    BY <1>0, <2>1 DEF SnapInv
  <2>3. ASSUME NEW s \in Holders' PROVE ToSet(body') \subseteq ToSet(s)
    BY <2>3, EmptyFacts DEF SnapInv
  <2>. QED BY <2>2, <2>3 DEF SnapInv
<1>2. \A s \in Holders' : Backed(s, Lasts', Safe')
  <2>1. ASSUME NEW s \in Holders' PROVE Backed(s, Lasts', Safe')
    <3>1. CASE s = <<>>
      BY <3>1, BackedEmpty
    <3>2. CASE s \in Holders
      BY <3>2, BackedWeaker DEF BackedInv
    <3>. QED BY <1>0, <2>1, <3>1, <3>2
  <2>. QED BY <2>1
<1>3. ASSUME Deciding' PROVE Deciding /\ pass'.fold = pass.fold /\ Folded' = Folded
  BY <1>3 DEF PassQuiet, Deciding, Early, Folded
<1>4. ASSUME Deciding'
      PROVE  /\ Backed(pass'.fold, Lasts', Safe')
             /\ \A s \in Holders' : Backed(s, {Last(pass'.fold)}, Folded' \cup Safe')
  <2>1. Backed(pass.fold, Lasts', Safe')
    BY <1>3, <1>4, BackedWeaker DEF BackedInv
  <2>2. ASSUME NEW s \in Holders' PROVE Backed(s, {Last(pass.fold)}, Folded \cup Safe')
    <3>1. CASE s = <<>>
      BY <3>1, BackedEmpty
    <3>2. CASE s \in Holders
      <4>1. Backed(s, {Last(pass.fold)}, Folded \cup Safe)
        BY <1>3, <1>4, <3>2 DEF BackedInv
      <4>2. Folded \cup Safe \subseteq Folded \cup Safe'
        OBVIOUS
      <4>. QED BY <4>1, <4>2, BackedWeaker
    <3>. QED BY <1>0, <2>2, <3>1, <3>2
  <2>. QED BY <1>3, <1>4, <2>1, <2>2
<1>5. Writing' => Folded' \subseteq Safe'
  <2>1. CASE UNCHANGED pass
    BY <2>1 DEF BackedInv, Writing, Folded
  <2>2. CASE pass'.pc \in Early
    BY <2>2 DEF Writing, Early
  <2>3. CASE pass'.fold = pass.fold /\ (Writing' => Folded \subseteq Safe)
    BY <2>3 DEF Folded
  <2>. QED BY <2>1, <2>2, <2>3 DEF PassQuiet
<1>. QED BY <1>1, <1>2, <1>4, <1>5 DEF BackedInv

\* A message that waits is appended to the thread, or to what a turn loaded of it.
LEMMA AppendKeeps ==
    ASSUME TypeOK, SaidInv, FreshInv, SnapInv, SumInv, FoldInv, BackedInv,
           NEW s \in Holders, NEW m \in Waiting, m \in Msgs, s \in Seq(Msgs),
           body' = Append(s, m), Holders' = {body'}, UNCHANGED <<pass, summaries, told>>
    PROVE  SnapInv' /\ BackedInv' /\ ToSet(body') = ToSet(s) \cup {m}
<1>. DEFINE a == Append(s, m)
<1>0. a \in Seq(Msgs) /\ ToSet(a) = ToSet(s) \cup {m} /\ body' = a /\ Holders' = {a}
  BY AppendFacts
<1>1. m \notin Placed /\ ToSet(s) \subseteq Placed
  BY DEF FreshInv, Holders, Placed, Loaded
<1>2. m \notin Lasts
  BY <1>1, LastsCovered DEF Placed
<1>3. IsInjective(a)
  BY <1>1, InjectiveAppend DEF SnapInv
<1>4. Lasts' = Lasts /\ Safe' = Safe /\ Folded' = Folded /\ (Deciding' <=> Deciding)
      /\ (Writing' <=> Writing) /\ pass' = pass
  BY DEF Lasts, Safe, Folded, Deciding, Writing, told, Covered
<1>5. Backed(a, Lasts, Safe)
  BY <1>2, BackedAppend DEF BackedInv
<1>6. ASSUME Deciding PROVE Backed(a, {Last(pass.fold)}, Folded \cup Safe)
  <2>1. pass.fold \in Seq(Msgs) /\ pass.fold # <<>>
    BY <1>6, TypeParts DEF Deciding, FoldInv, Early, WorkType, PassType
  <2>2. Last(pass.fold) \in Folded
    BY <2>1, SeqFacts DEF Folded
  <2>3. m \notin {Last(pass.fold)}
    BY <1>1, <2>2 DEF Placed
  <2>4. Backed(s, {Last(pass.fold)}, Folded \cup Safe)
    BY <1>6 DEF BackedInv
  <2>. QED BY <2>3, <2>4, BackedAppend
<1>7. SnapInv'
  BY <1>0, <1>3 DEF SnapInv
<1>8. BackedInv'
  BY <1>0, <1>4, <1>5, <1>6 DEF BackedInv
<1>. QED BY <1>0, <1>7, <1>8

-----------------------------------------------------------------------------
(* The steps that move no message                                           *)

\* The turn claims or loses its hold, a reset ends without its checkpoint, the run moves on.
TurnQuiet ==
    \/ UNCHANGED turning
    \/ /\ turning.pc # "idle" /\ turning'.msg = turning.msg
       /\ turning'.pc = "wanted" \/ (turning'.pc = "held" /\ ~RowLocked)
ClearQuiet ==
    \/ UNCHANGED clearing
    \/ clearing.pc # "commit" /\ clearing' = IdleReset
Quiet == /\ UNCHANGED <<stampOf, queued, body, head, summaries, told>>
         /\ TurnQuiet /\ ClearQuiet /\ PassQuiet

LEMMA QuietViews ==
    ASSUME IInv, Quiet
    PROVE  /\ Waiting' = Waiting /\ Loaded' \subseteq Loaded /\ Folded' \subseteq Folded
           /\ Covered' = Covered /\ Safe' = Safe /\ Lasts' = Lasts
           /\ clearing'.taken = clearing.taken /\ clearing'.revoked \subseteq clearing.revoked
           /\ Holders' \subseteq Holders /\ Heads' \subseteq Heads \cup {0}
           /\ RowLocked' => RowLocked /\ UNCHANGED clearing
           /\ TurnOwns' /\ RowLocked => TurnOwns
<1>1. Waiting' = Waiting /\ Loaded' \subseteq Loaded /\ Holders' \subseteq Holders
  <2>1. CASE UNCHANGED turning
    BY <2>1 DEF Quiet, Waiting, Loaded, Holders
  <2>2. CASE /\ turning.pc # "idle" /\ turning'.msg = turning.msg
             /\ turning'.pc = "wanted" \/ (turning'.pc = "held" /\ ~RowLocked)
    BY <2>2 DEF Quiet, Waiting, Loaded, Holders
  <2>. QED BY <2>1, <2>2 DEF Quiet, TurnQuiet
<1>2. Folded' \subseteq Folded
  BY PassQuietKeeps DEF Quiet, IInv
<1>3. Covered' = Covered /\ Safe' = Safe /\ Lasts' = Lasts
  BY DEF Quiet, Covered, Safe, Lasts, told
<1>4. /\ clearing'.taken = clearing.taken /\ clearing'.revoked \subseteq clearing.revoked
      /\ RowLocked' => RowLocked /\ UNCHANGED clearing
  <2>1. CASE UNCHANGED clearing
    BY <2>1 DEF RowLocked
  <2>2. CASE clearing.pc # "commit" /\ clearing' = IdleReset
    <3>1. clearing.taken = {}
      BY <2>2 DEF IInv, LockInv
    <3>. QED BY <2>2, <3>1 DEF RowLocked, IdleReset
  <2>. QED BY <2>1, <2>2 DEF Quiet, ClearQuiet
<1>5. TurnOwns' /\ RowLocked => TurnOwns
  BY DEF Quiet, TurnQuiet, TurnOwns
<1>6. Heads' \subseteq Heads \cup {0}
  <2>1. pass'.head \in {0, pass.head}
    BY DEF Quiet, PassQuiet
  <2>2. turning'.pc = "loaded" => turning' = turning
    BY DEF Quiet, TurnQuiet
  <2>. QED BY <2>1, <2>2 DEF Heads, Quiet
<1>. QED BY <1>1, <1>2, <1>3, <1>4, <1>5, <1>6

LEMMA QuietKeeps ==
    ASSUME IInv, Quiet, TypeOK'
    PROVE  IInv' /\ LiveMoves /\ StandsMoves
<1>0. /\ Waiting' = Waiting /\ Loaded' \subseteq Loaded /\ Folded' \subseteq Folded
      /\ Covered' = Covered /\ Safe' = Safe /\ Lasts' = Lasts
      /\ clearing'.taken = clearing.taken /\ clearing'.revoked \subseteq clearing.revoked
      /\ Holders' \subseteq Holders /\ Heads' \subseteq Heads \cup {0}
      /\ RowLocked' => RowLocked /\ UNCHANGED clearing
      /\ TurnOwns' /\ RowLocked => TurnOwns
  BY QuietViews
<1>1. UNCHANGED <<stampOf, queued, body, head, summaries, gone>> /\ PassQuiet
  BY DEF Quiet, told
<1>2. Placed' \subseteq Placed
  BY <1>0, <1>1 DEF Placed
<1>3. turning'.pc # "idle" => turning'.msg \notin queued'
  BY <1>1 DEF Quiet, TurnQuiet, IInv, FreshInv
<1>4. SaidInv' /\ FreshInv'
  <2>1. Waiting \subseteq DOMAIN stampOf
    BY DEF IInv, SaidInv
  <2>2. Moves
    BY <1>0, <1>1, <1>2, <1>3, <2>1 DEF Moves
  <2>. QED BY <2>2, MovesKeep DEF IInv
<1>5. SnapInv' /\ BackedInv'
  BY <1>0, <1>1, LessKeeps DEF IInv
<1>6. LockInv'
  <2>1. ~(TurnOwns' /\ RowLocked')
    BY <1>0 DEF IInv, LockInv
  <2>2. clearing'.pc = "commit" => body' = <<>>
    BY <1>1 DEF IInv, LockInv, Quiet, ClearQuiet, IdleReset
  <2>3. clearing'.pc # "commit" => clearing'.taken = {}
    BY DEF IInv, LockInv, Quiet, ClearQuiet, IdleReset
  <2>4. RowLocked' => clearing'.revoked \subseteq queued' /\ clearing'.upto <= Len(summaries')
    BY <1>0, <1>1 DEF IInv, LockInv
  <2>. QED BY <2>1, <2>2, <2>3, <2>4 DEF LockInv
<1>7. SumInv'
  BY <1>1 DEF IInv, SumInv
<1>8. FoldInv'
  BY <1>1, PassQuietKeeps DEF IInv
<1>9. HeadInv'
  BY <1>0 DEF IInv, HeadInv
<1>10. AllAccounted'
  BY <1>0, <1>1 DEF IInv, AllAccounted, Accounted
<1>11. LiveMoves
  BY <1>0, <1>1 DEF LiveMoves, Live
<1>12. StandsMoves
  BY <1>0 DEF StandsMoves
<1>. QED BY <1>12, <1>11, <1>4, <1>5, <1>6, <1>7, <1>8, <1>9, <1>10 DEF IInv

-----------------------------------------------------------------------------
(* The steps of the messages                                                *)


LEMMA SaysKeeps ==
    ASSUME IInv, TypeOK', NEW c \in Convs, NEW at, SaysToIngest(c) \/ SaysToTurn(c, at)
    PROVE  IInv' /\ LiveMoves /\ StandsMoves
<1>. DEFINE m == Len(stampOf) + 1
<1>1. /\ Len(stampOf) < MaxMsgs /\ stampOf' = Append(stampOf, c)
      /\ UNCHANGED <<body, head, summaries, pass, clearing, gone, blank, torn>>
  BY DEF SaysToIngest, SaysToTurn, memory, told
<1>2. m \notin DOMAIN stampOf /\ DOMAIN stampOf' = DOMAIN stampOf \cup {m}
  BY <1>1, TypeParts, NewMessage DEF IInv
<1>. HIDE DEF m
<1>3. /\ turning'.pc # "loaded" => turning.pc # "loaded"
      /\ turning'.pc = "loaded" => turning' = turning
      /\ TurnOwns' <=> TurnOwns
      /\ turning'.pc # "idle" => turning'.msg \notin queued'
      /\ Waiting' = Waiting \cup {m}
      /\ queued \subseteq queued'
  <2>1. CASE SaysToIngest(c)
    <3>1. turning.pc # "idle" => turning.msg # m
      BY <1>2 DEF IInv, SaidInv, Waiting
    <3>2. queued' = queued \cup {m} /\ turning' = turning
      BY <2>1 DEF SaysToIngest, m
    <3>. QED BY <3>1, <3>2 DEF IInv, FreshInv, Waiting, TurnOwns
  <2>2. CASE SaysToTurn(c, at)
    <3>1. m \notin queued
      BY <1>2 DEF IInv, SaidInv, Waiting
    <3>2. /\ queued' = queued /\ turning.pc = "idle"
          /\ turning'.pc = "wanted" /\ turning'.msg = m
      BY <2>2 DEF SaysToTurn, m, IdleTurn
    <3>. QED BY <3>1, <3>2 DEF Waiting, TurnOwns
  <2>. QED BY <2>1, <2>2
<1>4. Loaded' = Loaded /\ Holders' = Holders /\ Heads' = Heads /\ Folded' = Folded
      /\ Covered' = Covered /\ Safe' = Safe /\ Lasts' = Lasts /\ Placed' = Placed
      /\ (RowLocked' <=> RowLocked)
  <2>1. (turning'.pc = "loaded" <=> turning.pc = "loaded") /\ (turning'.pc = "loaded" => turning' = turning)
    BY <1>3 DEF TurnOwns, SaysToIngest, SaysToTurn, IdleTurn
  <2>. QED BY <1>1, <2>1 DEF Loaded, Holders, Heads, Folded, Covered, Safe, Lasts, Placed, RowLocked
<1>5. SaidInv' /\ FreshInv'
  <2>1. Waiting \subseteq DOMAIN stampOf
    BY DEF IInv, SaidInv
  <2>2. Moves
    BY <1>1, <1>2, <1>3, <1>4, <2>1 DEF Moves
  <2>. QED BY <2>2, MovesKeep DEF IInv
<1>6. SnapInv' /\ BackedInv'
  BY <1>1, <1>4, LessKeeps DEF IInv, PassQuiet
<1>7. LockInv'
  BY <1>1, <1>3, <1>4 DEF IInv, LockInv
<1>8. SumInv' /\ FoldInv' /\ HeadInv'
  BY <1>1, <1>4 DEF IInv, SumInv, FoldInv, HeadInv
<1>9. AllAccounted'
  BY <1>1, <1>2, <1>3, <1>4 DEF IInv, AllAccounted, Accounted
<1>10. LiveMoves
  BY <1>1, <1>2, <1>3, <1>4 DEF LiveMoves, Live
<1>11. StandsMoves
  BY <1>4 DEF StandsMoves
<1>. QED BY <1>11, <1>10, <1>5, <1>6, <1>7, <1>8, <1>9 DEF IInv

LEMMA TurnLoadsKeeps ==
    ASSUME IInv, TypeOK', TurnLoads
    PROVE  IInv' /\ LiveMoves /\ StandsMoves
<1>1. /\ UNCHANGED <<stampOf, queued, body, head, summaries, pass, clearing, gone, blank, torn>>
      /\ turning.pc = "held" /\ turning'.pc = "loaded" /\ turning'.msg = turning.msg
      /\ turning'.head = head /\ turning'.snap = body
  BY DEF TurnLoads, memory, told, IInv, TypeOK, TurnType
<1>2. Holders = {body} /\ Holders' = {body} /\ Heads' \subseteq Heads /\ Loaded' = ToSet(body)
      /\ Waiting' = Waiting /\ Folded' = Folded /\ Covered' = Covered /\ Safe' = Safe /\ Lasts' = Lasts
      /\ Placed' \subseteq Placed /\ (RowLocked' <=> RowLocked) /\ TurnOwns
  BY <1>1 DEF Holders, Heads, Loaded, Waiting, Folded, Covered, Safe, Lasts, Placed, RowLocked, TurnOwns
<1>3. SaidInv' /\ FreshInv'
  <2>1. Moves
    BY <1>1, <1>2 DEF Moves, IInv, SaidInv, FreshInv
  <2>. QED BY <2>1, MovesKeep DEF IInv
<1>4. SnapInv' /\ BackedInv'
  BY <1>1, <1>2, LessKeeps DEF IInv, PassQuiet
<1>5. LockInv'
  BY <1>1, <1>2 DEF IInv, LockInv
<1>6. SumInv' /\ FoldInv' /\ HeadInv'
  BY <1>1, <1>2 DEF IInv, SumInv, FoldInv, HeadInv
<1>7. AllAccounted'
  BY <1>1, <1>2 DEF IInv, AllAccounted, Accounted
<1>8. LiveMoves
  BY <1>1, <1>2 DEF LiveMoves, Live
<1>9. StandsMoves
  BY <1>2 DEF StandsMoves
<1>. QED BY <1>9, <1>8, <1>3, <1>4, <1>5, <1>6, <1>7 DEF IInv

LEMMA TurnSavesKeeps ==
    ASSUME IInv, TypeOK', TurnSaves
    PROVE  IInv' /\ LiveMoves /\ StandsMoves
<1>. DEFINE s == turning.snap
            m == turning.msg
<1>1. /\ UNCHANGED <<stampOf, queued, summaries, pass, clearing, gone, blank, torn>>
      /\ turning.pc = "loaded" /\ turning'.pc = "idle" /\ body' = Append(s, m)
      /\ head' = turning.head
  BY DEF TurnSaves, told, IdleTurn
<1>2. s \in Seq(Msgs) /\ m \in Msgs /\ s \in Holders /\ m \in Waiting /\ Loaded = ToSet(s)
  BY <1>1 DEF IInv, TypeOK, TurnType, Holders, Waiting, Loaded
<1>3. Holders' = {body'}
  BY <1>1 DEF Holders
<1>. HIDE DEF s, m
<1>4. SnapInv' /\ BackedInv' /\ ToSet(body') = ToSet(s) \cup {m}
  BY <1>1, <1>2, <1>3, AppendKeeps DEF IInv, told
<1>5. /\ Heads' \subseteq Heads /\ Loaded' = {} /\ Folded' = Folded /\ Covered' = Covered
      /\ Safe' = Safe /\ (RowLocked' <=> RowLocked) /\ TurnOwns /\ ~TurnOwns'
  BY <1>1 DEF Heads, Loaded, Folded, Covered, Safe, RowLocked, TurnOwns
<1>6. Waiting' = Waiting \ {m}
  BY <1>1 DEF Waiting, IInv, FreshInv, m
<1>7. SaidInv' /\ FreshInv'
  <2>1. Placed' \subseteq Placed \cup {m}
    BY <1>1, <1>2, <1>4, <1>5 DEF Placed
  <2>2. Moves
    BY <1>1, <1>2, <1>6, <2>1 DEF Moves, IInv, SaidInv
  <2>. QED BY <2>2, MovesKeep DEF IInv
<1>8. LockInv'
  BY <1>1, <1>5 DEF IInv, LockInv, RowLocked
<1>9. SumInv' /\ FoldInv' /\ HeadInv'
  BY <1>1, <1>5 DEF IInv, SumInv, FoldInv, HeadInv
<1>10. AllAccounted'
  <2>1. ToSet(body) \subseteq ToSet(s)
    BY <1>2 DEF IInv, SnapInv
  <2>. QED BY <1>1, <1>4, <1>5, <1>6, <2>1 DEF IInv, AllAccounted, Accounted
<1>11. LiveMoves
  BY <1>1, <1>2, <1>4, <1>5, <1>6 DEF LiveMoves, Live
<1>12. StandsMoves
  BY <1>1, <1>2, <1>3 DEF StandsMoves
<1>. QED BY <1>12, <1>11, <1>4, <1>7, <1>8, <1>9, <1>10 DEF IInv

LEMMA IngestsKeeps ==
    ASSUME IInv, TypeOK', Ingests
    PROVE  IInv' /\ LiveMoves /\ StandsMoves
<1>1. PICK m \in queued :
        /\ ~RowLocked /\ ~TurnOwns /\ queued' = queued \ {m} /\ body' = Append(body, m)
        /\ UNCHANGED <<stampOf, head, summaries, pass, turning, clearing, gone, blank, torn>>
  BY DEF Ingests, told
<1>2. body \in Seq(Msgs) /\ m \in Msgs /\ body \in Holders /\ m \in Waiting
  BY <1>1 DEF IInv, TypeOK, Holders, Waiting
<1>3. Holders' = {body'}
  BY <1>1 DEF Holders, TurnOwns
<1>4. SnapInv' /\ BackedInv' /\ ToSet(body') = ToSet(body) \cup {m}
  BY <1>1, <1>2, <1>3, AppendKeeps DEF IInv, told
<1>5. /\ Heads' = Heads /\ Loaded' = Loaded /\ Folded' = Folded /\ Covered' = Covered
      /\ Safe' = Safe /\ ~RowLocked' /\ ~TurnOwns'
  BY <1>1 DEF Heads, Loaded, Folded, Covered, Safe, RowLocked, TurnOwns
<1>6. Waiting' = Waiting \ {m}
  BY <1>1 DEF Waiting, IInv, FreshInv
<1>7. SaidInv' /\ FreshInv'
  <2>1. Placed' \subseteq Placed \cup {m}
    BY <1>1, <1>4, <1>5 DEF Placed
  <2>2. Moves
    BY <1>1, <1>2, <1>6, <2>1 DEF Moves, IInv, SaidInv, FreshInv
  <2>. QED BY <2>2, MovesKeep DEF IInv
<1>8. LockInv'
  BY <1>1, <1>5 DEF IInv, LockInv, RowLocked
<1>9. SumInv' /\ FoldInv' /\ HeadInv'
  BY <1>1, <1>5 DEF IInv, SumInv, FoldInv, HeadInv
<1>10. AllAccounted'
  BY <1>1, <1>4, <1>5, <1>6 DEF IInv, AllAccounted, Accounted
<1>11. LiveMoves
  BY <1>1, <1>2, <1>4, <1>5, <1>6 DEF LiveMoves, Live
<1>12. StandsMoves
  BY <1>1, <1>2, <1>3 DEF StandsMoves
<1>. QED BY <1>12, <1>11, <1>4, <1>7, <1>8, <1>9, <1>10 DEF IInv

-----------------------------------------------------------------------------
(* The steps of a reset                                                     *)

LEMMA ResetStartsKeeps ==
    ASSUME IInv, TypeOK', ResetStarts
    PROVE  IInv' /\ LiveMoves /\ StandsMoves
<1>1. /\ UNCHANGED <<stampOf, queued, body, head, summaries, pass, blank, torn>>
      /\ ~TurnOwns /\ clearing.pc = "idle"
      /\ clearing' = [pc |-> "checkpoint", revoked |-> queued, taken |-> {}, upto |-> Len(summaries)]
      /\ turning' = IF turning.pc = "wanted" THEN IdleTurn ELSE turning
      /\ gone' = IF turning.pc = "wanted" THEN gone \cup {turning.msg} ELSE gone
  BY DEF ResetStarts, memory
<1>2. turning.pc \in {"idle", "wanted"} /\ turning'.pc = "idle"
  BY <1>1 DEF IInv, TypeOK, TurnType, TurnOwns, IdleTurn
<1>3. Waiting' = queued /\ gone \subseteq gone' /\ gone' \subseteq gone \cup Waiting
      /\ Waiting \cup gone \subseteq Waiting' \cup gone'
  BY <1>1, <1>2 DEF Waiting
<1>4. /\ Loaded = {} /\ Loaded' = {} /\ Holders' = Holders /\ Heads' = Heads /\ Folded' = Folded
      /\ Covered' = Covered /\ Lasts' = Lasts /\ clearing.taken = {} /\ Placed' = Placed
  <2>1. clearing.taken = {} /\ clearing'.taken = {}
    BY <1>1 DEF IInv, LockInv
  <2>. QED BY <1>1, <1>2, <2>1
           DEF Loaded, Holders, Heads, Folded, Covered, Lasts, Placed
<1>5. Safe \subseteq Safe'
  BY <1>1, <1>3, <1>4 DEF Safe
<1>6. SaidInv' /\ FreshInv'
  <2>1. clearing'.revoked = queued /\ queued \subseteq Waiting /\ Waiting \subseteq DOMAIN stampOf
    BY <1>1 DEF Waiting, IInv, SaidInv
  <2>2. Moves
    BY <1>1, <1>2, <1>3, <1>4, <2>1 DEF Moves
  <2>. QED BY <2>2, MovesKeep DEF IInv
<1>7. SnapInv' /\ BackedInv'
  BY <1>1, <1>4, <1>5, LessKeeps DEF IInv, PassQuiet
<1>8. LockInv'
  <2>1. Len(summaries) \in Nat
    BY SeqFacts DEF IInv, TypeOK
  <2>. QED BY <1>1, <1>2, <2>1 DEF LockInv, TurnOwns
<1>9. SumInv' /\ FoldInv' /\ HeadInv'
  BY <1>1, <1>4, <1>5 DEF IInv, SumInv, FoldInv, HeadInv
<1>10. AllAccounted'
  BY <1>1, <1>3, <1>4, <1>5 DEF IInv, AllAccounted, Accounted, Safe
<1>11. LiveMoves
  BY <1>1, <1>3, <1>4 DEF LiveMoves, Live, Waiting
<1>12. StandsMoves
  BY <1>4 DEF StandsMoves
<1>. QED BY <1>11, <1>12, <1>6, <1>7, <1>8, <1>9, <1>10 DEF IInv

\* The checkpoint is gone; the failure that leaves it is a quiet step.
LEMMA ResetClearsKeeps ==
    ASSUME IInv, TypeOK', clearing.pc = "checkpoint", body' = <<>>, head' = 0,
           clearing' = [clearing EXCEPT !.pc = "commit", !.taken = ToSet(body)],
           UNCHANGED <<stampOf, queued, summaries, pass, turning, gone, blank, torn>>
    PROVE  IInv' /\ LiveMoves /\ StandsMoves
<1>1. /\ clearing'.pc = "commit" /\ clearing'.taken = ToSet(body)
      /\ clearing'.revoked = clearing.revoked /\ clearing'.upto = clearing.upto
      /\ clearing.taken = {} /\ RowLocked /\ RowLocked' /\ ~TurnOwns /\ ~TurnOwns'
  BY DEF IInv, TypeOK, ResetType, LockInv, RowLocked, TurnOwns
<1>2. /\ Waiting' = Waiting /\ Holders' = {<<>>} /\ Heads' \subseteq Heads \cup {0} /\ Folded' = Folded
      /\ Covered' = Covered /\ Lasts' = Lasts /\ Safe' = Safe /\ Placed' \subseteq Placed
  BY <1>1, EmptyFacts DEF Waiting, Holders, Heads, Folded, Covered, Lasts, Safe, Placed, Loaded, TurnOwns
<1>3. SaidInv' /\ FreshInv'
  <2>1. Moves
    BY <1>1, <1>2 DEF Moves, IInv, SaidInv, FreshInv
  <2>. QED BY <2>1, MovesKeep DEF IInv
<1>4. SnapInv' /\ BackedInv'
  BY <1>2, LessKeeps DEF IInv, PassQuiet
<1>5. LockInv'
  BY <1>1 DEF IInv, LockInv
<1>6. SumInv' /\ FoldInv' /\ HeadInv'
  BY <1>2 DEF IInv, SumInv, FoldInv, HeadInv
<1>7. AllAccounted'
  BY <1>1, <1>2 DEF IInv, AllAccounted, Accounted
<1>8. LiveMoves
  BY <1>1, <1>2, EmptyFacts DEF LiveMoves, Live, Loaded, TurnOwns
<1>9. StandsMoves
  BY <1>2 DEF StandsMoves
<1>. QED BY <1>9, <1>8, <1>3, <1>4, <1>5, <1>6, <1>7 DEF IInv

LEMMA ResetCommitsKeeps ==
    ASSUME IInv, TypeOK', ResetCommits
    PROVE  IInv'
<1>. DEFINE r == SubSeq(summaries, clearing.upto + 1, Len(summaries))
            u == UNION {summaries[i].covers : i \in 1..clearing.upto}
<1>1. /\ clearing.pc = "commit" /\ body = <<>> /\ RowLocked /\ ~TurnOwns
      /\ clearing'.pc \in {"idle", "cancel"} /\ clearing'.taken = {} /\ clearing'.revoked = {}
      /\ UNCHANGED <<stampOf, body, head, pass, turning, blank>>
      /\ \/ /\ queued' = queued \ clearing.revoked /\ summaries' = r
            /\ gone' = gone \cup clearing.revoked \cup clearing.taken \cup u /\ torn' = torn
         \/ /\ torn' = torn \cup clearing.taken /\ UNCHANGED <<queued, summaries, gone>>
  BY DEF ResetCommits, IInv, LockInv, RowLocked, IdleReset
<1>2. /\ CoversOf(summaries) = CoversOf(r) \cup u /\ LastsOf(r) \subseteq LastsOf(summaries)
      /\ (\A i \in DOMAIN summaries : summaries[i].last \in summaries[i].covers)
             => \A i \in DOMAIN r : r[i].last \in r[i].covers
  <2>1. clearing.upto \in 0..Len(summaries) /\ summaries \in Seq(SummaryType)
    BY <1>1, SeqFacts DEF IInv, TypeOK, ResetType, LockInv
  <2>. QED BY <2>1, SummariesRest
<1>. HIDE DEF r, u
<1>3. /\ Covered \subseteq Covered' \cup gone' /\ Covered' \subseteq Covered /\ Lasts' \subseteq Lasts
      /\ SumInv'
  BY <1>1, <1>2, CoveredIsCovers DEF Lasts, IInv, SumInv
<1>4. /\ Waiting' \subseteq Waiting /\ Waiting \subseteq Waiting' \cup gone'
      /\ gone \subseteq gone' /\ gone' \subseteq gone \cup clearing.revoked \cup Placed
      /\ clearing.taken \subseteq gone' \cup torn' /\ torn \subseteq torn'
  BY <1>1, <1>2, CoveredIsCovers DEF Waiting, Placed
<1>5. /\ Holders' = Holders /\ Heads' = Heads /\ Folded' = Folded /\ Loaded' = Loaded
      /\ Safe \subseteq Safe' /\ Placed' \subseteq Placed
  BY <1>1, <1>3, <1>4 DEF Holders, Heads, Folded, Loaded, Safe, Placed
<1>6. SaidInv' /\ FreshInv'
  <2>1. turning'.pc # "idle" => turning'.msg \notin queued'
    BY <1>1 DEF IInv, FreshInv
  <2>2. Moves
    BY <1>1, <1>4, <1>5, <2>1 DEF Moves, IInv, SaidInv
  <2>. QED BY <2>2, MovesKeep DEF IInv
<1>7. SnapInv' /\ BackedInv'
  BY <1>1, <1>3, <1>5, LessKeeps DEF IInv, PassQuiet
<1>8. LockInv'
  BY <1>1 DEF LockInv, RowLocked
<1>9. FoldInv' /\ HeadInv'
  BY <1>1, <1>5 DEF IInv, FoldInv, HeadInv
<1>10. AllAccounted'
  BY <1>1, <1>4, <1>5 DEF IInv, AllAccounted, Accounted, Safe
<1>. QED BY <1>3, <1>6, <1>7, <1>8, <1>9, <1>10 DEF IInv

-----------------------------------------------------------------------------
(* The steps of the compaction                                              *)

\* A run that returns gives its fold up.
LEMMA ReturnsQuiet ==
    ASSUME NEW status, Returns(status) PROVE PassQuiet
  BY DEF Returns, PassQuiet, IdlePass, Early

LEMMA CutKeeps ==
    ASSUME IInv, TypeOK', Cuts, ~(Returns("pending") \/ Returns("done"))
    PROVE  IInv' /\ LiveMoves
<1>1. PICK n, c, b :
             /\ n \in 1..Len(body) /\ pass.pc = "reading" /\ ~TurnOwns
             /\ pass' = [pass EXCEPT !.pc = "summarizing", !.head = head, !.fold = SubSeq(body, 1, n),
                                     !.more = b, !.seg = c]
  BY CutShape DEF IInv
<1>. DEFINE f == SubSeq(body, 1, n)
<1>2. body \in Seq(Msgs) /\ pass \in PassType /\ n \in 0..Len(body)
  BY <1>1, SeqFacts DEF IInv, TypeOK
<1>3. f \in Seq(Msgs) /\ Len(f) = n /\ ToSet(f) \subseteq ToSet(body)
  BY <1>2, FrontFacts
<1>4. Backed(body, {Last(f)}, ToSet(f) \cup Safe) /\ Backed(f, Lasts, Safe)
  <2>1. body \in Holders
    BY DEF Holders
  <2>2. IsInjective(body) /\ Backed(body, Lasts, Safe)
    BY <2>1 DEF IInv, SnapInv, BackedInv
  <2>. QED BY <1>1, <1>2, <2>2, BackedByFront, BackedFront
<1>5. f # <<>>
  BY <1>1, <1>3, EmptySeq
<1>. HIDE DEF f
<1>6. /\ pass'.fold = f /\ pass'.head = head /\ pass'.pc = "summarizing"
      /\ UNCHANGED <<stampOf, queued, body, head, summaries, turning, clearing, gone, blank, torn>>
  BY <1>1, <1>2 DEF PassType, Cuts, memory, told, f
<1>7. /\ Waiting' = Waiting /\ Holders = {body} /\ Holders' = {body} /\ Heads' \subseteq Heads
      /\ Folded' = ToSet(f) /\ Loaded' = Loaded
      /\ Covered' = Covered /\ Safe' = Safe /\ Lasts' = Lasts /\ (RowLocked' <=> RowLocked)
      /\ (TurnOwns' <=> TurnOwns)
  BY <1>1, <1>6
     DEF Waiting, Holders, Heads, Folded, Loaded, Covered, Safe, Lasts, RowLocked, TurnOwns
<1>8. Placed' \subseteq Placed
  BY <1>3, <1>6, <1>7 DEF Placed
<1>9. SaidInv' /\ FreshInv'
  <2>1. Moves
    BY <1>6, <1>7, <1>8 DEF Moves, IInv, SaidInv, FreshInv
  <2>. QED BY <2>1, MovesKeep DEF IInv
<1>10. SnapInv'
  BY <1>6, <1>7 DEF IInv, SnapInv
<1>11. BackedInv'
  BY <1>4, <1>6, <1>7 DEF IInv, BackedInv, Writing
<1>12. LockInv'
  BY <1>6, <1>7 DEF IInv, LockInv
<1>13. SumInv' /\ FoldInv' /\ HeadInv'
  BY <1>5, <1>6, <1>7 DEF IInv, SumInv, FoldInv, HeadInv, Early
<1>14. AllAccounted'
  BY <1>6, <1>7 DEF IInv, AllAccounted, Accounted
<1>15. LiveMoves
  BY <1>6, <1>7 DEF LiveMoves, Live
<1>. QED BY <1>15, <1>9, <1>10, <1>11, <1>12, <1>13, <1>14 DEF IInv

\* A row that was already written for the fold's last message covers all of it.
LEMMA DescribedIsSafe ==
    ASSUME IInv, Deciding, Described PROVE Folded \subseteq Safe
<1>1. pass.fold \in Seq(Msgs) /\ pass.fold # <<>>
  BY DEF IInv, TypeOK, PassType, FoldInv, Early, Deciding
<1>2. Backed(pass.fold, Lasts, Safe) /\ Last(pass.fold) \in Lasts
  BY DEF IInv, BackedInv, Described, Lasts, LastsOf
<1>. QED BY <1>1, <1>2, BackedWhole DEF Folded

LEMMA CommitKeeps ==
    ASSUME IInv, TypeOK', Commits, SameGeneration, ~Described
    PROVE  IInv'
<1>. DEFINE r == [conv |-> pass.seg, last |-> Last(pass.fold), covers |-> ToSet(pass.fold)]
<1>1. /\ pass.pc = "committing" /\ pass' = [pass EXCEPT !.pc = "entering"]
      /\ summaries' = Append(summaries, r)
      /\ UNCHANGED <<stampOf, queued, body, head, turning, clearing, gone, blank, torn>>
  BY DEF Commits, told
<1>2. pass.fold \in Seq(Msgs) /\ pass.fold # <<>> /\ pass.seg \in {0} \cup Convs
      /\ summaries \in Seq(SummaryType) /\ pass \in PassType
  BY <1>1 DEF IInv, TypeOK, PassType, FoldInv, Early
<1>3. r \in SummaryType /\ r.covers = Folded /\ r.last = Last(pass.fold) /\ r.last \in r.covers
  BY <1>2, SeqFacts DEF SummaryType, Folded
<1>. HIDE DEF r
<1>4. /\ Covered' = Covered \cup Folded /\ Lasts' = Lasts \cup {Last(pass.fold)} /\ SumInv'
      /\ Len(summaries') = Len(summaries) + 1 /\ Len(summaries) \in Nat
  BY <1>1, <1>2, <1>3, SummariesAppend, CoveredIsCovers, SeqFacts DEF Lasts, IInv, SumInv
<1>5. pass'.fold = pass.fold /\ pass'.head = pass.head /\ pass'.pc = "entering"
  BY <1>1, <1>2 DEF PassType
<1>6. /\ Waiting' = Waiting /\ Holders' = Holders /\ Heads' = Heads
      /\ Folded' = Folded /\ Loaded' = Loaded /\ Placed' = Placed
      /\ Safe' = Safe \cup Folded /\ (RowLocked' <=> RowLocked) /\ (TurnOwns' <=> TurnOwns)
  BY <1>1, <1>4, <1>5
     DEF Waiting, Holders, Heads, Folded, Loaded, Placed, Safe, RowLocked, TurnOwns
<1>7. SaidInv' /\ FreshInv'
  <2>1. Moves
    BY <1>1, <1>6 DEF Moves, IInv, SaidInv, FreshInv
  <2>. QED BY <2>1, MovesKeep DEF IInv
<1>8. SnapInv'
  BY <1>1, <1>6 DEF IInv, SnapInv
<1>9. BackedInv'
  <2>1. ASSUME NEW s \in Holders PROVE Backed(s, Lasts', Safe')
    <3>1. Backed(s, Lasts, Safe) /\ Backed(s, {Last(pass.fold)}, Folded \cup Safe)
      BY <1>1 DEF IInv, BackedInv, Deciding
    <3>2. Backed(s, Lasts \cup {Last(pass.fold)}, Safe \cup (Folded \cup Safe))
      BY <3>1, BackedJoined
    <3>3. Safe \cup (Folded \cup Safe) = Safe'
      BY <1>6
    <3>. QED BY <1>4, <3>2, <3>3
  <2>. QED BY <1>5, <1>6, <2>1 DEF BackedInv, Deciding
<1>10. LockInv'
  <2>1. RowLocked => clearing.upto \in Nat
    BY DEF IInv, TypeOK, ResetType
  <2>. QED BY <1>1, <1>4, <1>6, <2>1 DEF IInv, LockInv
<1>11. FoldInv' /\ HeadInv'
  BY <1>1, <1>5, <1>6 DEF IInv, FoldInv, HeadInv, Early
<1>12. AllAccounted'
  BY <1>1, <1>6 DEF IInv, AllAccounted, Accounted
<1>. QED BY <1>4, <1>7, <1>8, <1>9, <1>10, <1>11, <1>12 DEF IInv

LEMMA RewriteKeeps ==
    ASSUME IInv, TypeOK', Rewrites, Unchanged
    PROVE  IInv' /\ LiveMoves /\ StandsMoves
<1>1. /\ pass.pc = "rewriting" /\ body' = Kept
      /\ head' \in {0, pass.head, Head(pass.fold)}
      /\ blank' = (IF pass.text THEN blank ELSE blank \cup Folded)
      /\ pass' = IdlePass
      /\ UNCHANGED <<stampOf, queued, summaries, turning, clearing, gone, torn>>
  BY DEF Rewrites, Returns, Folded
<1>2. /\ pass.fold \in Seq(Msgs) /\ pass.fold # <<>> /\ pass.head \in {0} \cup Msgs
      /\ body \in Seq(Msgs) /\ head \in {0} \cup Msgs
  BY <1>1 DEF IInv, TypeOK, PassType, FoldInv, Early
<1>3. PICK n \in 0..Len(body) :
        /\ body' = SubSeq(body, n + 1, Len(body))
        /\ \A j \in 1..n : body[j] \in ToSet(pass.fold) \cup ({pass.head} \ {0})
  BY <1>1, <1>2, KeptIsRest
<1>4. Folded \subseteq Safe' /\ Safe \subseteq Safe'
  <2>1. pass.text => Folded \subseteq Safe
    BY <1>1 DEF IInv, BackedInv, Writing
  <2>. QED BY <1>1, <2>1 DEF Safe, Covered
<1>5. pass.head \in {0} \cup Safe'
  BY <1>4 DEF IInv, HeadInv, Heads
<1>6. Head(pass.fold) \in Folded
  <2>1. Len(pass.fold) >= 1 /\ Len(pass.fold) \in Nat
    BY <1>2, SeqFacts
  <2>2. Head(pass.fold) = pass.fold[1] /\ 1 \in 1..Len(pass.fold)
    BY <1>2, <2>1, HeadTailProperties
  <2>. QED BY <1>2, <2>2, SeqFacts DEF Folded
<1>7. ToSet(body') \subseteq ToSet(body) /\ ToSet(body) \subseteq ToSet(body') \cup Safe'
  <2>1. ToSet(body') \subseteq ToSet(body) /\ \A k \in n + 1..Len(body) : body[k] \in ToSet(body')
    BY <1>2, <1>3, RestFacts
  <2>2. \A k \in 1..n : body[k] \in Safe'
    BY <1>3, <1>4, <1>5 DEF Folded
  <2>3. ASSUME NEW x \in ToSet(body) PROVE x \in ToSet(body') \cup Safe'
    <3>1. PICK k \in 1..Len(body) : body[k] = x
      BY <1>2, SeqFacts
    <3>2. k \in 1..n \/ k \in n + 1..Len(body)
      BY <1>2, SeqFacts
    <3>. QED BY <2>1, <2>2, <3>1, <3>2
  <2>. QED BY <2>1, <2>3
<1>8. IsInjective(body') /\ Backed(body', Lasts, Safe)
  <2>1. body \in Holders
    BY DEF Holders
  <2>2. IsInjective(body) /\ Backed(body, Lasts, Safe)
    BY <2>1 DEF IInv, SnapInv, BackedInv
  <2>. QED BY <1>2, <1>3, <2>2, InjectiveRest, BackedRest
<1>9. pass'.fold = <<>> /\ pass'.head = 0 /\ pass'.pc = "idle"
  BY <1>1 DEF IdlePass
<1>10. /\ Waiting' = Waiting /\ Holders' \subseteq Holders \cup {body'} /\ Folded' = {} /\ Loaded' = Loaded
       /\ Covered' = Covered /\ Lasts' = Lasts /\ (RowLocked' <=> RowLocked) /\ (TurnOwns' <=> TurnOwns)
  BY <1>1, <1>9, EmptyFacts DEF Waiting, Holders, Folded, Loaded, Covered, Lasts, RowLocked, TurnOwns
<1>11. Heads' \subseteq Heads \cup {0, head', pass.head}
  BY <1>1, <1>9 DEF Heads
<1>12. Placed' \subseteq Placed
  BY <1>1, <1>7, <1>10 DEF Placed
<1>13. SaidInv' /\ FreshInv'
  <2>1. Moves
    BY <1>1, <1>10, <1>12 DEF Moves, IInv, SaidInv, FreshInv
  <2>. QED BY <2>1, MovesKeep DEF IInv
<1>14. SnapInv'
  BY <1>7, <1>8, <1>10 DEF IInv, SnapInv
<1>15. BackedInv'
  <2>1. ASSUME NEW s \in Holders' PROVE Backed(s, Lasts', Safe')
    <3>1. Backed(s, Lasts, Safe)
      BY <1>8, <1>10 DEF IInv, BackedInv
    <3>. QED BY <1>4, <1>10, <3>1, BackedWeaker
  <2>. QED BY <1>9, <2>1 DEF BackedInv, Deciding, Writing
<1>16. LockInv'
  <2>1. body = <<>> => body' = <<>>
    <3>1. ASSUME body = <<>> PROVE body' = <<>>
      <4>1. Len(body) = 0
        BY <1>2, <3>1, EmptySeq
      <4>2. Len(body') = Len(body) - n /\ body' \in Seq(Msgs)
        BY <1>2, <1>3, RestFacts
      <4>. QED BY <4>1, <4>2, EmptySeq, SeqFacts
    <3>. QED BY <3>1
  <2>. QED BY <1>1, <1>10, <2>1 DEF IInv, LockInv
<1>17. SumInv' /\ FoldInv'
  BY <1>1, <1>9 DEF IInv, SumInv, FoldInv, Early
<1>18. HeadInv'
  BY <1>1, <1>4, <1>5, <1>6, <1>11 DEF IInv, HeadInv
<1>19. AllAccounted'
  BY <1>1, <1>4, <1>7, <1>10 DEF IInv, AllAccounted, Accounted
<1>20. LiveMoves
  BY <1>1, <1>7, <1>10 DEF LiveMoves, Live
<1>21. StandsMoves
  BY <1>3, <1>10 DEF StandsMoves, Holders
<1>. QED BY <1>21, <1>20, <1>13, <1>14, <1>15, <1>16, <1>17, <1>18, <1>19 DEF IInv

-----------------------------------------------------------------------------
(* The theorems                                                             *)

\* Whatever is left of the next-state relation moves no message.
LEMMA QuietSteps ==
    ASSUME IInv,
           \/ \E c \in Convs : Resolves(c)
           \/ TurnClaims \/ CompactionClaims \/ Loads \/ Drains \/ Summarizes \/ EntersRewrite
           \/ Cuts /\ (Returns("pending") \/ Returns("done"))
           \/ Commits /\ ~(SameGeneration /\ ~Described)
           \/ Rewrites /\ ~Unchanged
           \/ Crash \/ ResetCancels
           \/ /\ clearing.pc = "checkpoint" /\ clearing' = IdleReset
              /\ UNCHANGED <<stampOf, queued, body, head, summaries, told, pass, turning>>
    PROVE  Quiet
<1>0. pass \in PassType /\ turning \in TurnType /\ FoldInv
  BY DEF IInv, TypeOK
<1>1. CASE \E c \in Convs : Resolves(c)
  BY <1>1 DEF Resolves, memory, Quiet, TurnQuiet, ClearQuiet, PassQuiet
<1>2. CASE TurnClaims
  BY <1>0, <1>2 DEF TurnClaims, TurnType, Quiet, TurnQuiet, ClearQuiet, PassQuiet
<1>3. CASE CompactionClaims
  BY <1>3 DEF CompactionClaims, memory, Quiet, TurnQuiet, ClearQuiet, PassQuiet, IdlePass, Early
<1>4. CASE Loads
  <2>1. pass.fold = <<>>
    BY <1>0, <1>4 DEF Loads, FoldInv, Early
  <2>2. pass'.pc = "draining" /\ pass'.fold = <<>> /\ pass'.head = pass.head
    BY <1>0, <1>4, <2>1 DEF Loads, PassType
  <2>. QED BY <1>4, <2>2 DEF Loads, memory, Quiet, TurnQuiet, ClearQuiet, PassQuiet, Early
<1>5. CASE Drains
  <2>1. PassQuiet
    <3>1. CASE Returns("pending") \/ Returns("done")
      BY <3>1, ReturnsQuiet
    <3>2. CASE ~(Returns("pending") \/ Returns("done"))
      <4>1. pass.fold = <<>>
        BY <1>0, <1>5 DEF Drains, FoldInv, Early
      <4>2. pass'.pc = "reading" /\ pass'.fold = <<>> /\ pass'.head = pass.head
        BY <1>0, <1>5, <3>2, <4>1 DEF Drains, PassType
      <4>. QED BY <4>2 DEF PassQuiet, Early
    <3>. QED BY <3>1, <3>2
  <2>. QED BY <1>5, <2>1 DEF Drains, memory, Quiet, TurnQuiet, ClearQuiet
<1>6. CASE Summarizes
  <2>1. PassQuiet
    <3>1. CASE pass' = [pass EXCEPT !.pc = "committing", !.text = TRUE]
      BY <1>0, <1>6, <3>1 DEF Summarizes, PassType, PassPcs, PassQuiet, Early, Deciding, Writing
    <3>2. CASE pass' = [pass EXCEPT !.pc = "entering", !.text = FALSE]
      BY <1>0, <1>6, <3>2 DEF Summarizes, PassType, PassPcs, PassQuiet, Early, Deciding, Writing
    <3>. QED BY <1>6, <3>1, <3>2, ReturnsQuiet DEF Summarizes
  <2>. QED BY <1>6, <2>1 DEF Summarizes, memory, Quiet, TurnQuiet, ClearQuiet
<1>7. CASE EntersRewrite
  <2>1. PassQuiet
    <3>1. CASE TurnOwns
      BY <1>7, <3>1, ReturnsQuiet DEF EntersRewrite
    <3>2. CASE ~TurnOwns
      <4>1. Writing => Folded \subseteq Safe
        BY DEF IInv, BackedInv
      <4>. QED BY <1>0, <1>7, <3>2, <4>1
               DEF EntersRewrite, PassType, PassPcs, PassQuiet, Early, Deciding, Writing
    <3>. QED BY <3>1, <3>2
  <2>. QED BY <1>7, <2>1 DEF EntersRewrite, memory, Quiet, TurnQuiet, ClearQuiet
<1>8. CASE Cuts /\ (Returns("pending") \/ Returns("done"))
  BY <1>8, ReturnsQuiet DEF Cuts, memory, Quiet, TurnQuiet, ClearQuiet
<1>9. CASE Commits /\ ~(SameGeneration /\ ~Described)
  <2>1. PassQuiet
    <3>1. CASE ~SameGeneration
      BY <1>9, <3>1, ReturnsQuiet DEF Commits
    <3>2. CASE SameGeneration
      <4>1. Deciding /\ Described
        BY <1>9, <3>2 DEF Commits, Deciding
      <4>2. Folded \subseteq Safe
        BY <4>1, DescribedIsSafe
      <4>. QED BY <1>0, <1>9, <3>2, <4>2
               DEF Commits, PassType, PassPcs, PassQuiet, Early, Deciding, Writing
    <3>. QED BY <3>1, <3>2
  <2>. QED BY <1>9, <2>1 DEF Commits, memory, Quiet, TurnQuiet, ClearQuiet
<1>10. CASE Rewrites /\ ~Unchanged
  BY <1>10, ReturnsQuiet DEF Rewrites, told, Quiet, TurnQuiet, ClearQuiet
<1>11. CASE Crash
  <2>1. PassQuiet
    BY <1>11, ReturnsQuiet DEF Crash
  <2>2. TurnQuiet
    BY <1>0, <1>11 DEF Crash, TurnQuiet, TurnType, TurnOwns
  <2>. QED BY <1>11, <2>1, <2>2 DEF Crash, memory, Quiet, ClearQuiet
<1>12. CASE ResetCancels
  BY <1>12 DEF ResetCancels, memory, Quiet, TurnQuiet, ClearQuiet, PassQuiet
<1>13. CASE /\ clearing.pc = "checkpoint" /\ clearing' = IdleReset
            /\ UNCHANGED <<stampOf, queued, body, head, summaries, told, pass, turning>>
  BY <1>13 DEF Quiet, TurnQuiet, ClearQuiet, PassQuiet
<1>. QED BY <1>1, <1>2, <1>3, <1>4, <1>5, <1>6, <1>7, <1>8, <1>9, <1>10, <1>11, <1>12, <1>13

LEMMA InitIInv == Init => IInv
<1>. SUFFICES ASSUME Init PROVE IInv
  OBVIOUS
<1>1. /\ stampOf = <<>> /\ queued = {} /\ body = <<>> /\ summaries = <<>> /\ head = 0
      /\ pass = IdlePass /\ turning = IdleTurn /\ clearing = IdleReset
      /\ gone = {} /\ blank = {} /\ torn = {}
  BY DEF Init
<1>2. /\ DOMAIN <<>> = {} /\ pass.pc = "idle" /\ pass.fold = <<>> /\ pass.head = 0
      /\ turning.pc = "idle" /\ clearing.pc = "idle" /\ clearing.taken = {} /\ clearing.revoked = {}
  BY <1>1, EmptySeq DEF IdlePass, IdleTurn, IdleReset
<1>3. /\ Waiting = {} /\ Placed = {} /\ Holders = {<<>>} /\ Heads = {0}
  BY <1>1, <1>2, EmptyFacts DEF Waiting, Placed, Holders, Heads, Loaded, Folded, Covered
<1>4. IsInjective(<<>>)
  BY <1>2 DEF IsInjective
<1>5. SaidInv /\ FreshInv /\ SnapInv
  BY <1>1, <1>2, <1>3, <1>4 DEF SaidInv, FreshInv, SnapInv
<1>6. LockInv /\ SumInv /\ FoldInv /\ HeadInv /\ AllAccounted
  BY <1>1, <1>2, <1>3 DEF LockInv, SumInv, FoldInv, HeadInv, AllAccounted, RowLocked, TurnOwns, Early
<1>7. BackedInv
  BY <1>2, <1>3, BackedEmpty DEF BackedInv, Deciding, Writing
<1>. QED BY <1>5, <1>6, <1>7, InitTypes DEF IInv

LEMMA NextTyped == IInv /\ Next => TypeOK'
<1>. SUFFICES ASSUME IInv, Next PROVE TypeOK'
  OBVIOUS
<1>1. TypeOK /\ SaidInv /\ FoldInv /\ (RowLocked => clearing.upto <= Len(summaries))
  BY DEF IInv, LockInv
<1>. QED BY <1>1, SaysTyped, TurnTyped, CompactsTyped, ResetTyped DEF Next

LEMMA NextKeeps == IInv /\ Next => IInv'
<1>. SUFFICES ASSUME IInv, Next PROVE IInv'
  OBVIOUS
<1>1. TypeOK'
  BY NextTyped
<1>2. CASE \E c \in Convs : SaysToIngest(c) \/ \E at \in TurnsAt : SaysToTurn(c, at)
  BY <1>1, <1>2, SaysKeeps
<1>3. CASE TurnLoads \/ TurnSaves \/ Ingests
  BY <1>1, <1>3, TurnLoadsKeeps, TurnSavesKeeps, IngestsKeeps
<1>4. CASE Cuts
  BY <1>1, <1>4, CutKeeps, QuietSteps, QuietKeeps
<1>5. CASE Commits
  BY <1>1, <1>5, CommitKeeps, QuietSteps, QuietKeeps
<1>6. CASE Rewrites
  BY <1>1, <1>6, RewriteKeeps, QuietSteps, QuietKeeps
<1>7. CASE ResetStarts \/ ResetCommits
  BY <1>1, <1>7, ResetStartsKeeps, ResetCommitsKeeps
<1>8. CASE ResetClears
  <2>1. CASE clearing' = IdleReset /\ UNCHANGED <<body, head>>
    BY <1>1, <1>8, <2>1, QuietSteps, QuietKeeps DEF ResetClears
  <2>2. CASE body' = <<>> /\ head' = 0 /\ clearing' = [clearing EXCEPT !.pc = "commit", !.taken = ToSet(body)]
    BY <1>1, <1>8, <2>2, ResetClearsKeeps DEF ResetClears, told
  <2>. QED BY <1>8, <2>1, <2>2 DEF ResetClears
<1>9. CASE \/ \E c \in Convs : Resolves(c)
           \/ TurnClaims \/ CompactionClaims \/ Loads \/ Drains \/ Summarizes \/ EntersRewrite
           \/ Crash \/ ResetCancels
  BY <1>1, <1>9, QuietSteps, QuietKeeps
<1>. QED BY <1>2, <1>3, <1>4, <1>5, <1>6, <1>7, <1>8, <1>9 DEF Next, TurnStep, Compacts, ResetStep

LEMMA StutterKeeps == IInv /\ UNCHANGED vars => IInv'
<1>. SUFFICES ASSUME IInv, UNCHANGED vars PROVE IInv'
  OBVIOUS
<1>1. Quiet
  BY DEF vars, memory, told, Quiet, TurnQuiet, ClearQuiet, PassQuiet
<1>2. TypeOK'
  <2>1. UNCHANGED vars /\ TypeOK
    BY DEF IInv
  <2>. QED BY <2>1, TypeParts, FrameTyped, WorkKept, CapsKept DEF vars, memory, told, caps, Frame
<1>. QED BY <1>1, <1>2, QuietKeeps

\* The inductive invariant: what a message is in, what a rewrite may take away, and who keeps out
\* of whose way.
THEOREM IInvHolds == Spec => []IInv
<1>. QED BY InitIInv, NextKeeps, StutterKeeps, PTL DEF Spec

\* Every reachable state of the memory is of its types.
THEOREM TypeCorrect == Spec => []TypeOK
<1>1. IInv => TypeOK
  BY DEF IInv
<1>. QED BY <1>1, IInvHolds, PTL

\* No message is lost to the compaction or to the reset, whatever the number of messages,
\* conversations, turns, runs and failures: it is owed, in the thread, inside a summary, or
\* one of the three ways out is on record.
THEOREM RememberedHolds == Spec => []Remembered
<1>1. IInv => Remembered
  BY RememberedIsAccounted DEF IInv
<1>. QED BY <1>1, IInvHolds, PTL

-----------------------------------------------------------------------------
(* The generation of the row                                                *)

\* A row that is made again is newer than every row a run has seen.
RowInv ==
    /\ gen <= gens /\ pass.gen <= gens
    /\ pass.pc \notin {"idle", "loading", "draining"} => pass.gen # 0

RInv == IInv /\ RowInv

GenMoves ==
    /\ \/ gen' = gen /\ gens' = gens
       \/ gen = 0 /\ gen' = gens + 1 /\ gens' = gens + 1
    /\ pass'.gen \in {0, gen, pass.gen}
    /\ pass'.pc \notin {"idle", "loading", "draining"} => pass'.gen # 0

\* A run goes on deciding with the fold it has, and under the row it has seen only if it did.
DecidesOn ==
    Deciding' => /\ Deciding /\ UNCHANGED <<pass.fold, pass.gen, pass.seg>>
                 /\ gen' = pass.gen => gen = pass.gen

LEMMA GenMovesKeep ==
    ASSUME RInv, TypeOK', GenMoves, Deciding' => Deciding /\ UNCHANGED <<pass.fold, pass.gen, pass.seg>>
    PROVE  RowInv' /\ DecidesOn
<1>1. gen \in Nat /\ gens \in Nat /\ pass.gen \in Nat
  BY DEF RInv, IInv, TypeOK, PassType
<1>2. gen' <= gens' /\ pass'.gen <= gens'
  BY <1>1 DEF RInv, RowInv, GenMoves
<1>3. gen' = pass.gen /\ Deciding => gen = pass.gen
  BY <1>1 DEF RInv, RowInv, GenMoves
<1>. QED BY <1>2, <1>3 DEF RowInv, GenMoves, DecidesOn

\* A run that returns decides nothing.
LEMMA ReturnsGen ==
    ASSUME NEW status, Returns(status), UNCHANGED <<gen, gens>>
    PROVE  GenMoves /\ ~Deciding'
  BY DEF Returns, GenMoves, IdlePass, Deciding

LEMMA EntersGen ==
    ASSUME RInv, NEW c, EntersThread(c), UNCHANGED pass
    PROVE  GenMoves /\ (Deciding' => Deciding /\ UNCHANGED <<pass.fold, pass.gen, pass.seg>>)
  BY DEF EntersThread, GenMoves, RInv, RowInv, Deciding

LEMMA SameGen ==
    ASSUME RInv, UNCHANGED <<gen, gens, pass>>
    PROVE  GenMoves /\ (Deciding' => Deciding /\ UNCHANGED <<pass.fold, pass.gen, pass.seg>>)
  BY DEF GenMoves, RInv, RowInv, Deciding

\* Every step but the four that write, cut, start or end something that is cleared.
LEMMA OthersGen ==
    ASSUME RInv,
           \/ \E c \in Convs : SaysToIngest(c) \/ Resolves(c) \/ \E at \in TurnsAt : SaysToTurn(c, at)
           \/ TurnStep \/ Ingests \/ CompactionClaims \/ Loads \/ Drains \/ Summarizes \/ EntersRewrite
           \/ Cuts /\ (Returns("pending") \/ Returns("done"))
           \/ Commits /\ ~(SameGeneration /\ ~Described)
           \/ Rewrites \/ Crash \/ ResetClears \/ ResetCancels
    PROVE  /\ GenMoves /\ gone' = gone /\ summaries' = summaries
           /\ Deciding' => Deciding /\ UNCHANGED <<pass.fold, pass.gen, pass.seg>>
           /\ RowLocked' => RowLocked /\ clearing'.upto = clearing.upto /\ summaries' = summaries
<1>0. pass \in PassType /\ clearing \in ResetType /\ RowInv
  BY DEF RInv, IInv, TypeOK
<1>1. CASE \E c \in Convs : SaysToIngest(c) \/ Resolves(c) \/ \E at \in TurnsAt : SaysToTurn(c, at)
  BY <1>1, SameGen DEF SaysToIngest, SaysToTurn, Resolves, memory, told, caps, RowLocked
<1>2. CASE TurnClaims
  BY <1>2, EntersGen DEF TurnClaims, told, RowLocked
<1>3. CASE TurnLoads \/ TurnSaves
  BY <1>3, SameGen DEF TurnLoads, TurnSaves, memory, told, caps, RowLocked
<1>4. CASE Ingests
  BY <1>4, EntersGen DEF Ingests, told, RowLocked
<1>5. CASE CompactionClaims
  BY <1>5 DEF CompactionClaims, IdlePass, memory, told, caps, RowLocked, GenMoves, Deciding
<1>6. CASE Loads
  BY <1>0, <1>6 DEF Loads, PassType, memory, told, caps, RowLocked, GenMoves, Deciding
<1>7. CASE Drains
  <2>1. CASE Returns("pending") \/ Returns("done")
    BY <1>7, <2>1, ReturnsGen DEF Drains, memory, told, caps, RowLocked
  <2>2. CASE ~(Returns("pending") \/ Returns("done"))
    BY <1>0, <1>7, <2>2 DEF Drains, PassType, memory, told, caps, RowLocked, GenMoves, Deciding
  <2>. QED BY <2>1, <2>2
<1>8. CASE Summarizes
  <2>1. CASE pass' = [pass EXCEPT !.pc = "committing", !.text = TRUE]
             \/ pass' = [pass EXCEPT !.pc = "entering", !.text = FALSE]
    BY <1>0, <1>8, <2>1 DEF Summarizes, PassType, memory, told, RowLocked, GenMoves, RowInv, Deciding
  <2>2. CASE Returns("pending") \/ Returns("dead")
    BY <1>8, <2>2, ReturnsGen DEF Summarizes, memory, told, RowLocked
  <2>. QED BY <1>8, <2>1, <2>2 DEF Summarizes
<1>9. CASE EntersRewrite
  <2>1. CASE TurnOwns
    BY <1>9, <2>1, ReturnsGen DEF EntersRewrite, memory, told, caps, RowLocked
  <2>2. CASE ~TurnOwns
    BY <1>0, <1>9, <2>2 DEF EntersRewrite, PassType, memory, told, caps, RowLocked, GenMoves, RowInv, Deciding
  <2>. QED BY <2>1, <2>2
<1>10. CASE Cuts /\ (Returns("pending") \/ Returns("done"))
  BY <1>10, ReturnsGen DEF Cuts, memory, told, caps, RowLocked
<1>11. CASE Commits /\ ~(SameGeneration /\ ~Described)
  <2>1. CASE ~SameGeneration
    BY <1>11, <2>1, ReturnsGen DEF Commits, told, caps, RowLocked
  <2>2. CASE SameGeneration
    BY <1>0, <1>11, <2>2 DEF Commits, PassType, told, caps, RowLocked, GenMoves, RowInv, Deciding
  <2>. QED BY <2>1, <2>2
<1>12. CASE Rewrites
  BY <1>12, ReturnsGen DEF Rewrites, caps, RowLocked
<1>13. CASE Crash
  BY <1>13, ReturnsGen DEF Crash, memory, told, RowLocked
<1>14. CASE ResetClears
  <2>1. UNCHANGED <<gen, gens, pass, gone, summaries>> /\ clearing.pc = "checkpoint" /\ RowLocked
    BY <1>14 DEF ResetClears, told, RowLocked
  <2>2. \/ clearing' = [clearing EXCEPT !.pc = "commit", !.taken = ToSet(body)]
        \/ clearing' = IdleReset
    BY <1>14 DEF ResetClears
  <2>3. RowLocked' => clearing'.upto = clearing.upto
    <3>1. CASE clearing' = [clearing EXCEPT !.pc = "commit", !.taken = ToSet(body)]
      <4>1. "upto" \in DOMAIN clearing
        BY <1>0 DEF ResetType
      <4>. QED BY <3>1, <4>1
    <3>2. CASE clearing' = IdleReset
      BY <3>2 DEF RowLocked, IdleReset
    <3>. QED BY <2>2, <3>1, <3>2
  <2>. QED BY <2>1, <2>3, SameGen
<1>15. CASE ResetCancels
  BY <1>15, SameGen DEF ResetCancels, IdleReset, memory, told, caps, RowLocked
<1>. QED BY <1>1, <1>2, <1>3, <1>4, <1>5, <1>6, <1>7, <1>8, <1>9, <1>10, <1>11, <1>12, <1>13, <1>14,
            <1>15
         DEF TurnStep

LEMMA NextMoves ==
    ASSUME IInv, Next, ~ResetCommits, ~(Commits /\ SameGeneration /\ ~Described),
           ~(Cuts /\ ~(Returns("pending") \/ Returns("done")))
    PROVE  LiveMoves /\ StandsMoves
<1>1. TypeOK'
  BY NextTyped
<1>2. CASE \E c \in Convs : SaysToIngest(c) \/ \E at \in TurnsAt : SaysToTurn(c, at)
  BY <1>1, <1>2, SaysKeeps
<1>3. CASE TurnLoads \/ TurnSaves \/ Ingests
  BY <1>1, <1>3, TurnLoadsKeeps, TurnSavesKeeps, IngestsKeeps
<1>4. CASE Cuts
  BY <1>1, <1>4, QuietSteps, QuietKeeps
<1>5. CASE Commits
  BY <1>1, <1>5, QuietSteps, QuietKeeps
<1>6. CASE Rewrites
  BY <1>1, <1>6, RewriteKeeps, QuietSteps, QuietKeeps
<1>7. CASE ResetClears
  <2>1. CASE clearing' = IdleReset /\ UNCHANGED <<body, head>>
    BY <1>1, <1>7, <2>1, QuietSteps, QuietKeeps DEF ResetClears
  <2>2. CASE body' = <<>> /\ head' = 0 /\ clearing' = [clearing EXCEPT !.pc = "commit", !.taken = ToSet(body)]
    BY <1>1, <1>7, <2>2, ResetClearsKeeps DEF ResetClears, told
  <2>. QED BY <1>7, <2>1, <2>2 DEF ResetClears
<1>8. CASE \/ \E c \in Convs : Resolves(c)
           \/ TurnClaims \/ CompactionClaims \/ Loads \/ Drains \/ Summarizes \/ EntersRewrite
           \/ Crash \/ ResetCancels
  BY <1>1, <1>8, QuietSteps, QuietKeeps
<1>9. CASE ResetStarts
  BY <1>1, <1>9, ResetStartsKeeps
<1>. QED BY <1>2, <1>3, <1>4, <1>5, <1>6, <1>7, <1>8, <1>9 DEF Next, TurnStep, Compacts, ResetStep

\* A cut that folds: the fold is a front of the body.
LEMMA CutViews ==
    ASSUME RInv, Cuts, ~(Returns("pending") \/ Returns("done"))
    PROVE  /\ UNCHANGED <<stampOf, queued, body, summaries, turning, clearing, gone, gen, gens>>
           /\ Folded' \subseteq ToSet(body) /\ ~TurnOwns /\ pass'.gen = pass.gen
           /\ pass'.pc = "summarizing" /\ RowInv'
<1>1. PICK n, c, b :
             /\ n \in 1..Len(body) /\ pass.pc = "reading" /\ ~TurnOwns
             /\ pass' = [pass EXCEPT !.pc = "summarizing", !.head = head, !.fold = SubSeq(body, 1, n),
                                     !.more = b, !.seg = c]
  BY CutShape DEF RInv, IInv
<1>2. body \in Seq(Msgs) /\ pass \in PassType /\ n \in 0..Len(body)
  BY <1>1, SeqFacts DEF RInv, IInv, TypeOK
<1>3. ToSet(SubSeq(body, 1, n)) \subseteq ToSet(body)
  BY <1>2, FrontFacts
<1>4. pass'.gen = pass.gen /\ pass'.pc = "summarizing" /\ Folded' \subseteq ToSet(body)
  BY <1>1, <1>2, <1>3 DEF PassType, Folded
<1>5. UNCHANGED <<stampOf, queued, body, summaries, turning, clearing, gone, gen, gens>>
  BY DEF Cuts, memory, told, caps
<1>. QED BY <1>1, <1>4, <1>5 DEF RInv, RowInv

\* The commit that writes.
LEMMA CommitViews ==
    ASSUME RInv, Commits, SameGeneration, ~Described
    PROVE  /\ UNCHANGED <<stampOf, queued, body, turning, clearing, gone, gen, gens>>
           /\ pass.pc = "committing" /\ SectionFree /\ gen = pass.gen
           /\ pass'.pc = "entering" /\ pass'.gen = pass.gen /\ RowInv'
           /\ \E r \in SummaryType : /\ summaries' = Append(summaries, r)
                                     /\ r.covers = Folded /\ r.last = Last(pass.fold)
<1>1. /\ pass.pc = "committing" /\ pass' = [pass EXCEPT !.pc = "entering"]
      /\ SectionFree /\ gen = pass.gen
      /\ summaries' = Append(summaries, [conv |-> pass.seg, last |-> Last(pass.fold),
                                         covers |-> ToSet(pass.fold)])
      /\ UNCHANGED <<stampOf, queued, body, turning, gone, gen, gens, clearing>>
  BY DEF Commits, told, caps, SameGeneration
<1>2. /\ pass.fold \in Seq(Msgs) /\ pass.fold # <<>> /\ pass.seg \in {0} \cup Convs /\ pass \in PassType
  BY <1>1 DEF RInv, IInv, TypeOK, PassType, FoldInv, Early
<1>. DEFINE r == [conv |-> pass.seg, last |-> Last(pass.fold), covers |-> ToSet(pass.fold)]
<1>3. r \in SummaryType /\ r.covers = Folded /\ r.last = Last(pass.fold) /\ summaries' = Append(summaries, r)
  BY <1>1, <1>2, SeqFacts DEF SummaryType, Folded
<1>. HIDE DEF r
<1>4. pass'.pc = "entering" /\ pass'.gen = pass.gen
  BY <1>1, <1>2 DEF PassType
<1>5. RowInv'
  BY <1>1, <1>4 DEF RInv, RowInv
<1>. QED BY <1>1, <1>3, <1>4, <1>5

LEMMA NextRow == RInv /\ Next => RInv'
<1>. SUFFICES ASSUME RInv, Next PROVE RInv'
  OBVIOUS
<1>1. IInv' /\ TypeOK'
  BY NextKeeps, NextTyped DEF RInv
<1>2. CASE ResetStarts
  BY <1>1, <1>2 DEF ResetStarts, memory, RInv, RowInv
<1>3. CASE ResetCommits
  <2>1. gens \in Nat
    BY DEF RInv, IInv, TypeOK
  <2>. QED BY <1>1, <1>3, <2>1 DEF ResetCommits, RInv, RowInv
<1>4. CASE Commits /\ SameGeneration /\ ~Described
  BY <1>1, <1>4, CommitViews DEF RInv
<1>5. CASE Cuts /\ ~(Returns("pending") \/ Returns("done"))
  BY <1>1, <1>5, CutViews DEF RInv
<1>6. CASE /\ ~ResetStarts /\ ~ResetCommits /\ ~(Commits /\ SameGeneration /\ ~Described)
           /\ ~(Cuts /\ ~(Returns("pending") \/ Returns("done")))
  BY <1>1, <1>6, OthersGen, GenMovesKeep DEF Next, Compacts, ResetStep, RInv
<1>. QED BY <1>2, <1>3, <1>4, <1>5, <1>6

LEMMA InitRow == Init => RInv
  BY InitIInv DEF Init, RInv, RowInv, IdlePass

LEMMA StutterRow == RInv /\ UNCHANGED vars => RInv'
<1>1. UNCHANGED vars => UNCHANGED <<gen, gens, pass>>
  BY DEF vars, memory, caps
<1>. QED BY <1>1, StutterKeeps DEF RInv, RowInv

-----------------------------------------------------------------------------
(* What a reset cleared                                                     *)

ClearInv == gone \cap Live = {}

\* A run that decides of the row that is still there folds nothing that was cleared.
FenceInv == Deciding /\ gen = pass.gen => Folded \cap gone = {}

\* Under a reset in the leader's section no row is written.
UptoInv == RowLocked => clearing.upto = Len(summaries)

CInv == RInv /\ ClearInv /\ FenceInv /\ UptoInv

LEMMA OthersClear ==
    ASSUME CInv, LiveMoves, DecidesOn, gone' = gone,
           RowLocked' => RowLocked /\ clearing'.upto = clearing.upto /\ summaries' = summaries
    PROVE  ClearInv' /\ FenceInv' /\ UptoInv'
<1>1. ClearInv'
  <2>1. gone \subseteq DOMAIN stampOf
    BY DEF CInv, RInv, IInv, SaidInv
  <2>. QED BY <2>1 DEF CInv, ClearInv, LiveMoves
<1>2. FenceInv'
  BY DEF CInv, FenceInv, DecidesOn, Folded
<1>3. UptoInv'
  BY DEF CInv, UptoInv
<1>. QED BY <1>1, <1>2, <1>3

LEMMA CutClears ==
    ASSUME CInv, LiveMoves, Cuts, ~(Returns("pending") \/ Returns("done"))
    PROVE  ClearInv' /\ FenceInv' /\ UptoInv'
<1>1. /\ UNCHANGED <<stampOf, gone, clearing, summaries>> /\ Folded' \subseteq ToSet(body)
      /\ gone \subseteq DOMAIN stampOf
  BY CutViews DEF CInv, RInv, IInv, SaidInv
<1>2. ClearInv'
  BY <1>1 DEF CInv, ClearInv, LiveMoves
<1>3. FenceInv'
  BY <1>1 DEF CInv, ClearInv, FenceInv, Live
<1>4. UptoInv'
  BY <1>1 DEF CInv, UptoInv, RowLocked
<1>. QED BY <1>2, <1>3, <1>4

\* The fence: a run of the same generation writes nothing that was cleared, and no reset is open.
LEMMA CommitClears ==
    ASSUME CInv, ResetAt = "leader", Commits, SameGeneration, ~Described
    PROVE  ClearInv' /\ FenceInv' /\ UptoInv'
<1>1. /\ UNCHANGED <<stampOf, queued, body, turning, clearing, gone, gen, gens>>
      /\ pass.pc = "committing" /\ SectionFree /\ gen = pass.gen /\ pass'.pc = "entering"
  BY CommitViews DEF CInv
<1>2. PICK r \in SummaryType : summaries' = Append(summaries, r) /\ r.covers = Folded
  BY CommitViews DEF CInv
<1>3. Covered' = Covered \cup Folded
  <2>1. summaries \in Seq(SummaryType)
    BY DEF CInv, RInv, IInv, TypeOK
  <2>. QED BY <1>2, <2>1, SummariesAppend, CoveredIsCovers
<1>4. Folded \cap gone = {} /\ ~RowLocked
  BY <1>1 DEF CInv, FenceInv, Deciding, SectionFree
<1>5. Live' = Live \cup Folded
  BY <1>1, <1>3 DEF Live, Waiting, Loaded
<1>6. ClearInv'
  BY <1>1, <1>4, <1>5 DEF CInv, ClearInv
<1>. QED BY <1>1, <1>4, <1>6 DEF FenceInv, UptoInv, Deciding, RowLocked

LEMMA ResetStartsClears ==
    ASSUME CInv, ResetStarts
    PROVE  ClearInv' /\ FenceInv' /\ UptoInv'
<1>1. /\ UNCHANGED <<queued, body, summaries, pass, gen, gens>>
      /\ ~TurnOwns /\ clearing'.upto = Len(summaries)
      /\ turning' = IF turning.pc = "wanted" THEN IdleTurn ELSE turning
      /\ gone' = IF turning.pc = "wanted" THEN gone \cup {turning.msg} ELSE gone
  BY DEF ResetStarts, memory
<1>2. turning.pc \in {"idle", "wanted"} /\ turning'.pc = "idle"
  BY <1>1 DEF CInv, RInv, IInv, TypeOK, TurnType, TurnOwns, IdleTurn
<1>3. Live' = queued \cup ToSet(body) \cup Covered /\ Live' \subseteq Live
  BY <1>1, <1>2 DEF Live, Waiting, Loaded, Covered
<1>4. ASSUME turning.pc = "wanted" PROVE turning.msg \notin Live' /\ turning.msg \notin Folded
  <2>1. turning.msg \in Waiting /\ turning.msg \notin queued
    BY <1>4 DEF Waiting, CInv, RInv, IInv, FreshInv
  <2>2. turning.msg \notin Placed
    BY <2>1 DEF CInv, RInv, IInv, FreshInv
  <2>. QED BY <1>3, <2>1, <2>2 DEF Placed
<1>5. ClearInv'
  BY <1>1, <1>3, <1>4 DEF CInv, ClearInv
<1>6. FenceInv'
  <2>1. Folded' = Folded /\ (Deciding' <=> Deciding)
    BY <1>1 DEF Folded, Deciding
  <2>2. Deciding /\ gen = pass.gen => Folded \cap gone' = {}
    BY <1>1, <1>4 DEF CInv, FenceInv
  <2>. QED BY <1>1, <2>1, <2>2 DEF FenceInv
<1>7. UptoInv'
  BY <1>1 DEF UptoInv
<1>. QED BY <1>5, <1>6, <1>7

\* How a reset commits, or fails to.
LEMMA ResetCommitsViews ==
    ASSUME RInv, ResetCommits
    PROVE  /\ clearing.pc = "commit" /\ RowLocked /\ ~RowLocked' /\ ~TurnOwns
           /\ UNCHANGED <<body, pass, turning, gens>> /\ body = <<>>
           /\ summaries \in Seq(SummaryType) /\ clearing.upto \in 0..Len(summaries)
           /\ \/ /\ queued' = queued \ clearing.revoked /\ gen' = 0
                 /\ summaries' = SubSeq(summaries, clearing.upto + 1, Len(summaries))
                 /\ gone' = gone \cup clearing.revoked \cup clearing.taken
                        \cup UNION {summaries[i].covers : i \in 1..clearing.upto}
              \/ UNCHANGED <<queued, summaries, gone, gen>>
<1>1. RowLocked /\ ~RowLocked' /\ body = <<>> /\ ~TurnOwns /\ clearing.upto <= Len(summaries)
  BY DEF ResetCommits, RInv, IInv, LockInv, RowLocked, IdleReset
<1>2. summaries \in Seq(SummaryType) /\ clearing.upto \in 0..Len(summaries)
  BY <1>1, SeqFacts DEF RInv, IInv, TypeOK, ResetType
<1>. QED BY <1>1, <1>2 DEF ResetCommits

\* What the commit takes away with the rows is nowhere raw; and a run that read them is of a row
\* that is gone.
LEMMA ResetCommitsClears ==
    ASSUME CInv, ResetCommits
    PROVE  ClearInv' /\ FenceInv' /\ UptoInv'
<1>. DEFINE u == UNION {summaries[i].covers : i \in 1..clearing.upto}
            r == SubSeq(summaries, clearing.upto + 1, Len(summaries))
<1>1. /\ clearing.pc = "commit" /\ RowLocked /\ ~RowLocked' /\ ~TurnOwns
      /\ UNCHANGED <<body, pass, turning, gens>> /\ body = <<>>
      /\ summaries \in Seq(SummaryType) /\ clearing.upto = Len(summaries)
      /\ \/ /\ queued' = queued \ clearing.revoked /\ summaries' = r /\ gen' = 0
            /\ gone' = gone \cup clearing.revoked \cup clearing.taken \cup u
         \/ UNCHANGED <<queued, summaries, gone, gen>>
  BY ResetCommitsViews DEF CInv, UptoInv
<1>2. Len(summaries) \in Nat /\ Len(summaries) \in 0..Len(summaries)
  BY <1>1, SeqFacts
<1>3. r = <<>> /\ CoversOf(summaries) = CoversOf(r) \cup u
  <2>1. CoversOf(summaries) = CoversOf(r) \cup u
    BY <1>1, <1>2, SummariesRest
  <2>2. Len(r) = 0 /\ r \in Seq(SummaryType)
    BY <1>1, <1>2, RestFacts
  <2>. QED BY <2>1, <2>2, EmptySeq
<1>4. CoversOf(<<>>) = {}
  BY EmptySeq DEF CoversOf
<1>. HIDE DEF u, r
<1>5. CASE UNCHANGED <<queued, summaries, gone, gen>>
  <2>1. Live' = Live /\ Folded' = Folded /\ (Deciding' <=> Deciding)
    BY <1>1, <1>5 DEF Live, Waiting, Loaded, Covered, Folded, Deciding
  <2>2. ClearInv'
    BY <1>5, <2>1 DEF CInv, ClearInv
  <2>3. FenceInv'
    BY <1>1, <1>5, <2>1 DEF CInv, FenceInv
  <2>. QED BY <1>1, <2>2, <2>3 DEF UptoInv
<1>6. CASE /\ queued' = queued \ clearing.revoked /\ summaries' = r /\ gen' = 0
           /\ gone' = gone \cup clearing.revoked \cup clearing.taken \cup u
  <2>1. Live' = Waiting'
    BY <1>1, <1>3, <1>4, <1>6, EmptyFacts, CoveredIsCovers DEF Live, Loaded, TurnOwns
  <2>2. Waiting' \subseteq Waiting /\ Waiting' \cap clearing.revoked = {}
    BY <1>1, <1>6 DEF Waiting, CInv, RInv, IInv, FreshInv, LockInv
  <2>3. u \subseteq Placed /\ clearing.taken \subseteq Placed
    BY <1>3, CoveredIsCovers DEF Placed
  <2>4. Waiting \cap Placed = {} /\ gone \cap Waiting = {}
    BY DEF CInv, RInv, IInv, FreshInv, ClearInv, Live
  <2>5. ClearInv'
    BY <1>6, <2>1, <2>2, <2>3, <2>4 DEF ClearInv
  <2>6. FenceInv'
    BY <1>1, <1>6 DEF CInv, RInv, RowInv, FenceInv, Deciding
  <2>. QED BY <1>1, <2>5, <2>6 DEF UptoInv
<1>. QED BY <1>1, <1>5, <1>6

LEMMA NextClears ==
    ASSUME CInv, Next, ResetAt = "leader"
    PROVE  CInv'
<1>1. RInv' /\ TypeOK'
  BY NextRow, NextTyped DEF CInv, RInv
<1>2. CASE ResetStarts \/ ResetCommits
  BY <1>1, <1>2, ResetStartsClears, ResetCommitsClears DEF CInv
<1>3. CASE Commits /\ SameGeneration /\ ~Described
  BY <1>1, <1>3, CommitClears DEF CInv
<1>4. CASE Cuts /\ ~(Returns("pending") \/ Returns("done"))
  BY <1>1, <1>4, CutKeeps, CutClears DEF CInv, RInv
<1>5. CASE /\ ~ResetStarts /\ ~ResetCommits /\ ~(Commits /\ SameGeneration /\ ~Described)
           /\ ~(Cuts /\ ~(Returns("pending") \/ Returns("done")))
  <2>1. LiveMoves
    BY <1>5, NextMoves DEF CInv, RInv
  <2>2. /\ GenMoves /\ gone' = gone
        /\ Deciding' => Deciding /\ UNCHANGED <<pass.fold, pass.gen, pass.seg>>
        /\ RowLocked' => RowLocked /\ clearing'.upto = clearing.upto /\ summaries' = summaries
    BY <1>5, OthersGen DEF CInv, Next, Compacts, ResetStep
  <2>3. DecidesOn
    BY <1>1, <2>2, GenMovesKeep DEF CInv
  <2>. QED BY <1>1, <2>1, <2>2, <2>3, OthersClear DEF CInv
<1>. QED BY <1>2, <1>3, <1>4, <1>5

\* What a /reset said is cleared stays out of the thread, its queue, its turns and its summaries,
\* when resets run where the compaction does: the generation of the row is the fence of a model call
\* that was under way, and the section keeps a row from being written between the reset's read of
\* the summaries and its commit.  A /reset of a replica has no part in that section.
THEOREM ClearedStaysOut ==
    ASSUME ResetAt = "leader"
    PROVE  Spec => []ClearedStaysForgotten
<1>1. Init => CInv
  <2>. SUFFICES ASSUME Init PROVE CInv
    OBVIOUS
  <2>1. gone = {} /\ pass.pc = "idle" /\ ~RowLocked
    BY DEF Init, IdlePass, IdleReset, RowLocked
  <2>. QED BY <2>1, InitRow DEF CInv, ClearInv, FenceInv, UptoInv, Deciding
<1>2. CInv /\ UNCHANGED vars => CInv'
  <2>. SUFFICES ASSUME CInv, UNCHANGED vars PROVE CInv'
    OBVIOUS
  <2>1. RInv'
    BY StutterRow DEF CInv
  <2>2. UNCHANGED <<stampOf, queued, body, summaries, turning, gone, pass, clearing, gen>>
    BY DEF vars, memory, told
  <2>3. Live' = Live /\ Folded' = Folded /\ (Deciding' <=> Deciding) /\ (RowLocked' <=> RowLocked)
    BY <2>2 DEF Live, Waiting, Loaded, Covered, Folded, Deciding, RowLocked
  <2>. QED BY <2>1, <2>2, <2>3 DEF CInv, ClearInv, FenceInv, UptoInv
<1>3. CInv /\ Next => CInv'
  BY NextClears
<1>4. CInv => ClearedStaysForgotten
  BY DEF CInv, ClearInv, Live, Waiting, ClearedStaysForgotten
<1>. QED BY <1>1, <1>2, <1>3, <1>4, PTL DEF Spec

-----------------------------------------------------------------------------
(* No message is summarized twice, where the contact has one conversation.  *)
(* Then every cut is of all that is raw, or of what the newest summary      *)
(* already stands for.                                                      *)

\* Behind every message of C there stands the one that ends it.
EndsWith(s, C, last) == \A k \in DOMAIN s : s[k] \in C => \E j \in k..Len(s) : s[j] = last

\* What an older summary covers is nowhere raw; what the newest covers is raw only together with
\* its end, which is what the next cut compares.
ApartInv ==
    /\ SummarizedOnce
    /\ \A s \in Holders, i \in DOMAIN summaries :
          IF i = Len(summaries) THEN EndsWith(s, summaries[i].covers, summaries[i].last)
                                ELSE ToSet(s) \cap summaries[i].covers = {}

\* A run that will write a row folds what no summary covers, and its end is there with the rest.
NewInv ==
    Deciding /\ gen = pass.gen /\ ~Described =>
        /\ Covered \cap Folded = {}
        /\ \A s \in Holders : Covered \cap ToSet(s) = {} /\ EndsWith(s, Folded, Last(pass.fold))

OInv == RInv /\ ApartInv /\ NewInv

LEMMA EndsWithRest ==
    ASSUME NEW S, NEW s \in Seq(S), NEW n \in 0..Len(s), NEW C, NEW last, EndsWith(s, C, last)
    PROVE  EndsWith(SubSeq(s, n + 1, Len(s)), C, last)
<1>. DEFINE r == SubSeq(s, n + 1, Len(s))
<1>1. r \in Seq(S) /\ Len(r) = Len(s) - n /\ \A k \in 1..Len(s) - n : r[k] = s[n + k]
  BY RestFacts
<1>. HIDE DEF r
<1>2. Len(s) \in Nat /\ DOMAIN s = 1..Len(s) /\ DOMAIN r = 1..Len(s) - n
  BY <1>1, SeqFacts
<1>3. ASSUME NEW k \in DOMAIN r, r[k] \in C PROVE \E j \in k..Len(r) : r[j] = last
  <2>1. n + k \in DOMAIN s /\ s[n + k] \in C
    BY <1>1, <1>2, <1>3
  <2>2. PICK j \in n + k..Len(s) : s[j] = last
    BY <2>1 DEF EndsWith
  <2>3. j - n \in k..Len(r) /\ j - n \in 1..Len(s) - n /\ n + (j - n) = j
    BY <1>1, <1>2, <2>2
  <2>. QED BY <1>1, <2>2, <2>3
<1>. QED BY <1>3 DEF EndsWith, r

LEMMA EndsWithAppend ==
    ASSUME NEW S, NEW s \in Seq(S), NEW m \in S, NEW C, m \notin C, NEW last, EndsWith(s, C, last)
    PROVE  EndsWith(Append(s, m), C, last)
<1>. DEFINE a == Append(s, m)
<1>1. a \in Seq(S) /\ Len(a) = Len(s) + 1 /\ a[Len(s) + 1] = m /\ \A k \in 1..Len(s) : a[k] = s[k]
  BY AppendFacts
<1>. HIDE DEF a
<1>2. Len(s) \in Nat /\ DOMAIN s = 1..Len(s) /\ DOMAIN a = 1..Len(s) + 1
  BY <1>1, SeqFacts
<1>3. ASSUME NEW k \in DOMAIN a, a[k] \in C PROVE \E j \in k..Len(a) : a[j] = last
  <2>1. k \in DOMAIN s /\ s[k] \in C
    BY <1>1, <1>2, <1>3
  <2>2. PICK j \in k..Len(s) : s[j] = last
    BY <2>1 DEF EndsWith
  <2>. QED BY <1>1, <1>2, <2>1, <2>2
<1>. QED BY <1>3 DEF EndsWith, a

LEMMA EndsWithEmpty == ASSUME NEW C, NEW last PROVE EndsWith(<<>>, C, last)
  BY EmptySeq DEF EndsWith

LEMMA StandTyped == IInv => Holders \subseteq Seq(Msgs) /\ Waiting \subseteq Msgs
  BY DEF IInv, TypeOK, TurnType, Holders, Waiting

\* What held of all that stands, and of nothing that waits, holds of what stands then.
LEMMA EndsOn ==
    ASSUME IInv, StandsMoves, NEW C, NEW last, Waiting \cap C = {}, \A s \in Holders : EndsWith(s, C, last)
    PROVE  \A s \in Holders' : EndsWith(s, C, last)
<1>. SUFFICES ASSUME NEW s \in Holders' PROVE EndsWith(s, C, last)
  OBVIOUS
<1>1. CASE s \in Holders \/ s = <<>>
  BY <1>1, EndsWithEmpty
<1>2. ASSUME NEW t \in Holders, NEW n \in 0..Len(t), s = SubSeq(t, n + 1, Len(t))
      PROVE  EndsWith(s, C, last)
  BY <1>2, StandTyped, EndsWithRest
<1>3. ASSUME NEW t \in Holders, NEW m \in Waiting, s = Append(t, m) PROVE EndsWith(s, C, last)
  BY <1>3, StandTyped, EndsWithAppend
<1>. QED BY <1>1, <1>2, <1>3 DEF StandsMoves

LEMMA ApartOn ==
    ASSUME IInv, StandsMoves, NEW C, Waiting \cap C = {}, \A s \in Holders : ToSet(s) \cap C = {}
    PROVE  \A s \in Holders' : ToSet(s) \cap C = {}
<1>. SUFFICES ASSUME NEW s \in Holders' PROVE ToSet(s) \cap C = {}
  OBVIOUS
<1>1. CASE s \in Holders \/ s = <<>>
  BY <1>1, EmptyFacts
<1>2. ASSUME NEW t \in Holders, NEW n \in 0..Len(t), s = SubSeq(t, n + 1, Len(t))
      PROVE  ToSet(s) \cap C = {}
  <2>1. ToSet(s) \subseteq ToSet(t)
    BY <1>2, StandTyped, RestFacts
  <2>. QED BY <2>1
<1>3. ASSUME NEW t \in Holders, NEW m \in Waiting, s = Append(t, m) PROVE ToSet(s) \cap C = {}
  <2>1. ToSet(s) = ToSet(t) \cup {m}
    BY <1>3, StandTyped, AppendFacts
  <2>. QED BY <2>1
<1>. QED BY <1>1, <1>2, <1>3 DEF StandsMoves

LEMMA CoversCovered ==
    /\ \A i \in DOMAIN summaries : summaries[i].covers \subseteq Covered
    /\ \A m \in Covered : \E i \in DOMAIN summaries : m \in summaries[i].covers
  BY DEF Covered

LEMMA OthersApart ==
    ASSUME OInv, StandsMoves, DecidesOn, summaries' = summaries
    PROVE  ApartInv' /\ NewInv'
<1>0. IInv /\ Waiting \cap Placed = {}
  BY DEF OInv, RInv, IInv, FreshInv
<1>1. ApartInv'
  <2>1. SummarizedOnce'
    BY DEF OInv, ApartInv, SummarizedOnce
  <2>2. ASSUME NEW i \in DOMAIN summaries
        PROVE  \A s \in Holders' :
                  IF i = Len(summaries) THEN EndsWith(s, summaries[i].covers, summaries[i].last)
                                        ELSE ToSet(s) \cap summaries[i].covers = {}
    <3>1. Waiting \cap summaries[i].covers = {}
      BY <1>0, CoversCovered DEF Placed
    <3>2. CASE i = Len(summaries)
      <4>1. \A s \in Holders : EndsWith(s, summaries[i].covers, summaries[i].last)
        BY <3>2 DEF OInv, ApartInv
      <4>. QED BY <1>0, <3>1, <3>2, <4>1, EndsOn
    <3>3. CASE i # Len(summaries)
      <4>1. \A s \in Holders : ToSet(s) \cap summaries[i].covers = {}
        BY <3>3 DEF OInv, ApartInv
      <4>. QED BY <1>0, <3>1, <3>3, <4>1, ApartOn
    <3>. QED BY <3>2, <3>3
  <2>. QED BY <2>1, <2>2 DEF ApartInv
<1>2. NewInv'
  <2>. SUFFICES ASSUME Deciding', gen' = pass'.gen, ~Described'
                PROVE  /\ Covered' \cap Folded' = {}
                       /\ \A s \in Holders' : /\ Covered' \cap ToSet(s) = {}
                                              /\ EndsWith(s, Folded', Last(pass'.fold))
    BY DEF NewInv
  <2>1. Deciding /\ UNCHANGED <<pass.fold, pass.gen, pass.seg>> /\ gen = pass.gen
    BY DEF DecidesOn
  <2>2. ~Described /\ Covered' = Covered /\ Folded' = Folded
    BY <2>1 DEF Described, Covered, Folded
  <2>3. /\ Covered \cap Folded = {}
        /\ \A s \in Holders : Covered \cap ToSet(s) = {} /\ EndsWith(s, Folded, Last(pass.fold))
    BY <2>1, <2>2 DEF OInv, NewInv
  <2>4. Waiting \cap Covered = {} /\ Waiting \cap Folded = {}
    BY <1>0 DEF Placed
  <2>5. \A s \in Holders' : ToSet(s) \cap Covered = {}
    BY <1>0, <2>3, <2>4, ApartOn
  <2>6. \A s \in Holders' : EndsWith(s, Folded, Last(pass.fold))
    BY <1>0, <2>3, <2>4, EndsOn
  <2>. QED BY <2>1, <2>2, <2>3, <2>5, <2>6
<1>. QED BY <1>1, <1>2

\* With one conversation nothing in the thread is closed but all of it.
LEMMA AloneCut ==
    ASSUME IInv, \A c, d \in Convs : c = d, NEW whole \in BOOLEAN
    PROVE  NaturalCut(whole) \in {0, Len(body)}
<1>1. /\ body \in Seq(Msgs) /\ DOMAIN body = 1..Len(body) /\ Len(body) \in Nat
      /\ stampOf \in Seq(Convs) /\ ToSet(body) \subseteq DOMAIN stampOf
  BY SeqFacts DEF IInv, TypeOK, SaidInv, Placed
<1>2. ASSUME body # <<>> PROVE LastRunFrom(body) = 1
  <2>1. \A i \in DOMAIN body : stampOf[body[i]] \in Convs
    BY <1>1, SeqFacts
  <2>2. stampOf[Last(body)] \in Convs
    BY <1>1, <1>2, SeqFacts
  <2>3. {i \in DOMAIN body : stampOf[body[i]] # stampOf[Last(body)]} = {}
    BY <2>1, <2>2
  <2>. QED BY <2>3 DEF LastRunFrom
<1>. QED BY <1>1, <1>2 DEF NaturalCut

\* A cut that folds is of what a row already describes, or of a thread the newest summary does
\* not end in, all of it.
LEMMA CutAlone ==
    ASSUME RInv, \A c, d \in Convs : c = d, Cuts, ~(Returns("pending") \/ Returns("done"))
    PROVE  \/ Described'
           \/ /\ pass'.fold = body /\ body # <<>>
              /\ summaries = <<>> \/ Last(summaries).last \notin ToSet(body)
<1>. DEFINE whole == ~pass.reopened /\ pass.reason = "resolved" /\ AttendanceIsCurrent
            natural == NaturalCut(whole)
            edge == OwedUpTo
            pending == edge > 0 /\ (pass.reopened \/ edge <= natural)
            upto == IF pending THEN edge ELSE IF pass.reopened THEN 0 ELSE natural
            c == IF pending THEN Last(summaries).conv ELSE stampOf[body[upto]]
            b == pending /\ natural > edge
<1>0. IInv /\ body \in Seq(Msgs) /\ summaries \in Seq(SummaryType) /\ pass \in PassType
      /\ Len(body) \in Nat
  BY SeqFacts DEF RInv, IInv, TypeOK
<1>1. /\ upto # 0 /\ summaries' = summaries
      /\ pass' = [pass EXCEPT !.pc = "summarizing", !.head = head,
                          !.fold = SubSeq(body, 1, upto), !.more = b, !.seg = c]
  BY DEF Cuts, memory
<1>2. natural \in {0, Len(body)} /\ edge \in 0..Len(body)
  <2>1. whole \in BOOLEAN
    OBVIOUS
  <2>. HIDE DEF whole
  <2>. QED BY <1>0, <2>1, AloneCut, OwedRange
<1>3. pass'.fold = SubSeq(body, 1, upto) /\ pass'.seg = c
  BY <1>0, <1>1 DEF PassType
<1>4. CASE pending
  <2>1. upto = edge /\ c = Last(summaries).conv /\ edge \in 1..Len(body)
    BY <1>2, <1>4
  <2>2. summaries # <<>> /\ Last(summaries).last \in ToSet(body)
    BY <2>1 DEF OwedUpTo
  <2>3. body[edge] = Last(summaries).last
    <3>1. \E i \in DOMAIN body : body[i] = Last(summaries).last
      BY <2>2 DEF ToSet
    <3>. QED BY <2>2, <3>1 DEF OwedUpTo
  <2>4. Last(pass'.fold) = Last(summaries).last
    <3>. HIDE DEF edge
    <3>1. LET f == SubSeq(body, 1, edge) IN f \in Seq(Msgs) /\ Len(f) = edge /\ f[edge] = body[edge]
      BY <1>0, <2>1, FrontFacts
    <3>2. Last(SubSeq(body, 1, edge)) = body[edge]
      BY <3>1 DEF Last
    <3>. QED BY <1>3, <2>1, <2>3, <3>2
  <2>5. Len(summaries) \in DOMAIN summaries /\ summaries[Len(summaries)] = Last(summaries)
    BY <1>0, <2>2, SeqFacts DEF Last
  <2>. HIDE DEF c, pending, upto, edge
  <2>. QED BY <1>1, <1>3, <2>1, <2>4, <2>5 DEF Described
<1>5. CASE ~pending
  <2>1. ~pass.reopened /\ upto = natural /\ natural = Len(body) /\ body # <<>>
    BY <1>0, <1>1, <1>2, <1>5, EmptySeq
  <2>2. edge = 0
    BY <1>2, <1>5, <2>1
  <2>3. summaries = <<>> \/ Last(summaries).last \notin ToSet(body)
    <3>. SUFFICES ASSUME summaries # <<>>, Last(summaries).last \in ToSet(body) PROVE FALSE
      OBVIOUS
    <3>1. \E i \in DOMAIN body : body[i] = Last(summaries).last
      BY DEF ToSet
    <3>2. OwedUpTo \in DOMAIN body
      BY <3>1 DEF OwedUpTo
    <3>. QED BY <1>0, <2>2, <3>2, SeqFacts
  <2>4. SubSeq(body, 1, Len(body)) = body
    BY <1>0, SubSeqFull
  <2>. HIDE DEF upto, natural, pending, edge
  <2>. QED BY <1>3, <2>1, <2>3, <2>4
<1>. QED BY <1>4, <1>5

LEMMA CutApart ==
    ASSUME OInv, \A c, d \in Convs : c = d, Cuts, ~(Returns("pending") \/ Returns("done"))
    PROVE  ApartInv' /\ NewInv'
<1>0. /\ body \in Seq(Msgs) /\ DOMAIN body = 1..Len(body) /\ Len(body) \in Nat
      /\ summaries \in Seq(SummaryType)
  BY SeqFacts DEF OInv, RInv, IInv, TypeOK
<1>1. UNCHANGED <<body, summaries, turning>> /\ ~TurnOwns
  BY CutViews DEF OInv
<1>2. Holders' = Holders /\ Holders = {body} /\ Covered' = Covered
  BY <1>1 DEF Holders, TurnOwns, Covered
<1>3. ApartInv'
  BY <1>1, <1>2 DEF OInv, ApartInv, SummarizedOnce
<1>4. ASSUME ~Described'
      PROVE  /\ Covered \cap Folded' = {} /\ Covered \cap ToSet(body) = {}
             /\ EndsWith(body, Folded', Last(pass'.fold))
  <2>1. /\ pass'.fold = body /\ body # <<>> /\ Folded' = ToSet(body)
        /\ summaries = <<>> \/ Last(summaries).last \notin ToSet(body)
    BY <1>4, CutAlone DEF OInv, Folded
  <2>2. ASSUME NEW i \in DOMAIN summaries PROVE summaries[i].covers \cap ToSet(body) = {}
    <3>1. CASE i # Len(summaries)
      BY <1>2, <3>1 DEF OInv, ApartInv
    <3>2. CASE i = Len(summaries)
      <4>1. summaries # <<>> /\ summaries[i] = Last(summaries)
        BY <1>0, <3>2, EmptySeq, SeqFacts DEF Last
      <4>2. EndsWith(body, summaries[i].covers, summaries[i].last)
        BY <1>2, <3>2 DEF OInv, ApartInv
      <4>3. \A j \in 1..Len(body) : body[j] # summaries[i].last
        BY <1>0, <2>1, <4>1, SeqFacts
      <4>4. \A k \in DOMAIN body : body[k] \notin summaries[i].covers
        BY <1>0, <4>2, <4>3 DEF EndsWith
      <4>. QED BY <4>4 DEF ToSet
    <3>. QED BY <3>1, <3>2
  <2>3. Covered \cap ToSet(body) = {}
    BY <2>2, CoversCovered
  <2>4. EndsWith(body, ToSet(body), Last(body))
    BY <1>0 DEF EndsWith, Last
  <2>. QED BY <2>1, <2>3, <2>4
<1>5. NewInv'
  BY <1>2, <1>4 DEF NewInv
<1>. QED BY <1>3, <1>5

LEMMA CommitApart ==
    ASSUME OInv, Commits, SameGeneration, ~Described
    PROVE  ApartInv' /\ NewInv'
<1>1. /\ UNCHANGED <<body, turning>> /\ pass.pc = "committing" /\ gen = pass.gen
      /\ pass'.pc = "entering"
  BY CommitViews DEF OInv
<1>2. PICK r \in SummaryType : /\ summaries' = Append(summaries, r)
                               /\ r.covers = Folded /\ r.last = Last(pass.fold)
  BY CommitViews DEF OInv
<1>3. /\ Covered \cap Folded = {}
      /\ \A s \in Holders : Covered \cap ToSet(s) = {} /\ EndsWith(s, Folded, Last(pass.fold))
  BY <1>1 DEF OInv, NewInv, Deciding
<1>4. Holders' = Holders
  BY <1>1 DEF Holders
<1>5. /\ Len(summaries) \in Nat /\ DOMAIN summaries = 1..Len(summaries)
      /\ Len(summaries') = Len(summaries) + 1 /\ DOMAIN summaries' = 1..Len(summaries) + 1
      /\ \A i \in DOMAIN summaries : summaries'[i] = summaries[i]
      /\ summaries'[Len(summaries) + 1] = r
  <2>1. summaries \in Seq(SummaryType)
    BY DEF OInv, RInv, IInv, TypeOK
  <2>. QED BY <1>2, <2>1, AppendFacts, SeqFacts
<1>6. \A i \in DOMAIN summaries' : i \in DOMAIN summaries \/ i = Len(summaries')
  BY <1>5
<1>7. SummarizedOnce'
  <2>. SUFFICES ASSUME NEW i \in DOMAIN summaries', NEW j \in DOMAIN summaries', i # j
                PROVE  summaries'[i].covers \cap summaries'[j].covers = {}
    BY DEF SummarizedOnce
  <2>1. CASE i \in DOMAIN summaries /\ j \in DOMAIN summaries
    BY <1>5, <2>1 DEF OInv, ApartInv, SummarizedOnce
  <2>2. CASE i \in DOMAIN summaries /\ j = Len(summaries')
    BY <1>2, <1>3, <1>5, <2>2, CoversCovered
  <2>3. CASE j \in DOMAIN summaries /\ i = Len(summaries')
    BY <1>2, <1>3, <1>5, <2>3, CoversCovered
  <2>. QED BY <1>6, <2>1, <2>2, <2>3
<1>8. ASSUME NEW s \in Holders, NEW i \in DOMAIN summaries'
      PROVE  IF i = Len(summaries')
             THEN EndsWith(s, summaries'[i].covers, summaries'[i].last)
             ELSE ToSet(s) \cap summaries'[i].covers = {}
  <2>1. CASE i = Len(summaries')
    BY <1>2, <1>3, <1>5, <2>1
  <2>2. CASE i # Len(summaries')
    BY <1>3, <1>5, <1>6, <2>2, CoversCovered
  <2>. QED BY <2>1, <2>2
<1>9. ApartInv'
  BY <1>4, <1>7, <1>8 DEF ApartInv
<1>. QED BY <1>1, <1>9 DEF NewInv, Deciding

LEMMA ResetCommitsApart ==
    ASSUME OInv, ResetCommits
    PROVE  ApartInv' /\ NewInv'
<1>1. /\ UNCHANGED <<body, pass, turning>> /\ summaries \in Seq(SummaryType)
      /\ clearing.upto \in 0..Len(summaries)
      /\ \/ gen' = 0 /\ summaries' = SubSeq(summaries, clearing.upto + 1, Len(summaries))
         \/ UNCHANGED <<summaries, gen>>
  BY ResetCommitsViews DEF OInv
<1>2. Holders' = Holders
  BY <1>1 DEF Holders
<1>3. CASE UNCHANGED <<summaries, gen>>
  BY <1>1, <1>2, <1>3
     DEF OInv, ApartInv, NewInv, SummarizedOnce, Deciding, Described, Covered, Folded
<1>4. CASE gen' = 0 /\ summaries' = SubSeq(summaries, clearing.upto + 1, Len(summaries))
  <2>. DEFINE n == clearing.upto
  <2>1. /\ summaries' \in Seq(SummaryType) /\ Len(summaries') = Len(summaries) - n
        /\ \A k \in 1..Len(summaries) - n : summaries'[k] = summaries[n + k]
    BY <1>1, <1>4, RestFacts
  <2>2. /\ n \in Nat /\ Len(summaries) \in Nat /\ n <= Len(summaries)
        /\ DOMAIN summaries = 1..Len(summaries) /\ DOMAIN summaries' = 1..Len(summaries) - n
    <3>1. DOMAIN summaries' = 1..Len(summaries')
      BY <2>1, SeqFacts
    <3>. QED BY <1>1, <2>1, <3>1, SeqFacts
  <2>. HIDE DEF n
  <2>3. \A k \in DOMAIN summaries' : /\ n + k \in DOMAIN summaries /\ k \in Nat
                                     /\ summaries'[k] = summaries[n + k]
                                     /\ k = Len(summaries') <=> n + k = Len(summaries)
    BY <2>1, <2>2
  <2>4. SummarizedOnce'
    <3>. SUFFICES ASSUME NEW i \in DOMAIN summaries', NEW j \in DOMAIN summaries', i # j
                  PROVE  summaries'[i].covers \cap summaries'[j].covers = {}
      BY DEF SummarizedOnce
    <3>1. n + i # n + j
      BY <2>2, <2>3
    <3>. QED BY <2>3, <3>1 DEF OInv, ApartInv, SummarizedOnce
  <2>5. ApartInv'
    BY <1>2, <2>3, <2>4 DEF OInv, ApartInv
  <2>6. NewInv'
    BY <1>1, <1>4 DEF OInv, RInv, RowInv, NewInv, Deciding
  <2>. QED BY <2>5, <2>6
<1>. QED BY <1>1, <1>3, <1>4

LEMMA NextApart ==
    ASSUME OInv, Next, \A c, d \in Convs : c = d
    PROVE  OInv'
<1>1. RInv' /\ TypeOK' /\ RInv /\ IInv
  BY NextRow, NextTyped DEF OInv, RInv
<1>2. CASE ResetCommits
  BY <1>1, <1>2, ResetCommitsApart DEF OInv
<1>3. CASE Commits /\ SameGeneration /\ ~Described
  BY <1>1, <1>3, CommitApart DEF OInv
<1>4. CASE Cuts /\ ~(Returns("pending") \/ Returns("done"))
  BY <1>1, <1>4, CutApart DEF OInv
<1>5. CASE /\ ~ResetCommits /\ ~(Commits /\ SameGeneration /\ ~Described)
           /\ ~(Cuts /\ ~(Returns("pending") \/ Returns("done")))
  <2>1. StandsMoves
    BY <1>1, <1>5, NextMoves
  <2>2. /\ GenMoves /\ summaries' = summaries
        /\ Deciding' => Deciding /\ UNCHANGED <<pass.fold, pass.gen, pass.seg>>
    <3>1. CASE ResetStarts
      <4>1. UNCHANGED <<gen, gens, pass, summaries>>
        BY <3>1 DEF ResetStarts, memory
      <4>. QED BY <1>1, <4>1, SameGen
    <3>2. CASE ~ResetStarts
      BY <1>5, <3>2, OthersGen DEF OInv, Next, Compacts, ResetStep
    <3>. QED BY <3>1, <3>2
  <2>3. DecidesOn
    BY <1>1, <2>2, GenMovesKeep
  <2>. QED BY <1>1, <2>1, <2>2, <2>3, OthersApart DEF OInv
<1>. QED BY <1>2, <1>3, <1>4, <1>5

\* Where the contact has one conversation, no message is part of two summaries, however often the
\* rewrite that follows a summary is put off, fails, dies or is undone by a turn (cut.ts: each
\* attendance is summarized once).  With two conversations it does not hold.
THEOREM SummarizedOnceAlone ==
    ASSUME \A c, d \in Convs : c = d
    PROVE  Spec => []SummarizedOnce
<1>1. Init => OInv
  <2>. SUFFICES ASSUME Init PROVE OInv
    OBVIOUS
  <2>1. summaries = <<>> /\ DOMAIN summaries = {} /\ pass.pc = "idle"
    BY EmptySeq DEF Init, IdlePass
  <2>. QED BY <2>1, InitRow DEF OInv, ApartInv, SummarizedOnce, NewInv, Deciding
<1>2. OInv /\ UNCHANGED vars => OInv'
  <2>. SUFFICES ASSUME OInv, UNCHANGED vars PROVE OInv'
    OBVIOUS
  <2>1. RInv'
    BY StutterRow DEF OInv
  <2>2. UNCHANGED <<body, summaries, turning, pass, gen>>
    BY DEF vars, memory
  <2>3. Holders' = Holders /\ Folded' = Folded /\ Covered' = Covered /\ (Deciding' <=> Deciding)
        /\ (Described' <=> Described) /\ (SummarizedOnce' <=> SummarizedOnce)
    BY <2>2 DEF Holders, Folded, Covered, Deciding, Described, SummarizedOnce
  <2>. QED BY <2>1, <2>2, <2>3 DEF OInv, ApartInv, NewInv
<1>3. OInv /\ Next => OInv'
  BY NextApart
<1>4. OInv => SummarizedOnce
  BY DEF OInv, ApartInv
<1>. QED BY <1>1, <1>2, <1>3, <1>4, PTL DEF Spec

-----------------------------------------------------------------------------
(* The rows of the same run: the reminder that a booking calls off. *)

\* The invariant of the instance whose rows move; the others leave the rows alone.
JobInv == /\ instance = "reminder" => Reminder!WInv
          /\ instance = "flush" => FlushJob!WInv

LEMMA JobInitially == UnionInit => JobInv
<1>1. ASSUME UnionInit PROVE FlushJob!Init /\ Reminder!Init
  BY <1>1 DEF UnionInit, FlushJob!Init, Reminder!Init, FlushJob!NoRow, Reminder!NoRow,
              FlushJob!Workers, Reminder!Workers, FlushJob!Lanes, Reminder!Lanes
<1>2. Reminder!Init => Reminder!WInv
  BY InstancesAssumption, Reminder!WInvInit DEF Reminder!LaneAssumption, Reminder!BoundAssumption
<1>3. FlushJob!Init => FlushJob!WInv
  BY InstancesAssumption, FlushJob!WInvInit DEF FlushJob!LaneAssumption, FlushJob!BoundAssumption
<1>. QED BY <1>1, <1>2, <1>3 DEF JobInv

\* A step of the run, seen by the rows.
LEMMA JobSteps ==
    ASSUME [UnionNext]_allVars
    PROVE  /\ instance' = instance
           /\ instance = "reminder" => [Reminder!Next]_(Reminder!vars)
           /\ instance = "flush" => [FlushJob!Next]_(FlushJob!vars)
           /\ instance \notin {"reminder", "flush"} => UNCHANGED rows
<1>. USE DEF UnionNext, allVars, jobVars
<1>1. instance' = instance
  OBVIOUS
<1>2. instance = "reminder" => [Reminder!Next]_(Reminder!vars)
  BY Zenon DEF Reminder!vars, Reminder!queueVars, Reminder!boundVars, Reminder!historyVars
<1>3. instance = "flush" => [FlushJob!Next]_(FlushJob!vars)
  BY Zenon DEF FlushJob!vars, FlushJob!queueVars, FlushJob!boundVars, FlushJob!historyVars
<1>4. instance \notin {"reminder", "flush"} => UNCHANGED rows
  BY Zenon
<1>. QED BY <1>1, <1>2, <1>3, <1>4

LEMMA JobInductive == JobInv /\ [UnionNext]_allVars => JobInv'
<1>. SUFFICES ASSUME JobInv, [UnionNext]_allVars PROVE JobInv'
  OBVIOUS
<1>1. ASSUME instance = "reminder" PROVE Reminder!WInv'
  BY <1>1, JobSteps, InstancesAssumption, Reminder!WInvStep
  DEF JobInv, Reminder!LaneAssumption, Reminder!BoundAssumption
<1>2. ASSUME instance = "flush" PROVE FlushJob!WInv'
  BY <1>2, JobSteps, InstancesAssumption, FlushJob!WInvStep
  DEF JobInv, FlushJob!LaneAssumption, FlushJob!BoundAssumption
<1>. QED BY <1>1, <1>2, JobSteps DEF JobInv

\* An appointment reminder that a cancel or a re-stated booking overtakes while its handler runs
\* keeps its tombstone until it is armed for other work: the handler's own reschedule does not
\* take it off (service.ts, appointments/service.ts).
THEOREM RemindersStayCalledOff == UnionSpec => TombstoneLeavesWithNewWork
<1>. DEFINE Leaves ==
        \A k \in {job} :
            /\ rows[k].cancelled /\ ~rows'[k].cancelled
            /\ rows'[k].id = rows[k].id /\ rows'[k].status # "ABSENT"
            => rows'[k].work # rows[k].work
<1>1. JobInv /\ [UnionNext]_allVars => [Leaves]_(Reminder!vars)
  <2>. SUFFICES ASSUME JobInv, [UnionNext]_allVars,
                       rows[job].cancelled, ~rows'[job].cancelled, rows'[job].id = rows[job].id,
                       rows'[job].status # "ABSENT"
                PROVE  rows'[job].work # rows[job].work
    OBVIOUS
  <2>1. CASE instance = "reminder"
    BY <2>1, JobSteps, InstancesAssumption, Reminder!TombstoneStep
    DEF JobInv, Reminder!LaneAssumption, Reminder!BoundAssumption
  <2>2. CASE instance = "flush"
    BY <2>2, JobSteps, InstancesAssumption, FlushJob!TombstoneStep
    DEF JobInv, FlushJob!LaneAssumption, FlushJob!BoundAssumption
  <2>3. CASE instance \notin {"reminder", "flush"}
    BY <2>3, JobSteps
  <2>. QED BY <2>1, <2>2, <2>3
<1>2. [][Leaves]_(Reminder!vars) => TombstoneLeavesWithNewWork
  BY PTL DEF TombstoneLeavesWithNewWork, Reminder!TombstoneLeavesWithNewWork
<1>. QED BY <1>1, <1>2, JobInitially, JobInductive, PTL DEF UnionSpec

=============================================================================
