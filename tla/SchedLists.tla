----------------------------- MODULE SchedLists -----------------------------
(***************************************************************************)
(* What the list operations of module Sched return, for lists of any       *)
(* length: the facts the invariance proofs cite.                           *)
(***************************************************************************)
EXTENDS Sched, TLAPS, WellFoundedInduction

\* A non-empty set of natural numbers has a least element.
LEMMA LeastNatural ==
    ASSUME NEW S \in SUBSET Nat, S # {}
    PROVE  \E n \in S : \A m \in S : n <= m
<1>1. PICK n \in S : \A m \in S : ~(<<m, n>> \in OpToRel(<, Nat))
  BY NatLessThanWellFounded, WFMin
<1>2. ASSUME NEW m \in S
      PROVE  n <= m
  <2>1. ~(m < n)
    BY <1>1 DEF OpToRel
  <2> QED
    BY <2>1
<1> QED
  BY <1>2

\* The elements of a list are of the type of the list; its head is one.
LEMMA ListElements ==
    ASSUME NEW T, NEW list \in Seq(T)
    PROVE  /\ Range(list) \subseteq T
           /\ list # <<>> => Head(list) \in Range(list)
           /\ list # <<>> => Last(list) \in Range(list)
           /\ list = <<>> <=> Range(list) = {}
<1>1. Range(list) \subseteq T
  BY DEF Range
<1>2. ASSUME list # <<>>
      PROVE  Head(list) \in Range(list) /\ Last(list) \in Range(list)
  <2>1. Len(list) \in Nat /\ 1 \in DOMAIN list /\ Len(list) \in DOMAIN list
    BY <1>2
  <2>2. Head(list) = list[1] /\ Last(list) = list[Len(list)]
    BY <1>2 DEF Last
  <2> QED
    BY <2>1, <2>2 DEF Range
<1>3. Range(<<>>) = {}
  BY DEF Range
<1> QED
  BY <1>1, <1>2, <1>3

\* The elements of a part of a sequence.
LEMMA SubSeqElements ==
    ASSUME NEW T, NEW s \in Seq(T),
           NEW m \in 1..(Len(s) + 1), NEW n \in 0..Len(s), m <= n + 1
    PROVE  /\ SubSeq(s, m, n) \in Seq(T)
           /\ Len(SubSeq(s, m, n)) = n - m + 1
           /\ \A j \in 1..(n - m + 1) : SubSeq(s, m, n)[j] = s[m + j - 1]
OBVIOUS

\* The elements of the concatenation of two sequences.
LEMMA ConcatElements ==
    ASSUME NEW T, NEW s \in Seq(T), NEW t \in Seq(T)
    PROVE  /\ s \o t \in Seq(T)
           /\ Len(s \o t) = Len(s) + Len(t)
           /\ \A j \in 1..Len(s) : (s \o t)[j] = s[j]
           /\ \A j \in (Len(s) + 1)..(Len(s) + Len(t)) : (s \o t)[j] = t[j - Len(s)]
OBVIOUS

\* RemoveAt moves what follows position i one place down.
LEMMA RemoveAtElements ==
    ASSUME NEW T, NEW s \in Seq(T), NEW i \in 1..Len(s)
    PROVE  /\ RemoveAt(s, i) \in Seq(T)
           /\ Len(RemoveAt(s, i)) = Len(s) - 1
           /\ \A j \in 1..(i - 1) : RemoveAt(s, i)[j] = s[j]
           /\ \A j \in i..(Len(s) - 1) : RemoveAt(s, i)[j] = s[j + 1]
<1> DEFINE a == SubSeq(s, 1, i - 1)
           b == SubSeq(s, i + 1, Len(s))
<1>1. a \in Seq(T) /\ Len(a) = i - 1
  BY SubSeqElements
<1>2. \A j \in 1..(i - 1) : a[j] = s[j]
  BY SubSeqElements
<1>3. b \in Seq(T) /\ Len(b) = Len(s) - i
  BY SubSeqElements
<1>4. \A j \in 1..(Len(s) - i) : b[j] = s[i + j]
  BY SubSeqElements
<1>5. RemoveAt(s, i) = a \o b
  BY DEF RemoveAt
<1> HIDE DEF a, b
<1>6. /\ a \o b \in Seq(T)
      /\ Len(a \o b) = Len(s) - 1
      /\ \A j \in 1..(i - 1) : (a \o b)[j] = a[j]
      /\ \A j \in i..(Len(s) - 1) : (a \o b)[j] = b[j - (i - 1)]
  BY <1>1, <1>3
<1>7. ASSUME NEW j \in i..(Len(s) - 1)
      PROVE  (a \o b)[j] = s[j + 1]
  <2>1. b[j - (i - 1)] = s[i + (j - (i - 1))]
    BY <1>4
  <2> QED
    BY <2>1, <1>6
<1> QED
  BY <1>2, <1>5, <1>6, <1>7

\* r is s with e at position i and what was there, and after it, one place up.
Inserted(T, r, s, i, e) ==
    /\ r \in Seq(T)
    /\ Len(r) = Len(s) + 1
    /\ \A j \in 1..(i - 1) : r[j] = s[j]
    /\ r[i] = e
    /\ \A j \in (i + 1)..(Len(s) + 1) : r[j] = s[j - 1]

\* InsertAt inserts its third argument into the first.
LEMMA InsertAtElements ==
    ASSUME NEW T, NEW s \in Seq(T), NEW i \in 1..(Len(s) + 1), NEW e \in T
    PROVE  Inserted(T, InsertAt(s, i, e), s, i, e)
<1> DEFINE a == SubSeq(s, 1, i - 1)
           b == SubSeq(s, i, Len(s))
           c == a \o <<e>>
<1>1. a \in Seq(T) /\ Len(a) = i - 1
  BY SubSeqElements
<1>2. \A j \in 1..(i - 1) : a[j] = s[j]
  BY SubSeqElements
<1>3. b \in Seq(T) /\ Len(b) = Len(s) - i + 1
  BY SubSeqElements
<1>4. \A j \in 1..(Len(s) - i + 1) : b[j] = s[i + j - 1]
  BY SubSeqElements
<1>5. InsertAt(s, i, e) = c \o b
  BY DEF InsertAt
<1> HIDE DEF a, b
<1>6. c \in Seq(T) /\ Len(c) = i
  BY <1>1
<1>7. c[i] = e /\ \A j \in 1..(i - 1) : c[j] = a[j]
  BY <1>1
<1> HIDE DEF c
<1>8. /\ c \o b \in Seq(T)
      /\ Len(c \o b) = Len(c) + Len(b)
      /\ \A j \in 1..Len(c) : (c \o b)[j] = c[j]
      /\ \A j \in (Len(c) + 1)..(Len(c) + Len(b)) : (c \o b)[j] = b[j - Len(c)]
  <2>1. c \in Seq(T) /\ b \in Seq(T)
    BY <1>6, <1>3
  <2> QED
    BY <2>1, ConcatElements
<1>9. ASSUME NEW j \in (i + 1)..(Len(s) + 1)
      PROVE  (c \o b)[j] = s[j - 1]
  <2> DEFINE k == j - i
  <2>a. k \in 1..(Len(s) - i + 1) /\ i + k - 1 = j - 1
    OBVIOUS
  <2>b. b[k] = s[i + k - 1]
    BY <2>a, <1>4
  <2>1. b[j - i] = s[j - 1]
    BY <2>a, <2>b
  <2> QED
    BY <2>1, <1>3, <1>6, <1>8
<1> QED
  BY <1>2, <1>3, <1>5, <1>6, <1>7, <1>8, <1>9 DEF Inserted

----------------------------------------------------------------------------
\* dq_rem() takes one task out of a list and keeps the order of the others.
LEMMA DqRem ==
    ASSUME NEW T, NEW list \in Seq(T), IsInjective(list),
           NEW tcb \in Range(list)
    PROVE  /\ dq_rem(tcb, list) \in Seq(T)
           /\ Len(dq_rem(tcb, list)) = Len(list) - 1
           /\ IsInjective(dq_rem(tcb, list))
           /\ Range(dq_rem(tcb, list)) = Range(list) \ {tcb}
           /\ \A prio : Descending(list, prio) =>
                           Descending(dq_rem(tcb, list), prio)
           /\ Last(list) # tcb => Last(dq_rem(tcb, list)) = Last(list)
           /\ Head(list) # tcb => Head(dq_rem(tcb, list)) = Head(list)
           /\ Head(list) = tcb /\ Len(list) > 1 =>
                 Head(dq_rem(tcb, list)) = list[2]
<1> DEFINE i == CHOOSE k \in 1..Len(list) : list[k] = tcb
           r == RemoveAt(list, i)
<1>1. i \in 1..Len(list) /\ list[i] = tcb
  BY DEF Range
<1>2. dq_rem(tcb, list) = r
  BY DEF dq_rem
<1> HIDE DEF i
<1>3. /\ r \in Seq(T)
      /\ Len(r) = Len(list) - 1
      /\ \A j \in 1..(i - 1) : r[j] = list[j]
      /\ \A j \in i..(Len(list) - 1) : r[j] = list[j + 1]
  BY <1>1, RemoveAtElements, SMTT(30)
<1> HIDE DEF r
<1>4. \A j, k \in DOMAIN list : list[j] = list[k] => j = k
  BY DEF IsInjective
<1>5. DOMAIN list = 1..Len(list) /\ DOMAIN r = 1..(Len(list) - 1)
  BY <1>3
<1> DEFINE From(j) == IF j < i THEN j ELSE j + 1
<1>a. \A j \in 1..(Len(list) - 1) : From(j) \in 1..Len(list)
                                    /\ r[j] = list[From(j)]
  BY <1>1, <1>3
<1>b. \A j, k \in 1..(Len(list) - 1) : /\ j < k => From(j) < From(k)
                                       /\ From(j) = From(k) => j = k
  BY <1>1
<1> HIDE DEF From
<1>6. IsInjective(r)
  <2>1. SUFFICES ASSUME NEW j \in 1..(Len(list) - 1),
                        NEW k \in 1..(Len(list) - 1), r[j] = r[k]
                 PROVE  j = k
    BY <1>5 DEF IsInjective
  <2>2. From(j) = From(k)
    BY <2>1, <1>4, <1>5, <1>a
  <2> QED
    BY <2>2, <1>b
<1>7. Range(r) = Range(list) \ {tcb}
  <2>1. ASSUME NEW x \in Range(r)
        PROVE  x \in Range(list) \ {tcb}
    <3>1. PICK j \in 1..(Len(list) - 1) : r[j] = x
      BY <1>5 DEF Range
    <3>2. /\ From(j) \in DOMAIN list /\ x = list[From(j)]
          /\ From(j) # i
      BY <3>1, <1>1, <1>5, <1>a DEF From
    <3>3. x # list[i]
      BY <3>2, <1>1, <1>4, <1>5
    <3> QED
      BY <3>2, <3>3, <1>1 DEF Range
  <2>2. ASSUME NEW x \in Range(list), x # tcb
        PROVE  x \in Range(r)
    <3>1. PICK j \in 1..Len(list) : list[j] = x
      BY DEF Range
    <3>2. CASE j < i
      BY <3>1, <3>2, <1>1, <1>3, <1>5, SMTT(30) DEF Range
    <3>3. CASE j > i
      <4>1. j - 1 \in i..(Len(list) - 1) /\ (j - 1) + 1 = j
        BY <3>1, <3>3, <1>1
      <4>2. r[j - 1] = x
        BY <4>1, <3>1, <1>3
      <4> QED
        BY <4>1, <4>2, <1>1, <1>5 DEF Range
    <3> QED
      BY <3>1, <3>2, <3>3, <2>2, <1>1
  <2> QED
    BY <2>1, <2>2
<1>8. ASSUME NEW prio, Descending(list, prio)
      PROVE  Descending(r, prio)
  <2>1. SUFFICES ASSUME NEW j \in 1..(Len(list) - 1),
                        NEW k \in 1..(Len(list) - 1), j < k
                 PROVE  prio[r[j]] >= prio[r[k]]
    BY <1>3 DEF Descending
  <2>2. From(j) < From(k)
    BY <2>1, <1>b
  <2> QED
    BY <2>2, <1>8, <1>a DEF Descending
<1>9. Last(list) # tcb => Last(r) = Last(list)
  BY <1>1, <1>3 DEF Last
<1>10. /\ Head(list) # tcb => Head(r) = Head(list)
       /\ Head(list) = tcb /\ Len(list) > 1 => Head(r) = list[2]
  <2>1. Len(list) > 0 /\ Head(list) = list[1]
    BY <1>1
  <2>2. Len(r) > 0 => Head(r) = r[1]
    BY <1>3
  <2>3. list[1] # tcb => i > 1
    BY <1>1
  <2>4. list[1] = tcb => i = 1
    BY <1>1, <1>4, <1>5, <2>1
  <2> QED
    BY <2>1, <2>2, <2>3, <2>4, <1>1, <1>3
<1> QED
  BY <1>2, <1>3, <1>6, <1>7, <1>8, <1>9, <1>10

----------------------------------------------------------------------------
\* The search of sched_addprioritized() always finds a place.
LEMMA InsertionPointExists ==
    ASSUME NEW T, NEW list \in Seq(T), NEW tcb \in T, NEW prio,
           \A x \in T : prio[x] \in Int
    PROVE  LET i == InsertionPoint(tcb, list, prio)
           IN  /\ i \in 1..(Len(list) + 1)
               /\ \A j \in 1..(i - 1) : prio[tcb] <= prio[list[j]]
               /\ i <= Len(list) => prio[tcb] > prio[list[i]]
<1> DEFINE P(i) == /\ \A j \in 1..(i - 1) : prio[tcb] <= prio[list[j]]
                   /\ i <= Len(list) => prio[tcb] > prio[list[i]]
           S == {n \in 1..(Len(list) + 1) :
                    n <= Len(list) => prio[tcb] > prio[list[n]]}
<1>1. S \in SUBSET Nat /\ Len(list) + 1 \in S
  OBVIOUS
<1>2. PICK n \in S : \A m \in S : n <= m
  BY <1>1, LeastNatural
<1>3. \A j \in 1..(n - 1) : prio[list[j]] \in Int
  BY <1>2
<1>4. ASSUME NEW j \in 1..(n - 1)
      PROVE  prio[tcb] <= prio[list[j]]
  <2>1. j \in 1..Len(list) /\ j \notin S
    BY <1>2
  <2>2. ~(prio[tcb] > prio[list[j]])
    BY <2>1
  <2> QED
    BY <2>2, <1>3
<1>5. \E i \in 1..(Len(list) + 1) : P(i)
  BY <1>2, <1>4
<1>6. InsertionPoint(tcb, list, prio) =
         CHOOSE i \in 1..(Len(list) + 1) : P(i)
  BY DEF InsertionPoint
<1> QED
  BY <1>5, <1>6

\* sched_addprioritized() adds one task to a list, keeps the order of the
\* others, and keeps a sorted list sorted.  The new task becomes the head if it
\* has a higher priority than the old one, and never becomes the last behind a
\* task of lower priority.
LEMMA AddPrioritized ==
    ASSUME NEW T, NEW list \in Seq(T), IsInjective(list),
           NEW tcb \in T, tcb \notin Range(list),
           NEW prio, \A x \in T : prio[x] \in Int
    PROVE  LET r == sched_addprioritized(tcb, list, prio)
           IN  /\ r \in Seq(T)
               /\ Len(r) = Len(list) + 1
               /\ IsInjective(r)
               /\ Range(r) = Range(list) \cup {tcb}
               /\ Descending(list, prio) => Descending(r, prio)
               /\ list # <<>> => Head(r) = IF prio[tcb] > prio[Head(list)]
                                             THEN tcb ELSE Head(list)
               /\ list # <<>> /\ prio[tcb] > prio[Last(list)] =>
                     Last(r) = Last(list)
<1> DEFINE i == InsertionPoint(tcb, list, prio)
           r == InsertAt(list, i, tcb)
           n == Len(list)
<1>1. /\ i \in 1..(n + 1)
      /\ \A j \in 1..(i - 1) : prio[tcb] <= prio[list[j]]
      /\ i <= n => prio[tcb] > prio[list[i]]
  BY InsertionPointExists
<1>2. sched_addprioritized(tcb, list, prio) = r
  BY DEF sched_addprioritized
<1> HIDE DEF i
<1>3. /\ r \in Seq(T)
      /\ Len(r) = n + 1
      /\ \A j \in 1..(i - 1) : r[j] = list[j]
      /\ r[i] = tcb
      /\ \A j \in (i + 1)..(n + 1) : r[j] = list[j - 1]
  <2>1. i \in 1..(Len(list) + 1)
    BY <1>1
  <2>2. Inserted(T, InsertAt(list, i, tcb), list, i, tcb)
    BY <2>1, InsertAtElements
  <2> QED
    BY <2>2 DEF Inserted
<1> HIDE DEF r
<1>4. \A j, k \in 1..n : list[j] = list[k] => j = k
  BY DEF IsInjective
<1>5. n \in Nat /\ DOMAIN list = 1..n /\ DOMAIN r = 1..(n + 1)
  BY <1>3
<1> DEFINE From(j) == IF j < i THEN j ELSE j - 1
<1>6. ASSUME NEW j \in 1..(n + 1), j # i
      PROVE  From(j) \in 1..n /\ r[j] = list[From(j)] /\ r[j] # tcb
  <2>1. From(j) \in 1..n /\ r[j] = list[From(j)]
    BY <1>1, <1>3, <1>5, <1>6
  <2> QED
    BY <2>1, <1>5 DEF Range
<1>7. ASSUME NEW j \in 1..(n + 1), NEW k \in 1..(n + 1), j # i, k # i
      PROVE  /\ j < k => From(j) < From(k)
             /\ From(j) = From(k) => j = k
  BY <1>1, <1>5, <1>7
<1> HIDE DEF From
<1>8. IsInjective(r)
  <2>1. SUFFICES ASSUME NEW j \in 1..(n + 1), NEW k \in 1..(n + 1), r[j] = r[k]
                 PROVE  j = k
    BY <1>5 DEF IsInjective
  <2>2. CASE j # i /\ k # i
    BY <2>1, <2>2, <1>4, <1>6, <1>7
  <2> QED
    BY <2>1, <2>2, <1>3, <1>6
<1>9. Range(r) = Range(list) \cup {tcb}
  <2>1. ASSUME NEW x \in Range(r)
        PROVE  x \in Range(list) \cup {tcb}
    <3>1. PICK j \in 1..(n + 1) : x = r[j]
      BY <1>5 DEF Range
    <3> QED
      BY <3>1, <1>3, <1>5, <1>6 DEF Range
  <2>2. ASSUME NEW x \in Range(list)
        PROVE  x \in Range(r)
    <3>1. PICK j \in 1..n : list[j] = x
      BY <1>5 DEF Range
    <3>2. CASE j < i
      <4>1. j \in 1..(n + 1) /\ r[j] = x
        BY <3>1, <3>2, <1>1, <1>3, <1>5
      <4> QED
        BY <4>1, <1>5 DEF Range
    <3>3. CASE j >= i
      <4>1. j + 1 \in (i + 1)..(n + 1) /\ (j + 1) - 1 = j
        BY <3>3, <1>1, <1>5
      <4>2. r[j + 1] = x
        BY <4>1, <3>1, <1>3
      <4> QED
        BY <4>1, <4>2, <1>1, <1>5, SMTT(30) DEF Range
    <3> QED
      BY <3>2, <3>3, <1>1, <1>5
  <2>3. tcb \in Range(r)
    BY <1>1, <1>3, <1>5 DEF Range
  <2> QED
    BY <2>1, <2>2, <2>3
<1>10. ASSUME Descending(list, prio)
       PROVE  Descending(r, prio)
  <2>1. SUFFICES ASSUME NEW j \in 1..(n + 1), NEW k \in 1..(n + 1), j < k
                 PROVE  prio[r[j]] >= prio[r[k]]
    BY <1>3 DEF Descending
  <2>2. \A a \in 1..n : list[a] \in T /\ prio[list[a]] \in Int
    BY <1>5
  <2>3. \A a, b \in 1..n : a <= b => prio[list[a]] >= prio[list[b]]
    BY <2>2, <1>10 DEF Descending
  <2>4. prio[tcb] \in Int
    OBVIOUS
  <2>5. CASE j # i /\ k # i
    <3>1. From(j) < From(k)
      BY <2>1, <2>5, <1>7
    <3>2. /\ From(j) \in 1..n /\ r[j] = list[From(j)]
          /\ From(k) \in 1..n /\ r[k] = list[From(k)]
      BY <2>5, <1>6
    <3>3. From(j) <= From(k)
      BY <3>1, <3>2, <1>5
    <3> QED
      BY <3>2, <3>3, <2>3
  <2>6. CASE k = i
    <3>1. j \in 1..(i - 1)
      BY <2>1, <2>6, <1>1, <1>5
    <3>2. j \in 1..n /\ r[j] = list[j] /\ prio[tcb] <= prio[list[j]]
      BY <3>1, <1>1, <1>3, <1>5
    <3>3. r[k] = tcb
      BY <2>6, <1>3
    <3> QED
      BY <3>2, <3>3, <2>2, <2>4
  <2>7. CASE j = i
    <3>1. i \in 1..n /\ k - 1 \in 1..n /\ i <= k - 1
          /\ k \in (i + 1)..(n + 1)
      BY <2>1, <2>7, <1>1, <1>5
    <3>2. r[k] = list[k - 1] /\ r[j] = tcb
      BY <3>1, <2>7, <1>3
    <3>3. prio[list[i]] >= prio[list[k - 1]] /\ prio[tcb] > prio[list[i]]
      BY <3>1, <2>3, <1>1, SMTT(30)
    <3>4. prio[list[i]] \in Int /\ prio[list[k - 1]] \in Int
      BY <3>1, <2>2
    <3> QED
      BY <3>2, <3>3, <3>4, <2>4
  <2> QED
    BY <2>5, <2>6, <2>7
<1>11. ASSUME list # <<>>
       PROVE  Head(r) = IF prio[tcb] > prio[Head(list)] THEN tcb ELSE Head(list)
  <2>1. n > 0 /\ Head(list) = list[1] /\ Head(r) = r[1]
    BY <1>3, <1>11
  <2>2. prio[list[1]] \in Int /\ prio[tcb] \in Int
    BY <2>1
  <2>3. CASE i = 1
    BY <2>1, <2>3, <1>1, <1>3
  <2>4. CASE i > 1
    BY <2>1, <2>2, <2>4, <1>1, <1>3
  <2> QED
    BY <2>3, <2>4, <1>1
<1>12. ASSUME list # <<>>, prio[tcb] > prio[Last(list)]
       PROVE  Last(r) = Last(list)
  <2>1. n > 0 /\ Last(list) = list[n] /\ Last(r) = r[n + 1]
    BY <1>3, <1>12 DEF Last
  <2>2. prio[list[n]] \in Int /\ prio[tcb] \in Int
    BY <2>1
  <2>3. i <= n
    BY <2>1, <2>2, <1>1, <1>12
  <2> QED
    BY <2>1, <2>3, <1>1, <1>3
<1> QED
  BY <1>2, <1>3, <1>8, <1>9, <1>10, <1>11, <1>12

----------------------------------------------------------------------------
\* The insertions of sched_mergepending() one by one: the list once n pending
\* tasks are in it is the one before with the n-th inserted.
LEMMA MergeSteps ==
    ASSUME NEW ready, NEW pend, NEW prio, Len(pend) \in Nat
    PROVE  LET m == Merging(ready, pend, prio)
           IN  /\ m[0] = ready
               /\ \A n \in 1..Len(pend) :
                     m[n] = sched_addprioritized(pend[n], m[n - 1], prio)
<1> DEFINE N == Len(pend)
           F(n, l) == sched_addprioritized(pend[n], l, prio)
           Run(m, k) == m = [n \in 0..k |-> IF n = 0 THEN ready
                                            ELSE F(n, m[n - 1])]
           S == {k \in 0..N : ~ \E m : Run(m, k)}
<1> HIDE DEF F
<1>1. S = {}
  <2>1. SUFFICES ASSUME S # {}
                 PROVE  FALSE
    OBVIOUS
  <2>2. PICK k \in S : \A j \in S : k <= j
    <3>1. S \in SUBSET Nat
      OBVIOUS
    <3> HIDE DEF S
    <3> QED
      BY <3>1, <2>1, LeastNatural
  <2>3. CASE k = 0
    <3> DEFINE g == [n \in 0..0 |-> ready]
    <3>1. Run(g, 0)
      OBVIOUS
    <3> QED
      BY <3>1, <2>2, <2>3
  <2>4. CASE k > 0
    <3>1. k - 1 \in 0..N /\ k - 1 \notin S
      BY <2>2, <2>4, SMTT(30)
    <3>2. PICK h : Run(h, k - 1)
      BY <3>1
    <3> DEFINE g == [n \in 0..k |-> IF n = k THEN F(k, h[k - 1]) ELSE h[n]]
    <3>3. ASSUME NEW n \in 0..k
          PROVE  g[n] = IF n = 0 THEN ready ELSE F(n, g[n - 1])
      <4>1. CASE n = k
        BY <4>1, <2>2, <2>4
      <4>2. CASE n # k
        <5>1. n \in 0..(k - 1)
          BY <4>2, <2>2, <2>4
        <5>2. h[n] = IF n = 0 THEN ready ELSE F(n, h[n - 1])
          BY <5>1, <3>2
        <5>3. g[n] = h[n] /\ (n # 0 => g[n - 1] = h[n - 1])
          BY <5>1, <4>2, <2>2, <2>4
        <5> QED
          BY <5>2, <5>3
      <4> QED
        BY <4>1, <4>2
    <3>4. Run(g, k)
      BY <3>3
    <3> QED
      BY <3>4, <2>2
  <2> QED
    BY <2>2, <2>3, <2>4
<1>2. \E m : Run(m, N)
  BY <1>1
<1> DEFINE c == CHOOSE m : Run(m, N)
<1>3. Run(c, N)
  BY <1>2
<1>4. Merging(ready, pend, prio) = c
  BY DEF Merging, F
<1> HIDE DEF c
<1>5. c[0] = ready /\ \A n \in 1..N : c[n] = F(n, c[n - 1])
  BY <1>3
<1> QED
  BY <1>4, <1>5 DEF F

\* sched_mergepending() moves every pending task into the ready-to-run list,
\* loses and duplicates none, keeps the last task last and a sorted list sorted.
\* The head stays unless one of the pending tasks was inserted before it.
LEMMA MergedList ==
    ASSUME NEW T, NEW ready \in Seq(T), NEW pend \in Seq(T),
           NEW prio, \A x \in T : prio[x] \in Int,
           IsInjective(ready), IsInjective(pend),
           Range(ready) \cap Range(pend) = {}, ready # <<>>,
           \A t \in Range(pend) : prio[t] > prio[Last(ready)]
    PROVE  LET r == MergePending(ready, pend, prio)
           IN  /\ r \in Seq(T) /\ r # <<>>
               /\ IsInjective(r)
               /\ Range(r) = Range(ready) \cup Range(pend)
               /\ Last(r) = Last(ready)
               /\ Head(r) \in Range(pend) \cup {Head(ready)}
               /\ Descending(ready, prio) => Descending(r, prio)
               /\ \/ \E n \in 1..Len(pend) :
                        Head(Merging(ready, pend, prio)[n]) = pend[n]
                  \/ Head(r) = Head(ready)
<1> DEFINE N == Len(pend)
           First(n) == {pend[i] : i \in 1..n}
<1> DEFINE m == Merging(ready, pend, prio)
<1>1. /\ m[0] = ready
      /\ \A n \in 1..Len(pend) :
            m[n] = sched_addprioritized(pend[n], m[n - 1], prio)
      /\ MergePending(ready, pend, prio) = m[Len(pend)]
  <2>1. Len(pend) \in Nat
    OBVIOUS
  <2> QED
    BY <2>1, MergeSteps DEF MergePending
<1> HIDE DEF m
<1> DEFINE OK(n) == /\ m[n] \in Seq(T) /\ m[n] # <<>>
                    /\ IsInjective(m[n])
                    /\ Range(m[n]) = Range(ready) \cup First(n)
                    /\ Last(m[n]) = Last(ready)
                    /\ Head(m[n]) \in First(n) \cup {Head(ready)}
                    /\ Descending(ready, prio) => Descending(m[n], prio)
                    /\ \/ \E k \in 1..n : Head(m[k]) = pend[k]
                       \/ Head(m[n]) = Head(ready)
           S == {n \in 0..N : ~OK(n)}
<1>2. OK(0)
  <2>1. m[0] = ready
    BY <1>1
  <2>2. First(0) = {}
    OBVIOUS
  <2> HIDE DEF First
  <2> QED
    BY <2>1, <2>2
<1>3. ASSUME NEW n \in 1..N, OK(n - 1)
      PROVE  OK(n)
  <2> DEFINE l == m[n - 1]
             t == pend[n]
  <2>1. m[n] = sched_addprioritized(t, l, prio)
    BY <1>1
  <2>2. t \in T /\ t \in Range(pend)
    BY DEF Range
  <2>3. t \notin First(n - 1)
    BY DEF IsInjective
  <2>4. t \notin Range(l)
    <3>1. Range(l) = Range(ready) \cup First(n - 1)
      BY <1>3
    <3> HIDE DEF First, l, t
    <3> QED
      BY <3>1, <2>2, <2>3
  <2>5. First(n) = First(n - 1) \cup {t}
    OBVIOUS
  <2>6. prio[t] > prio[Last(l)]
    BY <2>2, <1>3
  <2>7. l \in Seq(T) /\ l # <<>> /\ IsInjective(l)
    BY <1>3
  <2> HIDE DEF l, t, First
  <2>8. /\ m[n] \in Seq(T) /\ Len(m[n]) = Len(l) + 1
        /\ IsInjective(m[n])
        /\ Range(m[n]) = Range(l) \cup {t}
        /\ Descending(l, prio) => Descending(m[n], prio)
        /\ Head(m[n]) \in {t, Head(l)}
        /\ Last(m[n]) = Last(l)
    <3> DEFINE r == sched_addprioritized(t, l, prio)
    <3>1. /\ r \in Seq(T) /\ Len(r) = Len(l) + 1
          /\ IsInjective(r)
          /\ Range(r) = Range(l) \cup {t}
          /\ Descending(l, prio) => Descending(r, prio)
          /\ l # <<>> => Head(r) = IF prio[t] > prio[Head(l)] THEN t ELSE Head(l)
          /\ l # <<>> /\ prio[t] > prio[Last(l)] => Last(r) = Last(l)
      BY <2>2, <2>4, <2>7, AddPrioritized
    <3> HIDE DEF r
    <3>2. m[n] = r
      BY <2>1 DEF r
    <3> QED
      BY <3>1, <3>2, <2>6, <2>7
  <2>9. m[n] # <<>>
    BY <2>7, <2>8
  <2>10. \/ \E k \in 1..n : Head(m[k]) = pend[k]
         \/ Head(m[n]) = Head(ready)
    <3>1. 1..(n - 1) \subseteq 1..n /\ n \in 1..n
      OBVIOUS
    <3>2. \/ \E k \in 1..(n - 1) : Head(m[k]) = pend[k]
          \/ Head(l) = Head(ready)
      BY <1>3 DEF l
    <3>3. Head(m[n]) = pend[n] \/ Head(m[n]) = Head(l)
      BY <2>8 DEF t
    <3> QED
      BY <3>1, <3>2, <3>3
  <2> QED
    BY <2>5, <2>8, <2>9, <2>10, <1>3 DEF l
<1> HIDE DEF OK
<1>4. S = {}
  <2>1. SUFFICES ASSUME S # {}
                 PROVE  FALSE
    OBVIOUS
  <2>2. PICK n \in S : \A j \in S : n <= j
    <3>1. S \in SUBSET Nat
      OBVIOUS
    <3> HIDE DEF S
    <3> QED
      BY <3>1, <2>1, LeastNatural
  <2>3. n # 0
    BY <2>2, <1>2
  <2>4. n \in 1..N /\ n - 1 \in 0..N /\ ~(n - 1 \in S)
    BY <2>2, <2>3
  <2>5. OK(n - 1) /\ ~OK(n)
    BY <2>2, <2>4
  <2> QED
    BY <2>4, <2>5, <1>3
<1>5. OK(N)
  BY <1>4
<1>6. First(N) = Range(pend)
  BY DEF Range
<1> QED
  BY <1>1, <1>5, <1>6, ZenonT(30) DEF OK, m

\* The order of a list does not depend on the priority of a task outside it.
LEMMA OtherPriority ==
    ASSUME NEW T, NEW list \in Seq(T), NEW prio, NEW other,
           \A t \in Range(list) : prio[t] = other[t],
           Descending(list, prio)
    PROVE  Descending(list, other)
<1>1. \A i \in 1..Len(list) : list[i] \in Range(list)
  BY DEF Range
<1> QED
  BY <1>1 DEF Descending

\* dq_addlast().
LEMMA AppendToList ==
    ASSUME NEW T, NEW list \in Seq(T), IsInjective(list),
           NEW tcb \in T, tcb \notin Range(list)
    PROVE  /\ Append(list, tcb) \in Seq(T)
           /\ IsInjective(Append(list, tcb))
           /\ Range(Append(list, tcb)) = Range(list) \cup {tcb}
<1> DEFINE r == Append(list, tcb)
           n == Len(list)
<1>1. /\ r \in Seq(T) /\ DOMAIN r = 1..(n + 1) /\ DOMAIN list = 1..n /\ n \in Nat
      /\ r[n + 1] = tcb /\ \A j \in 1..n : r[j] = list[j]
  OBVIOUS
<1> HIDE DEF r, n
<1>2. \A j \in 1..n : list[j] # tcb
  BY <1>1 DEF Range
<1>3. \A j \in 1..(n + 1) : j = n + 1 \/ j \in 1..n
  BY <1>1
<1>4. IsInjective(r)
  BY <1>1, <1>2, <1>3 DEF IsInjective
<1>5. Range(r) = Range(list) \cup {tcb}
  <2>1. 1..n \subseteq 1..(n + 1) /\ n + 1 \in 1..(n + 1)
    BY <1>1
  <2> QED
    BY <2>1, <1>1, <1>3 DEF Range
<1> QED
  BY <1>1, <1>4, <1>5 DEF r
=============================================================================
