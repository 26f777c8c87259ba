------------------------- MODULE CommandQueueProofs -------------------------
(***************************************************************************)
(* Proofs about the command queue, for any set of executors and any limits. *)
(***************************************************************************)
EXTENDS CommandQueue, FiniteSetTheorems, SequenceTheorems, WellFoundedInduction, TLAPS

-----------------------------------------------------------------------------
(* Orders.                                                                  *)

\* Every nonempty set of natural numbers has a least element.
LEMMA LeastNatural ==
    ASSUME NEW T, T \subseteq Nat, T # {}
    PROVE \E x \in T : \A y \in T : x <= y
<1> DEFINE R == OpToRel(<, Nat)
<1>1. IsWellFoundedOn(R, Nat)
  BY NatLessThanWellFounded
<1>2. \A x, y \in Nat : <<x, y>> \in R <=> x < y
  BY DEF OpToRel
<1> HIDE DEF R
<1>3. PICK x \in T : \A y \in T : ~(<<y, x>> \in R)
  BY <1>1, WFMin
<1>4. x \in Nat /\ \A y \in T : y \in Nat /\ <<y, x>> \notin R
  BY <1>3
<1>5. \A y \in T : ~(y < x)
  BY <1>2, <1>4
<1>6. \A y \in T : x <= y
  BY <1>4, <1>5
<1> QED BY <1>6

\* A strict total order on S.
StrictOrder(S, R) ==
    /\ \A x \in S : <<x, x>> \notin R
    /\ \A x, y, z \in S : <<x, y>> \in R /\ <<y, z>> \in R => <<x, z>> \in R
    /\ \A x, y \in S : x = y \/ <<x, y>> \in R \/ <<y, x>> \in R

Before(S, R, x) == {y \in S : <<y, x>> \in R}

\* How many elements come before one of S decides which it is.
LEMMA Ranks ==
    ASSUME NEW S, IsFiniteSet(S), NEW R, StrictOrder(S, R)
    PROVE /\ Cardinality(S) \in Nat
          /\ \A x \in S : /\ Cardinality(Before(S, R, x)) \in 0 .. Cardinality(S) - 1
                          /\ IsFiniteSet(Before(S, R, x))
          /\ \A x, y \in S : Cardinality(Before(S, R, x)) = Cardinality(Before(S, R, y)) => x = y
          /\ \A j \in 0 .. Cardinality(S) - 1 : \E x \in S : Cardinality(Before(S, R, x)) = j
<1>1. PICK n \in Nat : n = Cardinality(S)
  BY FS_CardinalityType
<1>2. ASSUME NEW x \in S
      PROVE IsFiniteSet(Before(S, R, x)) /\ Cardinality(Before(S, R, x)) \in 0 .. n - 1
  <2>1. Before(S, R, x) \in SUBSET (S \ {x})
    BY DEF Before, StrictOrder
  <2>2. IsFiniteSet(S \ {x}) /\ Cardinality(S \ {x}) = n - 1
    BY <1>1, FS_RemoveElement
  <2>3. IsFiniteSet(Before(S, R, x)) /\ Cardinality(Before(S, R, x)) <= n - 1
    BY <2>1, <2>2, FS_Subset
  <2>4. Cardinality(Before(S, R, x)) \in Nat
    BY <2>3, FS_CardinalityType
  <2> QED BY <2>3, <2>4
<1>3. ASSUME NEW x \in S, NEW y \in S, <<x, y>> \in R
      PROVE Cardinality(Before(S, R, x)) # Cardinality(Before(S, R, y))
  <2>1. Before(S, R, x) \in SUBSET Before(S, R, y)
    BY <1>3 DEF Before, StrictOrder
  <2>2. x \in Before(S, R, y) /\ x \notin Before(S, R, x)
    BY <1>3 DEF Before, StrictOrder
  <2>3. Before(S, R, x) # Before(S, R, y)
    BY <2>2
  <2> QED BY <1>2, <2>1, <2>3, FS_Subset
<1>4. \A x, y \in S : Cardinality(Before(S, R, x)) = Cardinality(Before(S, R, y)) => x = y
  BY <1>3 DEF StrictOrder
<1>5. PICK f : f = [x \in S |-> Cardinality(Before(S, R, x))]
  OBVIOUS
<1>6. f \in [S -> 0 .. n - 1] /\ \A x \in S : f[x] = Cardinality(Before(S, R, x))
  BY <1>2, <1>5
<1>7. f \in Injection(S, 0 .. n - 1)
  BY <1>4, <1>6 DEF Injection, IsInjective
<1>8. IsFiniteSet(0 .. n - 1) /\ Cardinality(0 .. n - 1) = n
  <2>1. 0 \in Int /\ n - 1 \in Int
    OBVIOUS
  <2>2. IsFiniteSet(0 .. n - 1) /\ Cardinality(0 .. n - 1) = IF 0 > n - 1 THEN 0 ELSE (n - 1) - 0 + 1
    BY <2>1, FS_Interval
  <2> QED BY <2>2
<1>9. f \in Surjection(S, 0 .. n - 1)
  BY <1>1, <1>7, <1>8, FS_Injection
<1>10. \A j \in 0 .. n - 1 : \E x \in S : f[x] = j
  BY <1>9 DEF Surjection
<1> QED BY <1>1, <1>2, <1>4, <1>6, <1>10

\* The sequence s lists the elements of S, each once.
Lists(s, S) ==
    /\ s \in Seq(S) /\ Len(s) = Cardinality(S)
    /\ \A i, j \in 1 .. Len(s) : s[i] = s[j] => i = j
    /\ \A x \in S : \E j \in 1 .. Len(s) : s[j] = x

\* InOrder lists a finite set; an element stands behind those before it.
LEMMA InOrderLists ==
    ASSUME NEW S, IsFiniteSet(S), NEW R, StrictOrder(S, R), NEW s, s = InOrder(S, R)
    PROVE /\ Lists(s, S)
          /\ \A x \in S : \E j \in 1 .. Len(s) : s[j] = x /\ j = Cardinality(Before(S, R, x)) + 1
<1>1. PICK n \in Nat : n = Cardinality(S)
  BY FS_CardinalityType
<1> DEFINE Rank(x) == Cardinality(Before(S, R, x))
<1>2. /\ \A x \in S : Rank(x) \in 0 .. n - 1
      /\ \A x, y \in S : Rank(x) = Rank(y) => x = y
      /\ \A j \in 0 .. n - 1 : \E x \in S : Rank(x) = j
  BY <1>1, Ranks
<1>3. s = [j \in 1 .. n |-> CHOOSE x \in S : Rank(x) = j - 1]
  BY <1>1 DEF InOrder, Before
<1> HIDE DEF Rank
<1>4. ASSUME NEW j \in 1 .. n PROVE s[j] \in S /\ Rank(s[j]) = j - 1
  <2>1. j - 1 \in 0 .. n - 1
    OBVIOUS
  <2>2. \E x \in S : Rank(x) = j - 1
    BY <1>2, <2>1
  <2>3. s[j] = CHOOSE x \in S : Rank(x) = j - 1
    BY <1>3
  <2> QED BY <2>2, <2>3
<1>5. s \in [1 .. n -> S]
  BY <1>3, <1>4
<1>6. s \in Seq(S) /\ Len(s) = n
  BY <1>5
<1>7. ASSUME NEW i \in 1 .. n, NEW j \in 1 .. n, s[i] = s[j] PROVE i = j
  <2>1. i - 1 = j - 1
    BY <1>4, <1>7
  <2> QED BY <2>1
<1>8. ASSUME NEW x \in S PROVE \E j \in 1 .. n : s[j] = x /\ j = Rank(x) + 1
  <2>1. PICK j \in 1 .. n : j = Rank(x) + 1 /\ j - 1 = Rank(x)
    BY <1>2
  <2>2. s[j] = x
    BY <1>2, <1>4, <2>1
  <2> QED BY <2>1, <2>2
<1>9. Lists(s, S)
  BY <1>1, <1>6, <1>7, <1>8 DEF Lists
<1> QED BY <1>6, <1>8, <1>9 DEF Rank

\* The part of a line that is in a set: nobody in it loses places.
Kept(r, line, set) ==
    /\ Len(r) <= Len(line)
    /\ \A j \in 1 .. Len(r) : r[j] \in set /\ \E k \in 1 .. Len(line) : r[j] = line[k]
    /\ \A k \in 1 .. Len(line) : line[k] \in set =>
            \E j \in 1 .. Len(r) : r[j] = line[k] /\ j <= k

\* Keeping keeps a line without repetitions one.
LEMMA KeepingFacts ==
    ASSUME NEW S, NEW line \in Seq(S), IsInjective(line), NEW set,
           NEW r, r = Keeping(line, set)
    PROVE r \in Seq(S) /\ IsInjective(r) /\ Kept(r, line, set)
<1>1. PICK L \in Nat : L = Len(line) /\ DOMAIN line = 1 .. L /\ \A k \in 1 .. L : line[k] \in S
  <2>1. Len(line) \in Nat /\ DOMAIN line = 1 .. Len(line)
    BY LenProperties
  <2>2. \A k \in 1 .. Len(line) : line[k] \in S
    BY ElementOfSeq
  <2> QED BY <2>1, <2>2
<1>2. \A k, l \in 1 .. L : line[k] = line[l] => k = l
  BY <1>1 DEF IsInjective
<1>3. PICK kept : kept = {k \in 1 .. L : line[k] \in set}
  OBVIOUS
<1>4. PICK R : R = {p \in kept \X kept : p[1] < p[2]}
  OBVIOUS
<1>5. \A x, y \in kept : <<x, y>> \in R <=> x < y
  BY <1>4
<1>6. kept \subseteq 1 .. L
  BY <1>3
<1>7. StrictOrder(kept, R)
  <2>1. \A x \in kept : x \in Nat
    BY <1>6
  <2>2. \A x \in kept : <<x, x>> \notin R
    BY <1>5, <2>1
  <2>3. \A x, y, z \in kept : <<x, y>> \in R /\ <<y, z>> \in R => <<x, z>> \in R
    BY <1>5, <2>1
  <2>4. ASSUME NEW x \in kept, NEW y \in kept
        PROVE x = y \/ <<x, y>> \in R \/ <<y, x>> \in R
    <3>1. x = y \/ x < y \/ y < x
      BY <2>1
    <3> QED BY <1>5, <3>1
  <2> QED BY <2>2, <2>3, <2>4 DEF StrictOrder
<1>8. IsFiniteSet(1 .. L) /\ Cardinality(1 .. L) = L
  BY FS_Interval
<1>9. IsFiniteSet(kept) /\ Cardinality(kept) <= L
  BY <1>6, <1>8, FS_Subset
<1>10. PICK places : places = InOrder(kept, R)
  OBVIOUS
<1>11. /\ Lists(places, kept)
       /\ \A x \in kept : \E j \in 1 .. Len(places) :
                places[j] = x /\ j = Cardinality(Before(kept, R, x)) + 1
  BY <1>7, <1>9, <1>10, InOrderLists
<1>12. PICK n \in Nat : n = Cardinality(kept) /\ n = Len(places)
  BY <1>9, <1>11, FS_CardinalityType DEF Lists
<1>13. \A j \in 1 .. n : places[j] \in kept /\ places[j] \in 1 .. L /\ line[places[j]] \in set
  <2>1. \A j \in 1 .. n : places[j] \in kept
    BY <1>11, <1>12, ElementOfSeq DEF Lists
  <2> QED BY <1>3, <2>1
<1>14. r = [j \in 1 .. n |-> line[places[j]]]
  BY <1>1, <1>3, <1>4, <1>10, <1>12 DEF Keeping
<1>15. r \in [1 .. n -> S] /\ \A j \in 1 .. n : r[j] = line[places[j]]
  BY <1>1, <1>13, <1>14
<1>16. r \in Seq(S) /\ Len(r) = n /\ DOMAIN r = 1 .. n
  BY <1>15
<1>17. IsInjective(r)
  <2>1. ASSUME NEW i \in 1 .. n, NEW j \in 1 .. n, r[i] = r[j] PROVE i = j
    <3>1. line[places[i]] = line[places[j]]
      BY <1>15, <2>1
    <3>2. places[i] = places[j]
      BY <1>2, <1>13, <3>1
    <3> QED BY <1>11, <1>12, <3>2 DEF Lists
  <2> QED BY <1>16, <2>1 DEF IsInjective
<1>18. ASSUME NEW k \in 1 .. L, line[k] \in set
       PROVE \E j \in 1 .. n : r[j] = line[k] /\ j <= k
  <2>1. k \in kept
    BY <1>3, <1>18
  <2>2. PICK j \in 1 .. n : places[j] = k /\ j = Cardinality(Before(kept, R, k)) + 1
    BY <1>11, <1>12, <2>1
  <2>3. Before(kept, R, k) \in SUBSET (1 .. k - 1)
    <3>1. \A x \in kept : x \in Nat /\ 1 <= x
      BY <1>6
    <3>2. \A x \in Before(kept, R, k) : x \in kept /\ x < k
      BY <1>5, <2>1 DEF Before
    <3> QED BY <3>1, <3>2
  <2>4. IsFiniteSet(1 .. k - 1) /\ Cardinality(1 .. k - 1) = k - 1
    <3>1. 1 \in Int /\ k - 1 \in Int
      OBVIOUS
    <3>2. IsFiniteSet(1 .. k - 1) /\ Cardinality(1 .. k - 1) = IF 1 > k - 1 THEN 0 ELSE (k - 1) - 1 + 1
      BY <3>1, FS_Interval
    <3> QED BY <3>2
  <2>5. Cardinality(Before(kept, R, k)) <= k - 1 /\ IsFiniteSet(Before(kept, R, k))
    BY <2>3, <2>4, FS_Subset
  <2>6. Cardinality(Before(kept, R, k)) \in Nat
    BY <2>5, FS_CardinalityType
  <2>7. j <= k
    BY <2>2, <2>5, <2>6
  <2> QED BY <1>15, <2>2, <2>7
<1>19. ASSUME NEW j \in 1 .. n
       PROVE r[j] \in set /\ \E k \in 1 .. L : r[j] = line[k]
  BY <1>13, <1>15
<1>20. Kept(r, line, set)
  BY <1>1, <1>9, <1>12, <1>16, <1>18, <1>19 DEF Kept
<1> QED BY <1>16, <1>17, <1>20

-----------------------------------------------------------------------------
(* Queue values.                                                            *)

Entry == [executor : Objects, due : Nat, text : 1 .. LineLimit]
Tables == UNION {[D -> Entry] : D \in SUBSET Nat}
Queues == [entries : Tables, rotation : Seq(Objects), next : Nat, bytes : Nat]

\* Lists numbered up to the last one admitted, and a rotation without repetitions.
Good(q) ==
    /\ q \in Queues
    /\ DOMAIN q.entries \subseteq 1 .. q.next
    /\ IsInjective(q.rotation)

Numbered(T, n) == T \in Tables /\ DOMAIN T \subseteq 1 .. n

\* What is in a table.
LEMMA TableFacts ==
    ASSUME NEW T \in Tables
    PROVE /\ DOMAIN T \subseteq Nat
          /\ \A i \in DOMAIN T : /\ T[i] \in Entry /\ T[i].executor \in Objects
                                 /\ T[i].due \in Nat /\ T[i].text \in 1 .. LineLimit
<1>1. PICK D \in SUBSET Nat : T \in [D -> Entry]
  BY DEF Tables
<1>2. \A i \in D : T[i] \in Entry
  BY <1>1
<1> QED BY <1>1, <1>2 DEF Entry

\* The bytes of a queue that is well formed are finitely many.
LEMMA TextFacts ==
    ASSUME NEW q, Numbered(q.entries, q.next), q.next \in Nat
    PROVE /\ IsFiniteSet(Text(q)) /\ Cardinality(Text(q)) \in Nat
          /\ Text(q) \subseteq (1 .. q.next) \X (1 .. LineLimit)
          /\ \A i, k : <<i, k>> \in Text(q) <=> i \in DOMAIN q.entries /\ k \in 1 .. q.entries[i].text
<1>1. /\ DOMAIN q.entries \subseteq 1 .. q.next
      /\ \A i \in DOMAIN q.entries : q.entries[i].text \in 1 .. LineLimit
  BY TableFacts DEF Numbered
<1>2. LineLimit \in Nat
  BY QueueAssumption
<1>3. ASSUME NEW i \in DOMAIN q.entries
      PROVE {i} \X (1 .. q.entries[i].text) \subseteq (1 .. q.next) \X (1 .. LineLimit)
  <2>1. i \in 1 .. q.next /\ q.entries[i].text \in 1 .. LineLimit
    BY <1>1
  <2>2. 1 .. q.entries[i].text \subseteq 1 .. LineLimit
    BY <1>2, <2>1
  <2> QED BY <2>1, <2>2
<1>4. Text(q) \subseteq (1 .. q.next) \X (1 .. LineLimit)
  BY <1>3 DEF Text
<1>5. IsFiniteSet(1 .. q.next) /\ IsFiniteSet(1 .. LineLimit)
  BY <1>2, FS_Interval
<1>6. IsFiniteSet((1 .. q.next) \X (1 .. LineLimit))
  BY <1>5, FS_Product
<1>7. IsFiniteSet(Text(q))
  BY <1>4, <1>6, FS_Subset
<1>8. ASSUME NEW i, NEW k
      PROVE <<i, k>> \in Text(q) <=> i \in DOMAIN q.entries /\ k \in 1 .. q.entries[i].text
  <2>1. <<i, k>> \in Text(q) <=> \E j \in DOMAIN q.entries : <<i, k>> \in {j} \X (1 .. q.entries[j].text)
    BY DEF Text
  <2> QED BY <2>1
<1> QED BY <1>4, <1>7, <1>8, FS_CardinalityType

\* Queue r holds lists of queue q, none of them longer.
Within(r, q) ==
    /\ r.next = q.next /\ DOMAIN r.entries \subseteq DOMAIN q.entries
    /\ \A i \in DOMAIN r.entries : /\ r.entries[i].executor = q.entries[i].executor
                                   /\ r.entries[i].due = q.entries[i].due
                                   /\ r.entries[i].text <= q.entries[i].text

\* A queue within another has no more bytes.
LEMMA FewerBytes ==
    ASSUME NEW q, Numbered(q.entries, q.next), q.next \in Nat,
           NEW r, Numbered(r.entries, r.next), Within(r, q)
    PROVE Cardinality(Text(r)) <= Cardinality(Text(q))
<1>1. r.next \in Nat
  BY DEF Within
<1>2. ASSUME NEW p \in Text(r) PROVE p \in Text(q)
  <2>1. PICK i, k : p = <<i, k>>
    BY <1>1, TextFacts
  <2>2. i \in DOMAIN r.entries /\ k \in 1 .. r.entries[i].text
    BY <1>1, <2>1, TextFacts
  <2>3. i \in DOMAIN q.entries /\ r.entries[i].text <= q.entries[i].text
    BY <2>2 DEF Within
  <2>4. r.entries[i].text \in 1 .. LineLimit /\ q.entries[i].text \in 1 .. LineLimit
    BY <2>2, <2>3, TableFacts DEF Numbered
  <2>5. k \in 1 .. q.entries[i].text
    BY <2>2, <2>3, <2>4, QueueAssumption
  <2> QED BY <2>1, <2>3, <2>5, TextFacts
<1>3. Text(r) \in SUBSET Text(q)
  BY <1>2
<1>4. IsFiniteSet(Text(q))
  BY TextFacts
<1> QED BY <1>3, <1>4, FS_Subset

\* The parts of a queue value.
LEMMA GoodParts ==
    ASSUME NEW q, Good(q)
    PROVE /\ Numbered(q.entries, q.next) /\ q.next \in Nat /\ q.bytes \in Nat
          /\ q.rotation \in Seq(Objects) /\ IsInjective(q.rotation)
          /\ Len(q.rotation) \in Nat
          /\ \A k \in 1 .. Len(q.rotation) : q.rotation[k] \in Objects
<1>1. /\ Numbered(q.entries, q.next) /\ q.next \in Nat /\ q.bytes \in Nat
      /\ q.rotation \in Seq(Objects) /\ IsInjective(q.rotation)
  BY DEF Good, Queues, Numbered
<1>2. Len(q.rotation) \in Nat /\ \A k \in 1 .. Len(q.rotation) : q.rotation[k] \in Objects
  BY <1>1, LenProperties, ElementOfSeq
<1> QED BY <1>1, <1>2

\* The byte total is exact and the rotation names owners of lists only.
Counted(q) ==
    /\ q.bytes = Cardinality(Text(q))
    /\ \A k \in 1 .. Len(q.rotation) : q.rotation[k] \in Owners(q)

\* Recount makes both so, and drops nobody who still has lists.
LEMMA RecountFacts ==
    ASSUME NEW q, Good(q), NEW r, r = Recount(q)
    PROVE /\ Good(r) /\ Counted(r) /\ r.entries = q.entries /\ r.next = q.next
          /\ Kept(r.rotation, q.rotation, Owners(q)) /\ Owners(r) = Owners(q)
<1>1. /\ Numbered(q.entries, q.next) /\ q.next \in Nat
      /\ q.rotation \in Seq(Objects) /\ IsInjective(q.rotation)
  BY GoodParts
<1>2. PICK line : line = Keeping(q.rotation, Owners(q))
  OBVIOUS
<1>3. line \in Seq(Objects) /\ IsInjective(line) /\ Kept(line, q.rotation, Owners(q))
  BY <1>1, <1>2, KeepingFacts
<1>4. PICK n \in Nat : n = Cardinality(Text(q))
  BY <1>1, TextFacts
<1>5. r = [q EXCEPT !.bytes = n, !.rotation = line]
  BY <1>2, <1>4 DEF Recount
<1>6. q \in Queues
  BY DEF Good
<1>7. r \in Queues /\ r.entries = q.entries /\ r.next = q.next /\ r.rotation = line /\ r.bytes = n
  BY <1>3, <1>5, <1>6 DEF Queues
<1>8. Text(r) = Text(q) /\ Owners(r) = Owners(q)
  BY <1>7 DEF Text, Owners
<1>9. Good(r)
  BY <1>1, <1>3, <1>7 DEF Good, Numbered
<1>10. \A k \in 1 .. Len(line) : line[k] \in Owners(q)
  BY <1>3 DEF Kept
<1>11. Counted(r)
  BY <1>4, <1>7, <1>8, <1>10 DEF Counted
<1> QED BY <1>3, <1>7, <1>8, <1>9, <1>11

Swapped(q, T, line) == [q EXCEPT !.entries = T, !.rotation = line]

\* The entries of a queue may be replaced by others with the same numbers.
LEMMA Replaced ==
    ASSUME NEW q, Good(q), NEW T \in Tables, DOMAIN T \subseteq DOMAIN q.entries,
           NEW line \in Seq(Objects), IsInjective(line),
           NEW r, r = Swapped(q, T, line)
    PROVE Good(r) /\ r.entries = T /\ r.next = q.next /\ r.rotation = line
<1>1. q \in Queues /\ DOMAIN q.entries \subseteq 1 .. q.next
  BY DEF Good
<1>2. r \in Queues /\ r.entries = T /\ r.next = q.next /\ r.rotation = line
  BY <1>1 DEF Queues, Swapped
<1> QED BY <1>1, <1>2 DEF Good

\* A line that keeps the places of the executors in a set.
Places(r, line, set) ==
    \A k \in 1 .. Len(line) : line[k] \in set => \E j \in 1 .. Len(r) : r[j] = line[k] /\ j <= k

\* Queue r is queue q with lists taken out and the rest recounted.
From(r, q) ==
    /\ Good(r) /\ Counted(r) /\ Within(r, q)
    /\ \A i \in DOMAIN r.entries : r.entries[i] = q.entries[i]
    /\ r.bytes <= Cardinality(Text(q))
    /\ Places(r.rotation, q.rotation, Owners(r))

\* Retain takes lists out.
LEMMA RetainFacts ==
    ASSUME NEW q, Good(q), NEW keep \in SUBSET DOMAIN q.entries, NEW r, r = Retain(q, keep)
    PROVE From(r, q) /\ DOMAIN r.entries = keep
<1>1. Numbered(q.entries, q.next) /\ q.next \in Nat /\ q.rotation \in Seq(Objects) /\ IsInjective(q.rotation)
  BY GoodParts
<1>2. PICK T : T = [i \in keep |-> q.entries[i]]
  OBVIOUS
<1>3. \A i \in DOMAIN q.entries : q.entries[i] \in Entry /\ i \in Nat
  BY <1>1, TableFacts DEF Numbered
<1>4. T \in [keep -> Entry] /\ keep \in SUBSET Nat
  BY <1>2, <1>3
<1>5. T \in Tables /\ DOMAIN T = keep /\ \A i \in keep : T[i] = q.entries[i]
  BY <1>2, <1>4 DEF Tables
<1>6. PICK p : p = [q EXCEPT !.entries = T]
  OBVIOUS
<1>7. p = Swapped(q, T, q.rotation)
  BY <1>6 DEF Good, Queues, Swapped
<1>8. Good(p) /\ p.entries = T /\ p.next = q.next /\ p.rotation = q.rotation
  <2>1. T \in Tables /\ DOMAIN T \subseteq DOMAIN q.entries
    BY <1>5
  <2>2. q.rotation \in Seq(Objects) /\ IsInjective(q.rotation)
    BY <1>1
  <2> QED BY ONLY Good(q), <2>1, <2>2, <1>7, Replaced
<1>9. r = Recount(p)
  BY <1>2, <1>6 DEF Retain, Restrict
<1>10. /\ Good(r) /\ Counted(r) /\ r.entries = T /\ r.next = q.next
       /\ Kept(r.rotation, q.rotation, Owners(r))
  BY <1>8, <1>9, RecountFacts
<1>11. ASSUME NEW i \in keep PROVE T[i].text <= q.entries[i].text
  <2>1. T[i] = q.entries[i] /\ q.entries[i].text \in 1 .. LineLimit
    BY <1>1, <1>5, TableFacts DEF Numbered
  <2> QED BY <2>1, QueueAssumption
<1>12. Within(r, q)
  BY <1>5, <1>10, <1>11 DEF Within
<1>13. Numbered(r.entries, r.next)
  BY <1>10, GoodParts
<1>14. r.bytes <= Cardinality(Text(q))
  BY <1>1, <1>10, <1>12, <1>13, FewerBytes DEF Counted
<1>15. Places(r.rotation, q.rotation, Owners(r))
  BY <1>10 DEF Kept, Places
<1> QED BY <1>5, <1>10, <1>12, <1>14, <1>15 DEF From

\* Queue::cancel takes lists out.
LEMMA CancelFacts ==
    ASSUME NEW q, Good(q), NEW targets, NEW r, r = Cancel(q, targets)
    PROVE From(r, q)
<1>1. PICK keep : keep = {i \in DOMAIN q.entries : q.entries[i].executor \notin targets}
  OBVIOUS
<1>2. keep \in SUBSET DOMAIN q.entries /\ r = Retain(q, keep)
  BY <1>1 DEF Cancel
<1> QED BY <1>2, RetainFacts

LiveOnly(q, world) == \A i \in DOMAIN q.entries : world[q.entries[i].executor].kind = "live"

\* Queue::reconcile takes the lists of dead executors out.
LEMMA ReconcileFacts ==
    ASSUME NEW q, Good(q), NEW world, NEW r, r = Reconcile(q, world)
    PROVE From(r, q) /\ LiveOnly(r, world)
<1>1. PICK keep : keep = {i \in DOMAIN q.entries : world[q.entries[i].executor].kind = "live"}
  OBVIOUS
<1>2. keep \in SUBSET DOMAIN q.entries /\ r = Retain(q, keep)
  BY <1>1 DEF Reconcile
<1>3. From(r, q) /\ DOMAIN r.entries = keep
  BY <1>2, RetainFacts
<1>4. \A i \in keep : r.entries[i] = q.entries[i]
  BY <1>3 DEF From
<1> QED BY <1>1, <1>3, <1>4 DEF LiveOnly

\* The queue with one more list.
Grown(r, q, o, due, text) ==
    /\ Good(r) /\ r.rotation = q.rotation /\ r.next = q.next + 1
    /\ DOMAIN r.entries = DOMAIN q.entries \cup {q.next + 1}
    /\ \A i \in DOMAIN q.entries : r.entries[i] = q.entries[i]
    /\ r.entries[q.next + 1].executor = o /\ r.entries[q.next + 1].due = due
    /\ Cardinality(Text(r)) <= q.bytes + text

\* Admission adds the length of the new list to the byte total, which stays exact.
LEMMA InsertedFacts ==
    ASSUME NEW q, Good(q), Counted(q), NEW o \in Objects, NEW due \in Nat,
           NEW text \in 1 .. LineLimit, NEW r, r = Inserted(q, o, due, text)
    PROVE Grown(r, q, o, due, text)
<1>1. PICK n \in Nat : n = q.next
  BY GoodParts
<1>2. Numbered(q.entries, n) /\ q.bytes \in Nat
  BY <1>1, GoodParts
<1>3. DOMAIN q.entries \subseteq 1 .. n /\ n + 1 \notin DOMAIN q.entries
  BY <1>2 DEF Numbered
<1>4. PICK e \in Entry : e = [executor |-> o, due |-> due, text |-> text]
  BY DEF Entry
<1>5. PICK D \in SUBSET Nat : D = DOMAIN q.entries \cup {n + 1}
  <2>1. DOMAIN q.entries \subseteq Nat
    BY <1>3
  <2>2. DOMAIN q.entries \cup {n + 1} \in SUBSET Nat
    BY ONLY <2>1, n \in Nat
  <2> QED BY <2>2
<1>6. PICK T : T = [i \in D |-> IF i = n + 1 THEN e ELSE q.entries[i]]
  OBVIOUS
<1>7. \A i \in DOMAIN q.entries : q.entries[i] \in Entry
  BY <1>2, TableFacts DEF Numbered
<1>8. T \in [D -> Entry]
  BY <1>5, <1>6, <1>7
<1>9. T \in Tables /\ DOMAIN T = D
  BY <1>8 DEF Tables
<1>10. T[n + 1] = e /\ \A i \in DOMAIN q.entries : T[i] = q.entries[i]
  BY <1>3, <1>5, <1>6
<1>11. q \in Queues
  BY DEF Good
<1>12. r = [q EXCEPT !.next = n + 1, !.bytes = q.bytes + text, !.entries = T]
  BY <1>1, <1>4, <1>5, <1>6, <1>11 DEF Inserted, Queues
<1>13. q.bytes + text \in Nat /\ n + 1 \in Nat
  BY <1>2, QueueAssumption
<1>14. r \in Queues /\ r.entries = T /\ r.next = n + 1 /\ r.rotation = q.rotation
  BY <1>9, <1>11, <1>12, <1>13 DEF Queues
<1>15. D \subseteq 1 .. n + 1
  BY <1>3, <1>5
<1>16. Good(r)
  BY <1>9, <1>14, <1>15 DEF Good
<1>17. Numbered(r.entries, r.next) /\ r.next \in Nat
  BY <1>16, GoodParts
<1>18. PICK new : new = {n + 1} \X (1 .. text)
  OBVIOUS
<1>19. Text(r) \in SUBSET (Text(q) \cup new)
  <2>1. ASSUME NEW p \in Text(r) PROVE p \in Text(q) \cup new
    <3>1. PICK i, k : p = <<i, k>>
      BY <1>17, TextFacts
    <3>2. i \in D /\ k \in 1 .. T[i].text
      BY <1>9, <1>14, <1>17, <3>1, TextFacts
    <3>3. CASE i = n + 1
      BY <1>4, <1>10, <1>18, <3>1, <3>2, <3>3
    <3>4. CASE i # n + 1
      <4>1. i \in DOMAIN q.entries /\ k \in 1 .. q.entries[i].text
        BY <1>5, <1>10, <3>2, <3>4
      <4> QED BY <1>1, <1>2, <3>1, <4>1, TextFacts
    <3> QED BY <3>3, <3>4
  <2> QED BY <2>1
<1>20. IsFiniteSet(Text(q)) /\ Cardinality(Text(q)) = q.bytes
  BY <1>1, <1>2, TextFacts DEF Counted
<1>21. IsFiniteSet(new) /\ Cardinality(new) = text
  <2>1. text \in Nat /\ 1 <= text
    BY QueueAssumption
  <2>2. IsFiniteSet(1 .. text) /\ Cardinality(1 .. text) = IF 1 > text THEN 0 ELSE text - 1 + 1
    BY <2>1, FS_Interval
  <2>3. IsFiniteSet({n + 1}) /\ Cardinality({n + 1}) = 1
    BY FS_Singleton
  <2>4. IsFiniteSet(new) /\ Cardinality(new) = Cardinality({n + 1}) * Cardinality(1 .. text)
    BY <1>18, <2>2, <2>3, FS_Product
  <2> QED BY <2>1, <2>2, <2>3, <2>4
<1>22. IsFiniteSet(Text(q) \cup new) /\ Cardinality(Text(q) \cup new) <= q.bytes + text
  <2>1. /\ IsFiniteSet(Text(q) \cup new) /\ IsFiniteSet(Text(q) \cap new)
        /\ Cardinality(Text(q) \cup new)
             = Cardinality(Text(q)) + Cardinality(new) - Cardinality(Text(q) \cap new)
    BY <1>20, <1>21, FS_Union, FS_Intersection
  <2>2. Cardinality(Text(q) \cap new) \in Nat
    BY <2>1, FS_CardinalityType
  <2> QED BY <1>2, <1>20, <1>21, <2>1, <2>2, QueueAssumption
<1>23. Cardinality(Text(r)) <= Cardinality(Text(q) \cup new)
  BY <1>19, <1>22, FS_Subset
<1>24. Cardinality(Text(r)) <= q.bytes + text
  <2>1. Cardinality(Text(r)) \in Nat /\ Cardinality(Text(q) \cup new) \in Nat
    BY <1>17, <1>22, TextFacts, FS_CardinalityType
  <2> QED BY <1>13, <1>22, <1>23, <2>1
<1>25. r.entries[n + 1].executor = o /\ r.entries[n + 1].due = due
  BY <1>4, <1>10, <1>14
<1> QED BY <1>1, <1>5, <1>9, <1>10, <1>14, <1>16, <1>24, <1>25 DEF Grown

-----------------------------------------------------------------------------
(* Turns.                                                                   *)

\* Executor o has a list that is due at time t.
Due(q, o, t) == \E i \in DOMAIN q.entries : q.entries[i].executor = o /\ q.entries[i].due <= t

\* The ready lists of an executor.
LEMMA ReadyIffDue ==
    ASSUME NEW q, NEW o
    PROVE /\ Owned(q, o) \cap Ready(q) # {} <=> Due(q, o, now)
          /\ o \in ReadyOwners(q) <=> Due(q, o, now)
          /\ o \in Owners(q) <=> \E i \in DOMAIN q.entries : q.entries[i].executor = o
<1>1. \A i : i \in Owned(q, o) \cap Ready(q) <=>
              i \in DOMAIN q.entries /\ q.entries[i].executor = o /\ q.entries[i].due <= now
  BY DEF Owned, Ready
<1>2. Owned(q, o) \cap Ready(q) # {} <=> Due(q, o, now)
  BY <1>1 DEF Due
<1>3. o \in ReadyOwners(q) <=> Due(q, o, now)
  BY DEF ReadyOwners, Ready, Due
<1> QED BY <1>2, <1>3 DEF Owners

\* List i of executor o goes before its other ready lists.
Leads(q, i, o) ==
    /\ i \in DOMAIN q.entries /\ q.entries[i].executor = o /\ q.entries[i].due <= now
    /\ \A j \in DOMAIN q.entries :
          q.entries[j].executor = o /\ q.entries[j].due <= now => j = i \/ Earlier(q, i, j)

\* An executor that has ready lists has a first one.
LEMMA FirstLeads ==
    ASSUME NEW q, Good(q), NEW o, Due(q, o, now)
    PROVE Leads(q, FirstOf(q, o), o)
<1>1. PICK S : S = Owned(q, o) \cap Ready(q)
  OBVIOUS
<1>2. \A i : i \in S <=> i \in DOMAIN q.entries /\ q.entries[i].executor = o /\ q.entries[i].due <= now
  BY <1>1 DEF Owned, Ready
<1>3. \A i \in S : i \in Nat /\ q.entries[i].due \in Nat
  BY <1>2, GoodParts, TableFacts DEF Numbered
<1>4. S # {}
  BY <1>2 DEF Due
<1>5. PICK times : times = {q.entries[i].due : i \in S}
  OBVIOUS
<1>6. times \subseteq Nat /\ times # {}
  BY <1>3, <1>4, <1>5
<1>7. PICK d \in times : \A e \in times : d <= e
  BY <1>6, LeastNatural
<1>8. PICK soon : soon = {i \in S : q.entries[i].due = d}
  OBVIOUS
<1>9. soon \subseteq Nat /\ soon # {}
  BY <1>3, <1>5, <1>8
<1>10. PICK f \in soon : \A i \in soon : f <= i
  BY <1>9, LeastNatural
<1>11. f \in S /\ q.entries[f].due = d
  BY <1>8, <1>10
<1>12. ASSUME NEW j \in S, j # f PROVE Earlier(q, f, j)
  <2>1. d <= q.entries[j].due /\ d \in Nat /\ q.entries[j].due \in Nat /\ f \in Nat /\ j \in Nat
    BY <1>3, <1>5, <1>6, <1>7, <1>11
  <2>2. CASE q.entries[j].due = d
    <3>1. j \in soon
      BY <1>8, <2>2
    <3>2. f <= j
      BY <1>10, <3>1
    <3>3. f < j
      BY <1>12, <2>1, <3>2
    <3> QED BY <1>11, <2>2, <3>3 DEF Earlier
  <2>3. CASE q.entries[j].due # d
    <3>1. d < q.entries[j].due
      BY <2>1, <2>3
    <3> QED BY <1>11, <3>1 DEF Earlier
  <2> QED BY <2>2, <2>3
<1>13. \E i \in S : \A j \in S \ {i} : Earlier(q, i, j)
  BY <1>11, <1>12
<1>14. FirstOf(q, o) = CHOOSE i \in S : \A j \in S \ {i} : Earlier(q, i, j)
  BY <1>1 DEF FirstOf
<1>15. FirstOf(q, o) \in S /\ \A j \in S \ {FirstOf(q, o)} : Earlier(q, FirstOf(q, o), j)
  BY <1>13, <1>14
<1> QED BY <1>2, <1>15 DEF Leads

\* Lists of a queue are strictly ordered by due time and number.
LEMMA EarlierOrders ==
    ASSUME NEW q, Good(q)
    PROVE /\ \A i \in DOMAIN q.entries : ~Earlier(q, i, i)
          /\ \A i, j, k \in DOMAIN q.entries : Earlier(q, i, j) /\ Earlier(q, j, k) => Earlier(q, i, k)
          /\ \A i, j \in DOMAIN q.entries : i = j \/ Earlier(q, i, j) \/ Earlier(q, j, i)
<1>1. \A i \in DOMAIN q.entries : i \in Nat /\ q.entries[i].due \in Nat
  BY GoodParts, TableFacts DEF Numbered
<1> QED BY <1>1 DEF Earlier

\* A line of all executors that are ready, each once, where those of an older
\* line have lost no place.
Enrolled(line, q) ==
    /\ line \in Seq(Objects) /\ IsInjective(line) /\ Len(line) \in Nat
    /\ Len(line) <= Cardinality(Objects)
    /\ \A j \in 1 .. Len(line) : line[j] \in Objects /\ Due(q, line[j], now)
    /\ \A o : Due(q, o, now) => \E j \in 1 .. Len(line) : line[j] = o
    /\ \A k \in 1 .. Len(q.rotation) :
          Due(q, q.rotation[k], now) => \E j \in 1 .. Len(line) : line[j] = q.rotation[k] /\ j <= k

\* The executors that are newly ready, each once.
LEMMA NewcomersList ==
    ASSUME NEW q, Good(q), NEW s, s = Newcomers(q)
    PROVE Lists(s, ReadyOwners(q) \ Range(q.rotation))
<1>1. PICK new : new = ReadyOwners(q) \ Range(q.rotation)
  OBVIOUS
<1>2. PICK R : R = {p \in new \X new : Earlier(q, FirstOf(q, p[1]), FirstOf(q, p[2]))}
  OBVIOUS
<1>3. \A x, y \in new : <<x, y>> \in R <=> Earlier(q, FirstOf(q, x), FirstOf(q, y))
  BY <1>2
<1>4. \A x \in new : Leads(q, FirstOf(q, x), x)
  BY <1>1, FirstLeads, ReadyIffDue
<1>5. \A x \in new : FirstOf(q, x) \in DOMAIN q.entries /\ q.entries[FirstOf(q, x)].executor = x
  BY <1>4 DEF Leads
<1>6. StrictOrder(new, R)
  <2>1. \A x \in new : <<x, x>> \notin R
    BY <1>3, <1>5, EarlierOrders
  <2>2. ASSUME NEW x \in new, NEW y \in new, NEW z \in new, <<x, y>> \in R, <<y, z>> \in R
        PROVE <<x, z>> \in R
    <3>1. Earlier(q, FirstOf(q, x), FirstOf(q, y)) /\ Earlier(q, FirstOf(q, y), FirstOf(q, z))
      BY <1>3, <2>2
    <3>2. Earlier(q, FirstOf(q, x), FirstOf(q, z))
      BY <1>5, <3>1, EarlierOrders
    <3> QED BY <1>3, <3>2
  <2>3. ASSUME NEW x \in new, NEW y \in new, x # y
        PROVE <<x, y>> \in R \/ <<y, x>> \in R
    <3>1. FirstOf(q, x) # FirstOf(q, y)
      BY <1>5, <2>3
    <3>2. \/ Earlier(q, FirstOf(q, x), FirstOf(q, y))
          \/ Earlier(q, FirstOf(q, y), FirstOf(q, x))
      BY <1>5, <3>1, EarlierOrders
    <3> QED BY <1>3, <3>2
  <2> QED BY <2>1, <2>2, <2>3 DEF StrictOrder
<1>7. new \in SUBSET Objects
  <2>1. \A i \in DOMAIN q.entries : q.entries[i].executor \in Objects
    BY GoodParts, TableFacts DEF Numbered
  <2> QED BY <1>5, <2>1
<1>8. IsFiniteSet(new)
  BY <1>7, QueueAssumption, FS_Subset
<1>9. s = InOrder(new, R)
  BY <1>1, <1>2 DEF Newcomers
<1> QED BY <1>1, <1>6, <1>8, <1>9, InOrderLists

\* Queue::take lines up exactly the executors that are ready.
LEMMA EnrolFacts ==
    ASSUME NEW q, Good(q), NEW line, line = Enrol(q)
    PROVE Enrolled(line, q)
<1>1. PICK old : old = q.rotation
  OBVIOUS
<1>2. old \in Seq(Objects) /\ IsInjective(old)
  BY <1>1, GoodParts
<1>3. PICK ready : ready = ReadyOwners(q)
  OBVIOUS
<1>4. \A o : o \in ready <=> Due(q, o, now)
  BY <1>3, ReadyIffDue
<1>5. ready \in SUBSET Objects
  <2>1. \A i \in DOMAIN q.entries : q.entries[i].executor \in Objects
    BY GoodParts, TableFacts DEF Numbered
  <2> QED BY <1>4, <2>1 DEF Due
<1>6. PICK a : a = Keeping(old, ready)
  OBVIOUS
<1>7. a \in Seq(Objects) /\ IsInjective(a) /\ Kept(a, old, ready)
  BY <1>2, <1>6, KeepingFacts
<1>8. PICK new : new = ready \ Range(old)
  OBVIOUS
<1>9. PICK b : b = Newcomers(q)
  OBVIOUS
<1>10. Lists(b, new)
  BY <1>1, <1>3, <1>8, <1>9, NewcomersList
<1>11. PICK m \in Nat, n \in Nat : m = Len(a) /\ n = Len(b)
  BY <1>7, <1>10, LenProperties DEF Lists
<1>12. b \in Seq(new)
  BY <1>10 DEF Lists
<1>13. \A j \in 1 .. n : b[j] \in new
  BY <1>11, <1>12, ElementOfSeq
<1>14. b \in Seq(Objects)
  <2>1. new \subseteq Objects
    BY <1>5, <1>8
  <2>2. b \in [1 .. n -> new]
    BY ONLY <1>11, <1>12, n \in Nat, LenProperties
  <2> QED BY <1>11, <2>1, <2>2
<1>15. line = a \o b
  BY <1>1, <1>3, <1>6, <1>9 DEF Enrol
<1>16. /\ line \in Seq(Objects) /\ Len(line) = m + n
       /\ \A i \in 1 .. Len(line) : line[i] = IF i <= Len(a) THEN a[i] ELSE b[i - Len(a)]
  BY ONLY ConcatProperties, <1>7, <1>11, <1>14, <1>15
<1>17. \A i \in 1 .. m : line[i] = a[i]
  BY <1>11, <1>16
<1>18. ASSUME NEW i \in 1 .. n PROVE i + m \in 1 .. Len(line) /\ line[i + m] = b[i]
  <2>1. i + m \in 1 .. Len(line) /\ ~(i + m <= m) /\ (i + m) - m = i
    BY <1>16
  <2>2. line[i + m] = b[(i + m) - m]
    BY <1>11, <1>16, <2>1
  <2> QED BY <2>1, <2>2
<1>19. \A i \in 1 .. Len(line) : i \in 1 .. m \/ \E k \in 1 .. n : i = k + m
  <2>1. ASSUME NEW i \in 1 .. Len(line), i \notin 1 .. m PROVE \E k \in 1 .. n : i = k + m
    <3>1. i - m \in 1 .. n /\ i = (i - m) + m
      BY <1>11, <1>16, <2>1
    <3> QED BY <3>1
  <2> QED BY <2>1
<1>20. \A j \in 1 .. m : a[j] \in ready /\ a[j] \in Range(old)
  <2>1. \A j \in 1 .. m : a[j] \in ready /\ \E k \in 1 .. Len(old) : a[j] = old[k]
    BY <1>7, <1>11 DEF Kept
  <2>2. DOMAIN old = 1 .. Len(old)
    BY <1>2, LenProperties
  <2> QED BY <2>1, <2>2 DEF Range
<1>21. \A j \in 1 .. n : b[j] \in ready /\ b[j] \notin Range(old)
  BY <1>8, <1>13
<1>22. \A j \in 1 .. Len(line) : line[j] \in ready
  BY <1>17, <1>18, <1>19, <1>20, <1>21
<1>23. ASSUME NEW i \in 1 .. Len(line), NEW j \in 1 .. Len(line), line[i] = line[j] PROVE i = j
  <2>1. CASE i \in 1 .. m /\ j \in 1 .. m
    <3>1. a[i] = a[j] /\ DOMAIN a = 1 .. m
      BY <1>7, <1>11, <1>17, <1>23, <2>1, LenProperties
    <3> QED BY <1>7, <2>1, <3>1 DEF IsInjective
  <2>2. CASE i \notin 1 .. m /\ j \notin 1 .. m
    <3>1. PICK k \in 1 .. n, l \in 1 .. n : i = k + m /\ j = l + m
      BY <1>19, <2>2
    <3>2. b[k] = b[l]
      BY <1>18, <1>23, <3>1
    <3> QED BY <1>10, <1>11, <3>1, <3>2 DEF Lists
  <2>3. CASE i \in 1 .. m /\ j \notin 1 .. m
    <3>1. PICK l \in 1 .. n : j = l + m
      BY <1>19, <2>3
    <3>2. a[i] = b[l]
      BY <1>17, <1>18, <1>23, <2>3, <3>1
    <3> QED BY <1>20, <1>21, <2>3, <3>2
  <2>4. CASE i \notin 1 .. m /\ j \in 1 .. m
    <3>1. PICK k \in 1 .. n : i = k + m
      BY <1>19, <2>4
    <3>2. b[k] = a[j]
      BY <1>17, <1>18, <1>23, <2>4, <3>1
    <3> QED BY <1>20, <1>21, <2>4, <3>2
  <2> QED BY <2>1, <2>2, <2>3, <2>4
<1>24. DOMAIN line = 1 .. Len(line) /\ Len(line) \in Nat
  BY <1>16, LenProperties
<1>25. IsInjective(line)
  BY <1>23, <1>24 DEF IsInjective
<1>26. Len(line) <= Cardinality(Objects)
  <2>1. line \in [1 .. Len(line) -> Objects]
    BY <1>16, <1>24
  <2>2. line \in Injection(1 .. Len(line), Objects)
    BY <1>25, <2>1 DEF Injection
  <2>3. IsFiniteSet(1 .. Len(line)) /\ Cardinality(1 .. Len(line)) = Len(line)
    <3>1. 1 \in Int /\ Len(line) \in Int /\ Len(line) \in Nat
      BY <1>24
    <3>2. /\ IsFiniteSet(1 .. Len(line))
          /\ Cardinality(1 .. Len(line)) = IF 1 > Len(line) THEN 0 ELSE Len(line) - 1 + 1
      BY ONLY <3>1, FS_Interval
    <3> QED BY <3>1, <3>2
  <2>4. IsFiniteSet(Objects)
    BY QueueAssumption
  <2>5. Cardinality(1 .. Len(line)) <= Cardinality(Objects)
    BY ONLY <2>2, <2>4, FS_Injection
  <2> QED BY <2>3, <2>5
<1>27. ASSUME NEW k \in 1 .. Len(old), old[k] \in ready
       PROVE \E j \in 1 .. Len(line) : line[j] = old[k] /\ j <= k
  <2>1. PICK j \in 1 .. m : a[j] = old[k] /\ j <= k
    BY <1>7, <1>11, <1>27 DEF Kept
  <2>2. j \in 1 .. Len(line)
    BY <1>11, <1>16
  <2> QED BY <1>17, <2>1, <2>2
<1>28. ASSUME NEW o \in ready PROVE \E j \in 1 .. Len(line) : line[j] = o
  <2>1. CASE o \in Range(old)
    <3>1. PICK k \in 1 .. Len(old) : old[k] = o
      BY <1>2, <2>1, LenProperties DEF Range
    <3> QED BY <1>27, <3>1
  <2>2. CASE o \notin Range(old)
    <3>1. PICK j \in 1 .. n : b[j] = o
      BY <1>8, <1>10, <1>11, <2>2 DEF Lists
    <3> QED BY <1>18, <3>1
  <2> QED BY <2>1, <2>2
<1>29. \A j \in 1 .. Len(line) : line[j] \in Objects /\ Due(q, line[j], now)
  BY <1>4, <1>5, <1>22
<1>30. \A o : Due(q, o, now) => \E j \in 1 .. Len(line) : line[j] = o
  BY <1>4, <1>28
<1>31. \A k \in 1 .. Len(old) : Due(q, old[k], now) => \E j \in 1 .. Len(line) : line[j] = old[k] /\ j <= k
  BY <1>4, <1>27
<1> QED BY <1>1, <1>16, <1>24, <1>25, <1>26, <1>29, <1>30, <1>31 DEF Enrolled

-----------------------------------------------------------------------------
(* Service.                                                                 *)

\* In line t everyone behind the head of the line has moved up one place.
MovedUp(t, line) == \A k \in 2 .. Len(line) : k - 1 \in 1 .. Len(t) /\ t[k - 1] = line[k]

\* The head of the line leaves it or goes to its end.
LEMMA LineMoves ==
    ASSUME NEW line \in Seq(Objects), IsInjective(line), line # <<>>,
           NEW t, t = Tail(line) \/ t = Append(Tail(line), Head(line))
    PROVE t \in Seq(Objects) /\ IsInjective(t) /\ MovedUp(t, line)
<1>1. PICK n \in Nat : n = Len(line) /\ n >= 1 /\ DOMAIN line = 1 .. n
  <2>1. Len(line) \in Nat /\ DOMAIN line = 1 .. Len(line)
    BY LenProperties
  <2>2. Len(line) # 0
    BY EmptySeq
  <2>3. Len(line) >= 1
    BY <2>1, <2>2
  <2> QED BY <2>1, <2>3
<1>2. \A i, j \in 1 .. n : line[i] = line[j] => i = j
  BY <1>1 DEF IsInjective
<1>3. PICK u : u = Tail(line)
  OBVIOUS
<1>4. u \in Seq(Objects) /\ Len(u) = n - 1 /\ \A i \in 1 .. n - 1 : u[i] = line[i + 1]
  BY <1>1, <1>3, HeadTailProperties
<1>5. Head(line) = line[1] /\ Head(line) \in Objects
  BY HeadTailProperties, <1>1
<1>6. ASSUME NEW k \in 2 .. n PROVE k - 1 \in 1 .. n - 1 /\ u[k - 1] = line[k]
  <2>1. k - 1 \in 1 .. n - 1 /\ (k - 1) + 1 = k
    OBVIOUS
  <2> QED BY <1>4, <2>1
<1>7. ASSUME NEW i \in 1 .. n - 1, NEW j \in 1 .. n - 1, u[i] = u[j] PROVE i = j
  <2>1. i + 1 \in 1 .. n /\ j + 1 \in 1 .. n /\ line[i + 1] = line[j + 1]
    BY <1>4, <1>7
  <2>2. i + 1 = j + 1
    BY <1>2, <2>1
  <2> QED BY <2>2
<1>8. CASE t = u
  <2>1. DOMAIN t = 1 .. n - 1
    BY <1>4, <1>8, LenProperties
  <2> QED BY <1>1, <1>4, <1>6, <1>7, <1>8, <2>1 DEF IsInjective, MovedUp
<1>9. CASE t = Append(u, Head(line))
  <2>1. /\ t \in Seq(Objects) /\ Len(t) = n
        /\ \A i \in 1 .. n - 1 : t[i] = u[i]
        /\ t[n] = line[1]
    <3>1. /\ t \in Seq(Objects) /\ Len(t) = Len(u) + 1
          /\ \A i \in 1 .. Len(u) : t[i] = u[i]
          /\ t[Len(u) + 1] = Head(line)
      BY <1>4, <1>5, <1>9, AppendProperties
    <3>2. Len(u) + 1 = n
      BY <1>1, <1>4
    <3> QED BY <1>4, <1>5, <3>1, <3>2
  <2>2. DOMAIN t = 1 .. n
    BY <2>1, LenProperties
  <2>3. ASSUME NEW i \in 1 .. n - 1 PROVE t[i] # t[n]
    <3>1. t[i] = line[i + 1] /\ i + 1 \in 1 .. n /\ i + 1 # 1 /\ 1 \in 1 .. n
      BY <1>1, <1>4, <2>1
    <3>2. line[i + 1] # line[1]
      BY <1>2, <3>1
    <3> QED BY <2>1, <3>1, <3>2
  <2>4. ASSUME NEW i \in 1 .. n, NEW j \in 1 .. n, t[i] = t[j] PROVE i = j
    <3>1. (i \in 1 .. n - 1 \/ i = n) /\ (j \in 1 .. n - 1 \/ j = n)
      OBVIOUS
    <3>2. CASE i \in 1 .. n - 1 /\ j \in 1 .. n - 1
      BY <1>7, <2>1, <2>4, <3>2
    <3> QED BY <2>3, <2>4, <3>1, <3>2
  <2>5. ASSUME NEW k \in 2 .. n PROVE k - 1 \in 1 .. n /\ t[k - 1] = line[k]
    <3>1. k - 1 \in 1 .. n - 1 /\ k - 1 \in 1 .. n
      OBVIOUS
    <3> QED BY <1>6, <2>1, <3>1
  <2> QED BY <1>1, <2>1, <2>2, <2>4, <2>5 DEF IsInjective, MovedUp
<1> QED BY <1>3, <1>8, <1>9

\* Queue r is queue q after list i has lost a command or is gone.
Served(r, q, i, line) ==
    /\ Good(r) /\ Counted(r) /\ Within(r, q)
    /\ r.bytes <= Cardinality(Text(q))
    /\ \A j \in DOMAIN q.entries : j # i => j \in DOMAIN r.entries /\ r.entries[j] = q.entries[j]
    /\ \A k \in 2 .. Len(line) :
          line[k] \in Owners(r) => \E j \in 1 .. Len(r.rotation) : r.rotation[j] = line[k] /\ j <= k - 1

\* A table that differs from the queue's in list i only, which is no longer.
Shorter(T, q, i) ==
    /\ T \in Tables /\ DOMAIN T \subseteq DOMAIN q.entries
    /\ \A j \in DOMAIN q.entries : j # i => j \in DOMAIN T /\ T[j] = q.entries[j]
    /\ i \in DOMAIN T => /\ T[i].executor = q.entries[i].executor
                         /\ T[i].due = q.entries[i].due
                         /\ T[i].text <= q.entries[i].text

\* Serving a list and moving the line leaves a queue well formed.
LEMMA ServedFacts ==
    ASSUME NEW q, Good(q), NEW i, NEW line \in Seq(Objects), IsInjective(line), line # <<>>,
           NEW t, t = Tail(line) \/ t = Append(Tail(line), Head(line)),
           NEW T, Shorter(T, q, i), NEW r, r = Recount(Swapped(q, T, t))
    PROVE Served(r, q, i, line)
<1>1. t \in Seq(Objects) /\ IsInjective(t) /\ MovedUp(t, line)
  BY LineMoves
<1>2. T \in Tables /\ DOMAIN T \subseteq DOMAIN q.entries
  BY DEF Shorter
<1>3. PICK p : p = Swapped(q, T, t)
  OBVIOUS
<1>4. Good(p) /\ p.entries = T /\ p.next = q.next /\ p.rotation = t
  BY ONLY Good(q), <1>1, <1>2, <1>3, Replaced
<1>5. /\ Good(r) /\ Counted(r) /\ r.entries = T /\ r.next = q.next
      /\ Kept(r.rotation, t, Owners(r))
  BY <1>3, <1>4, RecountFacts
<1>6. Within(r, q)
  <2>1. ASSUME NEW j \in DOMAIN T
        PROVE /\ T[j].executor = q.entries[j].executor /\ T[j].due = q.entries[j].due
              /\ T[j].text <= q.entries[j].text
    <3>1. CASE j = i
      BY <2>1, <3>1 DEF Shorter
    <3>2. CASE j # i
      <4>1. T[j] = q.entries[j]
        BY <1>2, <3>2 DEF Shorter
      <4>2. T[j].text \in 1 .. LineLimit
        BY <1>2, TableFacts
      <4> QED BY <4>1, <4>2, QueueAssumption
    <3> QED BY <3>1, <3>2
  <2> QED BY <1>2, <1>5, <2>1 DEF Within
<1>7. Numbered(q.entries, q.next) /\ q.next \in Nat /\ Numbered(r.entries, r.next)
  BY <1>5, GoodParts
<1>8. r.bytes <= Cardinality(Text(q))
  BY <1>5, <1>6, <1>7, FewerBytes DEF Counted
<1>9. ASSUME NEW k \in 2 .. Len(line), line[k] \in Owners(r)
      PROVE \E j \in 1 .. Len(r.rotation) : r.rotation[j] = line[k] /\ j <= k - 1
  <2>1. k - 1 \in 1 .. Len(t) /\ t[k - 1] = line[k]
    BY <1>1 DEF MovedUp
  <2> QED BY <1>5, <1>9, <2>1 DEF Kept
<1>10. \A j \in DOMAIN q.entries : j # i => j \in DOMAIN T /\ T[j] = q.entries[j]
  BY DEF Shorter
<1> QED BY <1>5, <1>6, <1>8, <1>9, <1>10 DEF Served

\* A table without one of its lists.
LEMMA WithoutFacts ==
    ASSUME NEW q, Good(q), NEW i \in DOMAIN q.entries,
           NEW T, T = Restrict(q.entries, DOMAIN q.entries \ {i})
    PROVE Shorter(T, q, i)
<1>1. Numbered(q.entries, q.next)
  BY GoodParts
<1>2. \A j \in DOMAIN q.entries : j \in Nat /\ q.entries[j] \in Entry
  BY <1>1, TableFacts DEF Numbered
<1>3. PICK D \in SUBSET Nat : D = DOMAIN q.entries \ {i}
  BY <1>2
<1>4. T \in [D -> Entry] /\ \A j \in D : T[j] = q.entries[j]
  BY <1>2, <1>3 DEF Restrict
<1>5. T \in Tables /\ DOMAIN T = D
  BY <1>4 DEF Tables
<1> QED BY <1>3, <1>4, <1>5 DEF Shorter

\* Dropping a list of a barred executor.
LEMMA DropFacts ==
    ASSUME NEW q, Good(q), NEW line \in Seq(Objects), IsInjective(line), line # <<>>,
           NEW i \in DOMAIN q.entries, NEW r, r = Drop(q, i, line)
    PROVE Served(r, q, i, line)
<1>1. PICK T : T = Restrict(q.entries, DOMAIN q.entries \ {i})
  OBVIOUS
<1>2. Shorter(T, q, i)
  BY <1>1, WithoutFacts
<1>3. PICK t : t = Tail(line)
  OBVIOUS
<1>4. r = Recount(Swapped(q, T, t))
  <2>1. [q EXCEPT !.entries = Restrict(@, DOMAIN @ \ {i}), !.rotation = Tail(line)] = Swapped(q, T, t)
    BY <1>1, <1>3 DEF Swapped, Good, Queues
  <2> QED BY <2>1 DEF Drop
<1> QED BY <1>2, <1>3, <1>4, ServedFacts

\* Executing one command of a list.
LEMMA StepFacts ==
    ASSUME NEW q, Good(q), NEW line \in Seq(Objects), IsInjective(line), line # <<>>,
           NEW i \in DOMAIN q.entries, NEW r, r = Step(q, i, line)
    PROVE Served(r, q, i, line)
<1>1. PICK T : T = IF q.entries[i].text > 1 THEN [q.entries EXCEPT ![i].text = @ - 1]
                   ELSE Restrict(q.entries, DOMAIN q.entries \ {i})
  OBVIOUS
<1>2. Shorter(T, q, i)
  <2>1. CASE q.entries[i].text > 1
    <3>1. PICK E : E = q.entries
      OBVIOUS
    <3>2. E \in Tables
      BY <3>1, GoodParts DEF Numbered
    <3>3. PICK D \in SUBSET Nat : E \in [D -> Entry]
      BY <3>2 DEF Tables
    <3>4. i \in D /\ DOMAIN E = D
      BY <3>1, <3>3
    <3>5. PICK old \in Entry : old = E[i]
      BY <3>3, <3>4
    <3>6. old.text \in 1 .. LineLimit /\ old.text > 1
      BY <2>1, <3>1, <3>5 DEF Entry
    <3>7. old.text - 1 \in 1 .. LineLimit /\ old.text - 1 <= old.text
      BY <3>6, QueueAssumption
    <3>8. PICK e : e = [old EXCEPT !.text = @ - 1]
      OBVIOUS
    <3>9. e \in Entry /\ e.executor = old.executor /\ e.due = old.due /\ e.text <= old.text
      BY <3>7, <3>8 DEF Entry
    <3>10. T = [E EXCEPT ![i] = e]
      BY <1>1, <2>1, <3>1, <3>5, <3>8
    <3>11. T \in [D -> Entry] /\ T[i] = e /\ \A j \in D : j # i => T[j] = E[j]
      BY <3>3, <3>4, <3>9, <3>10
    <3>12. T \in Tables /\ DOMAIN T = D
      BY <3>11 DEF Tables
    <3> QED BY <3>1, <3>4, <3>5, <3>9, <3>11, <3>12 DEF Shorter
  <2>2. CASE ~(q.entries[i].text > 1)
    BY <1>1, <2>2, WithoutFacts
  <2> QED BY <2>1, <2>2
<1>3. PICK t : t = IF \E j \in DOMAIN T : T[j].executor = Head(line) /\ T[j].due <= now
                     THEN Append(Tail(line), Head(line)) ELSE Tail(line)
  OBVIOUS
<1>4. t = Tail(line) \/ t = Append(Tail(line), Head(line))
  BY <1>3
<1>5. r = Recount(Swapped(q, T, t))
  <2>1. r = Recount([q EXCEPT !.entries = T, !.rotation = t])
    BY <1>1, <1>3 DEF Step
  <2> QED BY <2>1 DEF Swapped
<1> QED BY <1>2, <1>4, <1>5, ServedFacts

-----------------------------------------------------------------------------
(* The inductive invariant.                                                 *)

\* A list with this due time and number does not come before the one run last.
Follows(p, due, i) == p[1] < due \/ (p[1] = due /\ p[2] <= i)

Ordered(q, l) == \A i \in DOMAIN q.entries : Follows(l[q.entries[i].executor], q.entries[i].due, i)

Past(l, t, n) == \A o \in Objects : l[o][1] <= t /\ l[o][2] <= n

\* Whoever was passed over is in the rotation, and the places in front of it
\* and the times it was passed over together are fewer than the executors.
Turns(q, w, t) ==
    \A o \in Objects : w[o] > 0 =>
        /\ Due(q, o, t)
        /\ \E k \in 1 .. Len(q.rotation) : q.rotation[k] = o /\ w[o] + k <= Cardinality(Objects)

World == [Objects -> [kind : {"live", "garbage"}, going : BOOLEAN, halted : BOOLEAN]]

Rest ==
    /\ objects \in World /\ now \in Nat /\ credit \in Nat /\ queueing \in BOOLEAN
    /\ last \in [Objects -> Nat \X Nat] /\ waits \in [Objects -> Nat]

\* Its two parts: what is always so of the queue, and of the other variables.
Held(q, world, l) ==
    /\ Good(q) /\ Counted(q) /\ q.bytes <= MaxBytes
    /\ LiveOnly(q, world) /\ Ordered(q, l)

IInv ==
    /\ Held(queue, objects, last)
    /\ Past(last, now, queue.next) /\ Turns(queue, waits, now)
    /\ Rest

\* A queue that may follow the present one.
Successor(q, world) ==
    /\ Held(q, world, last) /\ queue.next <= q.next
    /\ \A k \in 1 .. Len(queue.rotation) :
          Due(q, queue.rotation[k], now) =>
             \E j \in 1 .. Len(q.rotation) : q.rotation[j] = queue.rotation[k] /\ j <= k

\* Publishing a successor keeps the invariant.
LEMMA BecomeStep ==
    ASSUME IInv, NEW q, Successor(q, objects'), Become(q), now' = now, last' = last,
           objects' \in World, credit' \in Nat, queueing' \in BOOLEAN
    PROVE IInv'
<1>1. queue' = q /\ waits' = [o \in Objects |-> IF Due(q, o, now) THEN waits[o] ELSE 0]
  BY ReadyIffDue DEF Become
<1>2. /\ last \in [Objects -> Nat \X Nat] /\ waits \in [Objects -> Nat] /\ now \in Nat
      /\ Turns(queue, waits, now) /\ Past(last, now, queue.next) /\ Good(queue)
  BY DEF IInv, Rest, Held
<1>3. Held(q, objects', last) /\ queue.next <= q.next /\ Good(q)
  BY DEF Successor, Held
<1>4. PICK N \in Nat : N = Cardinality(Objects)
  BY QueueAssumption, FS_CardinalityType
<1>5. PICK w \in [Objects -> Nat] : w = waits' /\ \A o \in Objects : w[o] = IF Due(q, o, now) THEN waits[o] ELSE 0
  BY <1>1, <1>2
<1>6. ASSUME NEW o \in Objects, w[o] > 0
      PROVE Due(q, o, now) /\ \E j \in 1 .. Len(q.rotation) : q.rotation[j] = o /\ w[o] + j <= N
  <2>1. Due(q, o, now) /\ w[o] = waits[o] /\ w[o] \in Nat
    BY <1>5, <1>6
  <2>2. PICK k \in 1 .. Len(queue.rotation) : queue.rotation[k] = o /\ waits[o] + k <= N
    BY <1>2, <1>4, <1>6, <2>1 DEF Turns
  <2>3. PICK j \in 1 .. Len(q.rotation) : q.rotation[j] = o /\ j <= k
    BY <2>1, <2>2 DEF Successor
  <2>4. j \in Nat /\ k \in Nat
    BY <1>2, <1>3, GoodParts
  <2>5. w[o] + j <= N
    BY <2>1, <2>2, <2>3, <2>4
  <2> QED BY <2>1, <2>3, <2>5
<1>7. Turns(q, w, now)
  BY <1>4, <1>6 DEF Turns
<1>8. Past(last, now, q.next)
  <2>1. queue.next \in Nat /\ q.next \in Nat
    BY <1>2, <1>3, GoodParts
  <2>2. \A o \in Objects : last[o][1] \in Nat /\ last[o][2] \in Nat
    BY <1>2
  <2> QED BY <1>2, <1>3, <2>1, <2>2 DEF Past
<1>9. queue' = q /\ waits' = w /\ waits' \in [Objects -> Nat]
  BY <1>1, <1>5
<1>10. Held(queue', objects', last') /\ Past(last', now', (queue').next) /\ Turns(queue', waits', now')
  BY <1>3, <1>7, <1>8, <1>9
<1>11. Rest'
  BY <1>2, <1>9 DEF Rest
<1> QED BY <1>10, <1>11 DEF IInv

\* A prepared queue, before it is reconciled with the world.
Candidate(p) ==
    /\ Good(p) /\ Cardinality(Text(p)) <= MaxBytes /\ Ordered(p, last)
    /\ queue.next <= p.next
    /\ Places(p.rotation, queue.rotation, Owners(p))

\* A list taken out of a queue was in it.
LEMMA FromOrdered ==
    ASSUME NEW q, NEW r, From(r, q), NEW l
    PROVE (Ordered(q, l) => Ordered(r, l)) /\ r.next = q.next /\ Owners(r) \subseteq Owners(q)
<1>1. /\ DOMAIN r.entries \subseteq DOMAIN q.entries /\ r.next = q.next
      /\ \A i \in DOMAIN r.entries : r.entries[i] = q.entries[i]
  BY DEF From, Within
<1> QED BY <1>1 DEF Ordered, Owners

\* Reconciling a prepared queue gives a successor.
LEMMA CandidateSucceeds ==
    ASSUME IInv, NEW p, Candidate(p), NEW world, NEW q, q = Reconcile(p, world)
    PROVE Successor(q, world)
<1>1. Good(p) /\ Cardinality(Text(p)) <= MaxBytes /\ Ordered(p, last) /\ queue.next <= p.next
  BY DEF Candidate
<1>2. From(q, p) /\ LiveOnly(q, world)
  BY <1>1, ReconcileFacts
<1>3. Ordered(q, last) /\ q.next = p.next /\ Owners(q) \subseteq Owners(p)
  BY <1>1, <1>2, FromOrdered
<1>4. Good(q) /\ Counted(q) /\ q.bytes <= Cardinality(Text(p)) /\ Places(q.rotation, p.rotation, Owners(q))
  BY <1>2 DEF From
<1>5. q.bytes <= MaxBytes
  <2>1. q.bytes \in Nat /\ Cardinality(Text(p)) \in Nat /\ MaxBytes \in Nat
    BY <1>1, <1>4, GoodParts, TextFacts, QueueAssumption
  <2> QED BY <1>1, <1>4, <2>1
<1>6. Held(q, world, last)
  BY <1>2, <1>3, <1>4, <1>5 DEF Held
<1>7. ASSUME NEW k \in 1 .. Len(queue.rotation), Due(q, queue.rotation[k], now)
      PROVE \E j \in 1 .. Len(q.rotation) : q.rotation[j] = queue.rotation[k] /\ j <= k
  <2>1. queue.rotation[k] \in Owners(q)
    BY <1>7 DEF Due, Owners
  <2>2. PICK l \in 1 .. Len(p.rotation) : p.rotation[l] = queue.rotation[k] /\ l <= k
    BY <1>3, <2>1 DEF Candidate, Places
  <2>3. PICK j \in 1 .. Len(q.rotation) : q.rotation[j] = queue.rotation[k] /\ j <= l
    BY <1>4, <2>1, <2>2 DEF Places
  <2>4. j \in Nat /\ l \in Nat /\ k \in Nat
    BY <1>1, <1>4, GoodParts DEF IInv, Held
  <2>5. j <= k
    BY <2>2, <2>3, <2>4
  <2> QED BY <2>3, <2>5
<1> QED BY <1>1, <1>3, <1>6, <1>7 DEF Successor

\* The present queue, and one with lists taken out of it, may be prepared.
LEMMA PresentIsCandidate ==
    ASSUME IInv, NEW p, p = queue \/ From(p, queue)
    PROVE Candidate(p)
<1>1. Good(queue) /\ Counted(queue) /\ queue.bytes <= MaxBytes /\ Ordered(queue, last)
  BY DEF IInv, Held
<1>2. /\ Cardinality(Text(queue)) <= MaxBytes /\ queue.bytes = Cardinality(Text(queue))
      /\ queue.next \in Nat /\ queue.bytes \in Nat /\ MaxBytes \in Nat
      /\ \A k \in 1 .. Len(queue.rotation) : k \in Nat
  BY <1>1, GoodParts, QueueAssumption DEF Counted
<1>3. CASE p = queue
  <2>1. Places(p.rotation, queue.rotation, Owners(p)) /\ queue.next <= p.next
    BY <1>2, <1>3 DEF Places
  <2> QED BY <1>1, <1>2, <1>3, <2>1 DEF Candidate
<1>4. CASE From(p, queue)
  <2>1. /\ Good(p) /\ p.bytes = Cardinality(Text(p)) /\ p.bytes <= queue.bytes
        /\ Places(p.rotation, queue.rotation, Owners(p))
    BY <1>2, <1>4 DEF From, Counted
  <2>2. Ordered(p, last) /\ p.next = queue.next
    BY <1>1, <1>4, FromOrdered
  <2>3. Cardinality(Text(p)) <= MaxBytes
    <3>1. p.bytes \in Nat
      BY <2>1, GoodParts
    <3> QED BY <1>1, <1>2, <2>1, <3>1
  <2>4. queue.next <= p.next
    BY <1>2, <2>2
  <2> QED BY <2>1, <2>2, <2>3, <2>4 DEF Candidate
<1> QED BY <1>3, <1>4

\* An admitted list may be prepared: it is due no earlier than anything that
\* has run, and comes after it in number.
LEMMA InsertIsCandidate ==
    ASSUME IInv, NEW o \in Objects, NEW seconds \in Delays, NEW text \in 1 .. LineLimit,
           queue.bytes + text <= MaxBytes, NEW p, p = Insert(queue, o, seconds, text)
    PROVE Candidate(p)
<1>1. /\ Good(queue) /\ Counted(queue) /\ Ordered(queue, last)
      /\ Past(last, now, queue.next) /\ now \in Nat /\ last \in [Objects -> Nat \X Nat]
  BY DEF IInv, Held, Rest
<1>2. PICK due \in Nat : due = now + (IF seconds > 0 THEN seconds ELSE 0) /\ due >= now
  <2>1. seconds \in Int
    BY QueueAssumption
  <2> QED BY <1>1, <2>1
<1>3. p = Inserted(queue, o, due, text)
  BY <1>2 DEF Insert
<1>4. Grown(p, queue, o, due, text)
  BY <1>1, <1>3, InsertedFacts
<1>5. PICK n \in Nat : n = queue.next
  BY <1>1, GoodParts
<1>6. /\ Good(p) /\ p.rotation = queue.rotation /\ p.next = n + 1
      /\ DOMAIN p.entries = DOMAIN queue.entries \cup {n + 1}
      /\ \A i \in DOMAIN queue.entries : p.entries[i] = queue.entries[i]
      /\ p.entries[n + 1].executor = o /\ p.entries[n + 1].due = due
      /\ Cardinality(Text(p)) <= queue.bytes + text
  BY <1>4, <1>5 DEF Grown
<1>7. Cardinality(Text(p)) <= MaxBytes
  <2>1. Cardinality(Text(p)) \in Nat /\ queue.bytes \in Nat
    BY <1>1, <1>6, GoodParts, TextFacts
  <2>2. text \in Nat /\ MaxBytes \in Nat
    BY QueueAssumption
  <2> QED BY <1>6, <2>1, <2>2
<1>8. Follows(last[o], due, n + 1)
  <2>1. PICK d \in Nat, m \in Nat : d = last[o][1] /\ m = last[o][2] /\ d <= now /\ m <= n
    BY <1>1, <1>5 DEF Past
  <2>2. d < due \/ d = due
    BY <1>1, <1>2, <2>1
  <2>3. m <= n + 1
    BY <2>1
  <2> QED BY <2>1, <2>2, <2>3 DEF Follows
<1>9. Ordered(p, last)
  <2>1. ASSUME NEW i \in DOMAIN p.entries
        PROVE Follows(last[p.entries[i].executor], p.entries[i].due, i)
    <3>1. CASE i = n + 1
      BY <1>6, <1>8, <3>1
    <3>2. CASE i \in DOMAIN queue.entries
      BY <1>1, <1>6, <3>2 DEF Ordered
    <3> QED BY <1>6, <3>1, <3>2
  <2> QED BY <2>1 DEF Ordered
<1>10. Places(p.rotation, queue.rotation, Owners(p))
  <2>1. \A k \in 1 .. Len(queue.rotation) : k \in Nat
    BY <1>1, GoodParts
  <2> QED BY <1>6, <2>1 DEF Places
<1>11. queue.next <= p.next
  BY <1>5, <1>6
<1> QED BY <1>6, <1>7, <1>9, <1>10, <1>11 DEF Candidate

\* Changes of the other variables only.
LEMMA QueueUntouched ==
    ASSUME IInv, UNCHANGED <<queue, waits, last, now>>, objects' \in World,
           LiveOnly(queue, objects'), credit' \in Nat, queueing' \in BOOLEAN
    PROVE IInv'
<1>1. /\ Held(queue, objects, last) /\ Past(last, now, queue.next) /\ Turns(queue, waits, now)
      /\ Rest
  BY DEF IInv
<1>2. Held(queue, objects', last)
  BY <1>1 DEF Held
<1>3. Held(queue', objects', last') /\ Past(last', now', (queue').next) /\ Turns(queue', waits', now')
  BY <1>1, <1>2
<1>4. Rest'
  BY <1>1 DEF Rest
<1> QED BY <1>3, <1>4 DEF IInv

\* A prepared queue is published with its world, or not at all.
LEMMA SettleStep ==
    ASSUME IInv, NEW p, Candidate(p), NEW world \in World, NEW saved \in BOOLEAN,
           Settle(p, world, saved), Arrives, UNCHANGED <<now, queueing, last>>
    PROVE IInv'
<1>1. objects \in World /\ credit \in Nat /\ queueing \in BOOLEAN /\ LiveOnly(queue, objects)
  BY DEF IInv, Rest, Held
<1>2. credit' \in Nat /\ queueing' \in BOOLEAN /\ now' = now /\ last' = last
  BY <1>1, QueueAssumption DEF Arrives
<1>3. CASE saved
  <2>1. PICK q : q = Reconcile(p, world)
    OBVIOUS
  <2>2. Become(q) /\ objects' = world
    BY <1>3, <2>1 DEF Settle
  <2>3. Successor(q, objects')
    BY <2>1, <2>2, CandidateSucceeds
  <2> QED BY <1>2, <2>2, <2>3, BecomeStep
<1>4. CASE ~saved
  <2>1. UNCHANGED <<queue, objects, waits>>
    BY <1>4 DEF Settle
  <2>2. objects' \in World /\ LiveOnly(queue, objects')
    BY <1>1, <2>1
  <2> QED BY <1>2, <2>1, <2>2, QueueUntouched
<1> QED BY <1>3, <1>4

\* Server::queue_request, for @force and @wait.
LEMMA AddStep ==
    ASSUME IInv, NEW o \in Objects, NEW seconds \in Delays, NEW text \in 1 .. LineLimit + 1,
           NEW saved \in BOOLEAN, Add(o, seconds, text, saved)
    PROVE IInv'
<1>1. Arrives /\ UNCHANGED <<now, queueing, last>>
  BY DEF Add
<1>2. objects \in World /\ credit \in Nat /\ queueing \in BOOLEAN /\ LiveOnly(queue, objects) /\ Good(queue)
  BY DEF IInv, Rest, Held
<1>3. CASE UNCHANGED <<queue, objects, waits>>
  <2>1. credit' \in Nat /\ queueing' \in BOOLEAN /\ objects' \in World /\ LiveOnly(queue, objects')
    BY <1>1, <1>2, <1>3, QueueAssumption DEF Arrives
  <2> QED BY <1>1, <1>3, <2>1, QueueUntouched
<1>4. CASE Settle(queue, objects, saved)
  <2>1. Candidate(queue)
    BY PresentIsCandidate
  <2> QED BY <1>1, <1>2, <1>4, <2>1, SettleStep
<1>5. CASE Settle(Cancel(queue, {o}), [objects EXCEPT ![o].halted = TRUE], saved)
  <2>1. PICK p : p = Cancel(queue, {o})
    OBVIOUS
  <2>2. PICK world : world = [objects EXCEPT ![o].halted = TRUE]
    OBVIOUS
  <2>3. world \in World
    BY <1>2, <2>2 DEF World
  <2>4. Candidate(p)
    BY <1>2, <2>1, CancelFacts, PresentIsCandidate
  <2>5. Settle(p, world, saved)
    BY <1>5, <2>1, <2>2
  <2> QED BY ONLY IInv, saved \in BOOLEAN, <1>1, <2>3, <2>4, <2>5, SettleStep
<1>6. CASE Admission(o, text) = "admitted" /\ Settle(Insert(queue, o, seconds, text), objects, saved)
  <2>1. ~(text > LineLimit) /\ ~(queue.bytes + text > MaxBytes)
    BY <1>6 DEF Admission
  <2>2. text \in 1 .. LineLimit /\ queue.bytes + text <= MaxBytes
    <3>1. queue.bytes \in Nat /\ MaxBytes \in Nat /\ LineLimit \in Nat
      BY <1>2, GoodParts, QueueAssumption
    <3> QED BY <2>1, <3>1
  <2>3. PICK p : p = Insert(queue, o, seconds, text)
    OBVIOUS
  <2>4. Candidate(p)
    BY <2>2, <2>3, InsertIsCandidate
  <2>5. Settle(p, objects, saved)
    BY <1>6, <2>3
  <2> QED BY <1>1, <1>2, <2>4, <2>5, SettleStep
<1>7. Admission(o, text) \in {"refused", "ignored", "runaway", "admitted"}
  BY DEF Admission
<1>8. \/ UNCHANGED <<queue, objects, waits>>
      \/ Settle(queue, objects, saved)
      \/ Settle(Cancel(queue, {o}), [objects EXCEPT ![o].halted = TRUE], saved)
      \/ Admission(o, text) = "admitted" /\ Settle(Insert(queue, o, seconds, text), objects, saved)
  BY <1>7 DEF Add
<1> QED BY <1>3, <1>4, <1>5, <1>6, <1>8

\* Server::queue_request, for @halt.
LEMMA HaltStep ==
    ASSUME IInv, NEW targets, NEW saved \in BOOLEAN, Halt(targets, saved)
    PROVE IInv'
<1>1. Arrives /\ UNCHANGED <<now, queueing, last>> /\ Settle(Cancel(queue, targets), objects, saved)
  BY DEF Halt
<1>2. objects \in World /\ Good(queue)
  BY DEF IInv, Rest, Held
<1>3. PICK p : p = Cancel(queue, targets)
  OBVIOUS
<1>4. Candidate(p)
  BY <1>2, <1>3, CancelFacts, PresentIsCandidate
<1> QED BY <1>1, <1>2, <1>3, <1>4, SettleStep

\* Where the head of the line is served, everybody else who is ready moves up.
LEMMA ServeTurns ==
    ASSUME IInv, NEW q, Successor(q, objects), NEW line, Enrolled(line, q), line # <<>>,
           NEW i \in DOMAIN q.entries, q.entries[i].executor = Head(line),
           NEW r, Served(r, q, i, line), NEW w \in [Objects -> Nat],
           \A p \in Objects : w[p] = IF p # Head(line) /\ Due(q, p, now) THEN waits[p] + 1 ELSE 0
    PROVE Turns(r, w, now)
<1>1. /\ waits \in [Objects -> Nat] /\ now \in Nat /\ Turns(queue, waits, now) /\ Good(queue)
  BY DEF IInv, Rest, Held
<1>2. PICK N \in Nat : N = Cardinality(Objects)
  BY QueueAssumption, FS_CardinalityType
<1>3. line \in Seq(Objects) /\ Len(line) \in Nat /\ Len(line) <= N
  BY <1>2 DEF Enrolled
<1>4. Head(line) = line[1]
  BY <1>3
<1>5. Good(r) /\ Good(q)
  BY DEF Served, Successor, Held
<1>6. ASSUME NEW p \in Objects, w[p] > 0
      PROVE Due(r, p, now) /\ \E j \in 1 .. Len(r.rotation) : r.rotation[j] = p /\ w[p] + j <= N
  <2>1. p # Head(line) /\ Due(q, p, now) /\ w[p] = waits[p] + 1 /\ waits[p] \in Nat
    BY <1>1, <1>6
  <2>2. PICK e \in DOMAIN q.entries : q.entries[e].executor = p /\ q.entries[e].due <= now
    BY <2>1 DEF Due
  <2>3. e # i
    BY <2>1, <2>2
  <2>4. e \in DOMAIN r.entries /\ r.entries[e] = q.entries[e]
    BY <2>2, <2>3 DEF Served
  <2>5. Due(r, p, now) /\ p \in Owners(r)
    BY <2>2, <2>4 DEF Due, Owners
  <2>6. PICK k \in 1 .. Len(line) : line[k] = p /\ waits[p] + k <= N
    <3>1. CASE waits[p] = 0
      <4>1. PICK k \in 1 .. Len(line) : line[k] = p
        BY <2>1 DEF Enrolled
      <4>2. waits[p] + k <= N
        BY <1>3, <3>1, <4>1
      <4> QED BY <4>1, <4>2
    <3>2. CASE waits[p] > 0
      <4>1. PICK a \in 1 .. Len(queue.rotation) : queue.rotation[a] = p /\ waits[p] + a <= N
        BY <1>1, <1>2, <3>2 DEF Turns
      <4>2. PICK b \in 1 .. Len(q.rotation) : q.rotation[b] = p /\ b <= a
        BY <2>1, <4>1 DEF Successor
      <4>3. PICK k \in 1 .. Len(line) : line[k] = p /\ k <= b
        BY <2>1, <4>2 DEF Enrolled
      <4>4. a \in Nat /\ b \in Nat /\ k \in Nat
        <5>1. Len(queue.rotation) \in Nat /\ Len(q.rotation) \in Nat
          BY <1>1, <1>5, GoodParts
        <5> QED BY <1>3, <4>1, <4>2, <4>3, <5>1
      <4>5. waits[p] + k <= N
        BY <2>1, <4>1, <4>2, <4>3, <4>4
      <4> QED BY <4>3, <4>5
    <3> QED BY <2>1, <3>1, <3>2
  <2>7. k # 1
    BY <1>4, <2>1, <2>6
  <2>8. k \in 2 .. Len(line)
    BY <1>3, <2>6, <2>7
  <2>9. PICK j \in 1 .. Len(r.rotation) : r.rotation[j] = p /\ j <= k - 1
    BY <2>5, <2>6, <2>8 DEF Served
  <2>10. j \in Nat /\ k \in Nat
    BY <1>3, <1>5, GoodParts
  <2>11. w[p] + j <= N
    BY <2>1, <2>6, <2>9, <2>10
  <2> QED BY <2>5, <2>9, <2>11
<1> QED BY <1>2, <1>6 DEF Turns

\* Where the first ready list is served, what remains comes no earlier.
LEMMA ServeOrdered ==
    ASSUME IInv, NEW q, Successor(q, objects), NEW o \in Objects, NEW i, Leads(q, i, o),
           NEW line, NEW r, Served(r, q, i, line),
           NEW l, l = last \/ l = [last EXCEPT ![o] = <<q.entries[i].due, i>>]
    PROVE /\ Ordered(r, l) /\ l \in [Objects -> Nat \X Nat] /\ Past(l, now, r.next)
          /\ \A p \in Objects : Follows(last[p], l[p][1], l[p][2])
<1>1. /\ last \in [Objects -> Nat \X Nat] /\ now \in Nat /\ Past(last, now, queue.next) /\ Good(queue)
  BY DEF IInv, Rest, Held
<1>2. Good(q) /\ Ordered(q, last) /\ queue.next <= q.next
  BY DEF Successor, Held
<1>3. PICK m \in Nat : m = q.next
  BY <1>2, GoodParts
<1>4. Numbered(q.entries, m)
  BY <1>2, <1>3, GoodParts
<1>5. \A j \in DOMAIN q.entries : j \in Nat /\ j <= m /\ q.entries[j].due \in Nat /\ q.entries[j].executor \in Objects
  BY <1>4, TableFacts DEF Numbered
<1>6. /\ i \in DOMAIN q.entries /\ q.entries[i].executor = o
      /\ \A j \in DOMAIN q.entries :
            q.entries[j].executor = o /\ q.entries[j].due <= now => j = i \/ Earlier(q, i, j)
  BY DEF Leads
<1>7. PICK d \in Nat : d = q.entries[i].due /\ d <= now
  BY <1>5, <1>6 DEF Leads
<1>8. i \in Nat /\ i <= m
  BY <1>5, <1>6
<1>9. /\ r.next = m /\ DOMAIN r.entries \subseteq DOMAIN q.entries
      /\ \A j \in DOMAIN r.entries : /\ r.entries[j].executor = q.entries[j].executor
                                     /\ r.entries[j].due = q.entries[j].due
  BY <1>3 DEF Served, Within
<1>10. \A p \in Objects : last[p][1] \in Nat /\ last[p][2] \in Nat /\ last[p][1] <= now /\ last[p][2] <= m
  <2>1. queue.next \in Nat
    BY <1>1, GoodParts
  <2>2. \A p \in Objects : last[p][1] \in Nat /\ last[p][2] \in Nat
    BY <1>1
  <2> QED BY <1>1, <1>2, <1>3, <2>1, <2>2 DEF Past
<1>11. \A j \in DOMAIN q.entries : Follows(last[q.entries[j].executor], q.entries[j].due, j)
  BY <1>2 DEF Ordered
<1>12. CASE l = last
  <2>1. Ordered(r, l)
    BY <1>9, <1>11, <1>12 DEF Ordered
  <2>2. Past(l, now, r.next)
    BY <1>9, <1>10, <1>12 DEF Past
  <2>3. \A p \in Objects : Follows(last[p], l[p][1], l[p][2])
    BY <1>10, <1>12 DEF Follows
  <2> QED BY <1>1, <1>12, <2>1, <2>2, <2>3
<1>13. CASE l = [last EXCEPT ![o] = <<d, i>>]
  <2>1. l \in [Objects -> Nat \X Nat] /\ l[o] = <<d, i>> /\ \A p \in Objects : p # o => l[p] = last[p]
    BY <1>1, <1>7, <1>8, <1>13
  <2>2. l[o][1] = d /\ l[o][2] = i
    BY <2>1
  <2>3. ASSUME NEW j \in DOMAIN r.entries
        PROVE Follows(l[q.entries[j].executor], q.entries[j].due, j)
    <3>1. j \in DOMAIN q.entries
      BY <1>9
    <3>2. CASE q.entries[j].executor # o
      BY <1>5, <1>11, <2>1, <3>1, <3>2
    <3>3. CASE q.entries[j].executor = o /\ q.entries[j].due <= now
      <4>1. CASE j = i
        BY <1>7, <1>8, <2>2, <3>3, <4>1 DEF Follows
      <4>2. CASE j # i
        <5>1. Earlier(q, i, j)
          BY <1>6, <3>1, <3>3, <4>2
        <5>2. d < q.entries[j].due \/ (d = q.entries[j].due /\ i < j)
          BY <1>7, <5>1 DEF Earlier
        <5>3. j \in Nat
          BY <1>5, <3>1
        <5>4. d < q.entries[j].due \/ (d = q.entries[j].due /\ i <= j)
          BY <1>8, <5>2, <5>3
        <5> QED BY <2>2, <3>3, <5>4 DEF Follows
      <4> QED BY <4>1, <4>2
    <3>4. CASE q.entries[j].executor = o /\ ~(q.entries[j].due <= now)
      <4>1. d < q.entries[j].due
        BY <1>1, <1>5, <1>7, <3>1, <3>4
      <4> QED BY <2>2, <3>4, <4>1 DEF Follows
    <3> QED BY <3>2, <3>3, <3>4
  <2>4. Ordered(r, l)
    BY <1>9, <2>3 DEF Ordered
  <2>5. Past(l, now, r.next)
    BY <1>7, <1>8, <1>9, <1>10, <2>1, <2>2 DEF Past
  <2>6. Follows(last[o], d, i)
    BY <1>6, <1>7, <1>11
  <2>7. \A p \in Objects : Follows(last[p], last[p][1], last[p][2])
    BY <1>10 DEF Follows
  <2>8. \A p \in Objects : Follows(last[p], l[p][1], l[p][2])
    BY <2>1, <2>2, <2>6, <2>7
  <2> QED BY <2>1, <2>4, <2>5, <2>8
<1> QED BY <1>7, <1>12, <1>13

\* What InOrderPerExecutor says of a step.
InOrderStep == \A o \in Objects : Follows(last[o], last'[o][1], last'[o][2])

\* Serving the head of the line.
LEMMA ServeStep ==
    ASSUME IInv, NEW q, Successor(q, objects), NEW line, Enrolled(line, q), line # <<>>,
           NEW i, i = FirstOf(q, Head(line)), Serve(q, i, line),
           UNCHANGED <<objects, now, queueing>>, credit' \in Nat
    PROVE IInv' /\ InOrderStep
<1>1. line \in Seq(Objects) /\ IsInjective(line) /\ Len(line) \in Nat /\ Len(line) # 0
  BY EmptySeq DEF Enrolled
<1>2. PICK o \in Objects : o = Head(line) /\ Due(q, o, now)
  <2>1. 1 \in 1 .. Len(line) /\ Head(line) = line[1]
    BY <1>1
  <2> QED BY <2>1 DEF Enrolled
<1>3. Good(q) /\ Counted(q) /\ q.bytes <= MaxBytes /\ LiveOnly(q, objects)
  BY DEF Successor, Held
<1>4. Leads(q, i, o)
  BY <1>2, <1>3, FirstLeads
<1>5. i \in DOMAIN q.entries /\ q.entries[i].executor = Head(line)
  BY <1>2, <1>4 DEF Leads
<1>6. /\ queue' = Drop(q, i, line) \/ queue' = Step(q, i, line)
      /\ last' = last \/ last' = [last EXCEPT ![o] = <<q.entries[i].due, i>>]
  BY <1>2 DEF Serve
<1>7. PICK r : r = queue'
  OBVIOUS
<1>8. Served(r, q, i, line)
  BY <1>1, <1>3, <1>5, <1>6, <1>7, DropFacts, StepFacts
<1>9. PICK l : l = last'
  OBVIOUS
<1>10. /\ Ordered(r, l) /\ l \in [Objects -> Nat \X Nat] /\ Past(l, now, r.next)
       /\ \A p \in Objects : Follows(last[p], l[p][1], l[p][2])
  BY <1>4, <1>6, <1>8, <1>9, ServeOrdered
<1>11. waits \in [Objects -> Nat] /\ objects \in World /\ now \in Nat /\ queueing \in BOOLEAN
  BY DEF IInv, Rest
<1>12. PICK w : w = waits'
  OBVIOUS
<1>13. w = [p \in Objects |-> IF p # Head(line) /\ Due(q, p, now) THEN waits[p] + 1 ELSE 0]
  <2>1. PICK passed : passed = {p \in Objects \ {Head(line)} : Owned(q, p) \cap Ready(q) # {}}
    OBVIOUS
  <2>2. w = [p \in Objects |-> IF p \in passed THEN waits[p] + 1 ELSE 0]
    BY <1>12, <2>1 DEF Serve
  <2>3. \A p \in Objects : p \in passed <=> p # Head(line) /\ Due(q, p, now)
    BY <2>1, ReadyIffDue
  <2> QED BY <2>2, <2>3
<1>14. /\ w \in [Objects -> Nat]
       /\ \A p \in Objects : w[p] = IF p # Head(line) /\ Due(q, p, now) THEN waits[p] + 1 ELSE 0
  BY <1>11, <1>13
<1>15. Turns(r, w, now)
  BY <1>1, <1>5, <1>8, <1>14, ServeTurns
<1>16. Good(r) /\ Counted(r) /\ r.bytes <= Cardinality(Text(q)) /\ Within(r, q)
  BY <1>8 DEF Served
<1>17. r.bytes <= MaxBytes
  <2>1. r.bytes \in Nat /\ q.bytes \in Nat /\ MaxBytes \in Nat
    BY <1>3, <1>16, GoodParts, QueueAssumption
  <2> QED BY <1>3, <1>16, <2>1 DEF Counted
<1>18. LiveOnly(r, objects)
  BY <1>3, <1>16 DEF LiveOnly, Within
<1>19. Held(r, objects, l)
  BY <1>10, <1>16, <1>17, <1>18 DEF Held
<1>20. Held(queue', objects', last') /\ Past(last', now', (queue').next) /\ Turns(queue', waits', now')
  BY <1>7, <1>9, <1>10, <1>12, <1>15, <1>19
<1>21. Rest'
  BY <1>9, <1>10, <1>11, <1>12, <1>14 DEF Rest
<1> QED BY <1>9, <1>10, <1>20, <1>21 DEF IInv, InOrderStep

\* Queue::take.
LEMMA TakeStep ==
    ASSUME IInv, Take
    PROVE IInv' /\ InOrderStep
<1>1. PICK q, line : /\ q = Reconcile(queue, objects) /\ line = Enrol(q)
                     /\ \/ line = <<>> /\ Become([q EXCEPT !.rotation = <<>>]) /\ UNCHANGED last
                        \/ line # <<>> /\ Serve(q, FirstOf(q, Head(line)), line)
  BY DEF Take
<1>2. /\ objects \in World /\ credit \in Nat /\ queueing \in BOOLEAN /\ now \in Nat
      /\ last \in [Objects -> Nat \X Nat]
  BY DEF IInv, Rest
<1>3. credit' \in Nat /\ UNCHANGED <<objects, now, queueing>>
  BY <1>2 DEF Take
<1>4. Candidate(queue)
  BY PresentIsCandidate
<1>5. Successor(q, objects)
  BY <1>1, <1>4, CandidateSucceeds
<1>6. Good(q) /\ Counted(q) /\ q.bytes <= MaxBytes /\ LiveOnly(q, objects) /\ Ordered(q, last)
  BY <1>5 DEF Successor, Held
<1>7. Enrolled(line, q)
  BY <1>1, <1>6, EnrolFacts
<1>8. CASE line = <<>>
  <2>1. PICK p : p = [q EXCEPT !.rotation = <<>>]
    OBVIOUS
  <2>2. Become(p) /\ last' = last
    BY <1>1, <1>8, <2>1
  <2>3. q \in Queues /\ <<>> \in Seq(Objects)
    BY <1>6 DEF Good
  <2>4. p \in Queues /\ p.entries = q.entries /\ p.next = q.next /\ p.bytes = q.bytes /\ p.rotation = <<>>
    BY <2>1, <2>3 DEF Queues
  <2>5. Len(p.rotation) = 0 /\ DOMAIN p.rotation = {}
    BY <2>4
  <2>6. Text(p) = Text(q)
    BY <2>4 DEF Text
  <2>7. Good(p) /\ Counted(p)
    <3>1. IsInjective(p.rotation)
      BY <2>5 DEF IsInjective
    <3>2. \A k \in 1 .. Len(p.rotation) : p.rotation[k] \in Owners(p)
      BY <2>5
    <3> QED BY <1>6, <2>4, <2>6, <3>1, <3>2 DEF Good, Counted
  <2>8. Held(p, objects, last)
    BY <1>6, <2>4, <2>7 DEF Held, LiveOnly, Ordered
  <2>9. \A o : ~Due(p, o, now)
    <3>1. 1 .. Len(line) = {}
      BY <1>8
    <3>2. \A o : ~Due(q, o, now)
      BY <1>7, <3>1 DEF Enrolled
    <3> QED BY <2>4, <3>2 DEF Due
  <2>10. Successor(p, objects')
    <3>1. Successor(p, objects)
      BY <1>5, <2>4, <2>8, <2>9 DEF Successor
    <3> QED BY <1>3, <3>1
  <2>11. IInv'
    BY <1>2, <1>3, <2>2, <2>10, BecomeStep
  <2>12. InOrderStep
    <3>1. \A o \in Objects : last[o][1] \in Nat /\ last[o][2] \in Nat
      BY <1>2
    <3> QED BY <2>2, <3>1 DEF InOrderStep, Follows
  <2> QED BY <2>11, <2>12
<1>9. CASE line # <<>>
  <2>1. PICK i : i = FirstOf(q, Head(line)) /\ Serve(q, i, line)
    BY <1>1, <1>9
  <2> QED BY <1>3, <1>5, <1>7, <1>9, <2>1, ServeStep
<1> QED BY <1>8, <1>9

\* Time passes: what was due stays due.
LEMMA AdvanceStep ==
    ASSUME IInv, Advance
    PROVE IInv'
<1>1. UNCHANGED <<queue, objects, queueing, last, waits>> /\ now' = now + 1
  BY DEF Advance
<1>2. /\ Held(queue, objects, last) /\ Past(last, now, queue.next) /\ Turns(queue, waits, now)
      /\ Rest /\ now \in Nat /\ last \in [Objects -> Nat \X Nat] /\ credit \in Nat /\ Good(queue)
  BY DEF IInv, Rest, Held
<1>3. credit' \in Nat
  BY <1>2, QueueAssumption DEF Advance
<1>4. PICK t \in Nat : t = now + 1
  BY <1>2
<1>5. \A o : Due(queue, o, now) => Due(queue, o, t)
  <2>1. \A i \in DOMAIN queue.entries : queue.entries[i].due \in Nat
    BY <1>2, GoodParts, TableFacts DEF Numbered
  <2>2. \A i \in DOMAIN queue.entries : queue.entries[i].due <= now => queue.entries[i].due <= t
    BY <1>2, <1>4, <2>1
  <2> QED BY <2>2 DEF Due
<1>6. Turns(queue, waits, t)
  BY <1>2, <1>5 DEF Turns
<1>7. Past(last, t, queue.next)
  <2>1. \A o \in Objects : last[o][1] \in Nat
    BY <1>2
  <2> QED BY <1>2, <1>4, <2>1 DEF Past
<1>8. Held(queue', objects', last') /\ Past(last', now', (queue').next) /\ Turns(queue', waits', now')
  BY <1>1, <1>2, <1>4, <1>6, <1>7
<1>9. Rest'
  BY <1>1, <1>2, <1>3, <1>4 DEF Rest
<1> QED BY <1>8, <1>9 DEF IInv

\* The rest of the world owner.
LEMMA FlagsStep ==
    ASSUME IInv, NEW o \in Objects, NEW going \in BOOLEAN, NEW halted \in BOOLEAN,
           SetFlags(o, going, halted)
    PROVE IInv'
<1>1. /\ objects' = [objects EXCEPT ![o].going = going, ![o].halted = halted]
      /\ Arrives /\ UNCHANGED <<queue, now, queueing, last, waits>>
  BY DEF SetFlags
<1>2. objects \in World /\ credit \in Nat /\ queueing \in BOOLEAN /\ LiveOnly(queue, objects) /\ Good(queue)
  BY DEF IInv, Rest, Held
<1>3. credit' \in Nat /\ queueing' \in BOOLEAN
  BY <1>1, <1>2, QueueAssumption DEF Arrives
<1>4. objects' \in World /\ \A p \in Objects : objects'[p].kind = objects[p].kind
  BY <1>1, <1>2 DEF World
<1>5. LiveOnly(queue, objects')
  <2>1. \A i \in DOMAIN queue.entries : queue.entries[i].executor \in Objects
    BY <1>2, GoodParts, TableFacts DEF Numbered
  <2> QED BY <1>2, <1>4, <2>1 DEF LiveOnly
<1> QED BY <1>1, <1>3, <1>4, <1>5, QueueUntouched

\* The database check purges an object.
LEMMA PurgeStep ==
    ASSUME IInv, NEW o \in Objects, Purge(o)
    PROVE IInv'
<1>1. /\ objects' = [objects EXCEPT ![o].kind = "garbage", ![o].halted = FALSE]
      /\ Become(Reconcile(queue, objects')) /\ Arrives /\ UNCHANGED <<now, queueing, last>>
  BY DEF Purge
<1>2. objects \in World /\ credit \in Nat /\ queueing \in BOOLEAN
  BY DEF IInv, Rest
<1>3. credit' \in Nat /\ queueing' \in BOOLEAN
  BY <1>1, <1>2, QueueAssumption DEF Arrives
<1>4. objects' \in World
  BY <1>1, <1>2 DEF World
<1>5. PICK q : q = Reconcile(queue, objects')
  OBVIOUS
<1>6. Candidate(queue)
  BY PresentIsCandidate
<1>7. Successor(q, objects')
  BY <1>5, <1>6, CandidateSucceeds
<1> QED BY <1>1, <1>3, <1>4, <1>5, <1>7, BecomeStep

\* Every step keeps the invariant, and executors' lists run in order.
LEMMA NextStep ==
    ASSUME IInv, [Next]_vars
    PROVE IInv' /\ InOrderStep
<1>1. /\ objects \in World /\ credit \in Nat /\ queueing \in BOOLEAN /\ LiveOnly(queue, objects)
      /\ last \in [Objects -> Nat \X Nat]
  BY DEF IInv, Rest, Held
<1>2. ASSUME last' = last PROVE InOrderStep
  <2>1. \A o \in Objects : last[o][1] \in Nat /\ last[o][2] \in Nat
    BY <1>1
  <2> QED BY <1>2, <2>1 DEF InOrderStep, Follows
<1>3. ASSUME NEW o \in Objects, NEW saved \in BOOLEAN, NEW seconds \in Delays,
             NEW text \in 1 .. LineLimit + 1, Add(o, seconds, text, saved)
      PROVE IInv' /\ InOrderStep
  <2>1. last' = last
    BY <1>3 DEF Add
  <2> QED BY <1>2, <1>3, <2>1, AddStep
<1>4. ASSUME NEW targets, NEW saved \in BOOLEAN, Halt(targets, saved)
      PROVE IInv' /\ InOrderStep
  <2>1. last' = last
    BY <1>4 DEF Halt
  <2> QED BY <1>2, <1>4, <2>1, HaltStep
<1>5. CASE Take
  BY <1>5, TakeStep
<1>6. CASE MaintenanceTick
  <2>1. /\ UNCHANGED <<queue, waits, last, now>> /\ objects' \in World /\ LiveOnly(queue, objects')
        /\ credit' \in Nat /\ queueing' \in BOOLEAN
    BY <1>1, <1>6, QueueAssumption DEF MaintenanceTick
  <2> QED BY <1>2, <2>1, QueueUntouched
<1>7. CASE Advance
  <2>1. last' = last
    BY <1>7 DEF Advance
  <2> QED BY <1>2, <1>7, <2>1, AdvanceStep
<1>8. ASSUME NEW o \in Objects, Purge(o) PROVE IInv' /\ InOrderStep
  <2>1. last' = last
    BY <1>8 DEF Purge
  <2> QED BY <1>2, <1>8, <2>1, PurgeStep
<1>9. ASSUME NEW o \in Objects, NEW going \in BOOLEAN, NEW halted \in BOOLEAN,
             SetFlags(o, going, halted)
      PROVE IInv' /\ InOrderStep
  <2>1. last' = last
    BY <1>9 DEF SetFlags
  <2> QED BY <1>2, <1>9, <2>1, FlagsStep
<1>10. CASE GlobalControl
  <2>1. /\ UNCHANGED <<queue, waits, last, now>> /\ objects' \in World /\ LiveOnly(queue, objects')
        /\ credit' \in Nat /\ queueing' \in BOOLEAN
    BY <1>1, <1>10, QueueAssumption DEF GlobalControl, Arrives
  <2> QED BY <1>2, <2>1, QueueUntouched
<1>11. CASE UNCHANGED vars
  <2>1. /\ UNCHANGED <<queue, waits, last, now>> /\ objects' \in World /\ LiveOnly(queue, objects')
        /\ credit' \in Nat /\ queueing' \in BOOLEAN
    BY <1>1, <1>11 DEF vars
  <2> QED BY <1>2, <2>1, QueueUntouched
<1> QED BY <1>3, <1>4, <1>5, <1>6, <1>7, <1>8, <1>9, <1>10, <1>11 DEF Next

\* The queue starts empty.
LEMMA InitHolds == Init => IInv
<1> SUFFICES ASSUME Init PROVE IInv
  OBVIOUS
<1>1. PICK T : T = <<>>
  OBVIOUS
<1>2. DOMAIN T = {} /\ T \in [{} -> Entry]
  BY <1>1
<1>3. T \in Tables
  BY <1>2 DEF Tables
<1>4. queue = [entries |-> T, rotation |-> <<>>, next |-> 0, bytes |-> 0]
  BY <1>1 DEF Init
<1>5. queue \in Queues
  BY <1>3, <1>4 DEF Queues
<1>6. /\ queue.entries = T /\ queue.rotation = <<>> /\ queue.next = 0 /\ queue.bytes = 0
      /\ Len(queue.rotation) = 0 /\ DOMAIN queue.rotation = {}
  BY <1>4
<1>7. Good(queue)
  BY <1>2, <1>5, <1>6 DEF Good, IsInjective
<1>8. Text(queue) = {}
  BY <1>2, <1>6 DEF Text
<1>9. Counted(queue) /\ queue.bytes <= MaxBytes
  <2>1. Cardinality(Text(queue)) = 0
    BY <1>8, FS_EmptySet
  <2>2. \A k \in 1 .. Len(queue.rotation) : queue.rotation[k] \in Owners(queue)
    BY <1>6
  <2> QED BY <1>6, <2>1, <2>2, QueueAssumption DEF Counted
<1>10. LiveOnly(queue, objects) /\ Ordered(queue, last)
  BY <1>2, <1>6 DEF LiveOnly, Ordered
<1>11. Rest
  BY DEF Init, Rest, World
<1>12. Past(last, now, queue.next) /\ Turns(queue, waits, now)
  BY <1>6 DEF Init, Past, Turns
<1> QED BY <1>7, <1>9, <1>10, <1>11, <1>12 DEF IInv, Held

\* The invariant holds of every behaviour.
THEOREM Invariance == Spec => []IInv
<1>1. IInv /\ [Next]_vars => IInv'
  BY NextStep
<1> QED BY InitHolds, <1>1, PTL DEF Spec

\* Entries carry live numbers, due times and at least one command.
THEOREM TypeCorrect == Spec => []TypeOK
<1>1. IInv => TypeOK
  <2> SUFFICES ASSUME IInv PROVE TypeOK
    OBVIOUS
  <2>1. Good(queue) /\ Rest
    BY DEF IInv, Held
  <2>2. /\ Numbered(queue.entries, queue.next) /\ queue.next \in Nat /\ queue.bytes \in Nat
        /\ queue.rotation \in Seq(Objects)
    BY <2>1, GoodParts
  <2>3. ASSUME NEW i \in DOMAIN queue.entries
        PROVE queue.entries[i] \in [executor : Objects, due : Nat, text : Nat \ {0}]
    <3>1. queue.entries[i] \in Entry
      BY <2>2, TableFacts DEF Numbered
    <3> QED BY <3>1, QueueAssumption DEF Entry
  <2> QED BY <2>1, <2>2, <2>3 DEF TypeOK, Numbered, Rest, World
<1> QED BY Invariance, <1>1, PTL

\* The byte total, the rotation and the lists of the queue agree with each other
\* and with the world after every admission, execution, cancellation and purge.
THEOREM Consistency == Spec => []QueueConsistent
<1>1. IInv => QueueConsistent
  <2> SUFFICES ASSUME IInv PROVE QueueConsistent
    OBVIOUS
  <2>1. Good(queue) /\ Counted(queue) /\ queue.bytes <= MaxBytes /\ LiveOnly(queue, objects)
    BY DEF IInv, Held
  <2>2. BytesExact
    BY <2>1 DEF BytesExact, Counted
  <2>3. ASSUME NEW k \in DOMAIN queue.rotation PROVE Owned(queue, queue.rotation[k]) # {}
    <3>1. k \in 1 .. Len(queue.rotation)
      BY <2>1, GoodParts, LenProperties
    <3>2. queue.rotation[k] \in Owners(queue)
      BY <2>1, <3>1 DEF Counted
    <3> QED BY <3>2 DEF Owners, Owned
  <2>4. RotationSound
    BY <2>1, <2>3 DEF RotationSound, Good
  <2>5. PurgedForgotten
    BY <2>1 DEF PurgedForgotten, LiveOnly
  <2> QED BY <2>2, <2>4, <2>5 DEF QueueConsistent
<1> QED BY Invariance, <1>1, PTL

\* Queue::take passes an executor over at most once for every other executor.
THEOREM Fairness == Spec => []FairRotation
<1>1. IInv => FairRotation
  <2> SUFFICES ASSUME IInv, NEW o \in Objects PROVE waits[o] < Cardinality(Objects)
    BY DEF FairRotation
  <2>1. Turns(queue, waits, now) /\ waits[o] \in Nat /\ Good(queue)
    BY DEF IInv, Rest, Held
  <2>2. PICK N \in Nat : N = Cardinality(Objects)
    BY QueueAssumption, FS_CardinalityType
  <2>3. CASE waits[o] > 0
    <3>1. PICK k \in 1 .. Len(queue.rotation) : waits[o] + k <= N
      BY <2>1, <2>2, <2>3 DEF Turns
    <3>2. k \in Nat /\ k >= 1
      BY <2>1, <3>1, GoodParts
    <3> QED BY <2>1, <2>2, <3>1, <3>2
  <2>4. CASE waits[o] = 0
    <3>1. N # 0
      BY <2>2, QueueAssumption, FS_EmptySet
    <3> QED BY <2>2, <2>4, <3>1
  <2> QED BY <2>1, <2>3, <2>4
<1> QED BY Invariance, <1>1, PTL

\* The lists of an executor run by due time, then by admission.
THEOREM InOrderExecution == Spec => InOrderPerExecutor
<1>1. IInv /\ [Next]_vars =>
        [\A o \in Objects :
            \/ last[o][1] < last'[o][1]
            \/ last[o][1] = last'[o][1] /\ last[o][2] <= last'[o][2]]_vars
  BY NextStep DEF InOrderStep, Follows
<1> QED BY Invariance, <1>1, PTL DEF Spec, InOrderPerExecutor
=============================================================================
