--------------------------- MODULE AutopilotProofs ---------------------------
(***************************************************************************)
(* Proofs about the autopilot controller, for any limits of the order queue *)
(* and of the feedback history.                                             *)
(***************************************************************************)
EXTENDS Autopilot, FiniteSetTheorems, SequenceTheorems, TLAPS

Progress == {"Configured", "OrderQueued", "Paused", "Resumed", "ManualTakeover", "OrderStarted",
             "OrderFailed", "Blocked"}
Record == [sequence : Nat, order : Nat, event : Progress \cup Final]
Order == [id : Nat, state : {"None", "Running", "Failed"}]
Controller ==
    [state : States, blocked : BOOLEAN, revision : Nat, nextId : Nat \ {0},
     active : Order, queue : Seq(Nat), feedback : Seq(Record), nextSequence : Nat \ {0},
     ended : SUBSET Record]

\* The last m elements of a sequence g that follows a sequence f.
Suffix(f, g, m) ==
    LET all  == f \o g
        drop == IF Len(all) > m THEN Len(all) - m ELSE 0
    IN  SubSeq(all, drop + 1, Len(all))

\* The sequence kept is f (of length a) and g (of length b) without the first d.
Cut(kept, f, g, a, b, d) ==
    /\ Len(kept) = a + b - d
    /\ a + b > 0 => Len(kept) > 0
    /\ \A k \in 1 .. a : k > d => kept[k - d] = f[k]
    /\ \A k \in 1 .. b : a + k > d => kept[a + k - d] = g[k]

\* A suffix is the whole without its first elements, empty only if the whole is.
LEMMA SuffixFacts ==
    ASSUME NEW S, NEW f \in Seq(S), NEW g \in Seq(S), NEW m \in Nat \ {0}
    PROVE /\ Suffix(f, g, m) \in Seq(S) /\ Len(Suffix(f, g, m)) <= m
          /\ \E d \in Nat : Cut(Suffix(f, g, m), f, g, Len(f), Len(g), d)
<1>0. PICK a \in Nat, b \in Nat : a = Len(f) /\ b = Len(g)
  BY LenProperties
<1>6. PICK kept : kept = Suffix(f, g, m)
  OBVIOUS
<1>1. PICK all \in Seq(S) : all = f \o g
  BY ConcatProperties
<1>2. /\ Len(all) = a + b
      /\ \A i \in 1 .. a + b : all[i] \in S
      /\ \A i \in 1 .. a + b : all[i] = IF i <= a THEN f[i] ELSE g[i - a]
  BY <1>0, <1>1, ConcatProperties, ElementOfSeq
<1>3. PICK d \in Nat : d = IF a + b > m THEN (a + b) - m ELSE 0
  <2>1. (IF a + b > m THEN (a + b) - m ELSE 0) \in Nat
    BY ONLY a \in Nat, b \in Nat, m \in Nat \ {0}
  <2> QED BY ONLY <2>1
<1>4. Suffix(f, g, m) = SubSeq(all, d + 1, a + b)
  BY <1>1, <1>2, <1>3 DEF Suffix
<1>5. d <= a + b /\ a + b - d <= m /\ (a + b > 0 => a + b - d > 0)
  BY ONLY <1>3, a \in Nat, b \in Nat, m \in Nat \ {0}
<1>7. /\ kept \in Seq(S)
      /\ Len(kept) = IF d + 1 <= a + b THEN (a + b) - (d + 1) + 1 ELSE 0
      /\ \A i \in 1 .. (a + b) - (d + 1) + 1 : kept[i] = all[(d + 1) + i - 1]
  <2>1. \A i \in d + 1 .. a + b : all[i] \in S
    BY <1>2
  <2>2. PICK l \in Int, h \in Int : l = d + 1 /\ h = a + b
    OBVIOUS
  <2>3. kept = SubSeq(all, l, h) /\ \A i \in l .. h : all[i] \in S
    BY <1>4, <1>6, <2>1, <2>2
  <2>4. /\ kept \in Seq(S)
        /\ Len(kept) = IF l <= h THEN h - l + 1 ELSE 0
        /\ \A i \in 1 .. h - l + 1 : kept[i] = all[l + i - 1]
    BY ONLY <2>3, l \in Int, h \in Int, SubSeqProperties
  <2> QED BY <2>2, <2>4
<1>8. Len(kept) = a + b - d
  BY ONLY <1>5, <1>7, a \in Nat, b \in Nat, d \in Nat
<1>9. \A i \in 1 .. a + b - d : kept[i] = all[d + i]
  <2> SUFFICES ASSUME NEW i \in 1 .. a + b - d PROVE kept[i] = all[d + i]
    OBVIOUS
  <2>1. i \in 1 .. (a + b) - (d + 1) + 1 /\ (d + 1) + i - 1 = d + i
    OBVIOUS
  <2> QED BY <1>7, <2>1
<1>10. ASSUME NEW k \in 1 .. a + b, k > d
       PROVE kept[k - d] = all[k]
  <2>1. k - d \in 1 .. a + b - d /\ d + (k - d) = k
    BY <1>10
  <2> QED BY <1>9, <2>1
<1>11. ASSUME NEW k \in 1 .. a, k > d PROVE kept[k - d] = f[k]
  <2>1. k \in 1 .. a + b /\ k <= a
    OBVIOUS
  <2> QED BY <1>2, <1>10, <1>11, <2>1
<1>12. ASSUME NEW k \in 1 .. b, a + k > d PROVE kept[a + k - d] = g[k]
  <2>1. PICK p \in 1 .. a + b : p = a + k /\ ~(p <= a) /\ p - a = k
    OBVIOUS
  <2>2. kept[p - d] = all[p] /\ all[p] = g[p - a]
    BY <1>2, <1>10, <1>12, <2>1
  <2> QED BY <2>1, <2>2
<1>13. Cut(kept, f, g, a, b, d)
  BY <1>5, <1>8, <1>11, <1>12 DEF Cut
<1> QED BY <1>0, <1>5, <1>6, <1>7, <1>8, <1>13

-----------------------------------------------------------------------------
(* The feedback history.                                                    *)

\* The sequence number of the oldest record the history still holds, or would.
First(c) == c.nextSequence - Len(c.feedback)

\* The history is a run of consecutive numbers up to the latest; the end of an
\* order is in it as long as it is recent enough.
History(c) ==
    /\ Len(c.feedback) <= MaxFeedback /\ Len(c.feedback) < c.nextSequence
    /\ c.nextSequence > 1 => Len(c.feedback) > 0
    /\ \A i \in 1 .. Len(c.feedback) : c.feedback[i].sequence = First(c) + i - 1
    /\ \A r \in c.ended :
          /\ 0 < r.sequence /\ r.sequence < c.nextSequence
          /\ r.sequence >= First(c) => c.feedback[r.sequence - First(c) + 1] = r

\* Which orders ended, and that each did once.
EndedOrders(c) == {r.order : r \in c.ended}
Once(c) == \A r, s \in c.ended : r.order = s.order => r = s

\* Two controllers that differ in their feedback alone.
SameButFeedback(r, c) ==
    /\ r.state = c.state /\ r.blocked = c.blocked /\ r.revision = c.revision
    /\ r.nextId = c.nextId /\ r.active = c.active /\ r.queue = c.queue

\* record_feedback: the history stays one, and the orders that a final event is
\* about have ended, once if they had not.
LEMMA RecordFeedback ==
    ASSUME NEW c \in Controller, History(c), NEW ids \in Seq(Nat), NEW event \in Progress \cup Final
    PROVE LET r == record_feedback(c, ids, event)
          IN /\ r \in Controller /\ History(r) /\ SameButFeedback(r, c)
             /\ event \notin Final => r.ended = c.ended
             /\ event \in Final => EndedOrders(r) = EndedOrders(c) \cup {ids[i] : i \in 1 .. Len(ids)}
             /\ /\ event \in Final /\ Once(c)
                /\ \A i, j \in 1 .. Len(ids) : ids[i] = ids[j] => i = j
                /\ \A i \in 1 .. Len(ids) : ids[i] \notin EndedOrders(c)
                => Once(r)
<1>1. PICK n \in Nat, L \in Nat, next \in Nat \ {0}, fb \in Seq(Record) :
        n = Len(ids) /\ L = Len(c.feedback) /\ next = c.nextSequence /\ fb = c.feedback
  BY LenProperties DEF Controller
<1>2. \A i \in 1 .. n : ids[i] \in Nat
  BY <1>1, ElementOfSeq
<1> DEFINE e(i) == [sequence |-> next + i - 1, order |-> ids[i], event |-> event]
<1>3. \A i \in 1 .. n : /\ e(i) \in Record /\ e(i).sequence = next + i - 1
                        /\ e(i).order = ids[i]
  BY <1>2 DEF Record
<1> HIDE DEF e
<1>4. PICK new \in Seq(Record) : /\ new = [i \in 1 .. n |-> e(i)] /\ Len(new) = n
                                 /\ DOMAIN new = 1 .. n
                                 /\ \A i \in 1 .. n : new[i] = e(i)
  <2>1. PICK new : new = [i \in 1 .. n |-> e(i)]
    OBVIOUS
  <2>2. DOMAIN new = 1 .. n /\ \A i \in 1 .. n : new[i] = e(i) /\ new[i] \in Record
    BY <1>3, <2>1
  <2>3. new \in [1 .. n -> Record]
    BY <2>1, <2>2
  <2>4. new \in Seq(Record) /\ Len(new) = n
    BY <2>3
  <2> QED BY <2>1, <2>2, <2>4
<1>5. PICK ended \in SUBSET Record :
          /\ ended = c.ended \cup {new[i] : i \in {j \in DOMAIN new : event \in Final}}
          /\ event \notin Final => ended = c.ended
          /\ event \in Final => ended = c.ended \cup {new[i] : i \in 1 .. n}
  <2>1. {new[i] : i \in {j \in DOMAIN new : event \in Final}}
            = IF event \in Final THEN {new[i] : i \in 1 .. n} ELSE {}
    BY <1>4
  <2>2. {new[i] : i \in 1 .. n} \subseteq Record /\ c.ended \subseteq Record
    BY <1>4, ElementOfSeq DEF Controller
  <2> QED BY <2>1, <2>2
<1>6. MaxFeedback \in Nat \ {0}
  BY AutopilotAssumption
<1>0. PICK kept : kept = Suffix(fb, new, MaxFeedback)
  OBVIOUS
<1>7. PICK d \in Nat :
        /\ kept \in Seq(Record)
        /\ Len(kept) = L + n - d /\ Len(kept) <= MaxFeedback
        /\ L + n > 0 => Len(kept) > 0
        /\ \A k \in 1 .. L : k > d => kept[k - d] = fb[k]
        /\ \A k \in 1 .. n : L + k > d => kept[L + k - d] = new[k]
  <2>1. L = Len(fb) /\ n = Len(new)
    BY <1>1, <1>4
  <2>2. kept \in Seq(Record) /\ Len(kept) <= MaxFeedback /\ \E d \in Nat : Cut(kept, fb, new, L, n, d)
    BY <1>0, <1>6, <2>1, SuffixFacts
  <2>3. PICK d \in Nat : Cut(kept, fb, new, L, n, d)
    BY <2>2
  <2> QED BY <2>2, <2>3 DEF Cut
<1>8. PICK r \in Controller :
        /\ r = record_feedback(c, ids, event)
        /\ r.feedback = kept /\ r.nextSequence = next + n
        /\ r.ended = ended /\ SameButFeedback(r, c)
  <2>1. record_feedback(c, ids, event)
            = [c EXCEPT !.feedback = kept, !.nextSequence = next + n, !.ended = ended]
    BY <1>0, <1>1, <1>4, <1>5, <1>7 DEF record_feedback, Suffix, e
  <2>2. next + n \in Nat \ {0}
    OBVIOUS
  <2>3. PICK r : r = [c EXCEPT !.feedback = kept, !.nextSequence = next + n, !.ended = ended]
    OBVIOUS
  <2>4. /\ r \in Controller /\ r.feedback = kept /\ r.nextSequence = next + n
        /\ r.ended = ended /\ SameButFeedback(r, c)
    BY <1>5, <1>7, <2>2, <2>3 DEF Controller, SameButFeedback
  <2> QED BY <2>1, <2>3, <2>4
<1>9. PICK first \in Nat \ {0} : first = next - L /\ first = First(c)
  BY <1>1 DEF First, History
<1>10. Len(kept) \in Nat /\ First(r) = first + d
  <2>1. Len(kept) \in Nat
    BY <1>7, LenProperties
  <2>2. First(r) = (next + n) - Len(kept)
    BY <1>8 DEF First
  <2> QED BY <1>7, <1>9, <2>1, <2>2
<1>11. History(r)
  <2>1. L <= MaxFeedback /\ L < next /\ (next > 1 => L > 0)
    BY <1>1 DEF History
  <2>2. Len(r.feedback) <= MaxFeedback /\ Len(r.feedback) < r.nextSequence
    BY <1>6, <1>7, <1>8, <1>10, <2>1
  <2>3. r.nextSequence > 1 => Len(r.feedback) > 0
    BY <1>7, <1>8, <2>1
  <2>4. ASSUME NEW i \in 1 .. Len(r.feedback)
        PROVE r.feedback[i].sequence = First(r) + i - 1
    <3>1. CASE d + i <= L
      <4>1. d + i \in 1 .. L /\ (d + i) - d = i /\ d + i > d
        BY <1>7, <1>8, <1>10, <3>1
      <4>2. kept[i] = fb[d + i]
        BY <1>7, <4>1
      <4>3. fb[d + i].sequence = first + (d + i) - 1
        BY <1>1, <1>9, <4>1 DEF History
      <4> QED BY <1>8, <1>10, <4>2, <4>3
    <3>2. CASE d + i > L
      <4>1. PICK k \in 1 .. n : k = d + i - L
        BY <1>7, <1>8, <1>10, <3>2
      <4>2. L + k > d /\ L + k - d = i
        BY <1>10, <4>1
      <4>3. kept[i] = new[k]
        BY <1>7, <4>2
      <4>4. new[k].sequence = next + k - 1
        BY <1>3, <1>4
      <4>5. next + k - 1 = First(r) + i - 1
        <5>1. First(r) = (next - L) + d
          BY <1>9, <1>10
        <5> QED BY <1>10, <4>1, <5>1
      <4> QED BY <1>8, <4>3, <4>4, <4>5
    <3> QED BY <1>10, <3>1, <3>2
  <2>5. ASSUME NEW x \in r.ended
        PROVE /\ 0 < x.sequence /\ x.sequence < r.nextSequence
              /\ x.sequence >= First(r) => r.feedback[x.sequence - First(r) + 1] = x
    <3>1. CASE x \in c.ended
      <4>1. PICK q \in Nat : q = x.sequence
        BY <3>1 DEF Controller, Record
      <4>2. 0 < q /\ q < next /\ (q >= first => fb[q - first + 1] = x)
        BY <1>1, <1>9, <3>1, <4>1 DEF History
      <4>3. ASSUME q >= first + d
            PROVE kept[q - (first + d) + 1] = x
        <5>1. PICK k \in 1 .. L : k = q - first + 1
          BY <1>9, <4>2, <4>3
        <5>2. k > d /\ k - d = q - (first + d) + 1 /\ q >= first
          BY <4>3, <5>1
        <5> QED BY <1>7, <4>2, <5>1, <5>2
      <4> QED BY <1>8, <1>10, <4>1, <4>2, <4>3
    <3>2. CASE x \in {new[i] : i \in 1 .. n}
      <4>1. PICK k \in 1 .. n : x = new[k]
        BY <3>2
      <4>2. x.sequence = next + k - 1
        BY <1>3, <1>4, <4>1
      <4>3. ASSUME next + k - 1 >= first + d
            PROVE kept[(next + k - 1) - (first + d) + 1] = x
        <5>1. L + k > d /\ L + k - d = (next + k - 1) - (first + d) + 1
          BY <1>9, <4>3
        <5> QED BY <1>7, <4>1, <5>1
      <4> QED BY <1>8, <1>10, <4>2, <4>3
    <3> QED BY <1>5, <1>8, <3>1, <3>2
  <2> QED BY <2>2, <2>3, <2>4, <2>5 DEF History
<1>12. event \in Final => EndedOrders(r) = EndedOrders(c) \cup {ids[i] : i \in 1 .. n}
  <2> SUFFICES ASSUME event \in Final
               PROVE {x.order : x \in r.ended}
                        = {x.order : x \in c.ended} \cup {ids[i] : i \in 1 .. n}
    BY DEF EndedOrders
  <2>1. r.ended = c.ended \cup {new[i] : i \in 1 .. n}
    BY <1>5, <1>8
  <2>2. \A i \in 1 .. n : new[i].order = ids[i]
    BY <1>3, <1>4
  <2>3. ASSUME NEW x \in r.ended
        PROVE x.order \in {y.order : y \in c.ended} \cup {ids[i] : i \in 1 .. n}
    <3>1. x \in c.ended \/ \E i \in 1 .. n : x = new[i]
      BY ONLY <2>1, x \in r.ended
    <3> QED BY ONLY <2>2, <3>1
  <2>4. ASSUME NEW x \in c.ended PROVE x.order \in {y.order : y \in r.ended}
    BY ONLY <2>1, x \in c.ended
  <2>5. ASSUME NEW i \in 1 .. n PROVE ids[i] \in {y.order : y \in r.ended}
    <3>1. new[i] \in r.ended /\ new[i].order = ids[i]
      BY ONLY <2>1, <2>2, i \in 1 .. n
    <3> QED BY ONLY <3>1
  <2> QED BY ONLY <2>3, <2>4, <2>5
<1>13. ASSUME event \in Final, Once(c), \A i, j \in 1 .. n : ids[i] = ids[j] => i = j,
              \A i \in 1 .. n : ids[i] \notin EndedOrders(c)
       PROVE Once(r)
  <2>1. r.ended = c.ended \cup {new[i] : i \in 1 .. n}
    BY <1>5, <1>8, <1>13
  <2>2. \A s \in c.ended : s.order \in EndedOrders(c)
    BY DEF EndedOrders
  <2>3. \A i \in 1 .. n : new[i].order = ids[i]
    BY <1>3, <1>4
  <2> SUFFICES ASSUME NEW s \in r.ended, NEW t \in r.ended, s.order = t.order PROVE s = t
    BY DEF Once
  <2>4. CASE s \in c.ended /\ t \in c.ended
    BY <1>13, <2>4 DEF Once
  <2>5. CASE s \notin c.ended \/ t \notin c.ended
    <3>1. \A x \in r.ended : x \in c.ended \/ \E i \in 1 .. n : x = new[i]
      BY <2>1
    <3>2. CASE s \in c.ended
      <4>1. PICK j \in 1 .. n : t = new[j]
        BY <2>5, <3>1, <3>2
      <4> QED BY <1>13, <2>2, <2>3, <3>2, <4>1
    <3>3. CASE s \notin c.ended
      <4>1. PICK i \in 1 .. n : s = new[i]
        BY <3>1, <3>3
      <4>2. s.order = ids[i] /\ s.order \notin EndedOrders(c)
        BY <1>13, <2>3, <4>1
      <4>3. t \notin c.ended
        BY <2>2, <4>2
      <4>4. PICK j \in 1 .. n : t = new[j]
        BY <3>1, <4>3
      <4>5. ids[i] = ids[j]
        BY <2>3, <4>2, <4>4
      <4> QED BY <1>13, <4>1, <4>4, <4>5
    <3> QED BY <3>2, <3>3
  <2> QED BY <2>4, <2>5
<1> QED BY <1>1, <1>5, <1>8, <1>11, <1>12, <1>13

-----------------------------------------------------------------------------
(***************************************************************************)
(* The controller.  AutopilotController::validate speaks of the counts of   *)
(* orders; the invariant speaks of the orders themselves, and adds that each *)
(* order ever submitted is pending or has ended.                             *)
(***************************************************************************)

\* Pending orders are distinct, were given out, and fit the limit.
Orders(c) ==
    /\ c.active # NoOrder => /\ c.active.state \in {"Running", "Failed"}
                             /\ c.active.id \in 1 .. c.nextId - 1
    /\ \A i \in 1 .. Len(c.queue) : /\ c.queue[i] \in 1 .. c.nextId - 1
                                    /\ c.active # NoOrder => c.queue[i] # c.active.id
    /\ \A i, j \in 1 .. Len(c.queue) : c.queue[i] = c.queue[j] => i = j
    /\ Len(c.queue) + (IF c.active = NoOrder THEN 0 ELSE 1) <= MaxQueued

\* The state fits the orders.
Modes(c) ==
    /\ c.state = "Blocked" => c.blocked
    /\ c.state = "Idle" => c.active = NoOrder /\ c.queue = <<>>
    /\ c.state = "Executing" => c.active # NoOrder \/ c.queue # <<>>

\* Every order ended once or is pending.
Ends(c) == EndedOrders(c) = (1 .. c.nextId - 1) \ Pending(c) /\ Once(c)

Core(c) == c \in Controller /\ History(c) /\ Orders(c) /\ Ends(c)
Sound(c) == c \in Controller /\ History(c) /\ Orders(c) /\ Modes(c) /\ Ends(c)

\* A sound controller is one whose orders and history are in order and whose
\* state fits them.
LEMMA SoundIsCore == \A c : Sound(c) <=> Core(c) /\ Modes(c)
BY DEF Sound, Core

\* The pending orders, one by one.
LEMMA PendingOrders ==
    ASSUME NEW c \in Controller
    PROVE /\ Len(c.queue) \in Nat /\ DOMAIN c.queue = 1 .. Len(c.queue)
          /\ \A i \in 1 .. Len(c.queue) : c.queue[i] \in Nat
          /\ Pending(c) = (IF c.active = NoOrder THEN {} ELSE {c.active.id})
                            \cup {c.queue[i] : i \in 1 .. Len(c.queue)}
          /\ c.queue = <<>> <=> Len(c.queue) = 0
<1>1. c.queue \in Seq(Nat)
  BY DEF Controller
<1>2. Len(c.queue) \in Nat /\ DOMAIN c.queue = 1 .. Len(c.queue)
  BY <1>1, LenProperties
<1>3. \A i \in 1 .. Len(c.queue) : c.queue[i] \in Nat
  BY <1>1, ElementOfSeq
<1>4. c.queue = <<>> <=> Len(c.queue) = 0
  BY <1>1, EmptySeq
<1> QED BY <1>2, <1>3, <1>4 DEF Pending, ActiveIds, QueuedIds

\* Nothing is pending.
LEMMA NothingPending ==
    ASSUME NEW c \in Controller
    PROVE Pending(c) = {} <=> c.active = NoOrder /\ c.queue = <<>>
<1>1. CASE c.queue = <<>>
  <2>1. {c.queue[i] : i \in 1 .. Len(c.queue)} = {}
    BY <1>1, PendingOrders
  <2> QED BY <1>1, <2>1, PendingOrders
<1>2. CASE c.queue # <<>>
  <2>1. 1 \in 1 .. Len(c.queue)
    BY <1>2, PendingOrders
  <2>2. c.queue[1] \in Pending(c)
    BY <2>1, PendingOrders
  <2> QED BY <1>2, <2>2
<1> QED BY <1>1, <1>2

\* What order_count counts.
LEMMA OrderCount ==
    ASSUME NEW c \in Controller
    PROVE order_count(c) = Len(c.queue) + (IF c.active = NoOrder THEN 0 ELSE 1)
<1>1. Cardinality(ActiveIds(c)) = IF c.active = NoOrder THEN 0 ELSE 1
  BY FS_EmptySet, FS_Singleton DEF ActiveIds
<1> QED BY <1>1 DEF order_count

\* A controller that keeps its history and its pending orders.
LEMMA Rearranged ==
    ASSUME NEW c, Core(c), NEW d \in Controller,
           d.feedback = c.feedback, d.nextSequence = c.nextSequence, d.ended = c.ended,
           d.nextId = c.nextId, Pending(d) = Pending(c), Orders(d), Modes(d)
    PROVE Sound(d)
<1>1. History(d)
  BY DEF Core, History, First
<1>2. Ends(d)
  BY DEF Core, Ends, EndedOrders, Once
<1> QED BY <1>1, <1>2 DEF Sound

\* Two controllers with the same orders.
SameQueue(d, c) == d.nextId = c.nextId /\ d.active = c.active /\ d.queue = c.queue

\* What is said of the orders of a controller is not about the rest of it.
LEMMA SameOrders ==
    ASSUME NEW c, NEW d, SameQueue(d, c)
    PROVE /\ Orders(c) => Orders(d)
          /\ d.state = c.state /\ d.blocked = c.blocked /\ Modes(c) => Modes(d)
          /\ Pending(d) = Pending(c)
<1>1. Orders(c) => Orders(d)
  BY DEF SameQueue, Orders
<1>2. d.state = c.state /\ d.blocked = c.blocked /\ Modes(c) => Modes(d)
  BY DEF SameQueue, Modes
<1>3. Pending(d) = Pending(c)
  BY DEF SameQueue, Pending, ActiveIds, QueuedIds
<1> QED BY <1>1, <1>2, <1>3

\* An event that ends nothing is recorded.
LEMMA Noted ==
    ASSUME NEW c, Sound(c), NEW ids \in Seq(Nat), NEW event \in Progress
    PROVE /\ Sound(record_feedback(c, ids, event))
          /\ SameButFeedback(record_feedback(c, ids, event), c)
<1>0. event \notin Final
  BY DEF Progress, Final
<1>1. PICK r : r = record_feedback(c, ids, event)
  OBVIOUS
<1>2. r \in Controller /\ History(r) /\ SameButFeedback(r, c) /\ r.ended = c.ended
  BY <1>0, <1>1, RecordFeedback DEF Sound
<1>3. Orders(r) /\ Modes(r) /\ Pending(r) = Pending(c)
  BY <1>2, SameOrders DEF Sound, SameButFeedback, SameQueue
<1>4. Ends(r)
  BY <1>2, <1>3 DEF Sound, Ends, EndedOrders, Once, SameButFeedback
<1> QED BY <1>1, <1>2, <1>3, <1>4 DEF Sound

\* One order ends and is no longer pending: d is the controller without it.
LEMMA Ended ==
    ASSUME NEW c, Sound(c), NEW id \in Pending(c), NEW event \in Final, NEW d \in Controller,
           d.feedback = c.feedback, d.nextSequence = c.nextSequence, d.ended = c.ended,
           d.nextId = c.nextId, Pending(d) = Pending(c) \ {id}, Orders(d)
    PROVE /\ Core(record_feedback(d, <<id>>, event))
          /\ SameButFeedback(record_feedback(d, <<id>>, event), d)
<1>1. PICK r : r = record_feedback(d, <<id>>, event)
  OBVIOUS
<1>2. id \in 1 .. c.nextId - 1 /\ id \in Nat /\ c.nextId \in Nat
  <2>1. c \in Controller /\ c.nextId \in Nat
    BY DEF Sound, Controller
  <2>2. id \in 1 .. c.nextId - 1
    BY <2>1, PendingOrders DEF Sound, Orders
  <2> QED BY <2>1, <2>2
<1>3. History(d) /\ Once(d) /\ EndedOrders(d) = (1 .. c.nextId - 1) \ Pending(c)
  BY DEF Sound, History, First, Ends, EndedOrders, Once
<1>4. PICK ids : ids = <<id>>
  OBVIOUS
<1>5. ids \in Seq(Nat) /\ Len(ids) = 1 /\ ids[1] = id
  BY <1>2, <1>4
<1>6. {ids[i] : i \in 1 .. Len(ids)} = {id} /\ \A i \in 1 .. Len(ids) : i = 1
  <2>1. 1 .. Len(ids) = {1}
    BY <1>5
  <2> QED BY <1>5, <2>1
<1>8. /\ r \in Controller /\ History(r) /\ SameButFeedback(r, d)
      /\ EndedOrders(r) = EndedOrders(d) \cup {id} /\ Once(r)
  <2>1. \A i, j \in 1 .. Len(ids) : ids[i] = ids[j] => i = j
    BY <1>6
  <2>2. \A i \in 1 .. Len(ids) : ids[i] \notin EndedOrders(d)
    BY <1>3, <1>5, <1>6
  <2>3. r = record_feedback(d, ids, event)
    BY <1>1, <1>4
  <2> QED BY <1>3, <1>5, <1>6, <2>1, <2>2, <2>3, RecordFeedback
<1>9. Orders(r) /\ Pending(r) = Pending(c) \ {id}
  BY <1>8, SameOrders DEF SameButFeedback, SameQueue
<1>10. Ends(r)
  BY <1>2, <1>3, <1>8, <1>9 DEF Ends, SameButFeedback
<1> QED BY <1>1, <1>8, <1>9, <1>10 DEF Core

-----------------------------------------------------------------------------
(* The operations.                                                          *)

\* bump_revision changes the revision alone.
LEMMA BumpFields ==
    ASSUME NEW c \in Controller, NEW d, d = bump_revision(c)
    PROVE /\ d \in Controller /\ d.revision = c.revision + 1
          /\ d.feedback = c.feedback /\ d.nextSequence = c.nextSequence /\ d.ended = c.ended
          /\ d.nextId = c.nextId /\ d.active = c.active /\ d.queue = c.queue
          /\ d.state = c.state /\ d.blocked = c.blocked
<1>1. PICK v \in Nat : v = c.revision + 1
  BY DEF Controller
<1>2. d = [c EXCEPT !.revision = v]
  BY <1>1 DEF bump_revision
<1> QED BY <1>1, <1>2 DEF Controller

\* The revision is no part of what is said of orders and history.
LEMMA Bumped ==
    ASSUME NEW c, Sound(c)
    PROVE /\ Sound(bump_revision(c)) /\ bump_revision(c).revision = c.revision + 1
          /\ Pending(bump_revision(c)) = Pending(c)
<1>1. PICK d : d = bump_revision(c)
  OBVIOUS
<1>2. /\ d \in Controller /\ d.revision = c.revision + 1
      /\ d.feedback = c.feedback /\ d.nextSequence = c.nextSequence /\ d.ended = c.ended
      /\ d.nextId = c.nextId /\ d.active = c.active /\ d.queue = c.queue
      /\ d.state = c.state /\ d.blocked = c.blocked
  BY <1>1, BumpFields DEF Sound
<1>3. Pending(d) = Pending(c) /\ Orders(d) /\ Modes(d)
  BY <1>2, SameOrders DEF Sound, SameQueue
<1> QED BY <1>1, <1>2, <1>3, Rearranged, SoundIsCore

\* The sequence that stands for no order.
LEMMA NoIds == <<0>> \in Seq(Nat)
OBVIOUS

\* configure records an event under the next revision.
LEMMA ConfigureSound ==
    ASSUME NEW c, Sound(c)
    PROVE Sound(configure(c)) /\ configure(c).revision = c.revision + 1
<1>1. "Configured" \in Progress
  BY DEF Progress
<1> QED BY <1>1, Bumped, Noted, NoIds DEF configure, SameButFeedback

\* pause changes the state and the revision, or nothing.
LEMMA PauseSound ==
    ASSUME NEW c, Sound(c)
    PROVE Sound(pause(c)) /\ (pause(c) = c \/ pause(c).revision = c.revision + 1)
<1>1. CASE c.state = "Paused"
  BY <1>1 DEF pause
<1>2. CASE c.state # "Paused"
  <2>1. PICK d : d = [c EXCEPT !.state = "Paused"]
    OBVIOUS
  <2>2. /\ d \in Controller /\ d.revision = c.revision
        /\ d.feedback = c.feedback /\ d.nextSequence = c.nextSequence /\ d.ended = c.ended
        /\ d.nextId = c.nextId /\ d.active = c.active /\ d.queue = c.queue
        /\ d.state = "Paused" /\ d.blocked = c.blocked
    <3>1. c \in Controller
      BY DEF Sound
    <3> QED BY <2>1, <3>1 DEF Controller, States
  <2>3. Pending(d) = Pending(c) /\ Orders(d) /\ Modes(d)
    BY <2>2, SameOrders DEF Sound, SameQueue, Modes
  <2>4. Sound(d)
    BY <2>2, <2>3, Rearranged, SoundIsCore
  <2>5. "Paused" \in Progress
    BY DEF Progress
  <2>6. pause(c) = record_feedback(bump_revision(d), <<0>>, "Paused")
    BY <1>2, <2>1 DEF pause
  <2>7. Sound(bump_revision(d)) /\ bump_revision(d).revision = c.revision + 1
    BY <2>2, <2>4, Bumped
  <2> QED BY <2>5, <2>6, <2>7, Noted, NoIds DEF SameButFeedback
<1> QED BY <1>1, <1>2

\* resume takes up the failed order again, under the next revision.
LEMMA ResumeSound ==
    ASSUME NEW c, Sound(c)
    PROVE Sound(resume(c)) /\ (resume(c) = c \/ resume(c).revision = c.revision + 1)
<1>1. CASE c.state \notin {"Paused", "Blocked"}
  BY <1>1 DEF resume
<1>2. CASE c.state \in {"Paused", "Blocked"}
  <2>1. c \in Controller /\ c.active \in Order /\ c.active.id \in Nat
    BY DEF Sound, Controller, Order
  <2>2. PICK a : a = IF c.active = NoOrder THEN c.active ELSE Running(c.active.id)
    OBVIOUS
  <2>3. /\ a \in Order /\ (a = NoOrder <=> c.active = NoOrder)
        /\ a # NoOrder => a.id = c.active.id /\ a.state = "Running"
    BY <2>1, <2>2 DEF Order, NoOrder, Running
  <2>4. PICK st \in {"Executing", "Idle"} : st = IF Pending(c) # {} THEN "Executing" ELSE "Idle"
    OBVIOUS
  <2>5. PICK d : d = [c EXCEPT !.active = a, !.state = st, !.blocked = FALSE]
    OBVIOUS
  <2>6. /\ d \in Controller /\ d.revision = c.revision
        /\ d.feedback = c.feedback /\ d.nextSequence = c.nextSequence /\ d.ended = c.ended
        /\ d.nextId = c.nextId /\ d.active = a /\ d.queue = c.queue
        /\ d.state = st
    BY <2>1, <2>3, <2>5 DEF Controller, States
  <2>7. Orders(d)
    BY <2>3, <2>6 DEF Sound, Orders
  <2>8. Pending(d) = Pending(c)
    BY <2>3, <2>6 DEF Pending, ActiveIds, QueuedIds
  <2>9. Modes(d)
    <3>1. st = "Idle" => Pending(d) = {}
      BY <2>4, <2>8
    <3>2. st = "Executing" => Pending(d) # {}
      BY <2>4, <2>8
    <3>3. Pending(d) = {} <=> d.active = NoOrder /\ d.queue = <<>>
      BY <2>6, NothingPending
    <3> QED BY <2>4, <2>6, <3>1, <3>2, <3>3 DEF Modes
  <2>10. Sound(d)
    BY <2>6, <2>7, <2>8, <2>9, Rearranged, SoundIsCore
  <2>11. resume(c) = record_feedback(bump_revision(d), <<0>>, "Resumed")
    BY <1>2, <2>2, <2>4, <2>5 DEF resume
  <2>12. Sound(bump_revision(d)) /\ bump_revision(d).revision = c.revision + 1
    BY <2>6, <2>10, Bumped
  <2>13. "Resumed" \in Progress
    BY DEF Progress
  <2> QED BY <2>11, <2>12, <2>13, Noted, NoIds DEF SameButFeedback
<1> QED BY <1>1, <1>2

\* What the player and the heartbeat do leaves the revision alone and adds no order.
Unmanaged(d, c) == Sound(d) /\ d.revision = c.revision /\ Pending(d) \subseteq Pending(c)

\* The sequence that stands for one order.
LEMMA OneId == ASSUME NEW id \in Nat PROVE <<id>> \in Seq(Nat)
OBVIOUS

\* manual_takeover pauses without a new revision and without a new order.
LEMMA TakeoverSound ==
    ASSUME NEW c, Sound(c)
    PROVE Unmanaged(manual_takeover(c), c)
<1>1. CASE c.state \notin {"Executing", "Idle"}
  BY <1>1 DEF manual_takeover, Unmanaged
<1>2. CASE c.state \in {"Executing", "Idle"}
  <2>1. c \in Controller /\ c.active.id \in Nat
    BY DEF Sound, Controller, Order
  <2>2. PICK d : d = [c EXCEPT !.state = "Paused", !.blocked = FALSE]
    OBVIOUS
  <2>3. /\ d \in Controller /\ d.revision = c.revision
        /\ d.feedback = c.feedback /\ d.nextSequence = c.nextSequence /\ d.ended = c.ended
        /\ d.nextId = c.nextId /\ d.active = c.active /\ d.queue = c.queue
        /\ d.state = "Paused"
    BY <2>1, <2>2 DEF Controller, States
  <2>4. Pending(d) = Pending(c) /\ Orders(d) /\ Modes(d)
    BY <2>3, SameOrders DEF Sound, SameQueue, Modes
  <2>5. Sound(d)
    BY <2>3, <2>4, Rearranged, SoundIsCore
  <2>6. "ManualTakeover" \in Progress
    BY DEF Progress
  <2>7. manual_takeover(c) = record_feedback(d, <<c.active.id>>, "ManualTakeover")
    BY <1>2, <2>2 DEF manual_takeover
  <2>8. Sound(manual_takeover(c)) /\ SameButFeedback(manual_takeover(c), d)
    BY <2>1, <2>5, <2>6, <2>7, Noted, OneId
  <2> QED BY <2>3, <2>4, <2>8, SameOrders DEF Unmanaged, SameButFeedback, SameQueue
<1> QED BY <1>1, <1>2

\* An order that starts moves from the queue to the active place.
LEMMA StartSound ==
    ASSUME NEW c, Sound(c)
    PROVE /\ Unmanaged(start_next(c), c)
          /\ start_next(c).state = c.state
<1>1. CASE c.state # "Executing" \/ c.active # NoOrder \/ c.queue = <<>>
  BY <1>1 DEF start_next, Unmanaged
<1>2. CASE ~(c.state # "Executing" \/ c.active # NoOrder \/ c.queue = <<>>)
  <2>1. c \in Controller /\ c.queue \in Seq(Nat)
    BY DEF Sound, Controller
  <2>2. PICK h \in Nat, t \in Seq(Nat) : h = Head(c.queue) /\ t = Tail(c.queue)
    BY <1>2, <2>1, HeadTailProperties
  <2>3. PICK L \in Nat : L = Len(c.queue)
    BY <2>1, LenProperties
  <2>4. /\ Len(t) = L - 1 /\ L > 0 /\ h = c.queue[1]
        /\ \A i \in 1 .. L - 1 : t[i] = c.queue[i + 1]
    BY <1>2, <2>1, <2>2, <2>3, HeadTailProperties, EmptySeq
  <2>5. /\ Running(h) \in Order /\ Running(h) # NoOrder
        /\ Running(h).id = h /\ Running(h).state = "Running"
    BY DEF Running, Order, NoOrder
  <2>6. PICK d : d = [c EXCEPT !.active = Running(h), !.queue = t]
    OBVIOUS
  <2>7. /\ d \in Controller /\ d.revision = c.revision
        /\ d.feedback = c.feedback /\ d.nextSequence = c.nextSequence /\ d.ended = c.ended
        /\ d.nextId = c.nextId /\ d.active = Running(h) /\ d.queue = t
        /\ d.state = c.state
    BY <2>1, <2>5, <2>6 DEF Controller
  <2>8. /\ c.active = NoOrder
        /\ \A i \in 1 .. L : c.queue[i] \in 1 .. c.nextId - 1
        /\ \A i, j \in 1 .. L : c.queue[i] = c.queue[j] => i = j
        /\ L <= MaxQueued
    <3>1. Orders(c) /\ c.active = NoOrder
      BY <1>2 DEF Sound
    <3>2. L + 0 <= MaxQueued
      BY <2>3, <3>1 DEF Orders
    <3> QED BY <2>3, <3>1, <3>2 DEF Orders
  <2>9. Orders(d)
    <3>1. h \in 1 .. c.nextId - 1
      BY <2>4, <2>8
    <3>2. ASSUME NEW i \in 1 .. L - 1
          PROVE t[i] \in 1 .. c.nextId - 1 /\ t[i] # h
      <4>1. i + 1 \in 1 .. L /\ 1 \in 1 .. L /\ i + 1 # 1
        OBVIOUS
      <4>2. c.queue[i + 1] # c.queue[1]
        BY <2>8, <4>1
      <4> QED BY <2>4, <2>8, <4>1, <4>2
    <3>3. \A i, j \in 1 .. L - 1 : t[i] = t[j] => i = j
      BY <2>4, <2>8
    <3>4. Len(t) + 1 <= MaxQueued
      BY <2>4, <2>8
    <3> QED BY <2>4, <2>5, <2>7, <3>1, <3>2, <3>3, <3>4 DEF Orders
  <2>10. Pending(d) = Pending(c)
    <3>1. Pending(c) = {c.queue[i] : i \in 1 .. L}
      BY <2>1, <2>3, <2>8, PendingOrders
    <3>2. Pending(d) = {h} \cup {t[i] : i \in 1 .. L - 1}
      BY <2>4, <2>5, <2>7, PendingOrders
    <3>3. \A i \in 1 .. L : c.queue[i] \in {h} \cup {t[k] : k \in 1 .. L - 1}
      <4> SUFFICES ASSUME NEW i \in 1 .. L PROVE c.queue[i] = h \/ \E k \in 1 .. L - 1 : c.queue[i] = t[k]
        OBVIOUS
      <4>1. CASE i = 1
        BY <2>4, <4>1
      <4>2. CASE i # 1
        <5>1. PICK k \in 1 .. L - 1 : k + 1 = i
          BY <4>2
        <5> QED BY <2>4, <5>1
      <4> QED BY <4>1, <4>2
    <3>4. \A k \in 1 .. L - 1 : k + 1 \in 1 .. L
      OBVIOUS
    <3>5. 1 \in 1 .. L
      BY <2>4
    <3>6. Pending(d) \subseteq Pending(c)
      BY <2>4, <3>1, <3>2, <3>4, <3>5
    <3> QED BY <3>1, <3>2, <3>3, <3>6
  <2>11. Modes(d)
    BY <1>2, <2>5, <2>7 DEF Modes
  <2>12. Sound(d)
    BY <2>7, <2>9, <2>10, <2>11, Rearranged, SoundIsCore
  <2>13. start_next(c) = record_feedback(d, <<h>>, "OrderStarted")
    BY <1>2, <2>2, <2>6 DEF start_next
  <2>14. "OrderStarted" \in Progress
    BY DEF Progress
  <2>15. Sound(start_next(c)) /\ SameButFeedback(start_next(c), d)
    BY <2>12, <2>13, <2>14, Noted, OneId
  <2> QED BY <2>7, <2>10, <2>15, SameOrders DEF Unmanaged, SameButFeedback, SameQueue
<1> QED BY <1>1, <1>2

\* complete_active ends the active order, once.
LEMMA CompleteSound ==
    ASSUME NEW c, Sound(c), c.active # NoOrder
    PROVE Unmanaged(complete_active(c), c)
<1>1. c \in Controller /\ c.active.id \in Nat
  BY DEF Sound, Controller, Order
<1>2. PICK st \in {"Idle", "Executing"} : st = IF c.queue = <<>> THEN "Idle" ELSE "Executing"
  OBVIOUS
<1>3. PICK d : d = [c EXCEPT !.active = NoOrder, !.state = st]
  OBVIOUS
<1>4. NoOrder \in Order
  BY DEF NoOrder, Order
<1>5. /\ d \in Controller /\ d.revision = c.revision
      /\ d.feedback = c.feedback /\ d.nextSequence = c.nextSequence /\ d.ended = c.ended
      /\ d.nextId = c.nextId /\ d.active = NoOrder /\ d.queue = c.queue
      /\ d.state = st
  BY <1>1, <1>3, <1>4 DEF Controller, States
<1>6. Orders(d)
  <2>1. Len(c.queue) \in Nat /\ Len(c.queue) + 1 <= MaxQueued /\ MaxQueued \in Nat
    BY <1>1, PendingOrders, AutopilotAssumption DEF Sound, Orders
  <2>2. Len(c.queue) + 0 <= MaxQueued
    BY <2>1
  <2> QED BY <1>5, <2>2 DEF Sound, Orders
<1>7. Pending(d) = Pending(c) \ {c.active.id}
  <2>1. Pending(c) = {c.active.id} \cup {c.queue[i] : i \in 1 .. Len(c.queue)}
    BY <1>1, PendingOrders
  <2>2. Pending(d) = {c.queue[i] : i \in 1 .. Len(c.queue)}
    BY <1>5, PendingOrders
  <2>3. c.active.id \notin {c.queue[i] : i \in 1 .. Len(c.queue)}
    BY DEF Sound, Orders
  <2> QED BY <2>1, <2>2, <2>3
<1>8. c.active.id \in Pending(c)
  BY <1>1, PendingOrders
<1>9. PICK r : r = complete_active(c)
  OBVIOUS
<1>10. r = record_feedback(d, <<c.active.id>>, "OrderSucceeded")
  BY <1>2, <1>3, <1>9 DEF complete_active
<1>11. "OrderSucceeded" \in Final
  BY DEF Final
<1>12. Core(r) /\ SameButFeedback(r, d)
  BY <1>5, <1>6, <1>7, <1>8, <1>10, <1>11, Ended
<1>13. Modes(r)
  BY <1>2, <1>5, <1>12 DEF Modes, SameButFeedback
<1>14. Pending(r) = Pending(d)
  BY <1>12, SameOrders DEF SameButFeedback, SameQueue
<1> QED BY <1>5, <1>7, <1>9, <1>12, <1>13, <1>14, SoundIsCore DEF Unmanaged, SameButFeedback

\* fail_active keeps its order pending.
LEMMA FailSound ==
    ASSUME NEW c, Sound(c), c.active # NoOrder
    PROVE Unmanaged(fail_active(c), c)
<1>1. c \in Controller /\ c.active \in Order /\ c.active.id \in Nat
  BY DEF Sound, Controller, Order
<1>2. PICK a : a = [c.active EXCEPT !.state = "Failed"]
  OBVIOUS
<1>3. a \in Order /\ a.id = c.active.id /\ a.state = "Failed" /\ a # NoOrder
  BY <1>1, <1>2 DEF Order, NoOrder
<1>4. PICK d : d = [c EXCEPT !.active = a, !.state = "Blocked", !.blocked = TRUE]
  OBVIOUS
<1>5. /\ d \in Controller /\ d.revision = c.revision
      /\ d.feedback = c.feedback /\ d.nextSequence = c.nextSequence /\ d.ended = c.ended
      /\ d.nextId = c.nextId /\ d.active = a /\ d.queue = c.queue
      /\ d.state = "Blocked" /\ d.blocked = TRUE
  BY <1>1, <1>3, <1>4 DEF Controller, States
<1>6. Orders(d)
  BY <1>3, <1>5 DEF Sound, Orders
<1>7. Pending(d) = Pending(c)
  BY <1>3, <1>5 DEF Pending, ActiveIds, QueuedIds
<1>8. Modes(d)
  BY <1>5 DEF Modes
<1>9. Sound(d)
  BY <1>5, <1>6, <1>7, <1>8, Rearranged, SoundIsCore
<1>10. PICK e : e = record_feedback(d, <<c.active.id>>, "OrderFailed")
  OBVIOUS
<1>11. "OrderFailed" \in Progress /\ "Blocked" \in Progress
  BY DEF Progress
<1>12. Sound(e) /\ SameButFeedback(e, d)
  BY <1>1, <1>9, <1>10, <1>11, Noted, OneId
<1>13. PICK r : r = fail_active(c)
  OBVIOUS
<1>14. r = record_feedback(e, <<c.active.id>>, "Blocked")
  <2>1. d = [c EXCEPT !.active.state = "Failed", !.state = "Blocked", !.blocked = TRUE]
    BY <1>2, <1>4
  <2> QED BY <1>10, <1>13, <2>1 DEF fail_active
<1>15. Sound(r) /\ SameButFeedback(r, e)
  BY <1>1, <1>11, <1>12, <1>14, Noted, OneId
<1>16. Pending(r) = Pending(d)
  BY <1>12, <1>15, SameOrders DEF SameButFeedback, SameQueue
<1> QED BY <1>5, <1>7, <1>12, <1>13, <1>15, <1>16 DEF Unmanaged, SameButFeedback

\* The heartbeat: an order may start and then end.
LEMMA HeartbeatSound ==
    ASSUME NEW c, Sound(c), NEW started, started = start_next(c), NEW d,
           \/ d = started
           \/ started.active # NoOrder /\ d \in {complete_active(started), fail_active(started)}
    PROVE Unmanaged(d, c)
<1>1. Unmanaged(started, c)
  BY StartSound
<1>2. ASSUME NEW e, Unmanaged(e, started) PROVE Unmanaged(e, c)
  BY <1>1, <1>2 DEF Unmanaged
<1> QED BY <1>1, <1>2, CompleteSound, FailSound DEF Unmanaged

\* The sequence t is q, of length L, without its element number i.
Removed(t, q, L, i) ==
    /\ Len(t) = L - 1
    /\ \A k \in 1 .. L - 1 : t[k] = IF k < i THEN q[k] ELSE q[k + 1]

\* Two pieces of a sequence make it without one element.
LEMMA RemovedFacts ==
    ASSUME NEW S, NEW q \in Seq(S), NEW L \in Nat, L = Len(q), NEW i \in 1 .. L,
           NEW t, t = SubSeq(q, 1, i - 1) \o SubSeq(q, i + 1, Len(q))
    PROVE t \in Seq(S) /\ Removed(t, q, L, i)
<1>1. \A k \in 1 .. L : q[k] \in S
  BY ElementOfSeq
<1>2. PICK a : a = SubSeq(q, 1, i - 1)
  OBVIOUS
<1>3. PICK b : b = SubSeq(q, i + 1, L)
  OBVIOUS
<1>4. a \in Seq(S) /\ Len(a) = i - 1 /\ \A k \in 1 .. i - 1 : a[k] = q[k]
  <2>1. \A k \in 1 .. i - 1 : q[k] \in S
    BY <1>1
  <2>2. /\ a \in Seq(S) /\ Len(a) = IF 1 <= i - 1 THEN (i - 1) - 1 + 1 ELSE 0
        /\ \A k \in 1 .. (i - 1) - 1 + 1 : a[k] = q[1 + k - 1]
    <3>1. 1 \in Int /\ i - 1 \in Int
      OBVIOUS
    <3> QED BY <1>2, <2>1, <3>1, SubSeqProperties
  <2>3. \A k \in 1 .. i - 1 : k \in 1 .. (i - 1) - 1 + 1 /\ 1 + k - 1 = k
    OBVIOUS
  <2>4. Len(a) = i - 1
    BY <2>2
  <2> QED BY <2>2, <2>3, <2>4
<1>5. b \in Seq(S) /\ Len(b) = L - i /\ \A k \in 1 .. L - i : b[k] = q[i + k]
  <2>1. \A k \in i + 1 .. L : q[k] \in S
    BY <1>1
  <2>2. /\ b \in Seq(S) /\ Len(b) = IF i + 1 <= L THEN L - (i + 1) + 1 ELSE 0
        /\ \A k \in 1 .. L - (i + 1) + 1 : b[k] = q[(i + 1) + k - 1]
    <3>1. i + 1 \in Int /\ L \in Int
      OBVIOUS
    <3> QED BY <1>3, <2>1, <3>1, SubSeqProperties
  <2>3. \A k \in 1 .. L - i : k \in 1 .. L - (i + 1) + 1 /\ (i + 1) + k - 1 = i + k
    OBVIOUS
  <2>4. Len(b) = L - i
    BY <2>2
  <2> QED BY <2>2, <2>3, <2>4
<1>6. /\ t \in Seq(S) /\ Len(t) = Len(a) + Len(b)
      /\ \A k \in 1 .. Len(a) + Len(b) : t[k] = IF k <= Len(a) THEN a[k] ELSE b[k - Len(a)]
  <2>1. t = a \o b
    BY <1>2, <1>3
  <2>2. a \in Seq(S) /\ b \in Seq(S)
    BY <1>4, <1>5
  <2>3. /\ a \o b \in Seq(S) /\ Len(a \o b) = Len(a) + Len(b)
        /\ \A k \in 1 .. Len(a) + Len(b) : (a \o b)[k] = IF k <= Len(a) THEN a[k] ELSE b[k - Len(a)]
    BY ONLY <2>2, ConcatProperties
  <2> QED BY ONLY <2>1, <2>3
<1>7. Len(a) + Len(b) = L - 1
  BY <1>4, <1>5
<1>8. ASSUME NEW k \in 1 .. L - 1
      PROVE t[k] = IF k < i THEN q[k] ELSE q[k + 1]
  <2>1. CASE k < i
    <3>1. k \in 1 .. i - 1 /\ k <= i - 1
      BY <2>1
    <3> QED BY <1>4, <1>6, <1>7, <2>1, <3>1
  <2>2. CASE ~(k < i)
    <3>1. PICK m \in 1 .. L - i : m = k - (i - 1) /\ i + m = k + 1 /\ ~(k <= i - 1)
      BY <2>2
    <3>2. t[k] = b[m]
      BY <1>4, <1>6, <1>7, <3>1
    <3> QED BY <1>5, <2>2, <3>1, <3>2
  <2> QED BY <2>1, <2>2
<1> QED BY <1>6, <1>7, <1>8 DEF Removed

\* An order is taken out of the controller, from the active place or the queue.
LEMMA WithoutFacts ==
    ASSUME NEW c, Sound(c), NEW id \in Pending(c), NEW d, d = without(c, id)
    PROVE /\ d \in Controller /\ d.revision = c.revision
          /\ d.feedback = c.feedback /\ d.nextSequence = c.nextSequence /\ d.ended = c.ended
          /\ d.nextId = c.nextId /\ d.state = c.state /\ d.blocked = c.blocked
          /\ Pending(d) = Pending(c) \ {id} /\ Orders(d)
          /\ d.active # NoOrder => c.active # NoOrder
<1>1. c \in Controller /\ c.queue \in Seq(Nat) /\ Orders(c)
  BY DEF Sound, Controller
<1>2. PICK L \in Nat : L = Len(c.queue) /\ DOMAIN c.queue = 1 .. L
  BY <1>1, PendingOrders
<1>3. NoOrder \in Order /\ MaxQueued \in Nat
  BY AutopilotAssumption DEF NoOrder, Order
<1>4. CASE id \in ActiveIds(c)
  <2>1. c.active # NoOrder /\ id = c.active.id
    BY <1>4 DEF ActiveIds
  <2>2. d = [c EXCEPT !.active = NoOrder]
    BY <1>4 DEF without
  <2>3. /\ d \in Controller /\ d.revision = c.revision
        /\ d.feedback = c.feedback /\ d.nextSequence = c.nextSequence /\ d.ended = c.ended
        /\ d.nextId = c.nextId /\ d.state = c.state /\ d.blocked = c.blocked
        /\ d.active = NoOrder /\ d.queue = c.queue
    BY <1>1, <1>3, <2>2 DEF Controller
  <2>4. Orders(d)
    <3>1. L + 1 <= MaxQueued
      BY <1>1, <1>2, <2>1 DEF Orders
    <3>2. Len(c.queue) + 0 <= MaxQueued
      BY <1>2, <1>3, <3>1
    <3> QED BY <1>1, <2>3, <3>2 DEF Orders
  <2>5. Pending(d) = Pending(c) \ {id}
    <3>1. Pending(c) = {id} \cup {c.queue[i] : i \in 1 .. L}
      BY <1>1, <1>2, <2>1, PendingOrders
    <3>2. Pending(d) = {c.queue[i] : i \in 1 .. L}
      BY <1>2, <2>3, PendingOrders
    <3>3. id \notin {c.queue[i] : i \in 1 .. L}
      BY <1>1, <1>2, <2>1 DEF Orders
    <3> QED BY <3>1, <3>2, <3>3
  <2> QED BY <2>3, <2>4, <2>5
<1>5. CASE id \notin ActiveIds(c)
  <2>1. \E i \in DOMAIN c.queue : c.queue[i] = id
    BY <1>5 DEF Pending, QueuedIds
  <2>2. PICK i \in 1 .. L : i = (CHOOSE k \in DOMAIN c.queue : c.queue[k] = id) /\ c.queue[i] = id
    BY <1>2, <2>1
  <2>3. PICK t : t = SubSeq(c.queue, 1, i - 1) \o SubSeq(c.queue, i + 1, Len(c.queue))
    OBVIOUS
  <2>4. /\ t \in Seq(Nat) /\ Len(t) = L - 1
        /\ \A k \in 1 .. L - 1 : t[k] = IF k < i THEN c.queue[k] ELSE c.queue[k + 1]
    <3>1. PICK q \in Seq(Nat) : q = c.queue
      BY <1>1
    <3>2. L = Len(q) /\ t = SubSeq(q, 1, i - 1) \o SubSeq(q, i + 1, Len(q))
      BY <1>2, <2>3, <3>1
    <3>3. t \in Seq(Nat) /\ Removed(t, q, L, i)
      BY <3>2, RemovedFacts
    <3> QED BY <3>1, <3>3 DEF Removed
  <2>5. d = [c EXCEPT !.queue = t]
    BY <1>5, <2>2, <2>3 DEF without
  <2>6. /\ d \in Controller /\ d.revision = c.revision
        /\ d.feedback = c.feedback /\ d.nextSequence = c.nextSequence /\ d.ended = c.ended
        /\ d.nextId = c.nextId /\ d.state = c.state /\ d.blocked = c.blocked
        /\ d.active = c.active /\ d.queue = t
    BY <1>1, <2>4, <2>5 DEF Controller
  <2>7. ASSUME NEW k \in 1 .. L - 1
        PROVE \E m \in 1 .. L : /\ t[k] = c.queue[m] /\ m # i
                                /\ m = IF k < i THEN k ELSE k + 1
    BY <2>4
  <2>8. Orders(d)
    <3>1. \A k \in 1 .. L - 1 : /\ t[k] \in 1 .. c.nextId - 1
                                /\ c.active # NoOrder => t[k] # c.active.id
      <4> SUFFICES ASSUME NEW k \in 1 .. L - 1
                   PROVE t[k] \in 1 .. c.nextId - 1 /\ (c.active # NoOrder => t[k] # c.active.id)
        OBVIOUS
      <4>1. PICK m \in 1 .. L : t[k] = c.queue[m]
        BY <2>7
      <4> QED BY <1>1, <1>2, <4>1 DEF Orders
    <3>2. ASSUME NEW k \in 1 .. L - 1, NEW l \in 1 .. L - 1, t[k] = t[l]
          PROVE k = l
      <4>1. PICK m \in 1 .. L : t[k] = c.queue[m] /\ m = IF k < i THEN k ELSE k + 1
        BY <2>7
      <4>2. PICK n \in 1 .. L : t[l] = c.queue[n] /\ n = IF l < i THEN l ELSE l + 1
        BY <2>7
      <4>3. m = n
        BY <1>1, <1>2, <3>2, <4>1, <4>2 DEF Orders
      <4> QED BY <4>1, <4>2, <4>3
    <3>3. Len(t) + (IF c.active = NoOrder THEN 0 ELSE 1) <= MaxQueued
      <4>1. L + (IF c.active = NoOrder THEN 0 ELSE 1) <= MaxQueued
        BY <1>1, <1>2 DEF Orders
      <4> QED BY <1>3, <2>4, <4>1
    <3>4. Len(d.queue) = L - 1 /\ d.queue = t
      BY <2>4, <2>6
    <3> QED BY <1>1, <2>6, <3>1, <3>2, <3>3, <3>4 DEF Orders
  <2>9. Pending(d) = Pending(c) \ {id}
    <3> DEFINE A == IF c.active = NoOrder THEN {} ELSE {c.active.id}
    <3>1. Pending(c) = A \cup {c.queue[k] : k \in 1 .. L}
      BY <1>1, <1>2, PendingOrders
    <3>2. Pending(d) = A \cup {t[k] : k \in 1 .. L - 1}
      BY <2>4, <2>6, PendingOrders
    <3>3. id \notin A
      BY <1>5 DEF ActiveIds
    <3> HIDE DEF A
    <3>4. \A m \in 1 .. L : m # i => c.queue[m] # id
      BY <1>1, <1>2, <2>2 DEF Orders
    <3>5. ASSUME NEW m \in 1 .. L, m # i
          PROVE \E k \in 1 .. L - 1 : t[k] = c.queue[m]
      <4>1. CASE m < i
        <5>1. m \in 1 .. L - 1
          BY <4>1
        <5>2. t[m] = c.queue[m]
          BY <2>4, <4>1, <5>1
        <5> QED BY <5>1, <5>2
      <4>2. CASE ~(m < i)
        <5>1. m - 1 \in 1 .. L - 1 /\ ~(m - 1 < i) /\ (m - 1) + 1 = m
          BY <3>5, <4>2
        <5>2. t[m - 1] = c.queue[m]
          BY <2>4, <5>1
        <5> QED BY <5>1, <5>2
      <4> QED BY <4>1, <4>2
    <3>6. \A k \in 1 .. L - 1 : t[k] # id /\ \E m \in 1 .. L : t[k] = c.queue[m]
      BY <2>7, <3>4
    <3>7. ASSUME NEW x \in Pending(d) PROVE x \in Pending(c) \ {id}
      BY <3>1, <3>2, <3>3, <3>6
    <3>8. ASSUME NEW x \in Pending(c), x # id PROVE x \in Pending(d)
      <4>1. CASE x \in A
        BY <3>2, <4>1
      <4>2. CASE x \notin A
        <5>1. PICK m \in 1 .. L : x = c.queue[m]
          BY <3>1, <4>2
        <5>2. m # i
          BY <2>2, <3>8, <5>1
        <5>3. PICK k \in 1 .. L - 1 : t[k] = c.queue[m]
          BY <3>5, <5>2
        <5> QED BY <3>2, <5>1, <5>3
      <4> QED BY <4>1, <4>2
    <3> QED BY <3>7, <3>8
  <2> QED BY <2>6, <2>8, <2>9
<1> QED BY <1>4, <1>5

\* cancel ends one pending order, once, and lets the state fit the rest.
LEMMA CancelSound ==
    ASSUME NEW c, Sound(c), NEW id \in Pending(c)
    PROVE Sound(cancel(c, id)) /\ cancel(c, id).revision = c.revision + 1
<1>1. PICK d : d = without(c, id)
  OBVIOUS
<1>2. /\ d \in Controller /\ d.revision = c.revision
      /\ d.feedback = c.feedback /\ d.nextSequence = c.nextSequence /\ d.ended = c.ended
      /\ d.nextId = c.nextId /\ d.state = c.state /\ d.blocked = c.blocked
      /\ Pending(d) = Pending(c) \ {id} /\ Orders(d)
  BY <1>1, WithoutFacts
<1>3. PICK r : r = record_feedback(d, <<id>>, "OrderCanceled")
  OBVIOUS
<1>4. "OrderCanceled" \in Final
  BY DEF Final
<1>5. Core(r) /\ SameButFeedback(r, d)
  BY <1>2, <1>3, <1>4, Ended
<1>6. PICK next : next = bump_revision(r)
  OBVIOUS
<1>7. /\ next \in Controller /\ next.revision = r.revision + 1
      /\ next.feedback = r.feedback /\ next.nextSequence = r.nextSequence /\ next.ended = r.ended
      /\ next.nextId = r.nextId /\ next.active = r.active /\ next.queue = r.queue
      /\ next.state = r.state /\ next.blocked = r.blocked
  BY <1>5, <1>6, BumpFields DEF Core
<1>8. PICK f : f = cancel(c, id)
  OBVIOUS
<1>9. CASE next.active # NoOrder
  <2>1. f = next
    BY <1>1, <1>3, <1>6, <1>8, <1>9 DEF cancel
  <2>2. Orders(f) /\ Pending(f) = Pending(r)
    BY <1>5, <1>7, <2>1, SameOrders DEF SameQueue, Core
  <2>3. Modes(f)
    <3>1. f.state = c.state /\ f.blocked = c.blocked
      BY <1>2, <1>5, <1>7, <2>1 DEF SameButFeedback
    <3>2. c.state # "Idle"
      <4>1. c.state = "Idle" => Pending(c) = {}
        BY NothingPending DEF Sound, Modes
      <4> QED BY <4>1
    <3> QED BY <1>9, <2>1, <3>1, <3>2 DEF Sound, Modes
  <2> QED BY <1>2, <1>5, <1>7, <1>8, <2>1, <2>2, <2>3, Rearranged DEF SameButFeedback
<1>10. CASE next.active = NoOrder
  <2>1. PICK st : st = IF next.state = "Paused" THEN next.state
                       ELSE IF next.queue = <<>> THEN "Idle" ELSE "Executing"
    OBVIOUS
  <2>2. st \in States
    BY <2>1 DEF States
  <2>3. f = [next EXCEPT !.blocked = FALSE, !.state = st]
    BY <1>1, <1>3, <1>6, <1>8, <1>10, <2>1 DEF cancel
  <2>4. /\ f \in Controller /\ f.revision = next.revision
        /\ f.feedback = next.feedback /\ f.nextSequence = next.nextSequence /\ f.ended = next.ended
        /\ f.nextId = next.nextId /\ f.active = next.active /\ f.queue = next.queue
        /\ f.state = st
    BY <1>7, <2>2, <2>3 DEF Controller
  <2>5. Orders(f) /\ Pending(f) = Pending(r)
    BY <1>5, <1>7, <2>4, SameOrders DEF SameQueue, Core
  <2>6. Modes(f)
    BY <1>10, <2>1, <2>4 DEF Modes
  <2> QED BY <1>2, <1>5, <1>7, <1>8, <2>4, <2>5, <2>6, Rearranged DEF SameButFeedback
<1> QED BY <1>9, <1>10
-----------------------------------------------------------------------------
(* Submission.                                                              *)

\* The identities given to a batch of n orders.
NewIds(c, n) == [i \in 1 .. n |-> c.nextId + i - 1]

\* They are the next ones in order.
LEMMA NewIdsFacts ==
    ASSUME NEW c \in Controller, NEW n \in Nat
    PROVE /\ NewIds(c, n) \in Seq(Nat) /\ Len(NewIds(c, n)) = n
          /\ \A i \in 1 .. n : NewIds(c, n)[i] = c.nextId + i - 1
<1>1. PICK N \in Nat \ {0} : N = c.nextId
  BY DEF Controller
<1>2. PICK ids : ids = [i \in 1 .. n |-> N + i - 1]
  OBVIOUS
<1>3. \A i \in 1 .. n : N + i - 1 \in Nat
  OBVIOUS
<1>4. ids \in [1 .. n -> Nat] /\ \A i \in 1 .. n : ids[i] = N + i - 1
  BY <1>2, <1>3
<1>5. ids \in Seq(Nat) /\ Len(ids) = n
  BY <1>4
<1> QED BY <1>1, <1>2, <1>4, <1>5 DEF NewIds

\* The elements of a sequence of L numbers below N behind which N .. N+n-1 are put.
Extended(t, q, L, N, n) ==
    \A k \in 1 .. L + n : t[k] = IF k <= L THEN q[k] ELSE N + (k - L) - 1

\* The elements of a sequence of m numbers t are distinct and below M; they are
\* those of q and the numbers from N on.
Distinct(t, m, q, L, N, M) ==
    /\ \A k \in 1 .. m : t[k] \in 1 .. M - 1
    /\ \A k, l \in 1 .. m : t[k] = t[l] => k = l
    /\ {t[k] : k \in 1 .. m} = {q[k] : k \in 1 .. L} \cup (N .. M - 1)

\* They stay distinct, and are the old numbers and the new ones.
LEMMA ExtendedFacts ==
    ASSUME NEW L \in Nat, NEW N \in Nat \ {0}, NEW n \in Nat, NEW q, NEW t,
           \A k \in 1 .. L : q[k] \in 1 .. N - 1,
           \A k, l \in 1 .. L : q[k] = q[l] => k = l,
           Extended(t, q, L, N, n)
    PROVE Distinct(t, L + n, q, L, N, N + n)
<1>1. ASSUME NEW k \in 1 .. L + n, k <= L
      PROVE k \in 1 .. L /\ t[k] = q[k] /\ t[k] \in 1 .. N - 1
  <2>1. k \in 1 .. L /\ t[k] = q[k]
    BY <1>1 DEF Extended
  <2> QED BY <2>1
<1>2. ASSUME NEW k \in 1 .. L + n, ~(k <= L)
      PROVE t[k] = N + (k - L) - 1 /\ t[k] \in N .. N + n - 1
  <2>1. t[k] = N + (k - L) - 1
    BY <1>2 DEF Extended
  <2>2. N + (k - L) - 1 \in N .. N + n - 1
    BY <1>2
  <2> QED BY <2>1, <2>2
<1>3. ASSUME NEW k \in 1 .. L + n PROVE t[k] \in 1 .. N + n - 1
  <2>1. CASE k <= L
    <3>1. t[k] \in 1 .. N - 1
      BY <1>1, <2>1
    <3> QED BY <3>1
  <2>2. CASE ~(k <= L)
    <3>1. t[k] \in N .. N + n - 1
      BY <1>2, <2>2
    <3> QED BY <3>1
  <2> QED BY <2>1, <2>2
<1>4. ASSUME NEW k \in 1 .. L + n, NEW l \in 1 .. L + n, t[k] = t[l] PROVE k = l
  <2>1. CASE k <= L /\ l <= L
    <3>1. k \in 1 .. L /\ l \in 1 .. L /\ q[k] = q[l]
      BY <1>1, <1>4, <2>1
    <3> QED BY <3>1
  <2>2. CASE ~(k <= L) /\ ~(l <= L)
    <3>1. t[k] = N + (k - L) - 1 /\ t[l] = N + (l - L) - 1
      BY <1>2, <2>2
    <3>2. N + (k - L) - 1 = N + (l - L) - 1
      BY ONLY <1>4, <3>1
    <3> QED BY ONLY <3>2, N \in Nat \ {0}, L \in Nat, n \in Nat, k \in 1 .. L + n, l \in 1 .. L + n
  <2>3. CASE k <= L /\ ~(l <= L)
    <3>1. t[k] \in 1 .. N - 1 /\ t[l] \in N .. N + n - 1
      BY <1>1, <1>2, <2>3
    <3> QED BY <1>4, <3>1
  <2>4. CASE ~(k <= L) /\ l <= L
    <3>1. t[l] \in 1 .. N - 1 /\ t[k] \in N .. N + n - 1
      BY <1>1, <1>2, <2>4
    <3> QED BY <1>4, <3>1
  <2> QED BY <2>1, <2>2, <2>3, <2>4
<1>5. ASSUME NEW k \in 1 .. L + n
      PROVE t[k] \in {q[j] : j \in 1 .. L} \cup (N .. N + n - 1)
  BY <1>1, <1>2
<1>6. ASSUME NEW k \in 1 .. L PROVE \E l \in 1 .. L + n : t[l] = q[k]
  <2>1. k \in 1 .. L + n /\ k <= L
    OBVIOUS
  <2> QED BY <1>1, <2>1
<1>7. ASSUME NEW x \in N .. N + n - 1 PROVE \E l \in 1 .. L + n : t[l] = x
  <2>1. PICK k \in 1 .. L + n : k = L + (x - N) + 1
    OBVIOUS
  <2>2. ~(k <= L) /\ N + (k - L) - 1 = x
    BY <2>1
  <2> QED BY <1>2, <2>2
<1>8. {t[k] : k \in 1 .. L + n} = {q[k] : k \in 1 .. L} \cup (N .. N + n - 1)
  BY <1>5, <1>6, <1>7
<1> QED BY <1>3, <1>4, <1>8 DEF Distinct

\* The state st fits a controller that had the orders of e and now this queue.
Fits(st, e, queue) ==
    /\ st \in States
    /\ st = "Blocked" => e.blocked
    /\ st = "Idle" => e.active = NoOrder /\ queue = <<>>
    /\ st = "Executing" => queue # <<>>

\* The queue with n orders more.
Behind(e, n) == e.queue \o NewIds(e, n)

\* The controller with a batch of n orders behind its queue.
Accepted(e, n, queue, st) == [e EXCEPT !.queue = queue, !.nextId = @ + n, !.state = st]

\* There is room for n orders more.
Room(e, n) == Len(e.queue) + n + (IF e.active = NoOrder THEN 0 ELSE 1) <= MaxQueued

\* A batch is put behind the orders of a controller whose other orders are in
\* order; the new state must fit.
LEMMA Appended ==
    ASSUME NEW e, Core(e), NEW n \in Nat, Room(e, n),
           NEW queue, queue = Behind(e, n), NEW st, Fits(st, e, queue),
           NEW d, d = Accepted(e, n, queue, st)
    PROVE Sound(d) /\ d.revision = e.revision /\ d.state = st
<1>1. e \in Controller /\ History(e) /\ Orders(e) /\ Ends(e)
  BY DEF Core
<1>2. PICK N \in Nat \ {0}, L \in Nat : N = e.nextId /\ L = Len(e.queue)
  BY <1>1, PendingOrders DEF Controller
<1>3. PICK ids \in Seq(Nat) : /\ ids = NewIds(e, n) /\ Len(ids) = n
                              /\ \A i \in 1 .. n : ids[i] = N + i - 1
  BY <1>1, <1>2, NewIdsFacts
<1>4. PICK q \in Seq(Nat) : q = e.queue /\ Len(q) = L
  BY <1>1, <1>2 DEF Controller
<1>5. /\ queue \in Seq(Nat) /\ Len(queue) = L + n
      /\ \A k \in 1 .. L + n : queue[k] = IF k <= L THEN q[k] ELSE ids[k - L]
  <2>1. queue = q \o ids
    BY <1>3, <1>4 DEF Behind
  <2>2. /\ q \o ids \in Seq(Nat) /\ Len(q \o ids) = Len(q) + Len(ids)
        /\ \A k \in 1 .. Len(q) + Len(ids) : (q \o ids)[k] = IF k <= Len(q) THEN q[k] ELSE ids[k - Len(q)]
    BY ONLY ConcatProperties, q \in Seq(Nat), ids \in Seq(Nat)
  <2> QED BY <1>3, <1>4, <2>1, <2>2
<1>6. PICK M \in Nat \ {0} : M = N + n
  OBVIOUS
<1>7. d = [e EXCEPT !.queue = queue, !.nextId = M, !.state = st]
  BY <1>2, <1>6 DEF Accepted
<1>8. /\ d \in Controller /\ d.revision = e.revision
      /\ d.feedback = e.feedback /\ d.nextSequence = e.nextSequence /\ d.ended = e.ended
      /\ d.nextId = M /\ d.active = e.active /\ d.queue = queue /\ d.state = st
      /\ d.blocked = e.blocked
  BY <1>1, <1>5, <1>7 DEF Controller, Fits
<1>9. /\ \A k \in 1 .. L : q[k] \in 1 .. N - 1
      /\ \A k, l \in 1 .. L : q[k] = q[l] => k = l
      /\ e.active # NoOrder => /\ e.active.id \in 1 .. N - 1
                               /\ e.active.state \in {"Running", "Failed"}
                               /\ \A k \in 1 .. L : q[k] # e.active.id
  BY <1>1, <1>2, <1>4 DEF Orders
<1>10. Extended(queue, q, L, N, n)
  <2>1. ASSUME NEW k \in 1 .. L + n, ~(k <= L)
        PROVE ids[k - L] = N + (k - L) - 1
    <3>1. k - L \in 1 .. n
      BY <2>1
    <3> QED BY ONLY <1>3, <3>1
  <2> QED BY ONLY <1>5, <2>1 DEF Extended
<1>11. /\ \A k \in 1 .. L + n : queue[k] \in 1 .. M - 1
       /\ \A k, l \in 1 .. L + n : queue[k] = queue[l] => k = l
       /\ {queue[k] : k \in 1 .. L + n} = {q[k] : k \in 1 .. L} \cup (N .. M - 1)
  <2>1. Distinct(queue, L + n, q, L, N, N + n)
    BY ONLY <1>9, <1>10, ExtendedFacts, L \in Nat, N \in Nat \ {0}, n \in Nat
  <2> QED BY ONLY <1>6, <2>1 DEF Distinct
<1>12. ASSUME e.active # NoOrder, NEW k \in 1 .. L + n PROVE queue[k] # e.active.id
  <2>1. \A x \in N .. M - 1 : x \notin 1 .. N - 1
    OBVIOUS
  <2>2. queue[k] \in {q[l] : l \in 1 .. L} \cup (N .. M - 1)
    <3>1. queue[k] \in {queue[l] : l \in 1 .. L + n}
      OBVIOUS
    <3> QED BY ONLY <1>11, <3>1
  <2>3. e.active.id \in 1 .. N - 1 /\ \A l \in 1 .. L : q[l] # e.active.id
    BY ONLY <1>9, <1>12
  <2> QED BY ONLY <2>1, <2>2, <2>3
<1>13. Orders(d)
  <2>1. d.active # NoOrder => /\ d.active.state \in {"Running", "Failed"}
                              /\ d.active.id \in 1 .. d.nextId - 1
    BY <1>6, <1>8, <1>9
  <2>2. Len(d.queue) + (IF d.active = NoOrder THEN 0 ELSE 1) <= MaxQueued
    BY <1>2, <1>5, <1>8 DEF Room
  <2>3. Len(d.queue) = L + n
    BY <1>5, <1>8
  <2>4. \A k \in 1 .. Len(d.queue) : /\ d.queue[k] \in 1 .. d.nextId - 1
                                     /\ d.active # NoOrder => d.queue[k] # d.active.id
    BY ONLY <1>8, <1>11, <1>12, <2>3
  <2>5. \A k, l \in 1 .. Len(d.queue) : d.queue[k] = d.queue[l] => k = l
    BY ONLY <1>8, <1>11, <2>3
  <2> QED BY ONLY <2>1, <2>2, <2>4, <2>5 DEF Orders
<1>14. Modes(d)
  BY <1>8 DEF Modes, Fits
<1>15. History(d)
  BY <1>1, <1>8 DEF History, First
<1>16. Ends(d)
  <2> DEFINE A == IF e.active = NoOrder THEN {} ELSE {e.active.id}
  <2>1. Pending(e) = A \cup {q[k] : k \in 1 .. L}
    BY <1>1, <1>2, <1>4, PendingOrders
  <2>2. Pending(d) = A \cup {queue[k] : k \in 1 .. L + n}
    <3>1. Len(d.queue) = L + n /\ d.queue = queue /\ d.active = e.active /\ d \in Controller
      BY <1>5, <1>8
    <3> QED BY ONLY <3>1, PendingOrders
  <2>3. Pending(d) = Pending(e) \cup (N .. M - 1)
    BY ONLY <1>11, <2>1, <2>2
  <2>4. EndedOrders(e) = (1 .. N - 1) \ Pending(e) /\ Once(e)
    BY <1>1, <1>2 DEF Ends
  <2>5. 1 .. M - 1 = (1 .. N - 1) \cup (N .. M - 1)
    BY ONLY <1>6, N \in Nat \ {0}, M \in Nat \ {0}, n \in Nat
  <2>6. \A x \in 1 .. N - 1 : x \notin N .. M - 1
    BY ONLY N \in Nat \ {0}, M \in Nat \ {0}
  <2>7. (1 .. M - 1) \ Pending(d) = (1 .. N - 1) \ Pending(e)
    BY ONLY <2>3, <2>5, <2>6
  <2>8. EndedOrders(d) = EndedOrders(e) /\ Once(d)
    BY <1>8, <2>4 DEF EndedOrders, Once
  <2> QED BY <1>8, <2>4, <2>7, <2>8 DEF Ends
<1> QED BY <1>8, <1>13, <1>14, <1>15, <1>16 DEF Sound

\* The orders a replacement cancels, the active one first.
OldIds(c) == (IF c.active = NoOrder THEN <<>> ELSE <<c.active.id>>) \o c.queue

\* They are the pending orders, each once.
LEMMA OldIdsFacts ==
    ASSUME NEW c \in Controller, Orders(c), NEW old, old = OldIds(c)
    PROVE /\ old \in Seq(Nat) /\ {old[i] : i \in 1 .. Len(old)} = Pending(c)
          /\ \A i, j \in 1 .. Len(old) : old[i] = old[j] => i = j
<1>1. PICK q \in Seq(Nat) : q = c.queue
  BY DEF Controller
<1>0. PICK L \in Nat : L = Len(q)
  BY <1>1, LenProperties
<1>2. /\ L = Len(q) /\ \A i, j \in 1 .. L : q[i] = q[j] => i = j
      /\ c.active # NoOrder => \A i \in 1 .. L : q[i] # c.active.id
      /\ Pending(c) = (IF c.active = NoOrder THEN {} ELSE {c.active.id}) \cup {q[i] : i \in 1 .. L}
  <2>1. Pending(c) = (IF c.active = NoOrder THEN {} ELSE {c.active.id}) \cup {q[i] : i \in 1 .. L}
    BY <1>0, <1>1, PendingOrders
  <2> QED BY <1>0, <1>1, <2>1 DEF Orders
<1>3. CASE c.active = NoOrder
  <2>1. old = q
    BY <1>1, <1>3, ConcatEmptySeq DEF OldIds
  <2> QED BY <1>2, <1>3, <2>1
<1>4. CASE c.active # NoOrder
  <2>1. PICK id \in Nat : id = c.active.id
    BY DEF Controller, Order
  <2>2. PICK a \in Seq(Nat) : a = <<id>> /\ Len(a) = 1 /\ a[1] = id
    <3>1. PICK a : a = <<id>>
      OBVIOUS
    <3>2. a \in Seq(Nat) /\ Len(a) = 1 /\ a[1] = id
      BY <3>1
    <3> QED BY ONLY <3>1, <3>2
  <2>3. old = a \o q
    BY <1>1, <1>4, <2>1, <2>2 DEF OldIds
  <2>4. /\ a \o q \in Seq(Nat) /\ Len(a \o q) = Len(a) + Len(q)
        /\ \A k \in 1 .. Len(a) + Len(q) : (a \o q)[k] = IF k <= Len(a) THEN a[k] ELSE q[k - Len(a)]
    BY ONLY ConcatProperties, a \in Seq(Nat), q \in Seq(Nat)
  <2>5. /\ old \in Seq(Nat) /\ Len(old) = 1 + L
        /\ \A k \in 1 .. 1 + L : old[k] = IF k <= 1 THEN a[k] ELSE q[k - 1]
    BY ONLY <1>2, <2>2, <2>3, <2>4
  <2>6. old[1] = id
    <3>1. 1 \in 1 .. 1 + L /\ 1 <= 1
      OBVIOUS
    <3> QED BY ONLY <2>2, <2>5, <3>1
  <2>7. ASSUME NEW k \in 1 .. L PROVE k + 1 \in 1 .. 1 + L /\ old[k + 1] = q[k]
    <3>1. k + 1 \in 1 .. 1 + L /\ ~(k + 1 <= 1) /\ (k + 1) - 1 = k
      OBVIOUS
    <3> QED BY ONLY <2>5, <3>1
  <2>8. ASSUME NEW k \in 1 .. 1 + L
        PROVE k = 1 \/ \E l \in 1 .. L : k = l + 1
    <3>1. k = 1 \/ (k - 1 \in 1 .. L /\ k = (k - 1) + 1)
      OBVIOUS
    <3> QED BY ONLY <3>1
  <2>9. {old[i] : i \in 1 .. 1 + L} = {id} \cup {q[i] : i \in 1 .. L}
    <3>1. ASSUME NEW k \in 1 .. 1 + L PROVE old[k] \in {id} \cup {q[i] : i \in 1 .. L}
      <4>1. CASE k = 1
        BY ONLY <2>6, <4>1
      <4>2. CASE k # 1
        <5>1. PICK l \in 1 .. L : k = l + 1
          BY <2>8, <4>2
        <5> QED BY <2>7, <5>1
      <4> QED BY <4>1, <4>2
    <3>2. 1 \in 1 .. 1 + L
      OBVIOUS
    <3> QED BY ONLY <2>6, <2>7, <3>1, <3>2
  <2>10. ASSUME NEW i \in 1 .. 1 + L, NEW j \in 1 .. 1 + L, old[i] = old[j] PROVE i = j
    <3>1. \A l \in 1 .. L : q[l] # id
      BY ONLY <1>2, <1>4, <2>1
    <3>2. CASE i = 1 \/ j = 1
      <4>1. \A k \in 1 .. 1 + L : k # 1 => old[k] # id
        <5> SUFFICES ASSUME NEW k \in 1 .. 1 + L, k # 1 PROVE old[k] # id
          OBVIOUS
        <5>1. PICK l \in 1 .. L : k = l + 1
          BY <2>8
        <5> QED BY <2>7, <3>1, <5>1
      <4> QED BY ONLY <2>6, <2>10, <3>2, <4>1
    <3>3. CASE i # 1 /\ j # 1
      <4>1. PICK k \in 1 .. L, l \in 1 .. L : i = k + 1 /\ j = l + 1
        BY <2>8, <3>3
      <4>2. q[k] = q[l]
        BY ONLY <2>7, <2>10, <4>1
      <4> QED BY ONLY <1>2, <4>1, <4>2
    <3> QED BY <3>2, <3>3
  <2> QED BY ONLY <1>2, <1>4, <2>1, <2>5, <2>9, <2>10
<1> QED BY <1>3, <1>4

\* The controller e is c without its orders.
Emptied(e, c) ==
    /\ Core(e) /\ e.revision = c.revision /\ e.nextId = c.nextId
    /\ e.active = NoOrder /\ e.queue = <<>>

\* A replacement cancels every pending order: e is the controller without them.
LEMMA Cleared ==
    ASSUME NEW c, Sound(c), NEW r,
           r = record_feedback([c EXCEPT !.active = NoOrder, !.blocked = FALSE], OldIds(c),
                               "OrderCanceled"),
           NEW e, e = [r EXCEPT !.queue = <<>>]
    PROVE Emptied(e, c) /\ r \in Controller
<1>1. c \in Controller /\ Orders(c) /\ History(c) /\ Ends(c)
  BY DEF Sound
<1>2. PICK b : b = [c EXCEPT !.active = NoOrder, !.blocked = FALSE]
  OBVIOUS
<1>3. /\ b \in Controller /\ b.revision = c.revision /\ b.ended = c.ended
      /\ b.feedback = c.feedback /\ b.nextSequence = c.nextSequence
      /\ b.nextId = c.nextId /\ b.active = NoOrder
  <2>1. NoOrder \in Order
    BY DEF NoOrder, Order
  <2> QED BY <1>1, <1>2, <2>1 DEF Controller
<1>4. PICK old : old = OldIds(c)
  OBVIOUS
<1>5. /\ old \in Seq(Nat) /\ {old[i] : i \in 1 .. Len(old)} = Pending(c)
      /\ \A i, j \in 1 .. Len(old) : old[i] = old[j] => i = j
  BY ONLY <1>1, <1>4, OldIdsFacts
<1>6. History(b) /\ Once(b) /\ EndedOrders(b) = (1 .. c.nextId - 1) \ Pending(c)
  BY <1>1, <1>3 DEF History, First, Ends, EndedOrders, Once
<1>7. \A i \in 1 .. Len(old) : old[i] \notin EndedOrders(b)
  <2>1. \A i \in 1 .. Len(old) : old[i] \in Pending(c)
    BY ONLY <1>5
  <2> QED BY ONLY <1>6, <2>1
<1>8. r = record_feedback(b, old, "OrderCanceled") /\ "OrderCanceled" \in Final
  BY <1>2, <1>4 DEF Final
<1>9. /\ r \in Controller /\ History(r) /\ SameButFeedback(r, b) /\ Once(r)
      /\ EndedOrders(r) = EndedOrders(b) \cup {old[i] : i \in 1 .. Len(old)}
  BY ONLY <1>3, <1>5, <1>6, <1>7, <1>8, RecordFeedback
<1>10. Pending(c) \subseteq 1 .. c.nextId - 1
  BY <1>1, PendingOrders DEF Orders
<1>11. EndedOrders(r) = 1 .. c.nextId - 1
  BY ONLY <1>5, <1>6, <1>9, <1>10
<1>12. PICK none \in Seq(Nat) : none = <<>> /\ Len(none) = 0
  <2>1. <<>> \in Seq(Nat) /\ Len(<<>>) = 0
    OBVIOUS
  <2> QED BY ONLY <2>1
<1>13. e = [r EXCEPT !.queue = none]
  BY <1>12
<1>14. /\ e \in Controller /\ e.revision = r.revision /\ e.ended = r.ended
       /\ e.feedback = r.feedback /\ e.nextSequence = r.nextSequence
       /\ e.nextId = r.nextId /\ e.active = r.active /\ e.queue = none
  BY ONLY <1>9, <1>13, <1>12 DEF Controller
<1>15. e.active = NoOrder /\ e.nextId = c.nextId /\ e.revision = c.revision /\ r.nextId = c.nextId
  BY ONLY <1>3, <1>9, <1>14 DEF SameButFeedback
<1>16. Pending(e) = {}
  BY <1>12, <1>14, <1>15, NothingPending
<1>17. History(e)
  BY ONLY <1>9, <1>14 DEF History, First
<1>18. EndedOrders(e) = EndedOrders(r) /\ Once(e)
  BY ONLY <1>9, <1>14 DEF EndedOrders, Once
<1>19. Ends(e)
  BY ONLY <1>11, <1>15, <1>16, <1>18 DEF Ends
<1>20. Orders(e)
  <2>1. 1 .. Len(e.queue) = {} /\ Len(e.queue) + 0 <= MaxQueued
    BY <1>12, <1>14, AutopilotAssumption
  <2> QED BY <1>15, <2>1 DEF Orders
<1>21. Core(e)
  BY ONLY <1>14, <1>17, <1>19, <1>20 DEF Core
<1> QED BY ONLY <1>9, <1>12, <1>14, <1>15, <1>21 DEF Emptied

\* A submission keeps a controller sound, changes its revision, and neither
\* pauses nor resumes it.
LEMMA SubmitSound ==
    ASSUME NEW c, Sound(c), NEW n \in Nat, NEW mode \in {"Append", "Replace"}, CanSubmit(c, n, mode)
    PROVE /\ Sound(submit(c, n, mode)) /\ submit(c, n, mode).revision = c.revision + 1
          /\ c.state = "Paused" <=> submit(c, n, mode).state = "Paused"
<1>1. c \in Controller /\ c.queue \in Seq(Nat)
  BY DEF Sound, Controller
<1>2. PICK queue : queue = (IF mode = "Replace" THEN <<>> ELSE c.queue) \o NewIds(c, n)
  OBVIOUS
<1>3. PICK st : st = SubmittedState(c, queue, mode)
  OBVIOUS
<1>4. st \in States /\ (st = "Paused" <=> c.state = "Paused")
      /\ (st = "Idle" => queue = <<>>) /\ (st = "Executing" => queue # <<>>)
      /\ (st = "Blocked" => c.state = "Blocked" /\ mode = "Append")
  BY <1>3 DEF SubmittedState, States
<1>5. PICK r : r = record_feedback([c EXCEPT !.active = NoOrder, !.blocked = FALSE], OldIds(c),
                                   "OrderCanceled")
  OBVIOUS
<1>6. PICK cleared : cleared = IF mode = "Replace" THEN r ELSE c
  OBVIOUS
<1>7. PICK d : d = [cleared EXCEPT !.queue = queue, !.nextId = @ + n, !.state = st]
  OBVIOUS
<1>8. Sound(d) /\ d.revision = c.revision /\ d.state = st
  <2>1. CASE mode = "Replace"
    <3>1. PICK e : e = [r EXCEPT !.queue = <<>>]
      OBVIOUS
    <3>2. /\ Core(e) /\ e.revision = c.revision /\ e.nextId = c.nextId
          /\ e.active = NoOrder /\ e.queue = <<>> /\ r \in Controller
      <4>1. Emptied(e, c) /\ r \in Controller
        BY ONLY <1>5, <3>1, Cleared, Sound(c)
      <4> QED BY ONLY <4>1 DEF Emptied
    <3>3. queue = Behind(e, n)
      BY ONLY <1>2, <2>1, <3>2 DEF NewIds, Behind
    <3>4. Room(e, n)
      BY <2>1, <3>2, AutopilotAssumption DEF CanSubmit, Room
    <3>5. d = Accepted(e, n, queue, st)
      BY ONLY <1>6, <1>7, <2>1, <3>1, <3>2 DEF Controller, Accepted
    <3>6. Fits(st, e, queue)
      BY <1>4, <2>1, <3>2 DEF Fits
    <3>7. Sound(d) /\ d.revision = e.revision /\ d.state = st
      BY ONLY <3>2, <3>3, <3>4, <3>5, <3>6, Appended, n \in Nat
    <3> QED BY <3>2, <3>7
  <2>2. CASE mode = "Append"
    <3>1. queue = c.queue \o NewIds(c, n)
      BY <1>2, <2>2
    <3>2. n > 0 /\ n + order_count(c) <= MaxQueued
      BY <2>2 DEF CanSubmit
    <3>3. Room(c, n)
      <4>1. Len(c.queue) \in Nat /\ MaxQueued \in Nat
        BY <1>1, PendingOrders, AutopilotAssumption
      <4>2. n + (Len(c.queue) + (IF c.active = NoOrder THEN 0 ELSE 1)) <= MaxQueued
        BY <1>1, <3>2, OrderCount
      <4>3. PICK x \in {0, 1} : x = IF c.active = NoOrder THEN 0 ELSE 1
        OBVIOUS
      <4>4. PICK L \in Nat : L = Len(c.queue)
        BY <4>1
      <4>5. n + (L + x) <= MaxQueued
        BY ONLY <4>2, <4>3, <4>4
      <4>6. L + n + x <= MaxQueued
        BY ONLY <4>1, <4>5, n \in Nat, L \in Nat, x \in {0, 1}
      <4> QED BY ONLY <4>3, <4>4, <4>6 DEF Room
    <3>4. queue # <<>>
      <4>1. NewIds(c, n) \in Seq(Nat) /\ Len(NewIds(c, n)) = n
        BY <1>1, NewIdsFacts
      <4>2. Len(queue) = Len(c.queue) + n
        <5>1. PICK q \in Seq(Nat), ids \in Seq(Nat) : q = c.queue /\ ids = NewIds(c, n)
          BY <1>1, <4>1
        <5>2. Len(q \o ids) = Len(q) + Len(ids)
          BY ONLY ConcatProperties, q \in Seq(Nat), ids \in Seq(Nat)
        <5> QED BY ONLY <3>1, <4>1, <5>1, <5>2
      <4>3. Len(c.queue) \in Nat
        BY <1>1, PendingOrders
      <4>4. Len(queue) # 0
        BY ONLY <3>2, <4>2, <4>3, n \in Nat
      <4> QED BY <4>4
    <3>5. st = "Blocked" => c.blocked
      BY <1>4 DEF Sound, Modes
    <3>6. d = Accepted(c, n, queue, st)
      BY <1>6, <1>7, <2>2 DEF Accepted
    <3>7. Core(c) /\ Fits(st, c, queue) /\ queue = Behind(c, n)
      BY <1>4, <3>1, <3>4, <3>5, SoundIsCore DEF Fits, Behind
    <3> QED BY ONLY <3>3, <3>6, <3>7, Appended, n \in Nat
  <2> QED BY <2>1, <2>2
<1>9. submit(c, n, mode) = record_feedback(bump_revision(d), NewIds(c, n), "OrderQueued")
  BY ONLY <1>2, <1>3, <1>5, <1>6, <1>7 DEF submit, NewIds, OldIds
<1>10. /\ Sound(bump_revision(d)) /\ bump_revision(d).revision = c.revision + 1
       /\ bump_revision(d).state = st
  <2>1. d \in Controller
    BY <1>8 DEF Sound
  <2> QED BY <1>8, <2>1, Bumped, BumpFields
<1>11. NewIds(c, n) \in Seq(Nat) /\ "OrderQueued" \in Progress
  BY <1>1, NewIdsFacts DEF Progress
<1> QED BY <1>4, <1>9, <1>10, <1>11, Noted DEF SameButFeedback

-----------------------------------------------------------------------------
(***************************************************************************)
(* The invariant.  The controller is sound, and the director's snapshot is  *)
(* of this or an earlier attachment; of this one, the revision has not gone  *)
(* back since, and as long as it is the same, no order was added.            *)
(***************************************************************************)

Snapshot == [revision : Nat, pending : SUBSET Nat, attachment : Nat]

Observed ==
    director # NoSnapshot =>
        /\ director \in Snapshot /\ director.attachment <= attachment
        /\ attached /\ director.attachment = attachment =>
              /\ director.revision <= controller.revision
              /\ director.revision = controller.revision =>
                    Pending(controller) \subseteq director.pending

IInv == attached \in BOOLEAN /\ attachment \in Nat /\ Sound(controller) /\ Observed

\* AutopilotController::new makes a sound controller.
LEMMA NewSound == Sound(New)
<1>1. PICK c : c = New
  OBVIOUS
<1>2. /\ c.state = "Paused" /\ c.blocked = FALSE /\ c.revision = 0 /\ c.nextId = 1
      /\ c.active = NoOrder /\ c.queue = <<>> /\ c.feedback = <<>> /\ c.nextSequence = 1
      /\ c.ended = {}
  BY <1>1 DEF New
<1>3. NoOrder \in Order
  BY DEF NoOrder, Order
<1>4. c \in Controller
  BY <1>1, <1>3 DEF New, Controller, States
<1>5. Len(c.queue) = 0 /\ Len(c.feedback) = 0 /\ 1 .. 0 = {}
  BY <1>2
<1>6. MaxQueued \in Nat /\ MaxFeedback \in Nat
  BY AutopilotAssumption
<1>7. History(c)
  <2>1. 0 <= MaxFeedback /\ 0 < 1 /\ ~(1 > 1)
    BY <1>6
  <2> QED BY ONLY <1>2, <1>5, <2>1 DEF History
<1>8. Orders(c)
  <2>1. 0 + 0 <= MaxQueued
    BY <1>6
  <2> QED BY ONLY <1>2, <1>5, <2>1 DEF Orders
<1>9. Modes(c)
  BY <1>2 DEF Modes
<1>10. Ends(c)
  <2>1. EndedOrders(c) = {} /\ Once(c)
    BY <1>2 DEF EndedOrders, Once
  <2>2. 1 .. c.nextId - 1 = {}
    BY <1>2
  <2> QED BY <2>1, <2>2 DEF Ends
<1> QED BY <1>1, <1>4, <1>7, <1>8, <1>9, <1>10 DEF Sound

\* No controller is attached at first.
LEMMA InitHolds == Init => IInv
<1> SUFFICES ASSUME Init PROVE IInv
  OBVIOUS
<1>1. attached = FALSE /\ attachment = 0 /\ controller = New /\ director = NoSnapshot
  BY DEF Init
<1>2. Sound(controller)
  BY <1>1, NewSound
<1>3. Observed
  BY <1>1 DEF Observed
<1> QED BY <1>1, <1>2, <1>3 DEF IInv

\* Pending orders are numbers.
LEMMA PendingNat == ASSUME NEW c, Sound(c) PROVE Pending(c) \subseteq Nat /\ c.revision \in Nat
<1>1. c \in Controller /\ c.revision \in Nat /\ c.active.id \in Nat
  BY DEF Sound, Controller, Order
<1> QED BY <1>1, PendingOrders

\* A management call changes the revision or nothing.
LEMMA ManageStep ==
    ASSUME IInv, NEW c, Manage(c), Sound(c), c = controller \/ c.revision = controller.revision + 1,
           director' = director \/ director' = NoSnapshot
    PROVE IInv'
<1>1. attached' = attached /\ attachment' = attachment /\ controller' = c
  BY DEF Manage
<1>2. controller.revision \in Nat
  BY PendingNat DEF IInv
<1>3. Observed'
  <2> SUFFICES ASSUME director' # NoSnapshot
               PROVE /\ director' \in Snapshot /\ director'.attachment <= attachment'
                     /\ attached' /\ director'.attachment = attachment' =>
                           /\ director'.revision <= controller'.revision
                           /\ director'.revision = controller'.revision =>
                                 Pending(controller') \subseteq director'.pending
    BY DEF Observed
  <2>1. director' = director /\ director \in Snapshot /\ director.revision \in Nat
    BY DEF IInv, Observed, Snapshot
  <2>2. CASE c = controller
    BY <1>1, <2>1, <2>2 DEF IInv, Observed
  <2>3. CASE c.revision = controller.revision + 1
    <3>1. director.attachment <= attachment
      BY <2>1 DEF IInv, Observed
    <3>2. attached /\ director.attachment = attachment =>
              director.revision <= controller.revision
      BY <2>1 DEF IInv, Observed
    <3>3. director.revision <= controller.revision =>
              director.revision <= c.revision /\ director.revision # c.revision
      BY <1>2, <2>1, <2>3
    <3> QED BY <1>1, <2>1, <3>1, <3>2, <3>3
  <2> QED BY <2>2, <2>3
<1> QED BY <1>1, <1>3 DEF IInv

\* A step of the player or the heartbeat adds no order.
LEMMA UnmanagedStep ==
    ASSUME IInv, NEW c, Unmanaged(c, controller), controller' = c,
           UNCHANGED <<attached, attachment, director>>
    PROVE IInv'
<1>1. Sound(c) /\ c.revision = controller.revision /\ Pending(c) \subseteq Pending(controller)
  BY DEF Unmanaged
<1>2. Observed'
  BY <1>1 DEF IInv, Observed
<1> QED BY <1>1, <1>2 DEF IInv

\* Every step keeps the invariant.
LEMMA StepHolds == IInv /\ [Next]_vars => IInv'
<1> SUFFICES ASSUME IInv, [Next]_vars PROVE IInv'
  OBVIOUS
<1>0. Sound(controller) /\ attachment \in Nat /\ attached \in BOOLEAN
  BY DEF IInv
<1>1. CASE Attach
  <2>1. /\ controller' = New /\ attached' = TRUE /\ attachment' = attachment + 1
        /\ director' = director
    BY <1>1 DEF Attach
  <2>2. ASSUME director # NoSnapshot
        PROVE director \in Snapshot /\ director.attachment <= attachment + 1
              /\ director.attachment # attachment + 1
    <3>1. director \in Snapshot /\ director.attachment <= attachment
      BY <2>2 DEF IInv, Observed
    <3>2. director.attachment \in Nat
      BY <3>1 DEF Snapshot
    <3> QED BY <1>0, <3>1, <3>2
  <2>3. Observed'
    BY <2>1, <2>2 DEF Observed
  <2> QED BY <1>0, <2>1, <2>3, NewSound DEF IInv
<1>2. CASE Detach
  <2>1. controller' = New /\ attached' = FALSE /\ attachment' = attachment /\ director' = director
    BY <1>2 DEF Detach
  <2>2. Observed'
    BY <2>1 DEF IInv, Observed
  <2> QED BY <1>0, <2>1, <2>2, NewSound DEF IInv
<1>3. CASE Configure
  BY <1>0, <1>3, ConfigureSound, ManageStep DEF Configure
<1>4. ASSUME NEW n \in 0 .. MaxQueued, NEW mode \in {"Append", "Replace"},
             Batch(n, mode), Manage(submit(controller, n, mode)),
             director' = director \/ director' = NoSnapshot
      PROVE IInv'
  <2>1. n \in Nat /\ CanSubmit(controller, n, mode)
    BY <1>4, AutopilotAssumption DEF Batch
  <2>2. Sound(submit(controller, n, mode))
        /\ submit(controller, n, mode).revision = controller.revision + 1
    BY <1>0, <2>1, SubmitSound
  <2> QED BY <1>4, <2>2, ManageStep
<1>5. CASE Submit
  BY <1>4, <1>5 DEF Submit
<1>6. CASE Cancel
  <2>1. PICK id \in Pending(controller) : Manage(cancel(controller, id))
    BY <1>6 DEF Cancel
  <2> QED BY <1>0, <1>6, <2>1, CancelSound, ManageStep DEF Cancel
<1>7. CASE Pause
  BY <1>0, <1>7, PauseSound, ManageStep DEF Pause
<1>8. CASE Resume
  BY <1>0, <1>8, ResumeSound, ManageStep DEF Resume
<1>9. CASE Observe
  <2>1. /\ director' = [revision |-> controller.revision, pending |-> Pending(controller),
                        attachment |-> attachment]
        /\ attached' = attached /\ attachment' = attachment /\ controller' = controller
    BY <1>9 DEF Observe
  <2>2. Pending(controller) \subseteq Nat /\ controller.revision \in Nat
    BY <1>0, PendingNat
  <2>3. /\ director' \in Snapshot /\ director'.attachment = attachment
        /\ director'.revision = controller.revision /\ director'.pending = Pending(controller)
    BY <1>0, <2>1, <2>2 DEF Snapshot
  <2>4. attachment <= attachment /\ controller.revision <= controller.revision
    BY <1>0, <2>2
  <2>5. Observed'
    BY <2>1, <2>3, <2>4 DEF Observed
  <2> QED BY <1>0, <2>1, <2>5 DEF IInv
<1>10. CASE Direct
  BY <1>4, <1>10 DEF Direct
<1>11. CASE Takeover
  BY <1>0, <1>11, TakeoverSound, UnmanagedStep DEF Takeover
<1>12. CASE Heartbeat
  <2>1. PICK started : started = start_next(controller)
    OBVIOUS
  <2>2. \/ controller' = started
        \/ /\ started.active # NoOrder
           /\ controller' \in {complete_active(started), fail_active(started)}
    BY <1>12, <2>1 DEF Heartbeat
  <2>3. Unmanaged(controller', controller)
    BY <1>0, <2>1, <2>2, HeartbeatSound
  <2>4. PICK d : d = controller'
    OBVIOUS
  <2> QED BY <1>12, <2>3, <2>4, UnmanagedStep DEF Heartbeat
<1>13. CASE UNCHANGED vars
  BY <1>13 DEF vars, IInv, Observed
<1> QED BY <1>1, <1>2, <1>3, <1>5, <1>6, <1>7, <1>8, <1>9, <1>10, <1>11, <1>12, <1>13 DEF Next

\* So it holds always.
LEMMA Invariance == Spec => []IInv
BY InitHolds, StepHolds, PTL DEF Spec

-----------------------------------------------------------------------------
(* The properties.                                                          *)

\* order_count is how many orders are pending, and they are distinct.
LEMMA PendingCount ==
    ASSUME NEW c, Sound(c)
    PROVE Cardinality(Pending(c)) = order_count(c)
<1>1. c \in Controller /\ Orders(c) /\ c.queue \in Seq(Nat)
  BY DEF Sound, Controller
<1>2. PICK old : old = OldIds(c)
  OBVIOUS
<1>3. /\ old \in Seq(Nat) /\ {old[i] : i \in 1 .. Len(old)} = Pending(c)
      /\ \A i, j \in 1 .. Len(old) : old[i] = old[j] => i = j
  BY ONLY <1>1, <1>2, OldIdsFacts
<1>4. PICK m \in Nat : m = Len(old)
  BY <1>3, LenProperties
<1>5. m = order_count(c)
  <2>1. PICK q \in Seq(Nat) : q = c.queue
    BY <1>1
  <2>2. PICK L \in Nat : L = Len(q)
    BY <2>1, LenProperties
  <2>3. CASE c.active = NoOrder
    <3>1. old = q
      BY <1>2, <2>1, <2>3, ConcatEmptySeq DEF OldIds
    <3>2. order_count(c) = Len(q) + 0
      BY <1>1, <2>1, <2>3, OrderCount
    <3> QED BY ONLY <1>4, <2>2, <3>1, <3>2
  <2>4. CASE c.active # NoOrder
    <3>1. PICK a : a = <<c.active.id>>
      OBVIOUS
    <3>2. c.active.id \in Nat
      BY <1>1 DEF Controller, Order
    <3>3. a \in Seq(Nat) /\ Len(a) = 1
      BY <3>1, <3>2
    <3>4. old = a \o q
      BY <1>2, <2>1, <2>4, <3>1 DEF OldIds
    <3>5. Len(a \o q) = Len(a) + Len(q)
      BY ONLY ConcatProperties, <3>3, q \in Seq(Nat)
    <3>6. order_count(c) = Len(q) + 1
      BY <1>1, <2>1, <2>4, OrderCount
    <3> QED BY ONLY <1>4, <2>2, <3>3, <3>4, <3>5, <3>6
  <2> QED BY <2>3, <2>4
<1>6. PICK f : f = [i \in 1 .. m |-> old[i]]
  OBVIOUS
<1>7. f \in Bijection(1 .. m, Pending(c))
  <2>1. f \in [1 .. m -> Pending(c)] /\ \A i \in 1 .. m : f[i] = old[i]
    BY <1>3, <1>4, <1>6
  <2>2. f \in Injection(1 .. m, Pending(c))
    BY ONLY <1>3, <1>4, <2>1 DEF Injection, IsInjective
  <2>3. f \in Surjection(1 .. m, Pending(c))
    BY ONLY <1>3, <1>4, <2>1 DEF Surjection
  <2> QED BY ONLY <2>2, <2>3 DEF Bijection
<1>8. IsFiniteSet(1 .. m) /\ Cardinality(1 .. m) = m
  BY FS_Interval
<1>9. ExistsBijection(1 .. m, Pending(c))
  BY <1>7 DEF ExistsBijection
<1> QED BY <1>5, <1>8, <1>9, FS_Bijection

\* Validated follows from the invariant.
LEMMA SoundValidated == IInv => Validated
<1> SUFFICES ASSUME IInv PROVE Validated
  OBVIOUS
<1>1. PICK c : c = controller
  OBVIOUS
<1>2. Sound(c) /\ c \in Controller /\ Orders(c) /\ Modes(c) /\ History(c)
  BY <1>1 DEF IInv, Sound
<1>3. order_count(c) <= MaxQueued
  BY <1>2, OrderCount DEF Orders
<1>4. /\ c.state = "Blocked" => c.blocked
      /\ c.state = "Idle" => Pending(c) = {}
      /\ c.state = "Executing" => Pending(c) # {}
  BY <1>2, NothingPending DEF Modes
<1>5. c.active = NoOrder \/ c.active.state \in {"Running", "Failed"}
  BY <1>2 DEF Orders
<1>6. Cardinality(Pending(c)) = order_count(c)
  BY <1>2, PendingCount
<1>7. \A id \in Pending(c) : 0 < id /\ id < c.nextId
  <2>1. c.nextId \in Nat
    BY <1>2 DEF Controller
  <2>2. Pending(c) \subseteq 1 .. c.nextId - 1
    BY <1>2, PendingOrders DEF Orders
  <2> QED BY <2>1, <2>2
<1>8. PICK L \in Nat, next \in Nat, first \in Nat \ {0} :
        /\ L = Len(c.feedback) /\ next = c.nextSequence /\ first = next - L
        /\ DOMAIN c.feedback = 1 .. L /\ L <= MaxFeedback
        /\ \A i \in 1 .. L : c.feedback[i].sequence = first + i - 1
  <2>1. PICK L \in Nat, next \in Nat : /\ L = Len(c.feedback) /\ next = c.nextSequence
                                       /\ DOMAIN c.feedback = 1 .. L
    BY <1>2, LenProperties DEF Controller
  <2>2. L <= MaxFeedback /\ L < next
        /\ \A i \in 1 .. L : c.feedback[i].sequence = (next - L) + i - 1
    BY <1>2, <2>1 DEF History, First
  <2>3. next - L \in Nat \ {0}
    BY <2>2
  <2> QED BY <2>1, <2>2, <2>3
<1>9. ASSUME NEW i \in DOMAIN c.feedback
      PROVE /\ i > 1 => c.feedback[i - 1].sequence < c.feedback[i].sequence
            /\ 0 < c.feedback[i].sequence /\ c.feedback[i].sequence < c.nextSequence
  <2>1. i \in 1 .. L /\ c.feedback[i].sequence = first + i - 1
    BY <1>8
  <2>2. 0 < first + i - 1 /\ first + i - 1 < next
    BY <1>8, <2>1
  <2>3. ASSUME i > 1 PROVE c.feedback[i - 1].sequence < c.feedback[i].sequence
    <3>1. i - 1 \in 1 .. L
      BY <2>1, <2>3
    <3>2. c.feedback[i - 1].sequence = first + (i - 1) - 1
      BY ONLY <1>8, <3>1
    <3>3. first + (i - 1) - 1 < first + i - 1
      BY <2>1
    <3> QED BY ONLY <2>1, <3>2, <3>3
  <2> QED BY <1>8, <2>1, <2>2, <2>3
<1>10. Len(c.feedback) <= MaxFeedback
  BY <1>8
<1> QED BY ONLY <1>1, <1>3, <1>4, <1>5, <1>6, <1>7, <1>9, <1>10 DEF Validated

\* What a director that reads from a cursor is told.
LEMMA CursorFacts ==
    ASSUME NEW c, Sound(c), NEW after \in 0 .. c.nextSequence - 1,
           NEW seen, seen = {c.feedback[i] : i \in page(c, after)}
    PROVE IF history_gap(c, after)
          THEN Cardinality(seen) < c.nextSequence - 1 - after
          ELSE {r \in c.ended : r.sequence > after} \subseteq seen
<1>1. c \in Controller /\ History(c) /\ c.feedback \in Seq(Record)
  BY DEF Sound, Controller
<1>2. PICK L \in Nat, next \in Nat \ {0}, first \in Nat \ {0} :
        /\ L = Len(c.feedback) /\ next = c.nextSequence /\ first = next - L /\ first = First(c)
        /\ DOMAIN c.feedback = 1 .. L /\ (next > 1 => L > 0)
        /\ \A i \in 1 .. L : c.feedback[i].sequence = first + i - 1
        /\ c.feedback = <<>> <=> L = 0
  <2>1. PICK L \in Nat, next \in Nat \ {0} : /\ L = Len(c.feedback) /\ next = c.nextSequence
                                             /\ DOMAIN c.feedback = 1 .. L
                                             /\ c.feedback = <<>> <=> L = 0
    <3>1. Len(c.feedback) \in Nat /\ DOMAIN c.feedback = 1 .. Len(c.feedback)
      BY <1>1, LenProperties
    <3>2. c.feedback = <<>> <=> Len(c.feedback) = 0
      BY <1>1, EmptySeq
    <3>3. c.nextSequence \in Nat \ {0}
      BY <1>1 DEF Controller
    <3> QED BY <3>1, <3>2, <3>3
  <2>2. L < next /\ (next > 1 => L > 0) /\ First(c) = next - L
        /\ \A i \in 1 .. L : c.feedback[i].sequence = (next - L) + i - 1
    BY <1>1, <2>1 DEF History, First
  <2>3. next - L \in Nat \ {0}
    BY <2>2
  <2> QED BY <2>1, <2>2, <2>3
<1>3. L > 0 => Head(c.feedback).sequence = first
  <2> SUFFICES ASSUME L > 0 PROVE Head(c.feedback).sequence = first
    OBVIOUS
  <2>1. Head(c.feedback) = c.feedback[1]
    BY <1>1, <1>2, HeadTailProperties
  <2>2. 1 \in 1 .. L /\ first + 1 - 1 = first
    OBVIOUS
  <2> QED BY ONLY <1>2, <2>1, <2>2
<1>4. after \in Nat /\ after < next
  BY <1>2
<1>5. history_gap(c, after) <=> L > 0 /\ after + 1 < first
  BY <1>2, <1>3 DEF history_gap
<1>6. CASE history_gap(c, after)
  <2>1. page(c, after) = 1 .. L
    <3>1. ASSUME NEW i \in 1 .. L PROVE c.feedback[i].sequence > after
      <4>1. c.feedback[i].sequence = first + i - 1 /\ first + i - 1 > after
        BY <1>2, <1>4, <1>5, <1>6
      <4> QED BY ONLY <4>1
    <3> QED BY ONLY <1>2, <3>1 DEF page
  <2>2. PICK f : f = [i \in 1 .. L |-> c.feedback[i]]
    OBVIOUS
  <2>3. f \in Bijection(1 .. L, seen)
    <3>1. f \in [1 .. L -> seen] /\ \A i \in 1 .. L : f[i] = c.feedback[i]
      BY <2>1, <2>2
    <3>2. ASSUME NEW i \in 1 .. L, NEW j \in 1 .. L, f[i] = f[j] PROVE i = j
      <4>1. c.feedback[i].sequence = first + i - 1 /\ c.feedback[j].sequence = first + j - 1
        BY <1>2
      <4>2. first + i - 1 = first + j - 1
        BY ONLY <3>1, <3>2, <4>1
      <4> QED BY <4>2
    <3>3. f \in Injection(1 .. L, seen)
      BY ONLY <3>1, <3>2 DEF Injection, IsInjective
    <3>4. f \in Surjection(1 .. L, seen)
      BY <2>1, <3>1 DEF Surjection
    <3> QED BY ONLY <3>3, <3>4 DEF Bijection
  <2>4. IsFiniteSet(1 .. L) /\ Cardinality(1 .. L) = L
    BY FS_Interval
  <2>5. ExistsBijection(1 .. L, seen)
    BY <2>3 DEF ExistsBijection
  <2>6. Cardinality(seen) = L
    BY <2>4, <2>5, FS_Bijection
  <2>7. L < next - 1 - after
    BY <1>2, <1>4, <1>5, <1>6
  <2> QED BY <1>2, <1>6, <2>6, <2>7
<1>7. CASE ~history_gap(c, after)
  <2> SUFFICES ASSUME NEW r \in c.ended, r.sequence > after PROVE r \in seen
    BY <1>7
  <2>1. PICK s \in Nat : s = r.sequence
    BY <1>1 DEF Controller, Record
  <2>2. 0 < s /\ s < next /\ (s >= first => c.feedback[s - first + 1] = r)
    BY <1>1, <1>2, <2>1 DEF History
  <2>3. L > 0
    BY <1>2, <2>2
  <2>4. s >= first
    BY <1>4, <1>5, <1>7, <2>1, <2>3
  <2>5. PICK i \in 1 .. L : i = s - first + 1
    BY <1>2, <2>2, <2>4
  <2>6. i \in page(c, after) /\ c.feedback[i] = r
    BY <1>2, <2>1, <2>2, <2>4, <2>5 DEF page
  <2> QED BY <2>6
<1> QED BY <1>6, <1>7

\* OutcomesReported follows from the invariant.
LEMMA SoundReported == IInv => OutcomesReported
<1> SUFFICES ASSUME IInv PROVE OutcomesReported
  OBVIOUS
<1>1. PICK c : c = controller
  OBVIOUS
<1>2. Sound(c) /\ Ends(c)
  BY <1>1 DEF IInv, Sound
<1>3. /\ {r.order : r \in c.ended} = (1 .. c.nextId - 1) \ Pending(c)
      /\ \A r, s \in c.ended : r.order = s.order => r = s
  BY <1>2 DEF Ends, EndedOrders, Once
<1>4. \A after \in 0 .. c.nextSequence - 1 :
        LET seen == {c.feedback[i] : i \in page(c, after)}
        IN  IF history_gap(c, after)
            THEN Cardinality(seen) < c.nextSequence - 1 - after
            ELSE {r \in c.ended : r.sequence > after} \subseteq seen
  BY ONLY <1>2, CursorFacts
<1> QED BY ONLY <1>1, <1>3, <1>4 DEF OutcomesReported

\* AutopilotController::validate accepts the controller after every operation,
\* whatever the limits are: the orders are distinct, within the limit and fit the
\* state, and the feedback is in order.
THEOREM ControllerValid == Spec => []Validated
BY Invariance, SoundValidated, PTL

\* Every order submitted is pending or ended exactly once, and a reader of the
\* feedback history from any cursor sees each end after it or is told of a gap.
THEOREM EndsReported == Spec => []OutcomesReported
BY Invariance, SoundReported, PTL

\* The revision a director gives with its submission protects the orders it has
\* not seen, and its submission neither pauses nor resumes the unit.
THEOREM RevisionGuards == Spec => GuardedSubmission
<1> DEFINE Guarded ==
      (director # NoSnapshot /\ director' = NoSnapshot /\ director.attachment = attachment) =>
        /\ Pending(controller) \subseteq director.pending
        /\ controller.state = "Paused" <=> controller'.state = "Paused"
<1>1. IInv /\ [Next]_vars => [Guarded]_vars
  <2> SUFFICES ASSUME IInv, Next, director # NoSnapshot, director' = NoSnapshot,
                      director.attachment = attachment
               PROVE /\ Pending(controller) \subseteq director.pending
                     /\ controller.state = "Paused" <=> controller'.state = "Paused"
    OBVIOUS
  <2>1. ~Observe
    <3> SUFFICES ASSUME Observe PROVE FALSE
      OBVIOUS
    <3>1. Pending(controller) \subseteq Nat /\ controller.revision \in Nat /\ attachment \in Nat
      BY PendingNat DEF IInv
    <3>2. director' \in [revision : Nat, pending : SUBSET Nat, attachment : Nat]
      BY <3>1 DEF Observe
    <3> QED BY <3>2, AutopilotAssumption
  <2>2. Direct
    BY <2>1 DEF Next, Attach, Detach, Configure, Submit, Cancel, Pause, Resume, Takeover, Heartbeat
  <2>3. PICK n \in 0 .. MaxQueued, mode \in {"Append", "Replace"} :
            Batch(n, mode) /\ Manage(submit(controller, n, mode))
    BY <2>2 DEF Direct
  <2>4. /\ attached /\ controller' = submit(controller, n, mode)
        /\ director.revision = controller.revision
    BY <2>2, <2>3 DEF Direct, Manage, ensure_revision
  <2>5. Pending(controller) \subseteq director.pending
    BY <2>4 DEF IInv, Observed
  <2>6. n \in Nat /\ CanSubmit(controller, n, mode) /\ Sound(controller)
    BY <2>3, AutopilotAssumption DEF Batch, IInv
  <2>7. controller.state = "Paused" <=> submit(controller, n, mode).state = "Paused"
    BY <2>6, SubmitSound
  <2> QED BY <2>4, <2>5, <2>7
<1>2. Spec => [][Guarded]_vars
  BY <1>1, Invariance, PTL DEF Spec
<1> QED BY <1>2 DEF GuardedSubmission
=============================================================================
