----------------------------- MODULE AudioProofs -----------------------------
(***************************************************************************)
(* What holds of the audio driver's playback and of its client for any set *)
(* of playback ids and any capacities; and of the sound on its way from    *)
(* the device to a speech segment for every length of the rings, queues    *)
(* and segments: what is lost between two frames is never spliced out of   *)
(* an utterance.                                                           *)
(***************************************************************************)
EXTENDS AudioPath, FiniteSetTheorems, SequenceTheorems, TLAPS

Statuses == EndStates \cup {"none", "pending"}

DriverRecords ==
    [running : BOOLEAN, stop : BOOLEAN, cancelled : BOOLEAN, worker : {"busy", "done"},
     queue : Seq(Playbacks), finals : Seq(Playbacks), active : Playbacks \cup {0},
     results : [Playbacks -> Statuses]]

Distinct(s) == \A j, k \in 1 .. Len(s) : s[j] = s[k] => j = k

(* The table of results in a driver state d.                               *)
FinalsMatch(d) ==
    /\ Members(d.finals) = {i \in Playbacks : d.results[i] \in EndStates}
    /\ Distinct(d.finals)
    /\ Len(d.finals) <= ResultCapacity

QueueMatches(d) ==
    /\ {i \in Playbacks : d.results[i] = "pending"}
         = Members(d.queue) \cup ({d.active} \ {0})
    /\ Distinct(d.queue)
    /\ d.active \notin Members(d.queue)
    /\ Len(d.queue) <= QueueCapacity

DriverInv(d) == d \in DriverRecords /\ FinalsMatch(d) /\ QueueMatches(d)

(* What Remember leaves, in the terms the steps below use.  ends is the    *)
(* set of playbacks that end with status s.                                *)
EndsAs(d, e, ends, s) ==
    /\ e.finals \in Seq(Playbacks) /\ e.results \in [Playbacks -> Statuses]
    /\ FinalsMatch(e)
    /\ \A i \in ends : e.results[i] = s
    /\ \A i \in Playbacks \ ends :
         \/ e.results[i] = d.results[i]
         \/ d.results[i] \in EndStates /\ e.results[i] = "none"

SameButTable(d, e) ==
    /\ e \in DriverRecords
    /\ e.running = d.running /\ e.stop = d.stop /\ e.cancelled = d.cancelled
    /\ e.worker = d.worker /\ e.queue = d.queue /\ e.active = d.active

(* Appending ended ids and forgetting the oldest: the table still matches, *)
(* and the only results that change are those of the ids and of playbacks  *)
(* that had ended before, which may be forgotten.                          *)
LEMMA RememberKeeps ==
    ASSUME NEW d \in DriverRecords, FinalsMatch(d),
           NEW ids \in Seq(Playbacks), Distinct(ids), Len(ids) <= ResultCapacity,
           \A i \in Members(ids) : d.results[i] \notin EndStates,
           NEW s \in EndStates, NEW careful \in BOOLEAN
    PROVE  /\ EndsAs(d, Remember(d, ids, s, careful), Members(ids), s)
           /\ SameButTable(d, Remember(d, ids, s, careful))
  <1> DEFINE all == d.finals \o ids
  <1> DEFINE cut == IF Len(all) > ResultCapacity THEN Len(all) - ResultCapacity ELSE 0
  <1> DEFINE gone == {all[k] : k \in 1 .. cut}
  <1> DEFINE set == [i \in Playbacks |-> IF i \in Members(ids) THEN s ELSE d.results[i]]
  <1> DEFINE res == [i \in Playbacks |->
                IF i \in gone /\ (careful => set[i] # "pending") THEN "none" ELSE set[i]]
  <1> DEFINE fin == SubSeq(all, cut + 1, Len(all))
  <1> DEFINE e == Remember(d, ids, s, careful)
  <1>1. e = [d EXCEPT !.finals = fin, !.results = res]
    BY DEF Remember
  <1>2. /\ d.finals \in Seq(Playbacks) /\ d.results \in [Playbacks -> Statuses]
        /\ Len(d.finals) \in Nat /\ Len(ids) \in Nat
    BY DEF DriverRecords
  <1>3. /\ all \in Seq(Playbacks) /\ Len(all) = Len(d.finals) + Len(ids)
        /\ \A k \in 1 .. Len(d.finals) : all[k] = d.finals[k]
        /\ \A k \in 1 .. Len(ids) : all[k + Len(d.finals)] = ids[k]
    BY <1>2
  <1>4. cut \in 0 .. Len(d.finals) /\ Len(all) - cut <= ResultCapacity
    BY <1>2, <1>3, DriverAssumption DEF FinalsMatch
  <1> HIDE DEF cut, all
  <1>5. fin \in Seq(Playbacks) /\ Len(fin) = Len(all) - cut
        /\ \A k \in 1 .. Len(fin) : fin[k] = all[cut + k]
    <2>1. cut + 1 \in Int /\ Len(all) \in Int
      BY <1>2, <1>3, <1>4
    <2>2. \A k \in cut + 1 .. Len(all) : all[k] \in Playbacks
      BY <1>3, <1>4, ElementOfSeq
    <2>3. /\ fin \in Seq(Playbacks)
          /\ Len(fin) = IF cut + 1 <= Len(all) THEN Len(all) - (cut + 1) + 1 ELSE 0
          /\ \A k \in 1 .. Len(all) - (cut + 1) + 1 : fin[k] = all[(cut + 1) + k - 1]
      BY <2>1, <2>2, SubSeqProperties
    <2> HIDE DEF fin
    <2> QED BY <2>3, <1>3, <1>4
  <1>6. Distinct(all)
    <2> SUFFICES ASSUME NEW j \in 1 .. Len(all), NEW k \in 1 .. Len(all), all[j] = all[k]
                 PROVE  j = k
      BY DEF Distinct
    <2>1. CASE j <= Len(d.finals) /\ k <= Len(d.finals)
      BY <2>1, <1>2, <1>3 DEF FinalsMatch, Distinct
    <2>2. CASE j > Len(d.finals) /\ k > Len(d.finals)
      <3>1. PICK a \in 1 .. Len(ids), b \in 1 .. Len(ids) :
              j = a + Len(d.finals) /\ k = b + Len(d.finals)
        <4>1. j - Len(d.finals) \in 1 .. Len(ids) /\ k - Len(d.finals) \in 1 .. Len(ids)
          BY <2>2, <1>2, <1>3
        <4>2. j = (j - Len(d.finals)) + Len(d.finals) /\ k = (k - Len(d.finals)) + Len(d.finals)
          BY <1>2, <1>3
        <4> QED BY <4>1, <4>2
      <3> QED BY <3>1, <1>3 DEF Distinct
    <2>3. ASSUME NEW a \in 1 .. Len(d.finals), NEW b \in 1 .. Len(ids)
          PROVE  d.finals[a] # ids[b]
      <3>1. d.finals[a] \in Members(d.finals) /\ ids[b] \in Members(ids)
        BY DEF Members
      <3> QED BY <3>1, <1>2 DEF FinalsMatch
    <2>4. CASE j <= Len(d.finals) /\ k > Len(d.finals)
      <3>1. PICK b \in 1 .. Len(ids) : k = b + Len(d.finals)
        <4>1. k - Len(d.finals) \in 1 .. Len(ids)
          BY <2>4, <1>2, <1>3
        <4>2. k = (k - Len(d.finals)) + Len(d.finals)
          BY <1>2, <1>3
        <4> QED BY <4>1, <4>2
      <3>2. j \in 1 .. Len(d.finals)
        BY <2>4
      <3> QED BY <3>1, <3>2, <2>3, <1>3
    <2>5. CASE k <= Len(d.finals) /\ j > Len(d.finals)
      <3>1. PICK b \in 1 .. Len(ids) : j = b + Len(d.finals)
        <4>1. j - Len(d.finals) \in 1 .. Len(ids)
          BY <2>5, <1>2, <1>3
        <4>2. j = (j - Len(d.finals)) + Len(d.finals)
          BY <1>2, <1>3
        <4> QED BY <4>1, <4>2
      <3>2. k \in 1 .. Len(d.finals)
        BY <2>5
      <3> QED BY <3>1, <3>2, <2>3, <1>3
    <2> QED BY <2>1, <2>2, <2>4, <2>5, <1>2, <1>3
  <1> HIDE DEF fin
  <1>7. \A k \in 1 .. cut : all[k] = d.finals[k] /\ k \in 1 .. Len(d.finals)
    BY <1>2, <1>3, <1>4
  <1>8. gone \subseteq Members(d.finals)
    BY <1>7 DEF Members
  <1>9. \A i \in gone : d.results[i] \in EndStates /\ i \notin Members(ids) /\ i \in Playbacks
    BY <1>8 DEF FinalsMatch
  <1>10. Members(ids) \subseteq Playbacks
    BY DEF Members
  <1> HIDE DEF gone
  <1>11. /\ res \in [Playbacks -> Statuses]
         /\ \A i \in Playbacks : res[i] = IF i \in gone THEN "none"
                                    ELSE IF i \in Members(ids) THEN s ELSE d.results[i]
    BY <1>2, <1>9 DEF Statuses, EndStates
  <1> HIDE DEF res
  <1>12. Members(fin) = Members(all) \ gone
    <2>1. ASSUME NEW k \in 1 .. Len(fin)
          PROVE  fin[k] \in Members(all) /\ fin[k] \notin gone
      <3>1. cut + k \in 1 .. Len(all) /\ fin[k] = all[cut + k]
        BY <1>3, <1>4, <1>5
      <3>2. ASSUME NEW j \in 1 .. cut PROVE all[j] # all[cut + k]
        <4>1. Len(all) \in Nat /\ cut \in 0 .. Len(all) /\ k \in Nat \ {0}
          BY <1>2, <1>3, <1>4, <1>5
        <4> HIDE DEF all, cut
        <4>2. j \in 1 .. Len(all) /\ j # cut + k
          BY <4>1
        <4> QED BY <4>2, <3>1, <1>6 DEF Distinct
      <3> QED BY <3>1, <3>2 DEF Members, gone
    <2>2. ASSUME NEW k \in 1 .. Len(all), all[k] \notin gone
          PROVE  all[k] \in Members(fin)
      <3>1. k > cut
        BY <2>2, <1>3, <1>4 DEF gone
      <3>2. k - cut \in 1 .. Len(fin) /\ fin[k - cut] = all[k]
        <4>1. /\ Len(all) \in Nat /\ cut \in 0 .. Len(all) /\ Len(fin) = Len(all) - cut
              /\ \A j \in 1 .. Len(fin) : fin[j] = all[cut + j]
          BY <1>2, <1>3, <1>4, <1>5
        <4> HIDE DEF all, cut
        <4>2. k - cut \in 1 .. Len(fin) /\ cut + (k - cut) = k
          BY <3>1, <4>1
        <4>3. fin[k - cut] = all[cut + (k - cut)]
          BY <4>1, <4>2
        <4> QED BY <4>2, <4>3
      <3> QED BY <3>2 DEF Members
    <2> QED BY <2>1, <2>2 DEF Members
  <1>13. Members(all) = Members(d.finals) \cup Members(ids)
    <2>1. ASSUME NEW k \in 1 .. Len(d.finals)
          PROVE  d.finals[k] \in Members(all)
      <3>1. k \in 1 .. Len(all) /\ all[k] = d.finals[k]
        BY <1>2, <1>3
      <3> QED BY <3>1 DEF Members
    <2>2. ASSUME NEW k \in 1 .. Len(ids)
          PROVE  ids[k] \in Members(all)
      <3>1. k + Len(d.finals) \in 1 .. Len(all) /\ all[k + Len(d.finals)] = ids[k]
        BY <1>2, <1>3
      <3> QED BY <3>1 DEF Members
    <2>3. ASSUME NEW k \in 1 .. Len(all)
          PROVE  all[k] \in Members(d.finals) \cup Members(ids)
      <3>1. CASE k <= Len(d.finals)
        <4>1. k \in 1 .. Len(d.finals)
          BY <3>1, <1>2, <1>3
        <4>2. all[k] = d.finals[k]
          BY <4>1, <1>3
        <4> QED BY <4>1, <4>2 DEF Members
      <3>2. CASE k > Len(d.finals)
        <4>1. k - Len(d.finals) \in 1 .. Len(ids) /\ k = (k - Len(d.finals)) + Len(d.finals)
          BY <3>2, <1>2, <1>3
        <4>2. all[k] = ids[k - Len(d.finals)]
          BY <4>1, <1>3
        <4> QED BY <4>1, <4>2 DEF Members
      <3>3. k \in Int /\ Len(d.finals) \in Int
        BY <1>2, <1>3
      <3>4. k <= Len(d.finals) \/ k > Len(d.finals)
        BY <3>3
      <3> QED BY <3>1, <3>2, <3>4
    <2> QED BY <2>1, <2>2, <2>3 DEF Members
  <1>14. /\ e.finals = fin /\ e.results = res
         /\ e = [d EXCEPT !.finals = e.finals, !.results = e.results]
    <2> DEFINE f == [d EXCEPT !.finals = fin, !.results = res]
    <2>1. f.finals = fin /\ f.results = res
      BY DEF DriverRecords
    <2> QED BY <2>1, <1>1
  <1>15. FinalsMatch(e)
    <2>1. Distinct(fin)
      <3> SUFFICES ASSUME NEW j \in 1 .. Len(fin), NEW k \in 1 .. Len(fin), fin[j] = fin[k]
                   PROVE  j = k
        BY DEF Distinct
      <3>1. cut + j \in 1 .. Len(all) /\ cut + k \in 1 .. Len(all)
        BY <1>3, <1>4, <1>5
      <3> QED BY <3>1, <1>4, <1>5, <1>6 DEF Distinct
    <2>2. Members(fin) = {i \in Playbacks : res[i] \in EndStates}
      <3>1. Members(d.finals) = {i \in Playbacks : d.results[i] \in EndStates}
        BY DEF FinalsMatch
      <3> QED BY <3>1, <1>9, <1>10, <1>11, <1>12, <1>13 DEF EndStates
    <2>3. Len(fin) <= ResultCapacity
      BY <1>4, <1>5
    <2> QED BY <2>1, <2>2, <2>3, <1>14 DEF FinalsMatch
  <1>16. \A i \in Members(ids) : res[i] = s
    BY <1>9, <1>10, <1>11
  <1>17. \A i \in Playbacks \ Members(ids) :
           res[i] = d.results[i] \/ (d.results[i] \in EndStates /\ res[i] = "none")
    BY <1>9, <1>11
  <1> HIDE DEF e
  <1>18. EndsAs(d, e, Members(ids), s)
    BY <1>5, <1>11, <1>14, <1>15, <1>16, <1>17 DEF EndsAs
  <1>19. SameButTable(d, e)
    BY <1>5, <1>11, <1>14 DEF SameButTable, DriverRecords
  <1> QED BY <1>18, <1>19 DEF e

(* While every queued playback is pending, Stop finalizes the whole queue. *)
LEMMA PendingOfQueue ==
    ASSUME NEW d, d.queue \in Seq(Playbacks),
           \A i \in Members(d.queue) : d.results[i] = "pending"
    PROVE  PendingOf(d) = d.queue
  <1> DEFINE q == d.queue
  <1> DEFINE at == {k \in 1 .. Len(q) : d.results[q[k]] = "pending"}
  <1>1. at = 1 .. Len(q) /\ Len(q) \in Nat
    BY DEF Members
  <1> HIDE DEF at
  <1>2. Cardinality(at) = Len(q)
    BY <1>1, FS_Interval
  <1>3. ASSUME NEW k \in at
        PROVE  Cardinality({j \in at : j <= k}) = k
    <2>1. {j \in at : j <= k} = 1 .. k /\ k \in Nat
      BY <1>1
    <2>2. Cardinality(1 .. k) = IF 1 > k THEN 0 ELSE k - 1 + 1
      BY <2>1, FS_Interval
    <2>3. Cardinality(1 .. k) = k /\ k \in at
      BY <1>1, <2>2
    <2> QED BY <2>1, <2>3, Zenon
  <1>4. ASSUME NEW n \in 1 .. Len(q)
        PROVE  (CHOOSE k \in at : Cardinality({j \in at : j <= k}) = n) = n
    <2>1. \A k \in at : Cardinality({j \in at : j <= k}) = n <=> k = n
      BY <1>3
    <2>2. n \in at
      BY <1>1
    <2> QED BY <2>1, <2>2
  <1>5. PendingOf(d) = [n \in 1 .. Cardinality(at) |->
            q[CHOOSE k \in at : Cardinality({j \in at : j <= k}) = n]]
    BY DEF PendingOf, at
  <1>6. PendingOf(d) = [n \in 1 .. Len(q) |-> q[n]]
    BY <1>2, <1>4, <1>5
  <1> QED BY <1>6

(* Erasing a playback from a queue without duplicates.                     *)
LEMMA EraseProperties ==
    ASSUME NEW q \in Seq(Playbacks), Distinct(q), NEW i \in Members(q)
    PROVE  /\ Erase(q, i) \in Seq(Playbacks) /\ Distinct(Erase(q, i))
           /\ Len(Erase(q, i)) = Len(q) - 1
           /\ Members(Erase(q, i)) = Members(q) \ {i}
  <1> DEFINE at == CHOOSE k \in 1 .. Len(q) : q[k] = i /\ \A j \in 1 .. k - 1 : q[j] # i
  <1> DEFINE a == SubSeq(q, 1, at - 1)
  <1> DEFINE b == SubSeq(q, at + 1, Len(q))
  <1>1. PICK p \in 1 .. Len(q) : q[p] = i
    BY DEF Members
  <1>2. Len(q) \in Nat /\ \A k \in 1 .. Len(q) : q[k] \in Playbacks
    BY ElementOfSeq
  <1>3. \A k \in 1 .. Len(q) : q[k] = i => k = p
    BY <1>1 DEF Distinct
  <1>4. at = p
    BY <1>1, <1>2, <1>3
  <1> HIDE DEF at
  <1>5. /\ a \in Seq(Playbacks) /\ Len(a) = p - 1
        /\ \A k \in 1 .. p - 1 : a[k] = q[k]
    <2>1. \A k \in 1 .. p - 1 : q[k] \in Playbacks
      BY <1>1, <1>2
    <2>2. /\ SubSeq(q, 1, p - 1) \in Seq(Playbacks)
          /\ Len(SubSeq(q, 1, p - 1)) = IF 1 <= p - 1 THEN (p - 1) - 1 + 1 ELSE 0
          /\ \A k \in 1 .. (p - 1) - 1 + 1 : SubSeq(q, 1, p - 1)[k] = q[1 + k - 1]
      BY <2>1, SubSeqProperties
    <2> HIDE DEF a
    <2>3. a = SubSeq(q, 1, p - 1)
      BY <1>4 DEF a
    <2> QED BY <2>2, <2>3
  <1>6. /\ b \in Seq(Playbacks) /\ Len(b) = Len(q) - p
        /\ \A k \in 1 .. Len(q) - p : b[k] = q[p + k]
    <2>1. \A k \in p + 1 .. Len(q) : q[k] \in Playbacks
      BY <1>1, <1>2
    <2>2. /\ SubSeq(q, p + 1, Len(q)) \in Seq(Playbacks)
          /\ Len(SubSeq(q, p + 1, Len(q))) = IF p + 1 <= Len(q) THEN Len(q) - (p + 1) + 1 ELSE 0
          /\ \A k \in 1 .. Len(q) - (p + 1) + 1 :
               SubSeq(q, p + 1, Len(q))[k] = q[(p + 1) + k - 1]
      BY <2>1, <1>2, SubSeqProperties
    <2> HIDE DEF b
    <2>3. b = SubSeq(q, p + 1, Len(q))
      BY <1>4 DEF b
    <2> QED BY <2>2, <2>3, <1>2
  <1> HIDE DEF a, b
  <1> DEFINE e == a \o b
  <1>7. Erase(q, i) = e
    BY DEF Erase, at, a, b
  <1>8. /\ e \in Seq(Playbacks) /\ Len(e) = Len(q) - 1
        /\ \A k \in 1 .. p - 1 : e[k] = q[k]
        /\ \A k \in p .. Len(q) - 1 : e[k] = q[k + 1]
    <2>1. /\ e \in Seq(Playbacks) /\ Len(e) = Len(a) + Len(b)
          /\ \A k \in 1 .. Len(a) + Len(b) :
               e[k] = IF k <= Len(a) THEN a[k] ELSE b[k - Len(a)]
      BY <1>5, <1>6, ConcatProperties
    <2> HIDE DEF e
    <2>2. Len(e) = Len(q) - 1
      BY <2>1, <1>2, <1>5, <1>6
    <2>3. ASSUME NEW k \in 1 .. p - 1 PROVE e[k] = q[k]
      <3>1. k \in 1 .. Len(a) + Len(b) /\ k <= Len(a)
        BY <1>2, <1>5, <1>6
      <3> QED BY <3>1, <2>1, <1>5
    <2>4. ASSUME NEW k \in p .. Len(q) - 1 PROVE e[k] = q[k + 1]
      <3>1. k - (p - 1) \in 1 .. Len(q) - p /\ p + (k - (p - 1)) = k + 1
        BY <1>2
      <3>2. k \in 1 .. Len(a) + Len(b) /\ ~(k <= Len(a)) /\ Len(a) = p - 1
        BY <1>2, <1>5, <1>6
      <3>3. e[k] = b[k - (p - 1)]
        BY <3>2, <2>1
      <3>4. b[k - (p - 1)] = q[p + (k - (p - 1))]
        BY <3>1, <1>6
      <3> QED BY <3>1, <3>3, <3>4
    <2> QED BY <2>1, <2>2, <2>3, <2>4
  <1> HIDE DEF e
  <1>9. \A k \in 1 .. Len(e) : \E l \in 1 .. Len(q) :
          e[k] = q[l] /\ l # p /\ l = IF k < p THEN k ELSE k + 1
    BY <1>2, <1>8
  <1>10. Distinct(e)
    BY <1>8, <1>9 DEF Distinct
  <1>11. Members(e) = Members(q) \ {i}
    <2>1. ASSUME NEW k \in 1 .. Len(e)
          PROVE  e[k] \in Members(q) /\ e[k] # i
      BY <1>3, <1>9 DEF Members
    <2>2. ASSUME NEW k \in 1 .. Len(q), q[k] # i
          PROVE  q[k] \in Members(e)
      <3>1. k # p
        BY <1>1, <2>2
      <3>2. CASE k < p
        <4>1. k \in 1 .. Len(e) /\ e[k] = q[k]
          BY <3>2, <1>8
        <4> QED BY <4>1 DEF Members
      <3>3. CASE k > p
        <4>1. k - 1 \in 1 .. Len(e) /\ e[k - 1] = q[(k - 1) + 1]
          BY <3>3, <1>2, <1>8
        <4>2. (k - 1) + 1 = k
          OBVIOUS
        <4> QED BY <4>1, <4>2 DEF Members
      <3> QED BY <3>1, <3>2, <3>3
    <2> QED BY <2>1, <2>2 DEF Members
  <1> QED BY <1>7, <1>8, <1>10, <1>11

(* Remember for one playback: a request that ends, or a tombstone.         *)
LEMMA RememberOne ==
    ASSUME NEW d \in DriverRecords, FinalsMatch(d), NEW i \in Playbacks,
           d.results[i] \notin EndStates,
           NEW s \in EndStates, NEW careful \in BOOLEAN
    PROVE  /\ EndsAs(d, Remember(d, <<i>>, s, careful), {i}, s)
           /\ SameButTable(d, Remember(d, <<i>>, s, careful))
  <1>1. /\ <<i>> \in Seq(Playbacks) /\ Distinct(<<i>>) /\ Len(<<i>>) = 1
        /\ Members(<<i>>) = {i}
    BY DEF Distinct, Members
  <1>2. Len(<<i>>) <= ResultCapacity
    BY <1>1, DriverAssumption
  <1> QED BY <1>1, <1>2, RememberKeeps

(* Remember for the whole queue, in Stop.                                  *)
LEMMA RememberQueue ==
    ASSUME NEW d, DriverInv(d)
    PROVE  /\ EndsAs(d, Remember(d, PendingOf(d), "dropped", TRUE), Members(d.queue), "dropped")
           /\ SameButTable(d, Remember(d, PendingOf(d), "dropped", TRUE))
  <1>1. d \in DriverRecords /\ d.queue \in Seq(Playbacks) /\ FinalsMatch(d)
    BY DEF DriverInv, DriverRecords
  <1>2. \A i \in Members(d.queue) : d.results[i] = "pending"
    BY DEF DriverInv, QueueMatches
  <1>3. PendingOf(d) = d.queue
    BY <1>1, <1>2, PendingOfQueue
  <1>4. Len(d.queue) <= ResultCapacity /\ Distinct(d.queue)
    BY <1>1, DriverAssumption DEF DriverInv, QueueMatches
  <1>5. "dropped" \in EndStates /\ \A i \in Members(d.queue) : d.results[i] \notin EndStates
    BY <1>2 DEF EndStates
  <1> QED BY <1>1, <1>3, <1>4, <1>5, RememberKeeps

(* FinalizeLocked for a pending playback.                                  *)
LEMMA FinalizePending ==
    ASSUME NEW d \in DriverRecords, FinalsMatch(d), NEW i \in Playbacks,
           d.results[i] = "pending", NEW s \in EndStates
    PROVE  /\ EndsAs(d, FinalizeLocked(d, i, s), {i}, s)
           /\ SameButTable(d, FinalizeLocked(d, i, s))
  <1>1. d.results[i] \notin EndStates
    BY DEF EndStates
  <1> QED BY <1>1, RememberOne DEF FinalizeLocked

-----------------------------------------------------------------------------
(* The driver's operations keep its table and the contract.                *)
LEMMA StopKeeps ==
    ASSUME DriverInv(drv), DriverStop
    PROVE  DriverInv(drv') /\ Contract!ContractNext
  <1> DEFINE e == Remember(drv, PendingOf(drv), "dropped", TRUE)
  <1>1. EndsAs(drv, e, Members(drv.queue), "dropped") /\ SameButTable(drv, e)
    BY RememberQueue
  <1>2. PICK c \in BOOLEAN : drv' = [e EXCEPT !.stop = TRUE, !.queue = << >>, !.cancelled = c]
    BY DEF DriverStop
  <1> HIDE DEF e
  <1>3. /\ drv' \in DriverRecords /\ drv'.queue = << >> /\ drv'.active = drv.active
        /\ drv'.results = e.results /\ drv'.finals = e.finals
    <2>1. e \in DriverRecords /\ << >> \in Seq(Playbacks) /\ e.active = drv.active
      BY <1>1 DEF SameButTable
    <2>2. drv' \in DriverRecords
      BY <1>2, <2>1 DEF DriverRecords
    <2>3. /\ drv'.queue = << >> /\ drv'.active = e.active
          /\ drv'.results = e.results /\ drv'.finals = e.finals
      BY <1>2, <2>1 DEF DriverRecords
    <2> QED BY <2>1, <2>2, <2>3
  <1>4. FinalsMatch(drv')
    BY <1>1, <1>3 DEF EndsAs, FinalsMatch
  <1>5. Members(drv'.queue) = {} /\ Distinct(drv'.queue) /\ Len(drv'.queue) = 0
    BY <1>3 DEF Members, Distinct
  <1>6. drv.results \in [Playbacks -> Statuses] /\ Members(drv.queue) \subseteq Playbacks
    BY DEF DriverInv, DriverRecords, Members
  <1>7. QueueMatches(drv')
    <2>1. {i \in Playbacks : drv.results[i] = "pending"}
            = Members(drv.queue) \cup ({drv.active} \ {0})
          /\ drv.active \notin Members(drv.queue)
      BY DEF DriverInv, QueueMatches
    <2>2. \A i \in Playbacks : drv'.results[i] = "pending"
            <=> drv.results[i] = "pending" /\ i \notin Members(drv.queue)
      BY <1>1, <1>3 DEF EndsAs, EndStates
    <2>3. {i \in Playbacks : drv'.results[i] = "pending"} = {drv.active} \ {0}
      BY <2>1, <2>2
    <2>4. Len(drv'.queue) <= QueueCapacity
      BY <1>5, DriverAssumption
    <2> QED BY <2>3, <2>4, <1>3, <1>5 DEF QueueMatches
  <1>8. \A i \in Playbacks : Contract!Lives(drv.results[i], drv'.results[i])
    BY <1>1, <1>3, <1>6 DEF DriverInv, QueueMatches, EndsAs, EndStates, Contract!Lives, Contract!Ended
  <1>9. drv.active # 0 => drv'.results[drv.active] = "pending"
    BY <1>3, <1>7 DEF QueueMatches
  <1> QED BY <1>3, <1>4, <1>7, <1>8, <1>9 DEF DriverInv, Contract!ContractNext

(* A step that leaves the table, the queue and the active playback alone.  *)
LEMMA SameTableKeeps ==
    ASSUME DriverInv(drv), drv' \in DriverRecords,
           drv'.results = drv.results, drv'.finals = drv.finals,
           drv'.queue = drv.queue, drv'.active = drv.active
    PROVE  DriverInv(drv') /\ Contract!ContractNext
  <1>1. DriverInv(drv')
    BY DEF DriverInv, FinalsMatch, QueueMatches
  <1>2. drv.active # 0 => drv'.results[drv.active] = "pending"
    BY DEF DriverInv, QueueMatches
  <1> QED BY <1>1, <1>2 DEF Contract!ContractNext, Contract!Lives

LEMMA QuietStepsKeep ==
    ASSUME DriverInv(drv), DriverJoin \/ WorkerExits \/ UNCHANGED drv
    PROVE  DriverInv(drv') /\ Contract!ContractNext
  <1>1. CASE DriverJoin
    <2>1. /\ drv' \in DriverRecords
          /\ drv'.results = drv.results /\ drv'.finals = drv.finals
          /\ drv'.queue = drv.queue /\ drv'.active = drv.active
      BY <1>1 DEF DriverJoin, DriverInv, DriverRecords
    <2> QED BY <2>1, SameTableKeeps
  <1>2. CASE WorkerExits
    <2>1. /\ drv' \in DriverRecords
          /\ drv'.results = drv.results /\ drv'.finals = drv.finals
          /\ drv'.queue = drv.queue /\ drv'.active = drv.active
      BY <1>2 DEF WorkerExits, DriverInv, DriverRecords
    <2> QED BY <2>1, SameTableKeeps
  <1>3. CASE UNCHANGED drv
    BY <1>3, SameTableKeeps DEF DriverInv
  <1> QED BY <1>1, <1>2, <1>3

LEMMA TailMembers ==
    ASSUME NEW q \in Seq(Playbacks), q # << >>, Distinct(q)
    PROVE  /\ Head(q) \in Members(q) /\ Head(q) \in Playbacks
           /\ Tail(q) \in Seq(Playbacks) /\ Len(Tail(q)) = Len(q) - 1
           /\ Distinct(Tail(q)) /\ Members(Tail(q)) = Members(q) \ {Head(q)}
  <1>1. /\ Len(q) \in Nat \ {0} /\ Head(q) = q[1] /\ Head(q) \in Playbacks
        /\ Tail(q) \in Seq(Playbacks) /\ Len(Tail(q)) = Len(q) - 1
        /\ \A k \in 1 .. Len(q) - 1 : Tail(q)[k] = q[k + 1]
    BY HeadTailProperties, EmptySeq, ElementOfSeq
  <1> DEFINE t == Tail(q)
  <1> HIDE DEF t
  <1>2. Len(t) = Len(q) - 1 /\ \A k \in 1 .. Len(t) : t[k] = q[k + 1] /\ k + 1 \in 1 .. Len(q)
    BY <1>1 DEF t
  <1>3. Distinct(t)
    BY <1>1, <1>2 DEF Distinct
  <1>4. Members(t) = Members(q) \ {q[1]}
    <2>1. ASSUME NEW k \in 1 .. Len(t) PROVE t[k] \in Members(q) /\ t[k] # q[1]
      BY <1>1, <1>2 DEF Members, Distinct
    <2>2. ASSUME NEW k \in 1 .. Len(q), q[k] # q[1] PROVE q[k] \in Members(t)
      <3>1. k - 1 \in 1 .. Len(t) /\ (k - 1) + 1 = k
        BY <2>2, <1>1, <1>2
      <3>2. t[k - 1] = q[k]
        BY <3>1, <1>2
      <3> QED BY <3>1, <3>2 DEF Members
    <2> QED BY <2>1, <2>2 DEF Members
  <1>5. q[1] \in Members(q)
    BY <1>1 DEF Members
  <1> QED BY <1>1, <1>3, <1>4, <1>5 DEF t

LEMMA PlayNextKeeps ==
    ASSUME DriverInv(drv), PlayNext
    PROVE  DriverInv(drv') /\ Contract!ContractNext
  <1> DEFINE h == Head(drv.queue)
  <1> DEFINE t == Tail(drv.queue)
  <1>1. /\ drv \in DriverRecords /\ drv.queue \in Seq(Playbacks) /\ drv.queue # << >>
        /\ Distinct(drv.queue) /\ drv.active = 0
        /\ drv' = [drv EXCEPT !.active = h, !.queue = t, !.cancelled = FALSE]
    BY DEF DriverInv, DriverRecords, QueueMatches, PlayNext
  <1>2. /\ h \in Members(drv.queue) /\ h \in Playbacks /\ t \in Seq(Playbacks)
        /\ Len(t) = Len(drv.queue) - 1 /\ Distinct(t) /\ Members(t) = Members(drv.queue) \ {h}
    BY <1>1, TailMembers
  <1> HIDE DEF h, t
  <1>3. /\ drv' \in DriverRecords /\ drv'.queue = t /\ drv'.active = h
        /\ drv'.results = drv.results /\ drv'.finals = drv.finals
    BY <1>1, <1>2 DEF DriverRecords
  <1>4. h # 0
    BY <1>2, DriverAssumption
  <1>5. QueueMatches(drv')
    <2>1. {i \in Playbacks : drv'.results[i] = "pending"} = Members(t) \cup ({h} \ {0})
      BY <1>1, <1>2, <1>3, <1>4 DEF DriverInv, QueueMatches
    <2>2. Len(t) <= QueueCapacity
      BY <1>1, <1>2, DriverAssumption DEF DriverInv, QueueMatches
    <2> QED BY <2>1, <2>2, <1>2, <1>3 DEF QueueMatches
  <1>6. DriverInv(drv')
    BY <1>3, <1>5 DEF DriverInv, FinalsMatch
  <1>7. drv.results[h] = "pending"
    BY <1>1, <1>2 DEF DriverInv, QueueMatches
  <1>8. Contract!BeginsToSound(h)
    BY <1>1, <1>3, <1>7 DEF Contract!BeginsToSound
  <1>9. \A i \in Playbacks : Contract!Lives(drv.results[i], drv'.results[i])
    BY <1>3 DEF Contract!Lives
  <1> QED BY <1>2, <1>6, <1>8, <1>9 DEF Contract!ContractNext

LEMMA PlayEndsKeeps ==
    ASSUME DriverInv(drv), PlayEnds
    PROVE  DriverInv(drv') /\ Contract!ContractNext
  <1> DEFINE a == drv.active
  <1>1. PICK s \in EndStates :
          drv' = [FinalizeLocked(drv, a, s) EXCEPT !.active = 0, !.cancelled = FALSE]
    BY DEF PlayEnds, EndStates
  <1> DEFINE e == FinalizeLocked(drv, a, s)
  <1>2. /\ drv \in DriverRecords /\ FinalsMatch(drv) /\ a # 0 /\ a \in Playbacks
        /\ drv.results[a] = "pending"
    BY DEF DriverInv, DriverRecords, QueueMatches, PlayEnds
  <1>3. EndsAs(drv, e, {a}, s) /\ SameButTable(drv, e)
    BY <1>2, FinalizePending
  <1> HIDE DEF e
  <1>4. /\ drv' \in DriverRecords /\ drv'.queue = drv.queue /\ drv'.active = 0
        /\ drv'.results = e.results /\ drv'.finals = e.finals
    BY <1>1, <1>3 DEF SameButTable, DriverRecords, e
  <1>5. FinalsMatch(drv')
    BY <1>3, <1>4 DEF EndsAs, FinalsMatch
  <1>6. \A i \in Playbacks : drv'.results[i] = "pending" <=> drv.results[i] = "pending" /\ i # a
    BY <1>2, <1>3, <1>4 DEF EndsAs, EndStates
  <1>7. QueueMatches(drv')
    <2>1. /\ {i \in Playbacks : drv.results[i] = "pending"} = Members(drv.queue) \cup ({a} \ {0})
          /\ a \notin Members(drv.queue) /\ Members(drv.queue) \subseteq Playbacks
      BY DEF DriverInv, QueueMatches
    <2>2. {i \in Playbacks : drv'.results[i] = "pending"} = Members(drv.queue)
      BY <2>1, <1>6
    <2>3. 0 \notin Members(drv.queue)
      BY <2>1, DriverAssumption
    <2> QED BY <2>2, <2>3, <1>4 DEF DriverInv, QueueMatches
  <1>8. \A i \in Playbacks : Contract!Lives(drv.results[i], drv'.results[i])
    BY <1>2, <1>3, <1>4 DEF EndsAs, EndStates, Contract!Lives, Contract!Ended
  <1>9. Contract!StopsSounding
    BY <1>2, <1>3, <1>4 DEF EndsAs, EndStates, Contract!StopsSounding, Contract!Ended
  <1> QED BY <1>4, <1>5, <1>7, <1>8, <1>9 DEF DriverInv, Contract!ContractNext

LEMMA SubmitKeeps ==
    ASSUME DriverInv(drv), NEW i \in Playbacks, DriverAccepts(i), drv' = DriverSubmit(i)
    PROVE  DriverInv(drv') /\ Contract!ContractNext
  <1> DEFINE q == drv.queue
  <1> DEFINE p == Append(q, i)
  <1>1. /\ drv \in DriverRecords /\ q \in Seq(Playbacks) /\ Len(q) \in Nat
        /\ Len(q) < QueueCapacity /\ drv.results[i] = "none"
    BY DEF DriverInv, DriverRecords, DriverAccepts
  <1>2. /\ p \in Seq(Playbacks) /\ Len(p) = Len(q) + 1 /\ p[Len(q) + 1] = i
        /\ \A k \in 1 .. Len(q) : p[k] = q[k]
    BY <1>1, AppendProperties
  <1> HIDE DEF p
  <1>3. /\ drv' \in DriverRecords /\ drv'.queue = p /\ drv'.active = drv.active
        /\ drv'.results = [drv.results EXCEPT ![i] = "pending"] /\ drv'.finals = drv.finals
    BY <1>1, <1>2 DEF DriverSubmit, DriverRecords, Statuses, p
  <1>4. /\ drv.results \in [Playbacks -> Statuses]
        /\ {j \in Playbacks : drv.results[j] = "pending"} = Members(q) \cup ({drv.active} \ {0})
        /\ Distinct(q) /\ drv.active \notin Members(q) /\ i \notin Members(q)
    BY <1>1 DEF DriverInv, DriverRecords, QueueMatches
  <1>5. Members(p) = Members(q) \cup {i}
    <2>1. \A k \in 1 .. Len(p) : k \in 1 .. Len(q) \/ k = Len(q) + 1
      BY <1>1, <1>2
    <2>2. \A k \in 1 .. Len(q) : k \in 1 .. Len(p)
      BY <1>1, <1>2
    <2>3. Len(q) + 1 \in 1 .. Len(p)
      BY <1>1, <1>2
    <2> QED BY <1>2, <2>1, <2>2, <2>3 DEF Members
  <1>6. Distinct(p)
    <2>1. \A k \in 1 .. Len(q) : q[k] # i
      BY <1>4 DEF Members
    <2> QED BY <2>1, <1>1, <1>2, <1>4 DEF Distinct
  <1>7. FinalsMatch(drv')
    BY <1>1, <1>3, <1>4 DEF DriverInv, FinalsMatch, EndStates
  <1>8. QueueMatches(drv')
    <2>1. {j \in Playbacks : drv'.results[j] = "pending"}
            = {j \in Playbacks : drv.results[j] = "pending"} \cup {i}
      BY <1>3, <1>4
    <2>2. drv.active # i
      <3>1. drv.active # 0 => drv.active \in {j \in Playbacks : drv.results[j] = "pending"}
        BY <1>4
      <3> QED BY <3>1, <1>1, DriverAssumption
    <2>3. Len(p) <= QueueCapacity
      BY <1>1, <1>2, DriverAssumption
    <2>4. {j \in Playbacks : drv'.results[j] = "pending"} = Members(p) \cup ({drv.active} \ {0})
      BY <2>1, <1>4, <1>5
    <2> QED BY <2>2, <2>3, <2>4, <1>3, <1>4, <1>5, <1>6 DEF QueueMatches
  <1>9. \A j \in Playbacks : Contract!Lives(drv.results[j], drv'.results[j])
    BY <1>1, <1>3, <1>4 DEF Contract!Lives
  <1>10. drv.active # 0 => drv'.results[drv.active] = "pending"
    BY <1>3, <1>8 DEF QueueMatches
  <1> QED BY <1>3, <1>7, <1>8, <1>9, <1>10 DEF DriverInv, Contract!ContractNext

(* Cancel: an ended playback, the active one, a queued one, an unknown one.*)
LEMMA CancelKeeps ==
    ASSUME DriverInv(drv), NEW i \in Playbacks, drv' = CancelEffect(i)
    PROVE  DriverInv(drv') /\ Contract!ContractNext
  <1>1. /\ drv \in DriverRecords /\ FinalsMatch(drv) /\ drv.queue \in Seq(Playbacks)
        /\ drv.results \in [Playbacks -> Statuses] /\ Distinct(drv.queue)
        /\ Members(drv.queue) \subseteq Playbacks
        /\ {j \in Playbacks : drv.results[j] = "pending"}
             = Members(drv.queue) \cup ({drv.active} \ {0})
        /\ drv.active \notin Members(drv.queue)
    BY DEF DriverInv, DriverRecords, QueueMatches
  <1>2. CASE drv.results[i] \in EndStates
    BY <1>2, QuietStepsKeep DEF CancelEffect
  <1>3. CASE drv.results[i] \notin EndStates /\ i = drv.active
    <2>1. drv' = [drv EXCEPT !.cancelled = TRUE]
      BY <1>3 DEF CancelEffect
    <2>2. /\ drv' \in DriverRecords
          /\ drv'.results = drv.results /\ drv'.finals = drv.finals
          /\ drv'.queue = drv.queue /\ drv'.active = drv.active
      BY <2>1, <1>1 DEF DriverRecords
    <2> QED BY <2>2, SameTableKeeps
  <1>4. CASE drv.results[i] \notin EndStates /\ i # drv.active /\ i \in Members(drv.queue)
    <2> DEFINE e == FinalizeLocked(drv, i, "cancelled")
    <2> DEFINE q == Erase(drv.queue, i)
    <2>1. drv' = [e EXCEPT !.queue = q]
      BY <1>4 DEF CancelEffect
    <2>2. EndsAs(drv, e, {i}, "cancelled") /\ SameButTable(drv, e)
      <3>1. drv.results[i] = "pending" /\ "cancelled" \in EndStates
        BY <1>1, <1>4 DEF EndStates
      <3> QED BY <3>1, <1>1, FinalizePending
    <2>3. /\ q \in Seq(Playbacks) /\ Distinct(q) /\ Len(q) = Len(drv.queue) - 1
          /\ Members(q) = Members(drv.queue) \ {i}
      BY <1>1, <1>4, EraseProperties
    <2> HIDE DEF e, q
    <2>4. /\ drv' \in DriverRecords /\ drv'.queue = q /\ drv'.active = drv.active
          /\ drv'.results = e.results /\ drv'.finals = e.finals
      BY <2>1, <2>2, <2>3 DEF SameButTable, DriverRecords
    <2>5. FinalsMatch(drv')
      BY <2>2, <2>4 DEF EndsAs, FinalsMatch
    <2>6. \A j \in Playbacks : drv'.results[j] = "pending" <=> drv.results[j] = "pending" /\ j # i
      BY <1>1, <2>2, <2>4 DEF EndsAs, EndStates
    <2>7. QueueMatches(drv')
      <3>1. {j \in Playbacks : drv'.results[j] = "pending"} = Members(q) \cup ({drv.active} \ {0})
        BY <2>3, <2>6, <1>1, <1>4
      <3>2. Len(q) <= QueueCapacity
        BY <2>3, <1>1, DriverAssumption DEF DriverInv, QueueMatches
      <3> QED BY <3>1, <3>2, <2>3, <2>4, <1>1 DEF QueueMatches
    <2>8. \A j \in Playbacks : Contract!Lives(drv.results[j], drv'.results[j])
      BY <1>1, <1>4, <2>2, <2>4 DEF EndsAs, EndStates, Contract!Lives, Contract!Ended
    <2>9. drv.active # 0 => drv'.results[drv.active] = "pending"
      BY <2>4, <2>7 DEF QueueMatches
    <2> QED BY <2>4, <2>5, <2>7, <2>8, <2>9 DEF DriverInv, Contract!ContractNext
  <1>5. CASE drv.results[i] \notin EndStates /\ i # drv.active /\ i \notin Members(drv.queue)
    <2> DEFINE e == Remember(drv, <<i>>, "cancelled", FALSE)
    <2>1. drv' = e
      BY <1>5 DEF CancelEffect
    <2>2. EndsAs(drv, e, {i}, "cancelled") /\ SameButTable(drv, e)
      BY <1>1, <1>5, RememberOne DEF EndStates
    <2> HIDE DEF e
    <2>3. drv.results[i] = "none"
      BY <1>1, <1>5 DEF Statuses
    <2>4. \A j \in Playbacks : drv'.results[j] = "pending" <=> drv.results[j] = "pending"
      BY <2>1, <2>2, <2>3 DEF EndsAs, EndStates
    <2>5. QueueMatches(drv')
      <3>1. {j \in Playbacks : drv'.results[j] = "pending"}
              = {j \in Playbacks : drv.results[j] = "pending"}
        BY <2>4
      <3>2. drv'.queue = drv.queue /\ drv'.active = drv.active
        BY <2>1, <2>2 DEF SameButTable
      <3> QED BY <3>1, <3>2 DEF DriverInv, QueueMatches
    <2>6. DriverInv(drv')
      BY <2>1, <2>2, <2>5 DEF DriverInv, EndsAs, SameButTable
    <2>7. \A j \in Playbacks : Contract!Lives(drv.results[j], drv'.results[j])
      BY <1>1, <2>1, <2>2, <2>3 DEF EndsAs, EndStates, Contract!Lives, Contract!Ended
    <2>8. drv.active # 0 => drv'.results[drv.active] = "pending"
      BY <2>1, <2>2, <2>5 DEF QueueMatches, SameButTable
    <2> QED BY <2>1, <2>2, <2>6, <2>7, <2>8 DEF Contract!ContractNext, SameButTable
  <1> QED BY <1>2, <1>3, <1>4, <1>5

-----------------------------------------------------------------------------
(* The client.  Where the worker is tells which request and which playback *)
(* the client has registered.                                              *)
Unregistered == {"idle", "focus", "pause", "segment", "enter", "result", "done"}
Preparing == {"synth", "fallback", "check", "register"}
Playing == {"submit", "reply", "after", "early", "wait", "confirm", "again", "clear"}

ClientRecords ==
    [req : Nat, pb : Playbacks \cup {0}, attempts : Nat, flight : BOOLEAN,
     confirmed : BOOLEAN, stopping : BOOLEAN, gen : Nat, token : BOOLEAN, focus : BOOLEAN]

WorkerRecords ==
    [pc : Unregistered \cup Preparing \cup Playing \cup {"reject"}, req : Nat, left : Int,
     gen : Nat, pb : Playbacks \cup {0}, fallback : BOOLEAN, unsure : BOOLEAN,
     got : Statuses \cup {"not_found", "timeout"}, early : BOOLEAN]

CancelRecords ==
    [pc : {"idle", "check", "rpc", "answer", "over"}, id : Playbacks \cup {0},
     whole : BOOLEAN, own : BOOLEAN, ok : BOOLEAN]

CallerRecords ==
    [pc : {"idle", "flag", "gen", "read", "cancel", "over"}, count : Nat, gen : Nat]

ClientTypeOK ==
    /\ cl \in ClientRecords
    /\ wk \in WorkerRecords
    /\ cancel \in [Cancellers -> CancelRecords]
    /\ caller \in [{"interrupt", "stop"} -> CallerRecords]
    /\ net \in [Playbacks -> {"none", "sent", "accepted", "rejected", "read"}]
    /\ prompt \in [pc : {"idle", "reply", "wait"}, id : Playbacks \cup {0}, stopping : BOOLEAN]
    /\ heard \in [gen : [Playbacks -> Nat], over : Nat, calls : [Playbacks -> Nat]]

Registered ==
    /\ wk.pc \in Unregistered => cl.req = 0 /\ cl.pb = 0
    /\ wk.pc \in Preparing => cl.req = wk.req /\ cl.pb = 0
    /\ wk.pc = "register" => wk.pb # 0
    /\ wk.pc \in Playing => cl.req = wk.req /\ cl.pb = wk.pb /\ wk.pb # 0
    /\ wk.pc = "reject" => cl.req = wk.req

Begun == {"check", "rpc", "answer"}
Owner(t) == cancel[t].own /\ cancel[t].pc \in Begun

(* The call in flight has one owner, and cl.flight is set while it has the *)
(* playback that is registered.                                            *)
OneOwner ==
    /\ \A t \in Cancellers :
         /\ cancel[t].pc \in Begun => cancel[t].id # 0
         /\ cancel[t].pc \in {"rpc", "answer"} => cancel[t].own
         /\ Owner(t) /\ cancel[t].id = cl.pb => cl.flight
    /\ \A t, u \in Cancellers : Owner(t) /\ Owner(u) /\ cancel[t].id = cancel[u].id => t = u

(* An id is used for one playback only, and nobody can cancel it before it *)
(* is registered.                                                          *)
FreshIds ==
    /\ \A t \in Cancellers : cancel[t].id # 0 => heard.gen[cancel[t].id] > 0
    /\ \A i \in Playbacks : heard.calls[i] > 0 => heard.gen[i] > 0
    /\ cl.pb # 0 => heard.gen[cl.pb] > 0
    /\ wk.pc = "register" =>
         /\ heard.gen[wk.pb] > 0 /\ heard.calls[wk.pb] = 0
         /\ \A t \in Cancellers : cancel[t].id # wk.pb

CallsCounted ==
    /\ \A i \in Playbacks : heard.calls[i] <= MaxAttempts
    /\ cl.pb # 0 => heard.calls[cl.pb] <= cl.attempts

ClientInv ==
    /\ ClientTypeOK /\ Registered /\ OneOwner /\ FreshIds /\ CallsCounted
    /\ prompt.pc # "idle" => prompt.id # 0

PlaybackInv == DriverInv(drv) /\ ClientInv

-----------------------------------------------------------------------------
(* The state around the client that no part of its invariant looks at.     *)
SurroundingsOK ==
    /\ caller \in [{"interrupt", "stop"} -> CallerRecords]
    /\ net \in [Playbacks -> {"none", "sent", "accepted", "rejected", "read"}]
    /\ prompt \in [pc : {"idle", "reply", "wait"}, id : Playbacks \cup {0}, stopping : BOOLEAN]
    /\ prompt.pc # "idle" => prompt.id # 0

(* A step that leaves the registration, the cancellations and the ids as   *)
(* they are.                                                               *)
LEMMA MoveKeeps ==
    ASSUME ClientInv, SurroundingsOK',
           cl' \in ClientRecords, cl'.req = cl.req, cl'.pb = cl.pb,
           cl'.attempts = cl.attempts, cl'.flight = cl.flight,
           wk' \in WorkerRecords, Registered',
           wk'.pc = "register" => wk.pc = "register" /\ wk'.pb = wk.pb,
           UNCHANGED <<cancel, heard>>
    PROVE  ClientInv'
  <1>1. ClientTypeOK'
    BY DEF ClientInv, ClientTypeOK, SurroundingsOK
  <1>2. OneOwner'
    BY DEF ClientInv, OneOwner, Owner
  <1>3. FreshIds'
    BY DEF ClientInv, FreshIds
  <1>4. CallsCounted'
    BY DEF ClientInv, CallsCounted
  <1> QED BY <1>1, <1>2, <1>3, <1>4 DEF ClientInv, SurroundingsOK

(* A step of the worker after which no playback is registered.             *)
LEMMA ClearKeeps ==
    ASSUME ClientInv, cl' \in ClientRecords, cl'.pb = 0,
           wk' \in WorkerRecords, Registered', wk'.pc # "register",
           UNCHANGED <<cancel, heard, caller, net, prompt>>
    PROVE  ClientInv'
  <1>1. ClientTypeOK'
    BY DEF ClientInv, ClientTypeOK
  <1>2. OneOwner'
    BY DEF ClientInv, OneOwner, Owner
  <1>3. FreshIds'
    BY DEF ClientInv, FreshIds
  <1>4. CallsCounted'
    BY DEF ClientInv, CallsCounted
  <1> QED BY <1>1, <1>2, <1>3, <1>4 DEF ClientInv

LEMMA LeftRecord ==
    ASSUME wk \in WorkerRecords
    PROVE  Left \in WorkerRecords /\ Left.pc = "done" /\ Left.req = wk.req
  BY DEF Left, WorkerRecords, Unregistered, Statuses

(* The actions that only move the worker, or set flags of the client.      *)
LEMMA WorkerMovesKeep ==
    ASSUME PlaybackInv,
           \/ TakeResponse \/ FocusStatus \/ FocusPause \/ ReleaseFocus \/ LoadGeneration
           \/ Synthesize \/ SynthesizeFallback \/ SendPlay \/ PlayReply \/ WaitAgain
           \/ SegmentDone
    PROVE  ClientInv'
  <1> USE DEF Unregistered, Preparing, Playing
  <1>1. /\ ClientInv /\ cl \in ClientRecords /\ wk \in WorkerRecords /\ Registered
        /\ net \in [Playbacks -> {"none", "sent", "accepted", "rejected", "read"}]
        /\ SurroundingsOK /\ drv.results \in [Playbacks -> Statuses]
    BY DEF PlaybackInv, ClientInv, ClientTypeOK, SurroundingsOK, DriverInv, DriverRecords
  <1>2. UNCHANGED <<cancel, heard, caller, prompt>>
    BY DEF TakeResponse, FocusStatus, FocusPause, ReleaseFocus, LoadGeneration, Synthesize,
           SynthesizeFallback, SendPlay, PlayReply, WaitAgain, SegmentDone
  <1>3. /\ cl' \in ClientRecords /\ cl'.req = cl.req /\ cl'.pb = cl.pb
        /\ cl'.attempts = cl.attempts /\ cl'.flight = cl.flight
    BY <1>1 DEF TakeResponse, FocusStatus, FocusPause, ReleaseFocus, LoadGeneration, Synthesize,
           SynthesizeFallback, SendPlay, PlayReply, WaitAgain, SegmentDone, ClientRecords
  <1>4. net' \in [Playbacks -> {"none", "sent", "accepted", "rejected", "read"}]
    BY <1>1 DEF TakeResponse, FocusStatus, FocusPause, ReleaseFocus, LoadGeneration, Synthesize,
           SynthesizeFallback, SendPlay, PlayReply, WaitAgain, SegmentDone
  <1>5. SurroundingsOK'
    BY <1>1, <1>2, <1>4 DEF SurroundingsOK
  <1>6. wk' \in WorkerRecords /\ Registered' /\ wk'.pc # "register"
    <2>1. CASE TakeResponse
      <3>1. PICK n \in 1 .. MaxSegments :
              wk' = [wk EXCEPT !.pc = "focus", !.req = @ + 1, !.left = n]
        BY <2>1 DEF TakeResponse
      <3>2. n \in Int /\ wk.req + 1 \in Nat
        BY <1>1 DEF WorkerRecords
      <3>3. wk' \in WorkerRecords /\ wk'.pc = "focus"
        BY <3>1, <3>2, <1>1 DEF WorkerRecords
      <3> QED BY <3>3, <2>1, <1>1, <1>3 DEF TakeResponse, Registered
    <2>2. CASE FocusStatus
      <3>1. wk' = Left \/ wk' = [wk EXCEPT !.pc = "pause"] \/ wk' = [wk EXCEPT !.pc = "segment"]
        BY <2>2 DEF FocusStatus, Goto, Leave
      <3>2. wk' \in WorkerRecords /\ wk'.pc \in Unregistered
        BY <3>1, <1>1, LeftRecord DEF WorkerRecords
      <3>3. wk.pc \in Unregistered
        BY <2>2 DEF FocusStatus
      <3> QED BY <3>2, <3>3, <1>1, <1>3 DEF Registered
    <2>3. CASE FocusPause
      <3>1. wk' = Left \/ wk' = [wk EXCEPT !.pc = "pause"] \/ wk' = [wk EXCEPT !.pc = "segment"]
        BY <2>3 DEF FocusPause, Goto, Leave
      <3>2. wk' \in WorkerRecords /\ wk'.pc \in Unregistered
        BY <3>1, <1>1, LeftRecord DEF WorkerRecords
      <3>3. wk.pc \in Unregistered
        BY <2>3 DEF FocusPause
      <3> QED BY <3>2, <3>3, <1>1, <1>3 DEF Registered
    <2>4. CASE ReleaseFocus
      BY <2>4, <1>1 DEF ReleaseFocus, Goto, WorkerRecords, ClientRecords, Registered
    <2>5. CASE LoadGeneration
      BY <2>5, <1>1 DEF LoadGeneration, WorkerRecords, ClientRecords, Registered, Statuses
    <2>6. CASE Synthesize
      BY <2>6, <1>1 DEF Synthesize, SynthesisResults, Goto, WorkerRecords, Registered
    <2>7. CASE SynthesizeFallback
      BY <2>7, <1>1 DEF SynthesizeFallback, SynthesisResults, Goto, WorkerRecords, Registered
    <2>8. CASE SendPlay
      BY <2>8, <1>1 DEF SendPlay, Goto, WorkerRecords, Registered
    <2>9. CASE PlayReply
      BY <2>9, <1>1 DEF PlayReply, Goto, WorkerRecords, Registered
    <2>10. CASE WaitAgain
      <3>1. WaitAnswer(wk.pb) \in Statuses \cup {"not_found", "timeout"}
        BY <2>10, <1>1 DEF WaitAgain, WaitAnswer, WorkerRecords, Registered, Statuses
      <3>2. PICK a \in Statuses \cup {"not_found", "timeout"} :
              wk' = [wk EXCEPT !.pc = "clear", !.got = a]
        BY <2>10, <3>1 DEF WaitAgain
      <3> QED BY <2>10, <3>2, <1>1, <1>3 DEF WaitAgain, WorkerRecords, Registered
    <2>11. CASE SegmentDone
      <3>1. wk' = Left \/ wk' = [wk EXCEPT !.pc = "segment", !.left = wk.left - 1]
        BY <2>11 DEF SegmentDone
      <3>3. wk.left - 1 \in Int
        BY <1>1 DEF WorkerRecords
      <3>4. CASE wk' = Left
        BY <3>4, <2>11, <1>1, <1>3, LeftRecord DEF SegmentDone, Registered
      <3>5. CASE wk' = [wk EXCEPT !.pc = "segment", !.left = wk.left - 1]
        BY <3>3, <3>5, <2>11, <1>1, <1>3 DEF SegmentDone, Registered, WorkerRecords
      <3> QED BY <3>1, <3>4, <3>5
    <2> QED BY <2>1, <2>2, <2>3, <2>4, <2>5, <2>6, <2>7, <2>8, <2>9, <2>10, <2>11
  <1> QED BY <1>1, <1>2, <1>3, <1>5, <1>6, MoveKeeps

(* The actions that clear the registration, or begin one without a         *)
(* playback.                                                               *)
LEMMA ClearedKeep ==
    ASSUME PlaybackInv, EnterSegment \/ RejectSegment \/ ClearPlayback
    PROVE  ClientInv'
  <1> USE DEF Unregistered, Preparing, Playing
  <1>1. ClientInv /\ cl \in ClientRecords /\ wk \in WorkerRecords /\ Registered
    BY DEF PlaybackInv, ClientInv, ClientTypeOK
  <1>2. UNCHANGED <<cancel, heard, caller, net, prompt>>
    BY DEF EnterSegment, RejectSegment, ClearPlayback
  <1>3. CASE EnterSegment
    <2>1. /\ \/ wk' = Left /\ cl' = cl
             \/ /\ wk' = [wk EXCEPT !.pc = "synth"]
                /\ cl' = [cl EXCEPT !.req = wk.req, !.attempts = 0, !.flight = FALSE,
                                     !.confirmed = FALSE]
          /\ wk.pc = "enter"
      BY <1>3 DEF EnterSegment, Goto, Leave
    <2>5. cl.req = 0 /\ cl.pb = 0
      BY <2>1, <1>1 DEF Registered
    <2>2. /\ cl' \in ClientRecords /\ cl'.pb = 0 /\ wk' \in WorkerRecords
          /\ \/ wk'.pc = "done" /\ cl'.req = 0
             \/ wk'.pc = "synth" /\ cl'.req = wk'.req
      <3> HIDE DEF Unregistered, Preparing, Playing
      <3>1. CASE wk' = Left /\ cl' = cl
        BY <2>5, <3>1, <1>1, LeftRecord
      <3>2. CASE /\ wk' = [wk EXCEPT !.pc = "synth"]
                 /\ cl' = [cl EXCEPT !.req = wk.req, !.attempts = 0, !.flight = FALSE,
                                      !.confirmed = FALSE]
        <4>1. wk' \in WorkerRecords /\ wk'.pc = "synth" /\ wk'.req = wk.req /\ wk.req \in Nat
          BY <3>2, <1>1 DEF WorkerRecords, Preparing
        <4>2. cl' \in ClientRecords /\ cl'.pb = cl.pb /\ cl'.req = wk.req
          BY <3>2, <4>1, <1>1 DEF ClientRecords
        <4> QED BY <2>5, <4>1, <4>2
      <3> QED BY <2>1, <3>1, <3>2
    <2>4. Registered'
      BY <2>2 DEF Registered
    <2> QED BY <2>2, <2>4, <1>1, <1>2, ClearKeeps
  <1>4. CASE RejectSegment \/ ClearPlayback
    <2>1. /\ wk' = Left \/ wk' = [wk EXCEPT !.pc = "result"]
          /\ cl' = ClearActiveRequest(cl) /\ cl.req = wk.req
      BY <1>1, <1>4 DEF RejectSegment, ClearPlayback, Goto, Leave, Registered
    <2>4. cl' \in ClientRecords /\ cl'.pb = 0 /\ cl'.req = 0
      BY <2>1, <1>1 DEF ClientRecords, ClearActiveRequest
    <2>5. wk' \in WorkerRecords /\ wk'.pc \in Unregistered
      BY <2>1, <1>1, LeftRecord DEF WorkerRecords
    <2>2. /\ cl' \in ClientRecords /\ cl'.pb = 0 /\ cl'.req = 0
          /\ wk' \in WorkerRecords /\ wk'.pc \in Unregistered
      BY <2>4, <2>5
    <2>3. Registered'
      BY <2>2 DEF Registered
    <2> QED BY <2>2, <2>3, <1>1, <1>2, ClearKeeps
  <1> QED BY <1>3, <1>4

(* A new id: nobody has cancelled it, or counts calls for it.              *)
LEMMA CheckKeeps ==
    ASSUME PlaybackInv, CheckInterrupt
    PROVE  ClientInv'
  <1> USE DEF Unregistered, Preparing, Playing
  <1>1. /\ ClientInv /\ cl \in ClientRecords /\ wk \in WorkerRecords /\ Registered
        /\ wk.pc = "check" /\ SurroundingsOK
    BY DEF PlaybackInv, ClientInv, ClientTypeOK, CheckInterrupt, SurroundingsOK
  <1>2. UNCHANGED <<cl, cancel, caller, net, prompt>>
    BY DEF CheckInterrupt
  <1>3. CASE UNCHANGED heard /\ wk' = [wk EXCEPT !.pc = "reject"]
    <2>1. wk' \in WorkerRecords /\ wk'.pc = "reject" /\ Registered'
      BY <1>1, <1>2, <1>3 DEF WorkerRecords, Registered
    <2>2. SurroundingsOK'
      BY <1>1, <1>2 DEF SurroundingsOK
    <2> QED BY <1>1, <1>2, <1>3, <2>1, <2>2, MoveKeeps
  <1>4. ASSUME NEW i \in TtsIds, heard.gen[i] = 0,
               wk' = [wk EXCEPT !.pc = "register", !.pb = i],
               heard' = [heard EXCEPT !.gen[i] = wk.gen + 1]
        PROVE  ClientInv'
    <2>1. i \in Playbacks /\ i # 0
      BY DriverAssumption DEF TtsIds
    <2>2. /\ heard \in [gen : [Playbacks -> Nat], over : Nat, calls : [Playbacks -> Nat]]
          /\ cancel \in [Cancellers -> CancelRecords] /\ FreshIds /\ OneOwner /\ CallsCounted
      BY <1>1 DEF ClientInv, ClientTypeOK
    <2>3. wk' \in WorkerRecords /\ wk'.pc = "register" /\ wk'.pb = i /\ wk'.req = wk.req
      BY <1>1, <1>4, <2>1 DEF WorkerRecords
    <2>4. /\ heard' \in [gen : [Playbacks -> Nat], over : Nat, calls : [Playbacks -> Nat]]
          /\ heard'.calls = heard.calls /\ heard'.gen[i] > 0
          /\ \A j \in Playbacks : heard.gen[j] > 0 => heard'.gen[j] > 0
      BY <1>1, <1>4, <2>1, <2>2 DEF WorkerRecords
    <2>5. ClientTypeOK'
      BY <1>1, <1>2, <2>3, <2>4 DEF ClientInv, ClientTypeOK
    <2>6. Registered'
      BY <1>1, <1>2, <2>1, <2>3 DEF Registered
    <2>7. OneOwner'
      BY <1>2, <2>2 DEF OneOwner, Owner
    <2>8. FreshIds'
      <3>1. heard.calls[i] = 0
        BY <1>4, <2>1, <2>2 DEF FreshIds
      <3>2. \A t \in Cancellers : cancel[t].id # i
        BY <1>4, <2>1, <2>2 DEF FreshIds
      <3>3. \A t \in Cancellers : cancel[t].id \in Playbacks \cup {0}
        BY <2>2 DEF CancelRecords
      <3> QED BY <3>1, <3>2, <3>3, <1>1, <1>2, <2>2, <2>3, <2>4 DEF FreshIds, ClientRecords
    <2>9. CallsCounted'
      BY <1>2, <2>2, <2>4 DEF CallsCounted
    <2> QED BY <1>1, <1>2, <2>5, <2>6, <2>7, <2>8, <2>9 DEF ClientInv
  <1> QED BY <1>3, <1>4 DEF CheckInterrupt, Goto

(* RegisterPlayback, where no cancellation of the id can have begun.       *)
LEMMA RegisterKeeps ==
    ASSUME PlaybackInv, RegisterPlayback
    PROVE  ClientInv'
  <1> USE DEF Unregistered, Preparing, Playing
  <1>1. /\ ClientInv /\ cl \in ClientRecords /\ wk \in WorkerRecords /\ Registered
        /\ OneOwner /\ FreshIds /\ CallsCounted /\ wk.pc = "register"
    BY DEF PlaybackInv, ClientInv, ClientTypeOK, RegisterPlayback
  <1>2. UNCHANGED <<cancel, heard, caller, net, prompt>>
    BY DEF RegisterPlayback
  <1>3. CASE wk' = Left /\ cl' = [cl EXCEPT !.req = 0]
    <2>1. /\ cl' \in ClientRecords /\ cl'.pb = 0 /\ cl'.req = 0
          /\ wk' \in WorkerRecords /\ wk'.pc = "done"
      BY <1>1, <1>3, LeftRecord DEF ClientRecords, Registered
    <2>2. Registered'
      BY <2>1 DEF Registered
    <2> QED BY <2>1, <2>2, <1>1, <1>2, ClearKeeps
  <1>4. CASE /\ wk' = [wk EXCEPT !.pc = "submit"]
             /\ cl' = [cl EXCEPT !.pb = wk.pb, !.attempts = 0, !.flight = FALSE,
                                  !.confirmed = FALSE]
    <2>1. /\ cl' \in ClientRecords /\ cl'.pb = wk.pb /\ cl'.req = cl.req /\ cl'.attempts = 0
          /\ wk' \in WorkerRecords /\ wk'.pc = "submit" /\ wk'.pb = wk.pb /\ wk'.req = wk.req
      BY <1>1, <1>4 DEF ClientRecords, WorkerRecords
    <2>2. ClientTypeOK' /\ Registered'
      BY <2>1, <1>1, <1>2 DEF ClientInv, ClientTypeOK, Registered
    <2>3. OneOwner'
      BY <2>1, <1>1, <1>2 DEF OneOwner, Owner, FreshIds
    <2>4. FreshIds' /\ CallsCounted'
      BY <2>1, <1>1, <1>2 DEF FreshIds, CallsCounted
    <2> QED BY <1>1, <1>2, <2>2, <2>3, <2>4 DEF ClientInv
  <1> QED BY <1>3, <1>4 DEF RegisterPlayback, Goto, Leave

-----------------------------------------------------------------------------
(* A cancellation that begins, gives up, is answered or is over: thread t  *)
(* owns no call afterwards.                                                *)
LEMMA NoCallKeeps ==
    ASSUME ClientInv, NEW t \in Cancellers, NEW c \in CancelRecords,
           cancel' = [cancel EXCEPT ![t] = c],
           c.pc \in {"idle", "check", "over"}, c.pc = "check" => ~c.own /\ c.id # 0,
           c.id # 0 => heard.gen[c.id] > 0 /\ (wk.pc = "register" => c.id # wk.pb),
           SurroundingsOK', wk' \in WorkerRecords, Registered',
           wk'.pc = "register" => wk.pc = "register" /\ wk'.pb = wk.pb,
           cl' \in ClientRecords, cl'.req = cl.req, cl'.pb = cl.pb, cl'.attempts = cl.attempts,
           cl'.flight = cl.flight \/ (Owner(t) /\ cancel[t].id = cl.pb),
           heard' \in [gen : [Playbacks -> Nat], over : Nat, calls : [Playbacks -> Nat]],
           heard'.gen = heard.gen, heard'.calls = heard.calls
    PROVE  ClientInv'
  <1>1. /\ cancel \in [Cancellers -> CancelRecords] /\ OneOwner /\ FreshIds /\ CallsCounted
    BY DEF ClientInv, ClientTypeOK
  <1>2. cancel' \in [Cancellers -> CancelRecords] /\ cancel'[t] = c
        /\ \A u \in Cancellers \ {t} : cancel'[u] = cancel[u]
    BY <1>1
  <1>3. ClientTypeOK'
    BY <1>2 DEF ClientInv, ClientTypeOK, SurroundingsOK
  <1>4. OneOwner'
    <2>1. ~Owner(t)' /\ \A u \in Cancellers \ {t} : Owner(u)' <=> Owner(u)
      BY <1>2 DEF Owner, Begun
    <2>2. ASSUME NEW u \in Cancellers
          PROVE  /\ cancel'[u].pc \in Begun => cancel'[u].id # 0
                 /\ cancel'[u].pc \in {"rpc", "answer"} => cancel'[u].own
      BY <1>1, <1>2 DEF OneOwner, Begun
    <2>3. ASSUME NEW u \in Cancellers, Owner(u)', cancel'[u].id = cl'.pb
          PROVE  cl'.flight
      BY <1>1, <1>2, <2>1, <2>3 DEF OneOwner
    <2>4. ASSUME NEW u \in Cancellers, NEW v \in Cancellers, Owner(u)', Owner(v)',
                 cancel'[u].id = cancel'[v].id
          PROVE  u = v
      BY <1>1, <1>2, <2>1, <2>4 DEF OneOwner
    <2> QED BY <2>2, <2>3, <2>4 DEF OneOwner, Owner
  <1>5. FreshIds'
    <2>1. ASSUME NEW u \in Cancellers
          PROVE  /\ cancel'[u].id # 0 => heard'.gen[cancel'[u].id] > 0
                 /\ wk'.pc = "register" => cancel'[u].id # wk'.pb
      <3>1. CASE u = t
        <4>1. wk.pc = "register" => wk.pb # 0
          BY DEF ClientInv, Registered
        <4> QED BY <3>1, <4>1, <1>2
      <3>2. CASE u # t
        BY <3>2, <1>1, <1>2 DEF FreshIds
      <3> QED BY <3>1, <3>2
    <2>2. wk'.pc = "register" => heard'.gen[wk'.pb] > 0 /\ heard'.calls[wk'.pb] = 0
      BY <1>1 DEF FreshIds
    <2> QED BY <1>1, <2>1, <2>2 DEF FreshIds
  <1>6. CallsCounted'
    BY <1>1 DEF CallsCounted
  <1> QED BY <1>3, <1>4, <1>5, <1>6 DEF ClientInv, SurroundingsOK

(* The owner of the call in flight moves on and keeps it.                  *)
LEMMA OwnerKeeps ==
    ASSUME ClientInv, NEW t \in Cancellers, Owner(t), NEW c \in CancelRecords,
           cancel' = [cancel EXCEPT ![t] = c],
           c.pc \in Begun, c.own, c.id = cancel[t].id,
           UNCHANGED <<cl, wk, caller, net, prompt, heard>>
    PROVE  ClientInv'
  <1>1. /\ cancel \in [Cancellers -> CancelRecords] /\ OneOwner /\ FreshIds
    BY DEF ClientInv, ClientTypeOK
  <1>2. cancel' \in [Cancellers -> CancelRecords] /\ cancel'[t] = c
        /\ \A u \in Cancellers \ {t} : cancel'[u] = cancel[u]
    BY <1>1
  <1>3. ClientTypeOK'
    BY <1>2 DEF ClientInv, ClientTypeOK
  <1>4. OneOwner'
    <2>1. \A u \in Cancellers : (Owner(u)' <=> Owner(u)) /\ cancel'[u].id = cancel[u].id
      BY <1>2 DEF Owner, Begun
    <2>2. ASSUME NEW u \in Cancellers
          PROVE  /\ cancel'[u].pc \in Begun => cancel'[u].id # 0
                 /\ cancel'[u].pc \in {"rpc", "answer"} => cancel'[u].own
      BY <1>1, <1>2 DEF OneOwner, Begun, Owner
    <2>3. \A u \in Cancellers : Owner(u)' /\ cancel'[u].id = cl'.pb => cl'.flight
      BY <1>1, <2>1 DEF OneOwner
    <2>4. \A u, v \in Cancellers :
            Owner(u)' /\ Owner(v)' /\ cancel'[u].id = cancel'[v].id => u = v
      BY <1>1, <2>1 DEF OneOwner
    <2> QED BY <2>2, <2>3, <2>4 DEF OneOwner, Owner
  <1>5. FreshIds'
    BY <1>1, <1>2 DEF FreshIds
  <1> QED BY <1>3, <1>4, <1>5 DEF ClientInv, Registered, CallsCounted

(* RequestPlaybackCancellation sends a call: it owned the one in flight,   *)
(* or there was none.                                                      *)
LEMMA SendKeeps ==
    ASSUME ClientInv, NEW t \in Cancellers, cancel[t].pc = "check", ~Overtaken(t),
           cl.flight => cancel[t].own, cl.attempts < MaxAttempts,
           cl' = [cl EXCEPT !.flight = TRUE, !.attempts = @ + 1],
           cancel' = [cancel EXCEPT ![t].pc = "rpc", ![t].own = TRUE],
           heard' = [heard EXCEPT !.calls[cancel[t].id] = @ + 1],
           UNCHANGED <<wk, caller, net, prompt>>
    PROVE  ClientInv'
  <1> DEFINE i == cancel[t].id
  <1>1. /\ cancel \in [Cancellers -> CancelRecords] /\ OneOwner /\ FreshIds /\ CallsCounted
        /\ cl \in ClientRecords /\ Registered
        /\ heard \in [gen : [Playbacks -> Nat], over : Nat, calls : [Playbacks -> Nat]]
    BY DEF ClientInv, ClientTypeOK
  <1>2. i = cl.pb /\ i \in Playbacks /\ i # 0
    BY <1>1 DEF Overtaken, OneOwner, Begun, CancelRecords
  <1>3. /\ cancel' \in [Cancellers -> CancelRecords]
        /\ cancel'[t].pc = "rpc" /\ cancel'[t].own /\ cancel'[t].id = i
        /\ \A u \in Cancellers \ {t} : cancel'[u] = cancel[u]
    BY <1>1 DEF CancelRecords
  <1>4. /\ cl' \in ClientRecords /\ cl'.pb = cl.pb /\ cl'.req = cl.req /\ cl'.flight = TRUE
        /\ cl'.attempts = cl.attempts + 1
    <2>1. cl.attempts + 1 \in Nat
      BY <1>1 DEF ClientRecords
    <2>2. cl' \in ClientRecords
      BY <1>1, <2>1 DEF ClientRecords
    <2> QED BY <1>1, <2>2 DEF ClientRecords
  <1>5. /\ heard' \in [gen : [Playbacks -> Nat], over : Nat, calls : [Playbacks -> Nat]]
        /\ heard'.gen = heard.gen /\ heard'.calls[i] = heard.calls[i] + 1
        /\ \A j \in Playbacks \ {i} : heard'.calls[j] = heard.calls[j]
    BY <1>1, <1>2
  <1>6. ClientTypeOK' /\ Registered'
    BY <1>1, <1>3, <1>4, <1>5 DEF ClientInv, ClientTypeOK, Registered
  <1>7. OneOwner'
    <2>1. Owner(t)' /\ \A u \in Cancellers \ {t} : Owner(u)' <=> Owner(u)
      BY <1>3 DEF Owner, Begun
    <2>2. ASSUME NEW u \in Cancellers \ {t}, Owner(u)
          PROVE  cancel[u].id # i
      <3>1. ASSUME cancel[u].id = i PROVE FALSE
        <4>1. cl.flight /\ cancel[t].own
          BY <1>1, <1>2, <2>2, <3>1 DEF OneOwner
        <4>2. Owner(t)
          BY <4>1 DEF Owner, Begun
        <4> QED BY <1>1, <2>2, <3>1, <4>2 DEF OneOwner
      <3> QED BY <3>1
    <2>3. ASSUME NEW u \in Cancellers
          PROVE  /\ cancel'[u].pc \in Begun => cancel'[u].id # 0
                 /\ cancel'[u].pc \in {"rpc", "answer"} => cancel'[u].own
      BY <1>1, <1>2, <1>3 DEF OneOwner, Begun
    <2>4. ASSUME NEW u \in Cancellers, NEW v \in Cancellers, Owner(u)', Owner(v)',
                 cancel'[u].id = cancel'[v].id
          PROVE  u = v
      BY <1>1, <1>3, <2>1, <2>2, <2>4 DEF OneOwner
    <2> QED BY <1>4, <2>3, <2>4 DEF OneOwner, Owner
  <1>8. FreshIds'
    <2>1. heard.gen[i] > 0 /\ (wk.pc = "register" => wk.pb # i)
      BY <1>1, <1>2 DEF FreshIds
    <2>2. \A u \in Cancellers : cancel'[u].id = cancel[u].id
      BY <1>3
    <2>3. wk.pc = "register" => wk.pb \in Playbacks
      BY <1>1 DEF ClientInv, ClientTypeOK, WorkerRecords, Registered
    <2> QED BY <1>1, <1>4, <1>5, <2>1, <2>2, <2>3 DEF FreshIds
  <1>9. CallsCounted'
    BY <1>1, <1>2, <1>4, <1>5 DEF CallsCounted, MaxAttempts, ClientRecords
  <1> QED BY <1>6, <1>7, <1>8, <1>9 DEF ClientInv

(* RequestPlaybackCancellation in any of its threads.                      *)
LEMMA CancelStepKeeps ==
    ASSUME PlaybackInv, NEW t \in Cancellers, CancelStep(t)
    PROVE  ClientInv'
  <1>1. /\ ClientInv /\ cl \in ClientRecords /\ wk \in WorkerRecords /\ Registered /\ OneOwner
        /\ cancel \in [Cancellers -> CancelRecords] /\ SurroundingsOK /\ FreshIds
        /\ heard \in [gen : [Playbacks -> Nat], over : Nat, calls : [Playbacks -> Nat]]
    BY DEF PlaybackInv, ClientInv, ClientTypeOK, SurroundingsOK
  <1>2. UNCHANGED <<wk, caller, net, prompt>>
    BY DEF CancelStep, CancelCheck, CancelCall, CancelAnswer
  <1>3. cancel[t] \in CancelRecords /\ SurroundingsOK'
    BY <1>1, <1>2 DEF SurroundingsOK
  <1>4. ASSUME NEW answer \in BOOLEAN, CancelReturns(t, answer), UNCHANGED heard,
               cl' \in ClientRecords, cl'.req = cl.req, cl'.pb = cl.pb, cl'.attempts = cl.attempts,
               cl'.flight = cl.flight \/ (Owner(t) /\ cancel[t].id = cl.pb)
        PROVE  ClientInv'
    <2> DEFINE c == [cancel[t] EXCEPT !.pc = "over", !.ok = answer]
    <2>1. c \in CancelRecords /\ c.pc = "over" /\ c.id = cancel[t].id
      BY <1>3 DEF CancelRecords
    <2>2. cancel' = [cancel EXCEPT ![t] = c]
      BY <1>1, <1>4 DEF CancelReturns
    <2> HIDE DEF c
    <2>3. c.id # 0 => heard.gen[c.id] > 0 /\ (wk.pc = "register" => c.id # wk.pb)
      BY <2>1, <1>1 DEF FreshIds
    <2>4. Registered'
      BY <1>1, <1>2, <1>4 DEF Registered
    <2> QED BY <1>1, <1>2, <1>3, <1>4, <2>1, <2>2, <2>3, <2>4, NoCallKeeps
  <1>5. CASE CancelCheck(t)
    <2>1. CASE /\ CancelReturns(t, FALSE) \/ CancelReturns(t, TRUE)
               /\ UNCHANGED <<cl, heard>>
      BY <2>1, <1>1, <1>4
    <2>2. CASE /\ ~Overtaken(t) /\ (cl.flight => cancel[t].own) /\ ~(cl.attempts >= MaxAttempts)
               /\ cl' = [cl EXCEPT !.flight = TRUE, !.attempts = @ + 1]
               /\ cancel' = [cancel EXCEPT ![t].pc = "rpc", ![t].own = TRUE]
               /\ heard' = [heard EXCEPT !.calls[cancel[t].id] = @ + 1]
      <3>1. cancel[t].pc = "check" /\ cl.attempts < MaxAttempts
        BY <1>1, <1>5, <2>2 DEF CancelCheck, ClientRecords, MaxAttempts
      <3> QED BY <2>2, <3>1, <1>1, <1>2, SendKeeps
    <2> QED BY <1>5, <2>1, <2>2 DEF CancelCheck
  <1>6. CASE CancelCall(t)
    <2>1. PICK answer \in BOOLEAN : cancel' = [cancel EXCEPT ![t].pc = "answer", ![t].ok = answer]
      <3>1. CancelAccepted(cancel[t].id) \in BOOLEAN
        BY DEF CancelAccepted
      <3>2. {CancelAccepted(cancel[t].id)} \cup (IF Faulty THEN {FALSE} ELSE {}) \subseteq BOOLEAN
        BY <3>1
      <3>3. \/ \E heeded \in {CancelAccepted(cancel[t].id)} \cup (IF Faulty THEN {FALSE} ELSE {}) :
                 cancel' = [cancel EXCEPT ![t].pc = "answer", ![t].ok = heeded]
            \/ cancel' = [cancel EXCEPT ![t].pc = "answer", ![t].ok = FALSE]
        BY <1>6 DEF CancelCall
      <3> QED BY <3>2, <3>3, Zenon
    <2> DEFINE c == [cancel[t] EXCEPT !.pc = "answer", !.ok = answer]
    <2>2. c \in CancelRecords /\ c.pc = "answer" /\ c.id = cancel[t].id /\ c.own = cancel[t].own
      BY <1>3 DEF CancelRecords
    <2>3. cancel' = [cancel EXCEPT ![t] = c]
      BY <1>1, <2>1
    <2> HIDE DEF c
    <2>4. Owner(t) /\ UNCHANGED <<cl, heard>>
      BY <1>1, <1>6 DEF CancelCall, OneOwner, Owner, Begun
    <2>5. c.own /\ c.pc \in Begun
      BY <2>2, <2>4 DEF Owner, Begun
    <2> QED BY <1>1, <1>2, <2>2, <2>3, <2>4, <2>5, OwnerKeeps
  <1>7. CASE CancelAnswer(t)
    <2>1. cancel[t].pc = "answer" /\ Owner(t) /\ UNCHANGED heard
      BY <1>1, <1>7 DEF CancelAnswer, OneOwner, Owner, Begun
    <2>2. CASE Overtaken(t) /\ CancelReturns(t, FALSE) /\ UNCHANGED cl
      BY <2>1, <2>2, <1>1, <1>4
    <2>3. CASE /\ ~Overtaken(t) /\ CancelReturns(t, TRUE)
               /\ cl' = [cl EXCEPT !.confirmed = TRUE, !.flight = FALSE]
      <3>1. /\ cl' \in ClientRecords /\ cl'.req = cl.req /\ cl'.pb = cl.pb
            /\ cl'.attempts = cl.attempts
        BY <2>3, <1>1 DEF ClientRecords
      <3>2. cancel[t].id = cl.pb
        BY <2>3 DEF Overtaken
      <3> QED BY <2>1, <2>3, <3>1, <3>2, <1>4
    <2>4. CASE ~Overtaken(t) /\ CancelReturns(t, FALSE) /\ cl' = [cl EXCEPT !.flight = FALSE]
      <3>1. /\ cl' \in ClientRecords /\ cl'.req = cl.req /\ cl'.pb = cl.pb
            /\ cl'.attempts = cl.attempts
        BY <2>4, <1>1 DEF ClientRecords
      <3>2. cancel[t].id = cl.pb
        BY <2>4 DEF Overtaken
      <3> QED BY <2>1, <2>4, <3>1, <3>2, <1>4
    <2>5. CASE cancel' = [cancel EXCEPT ![t].pc = "check"] /\ UNCHANGED cl
      <3> DEFINE c == [cancel[t] EXCEPT !.pc = "check"]
      <3>1. c \in CancelRecords /\ c.pc = "check" /\ c.id = cancel[t].id /\ c.own = cancel[t].own
        BY <1>3 DEF CancelRecords
      <3>2. cancel' = [cancel EXCEPT ![t] = c]
        BY <1>1, <2>5
      <3> HIDE DEF c
      <3>3. c.own /\ c.pc \in Begun
        BY <3>1, <2>1 DEF Owner, Begun
      <3> QED BY <1>1, <1>2, <2>1, <2>5, <3>1, <3>2, <3>3, OwnerKeeps
    <2> QED BY <1>7, <2>2, <2>3, <2>4, <2>5 DEF CancelAnswer
  <1> QED BY <1>5, <1>6, <1>7 DEF CancelStep
-----------------------------------------------------------------------------
(* The worker begins a cancellation of its own, or takes its outcome.      *)
LEMMA WorkerCancelsKeep ==
    ASSUME PlaybackInv,
           AfterSubmit \/ EarlyCancelOver \/ WaitPlayback \/ ConfirmCancelOver
    PROVE  ClientInv'
  <1> USE DEF Unregistered, Preparing, Playing
  <1>1. /\ ClientInv /\ cl \in ClientRecords /\ wk \in WorkerRecords /\ Registered /\ FreshIds
        /\ cancel \in [Cancellers -> CancelRecords] /\ SurroundingsOK
        /\ heard \in [gen : [Playbacks -> Nat], over : Nat, calls : [Playbacks -> Nat]]
        /\ drv.results \in [Playbacks -> Statuses]
    BY DEF PlaybackInv, ClientInv, ClientTypeOK, SurroundingsOK, DriverInv, DriverRecords
  <1>2. UNCHANGED <<cl, caller, net, prompt, heard>>
    BY DEF AfterSubmit, EarlyCancelOver, WaitPlayback, ConfirmCancelOver
  <1>3. SurroundingsOK'
    BY <1>1, <1>2 DEF SurroundingsOK
  <1>4. "worker" \in Cancellers
    BY DEF Cancellers
  <1>5. /\ wk' \in WorkerRecords /\ wk'.pc \in Playing
        /\ wk.pc \in Playing /\ wk'.pb = wk.pb /\ wk'.req = wk.req
    <2>1. CASE AfterSubmit
      <3>1. CASE \E b \in BOOLEAN : wk' = [wk EXCEPT !.pc = "early", !.early = b]
        BY <2>1, <3>1, <1>1 DEF AfterSubmit, WorkerRecords
      <3>2. CASE wk' = [wk EXCEPT !.pc = "wait"]
        BY <2>1, <3>2, <1>1 DEF AfterSubmit, WorkerRecords
      <3> QED BY <2>1, <3>1, <3>2 DEF AfterSubmit, Goto
    <2>2. CASE EarlyCancelOver
      BY <2>2, <1>1 DEF EarlyCancelOver, Goto, WorkerRecords
    <2>3. CASE ConfirmCancelOver
      BY <2>3, <1>1 DEF ConfirmCancelOver, Goto, WorkerRecords
    <2>4. CASE WaitPlayback
      <3>1. wk.pc = "wait" /\ WaitAnswer(wk.pb) \in Statuses \cup {"not_found", "timeout"}
        BY <2>4, <1>1 DEF WaitPlayback, WaitAnswer, WorkerRecords, Registered, Statuses
      <3>2. \/ \E a \in Statuses \cup {"not_found", "timeout"} :
                 wk' = [wk EXCEPT !.pc = "clear", !.got = a]
            \/ \E b \in BOOLEAN : wk' = [wk EXCEPT !.pc = "confirm", !.unsure = b]
        BY <2>4, <3>1 DEF WaitPlayback
      <3>3. ASSUME NEW a \in Statuses \cup {"not_found", "timeout"},
                   wk' = [wk EXCEPT !.pc = "clear", !.got = a]
            PROVE  wk' \in WorkerRecords /\ wk'.pc = "clear" /\ wk'.pb = wk.pb /\ wk'.req = wk.req
        BY <3>3, <1>1 DEF WorkerRecords
      <3>4. ASSUME NEW b \in BOOLEAN, wk' = [wk EXCEPT !.pc = "confirm", !.unsure = b]
            PROVE  wk' \in WorkerRecords /\ wk'.pc = "confirm" /\ wk'.pb = wk.pb /\ wk'.req = wk.req
        BY <3>4, <1>1 DEF WorkerRecords
      <3> QED BY <3>1, <3>2, <3>3, <3>4
    <2> QED BY <2>1, <2>2, <2>3, <2>4
  <1>6. Registered' /\ wk'.pc # "register"
    BY <1>1, <1>2, <1>5 DEF Registered
  <1>7. CASE UNCHANGED cancel
    BY <1>1, <1>2, <1>3, <1>5, <1>6, <1>7, MoveKeeps
  <1> DEFINE begun == [IdleCancel EXCEPT !.pc = "check", !.id = wk.pb, !.whole = TRUE]
  <1>8. CASE cancel' = [cancel EXCEPT !["worker"] = begun]
    <2>1. /\ begun \in CancelRecords /\ begun.pc = "check" /\ ~begun.own
          /\ begun.id = wk.pb /\ wk.pb # 0 /\ wk.pb = cl.pb
      BY <1>1, <1>5 DEF IdleCancel, CancelRecords, WorkerRecords, Registered
    <2>2. heard.gen[wk.pb] > 0 /\ wk.pc # "register"
      BY <2>1, <1>1, <1>5 DEF FreshIds
    <2> HIDE DEF begun
    <2> QED BY <2>1, <2>2, <1>1, <1>2, <1>3, <1>4, <1>5, <1>6, <1>8, NoCallKeeps
  <1>9. CASE cancel' = [cancel EXCEPT !["worker"] = IdleCancel]
    <2>1. IdleCancel \in CancelRecords /\ IdleCancel.pc = "idle" /\ IdleCancel.id = 0
      BY DEF IdleCancel, CancelRecords
    <2> QED BY <2>1, <1>1, <1>2, <1>3, <1>4, <1>5, <1>6, <1>9, NoCallKeeps
  <1> QED BY <1>7, <1>8, <1>9 DEF AfterSubmit, EarlyCancelOver, WaitPlayback, ConfirmCancelOver

(* Interrupt and Stop.                                                     *)
LEMMA CallKeeps ==
    ASSUME PlaybackInv, NEW t \in {"interrupt", "stop"}, CallBegins(t) \/ CallStep(t) \/ StopFlag
    PROVE  ClientInv'
  <1>1. /\ ClientInv /\ cl \in ClientRecords /\ wk \in WorkerRecords /\ Registered /\ FreshIds
        /\ cancel \in [Cancellers -> CancelRecords] /\ SurroundingsOK
        /\ caller \in [{"interrupt", "stop"} -> CallerRecords]
        /\ heard \in [gen : [Playbacks -> Nat], over : Nat, calls : [Playbacks -> Nat]]
    BY DEF PlaybackInv, ClientInv, ClientTypeOK, SurroundingsOK
  <1>2. UNCHANGED <<wk, net, prompt>> /\ t \in Cancellers
    BY DEF CallBegins, CallStep, StopFlag, RaiseGeneration, ReadActive, CallReturns, Cancellers
  <1>3. CASE CallBegins(t)
    <2>1. caller' \in [{"interrupt", "stop"} -> CallerRecords]
      <3>1. PICK p \in {"flag", "gen"} :
              caller' = [caller EXCEPT ![t].pc = p, ![t].count = @ + 1]
        BY <1>3 DEF CallBegins
      <3>2. caller[t].count + 1 \in Nat
        BY <1>1 DEF CallerRecords
      <3> QED BY <1>1, <3>1, <3>2 DEF CallerRecords
    <2>2. \E b \in BOOLEAN : cl' = [cl EXCEPT !.token = b]
      BY <1>1, <1>3 DEF CallBegins, ClientRecords
    <2>3. /\ cl' \in ClientRecords /\ cl'.req = cl.req /\ cl'.pb = cl.pb
          /\ cl'.attempts = cl.attempts /\ cl'.flight = cl.flight
      BY <1>1, <2>2 DEF ClientRecords
    <2>4. SurroundingsOK' /\ Registered' /\ UNCHANGED <<cancel, heard>>
      BY <1>1, <1>2, <1>3, <2>1, <2>3 DEF SurroundingsOK, Registered, CallBegins
    <2> QED BY <1>1, <1>2, <2>3, <2>4, MoveKeeps
  <1>4. CASE StopFlag
    <2>1. caller' \in [{"interrupt", "stop"} -> CallerRecords]
      BY <1>1, <1>4 DEF StopFlag, CallerRecords
    <2>3. /\ cl' \in ClientRecords /\ cl'.req = cl.req /\ cl'.pb = cl.pb
          /\ cl'.attempts = cl.attempts /\ cl'.flight = cl.flight
      BY <1>1, <1>4 DEF StopFlag, ClientRecords
    <2>4. SurroundingsOK' /\ Registered' /\ UNCHANGED <<cancel, heard>>
      BY <1>1, <1>2, <1>4, <2>1, <2>3 DEF SurroundingsOK, Registered, StopFlag
    <2> QED BY <1>1, <1>2, <2>3, <2>4, MoveKeeps
  <1>5. CASE RaiseGeneration(t)
    <2>1. cl.gen + 1 \in Nat
      BY <1>1 DEF ClientRecords
    <2>2. caller' \in [{"interrupt", "stop"} -> CallerRecords]
      BY <1>1, <1>5, <2>1 DEF RaiseGeneration, CallerRecords
    <2>3. /\ cl' \in ClientRecords /\ cl'.req = cl.req /\ cl'.pb = cl.pb
          /\ cl'.attempts = cl.attempts /\ cl'.flight = cl.flight
      BY <1>1, <1>5, <2>1 DEF RaiseGeneration, ClientRecords
    <2>4. SurroundingsOK' /\ Registered' /\ UNCHANGED <<cancel, heard>>
      BY <1>1, <1>2, <1>5, <2>2, <2>3 DEF SurroundingsOK, Registered, RaiseGeneration
    <2> QED BY <1>1, <1>2, <2>3, <2>4, MoveKeeps
  <1>6. CASE ReadActive(t)
    <2>1. caller' \in [{"interrupt", "stop"} -> CallerRecords]
      BY <1>1, <1>6 DEF ReadActive, CallerRecords
    <2>2. PICK p \in {"over", "check"} :
            /\ p = "check" => cl.pb # 0
            /\ cancel' = [cancel EXCEPT ![t] = [IdleCancel EXCEPT !.pc = p, !.id = cl.pb]]
      BY <1>6 DEF ReadActive
    <2> DEFINE c == [IdleCancel EXCEPT !.pc = p, !.id = cl.pb]
    <2>3. c \in CancelRecords /\ c.pc = p /\ ~c.own /\ c.id = cl.pb
      BY <1>1, <2>2 DEF IdleCancel, CancelRecords, ClientRecords
    <2>4. SurroundingsOK' /\ Registered' /\ UNCHANGED <<cl, heard>>
      BY <1>1, <1>2, <1>6, <2>1 DEF SurroundingsOK, Registered, ReadActive
    <2>5. c.id # 0 => heard.gen[c.id] > 0 /\ (wk.pc = "register" => c.id # wk.pb)
      BY <1>1, <2>3 DEF FreshIds, Registered, Preparing
    <2>6. cancel' = [cancel EXCEPT ![t] = c]
      BY <2>2
    <2> HIDE DEF c
    <2> QED BY <1>1, <1>2, <2>2, <2>3, <2>4, <2>5, <2>6, NoCallKeeps
  <1>7. CASE CallReturns(t)
    <2>1. caller' \in [{"interrupt", "stop"} -> CallerRecords] /\ caller[t].gen \in Nat
      BY <1>1, <1>7 DEF CallReturns, CallerRecords
    <2>2. IdleCancel \in CancelRecords /\ IdleCancel.pc = "idle" /\ IdleCancel.id = 0
      BY DEF IdleCancel, CancelRecords
    <2>3. PICK g \in Nat : heard' = [heard EXCEPT !.over = g]
      BY <1>1, <1>7, <2>1 DEF CallReturns
    <2>4. /\ heard' \in [gen : [Playbacks -> Nat], over : Nat, calls : [Playbacks -> Nat]]
          /\ heard'.gen = heard.gen /\ heard'.calls = heard.calls
      BY <1>1, <2>3
    <2>5. /\ SurroundingsOK' /\ Registered' /\ UNCHANGED cl
          /\ cancel' = [cancel EXCEPT ![t] = IdleCancel]
      BY <1>1, <1>2, <1>7, <2>1 DEF SurroundingsOK, Registered, CallReturns
    <2> QED BY <1>1, <1>2, <2>2, <2>4, <2>5, NoCallKeeps
  <1> QED BY <1>3, <1>4, <1>5, <1>6, <1>7 DEF CallStep

(* The driver and the wake prompt player leave the client alone.           *)
LEMMA OthersKeep ==
    ASSUME PlaybackInv,
           \/ DriverStep \/ PromptPlay \/ PromptReply \/ PromptWait \/ PromptStop
           \/ \E i \in Playbacks : HandlePlay(i)
    PROVE  ClientInv'
  <1>1. /\ ClientInv /\ cl \in ClientRecords /\ wk \in WorkerRecords /\ Registered
        /\ SurroundingsOK
    BY DEF PlaybackInv, ClientInv, ClientTypeOK, SurroundingsOK
  <1>2. UNCHANGED <<cl, wk, cancel, caller, heard>>
    BY DEF DriverStep, PromptPlay, PromptReply, PromptWait, PromptStop, HandlePlay
  <1>3. SurroundingsOK'
    <2>1. CASE DriverStep
      BY <2>1, <1>1 DEF DriverStep, SurroundingsOK
    <2>2. CASE PromptPlay
      <3>1. PICK i \in PromptIds : /\ prompt' = [prompt EXCEPT !.pc = "reply", !.id = i]
                                   /\ net' = [net EXCEPT ![i] = "sent"]
        BY <2>2 DEF PromptPlay
      <3>2. i \in Playbacks /\ i # 0
        BY ClientAssumption, DriverAssumption
      <3> QED BY <3>1, <3>2, <1>1, <1>2 DEF SurroundingsOK
    <2>3. CASE PromptReply
      BY <2>3, <1>1 DEF PromptReply, SurroundingsOK
    <2>4. CASE PromptWait
      BY <2>4, <1>1 DEF PromptWait, SurroundingsOK
    <2>5. CASE PromptStop
      BY <2>5, <1>1 DEF PromptStop, SurroundingsOK
    <2>6. ASSUME NEW i \in Playbacks, HandlePlay(i) PROVE SurroundingsOK'
      BY <2>6, <1>1 DEF HandlePlay, SurroundingsOK
    <2> QED BY <2>1, <2>2, <2>3, <2>4, <2>5, <2>6
  <1>4. Registered'
    BY <1>1, <1>2 DEF Registered
  <1> QED BY <1>1, <1>2, <1>3, <1>4, MoveKeeps

-----------------------------------------------------------------------------
(* The driver's side of every step: its table stays consistent, and the    *)
(* step is one that the contract allows.                                   *)
LEMMA DriverSideKeeps ==
    ASSUME PlaybackInv, PlaybackNext
    PROVE  DriverInv(drv') /\ Contract!ContractNext
  <1>1. /\ DriverInv(drv) /\ cancel \in [Cancellers -> CancelRecords] /\ OneOwner
        /\ prompt.id \in Playbacks \cup {0} /\ (prompt.pc # "idle" => prompt.id # 0)
    BY DEF PlaybackInv, ClientInv, ClientTypeOK
  <1>2. CASE DriverStep
    BY <1>1, <1>2, StopKeeps, QuietStepsKeep, PlayNextKeeps, PlayEndsKeeps DEF DriverStep
  <1>3. CASE WorkerStep \/ TakeResponse \/ StopFlag \/ PromptPlay
    <2>1. UNCHANGED drv
      BY <1>3 DEF WorkerStep, TakeResponse, StopFlag, PromptPlay, FocusStatus, FocusPause,
           ReleaseFocus, LoadGeneration, EnterSegment, Synthesize, SynthesizeFallback,
           RejectSegment, CheckInterrupt, RegisterPlayback, SendPlay, PlayReply, AfterSubmit,
           EarlyCancelOver, WaitPlayback, ConfirmCancelOver, WaitAgain, ClearPlayback, SegmentDone
    <2> QED BY <1>1, <2>1, QuietStepsKeep
  <1>4. ASSUME NEW t \in {"interrupt", "stop"}, CallBegins(t) \/ CallStep(t)
        PROVE  DriverInv(drv') /\ Contract!ContractNext
    <2>1. UNCHANGED drv
      BY <1>4 DEF CallBegins, CallStep, RaiseGeneration, ReadActive, CallReturns
    <2> QED BY <1>1, <2>1, QuietStepsKeep
  <1>5. ASSUME NEW t \in Cancellers, CancelStep(t)
        PROVE  DriverInv(drv') /\ Contract!ContractNext
    <2>1. CASE UNCHANGED drv
      BY <1>1, <2>1, QuietStepsKeep
    <2>2. CASE CancelCall(t) /\ drv' = CancelEffect(cancel[t].id)
      <3>1. cancel[t].id \in Playbacks
        BY <1>1, <2>2 DEF CancelCall, OneOwner, Begun, CancelRecords
      <3> QED BY <1>1, <2>2, <3>1, CancelKeeps
    <2> QED BY <1>5, <2>1, <2>2 DEF CancelStep, CancelCheck, CancelCall, CancelAnswer
  <1>6. ASSUME NEW i \in Playbacks, HandlePlay(i)
        PROVE  DriverInv(drv') /\ Contract!ContractNext
    <2>1. CASE UNCHANGED drv
      BY <1>1, <2>1, QuietStepsKeep
    <2>2. CASE DriverAccepts(i) /\ drv' = DriverSubmit(i)
      BY <1>1, <2>2, SubmitKeeps
    <2> QED BY <1>6, <2>1, <2>2 DEF HandlePlay
  <1>7. CASE PromptReply \/ PromptWait \/ PromptStop
    <2>1. CASE UNCHANGED drv
      BY <1>1, <2>1, QuietStepsKeep
    <2>2. CASE drv' = CancelEffect(prompt.id) /\ prompt.id # 0
      BY <1>1, <2>2, CancelKeeps
    <2>3. CASE PromptReply
      BY <2>1, <2>2, <2>3, <1>1 DEF PromptReply
    <2>4. CASE PromptWait
      BY <2>1, <2>2, <2>4, <1>1 DEF PromptWait
    <2>5. CASE PromptStop
      BY <2>1, <2>2, <2>5, <1>1 DEF PromptStop
    <2> QED BY <1>7, <2>3, <2>4, <2>5
  <1> QED BY <1>2, <1>3, <1>4, <1>5, <1>6, <1>7 DEF PlaybackNext, PromptStep

LEMMA PlaybackInvHolds ==
    /\ AudioInit => PlaybackInv
    /\ PlaybackInv /\ [AudioNext]_audioVars => PlaybackInv'
  <1>1. ASSUME AudioInit PROVE PlaybackInv
    <2>1. DriverInv(drv)
      BY <1>1, DriverAssumption DEF AudioInit, PlaybackInit, DriverInit, DriverInv, DriverRecords,
            Statuses, FinalsMatch, QueueMatches, Members, Distinct, EndStates
    <2>2. ClientTypeOK
      <3>1. cl \in ClientRecords
        BY <1>1 DEF AudioInit, PlaybackInit, ClientRecords
      <3>2. wk \in WorkerRecords
        BY <1>1 DEF AudioInit, PlaybackInit, WorkerRecords, Statuses, Unregistered
      <3>3. /\ cancel \in [Cancellers -> CancelRecords]
            /\ caller \in [{"interrupt", "stop"} -> CallerRecords]
        BY <1>1 DEF AudioInit, PlaybackInit, IdleCancel, CancelRecords, CallerRecords
      <3>4. /\ net \in [Playbacks -> {"none", "sent", "accepted", "rejected", "read"}]
            /\ prompt \in [pc : {"idle", "reply", "wait"}, id : Playbacks \cup {0},
                            stopping : BOOLEAN]
            /\ heard \in [gen : [Playbacks -> Nat], over : Nat, calls : [Playbacks -> Nat]]
        BY <1>1 DEF AudioInit, PlaybackInit
      <3> QED BY <3>1, <3>2, <3>3, <3>4 DEF ClientTypeOK
    <2>3. Registered /\ OneOwner
      BY <1>1 DEF AudioInit, PlaybackInit, Registered, OneOwner, Owner, Begun, IdleCancel,
            Preparing, Playing
    <2>4. FreshIds /\ CallsCounted /\ (prompt.pc # "idle" => prompt.id # 0)
      BY <1>1 DEF AudioInit, PlaybackInit, FreshIds, CallsCounted, IdleCancel, MaxAttempts
    <2> QED BY <2>1, <2>2, <2>3, <2>4 DEF PlaybackInv, ClientInv
  <1>2. ASSUME PlaybackInv, PlaybackNext PROVE PlaybackInv'
    <2>1. DriverInv(drv')
      BY <1>2, DriverSideKeeps
    <2>2. ClientInv'
      <3>1. CASE WorkerStep \/ TakeResponse
        BY <1>2, <3>1, WorkerMovesKeep, ClearedKeep, CheckKeeps, RegisterKeeps, WorkerCancelsKeep
           DEF WorkerStep
      <3>2. ASSUME NEW t \in Cancellers, CancelStep(t) PROVE ClientInv'
        BY <1>2, <3>2, CancelStepKeeps
      <3>3. ASSUME NEW t \in {"interrupt", "stop"}, CallBegins(t) \/ CallStep(t) \/ StopFlag
            PROVE  ClientInv'
        BY <1>2, <3>3, CallKeeps
      <3>4. CASE \/ DriverStep \/ PromptPlay \/ PromptStep \/ PromptStop
                 \/ \E i \in Playbacks : HandlePlay(i)
        BY <1>2, <3>4, OthersKeep DEF PromptStep
      <3> QED BY <1>2, <3>1, <3>2, <3>3, <3>4 DEF PlaybackNext
    <2> QED BY <2>1, <2>2 DEF PlaybackInv
  <1>3. ASSUME PlaybackInv, UNCHANGED playbackVars PROVE PlaybackInv'
    BY <1>3 DEF playbackVars, PlaybackInv, ClientInv, ClientTypeOK, Registered, OneOwner, Owner,
          FreshIds, CallsCounted
  <1> QED BY <1>1, <1>2, <1>3 DEF AudioNext, audioVars

(* In every behaviour of the client, the prompt player and the driver,     *)
(* whatever calls fail or come late: the table of results and the queue    *)
(* agree, and a cancellation in flight has one owner.                      *)
THEOREM PlaybackInvariant == AudioSpec => []PlaybackInv
  BY PlaybackInvHolds, PTL DEF AudioSpec

(* final_result_ids_ holds exactly the ended results, each once and never  *)
(* more than the capacity; what is pending is queued or being played, once *)
(* (FinalizeLocked, Submit, Cancel, Stop and Run of audio_playback.cc).    *)
THEOREM ResultTableConsistent == AudioSpec => []TableConsistent
  <1>1. PlaybackInv => TableConsistent
    BY DEF PlaybackInv, DriverInv, FinalsMatch, QueueMatches, Distinct, TableConsistent
  <1> QED BY <1>1, PlaybackInvariant, PTL

(* At most two CancelPlayback calls are made for a playback, one after the *)
(* other, whichever of Interrupt, Stop and the worker ask for it           *)
(* (RequestPlaybackCancellation of audio_playback_client.cc).              *)
THEOREM CancellationSingleFlight == AudioSpec => []CancelIsSingleFlight
  <1>1. PlaybackInv => CancelIsSingleFlight
    BY DEF PlaybackInv, ClientInv, OneOwner, Owner, Begun, CallsCounted, CancelIsSingleFlight
  <1> QED BY <1>1, PlaybackInvariant, PTL

(* audio_playback.cc implements PlaybackContract: every step of the        *)
(* driver, under every client, is a step of the contract or leaves it      *)
(* alone.                                                                  *)
THEOREM DriverImplementsContract == AudioSpec => DriverKeepsContract
  <1>1. AudioInit => Contract!ContractInit
    BY DEF AudioInit, PlaybackInit, DriverInit, Contract!ContractInit
  <1>2. PlaybackInv /\ [AudioNext]_audioVars
          => [Contract!ContractNext]_<<drv.results, drv.active>>
    BY DriverSideKeeps DEF AudioNext, audioVars, playbackVars
  <1> QED BY <1>1, <1>2, PlaybackInvariant, PTL
          DEF AudioSpec, DriverKeepsContract, Contract!ContractSpec

-----------------------------------------------------------------------------
(* What Interrupt and the media focus promise while calls to the driver    *)
(* do not fail.                                                            *)

Sending == {"submit", "reply", "after", "early", "wait", "confirm", "again"}
Focused == {"segment", "enter", "result", "reject", "clear"} \cup Preparing \cup Sending

(* The only response the driver can have is the one the worker is in.      *)
InDriver == {"after", "early", "wait", "confirm", "again"}

OnlyTheWorkers ==
    \A i \in TtsIds :
        /\ net[i] \in {"sent", "accepted"} => wk.pb = i /\ wk.pc = "reply"
        /\ drv.results[i] = "pending" =>
             wk.pb = i /\ ((wk.pc = "reply" /\ net[i] = "accepted") \/ wk.pc \in InDriver)

WorkerUsesTts == wk.pc \in Playing \cup {"register"} => wk.pb \in TtsIds

FocusHeld == wk.pc \in Focused => cl.focus

FocusInv == OnlyTheWorkers /\ WorkerUsesTts /\ FocusHeld

-----------------------------------------------------------------------------
(* The driver's steps other than Submit leave nothing pending that was not *)
(* pending before.                                                         *)
LEMMA RememberPends ==
    ASSUME NEW d \in DriverRecords, NEW ids \in Seq(Playbacks), NEW s \in EndStates,
           NEW careful \in BOOLEAN, NEW i \in Playbacks,
           Remember(d, ids, s, careful).results[i] = "pending"
    PROVE  d.results[i] = "pending"
  BY DEF Remember, DriverRecords, EndStates

LEMMA PendingShrinks ==
    ASSUME DriverInv(drv), NEW j \in Playbacks, drv'.results[j] = "pending",
           \/ DriverStop \/ DriverJoin \/ PlayNext \/ PlayEnds \/ WorkerExits \/ UNCHANGED drv
           \/ \E i \in Playbacks : drv' = CancelEffect(i)
    PROVE  drv.results[j] = "pending"
  <1>1. drv \in DriverRecords /\ FinalsMatch(drv) /\ QueueMatches(drv)
    BY DEF DriverInv
  <1>2. CASE UNCHANGED drv \/ DriverJoin \/ PlayNext \/ WorkerExits
    BY <1>1, <1>2 DEF DriverJoin, PlayNext, WorkerExits, DriverRecords
  <1>3. ASSUME NEW i \in Playbacks, NEW s \in EndStates,
               FinalizeLocked(drv, i, s).results[j] = "pending"
        PROVE  drv.results[j] = "pending"
    <2>1. <<i>> \in Seq(Playbacks)
      OBVIOUS
    <2> QED BY <1>1, <1>3, <2>1, RememberPends DEF FinalizeLocked
  <1>4. CASE DriverStop
    <2> DEFINE e == Remember(drv, PendingOf(drv), "dropped", TRUE)
    <2>1. PendingOf(drv) \in Seq(Playbacks) /\ "dropped" \in EndStates
      <3>1. \A i \in Members(drv.queue) : drv.results[i] = "pending"
        BY <1>1 DEF QueueMatches
      <3>2. drv.queue \in Seq(Playbacks)
        BY <1>1 DEF DriverRecords
      <3>3. PendingOf(drv) = drv.queue
        BY <1>1, <3>1, <3>2, PendingOfQueue
      <3> QED BY <3>2, <3>3 DEF EndStates
    <2>2. e \in DriverRecords
      BY RememberQueue DEF SameButTable
    <2>3. PICK c \in BOOLEAN : drv' = [e EXCEPT !.stop = TRUE, !.queue = << >>, !.cancelled = c]
      BY <1>4 DEF DriverStop
    <2> HIDE DEF e
    <2>4. drv'.results = e.results
      BY <2>2, <2>3 DEF DriverRecords
    <2> QED BY <1>1, <2>1, <2>4, RememberPends DEF e
  <1>5. CASE PlayEnds
    <2>1. PICK s \in EndStates : drv' = [FinalizeLocked(drv, drv.active, s)
                                          EXCEPT !.active = 0, !.cancelled = FALSE]
      BY <1>5 DEF PlayEnds, EndStates
    <2>2. drv.active \in Playbacks
      BY <1>1, <1>5 DEF PlayEnds, DriverRecords
    <2> DEFINE e == FinalizeLocked(drv, drv.active, s)
    <2>3. e \in DriverRecords
      <3>1. drv.results[drv.active] = "pending"
        BY <1>1, <2>2, DriverAssumption DEF QueueMatches
      <3>2. SameButTable(drv, e)
        BY <1>1, <2>2, <3>1, FinalizePending
      <3> QED BY <3>2 DEF SameButTable
    <2> HIDE DEF e
    <2>4. drv' = [e EXCEPT !.active = 0, !.cancelled = FALSE]
      BY <2>1 DEF e
    <2>5. drv'.results = e.results
      BY <2>3, <2>4 DEF DriverRecords
    <2> QED BY <2>2, <2>5, <1>3 DEF e
  <1>6. ASSUME NEW i \in Playbacks, drv' = CancelEffect(i)
        PROVE  drv.results[j] = "pending"
    <2>1. "cancelled" \in EndStates /\ <<i>> \in Seq(Playbacks)
      BY DEF EndStates
    <2>2. CASE drv' = drv \/ drv' = [drv EXCEPT !.cancelled = TRUE]
      BY <1>1, <2>2 DEF DriverRecords
    <2>3. CASE drv' = Remember(drv, <<i>>, "cancelled", FALSE)
      BY <1>1, <2>1, <2>3, RememberPends
    <2>4. CASE /\ drv' = [FinalizeLocked(drv, i, "cancelled") EXCEPT !.queue = Erase(drv.queue, i)]
               /\ i \in Members(drv.queue)
      <3> DEFINE e == FinalizeLocked(drv, i, "cancelled")
      <3>1. e \in DriverRecords
        BY <1>1, <2>1, <2>4, FinalizePending DEF SameButTable, QueueMatches
      <3> HIDE DEF e
      <3>2. drv' = [e EXCEPT !.queue = Erase(drv.queue, i)]
        BY <2>4 DEF e
      <3>3. drv'.results = e.results
        BY <3>1, <3>2 DEF DriverRecords
      <3> QED BY <2>1, <3>3, <1>3 DEF e
    <2> QED BY <1>6, <2>2, <2>3, <2>4 DEF CancelEffect
  <1> QED BY <1>2, <1>4, <1>5, <1>6

(* What a step does to the results, in the terms of the client: only       *)
(* PlayPcm makes a playback pending, and it answers that it did.           *)
LEMMA ResultsStep ==
    ASSUME PlaybackInv, PlaybackNext, NEW j \in Playbacks,
           drv'.results[j] = "pending", drv.results[j] # "pending"
    PROVE  HandlePlay(j) /\ net[j] = "sent" /\ net'[j] = "accepted"
  <1>1. /\ DriverInv(drv) /\ cancel \in [Cancellers -> CancelRecords] /\ OneOwner
        /\ prompt.id \in Playbacks \cup {0} /\ (prompt.pc # "idle" => prompt.id # 0)
        /\ net \in [Playbacks -> {"none", "sent", "accepted", "rejected", "read"}]
        /\ drv \in DriverRecords
    BY DEF PlaybackInv, ClientInv, ClientTypeOK, DriverInv
  <1>2. CASE DriverStep
    BY <1>1, <1>2, PendingShrinks DEF DriverStep
  <1>3. CASE WorkerStep \/ TakeResponse \/ StopFlag \/ PromptPlay
    <2>1. UNCHANGED drv
      BY <1>3 DEF WorkerStep, TakeResponse, StopFlag, PromptPlay, FocusStatus, FocusPause,
           ReleaseFocus, LoadGeneration, EnterSegment, Synthesize, SynthesizeFallback,
           RejectSegment, CheckInterrupt, RegisterPlayback, SendPlay, PlayReply, AfterSubmit,
           EarlyCancelOver, WaitPlayback, ConfirmCancelOver, WaitAgain, ClearPlayback, SegmentDone
    <2> QED BY <1>1, <2>1, PendingShrinks
  <1>4. ASSUME NEW t \in {"interrupt", "stop"}, CallBegins(t) \/ CallStep(t)
        PROVE  FALSE
    <2>1. UNCHANGED drv
      BY <1>4 DEF CallBegins, CallStep, RaiseGeneration, ReadActive, CallReturns
    <2> QED BY <1>1, <2>1, PendingShrinks
  <1>5. ASSUME NEW t \in Cancellers, CancelStep(t)
        PROVE  FALSE
    <2>1. CASE UNCHANGED drv
      BY <1>1, <2>1, PendingShrinks
    <2>2. CASE CancelCall(t) /\ drv' = CancelEffect(cancel[t].id)
      <3>1. cancel[t].id \in Playbacks
        BY <1>1, <2>2 DEF CancelCall, OneOwner, Begun, CancelRecords
      <3> QED BY <1>1, <2>2, <3>1, PendingShrinks
    <2> QED BY <1>5, <2>1, <2>2 DEF CancelStep, CancelCheck, CancelCall, CancelAnswer
  <1>6. ASSUME NEW i \in Playbacks, HandlePlay(i)
        PROVE  HandlePlay(j) /\ net[j] = "sent" /\ net'[j] = "accepted"
    <2>1. DriverAccepts(i) /\ drv' = DriverSubmit(i)
      BY <1>1, <1>6, PendingShrinks DEF HandlePlay
    <2>2. drv'.results = [drv.results EXCEPT ![i] = "pending"]
      BY <1>1, <2>1 DEF DriverSubmit, DriverRecords
    <2>3. i = j
      BY <1>1, <2>2 DEF DriverRecords
    <2> QED BY <1>1, <1>6, <2>1, <2>3 DEF HandlePlay
  <1>7. CASE PromptReply \/ PromptWait \/ PromptStop
    <2>1. CASE UNCHANGED drv
      BY <1>1, <2>1, PendingShrinks
    <2>2. CASE drv' = CancelEffect(prompt.id) /\ prompt.id # 0
      BY <1>1, <2>2, PendingShrinks
    <2>3. CASE PromptReply
      BY <2>1, <2>2, <2>3, <1>1 DEF PromptReply
    <2>4. CASE PromptWait
      BY <2>1, <2>2, <2>4, <1>1 DEF PromptWait
    <2>5. CASE PromptStop
      BY <2>1, <2>2, <2>5, <1>1 DEF PromptStop
    <2> QED BY <1>7, <2>3, <2>4, <2>5
  <1> QED BY <1>2, <1>3, <1>4, <1>5, <1>6, <1>7 DEF PlaybackNext, PromptStep

-----------------------------------------------------------------------------
(* FocusInv in the steps of the worker.  While nothing of it is at the     *)
(* driver, the worker may go anywhere.                                     *)
LEMMA AtRestKeeps ==
    ASSUME OnlyTheWorkers, wk.pc \notin InDriver \cup {"reply"}, UNCHANGED <<drv, net>>
    PROVE  OnlyTheWorkers'
  BY DEF OnlyTheWorkers

LEMMA FocusWorkerSteps ==
    ASSUME PlaybackInv, FocusInv, ~Faulty, WorkerStep \/ TakeResponse
    PROVE  FocusInv'
  <1> USE DEF InDriver, Focused, Sending, Playing, Preparing
  <1>1. /\ OnlyTheWorkers /\ WorkerUsesTts /\ FocusHeld
        /\ cl \in ClientRecords /\ wk \in WorkerRecords /\ Registered
        /\ net \in [Playbacks -> {"none", "sent", "accepted", "rejected", "read"}]
        /\ TtsIds \subseteq Playbacks
    BY DEF FocusInv, PlaybackInv, ClientInv, ClientTypeOK, TtsIds
  <1>2. UNCHANGED drv
    BY DEF WorkerStep, TakeResponse, FocusStatus, FocusPause,
           ReleaseFocus, LoadGeneration, EnterSegment, Synthesize, SynthesizeFallback,
           RejectSegment, CheckInterrupt, RegisterPlayback, SendPlay, PlayReply, AfterSubmit,
           EarlyCancelOver, WaitPlayback, ConfirmCancelOver, WaitAgain, ClearPlayback, SegmentDone
  <1>3. CASE TakeResponse
    <2>1. wk'.pc = "focus"
      BY <1>1, <1>3 DEF TakeResponse, WorkerRecords
    <2> QED BY <1>1, <1>3, <2>1, AtRestKeeps
            DEF TakeResponse, FocusInv, WorkerUsesTts, FocusHeld
  <1>4. CASE FocusStatus \/ FocusPause
    <2>1. /\ wk.pc \in {"focus", "pause"} /\ UNCHANGED net
          /\ \/ wk'.pc \in {"done", "pause"}
             \/ wk'.pc = "segment" /\ cl'.focus
      BY <1>1, <1>4, LeftRecord DEF FocusStatus, FocusPause, Goto, Leave, WorkerRecords, ClientRecords
    <2> QED BY <1>1, <1>2, <2>1, AtRestKeeps DEF FocusInv, WorkerUsesTts, FocusHeld
  <1>5. CASE ReleaseFocus
    <2>1. wk'.pc = "idle"
      BY <1>1, <1>5 DEF ReleaseFocus, Goto, WorkerRecords
    <2> QED BY <1>1, <1>2, <1>5, <2>1, AtRestKeeps
            DEF ReleaseFocus, FocusInv, WorkerUsesTts, FocusHeld
  <1>6. CASE LoadGeneration \/ Synthesize \/ SynthesizeFallback
    <2>1. /\ wk'.pc \in {"enter", "check", "reject", "fallback"} /\ UNCHANGED <<net, cl>>
          /\ wk.pc \in {"segment", "synth", "fallback"}
      BY <1>1, <1>6 DEF LoadGeneration, Synthesize, SynthesizeFallback, Goto, WorkerRecords,
            SynthesisResults
    <2> QED BY <1>1, <1>2, <2>1, AtRestKeeps DEF FocusInv, WorkerUsesTts, FocusHeld
  <1>7. CASE EnterSegment
    <2>1. /\ wk.pc = "enter" /\ UNCHANGED net
          /\ wk'.pc = "done" \/ (wk'.pc = "synth" /\ cl'.focus = cl.focus)
      BY <1>1, <1>7, LeftRecord DEF EnterSegment, Goto, Leave, WorkerRecords, ClientRecords
    <2> QED BY <1>1, <1>2, <2>1, AtRestKeeps DEF FocusInv, WorkerUsesTts, FocusHeld
  <1>8. CASE RejectSegment
    <2>1. wk.pc = "reject" /\ UNCHANGED net /\ wk'.pc = "done"
      BY <1>1, <1>8, LeftRecord DEF RejectSegment, Leave
    <2> QED BY <1>1, <1>2, <2>1, AtRestKeeps DEF FocusInv, WorkerUsesTts, FocusHeld
  <1>9. CASE CheckInterrupt
    <2>1. /\ wk.pc = "check" /\ UNCHANGED <<net, cl>>
          /\ wk'.pc = "reject" \/ (wk'.pc = "register" /\ wk'.pb \in TtsIds)
      BY <1>1, <1>9 DEF CheckInterrupt, Goto, WorkerRecords
    <2> QED BY <1>1, <1>2, <2>1, AtRestKeeps DEF FocusInv, WorkerUsesTts, FocusHeld
  <1>10. CASE RegisterPlayback
    <2>1. /\ wk.pc = "register" /\ UNCHANGED net
          /\ \/ wk'.pc = "done"
             \/ wk'.pc = "submit" /\ wk'.pb = wk.pb /\ cl'.focus = cl.focus
      BY <1>1, <1>10, LeftRecord DEF RegisterPlayback, Goto, Leave, WorkerRecords, ClientRecords
    <2> QED BY <1>1, <1>2, <2>1, AtRestKeeps DEF FocusInv, WorkerUsesTts, FocusHeld
  <1>11. CASE SendPlay
    <2>1. /\ wk.pc = "submit" /\ UNCHANGED cl /\ wk'.pc = "reply" /\ wk'.pb = wk.pb
          /\ \A i \in Playbacks : i # wk.pb => net'[i] = net[i]
      BY <1>1, <1>11 DEF SendPlay, Goto, WorkerRecords
    <2>2. OnlyTheWorkers'
      BY <1>1, <1>2, <2>1 DEF OnlyTheWorkers
    <2> QED BY <1>1, <2>1, <2>2 DEF FocusInv, WorkerUsesTts, FocusHeld
  <1>12. CASE PlayReply
    <2>1. /\ wk.pc = "reply" /\ UNCHANGED cl /\ wk'.pb = wk.pb
          /\ \/ net[wk.pb] = "accepted" /\ wk'.pc = "after"
             \/ net[wk.pb] = "rejected" /\ wk'.pc = "reject"
          /\ net'[wk.pb] = "read" /\ \A i \in Playbacks : i # wk.pb => net'[i] = net[i]
      BY <1>1, <1>12 DEF PlayReply, Goto, WorkerRecords, WorkerUsesTts
    <2>2. OnlyTheWorkers'
      BY <1>1, <1>2, <2>1 DEF OnlyTheWorkers
    <2> QED BY <1>1, <2>1, <2>2 DEF FocusInv, WorkerUsesTts, FocusHeld
  <1>13. CASE AfterSubmit \/ EarlyCancelOver \/ ConfirmCancelOver
    <2>1. /\ wk.pc \in InDriver /\ UNCHANGED <<net, cl>> /\ wk'.pc \in InDriver /\ wk'.pb = wk.pb
      BY <1>1, <1>13 DEF AfterSubmit, EarlyCancelOver, ConfirmCancelOver, Goto, WorkerRecords
    <2>2. OnlyTheWorkers'
      BY <1>1, <1>2, <2>1 DEF OnlyTheWorkers
    <2> QED BY <1>1, <2>1, <2>2 DEF FocusInv, WorkerUsesTts, FocusHeld
  <1>14. CASE WaitPlayback \/ WaitAgain
    <2>1. /\ wk.pc \in InDriver /\ UNCHANGED <<net, cl>> /\ wk'.pb = wk.pb
          /\ \/ wk'.pc \in InDriver
             \/ wk'.pc = "clear" /\ WaitAnswer(wk.pb) # "timeout"
      BY <1>1, <1>14 DEF WaitPlayback, WaitAgain, WorkerRecords
    <2>2. wk'.pc = "clear" => drv.results[wk.pb] # "pending"
      BY <2>1 DEF WaitAnswer
    <2>3. OnlyTheWorkers'
      BY <1>1, <1>2, <2>1, <2>2 DEF OnlyTheWorkers
    <2> QED BY <1>1, <2>1, <2>3 DEF FocusInv, WorkerUsesTts, FocusHeld
  <1>15. CASE ClearPlayback
    <2>1. wk.pc = "clear" /\ UNCHANGED net /\ wk'.pc = "result" /\ cl'.focus = cl.focus
      BY <1>1, <1>15 DEF ClearPlayback, ClearActiveRequest, Goto, WorkerRecords, ClientRecords
    <2> QED BY <1>1, <1>2, <2>1, AtRestKeeps DEF FocusInv, WorkerUsesTts, FocusHeld
  <1>16. CASE SegmentDone
    <2>1. wk.pc = "result" /\ UNCHANGED <<net, cl>> /\ wk'.pc \in {"segment", "done"}
      BY <1>1, <1>16, LeftRecord DEF SegmentDone, WorkerRecords
    <2> QED BY <1>1, <1>2, <2>1, AtRestKeeps DEF FocusInv, WorkerUsesTts, FocusHeld
  <1> QED BY <1>3, <1>4, <1>5, <1>6, <1>7, <1>8, <1>9, <1>10, <1>11, <1>12, <1>13, <1>14,
             <1>15, <1>16 DEF WorkerStep

(* The other steps: the driver answers, or a playback stops being pending. *)
LEMMA FocusOtherSteps ==
    ASSUME PlaybackInv, FocusInv, PlaybackNext, UNCHANGED wk, cl'.focus = cl.focus,
           \A i \in TtsIds : net'[i] = net[i] \/ HandlePlay(i)
    PROVE  FocusInv'
  <1>1. /\ OnlyTheWorkers /\ WorkerUsesTts /\ FocusHeld /\ TtsIds \subseteq Playbacks
        /\ net \in [Playbacks -> {"none", "sent", "accepted", "rejected", "read"}]
        /\ drv.results \in [Playbacks -> Statuses]
    BY DEF FocusInv, TtsIds, PlaybackInv, ClientInv, ClientTypeOK, DriverInv, DriverRecords
  <1>2. OnlyTheWorkers'
    <2>1. ASSUME NEW i \in TtsIds, HandlePlay(i)
          PROVE  /\ wk.pb = i /\ wk.pc = "reply" /\ net'[i] \in {"accepted", "rejected"}
                 /\ drv'.results[i] = "pending" => net'[i] = "accepted"
      <3>1. net[i] = "sent" /\ i \in Playbacks
        BY <1>1, <2>1 DEF HandlePlay
      <3>2. wk.pb = i /\ wk.pc = "reply" /\ drv.results[i] # "pending"
        BY <1>1, <3>1 DEF OnlyTheWorkers, InDriver
      <3>3. drv'.results[i] = "pending" => net'[i] = "accepted"
        BY <3>1, <3>2, ResultsStep
      <3> QED BY <1>1, <2>1, <3>1, <3>2, <3>3 DEF HandlePlay
    <2>2. ASSUME NEW i \in TtsIds, net'[i] = net[i]
          PROVE  drv'.results[i] = "pending" => drv.results[i] = "pending"
      BY <1>1, <2>2, ResultsStep
    <2> QED BY <1>1, <2>1, <2>2 DEF OnlyTheWorkers
  <1> QED BY <1>1, <1>2 DEF FocusInv, WorkerUsesTts, FocusHeld

LEMMA FocusInvHolds ==
    /\ AudioInit => (~Faulty => FocusInv)
    /\ PlaybackInv /\ (~Faulty => FocusInv) /\ [AudioNext]_audioVars => (~Faulty => FocusInv)'
  <1>1. ASSUME AudioInit PROVE FocusInv
    BY <1>1 DEF AudioInit, PlaybackInit, DriverInit, FocusInv, OnlyTheWorkers, WorkerUsesTts,
          FocusHeld, TtsIds, Focused, Sending, Playing, Preparing
  <1>2. ASSUME PlaybackInv, FocusInv, ~Faulty, PlaybackNext PROVE FocusInv'
    <2>1. CASE WorkerStep \/ TakeResponse
      BY <1>2, <2>1, FocusWorkerSteps
    <2>2. /\ net \in [Playbacks -> {"none", "sent", "accepted", "rejected", "read"}]
          /\ cl \in ClientRecords /\ TtsIds \subseteq Playbacks /\ TtsIds \cap PromptIds = {}
      BY <1>2 DEF PlaybackInv, ClientInv, ClientTypeOK, TtsIds
    <2>3. ASSUME NEW t \in Cancellers, CancelStep(t)
          PROVE  UNCHANGED <<wk, net>> /\ cl'.focus = cl.focus
      BY <2>2, <2>3 DEF CancelStep, CancelCheck, CancelCall, CancelAnswer, ClientRecords
    <2>4. ASSUME NEW t \in {"interrupt", "stop"}, CallBegins(t) \/ CallStep(t) \/ StopFlag
          PROVE  UNCHANGED <<wk, net>> /\ cl'.focus = cl.focus
      BY <2>2, <2>4 DEF CallBegins, CallStep, StopFlag, RaiseGeneration, ReadActive, CallReturns,
            ClientRecords
    <2>5. CASE DriverStep \/ PromptStep \/ PromptStop
      BY <1>2, <2>5, FocusOtherSteps DEF DriverStep, PromptStep, PromptReply, PromptWait, PromptStop
    <2>6. CASE PromptPlay
      <3>1. UNCHANGED <<wk, cl>> /\ \A i \in TtsIds : net'[i] = net[i]
        BY <2>2, <2>6 DEF PromptPlay
      <3> QED BY <1>2, <3>1, FocusOtherSteps
    <2>7. ASSUME NEW i \in Playbacks, HandlePlay(i) PROVE FocusInv'
      <3>1. UNCHANGED <<wk, cl>> /\ \A j \in TtsIds : net'[j] = net[j] \/ HandlePlay(j)
        BY <2>2, <2>7 DEF HandlePlay
      <3> QED BY <1>2, <3>1, FocusOtherSteps
    <2> QED BY <1>2, <2>1, <2>3, <2>4, <2>5, <2>6, <2>7, FocusOtherSteps DEF PlaybackNext
  <1>3. ASSUME FocusInv, UNCHANGED playbackVars PROVE FocusInv'
    BY <1>3 DEF playbackVars, FocusInv, OnlyTheWorkers, WorkerUsesTts, FocusHeld
  <1>4. [AudioNext]_audioVars => (Faulty' <=> Faulty)
    BY DEF AudioNext, audioVars, Faulty, Use
  <1> QED BY <1>1, <1>2, <1>3, <1>4 DEF AudioNext, audioVars

(* While a response is heard its media focus is held: ReleaseTts comes     *)
(* after a terminal result, unless calls fail (SubmitCancellable of        *)
(* audio_playback_client.cc and the lease of its focus controller).        *)
THEOREM SpeechHasFocus == AudioSpec => []FocusCoversSpeech
  <1>1. PlaybackInv /\ (~Faulty => FocusInv) => FocusCoversSpeech
    <2> SUFFICES ASSUME PlaybackInv, FocusInv, drv.active \in Playbacks \ PromptIds
                 PROVE  cl.focus
      BY DEF FocusCoversSpeech
    <2>1. drv.active \in TtsIds /\ drv.results[drv.active] = "pending"
      BY DriverAssumption DEF TtsIds, PlaybackInv, DriverInv, QueueMatches
    <2> QED BY <2>1 DEF FocusInv, OnlyTheWorkers, FocusHeld, Focused, Sending, InDriver
  <1>2. AudioSpec => [](~Faulty => FocusInv)
    BY FocusInvHolds, PlaybackInvariant, PTL DEF AudioSpec
  <1> QED BY <1>1, <1>2, PlaybackInvariant, PTL

-----------------------------------------------------------------------------
(* Playback i is not heard, and will not be.                               *)
Silenced(i) == drv.results[i] \in EndStates \/ (i = drv.active /\ drv.cancelled)

Callers == {"interrupt", "stop"}

Generations ==
    /\ wk.gen <= cl.gen /\ heard.over <= cl.gen
    /\ \A t \in Callers : caller[t].gen <= cl.gen
    /\ wk.pc \in Sending \cup {"register"} => heard.gen[wk.pb] = wk.gen + 1

(* Who can be in RequestPlaybackCancellation.                              *)
CancelPlaces ==
    /\ \A t \in Callers : cancel[t].pc # "idle" => caller[t].pc = "cancel" /\ ~cancel[t].whole
    /\ cancel["worker"].pc # "idle" => wk.pc \in {"early", "confirm"}

(* A cancellation that was sent has silenced its playback, or is still at  *)
(* the driver.                                                             *)
AttemptsCount ==
    /\ \A t \in Cancellers : Owner(t) /\ cancel[t].id = cl.pb => cl.attempts > 0
    /\ cl.pb # 0 /\ cl.confirmed => Silenced(cl.pb)
    /\ cl.pb # 0 /\ cl.attempts > 0 =>
         \/ Silenced(cl.pb)
         \/ \E u \in Cancellers : cancel[u].pc = "rpc" /\ cancel[u].id = cl.pb

(* A call that raised the generation has silenced the playback that was    *)
(* begun before it, or is about to.                                        *)
CallsSilence ==
    wk.pc \in Sending =>
        /\ \A t \in Callers :
             caller[t].pc = "cancel" /\ wk.gen < caller[t].gen =>
               \/ Silenced(wk.pb)
               \/ cancel[t].pc \in Begun /\ cancel[t].id = wk.pb
        /\ wk.gen < heard.over => Silenced(wk.pb)

InterruptInv == Generations /\ CancelPlaces /\ AttemptsCount /\ CallsSilence

(* The driver remembers a result for as long as it matters.  kResultCapacity *)
(* bounds the table, so a behaviour long enough forgets.                    *)
Remembers ==
    \A i \in Playbacks : drv.results[i] \in EndStates => drv'.results[i] = drv.results[i]

NothingForgotten == [][Remembers]_drv

-----------------------------------------------------------------------------
(* Cancel silences, and what is silenced stays so.                         *)
LEMMA CancelSilences ==
    ASSUME DriverInv(drv), NEW i \in Playbacks, drv' = CancelEffect(i)
    PROVE  Silenced(i)'
  <1>1. drv \in DriverRecords /\ FinalsMatch(drv) /\ QueueMatches(drv)
    BY DEF DriverInv
  <1>2. CASE drv.results[i] \in EndStates
    BY <1>2 DEF CancelEffect, Silenced
  <1>3. CASE drv.results[i] \notin EndStates /\ i = drv.active
    <2>1. drv' = [drv EXCEPT !.cancelled = TRUE]
      BY <1>3 DEF CancelEffect
    <2>2. drv'.active = drv.active /\ drv'.cancelled
      BY <1>1, <2>1 DEF DriverRecords
    <2> QED BY <1>3, <2>2 DEF Silenced
  <1>4. CASE drv.results[i] \notin EndStates /\ i # drv.active /\ i \in Members(drv.queue)
    <2> DEFINE e == FinalizeLocked(drv, i, "cancelled")
    <2>1. drv.results[i] = "pending" /\ "cancelled" \in EndStates
      BY <1>1, <1>4 DEF QueueMatches, EndStates
    <2>2. EndsAs(drv, e, {i}, "cancelled") /\ SameButTable(drv, e)
      BY <1>1, <2>1, FinalizePending
    <2> HIDE DEF e
    <2>3. drv' = [e EXCEPT !.queue = Erase(drv.queue, i)]
      BY <1>4 DEF CancelEffect, e
    <2>4. drv'.results = e.results
      BY <2>2, <2>3 DEF SameButTable, DriverRecords
    <2> QED BY <2>1, <2>2, <2>4 DEF Silenced, EndsAs
  <1>5. CASE drv.results[i] \notin EndStates /\ i # drv.active /\ i \notin Members(drv.queue)
    <2>1. "cancelled" \in EndStates
      BY DEF EndStates
    <2>2. EndsAs(drv, Remember(drv, <<i>>, "cancelled", FALSE), {i}, "cancelled")
      BY <1>1, <1>5, <2>1, RememberOne
    <2> QED BY <1>5, <2>1, <2>2 DEF CancelEffect, Silenced, EndsAs
  <1> QED BY <1>2, <1>3, <1>4, <1>5

LEMMA SilencedByDriver ==
    ASSUME DriverInv(drv), NEW i \in Playbacks, Silenced(i), Remembers,
           \/ DriverStop \/ DriverJoin \/ PlayNext \/ PlayEnds \/ WorkerExits \/ UNCHANGED drv
           \/ \E j \in Playbacks : drv' = CancelEffect(j) \/ drv' = DriverSubmit(j)
    PROVE  Silenced(i)'
  <1>1. drv \in DriverRecords /\ FinalsMatch(drv) /\ QueueMatches(drv)
    BY DEF DriverInv
  <1>2. CASE drv.results[i] \in EndStates
    BY <1>2 DEF Silenced, Remembers
  <1>3. CASE drv.results[i] \notin EndStates
    <2>1. i = drv.active /\ drv.cancelled /\ i # 0 /\ drv.results[i] = "pending"
      BY <1>1, <1>3, DriverAssumption DEF Silenced, QueueMatches
    <2>2. CASE UNCHANGED drv \/ DriverJoin \/ WorkerExits
      BY <1>1, <2>1, <2>2 DEF Silenced, DriverJoin, WorkerExits, DriverRecords
    <2>3. CASE PlayNext
      BY <2>1, <2>3 DEF PlayNext
    <2>4. CASE DriverStop
      <3> DEFINE e == Remember(drv, PendingOf(drv), "dropped", TRUE)
      <3>1. SameButTable(drv, e)
        BY RememberQueue
      <3>2. drv' = [e EXCEPT !.stop = TRUE, !.queue = << >>, !.cancelled = drv.active # 0]
        BY <2>4 DEF DriverStop
      <3> HIDE DEF e
      <3>3. drv'.active = drv.active /\ drv'.cancelled = (drv.active # 0)
        BY <3>1, <3>2 DEF SameButTable, DriverRecords
      <3> QED BY <2>1, <3>3 DEF Silenced
    <2>5. CASE PlayEnds
      <3> DEFINE e == FinalizeLocked(drv, i, "cancelled")
      <3>1. EndsAs(drv, e, {i}, "cancelled") /\ SameButTable(drv, e)
        BY <1>1, <2>1, FinalizePending DEF EndStates
      <3>2. drv' = [e EXCEPT !.active = 0, !.cancelled = FALSE]
        BY <2>1, <2>5 DEF PlayEnds
      <3> HIDE DEF e
      <3>3. drv'.results[i] = "cancelled"
        BY <3>1, <3>2 DEF SameButTable, DriverRecords, EndsAs
      <3> QED BY <3>3 DEF Silenced, EndStates
    <2>6. ASSUME NEW j \in Playbacks, drv' = DriverSubmit(j) PROVE Silenced(i)'
      BY <1>1, <2>1, <2>6 DEF DriverSubmit, Silenced, DriverRecords
    <2>7. ASSUME NEW j \in Playbacks, drv' = CancelEffect(j) PROVE Silenced(i)'
      <3>1. CASE j = i
        BY <2>7, <3>1, CancelSilences
      <3>2. CASE j # i /\ drv.results[j] \in EndStates
        BY <2>1, <2>7, <3>2 DEF CancelEffect, Silenced
      <3>3. CASE j # i /\ drv.results[j] \notin EndStates /\ j \in Members(drv.queue)
        <4> DEFINE e == FinalizeLocked(drv, j, "cancelled")
        <4>1. drv.results[j] = "pending" /\ "cancelled" \in EndStates
          BY <1>1, <3>3 DEF QueueMatches, EndStates
        <4>2. SameButTable(drv, e)
          BY <1>1, <4>1, FinalizePending
        <4> HIDE DEF e
        <4>3. drv' = [e EXCEPT !.queue = Erase(drv.queue, j)]
          BY <2>1, <2>7, <3>3 DEF CancelEffect, e
        <4>4. drv'.active = drv.active /\ drv'.cancelled = drv.cancelled
          BY <4>2, <4>3 DEF SameButTable, DriverRecords
        <4> QED BY <2>1, <4>4 DEF Silenced
      <3>4. CASE j # i /\ drv.results[j] \notin EndStates /\ j \notin Members(drv.queue)
        <4>1. SameButTable(drv, Remember(drv, <<j>>, "cancelled", FALSE))
          BY <1>1, <3>4, RememberOne DEF EndStates
        <4> QED BY <2>1, <2>7, <3>4, <4>1 DEF CancelEffect, Silenced, SameButTable
      <3> QED BY <3>1, <3>2, <3>3, <3>4
    <2> QED BY <2>2, <2>3, <2>4, <2>5, <2>6, <2>7
  <1> QED BY <1>2, <1>3

LEMMA SilencedStays ==
    ASSUME PlaybackInv, PlaybackNext, Remembers, NEW i \in Playbacks, Silenced(i)
    PROVE  Silenced(i)'
  <1>1. /\ DriverInv(drv) /\ cancel \in [Cancellers -> CancelRecords] /\ OneOwner
        /\ prompt.id \in Playbacks \cup {0} /\ (prompt.pc # "idle" => prompt.id # 0)
    BY DEF PlaybackInv, ClientInv, ClientTypeOK
  <1>2. CASE UNCHANGED drv
    BY <1>1, <1>2, SilencedByDriver
  <1>3. CASE DriverStep
    BY <1>1, <1>3, SilencedByDriver DEF DriverStep
  <1>4. CASE \E j \in Playbacks : drv' = CancelEffect(j) \/ drv' = DriverSubmit(j)
    BY <1>1, <1>4, SilencedByDriver
  <1>5. CASE WorkerStep \/ TakeResponse \/ StopFlag \/ PromptPlay
    <2>1. UNCHANGED drv
      BY <1>5 DEF WorkerStep, TakeResponse, StopFlag, PromptPlay, FocusStatus, FocusPause,
           ReleaseFocus, LoadGeneration, EnterSegment, Synthesize, SynthesizeFallback,
           RejectSegment, CheckInterrupt, RegisterPlayback, SendPlay, PlayReply, AfterSubmit,
           EarlyCancelOver, WaitPlayback, ConfirmCancelOver, WaitAgain, ClearPlayback, SegmentDone
    <2> QED BY <1>2, <2>1
  <1>6. ASSUME NEW t \in Callers, CallBegins(t) \/ CallStep(t)
        PROVE  UNCHANGED drv
    BY <1>6 DEF CallBegins, CallStep, RaiseGeneration, ReadActive, CallReturns
  <1>7. ASSUME NEW t \in Cancellers, CancelStep(t)
        PROVE  UNCHANGED drv \/ \E j \in Playbacks : drv' = CancelEffect(j)
    <2>1. CASE CancelCall(t) /\ drv' = CancelEffect(cancel[t].id)
      <3>1. cancel[t].id \in Playbacks
        BY <1>1, <2>1 DEF CancelCall, OneOwner, Begun, CancelRecords
      <3> QED BY <2>1, <3>1
    <2> QED BY <1>7, <2>1 DEF CancelStep, CancelCheck, CancelCall, CancelAnswer
  <1>8. ASSUME NEW j \in Playbacks, HandlePlay(j) PROVE UNCHANGED drv \/ drv' = DriverSubmit(j)
    BY <1>8 DEF HandlePlay
  <1>9. CASE PromptStep \/ PromptStop
    <2>1. UNCHANGED drv \/ (drv' = CancelEffect(prompt.id) /\ prompt.id \in Playbacks)
      BY <1>1, <1>9 DEF PromptStep, PromptReply, PromptWait, PromptStop
    <2> QED BY <1>2, <1>4, <2>1
  <1> QED BY <1>2, <1>3, <1>4, <1>5, <1>6, <1>7, <1>8, <1>9 DEF PlaybackNext, Callers

-----------------------------------------------------------------------------
(* A step that begins no playback, moves no cancellation and lets no call  *)
(* return.                                                                 *)
LEMMA InterruptFrame ==
    ASSUME ClientInv, ClientInv', InterruptInv,
           \A i \in Playbacks : Silenced(i) => Silenced(i)',
           wk'.pc \in Sending => wk.pc \in Sending /\ wk'.pb = wk.pb /\ wk'.gen = wk.gen,
           wk'.pc = "register" => wk.pc = "register" /\ wk'.pb = wk.pb /\ wk'.gen = wk.gen,
           wk.pc \in {"early", "confirm"} => wk'.pc = wk.pc,
           UNCHANGED <<cancel, heard>>, cl'.gen >= cl.gen, wk'.gen <= cl'.gen,
           \A t \in Callers :
             /\ caller'[t].gen <= cl'.gen
             /\ caller'[t].pc = "cancel" <=> caller[t].pc = "cancel"
             /\ caller[t].pc = "cancel" => caller'[t].gen = caller[t].gen,
           \/ cl'.pb = cl.pb /\ cl'.attempts = cl.attempts /\ cl'.confirmed = cl.confirmed
           \/ cl'.pb = 0
    PROVE  InterruptInv'
  <1>1. /\ cl \in ClientRecords /\ wk \in WorkerRecords /\ cl' \in ClientRecords
        /\ wk' \in WorkerRecords /\ heard.over \in Nat /\ OneOwner
        /\ caller \in [Callers -> CallerRecords] /\ caller' \in [Callers -> CallerRecords]
    BY DEF ClientInv, ClientTypeOK, Callers
  <1>2. Generations'
    BY <1>1 DEF InterruptInv, Generations, ClientRecords, WorkerRecords
  <1>3. CancelPlaces'
    BY DEF InterruptInv, CancelPlaces
  <1>4. AttemptsCount'
    <2>1. \A t \in Cancellers : Owner(t)' <=> Owner(t)
      BY DEF Owner
    <2>2. CASE cl'.pb = 0
      BY <1>1, <2>1, <2>2 DEF AttemptsCount, OneOwner, Owner
    <2>3. CASE cl'.pb = cl.pb /\ cl'.attempts = cl.attempts /\ cl'.confirmed = cl.confirmed
      <3>1. cl.pb \in Playbacks \cup {0}
        BY <1>1 DEF ClientRecords
      <3> QED BY <2>1, <2>3, <3>1 DEF InterruptInv, AttemptsCount
    <2> QED BY <2>2, <2>3
  <1>5. CallsSilence'
    <2> SUFFICES ASSUME wk'.pc \in Sending PROVE CallsSilence'
      BY DEF CallsSilence
    <2>1. wk.pb \in Playbacks
      BY DEF ClientInv, ClientTypeOK, WorkerRecords, Registered, Playing, Sending
    <2> QED BY <2>1 DEF InterruptInv, CallsSilence
  <1> QED BY <1>2, <1>3, <1>4, <1>5 DEF InterruptInv

LEMMA InterruptWorkerMoves ==
    ASSUME PlaybackInv, ClientInv', InterruptInv, ~Faulty,
           \A i \in Playbacks : Silenced(i) => Silenced(i)',
           \/ TakeResponse \/ FocusStatus \/ FocusPause \/ ReleaseFocus \/ LoadGeneration
           \/ EnterSegment \/ Synthesize \/ SynthesizeFallback \/ RejectSegment
           \/ SendPlay \/ PlayReply \/ WaitAgain \/ ClearPlayback \/ SegmentDone
    PROVE  InterruptInv'
  <1> USE DEF Sending
  <1>1. /\ ClientInv /\ cl \in ClientRecords /\ wk \in WorkerRecords /\ Registered
        /\ Generations /\ caller \in [Callers -> CallerRecords]
    BY DEF PlaybackInv, ClientInv, ClientTypeOK, InterruptInv, Callers
  <1>2. UNCHANGED <<cancel, heard, caller>>
    BY DEF TakeResponse, FocusStatus, FocusPause, ReleaseFocus, LoadGeneration, EnterSegment,
           Synthesize, SynthesizeFallback, RejectSegment, SendPlay, PlayReply, WaitAgain,
           ClearPlayback, SegmentDone
  <1>3. /\ cl'.gen = cl.gen
        /\ \/ cl'.pb = cl.pb /\ cl'.attempts = cl.attempts /\ cl'.confirmed = cl.confirmed
           \/ cl'.pb = 0
    <2>1. CASE EnterSegment
      BY <1>1, <2>1 DEF EnterSegment, Registered, Unregistered, ClientRecords
    <2>2. CASE RejectSegment \/ ClearPlayback
      BY <1>1, <2>2 DEF RejectSegment, ClearPlayback, ClearActiveRequest, Registered, Playing,
            ClientRecords
    <2> QED BY <1>1, <2>1, <2>2
         DEF TakeResponse, FocusStatus, FocusPause, ReleaseFocus, LoadGeneration,
             Synthesize, SynthesizeFallback, SendPlay, PlayReply, WaitAgain,
             SegmentDone, ClientRecords
  <1>4. /\ wk'.gen <= cl'.gen /\ wk'.pc # "register" /\ wk.pc \notin {"early", "confirm"}
        /\ wk'.pc \in Sending => wk.pc \in Sending /\ wk'.pb = wk.pb /\ wk'.gen = wk.gen
    <2>1. cl.gen \in Nat /\ wk.gen \in Nat /\ wk.gen <= cl.gen
      BY <1>1 DEF Generations, ClientRecords, WorkerRecords
    <2>2. Left.gen = 0 /\ Left.pc = "done"
      BY DEF Left
    <2>3. CASE LoadGeneration
      BY <2>1, <2>3, <1>1 DEF LoadGeneration, WorkerRecords
    <2>4. CASE TakeResponse
      BY <2>1, <2>4, <1>1, <1>3 DEF TakeResponse, WorkerRecords
    <2>5. CASE FocusStatus \/ FocusPause \/ EnterSegment \/ RejectSegment
      BY <2>1, <2>2, <2>5, <1>1, <1>3
         DEF FocusStatus, FocusPause, EnterSegment, RejectSegment, Goto, Leave, WorkerRecords
    <2>8. CASE SegmentDone
      <3>1. wk.pc = "result" /\ (wk' = Left \/ wk' = [wk EXCEPT !.pc = "segment", !.left = wk.left - 1])
        BY <2>8 DEF SegmentDone
      <3>2. wk'.pc \in {"done", "segment"} /\ (wk'.gen = 0 \/ wk'.gen = wk.gen)
        BY <2>2, <3>1, <1>1 DEF WorkerRecords
      <3> QED BY <2>1, <3>1, <3>2, <1>3
    <2>6. CASE ReleaseFocus \/ ClearPlayback
      BY <2>1, <2>6, <1>1, <1>3 DEF ReleaseFocus, ClearPlayback, Goto, WorkerRecords
    <2>10. CASE Synthesize
      BY <2>1, <2>10, <1>1, <1>3 DEF Synthesize, Goto, WorkerRecords, SynthesisResults
    <2>9. CASE SynthesizeFallback
      BY <2>1, <2>9, <1>1, <1>3 DEF SynthesizeFallback, Goto, WorkerRecords, SynthesisResults
    <2>7. CASE SendPlay \/ PlayReply \/ WaitAgain
      BY <2>1, <2>7, <1>1, <1>3 DEF SendPlay, PlayReply, WaitAgain, Goto, WorkerRecords
    <2> QED BY <2>3, <2>4, <2>5, <2>6, <2>7, <2>8, <2>9, <2>10
  <1>5. \A t \in Callers : caller'[t] = caller[t] /\ caller'[t].gen <= cl'.gen
    BY <1>1, <1>2, <1>3 DEF Generations
  <1>6. cl'.gen >= cl.gen
    BY <1>1, <1>3 DEF ClientRecords
  <1> HIDE DEF Sending
  <1> QED BY <1>1, <1>2, <1>3, <1>4, <1>5, <1>6, InterruptFrame

(* The driver and the prompt player; a call that begins.                   *)
LEMMA InterruptOtherSteps ==
    ASSUME PlaybackInv, ClientInv', InterruptInv,
           \A i \in Playbacks : Silenced(i) => Silenced(i)',
           \/ DriverStep \/ PromptPlay \/ PromptStep \/ PromptStop \/ StopFlag
           \/ \E i \in Playbacks : HandlePlay(i)
           \/ \E t \in Callers : CallBegins(t) \/ RaiseGeneration(t)
    PROVE  InterruptInv'
  <1>1. /\ ClientInv /\ cl \in ClientRecords /\ wk \in WorkerRecords
        /\ Generations /\ caller \in [Callers -> CallerRecords]
    BY DEF PlaybackInv, ClientInv, ClientTypeOK, InterruptInv, Callers
  <1>2. UNCHANGED <<wk, cancel, heard>>
    BY DEF DriverStep, PromptPlay, PromptStep, PromptReply, PromptWait, PromptStop, StopFlag,
           HandlePlay, CallBegins, RaiseGeneration
  <1>3. /\ cl'.pb = cl.pb /\ cl'.attempts = cl.attempts /\ cl'.confirmed = cl.confirmed
        /\ cl'.gen = cl.gen \/ cl'.gen = cl.gen + 1
    BY <1>1 DEF DriverStep, PromptPlay, PromptStep, PromptReply, PromptWait, PromptStop, StopFlag,
           HandlePlay, CallBegins, RaiseGeneration, ClientRecords
  <1>4. cl'.gen >= cl.gen /\ wk'.gen <= cl'.gen
    BY <1>1, <1>2, <1>3 DEF Generations, ClientRecords, WorkerRecords
  <1>5. ASSUME NEW t \in Callers
        PROVE  /\ caller'[t].gen <= cl'.gen
               /\ caller'[t].pc = "cancel" <=> caller[t].pc = "cancel"
               /\ caller[t].pc = "cancel" => caller'[t].gen = caller[t].gen
    <2>1. caller[t].gen <= cl.gen /\ caller[t].gen \in Nat /\ cl.gen \in Nat
      BY <1>1 DEF Generations, CallerRecords, ClientRecords
    <2>2. CASE UNCHANGED caller
      BY <2>1, <2>2, <1>3
    <2>3. CASE StopFlag
      BY <1>1, <1>3, <2>1, <2>3 DEF StopFlag, CallerRecords, Callers
    <2>4. ASSUME NEW u \in Callers, CallBegins(u)
          PROVE  /\ caller'[t].gen = caller[t].gen
                 /\ caller'[t].pc = "cancel" <=> caller[t].pc = "cancel"
      BY <1>1, <2>4 DEF CallBegins, CallerRecords
    <2>5. ASSUME NEW u \in Callers, RaiseGeneration(u)
          PROVE  /\ caller'[t].gen = cl'.gen \/ caller'[t].gen = caller[t].gen
                 /\ caller'[t].pc = "cancel" <=> caller[t].pc = "cancel"
                 /\ caller[t].pc = "cancel" => caller'[t].gen = caller[t].gen
      BY <1>1, <2>5 DEF RaiseGeneration, CallerRecords, ClientRecords
    <2>6. cl'.gen \in Nat /\ cl'.gen >= cl.gen
      BY <1>3, <2>1
    <2>7. CASE \E u \in Callers : CallBegins(u)
      BY <2>1, <2>4, <2>6, <2>7
    <2>8. CASE \E u \in Callers : RaiseGeneration(u)
      BY <2>1, <2>5, <2>6, <2>8
    <2>9. CASE \/ DriverStep \/ PromptPlay \/ PromptStep \/ PromptStop
               \/ \E i \in Playbacks : HandlePlay(i)
      BY <2>2, <2>9 DEF DriverStep, PromptPlay, PromptStep, PromptReply, PromptWait, PromptStop,
            HandlePlay
    <2> QED BY <2>3, <2>7, <2>8, <2>9
  <1>6. /\ wk'.pc \in Sending => wk.pc \in Sending /\ wk'.pb = wk.pb /\ wk'.gen = wk.gen
        /\ wk'.pc = "register" => wk.pc = "register" /\ wk'.pb = wk.pb /\ wk'.gen = wk.gen
        /\ wk.pc \in {"early", "confirm"} => wk'.pc = wk.pc
    BY <1>2
  <1> QED BY <1>1, <1>2, <1>3, <1>4, <1>5, <1>6, InterruptFrame

(* A new playback: its generation is the client's, or it is not begun.     *)
LEMMA InterruptBegins ==
    ASSUME PlaybackInv, ClientInv', InterruptInv,
           \A i \in Playbacks : Silenced(i) => Silenced(i)',
           CheckInterrupt \/ RegisterPlayback
    PROVE  InterruptInv'
  <1>1. /\ ClientInv /\ cl \in ClientRecords /\ wk \in WorkerRecords /\ Registered /\ FreshIds
        /\ Generations /\ CancelPlaces /\ caller \in [Callers -> CallerRecords] /\ OneOwner
        /\ heard \in [gen : [Playbacks -> Nat], over : Nat, calls : [Playbacks -> Nat]]
    BY DEF PlaybackInv, ClientInv, ClientTypeOK, InterruptInv, Callers
  <1>2. UNCHANGED <<cancel, caller>>
    BY DEF CheckInterrupt, RegisterPlayback
  <1>3. CASE CheckInterrupt
    <2>1. wk.pc = "check" /\ UNCHANGED cl /\ cl.pb = 0
      BY <1>1, <1>3 DEF CheckInterrupt, Registered, Preparing
    <2>2. /\ wk'.gen = wk.gen /\ wk'.pc \in {"reject", "register"}
          /\ wk'.pc = "register" => heard'.gen[wk'.pb] = wk.gen + 1
          /\ heard'.over = heard.over
      <3>1. CASE wk' = [wk EXCEPT !.pc = "reject"] /\ UNCHANGED heard
        BY <3>1, <1>1 DEF WorkerRecords
      <3>2. ASSUME NEW i \in TtsIds, wk' = [wk EXCEPT !.pc = "register", !.pb = i],
                   heard' = [heard EXCEPT !.gen[i] = wk.gen + 1]
            PROVE  /\ wk'.gen = wk.gen /\ wk'.pc = "register"
                   /\ heard'.gen[wk'.pb] = wk.gen + 1 /\ heard'.over = heard.over
        BY <3>2, <1>1 DEF WorkerRecords, TtsIds
      <3> QED BY <1>3, <3>1, <3>2 DEF CheckInterrupt, Goto
    <2>3. Generations' /\ CancelPlaces' /\ CallsSilence'
      BY <1>1, <1>2, <2>1, <2>2 DEF Generations, CancelPlaces, CallsSilence, Sending
    <2>4. AttemptsCount'
      BY <1>1, <1>2, <2>1 DEF AttemptsCount, OneOwner, Owner
    <2> QED BY <2>3, <2>4 DEF InterruptInv
  <1>4. CASE RegisterPlayback
    <2>1. wk.pc = "register" /\ UNCHANGED heard /\ cl.pb = 0
      BY <1>1, <1>4 DEF RegisterPlayback, Registered, Preparing
    <2>2. CASE wk' = Left /\ cl' = [cl EXCEPT !.req = 0]
      <3>1. wk'.pc = "done" /\ wk'.gen = 0 /\ cl'.pb = 0 /\ cl'.gen = cl.gen
        BY <2>1, <2>2, <1>1 DEF Left, ClientRecords
      <3>2. cl'.gen >= cl.gen /\ wk'.gen <= cl'.gen
        BY <3>1, <1>1 DEF ClientRecords
      <3>3. \A t \in Callers : caller'[t].gen <= cl'.gen
        BY <3>1, <1>1, <1>2 DEF Generations
      <3>4. wk'.pc \notin Sending
        BY <3>1 DEF Sending
      <3> QED BY <1>1, <1>2, <2>1, <3>1, <3>2, <3>3, <3>4, InterruptFrame
    <2>3. CASE /\ ~Interrupted
               /\ wk' = [wk EXCEPT !.pc = "submit"]
               /\ cl' = [cl EXCEPT !.pb = wk.pb, !.attempts = 0, !.flight = FALSE,
                                    !.confirmed = FALSE]
      <3>1. /\ wk'.pc = "submit" /\ wk'.gen = wk.gen /\ wk'.pb = wk.pb /\ cl'.gen = cl.gen
            /\ cl'.pb = wk.pb /\ cl'.attempts = 0 /\ ~cl'.confirmed
        BY <2>3, <1>1 DEF WorkerRecords, ClientRecords
      <3>2. wk.gen = cl.gen
        BY <2>3 DEF Interrupted
      <3>3. Generations' /\ CancelPlaces'
        BY <1>1, <1>2, <2>1, <3>1 DEF Generations, CancelPlaces, Sending
      <3>4. CallsSilence'
        <4>1. \A t \in Callers : ~(wk'.gen < caller'[t].gen)
          BY <1>1, <1>2, <3>1, <3>2 DEF Generations, CallerRecords, ClientRecords
        <4>2. ~(wk'.gen < heard'.over)
          BY <1>1, <2>1, <3>1, <3>2 DEF Generations, ClientRecords
        <4> QED BY <4>1, <4>2 DEF CallsSilence
      <3>5. AttemptsCount'
        BY <1>1, <1>2, <2>1, <3>1 DEF AttemptsCount, FreshIds, Owner
      <3> QED BY <3>3, <3>4, <3>5 DEF InterruptInv
    <2> QED BY <1>4, <2>2, <2>3 DEF RegisterPlayback, Goto, Leave
  <1> QED BY <1>3, <1>4

-----------------------------------------------------------------------------
(* Thread t moves in RequestPlaybackCancellation and nothing else does.    *)
LEMMA CancelMoves ==
    ASSUME ClientInv, InterruptInv, NEW t \in Cancellers, NEW c \in CancelRecords,
           \A j \in Playbacks : Silenced(j) => Silenced(j)',
           cancel' = [cancel EXCEPT ![t] = c], c.pc # "idle", cancel[t].pc \in Begun,
           c.whole = cancel[t].whole, c.id = cancel[t].id, c.pc \in Begun /\ c.own => Owner(t),
           NEW i \in Playbacks, i = cancel[t].id,
           cancel[t].pc = "rpc" /\ c.pc # "rpc" => Silenced(i)',
           UNCHANGED <<wk, caller, heard>>,
           cl'.pb = cl.pb, cl'.gen = cl.gen, cl'.attempts = cl.attempts,
           cl'.confirmed = cl.confirmed \/ Silenced(cl.pb),
           c.pc \in Begun \/ (c.id = cl.pb => Silenced(cl.pb) \/ t = "worker")
    PROVE  InterruptInv'
  <1>1. /\ cancel \in [Cancellers -> CancelRecords] /\ cl \in ClientRecords
        /\ wk \in WorkerRecords /\ Registered /\ Generations /\ CancelPlaces
        /\ AttemptsCount /\ CallsSilence
    BY DEF ClientInv, ClientTypeOK, InterruptInv
  <1>2. cancel'[t] = c /\ \A u \in Cancellers \ {t} : cancel'[u] = cancel[u]
    BY <1>1
  <1>3. Callers \subseteq Cancellers /\ "worker" \in Cancellers \ Callers /\ cancel[t].pc # "idle"
    BY DEF Callers, Cancellers, Begun
  <1>4. Generations' /\ CancelPlaces'
    BY <1>1, <1>2, <1>3 DEF Generations, CancelPlaces
  <1>5. \A u \in Cancellers : Owner(u)' => Owner(u)
    BY <1>2 DEF Owner
  <1>6. \A u \in Cancellers : cancel'[u].id = cancel[u].id
    BY <1>2
  <1>7. PICK p \in Playbacks \cup {0} : p = cl.pb
    BY <1>1 DEF ClientRecords
  <1>8. AttemptsCount'
    <2>1. \A u \in Cancellers : Owner(u)' /\ cancel'[u].id = cl'.pb => cl'.attempts > 0
      BY <1>1, <1>5, <1>6 DEF AttemptsCount
    <2>2. p # 0 /\ cl'.confirmed => Silenced(p)'
      <3>1. p # 0 /\ cl'.confirmed => Silenced(p)
        BY <1>1, <1>7 DEF AttemptsCount
      <3> QED BY <3>1, <1>7
    <2>3. ASSUME p # 0, cl.attempts > 0
          PROVE  \/ Silenced(p)'
                 \/ \E u \in Cancellers : cancel'[u].pc = "rpc" /\ cancel'[u].id = p
      <3>1. CASE Silenced(p)
        BY <2>3, <3>1, <1>7
      <3>2. ASSUME NEW u \in Cancellers, cancel[u].pc = "rpc", cancel[u].id = p
            PROVE  \/ Silenced(p)'
                   \/ \E v \in Cancellers : cancel'[v].pc = "rpc" /\ cancel'[v].id = p
        <4>1. CASE u # t
          BY <3>2, <4>1, <1>2
        <4>2. CASE u = t /\ c.pc = "rpc"
          BY <3>2, <4>2, <1>2
        <4>3. CASE u = t /\ c.pc # "rpc"
          BY <2>3, <3>2, <4>3, <1>7
        <4> QED BY <4>1, <4>2, <4>3
      <3>3. Silenced(p) \/ \E u \in Cancellers : cancel[u].pc = "rpc" /\ cancel[u].id = p
        BY <2>3, <1>1, <1>7 DEF AttemptsCount
      <3> QED BY <3>1, <3>2, <3>3
    <2>4. p = cl'.pb
      BY <1>7
    <2>5. (cl'.pb # 0 /\ cl'.confirmed => Silenced(cl.pb)')
      BY <2>2, <2>4 DEF Silenced
    <2>6. cl'.pb # 0 /\ cl'.attempts > 0 =>
            \/ Silenced(cl.pb)'
            \/ \E u \in Cancellers : cancel'[u].pc = "rpc" /\ cancel'[u].id = cl'.pb
      BY <2>3, <2>4 DEF Silenced
    <2> QED BY <2>1, <2>5, <2>6 DEF AttemptsCount
  <1>9. CallsSilence'
    <2> SUFFICES ASSUME wk.pc \in Sending PROVE CallsSilence'
      BY DEF CallsSilence
    <2>1. wk.pb \in Playbacks /\ cl.pb = wk.pb
      BY <1>1 DEF WorkerRecords, Registered, Playing, Sending
    <2>2. wk.gen < heard.over => Silenced(wk.pb)'
      BY <1>1, <2>1 DEF CallsSilence
    <2>3. ASSUME NEW u \in Callers, caller[u].pc = "cancel", wk.gen < caller[u].gen
          PROVE  Silenced(wk.pb)' \/ (cancel'[u].pc \in Begun /\ cancel'[u].id = wk.pb)
      <3>1. Silenced(wk.pb) \/ (cancel[u].pc \in Begun /\ cancel[u].id = wk.pb)
        BY <1>1, <2>3 DEF CallsSilence
      <3>2. CASE Silenced(wk.pb)
        BY <3>2, <2>1
      <3>3. CASE cancel[u].pc \in Begun /\ cancel[u].id = wk.pb /\ u # t
        BY <3>3, <1>2, <1>3
      <3>4. CASE cancel[u].pc \in Begun /\ cancel[u].id = wk.pb /\ u = t
        BY <3>4, <2>1, <1>2, <1>3
      <3> QED BY <3>1, <3>2, <3>3, <3>4
    <2> QED BY <2>2, <2>3 DEF CallsSilence
  <1> QED BY <1>4, <1>8, <1>9 DEF InterruptInv

(* The owner of a call that the driver has answered knows that the         *)
(* playback is silenced, and so does whoever finds the attempts used up.   *)
LEMMA AttemptsSilence ==
    ASSUME ClientInv, InterruptInv, NEW t \in Cancellers, cancel[t].pc # "rpc",
           cl.pb # 0, cancel[t].id = cl.pb, cl.attempts > 0,
           Owner(t) \/ (cancel[t].pc = "check" /\ (cl.flight => cancel[t].own))
    PROVE  Silenced(cl.pb)
  <1>1. OneOwner /\ AttemptsCount
    BY DEF ClientInv, InterruptInv
  <1>2. ASSUME NEW u \in Cancellers, cancel[u].pc = "rpc", cancel[u].id = cl.pb PROVE FALSE
    <2>1. Owner(u)
      BY <1>1, <1>2 DEF OneOwner, Owner, Begun
    <2>2. cl.flight
      BY <1>1, <1>2, <2>1 DEF OneOwner
    <2>3. Owner(t)
      BY <2>2 DEF Owner, Begun
    <2> QED BY <1>1, <1>2, <2>1, <2>3 DEF OneOwner
  <1> QED BY <1>1, <1>2 DEF AttemptsCount

LEMMA InterruptCancelSteps ==
    ASSUME PlaybackInv, InterruptInv, ~Faulty, NEW t \in Cancellers, CancelStep(t),
           \A i \in Playbacks : Silenced(i) => Silenced(i)'
    PROVE  InterruptInv'
  <1>1. /\ ClientInv /\ cl \in ClientRecords /\ wk \in WorkerRecords /\ Registered /\ OneOwner
        /\ cancel \in [Cancellers -> CancelRecords] /\ DriverInv(drv)
        /\ Generations /\ CancelPlaces /\ AttemptsCount /\ CallsSilence
    BY DEF PlaybackInv, ClientInv, ClientTypeOK, InterruptInv
  <1>2. UNCHANGED <<wk, caller>> /\ cancel[t] \in CancelRecords /\ cancel[t].pc \in Begun
    BY <1>1 DEF CancelStep, CancelCheck, CancelCall, CancelAnswer, Begun
  <1>3. PICK i \in Playbacks : i = cancel[t].id /\ i # 0
    BY <1>1, <1>2 DEF OneOwner, CancelRecords
  <1>4. ASSUME t # "worker", cancel[t].id = cl.pb PROVE ~Overtaken(t)
    <2>1. ~cancel[t].whole
      BY <1>1, <1>2, <1>4 DEF CancelPlaces, Cancellers, Callers, Begun
    <2> QED BY <2>1, <1>4 DEF Overtaken
  <1>5. ASSUME NEW answer \in BOOLEAN, CancelReturns(t, answer), UNCHANGED heard,
               cancel[t].pc # "rpc",
               cl'.pb = cl.pb, cl'.gen = cl.gen, cl'.attempts = cl.attempts,
               cl'.confirmed = cl.confirmed \/ Silenced(cl.pb),
               cancel[t].id = cl.pb => Silenced(cl.pb) \/ t = "worker"
        PROVE  InterruptInv'
    <2> DEFINE c == [cancel[t] EXCEPT !.pc = "over", !.ok = answer]
    <2>1. c \in CancelRecords /\ c.pc = "over" /\ c.id = cancel[t].id /\ c.whole = cancel[t].whole
      BY <1>2 DEF CancelRecords
    <2>2. cancel' = [cancel EXCEPT ![t] = c]
      BY <1>1, <1>5 DEF CancelReturns
    <2>3. c.pc \notin Begun
      BY <2>1 DEF Begun
    <2> HIDE DEF c
    <2> QED BY <1>1, <1>2, <1>3, <1>5, <2>1, <2>2, <2>3, CancelMoves
  <1>6. CASE CancelCheck(t)
    <2>1. cancel[t].pc = "check"
      BY <1>6 DEF CancelCheck
    <2>2. CASE Overtaken(t) /\ CancelReturns(t, FALSE) /\ UNCHANGED <<cl, heard>>
      BY <2>1, <2>2, <1>4, <1>5
    <2>3. CASE /\ ~Overtaken(t) /\ cl.confirmed
               /\ CancelReturns(t, TRUE) /\ UNCHANGED <<cl, heard>>
      <3>1. Silenced(cl.pb)
        BY <2>3, <1>1, <1>3 DEF Overtaken, AttemptsCount
      <3> QED BY <2>1, <2>3, <3>1, <1>5
    <2>4. CASE /\ ~Overtaken(t) /\ (cl.flight => cancel[t].own) /\ cl.attempts >= MaxAttempts
               /\ CancelReturns(t, FALSE) /\ UNCHANGED <<cl, heard>>
      <3>1. cl.attempts > 0 /\ cancel[t].id = cl.pb
        BY <2>4, <1>1 DEF MaxAttempts, ClientRecords, Overtaken
      <3>2. Silenced(cl.pb)
        BY <2>1, <2>4, <3>1, <1>1, <1>3, AttemptsSilence
      <3> QED BY <2>1, <2>4, <3>2, <1>5
    <2>5. CASE /\ ~Overtaken(t)
               /\ cl' = [cl EXCEPT !.flight = TRUE, !.attempts = @ + 1]
               /\ cancel' = [cancel EXCEPT ![t].pc = "rpc", ![t].own = TRUE]
               /\ heard' = [heard EXCEPT !.calls[cancel[t].id] = @ + 1]
      <3>1. /\ cl'.pb = cl.pb /\ cl'.gen = cl.gen /\ cl'.confirmed = cl.confirmed
            /\ cl'.attempts > 0 /\ cancel[t].id = cl.pb
        BY <2>5, <1>1 DEF ClientRecords, Overtaken
      <3>2. /\ cancel'[t].pc = "rpc" /\ cancel'[t].id = cancel[t].id
            /\ cancel'[t].whole = cancel[t].whole
            /\ \A u \in Cancellers \ {t} : cancel'[u] = cancel[u]
        BY <2>5, <1>1 DEF CancelRecords
      <3>3. heard'.gen = heard.gen /\ heard'.over = heard.over
        BY <2>5, <1>1 DEF ClientInv, ClientTypeOK
      <3>4. Callers \subseteq Cancellers /\ "worker" \in Cancellers \ Callers /\ cancel[t].pc # "idle"
        BY <2>1 DEF Callers, Cancellers
      <3>5. Generations' /\ CancelPlaces'
        BY <1>1, <1>2, <3>1, <3>2, <3>3, <3>4 DEF Generations, CancelPlaces
      <3>6. AttemptsCount'
        <4>1. cl.confirmed => Silenced(cl.pb)
          BY <1>1, <1>3, <3>1 DEF AttemptsCount
        <4> QED BY <1>3, <3>1, <3>2, <4>1 DEF AttemptsCount
      <3>7. CallsSilence'
        <4> SUFFICES ASSUME wk.pc \in Sending PROVE CallsSilence'
          BY <1>2 DEF CallsSilence
        <4>1. wk.pb \in Playbacks
          BY <1>1 DEF WorkerRecords, Registered, Playing, Sending
        <4>2. \A u \in Callers : cancel[u].pc \in Begun /\ cancel[u].id = wk.pb
                 => cancel'[u].pc \in Begun /\ cancel'[u].id = wk.pb
          BY <3>2, <3>4 DEF Begun
        <4> QED BY <1>1, <1>2, <3>3, <4>1, <4>2 DEF CallsSilence
      <3> QED BY <3>5, <3>6, <3>7 DEF InterruptInv
    <2> QED BY <1>6, <2>2, <2>3, <2>4, <2>5 DEF CancelCheck
  <1>7. CASE CancelCall(t)
    <2>1. cancel[t].pc = "rpc" /\ drv' = CancelEffect(cancel[t].id) /\ UNCHANGED <<cl, heard>>
      BY <1>7 DEF CancelCall
    <2>2. PICK answer \in BOOLEAN : cancel' = [cancel EXCEPT ![t].pc = "answer", ![t].ok = answer]
      <3>1. CancelAccepted(cancel[t].id) \in BOOLEAN
        BY DEF CancelAccepted
      <3>2. {CancelAccepted(cancel[t].id)} \cup (IF Faulty THEN {FALSE} ELSE {}) \subseteq BOOLEAN
        BY <3>1
      <3>3. \E heeded \in {CancelAccepted(cancel[t].id)} \cup (IF Faulty THEN {FALSE} ELSE {}) :
                 cancel' = [cancel EXCEPT ![t].pc = "answer", ![t].ok = heeded]
        BY <1>7 DEF CancelCall
      <3> QED BY <3>2, <3>3, Zenon
    <2>3. Silenced(i)'
      BY <2>1, <1>1, <1>3, CancelSilences
    <2>4. Owner(t)
      BY <2>1, <1>1 DEF OneOwner, Owner, Begun
    <2> DEFINE c == [cancel[t] EXCEPT !.pc = "answer", !.ok = answer]
    <2>5. c \in CancelRecords /\ c.pc = "answer" /\ c.id = cancel[t].id /\ c.whole = cancel[t].whole
      BY <1>2 DEF CancelRecords
    <2>6. cancel' = [cancel EXCEPT ![t] = c]
      BY <1>1, <2>2
    <2>7. c.pc \in Begun
      BY <2>5 DEF Begun
    <2> HIDE DEF c
    <2> QED BY <1>1, <1>2, <1>3, <2>1, <2>3, <2>4, <2>5, <2>6, <2>7, CancelMoves
  <1>8. CASE CancelAnswer(t)
    <2>1. cancel[t].pc = "answer" /\ Owner(t) /\ UNCHANGED heard
      BY <1>1, <1>8 DEF CancelAnswer, OneOwner, Owner, Begun
    <2>2. ASSUME ~Overtaken(t) PROVE cancel[t].id = cl.pb /\ Silenced(cl.pb)
      <3>1. cancel[t].id = cl.pb
        BY <2>2 DEF Overtaken
      <3>2. cl.attempts > 0
        BY <2>1, <3>1, <1>1 DEF AttemptsCount
      <3> QED BY <2>1, <3>1, <3>2, <1>1, <1>3, AttemptsSilence
    <2>3. CASE Overtaken(t) /\ CancelReturns(t, FALSE) /\ UNCHANGED cl
      BY <2>1, <2>3, <1>4, <1>5
    <2>4. CASE /\ ~Overtaken(t) /\ CancelReturns(t, TRUE)
               /\ cl' = [cl EXCEPT !.confirmed = TRUE, !.flight = FALSE]
      <3>1. /\ cl'.pb = cl.pb /\ cl'.gen = cl.gen /\ cl'.attempts = cl.attempts
        BY <2>4, <1>1 DEF ClientRecords
      <3> QED BY <2>1, <2>2, <2>4, <3>1, <1>5
    <2>5. CASE ~Overtaken(t) /\ CancelReturns(t, FALSE) /\ cl' = [cl EXCEPT !.flight = FALSE]
      <3>1. /\ cl'.pb = cl.pb /\ cl'.gen = cl.gen /\ cl'.attempts = cl.attempts
            /\ cl'.confirmed = cl.confirmed
        BY <2>5, <1>1 DEF ClientRecords
      <3> QED BY <2>1, <2>2, <2>5, <3>1, <1>5
    <2>6. CASE cancel' = [cancel EXCEPT ![t].pc = "check"] /\ UNCHANGED cl
      <3> DEFINE c == [cancel[t] EXCEPT !.pc = "check"]
      <3>1. c \in CancelRecords /\ c.pc = "check" /\ c.id = cancel[t].id /\ c.whole = cancel[t].whole
        BY <1>2 DEF CancelRecords
      <3>2. cancel' = [cancel EXCEPT ![t] = c]
        BY <1>1, <2>6
      <3>3. c.pc \in Begun
        BY <3>1 DEF Begun
      <3> HIDE DEF c
      <3> QED BY <1>1, <1>2, <1>3, <2>1, <2>6, <3>1, <3>2, <3>3, CancelMoves
    <2> QED BY <1>8, <2>3, <2>4, <2>5, <2>6 DEF CancelAnswer
  <1> QED BY <1>6, <1>7, <1>8 DEF CancelStep

(* The worker begins a cancellation of its own, or takes its outcome.      *)
LEMMA InterruptWorkerCancels ==
    ASSUME PlaybackInv, InterruptInv,
           AfterSubmit \/ EarlyCancelOver \/ WaitPlayback \/ ConfirmCancelOver
    PROVE  InterruptInv'
  <1>1. /\ cl \in ClientRecords /\ wk \in WorkerRecords /\ Registered
        /\ cancel \in [Cancellers -> CancelRecords]
        /\ Generations /\ CancelPlaces /\ AttemptsCount /\ CallsSilence
    BY DEF PlaybackInv, ClientInv, ClientTypeOK, InterruptInv
  <1>2. UNCHANGED <<drv, cl, caller, heard>>
    BY DEF AfterSubmit, EarlyCancelOver, WaitPlayback, ConfirmCancelOver
  <1>3. /\ wk.pc \in Sending /\ wk'.pc \in Sending \cup {"clear"} /\ wk'.pb = wk.pb
        /\ wk'.gen = wk.gen
    BY <1>1 DEF AfterSubmit, EarlyCancelOver, WaitPlayback, ConfirmCancelOver, Goto, Sending,
           WorkerRecords
  <1>4. /\ cancel["worker"].pc \notin {"rpc", "answer", "check"}
        /\ cancel'["worker"].pc # "idle" => wk'.pc \in {"early", "confirm"}
        /\ ~cancel'["worker"].own \/ cancel'["worker"].pc \notin Begun
        /\ \A t \in Cancellers \ {"worker"} : cancel'[t] = cancel[t]
    <2>1. CASE AfterSubmit
      <3>1. wk.pc = "after" /\ cancel["worker"].pc = "idle"
        BY <2>1, <1>1 DEF AfterSubmit, CancelPlaces
      <3>2. CASE wk'.pc = "early" /\ cancel' = [cancel EXCEPT !["worker"] =
                   [IdleCancel EXCEPT !.pc = "check", !.id = wk.pb, !.whole = TRUE]]
        BY <3>1, <3>2, <1>1 DEF IdleCancel, Cancellers
      <3>3. CASE UNCHANGED cancel
        BY <3>1, <3>3 DEF Begun
      <3> QED BY <2>1, <3>2, <3>3, <1>1 DEF AfterSubmit, WorkerRecords
    <2>2. CASE WaitPlayback
      <3>1. wk.pc = "wait" /\ cancel["worker"].pc = "idle"
        BY <2>2, <1>1 DEF WaitPlayback, CancelPlaces
      <3>2. CASE wk'.pc = "confirm" /\ cancel' = [cancel EXCEPT !["worker"] =
                   [IdleCancel EXCEPT !.pc = "check", !.id = wk.pb, !.whole = TRUE]]
        BY <3>1, <3>2, <1>1 DEF IdleCancel, Cancellers
      <3>3. CASE UNCHANGED cancel
        BY <3>1, <3>3 DEF Begun
      <3> QED BY <2>2, <3>2, <3>3, <1>1 DEF WaitPlayback, WorkerRecords
    <2>3. CASE EarlyCancelOver \/ ConfirmCancelOver
      BY <2>3, <1>1 DEF EarlyCancelOver, ConfirmCancelOver, IdleCancel, Cancellers
    <2> QED BY <2>1, <2>2, <2>3
  <1>5. Callers = Cancellers \ {"worker"} /\ "worker" \in Cancellers
    BY DEF Callers, Cancellers
  <1>6. Generations' /\ CancelPlaces'
    BY <1>1, <1>2, <1>3, <1>4, <1>5 DEF Generations, CancelPlaces, Sending
  <1>7. AttemptsCount'
    <2>1. \A t \in Cancellers : Owner(t)' => Owner(t) /\ cancel'[t].id = cancel[t].id
      BY <1>4, <1>5 DEF Owner
    <2>2. \A t \in Cancellers : cancel[t].pc = "rpc" => cancel'[t] = cancel[t]
      BY <1>4, <1>5
    <2>3. ASSUME cl.pb # 0, cl.attempts > 0
          PROVE  \/ Silenced(cl.pb)
                 \/ \E u \in Cancellers : cancel'[u].pc = "rpc" /\ cancel'[u].id = cl.pb
      BY <2>2, <2>3, <1>1 DEF AttemptsCount
    <2> QED BY <2>1, <2>3, <1>1, <1>2 DEF AttemptsCount, Silenced
  <1>8. CallsSilence'
    BY <1>1, <1>2, <1>3, <1>4, <1>5 DEF CallsSilence, Silenced
  <1> QED BY <1>6, <1>7, <1>8 DEF InterruptInv

(* Interrupt and Stop read the playback that is registered, and return.    *)
LEMMA InterruptCalls ==
    ASSUME PlaybackInv, InterruptInv, NEW t \in Callers, ReadActive(t) \/ CallReturns(t)
    PROVE  InterruptInv'
  <1>1. /\ cl \in ClientRecords /\ wk \in WorkerRecords /\ Registered
        /\ cancel \in [Cancellers -> CancelRecords] /\ caller \in [Callers -> CallerRecords]
        /\ heard \in [gen : [Playbacks -> Nat], over : Nat, calls : [Playbacks -> Nat]]
        /\ Generations /\ CancelPlaces /\ AttemptsCount /\ CallsSilence
    BY DEF PlaybackInv, ClientInv, ClientTypeOK, InterruptInv, Callers
  <1>2. UNCHANGED <<drv, cl, wk>> /\ Callers = Cancellers \ {"worker"} /\ "worker" \in Cancellers
    BY DEF ReadActive, CallReturns, Callers, Cancellers
  <1>3. /\ cancel[t].pc \notin Begun /\ (~cancel'[t].own \/ cancel'[t].pc \notin Begun)
        /\ \A u \in Cancellers \ {t} : cancel'[u] = cancel[u]
        /\ \A u \in Callers \ {t} : caller'[u] = caller[u]
        /\ ~cancel'[t].whole
    <2>1. CASE ReadActive(t)
      BY <2>1, <1>1, <1>2 DEF ReadActive, CancelPlaces, IdleCancel, Begun
    <2>2. CASE CallReturns(t)
      BY <2>2, <1>1, <1>2 DEF CallReturns, IdleCancel, Begun
    <2> QED BY <2>1, <2>2
  <1>4. AttemptsCount'
    <2>1. \A u \in Cancellers : Owner(u)' => Owner(u) /\ cancel'[u].id = cancel[u].id
      BY <1>2, <1>3 DEF Owner
    <2>2. \A u \in Cancellers : cancel[u].pc = "rpc" => cancel'[u] = cancel[u]
      BY <1>2, <1>3 DEF Begun
    <2>3. ASSUME cl.pb # 0, cl.attempts > 0
          PROVE  \/ Silenced(cl.pb)
                 \/ \E u \in Cancellers : cancel'[u].pc = "rpc" /\ cancel'[u].id = cl.pb
      BY <2>2, <2>3, <1>1 DEF AttemptsCount
    <2> QED BY <2>1, <2>3, <1>1, <1>2 DEF AttemptsCount, Silenced
  <1>5. CASE ReadActive(t)
    <2>1. /\ caller'[t].pc = "cancel" /\ caller'[t].gen = caller[t].gen /\ UNCHANGED heard
          /\ cancel'[t].id = cl.pb /\ (cl.pb # 0 => cancel'[t].pc = "check")
      BY <1>1, <1>2, <1>5 DEF ReadActive, CallerRecords, IdleCancel
    <2>2. Generations' /\ CancelPlaces'
      BY <1>1, <1>2, <1>3, <2>1 DEF Generations, CancelPlaces
    <2>3. CallsSilence'
      <3>1. wk.pc \in Sending => cl.pb = wk.pb /\ cl.pb # 0
        BY <1>1 DEF Registered, Sending, Playing
      <3> QED BY <3>1, <1>1, <1>2, <1>3, <2>1 DEF CallsSilence, Silenced, Begun
    <2> QED BY <2>2, <2>3, <1>4 DEF InterruptInv
  <1>6. CASE CallReturns(t)
    <2>1. /\ caller[t].pc = "cancel" /\ caller'[t].pc = "over" /\ caller'[t].gen = 0
          /\ cancel'[t].pc = "idle"
          /\ heard'.gen = heard.gen
          /\ heard'.over = heard.over \/ heard'.over = caller[t].gen
      BY <1>1, <1>2, <1>6 DEF CallReturns, CallerRecords, IdleCancel
    <2>2. 0 <= cl.gen
      BY <1>1 DEF ClientRecords
    <2>3. Generations' /\ CancelPlaces'
      BY <1>1, <1>2, <1>3, <2>1, <2>2 DEF Generations, CancelPlaces
    <2>4. CallsSilence'
      BY <1>1, <1>2, <1>3, <2>1 DEF CallsSilence, Silenced
    <2> QED BY <2>3, <2>4, <1>4 DEF InterruptInv
  <1> QED BY <1>5, <1>6

LEMMA InterruptInvHolds ==
    /\ AudioInit => (~Faulty => InterruptInv)
    /\ PlaybackInv /\ PlaybackInv' /\ (~Faulty => InterruptInv) /\ [Remembers]_drv
         /\ [AudioNext]_audioVars
       => (~Faulty => InterruptInv)'
  <1>1. ASSUME AudioInit PROVE InterruptInv
    BY <1>1 DEF AudioInit, PlaybackInit, IdleCancel, InterruptInv, Generations, CancelPlaces,
          AttemptsCount, CallsSilence, Owner, Begun, Sending, Callers, Cancellers
  <1>2. ASSUME PlaybackInv, PlaybackInv', InterruptInv, ~Faulty, Remembers, PlaybackNext
        PROVE  InterruptInv'
    <2>1. ClientInv' /\ \A i \in Playbacks : Silenced(i) => Silenced(i)'
      BY <1>2, SilencedStays DEF PlaybackInv
    <2>2. CASE WorkerStep \/ TakeResponse
      BY <1>2, <2>1, <2>2, InterruptWorkerMoves, InterruptBegins, InterruptWorkerCancels
         DEF WorkerStep
    <2>3. ASSUME NEW t \in Cancellers, CancelStep(t) PROVE InterruptInv'
      BY <1>2, <2>1, <2>3, InterruptCancelSteps
    <2>4. ASSUME NEW t \in Callers, CallBegins(t) \/ CallStep(t) PROVE InterruptInv'
      BY <1>2, <2>1, <2>4, InterruptOtherSteps, InterruptCalls DEF CallStep
    <2>5. CASE \/ DriverStep \/ PromptPlay \/ PromptStep \/ PromptStop \/ StopFlag
               \/ \E i \in Playbacks : HandlePlay(i)
      BY <1>2, <2>1, <2>5, InterruptOtherSteps
    <2> QED BY <1>2, <2>2, <2>3, <2>4, <2>5 DEF PlaybackNext, Callers
  <1>3. UNCHANGED drv => Remembers
    BY DEF Remembers
  <1>4. ASSUME InterruptInv, UNCHANGED playbackVars PROVE InterruptInv'
    BY <1>4 DEF playbackVars, InterruptInv, Generations, CancelPlaces, AttemptsCount, CallsSilence,
          Owner, Silenced
  <1>5. [AudioNext]_audioVars => (Faulty' <=> Faulty)
    BY DEF AudioNext, audioVars, Faulty, Use
  <1> QED BY <1>1, <1>2, <1>3, <1>4, <1>5 DEF AudioNext, audioVars

(* In a behaviour in which the driver forgets no result, nothing of a      *)
(* response begun before an Interrupt (or Stop) is heard once that call    *)
(* has returned, unless calls fail: whatever the order in which the        *)
(* worker, the callers, the prompt player and the driver run.  The         *)
(* hypothesis is needed: a tombstone that kResultCapacity other ends push  *)
(* out of the table lets a late PlayPcm through.                           *)
THEOREM InterruptIsHeeded == AudioSpec /\ NothingForgotten => []InterruptSilences
  <1>1. PlaybackInv /\ (~Faulty => FocusInv /\ InterruptInv) => InterruptSilences
    <2> SUFFICES ASSUME PlaybackInv, FocusInv, InterruptInv, NEW i \in Playbacks \ PromptIds,
                        i = drv.active, ~drv.cancelled
                 PROVE  heard.gen[i] > heard.over
      BY DEF InterruptSilences
    <2>1. i \in TtsIds /\ drv.results[i] = "pending"
      BY DriverAssumption DEF TtsIds, PlaybackInv, DriverInv, QueueMatches
    <2>2. wk.pb = i /\ wk.pc \in Sending
      BY <2>1 DEF FocusInv, OnlyTheWorkers, InDriver, Sending
    <2>3. ~Silenced(i)
      BY <2>1 DEF Silenced, EndStates
    <2>4. ~(wk.gen < heard.over) /\ heard.gen[i] = wk.gen + 1
      BY <2>2, <2>3 DEF InterruptInv, CallsSilence, Generations
    <2>5. wk.gen \in Nat /\ heard.over \in Nat
      BY DEF PlaybackInv, ClientInv, ClientTypeOK, WorkerRecords
    <2> QED BY <2>4, <2>5
  <1>2. AudioSpec => [](~Faulty => FocusInv)
    BY FocusInvHolds, PlaybackInvariant, PTL DEF AudioSpec
  <1>3. AudioSpec /\ NothingForgotten => [](~Faulty => InterruptInv)
    BY InterruptInvHolds, PlaybackInvariant, PTL DEF AudioSpec, NothingForgotten
  <1> QED BY <1>1, <1>2, <1>3, PlaybackInvariant, PTL

-----------------------------------------------------------------------------
(* Sound on its way to the recognizer.                                     *)

(* y may come right after x in a segment: no sound of the session between. *)
Joined(x, y) == x.sess # 0 /\ x.sess = y.sess => y.at = x.at + 1

(* y may come right after x on the way: if sound is missing, y says so.    *)
Follows(x, y) == y.gap \/ Joined(x, y)

(* The last frame up to the end of s, when p came before it.               *)
LastOf(p, s) == IF s = << >> THEN p ELSE s[Len(s)]
Over(p, f) == IF f = NoFrame THEN p ELSE f

Chain(p, s) == \A k \in 1 .. Len(s) : Follows(IF k = 1 THEN p ELSE s[k - 1], s[k])
Strict(s) == \A k \in 1 .. Len(s) - 1 : Joined(s[k], s[k + 1])

(* Nothing more follows p than what follows q.                             *)
Weaker(p, q) == q.sess = 0 \/ (q.sess = p.sess /\ q.at = p.at)

(* What q allows after it, it allows after a weaker frame.                 *)
LEMMA FollowsWeaker ==
    ASSUME NEW p, NEW q, NEW y, Follows(p, y), Weaker(p, q)
    PROVE  Follows(q, y)
  BY DEF Follows, Weaker, Joined

(* The chain goes on behind a weaker start, and ends in a weaker frame.    *)
LEMMA ChainWeaker ==
    ASSUME NEW p, NEW q, NEW s, Chain(p, s), Weaker(p, q)
    PROVE  Chain(q, s) /\ Weaker(LastOf(p, s), LastOf(q, s))
  <1>1. Chain(q, s)
    BY FollowsWeaker DEF Chain
  <1>2. Weaker(LastOf(p, s), LastOf(q, s))
    BY DEF Weaker, LastOf
  <1> QED BY <1>1, <1>2

(* Nothing is weaker than no frame.                                        *)
LEMMA NoFrameWeaker == \A p : Weaker(p, NoFrame) /\ Weaker(p, p)
  BY DEF Weaker, NoFrame

(* A frame that follows the last one makes the chain longer.               *)
LEMMA ChainAppend ==
    ASSUME NEW S, NEW s \in Seq(S), NEW x, NEW p, Chain(p, s), Follows(LastOf(p, s), x)
    PROVE  Chain(p, Append(s, x))
  <1> DEFINE t == Append(s, x)
  <1>1. Len(t) = Len(s) + 1 /\ t[Len(s) + 1] = x /\ Len(s) \in Nat
    OBVIOUS
  <1>2. \A k \in 1 .. Len(s) : t[k] = s[k]
    OBVIOUS
  <1>3. s = << >> <=> Len(s) = 0
    OBVIOUS
  <1> HIDE DEF t
  <1> SUFFICES ASSUME NEW k \in 1 .. Len(t)
               PROVE  Follows(IF k = 1 THEN p ELSE t[k - 1], t[k])
    BY DEF Chain, t
  <1>4. CASE k <= Len(s)
    <2>1. Follows(IF k = 1 THEN p ELSE s[k - 1], s[k])
      BY <1>1, <1>4 DEF Chain
    <2>2. t[k] = s[k] /\ (k # 1 => t[k - 1] = s[k - 1])
      BY <1>1, <1>2, <1>4
    <2> QED BY <2>1, <2>2
  <1>5. CASE k = Len(s) + 1
    <2>1. (IF k = 1 THEN p ELSE t[k - 1]) = LastOf(p, s)
      BY <1>1, <1>2, <1>3, <1>5 DEF LastOf
    <2> QED BY <2>1, <1>1, <1>5
  <1> QED BY <1>1, <1>4, <1>5

(* The appended frame is the last.                                         *)
LEMMA LastOfAppend ==
    ASSUME NEW S, NEW s \in Seq(S), NEW x, NEW p
    PROVE  LastOf(p, Append(s, x)) = x
  BY DEF LastOf

(* Taking the first frame moves the start of the chain to it.              *)
LEMMA ChainTail ==
    ASSUME NEW S, NEW s \in Seq(S), s # << >>, NEW p, Chain(p, s)
    PROVE  /\ Follows(p, Head(s))
           /\ Chain(Head(s), Tail(s))
           /\ LastOf(Head(s), Tail(s)) = LastOf(p, s)
  <1> DEFINE t == Tail(s)
  <1> DEFINE h == Head(s)
  <1>1. Len(s) \in Nat \ {0} /\ Len(t) = Len(s) - 1 /\ h = s[1]
    OBVIOUS
  <1>2. \A k \in 1 .. Len(t) : t[k] = s[k + 1]
    OBVIOUS
  <1>3. t = << >> <=> Len(t) = 0
    <2>1. t \in Seq(S)
      OBVIOUS
    <2> QED BY <2>1, EmptySeq
  <1> HIDE DEF t, h
  <1>4. Follows(p, h)
    BY <1>1 DEF Chain
  <1>5. Chain(h, t)
    <2> SUFFICES ASSUME NEW k \in 1 .. Len(t)
                 PROVE  Follows(IF k = 1 THEN h ELSE t[k - 1], t[k])
      BY DEF Chain
    <2>1. k + 1 \in 1 .. Len(s) /\ k + 1 # 1 /\ k + 1 - 1 = k
      BY <1>1
    <2>2. Follows(s[k], s[k + 1])
      <3>1. Follows(IF k + 1 = 1 THEN p ELSE s[k + 1 - 1], s[k + 1])
        BY <2>1 DEF Chain
      <3> QED BY <2>1, <3>1
    <2>3. (IF k = 1 THEN h ELSE t[k - 1]) = s[k]
      <3>1. k # 1 => k - 1 \in 1 .. Len(t) /\ k - 1 + 1 = k
        BY <1>1
      <3>2. k # 1 => t[k - 1] = s[k]
        BY <3>1, <1>2
      <3> QED BY <1>1, <3>2
    <2> QED BY <1>2, <2>2, <2>3
  <1>6. LastOf(h, t) = LastOf(p, s)
    BY <1>1, <1>2, <1>3 DEF LastOf
  <1> QED BY <1>4, <1>5, <1>6 DEF t, h

(* An empty stretch is a chain, and ends where it began.                   *)
LEMMA ChainEmpty == \A p : Chain(p, << >>) /\ LastOf(p, << >>) = p
  BY DEF Chain, LastOf

-----------------------------------------------------------------------------
(* SpeechSegmenter::Process.                                               *)

(* A frame joined to the last one keeps a segment strict.                  *)
LEMMA StrictAppend ==
    ASSUME NEW S, NEW s \in Seq(S), NEW x, s # << >> => Joined(LastOf(NoFrame, s), x),
           Strict(s)
    PROVE  Strict(Append(s, x))
  <1> DEFINE t == Append(s, x)
  <1>1. Len(t) = Len(s) + 1 /\ t[Len(s) + 1] = x /\ Len(s) \in Nat
    OBVIOUS
  <1>2. \A k \in 1 .. Len(s) : t[k] = s[k]
    OBVIOUS
  <1>3. s = << >> <=> Len(s) = 0
    OBVIOUS
  <1> HIDE DEF t
  <1> SUFFICES ASSUME NEW k \in 1 .. Len(t) - 1 PROVE Joined(t[k], t[k + 1])
    BY DEF Strict, t
  <1>4. CASE k < Len(s)
    <2>1. t[k] = s[k] /\ t[k + 1] = s[k + 1] /\ k \in 1 .. Len(s) - 1
      BY <1>1, <1>2, <1>4
    <2> QED BY <2>1 DEF Strict
  <1>5. CASE k = Len(s)
    <2>1. t[k] = LastOf(NoFrame, s) /\ t[k + 1] = x /\ s # << >>
      BY <1>1, <1>2, <1>3, <1>5 DEF LastOf
    <2> QED BY <2>1
  <1> QED BY <1>1, <1>4, <1>5

(* The pre-roll keeps the newest frames, so it ends with the one pushed or *)
(* is empty.                                                               *)
LEMMA PushPreRollKeeps ==
    ASSUME NEW S, NEW pre \in Seq(S), NEW f \in S, Strict(pre),
           pre # << >> => Joined(LastOf(NoFrame, pre), f)
    PROVE  LET r == PushPreRoll(pre, f) IN
           r \in Seq(S) /\ Strict(r) /\ (r = << >> \/ LastOf(NoFrame, r) = f)
  <1> DEFINE all == Append(pre, f)
  <1> DEFINE n == IF Len(all) > PreRoll THEN PreRoll ELSE Len(all)
  <1> DEFINE r == SubSeq(all, Len(all) - n + 1, Len(all))
  <1>1. all \in Seq(S) /\ Len(all) \in Nat /\ all[Len(all)] = f
    OBVIOUS
  <1>2. Strict(all)
    BY StrictAppend
  <1> HIDE DEF all
  <1>3. n \in 0 .. Len(all)
    BY <1>1, SpeechAssumption
  <1> HIDE DEF n
  <1>4. /\ r \in Seq(S) /\ Len(r) = n
        /\ \A k \in 1 .. n : r[k] = all[Len(all) - n + k]
    BY <1>1, <1>3
  <1>5. r = << >> <=> n = 0
    BY <1>4, EmptySeq
  <1> HIDE DEF r
  <1>6. Strict(r)
    <2> SUFFICES ASSUME NEW k \in 1 .. n - 1 PROVE Joined(r[k], r[k + 1])
      BY <1>4 DEF Strict
    <2> DEFINE j == Len(all) - n + k
    <2>1. j \in 1 .. Len(all) - 1 /\ r[k] = all[j] /\ r[k + 1] = all[j + 1]
      <3>1. r[k] = all[Len(all) - n + k] /\ r[k + 1] = all[Len(all) - n + (k + 1)]
        BY <1>3, <1>4
      <3>2. Len(all) - n + (k + 1) = j + 1 /\ j \in 1 .. Len(all) - 1
        BY <1>1, <1>3
      <3> QED BY <3>1, <3>2
    <2> HIDE DEF j
    <2> QED BY <1>2, <2>1 DEF Strict
  <1>7. r = << >> \/ LastOf(NoFrame, r) = f
    <2>1. n # 0 => r[n] = all[Len(all)]
      BY <1>1, <1>3, <1>4
    <2> QED BY <1>1, <1>3, <1>4, <1>5, <2>1 DEF LastOf
  <1>8. PushPreRoll(pre, f) = r
    BY DEF PushPreRoll, r, n, all
  <1> QED BY <1>4, <1>6, <1>7, <1>8

(* What the segmenter holds: a segment, or the pre-roll of the next one.   *)
Holds(pre, seg) == IF seg # NoSegment THEN seg ELSE pre

SegmenterOK(S, pre, seg) ==
    /\ pre \in Seq(S) /\ seg \in Seq(S)
    /\ seg # NoSegment => pre = << >>
    /\ Strict(pre) /\ Strict(seg)

(* Process joins the frame to what it may follow, or starts afresh.        *)
LEMMA ProcessKeeps ==
    ASSUME NEW S, NEW pre, NEW seg, NEW f \in S, NEW voiced \in BOOLEAN,
           SegmenterOK(S, pre, seg), Follows(LastOf(NoFrame, Holds(pre, seg)), f)
    PROVE  LET r == Process(pre, seg, f, voiced) IN
           /\ SegmenterOK(S, r.pre, r.seg)
           /\ LastOf(NoFrame, Holds(r.pre, r.seg)) \in {NoFrame, f}
  <1> DEFINE kept == IF f.gap THEN << >> ELSE pre
  <1> DEFINE r == Process(pre, seg, f, voiced)
  <1>0. << >> \in Seq(S) /\ Strict(<< >>)
    BY DEF Strict
  <1>1. /\ kept \in Seq(S) /\ Strict(kept)
        /\ seg = << >> /\ kept # << >> => Joined(LastOf(NoFrame, kept), f)
        /\ seg # << >> => kept = << >>
    BY <1>0 DEF SegmenterOK, Holds, NoSegment, Follows
  <1>2. ASSUME r.seg = << >>, r.pre = << >>
        PROVE  /\ SegmenterOK(S, r.pre, r.seg)
               /\ LastOf(NoFrame, Holds(r.pre, r.seg)) \in {NoFrame, f}
    BY <1>0, <1>2 DEF SegmenterOK, Holds, NoSegment, LastOf
  <1>3. ASSUME r.seg = << >>, r.pre = PushPreRoll(kept, f)
        PROVE  /\ SegmenterOK(S, r.pre, r.seg)
               /\ LastOf(NoFrame, Holds(r.pre, r.seg)) \in {NoFrame, f}
    <2>1. kept # << >> => Joined(LastOf(NoFrame, kept), f)
      BY <1>1
    <2> HIDE DEF kept
    <2> DEFINE pushed == PushPreRoll(kept, f)
    <2>3. /\ pushed \in Seq(S) /\ Strict(pushed)
          /\ pushed = << >> \/ LastOf(NoFrame, pushed) = f
      BY <1>1, <2>1, PushPreRollKeeps
    <2> HIDE DEF r
    <2>2. /\ r.pre \in Seq(S) /\ Strict(r.pre)
          /\ r.pre = << >> \/ LastOf(NoFrame, r.pre) = f
      BY <1>3, <2>3
    <2> QED BY <1>0, <1>3, <2>2 DEF SegmenterOK, Holds, NoSegment, LastOf
  <1>4. ASSUME NEW s \in Seq(S), r.seg = Append(s, f), r.pre = << >>, Strict(s),
               s # << >> => Joined(LastOf(NoFrame, s), f)
        PROVE  /\ SegmenterOK(S, r.pre, r.seg)
               /\ LastOf(NoFrame, Holds(r.pre, r.seg)) \in {NoFrame, f}
    <2>1. Strict(Append(s, f)) /\ Append(s, f) \in Seq(S) /\ Append(s, f) # << >>
      BY <1>4, StrictAppend
    <2>2. LastOf(NoFrame, Append(s, f)) = f
      BY LastOfAppend
    <2> QED BY <1>0, <1>4, <2>1, <2>2 DEF SegmenterOK, Holds, NoSegment
  <1> DEFINE Good == /\ SegmenterOK(S, r.pre, r.seg)
                     /\ LastOf(NoFrame, Holds(r.pre, r.seg)) \in {NoFrame, f}
  <1>5. ASSUME f.gap, seg # NoSegment PROVE Good
    <2>1. r.seg = << >> /\ r.pre = PushPreRoll(kept, f)
      BY <1>5 DEF Process, NoSegment
    <2> QED BY <2>1, <1>3
  <1>6. ASSUME ~voiced PROVE Good
    <2>1. r.seg = << >> /\ r.pre = PushPreRoll(kept, f)
      BY <1>6 DEF Process, NoSegment
    <2> QED BY <2>1, <1>3
  <1>7. ASSUME voiced, ~(f.gap /\ seg # NoSegment) PROVE Good
    <2> DEFINE s == IF seg = NoSegment THEN kept ELSE seg
    <2> DEFINE full == Len(Append(s, f)) >= MaxSegment
    <2>1. /\ r.pre = IF seg = NoSegment THEN << >> ELSE kept
          /\ r.seg = IF full THEN NoSegment ELSE Append(s, f)
      BY <1>7 DEF Process
    <2>2. r.pre = << >>
      BY <1>1, <2>1 DEF NoSegment
    <2>3. s \in Seq(S) /\ Strict(s)
      BY <1>1 DEF SegmenterOK
    <2>4. s # << >> => Joined(LastOf(NoFrame, s), f)
      <3>1. CASE seg = NoSegment
        BY <1>1, <3>1 DEF NoSegment
      <3>2. CASE seg # NoSegment
        BY <1>7, <3>2 DEF Follows, Holds
      <3> QED BY <3>1, <3>2
    <2>5. r.seg = << >> \/ r.seg = Append(s, f)
      BY <2>1 DEF NoSegment
    <2> HIDE DEF s, r
    <2> QED BY <1>2, <1>4, <2>2, <2>3, <2>4, <2>5
  <1> HIDE DEF Good
  <1>8. Good
    BY <1>5, <1>6, <1>7
  <1> QED BY <1>8 DEF Good

-----------------------------------------------------------------------------
(* The way from the device to the publisher, as one chain behind the frame *)
(* p that the client received last: frames_, the frame ProcessFrames       *)
(* holds, buffer_ and the frame that is read next.                         *)

Flows(p, queue, held, ring, next) ==
    /\ Chain(p, queue)
    /\ held # NoFrame => Follows(LastOf(p, queue), held)
    /\ Chain(Over(LastOf(p, queue), held), ring)
    /\ Follows(LastOf(Over(LastOf(p, queue), held), ring), next)

(* The way goes on behind a weaker frame.                                  *)
LEMMA FlowsWeaker ==
    ASSUME NEW p, NEW q, NEW queue, NEW held, NEW ring, NEW next,
           Flows(p, queue, held, ring, next), Weaker(p, q)
    PROVE  Flows(q, queue, held, ring, next)
  <1>1. Chain(q, queue) /\ Weaker(LastOf(p, queue), LastOf(q, queue))
    BY ChainWeaker DEF Flows
  <1>2. held # NoFrame => Follows(LastOf(q, queue), held)
    BY <1>1, FollowsWeaker DEF Flows
  <1>3. Weaker(Over(LastOf(p, queue), held), Over(LastOf(q, queue), held))
    BY <1>1, NoFrameWeaker DEF Over
  <1> DEFINE h == Over(LastOf(p, queue), held)
  <1> DEFINE k == Over(LastOf(q, queue), held)
  <1>4. Weaker(h, k) /\ Chain(h, ring) /\ Follows(LastOf(h, ring), next)
    BY <1>3 DEF Flows
  <1> HIDE DEF h, k
  <1>5. Chain(k, ring) /\ Weaker(LastOf(h, ring), LastOf(k, ring))
    BY <1>4, ChainWeaker
  <1>6. Follows(LastOf(k, ring), next)
    BY <1>4, <1>5, FollowsWeaker
  <1> QED BY <1>1, <1>2, <1>5, <1>6 DEF Flows, k

(* The frame read goes to the ring, or is lost and the next one says so.   *)
LEMMA FlowsRead ==
    ASSUME NEW S, NEW p, NEW queue, NEW held, NEW ring \in Seq(S), NEW next, NEW after,
           Flows(p, queue, held, ring, next), Follows(next, after)
    PROVE  Flows(p, queue, held, Append(ring, next), after)
  <1> DEFINE h == Over(LastOf(p, queue), held)
  <1>1. Chain(h, ring) /\ Follows(LastOf(h, ring), next)
    BY DEF Flows
  <1> HIDE DEF h
  <1>2. Chain(h, Append(ring, next)) /\ LastOf(h, Append(ring, next)) = next
    BY <1>1, ChainAppend, LastOfAppend
  <1> QED BY <1>2 DEF Flows, h

(* A next frame that says sound is missing may follow anything.            *)
LEMMA FlowsLost ==
    ASSUME NEW p, NEW queue, NEW held, NEW ring, NEW next, NEW after,
           Flows(p, queue, held, ring, next), after.gap
    PROVE  Flows(p, queue, held, ring, after)
  BY DEF Flows, Follows

(* PopFrame: the oldest frame of the ring is the one held.                 *)
LEMMA FlowsPop ==
    ASSUME NEW S, NEW p, NEW queue, NEW ring \in Seq(S), ring # << >>, Head(ring) # NoFrame,
           NEW next, Flows(p, queue, NoFrame, ring, next)
    PROVE  Flows(p, queue, Head(ring), Tail(ring), next)
  <1> DEFINE l == LastOf(p, queue)
  <1> DEFINE f == Head(ring)
  <1>1. Chain(p, queue) /\ Chain(l, ring) /\ Follows(LastOf(l, ring), next)
    BY DEF Flows, Over
  <1> HIDE DEF l
  <1>2. Follows(l, f) /\ Chain(f, Tail(ring)) /\ LastOf(f, Tail(ring)) = LastOf(l, ring)
    BY <1>1, ChainTail
  <1> QED BY <1>1, <1>2 DEF Flows, Over, l

(* Publish: the frame held is the newest of the queue.                     *)
LEMMA FlowsPublish ==
    ASSUME NEW S, NEW p, NEW queue \in Seq(S), NEW held, held # NoFrame, NEW ring, NEW next,
           Flows(p, queue, held, ring, next)
    PROVE  Flows(p, Append(queue, held), NoFrame, ring, next)
  <1>1. /\ Chain(p, queue) /\ Follows(LastOf(p, queue), held)
        /\ Chain(held, ring) /\ Follows(LastOf(held, ring), next)
    BY DEF Flows, Over
  <1>2. Chain(p, Append(queue, held)) /\ LastOf(p, Append(queue, held)) = held
    BY <1>1, ChainAppend, LastOfAppend
  <1> QED BY <1>1, <1>2 DEF Flows, Over

(* TakeFrame: the oldest frame of the queue follows what was sent before.  *)
LEMMA FlowsTake ==
    ASSUME NEW S, NEW p, NEW queue \in Seq(S), queue # << >>, NEW held, NEW ring, NEW next,
           Flows(p, queue, held, ring, next)
    PROVE  Follows(p, Head(queue)) /\ Flows(Head(queue), Tail(queue), held, ring, next)
  <1>1. /\ Follows(p, Head(queue)) /\ Chain(Head(queue), Tail(queue))
        /\ LastOf(Head(queue), Tail(queue)) = LastOf(p, queue)
    BY ChainTail DEF Flows
  <1> QED BY <1>1 DEF Flows

(* Stop of the publisher empties the queue.                                *)
LEMMA FlowsEmptied ==
    ASSUME NEW p, NEW queue, NEW held, NEW ring, NEW next,
           Flows(p, queue, held, ring, next)
    PROVE  Flows(NoFrame, << >>, held, ring, next)
  <1> DEFINE h == Over(LastOf(p, queue), held)
  <1> DEFINE k == Over(NoFrame, held)
  <1>1. Weaker(h, k) /\ Chain(h, ring) /\ Follows(LastOf(h, ring), next)
    BY NoFrameWeaker DEF Flows, Over
  <1> HIDE DEF h, k
  <1>2. Chain(k, ring) /\ Weaker(LastOf(h, ring), LastOf(k, ring))
    BY <1>1, ChainWeaker
  <1>3. Follows(LastOf(k, ring), next)
    BY <1>1, <1>2, FollowsWeaker
  <1>4. Chain(NoFrame, << >>) /\ LastOf(NoFrame, << >>) = NoFrame
    BY ChainEmpty
  <1>5. Follows(NoFrame, held)
    BY DEF Follows, Joined, NoFrame
  <1> QED BY <1>2, <1>3, <1>4, <1>5 DEF Flows, k

(* A new session: the ring is empty, and its first frame follows nothing.  *)
LEMMA FlowsAfresh ==
    ASSUME NEW p, NEW queue, NEW ring, NEW next, NEW after, Flows(p, queue, NoFrame, ring, next),
           after.sess # LastOf(p, queue).sess
    PROVE  Flows(p, queue, NoFrame, << >>, after)
  <1>1. Chain(LastOf(p, queue), << >>) /\ LastOf(LastOf(p, queue), << >>) = LastOf(p, queue)
    BY ChainEmpty
  <1>2. Follows(LastOf(p, queue), after)
    BY DEF Follows, Joined
  <1> QED BY <1>1, <1>2 DEF Flows, Over

-----------------------------------------------------------------------------
(* The invariant of the whole way.                                         *)

Sounds == [at : Nat, sess : 1 .. mic.sess, gap : BOOLEAN]
CapRecords ==
    [ctl : {"idle", "stopping", "joining", "opening", "down"}, then : {"idle", "open", "down"},
     state : {"stopped", "starting", "running", "faulted"},
     reader : {"none", "opening", "reading"}, stop : BOOLEAN, gap : BOOLEAN,
     ring : Seq(Sounds), proc : {"none", "run", "publish", "empty"}, procStop : BOOLEAN,
     held : Sounds \cup {NoFrame}]
PubRecords ==
    [up : BOOLEAN, queue : Seq(Sounds), gap : BOOLEAN, fd : 0 .. aud.used,
     backlog : Seq(1 .. aud.used), sending : Sounds \cup {NoFrame}]
AudRecords ==
    [conn : Nat, used : Nat, inbox : Seq(Sounds), mode : {"other", "speech"},
     pre : Seq(Sounds), seg : Seq(Sounds), agent : {"up", "stopping", "down"}]

SpeechTypes ==
    /\ mic \in [now : Nat, sess : Nat]
    /\ cap \in CapRecords /\ pub \in PubRecords /\ aud \in AudRecords

(* Where the threads of the capture are.                                   *)
CapturePlaces ==
    /\ cap.ctl = "opening" => cap.proc = "none"
    /\ cap.held # NoFrame <=> cap.proc = "publish"
    /\ cap.reader # "none" => mic.sess >= 1

(* The last frame of the segmenter, of the client's socket, and of all     *)
(* that the publisher has taken; a client that Run does not serve will be  *)
(* sent nothing before a frame with the flag.                              *)
Received == LastOf(NoFrame, Holds(aud.pre, aud.seg))
Arrived == LastOf(Received, aud.inbox)
Sent == Over(Arrived, pub.sending)
Live == pub.fd # 0 /\ pub.fd = aud.conn
Known == IF Live /\ ~pub.gap THEN Sent ELSE NoFrame
NextRead == [at |-> mic.now + 1, sess |-> mic.sess, gap |-> cap.gap]

Arrivals ==
    /\ Chain(Received, aud.inbox)
    /\ pub.sending # NoFrame => pub.fd # 0 /\ (Live => Follows(Arrived, pub.sending))
Departures == Flows(Known, pub.queue, cap.held, cap.ring, NextRead)

SpeechInv ==
    /\ SpeechTypes /\ CapturePlaces
    /\ SegmenterOK(Sounds, aud.pre, aud.seg)
    /\ Arrivals /\ Departures

(* The fields of the four records.                                         *)
LEMMA SpeechFields ==
    ASSUME SpeechTypes
    PROVE  /\ mic.now \in Nat /\ mic.sess \in Nat
           /\ cap.ring \in Seq(Sounds) /\ cap.held \in Sounds \cup {NoFrame}
           /\ cap.gap \in BOOLEAN /\ cap.procStop \in BOOLEAN
           /\ cap.then \in {"idle", "open", "down"}
           /\ pub.queue \in Seq(Sounds) /\ pub.sending \in Sounds \cup {NoFrame}
           /\ pub.gap \in BOOLEAN /\ pub.fd \in 0 .. aud.used /\ pub.backlog \in Seq(1 .. aud.used)
           /\ aud.conn \in Nat /\ aud.used \in Nat /\ aud.inbox \in Seq(Sounds)
           /\ aud.pre \in Seq(Sounds) /\ aud.seg \in Seq(Sounds)
  BY DEF SpeechTypes, CapRecords, PubRecords, AudRecords

(* A frame that was read is not NoFrame, and of a session that has begun.  *)
LEMMA SoundFields ==
    ASSUME NEW f \in Sounds
    PROVE  /\ f.at \in Nat /\ f.sess \in 1 .. mic.sess /\ f.gap \in BOOLEAN
           /\ f # NoFrame
  BY DEF Sounds, NoFrame

(* A step of the capture within a session: what the client has is left     *)
(* alone, and the rest of the way is still one chain.                      *)
LEMMA CaptureMoves ==
    ASSUME SpeechInv, UNCHANGED <<pub, aud>>, mic' \in [now : Nat, sess : Nat],
           mic'.sess = mic.sess, cap' \in CapRecords, CapturePlaces',
           Flows(Known, pub.queue, cap'.held, cap'.ring, NextRead')
    PROVE  SpeechInv'
  <1>1. Sounds' = Sounds /\ Known' = Known
    BY DEF Sounds, Known, Sent, Arrived, Received, Live
  <1>2. SpeechTypes'
    BY <1>1 DEF SpeechInv, SpeechTypes, CapRecords, PubRecords, AudRecords
  <1>3. SegmenterOK(Sounds, aud.pre, aud.seg)' /\ Arrivals'
    BY <1>1 DEF SpeechInv, Arrivals, Arrived, Received, Live
  <1>4. Departures'
    BY <1>1 DEF Departures
  <1> QED BY <1>2, <1>3, <1>4 DEF SpeechInv

(* One that touches no frame.                                              *)
LEMMA CaptureIdles ==
    ASSUME SpeechInv, UNCHANGED <<pub, aud, mic>>, cap' \in CapRecords, CapturePlaces',
           cap'.held = cap.held, cap'.ring = cap.ring, cap'.gap = cap.gap
    PROVE  SpeechInv'
  <1>1. NextRead' = NextRead
    BY DEF NextRead
  <1>2. Flows(Known, pub.queue, cap'.held, cap'.ring, NextRead')
    BY <1>1 DEF SpeechInv, Departures
  <1> QED BY <1>2, CaptureMoves DEF SpeechInv, SpeechTypes

(* Start and Stop of the controller, up to the joins.                      *)
LEMMA ControlKeeps ==
    ASSUME SpeechInv, UNCHANGED aud,
           \/ CaptureCall \/ ReaderJoined \/ CaptureReady \/ CaptureNotReady
           \/ DeviceOpened \/ DeviceFails \/ ReaderStops \/ FindEmpty \/ ProcessingStops
    PROVE  SpeechInv'
  <1>t. cap \in CapRecords /\ CapturePlaces
    BY DEF SpeechInv, SpeechTypes
  <1>1. UNCHANGED <<pub, aud, mic>>
    BY DEF CaptureCall, CaptureStart, CaptureStop, CaptureShutdown, ReaderJoined, CaptureReady,
           CaptureNotReady, DeviceOpened, DeviceFails, ReaderStops, FindEmpty, ProcessingStops
  <1>2. ASSUME NEW then \in {"idle", "open", "down"}, StopLocked(then) PROVE SpeechInv'
    <2>1. /\ cap' \in CapRecords /\ cap'.held = cap.held /\ cap'.ring = cap.ring
          /\ cap'.gap = cap.gap /\ cap'.ctl = "stopping" /\ cap'.proc = cap.proc
          /\ cap'.reader = cap.reader
      BY <1>t, <1>2 DEF StopLocked, CapRecords
    <2>2. CapturePlaces'
      BY <1>t, <1>1, <2>1 DEF CapturePlaces
    <2> QED BY <1>1, <2>1, <2>2, CaptureIdles
  <1>3. CASE CaptureCall \/ CaptureNotReady
    BY <1>2, <1>3 DEF CaptureCall, CaptureStart, CaptureStop, CaptureShutdown, CaptureNotReady
  <1>4. CASE ReaderJoined \/ CaptureReady
    <2>1. /\ cap' \in CapRecords /\ cap'.held = cap.held /\ cap'.ring = cap.ring
          /\ cap'.gap = cap.gap /\ cap'.ctl \in {"joining", "idle"} /\ cap'.reader = cap.reader
          /\ \/ cap'.proc = cap.proc
             \/ cap.ctl = "opening" /\ cap'.proc = "run"
      BY <1>t, <1>4 DEF ReaderJoined, CaptureReady, CapRecords
    <2>2. CapturePlaces'
      BY <1>t, <1>1, <2>1 DEF CapturePlaces
    <2> QED BY <1>1, <2>1, <2>2, CaptureIdles
  <1>5. CASE DeviceOpened \/ DeviceFails \/ ReaderStops
    <2>1. /\ cap' \in CapRecords /\ cap'.held = cap.held /\ cap'.ring = cap.ring
          /\ cap'.gap = cap.gap /\ cap'.ctl = cap.ctl /\ cap'.proc = cap.proc
          /\ cap.reader # "none"
      BY <1>t, <1>5 DEF DeviceOpened, DeviceFails, ReaderStops, CapRecords
    <2>2. CapturePlaces'
      BY <1>t, <1>1, <2>1 DEF CapturePlaces
    <2> QED BY <1>1, <2>1, <2>2, CaptureIdles
  <1>6. CASE FindEmpty \/ ProcessingStops
    <2>1. /\ cap' \in CapRecords /\ cap'.held = cap.held /\ cap'.ring = cap.ring
          /\ cap'.gap = cap.gap /\ cap'.ctl = cap.ctl /\ cap'.reader = cap.reader
          /\ cap.proc \in {"run", "empty"} /\ cap'.proc \in {"run", "empty", "none"}
      BY <1>t, <1>6 DEF FindEmpty, ProcessingStops, CapRecords
    <2>2. CapturePlaces'
      BY <1>t, <1>1, <2>1 DEF CapturePlaces
    <2> QED BY <1>1, <2>1, <2>2, CaptureIdles
  <1> QED BY <1>3, <1>4, <1>5, <1>6

(* ReadFrame and Overrun: a frame that is not in the ring is missed by the *)
(* flag of the next.                                                       *)
LEMMA ReadKeeps ==
    ASSUME SpeechInv, UNCHANGED aud, ReadFrame \/ Overrun
    PROVE  SpeechInv'
  <1>t. /\ cap \in CapRecords /\ CapturePlaces /\ cap.ring \in Seq(Sounds)
        /\ mic \in [now : Nat, sess : Nat] /\ cap.gap \in BOOLEAN
        /\ Flows(Known, pub.queue, cap.held, cap.ring, NextRead)
    BY SpeechFields DEF SpeechInv, SpeechTypes, Departures
  <1>1. /\ UNCHANGED <<pub, aud>> /\ cap.reader = "reading"
        /\ mic' = [mic EXCEPT !.now = mic.now + 1]
    BY DEF ReadFrame, Overrun
  <1>2. mic.now + 1 \in Nat
    BY <1>t
  <1> DEFINE n == mic.now + 1
  <1>3. mic' \in [now : Nat, sess : Nat] /\ mic'.sess = mic.sess /\ mic'.now = n
    <2> HIDE DEF n
    <2>1. n \in Nat /\ mic' = [mic EXCEPT !.now = n]
      BY <1>1, <1>2 DEF n
    <2> QED BY <2>1, <1>t
  <1>4. NextRead \in Sounds /\ NextRead.at = n /\ NextRead.sess = mic.sess
    BY <1>t, <1>1, <1>2 DEF NextRead, Sounds, CapturePlaces
  <1> HIDE DEF n
  <1>5. /\ cap' = [cap EXCEPT !.ring = Append(cap.ring, NextRead), !.gap = FALSE]
        \/ cap' = [cap EXCEPT !.gap = TRUE]
    BY DEF ReadFrame, Overrun, NextRead
  <1>6. CASE cap' = [cap EXCEPT !.ring = Append(cap.ring, NextRead), !.gap = FALSE]
    <2> DEFINE ring == Append(cap.ring, NextRead)
    <2>1. ring \in Seq(Sounds)
      BY <1>t, <1>4
    <2>2. Follows(NextRead, NextRead')
      BY <1>3, <1>4, <1>2 DEF NextRead, Follows, Joined, n
    <2>3. Flows(Known, pub.queue, cap.held, ring, NextRead')
      BY <1>t, <2>2, FlowsRead
    <2> HIDE DEF ring
    <2>4. /\ cap' \in CapRecords /\ cap'.held = cap.held /\ cap'.ring = ring
          /\ cap'.ctl = cap.ctl /\ cap'.proc = cap.proc /\ cap'.reader = cap.reader
      BY <1>t, <1>6, <2>1 DEF CapRecords, ring
    <2>5. CapturePlaces'
      BY <1>t, <1>3, <2>4 DEF CapturePlaces
    <2> QED BY <1>1, <1>3, <2>3, <2>4, <2>5, CaptureMoves
  <1>7. CASE cap' = [cap EXCEPT !.gap = TRUE]
    <2>4. /\ cap' \in CapRecords /\ cap'.held = cap.held /\ cap'.ring = cap.ring /\ cap'.gap
          /\ cap'.ctl = cap.ctl /\ cap'.proc = cap.proc /\ cap'.reader = cap.reader
      BY <1>t, <1>7 DEF CapRecords
    <2>2. NextRead'.gap
      BY <2>4 DEF NextRead
    <2>3. Flows(Known, pub.queue, cap'.held, cap'.ring, NextRead')
      BY <1>t, <2>2, <2>4, FlowsLost
    <2>5. CapturePlaces'
      BY <1>t, <1>3, <2>4 DEF CapturePlaces
    <2> QED BY <1>1, <1>3, <2>3, <2>4, <2>5, CaptureMoves
  <1> QED BY <1>5, <1>6, <1>7

(* PopFrame.                                                               *)
LEMMA PopKeeps ==
    ASSUME SpeechInv, UNCHANGED aud, PopFrame
    PROVE  SpeechInv'
  <1>t. /\ cap \in CapRecords /\ CapturePlaces /\ cap.ring \in Seq(Sounds)
        /\ Flows(Known, pub.queue, cap.held, cap.ring, NextRead)
    BY SpeechFields DEF SpeechInv, SpeechTypes, Departures
  <1>1. /\ UNCHANGED <<pub, aud, mic>> /\ cap.proc = "run" /\ cap.ring # << >>
        /\ cap' = [cap EXCEPT !.proc = "publish", !.held = Head(cap.ring), !.ring = Tail(cap.ring)]
    BY DEF PopFrame
  <1>2. /\ Head(cap.ring) \in Sounds /\ Head(cap.ring) # NoFrame /\ Tail(cap.ring) \in Seq(Sounds)
    BY <1>t, <1>1, SoundFields
  <1>3. cap.held = NoFrame
    BY <1>t, <1>1 DEF CapturePlaces
  <1>4. Flows(Known, pub.queue, Head(cap.ring), Tail(cap.ring), NextRead)
    BY <1>t, <1>1, <1>2, <1>3, FlowsPop
  <1>5. /\ cap' \in CapRecords /\ cap'.held = Head(cap.ring) /\ cap'.ring = Tail(cap.ring)
        /\ cap'.ctl = cap.ctl /\ cap'.proc = "publish" /\ cap'.reader = cap.reader
        /\ cap'.gap = cap.gap
    BY <1>t, <1>1, <1>2 DEF CapRecords
  <1>6. CapturePlaces'
    BY <1>t, <1>1, <1>2, <1>5 DEF CapturePlaces
  <1>7. NextRead' = NextRead
    BY <1>1, <1>5 DEF NextRead
  <1> QED BY <1>1, <1>4, <1>5, <1>6, <1>7, CaptureMoves DEF SpeechInv, SpeechTypes

(* Start goes on with a new session; no thread of the last one is left.    *)
LEMMA JoinedKeeps ==
    ASSUME SpeechInv, UNCHANGED aud, ProcessingJoined
    PROVE  SpeechInv'
  <1>t. /\ cap \in CapRecords /\ CapturePlaces /\ mic \in [now : Nat, sess : Nat]
        /\ mic.sess \in Nat /\ cap.then \in {"idle", "open", "down"}
        /\ Flows(Known, pub.queue, cap.held, cap.ring, NextRead)
    BY SpeechFields DEF SpeechInv, SpeechTypes, Departures
  <1>1. UNCHANGED <<pub, aud>> /\ cap.proc = "none" /\ cap.held = NoFrame
    BY <1>t DEF ProcessingJoined, CapturePlaces
  <1>2. CASE cap.then # "open"
    <2>1. cap' = [cap EXCEPT !.ctl = cap.then] /\ UNCHANGED mic
      BY <1>2 DEF ProcessingJoined
    <2>2. /\ cap' \in CapRecords /\ cap'.held = cap.held /\ cap'.ring = cap.ring
          /\ cap'.gap = cap.gap /\ cap'.ctl # "opening" /\ cap'.proc = cap.proc
          /\ cap'.reader = cap.reader
      BY <1>t, <1>2, <2>1 DEF CapRecords
    <2>3. CapturePlaces'
      BY <1>t, <2>1, <2>2 DEF CapturePlaces
    <2> QED BY <1>1, <2>1, <2>2, <2>3, CaptureIdles
  <1>3. CASE cap.then = "open"
    <2> DEFINE n == mic.sess + 1
    <2>1. /\ mic' = [mic EXCEPT !.sess = n]
          /\ cap' = [cap EXCEPT !.ctl = "opening", !.state = "starting", !.reader = "opening",
                                !.stop = FALSE, !.gap = FALSE, !.ring = << >>]
      BY <1>3 DEF ProcessingJoined
    <2>2. n \in Nat /\ n > mic.sess
      BY <1>t
    <2> HIDE DEF n
    <2>3. mic' \in [now : Nat, sess : Nat] /\ mic'.sess = n
      BY <1>t, <2>1, <2>2
    <2>4. Sounds \subseteq Sounds'
      BY <1>t, <2>2, <2>3 DEF Sounds
    <2>5. \A s \in Seq(Sounds) : s \in Seq(Sounds)'
      BY <2>4
    <2>6. pub \in PubRecords'
      <3>1. pub \in PubRecords
        BY DEF SpeechInv, SpeechTypes
      <3> QED BY <1>1, <2>4, <2>5, <3>1 DEF PubRecords
    <2>7. aud \in AudRecords'
      <3>1. aud \in AudRecords
        BY DEF SpeechInv, SpeechTypes
      <3> QED BY <2>4, <2>5, <3>1 DEF AudRecords
    <2>8. /\ cap' \in CapRecords' /\ cap'.held = NoFrame /\ cap'.ring = << >>
          /\ cap'.ctl = "opening" /\ cap'.proc = "none"
      <3>1. << >> \in Seq(Sounds)'
        OBVIOUS
      <3> QED BY <1>1, <1>t, <2>1, <2>4, <2>5, <3>1 DEF CapRecords
    <2>9. CapturePlaces'
      BY <2>2, <2>3, <2>8, <1>t DEF CapturePlaces
    <2>10. SegmenterOK(Sounds, aud.pre, aud.seg)'
      BY <2>5, SpeechFields DEF SpeechInv, SegmenterOK
    <2>11. Arrivals' /\ Known' = Known
      BY <1>1 DEF SpeechInv, Arrivals, Arrived, Received, Live, Known, Sent
    <2>12. Departures'
      <3> DEFINE l == LastOf(Known, pub.queue)
      <3>1. l \in Sounds \cup {NoFrame}
        <4>1. Known \in Sounds \cup {NoFrame}
          BY SpeechFields DEF SpeechInv, Known, Sent, Over, Arrived, Received, Holds, LastOf
        <4> QED BY <4>1, SpeechFields DEF SpeechInv, LastOf
      <3>2. l.sess \in 0 .. mic.sess
        BY <1>t, <3>1, SoundFields DEF NoFrame
      <3>3. NextRead'.sess = n
        BY <2>3 DEF NextRead
      <3>4. NextRead'.sess # l.sess
        BY <1>t, <2>2, <3>2, <3>3
      <3>5. Flows(Known, pub.queue, NoFrame, << >>, NextRead')
        BY <1>1, <1>t, <3>4, FlowsAfresh
      <3> QED BY <1>1, <2>8, <2>11, <3>5 DEF Departures
    <2>13. SpeechTypes'
      BY <1>1, <2>3, <2>6, <2>7, <2>8 DEF SpeechTypes
    <2> QED BY <2>9, <2>10, <2>11, <2>12, <2>13 DEF SpeechInv
  <1> QED BY <1>2, <1>3

(* Publish; a frame it throws out of a full queue is missed by the flag.   *)
LEMMA PublishKeeps ==
    ASSUME SpeechInv, UNCHANGED aud, Publish
    PROVE  SpeechInv'
  <1>t. /\ cap \in CapRecords /\ pub \in PubRecords /\ CapturePlaces
        /\ pub.queue \in Seq(Sounds) /\ cap.held \in Sounds \cup {NoFrame}
        /\ Flows(Known, pub.queue, cap.held, cap.ring, NextRead)
    BY SpeechFields DEF SpeechInv, SpeechTypes, Departures
  <1>1. /\ UNCHANGED <<aud, mic>> /\ cap.proc = "publish"
        /\ cap' = [cap EXCEPT !.proc = "run", !.held = NoFrame]
    BY DEF Publish
  <1>2. cap.held # NoFrame /\ cap.held \in Sounds
    BY <1>1, <1>t DEF CapturePlaces
  <1>3. /\ cap' \in CapRecords /\ cap'.held = NoFrame /\ cap'.ring = cap.ring
        /\ cap'.ctl = cap.ctl /\ cap'.proc = "run" /\ cap'.reader = cap.reader
        /\ cap'.gap = cap.gap
    BY <1>t, <1>1 DEF CapRecords
  <1>4. CapturePlaces'
    BY <1>t, <1>1, <1>3 DEF CapturePlaces
  <1>5. Sounds' = Sounds /\ NextRead' = NextRead /\ Received' = Received /\ Arrived' = Arrived
    BY <1>1, <1>3 DEF Sounds, NextRead, Received, Arrived
  <1>6. ASSUME NEW q \in Seq(Sounds), NEW g \in BOOLEAN,
               pub' = [pub EXCEPT !.queue = q, !.gap = g],
               Flows(IF Live /\ ~g THEN Sent ELSE NoFrame, q, NoFrame, cap.ring, NextRead)
        PROVE  SpeechInv'
    <2>1. /\ pub' \in PubRecords /\ pub'.fd = pub.fd /\ pub'.sending = pub.sending
          /\ pub'.queue = q /\ pub'.gap = g
      BY <1>t, <1>6 DEF PubRecords
    <2>2. Live' = Live /\ Sent' = Sent /\ Known' = IF Live /\ ~g THEN Sent ELSE NoFrame
      BY <1>1, <1>5, <2>1 DEF Live, Sent, Known
    <2>3. Departures'
      BY <1>3, <1>5, <1>6, <2>1, <2>2 DEF Departures
    <2>4. Arrivals' /\ SegmenterOK(Sounds, aud.pre, aud.seg)'
      BY <1>1, <1>5, <2>1, <2>2 DEF SpeechInv, Arrivals
    <2>5. SpeechTypes'
      BY <1>1, <1>3, <1>5, <2>1
         DEF SpeechInv, SpeechTypes, CapRecords, PubRecords, AudRecords
    <2> QED BY <1>4, <2>3, <2>4, <2>5 DEF SpeechInv
  <1>7. CASE Len(pub.queue) >= QueueLimit
    <2> DEFINE q == Append(Tail(pub.queue), cap.held)
    <2>1. pub.queue # << >> /\ Tail(pub.queue) \in Seq(Sounds)
      BY <1>t, <1>7, CaptureAssumption, EmptySeq
    <2>2. q \in Seq(Sounds)
      BY <1>2, <2>1
    <2>3. pub' = [pub EXCEPT !.queue = q, !.gap = TRUE]
      BY <1>7 DEF Publish
    <2>4. Flows(Head(pub.queue), Tail(pub.queue), cap.held, cap.ring, NextRead)
      BY <1>t, <2>1, FlowsTake
    <2>5. Flows(NoFrame, Tail(pub.queue), cap.held, cap.ring, NextRead)
      BY <2>4, FlowsWeaker, NoFrameWeaker
    <2>6. Flows(NoFrame, q, NoFrame, cap.ring, NextRead)
      BY <1>2, <2>1, <2>5, FlowsPublish
    <2> HIDE DEF q
    <2> QED BY <1>6, <2>2, <2>3, <2>6
  <1>8. CASE ~(Len(pub.queue) >= QueueLimit)
    <2> DEFINE q == Append(pub.queue, cap.held)
    <2>1. q \in Seq(Sounds)
      BY <1>2, <1>t
    <2>2. Flows(Known, q, NoFrame, cap.ring, NextRead)
      BY <1>2, <1>t, FlowsPublish
    <2>3. pub' = [pub EXCEPT !.queue = q]
      BY <1>8 DEF Publish
    <2> HIDE DEF q
    <2>4. pub' = [pub EXCEPT !.queue = q, !.gap = pub.gap] /\ pub.gap \in BOOLEAN
      BY <1>t, <2>3 DEF PubRecords
    <2> QED BY <1>6, <2>1, <2>2, <2>4 DEF Known
  <1> QED BY <1>7, <1>8

-----------------------------------------------------------------------------
(* The publisher's thread and the client.                                  *)

(* A step of theirs: the chain begins where the publisher's knowledge of   *)
(* the client ends.                                                        *)
LEMMA ClientMoves ==
    ASSUME SpeechInv, UNCHANGED <<cap, mic>>, pub' \in PubRecords', aud' \in AudRecords',
           SegmenterOK(Sounds, aud'.pre, aud'.seg), Arrivals',
           Flows(Known', pub'.queue, cap.held, cap.ring, NextRead)
    PROVE  SpeechInv'
  <1>1. Sounds' = Sounds /\ NextRead' = NextRead
    BY DEF Sounds, NextRead
  <1>2. SpeechTypes' /\ CapturePlaces'
    BY <1>1 DEF SpeechInv, SpeechTypes, CapturePlaces, CapRecords
  <1>3. Departures'
    BY <1>1 DEF Departures
  <1> QED BY <1>1, <1>2, <1>3 DEF SpeechInv

(* The publisher serves nobody, or a client that is not ours any more.     *)
LEMMA UnservedMoves ==
    ASSUME SpeechInv, UNCHANGED <<cap, mic>>, pub' \in PubRecords', aud' \in AudRecords',
           SegmenterOK(Sounds, aud'.pre, aud'.seg), Chain(Received', aud'.inbox),
           pub'.sending # NoFrame => pub'.fd # 0,
           ~Live' \/ (pub'.gap /\ pub'.sending = NoFrame),
           pub'.queue = pub.queue
    PROVE  SpeechInv'
  <1>1. Known' = NoFrame /\ Arrivals'
    BY DEF Known, Arrivals
  <1>2. Flows(NoFrame, pub.queue, cap.held, cap.ring, NextRead)
    BY FlowsWeaker, NoFrameWeaker DEF SpeechInv, Departures
  <1> QED BY <1>1, <1>2, ClientMoves

(* Run of AudioStreamPublisher.                                            *)
LEMMA PublisherKeeps ==
    ASSUME SpeechInv, UNCHANGED aud, PublisherStep
    PROVE  SpeechInv'
  <1>t. /\ pub \in PubRecords /\ aud \in AudRecords /\ pub.queue \in Seq(Sounds)
        /\ pub.fd \in 0 .. aud.used /\ pub.backlog \in Seq(1 .. aud.used)
        /\ pub.gap \in BOOLEAN
        /\ SegmenterOK(Sounds, aud.pre, aud.seg)
        /\ Arrivals
        /\ Flows(Known, pub.queue, cap.held, cap.ring, NextRead)
    BY SpeechFields DEF SpeechInv, SpeechTypes, Departures
  <1>1. UNCHANGED <<cap, mic, aud>>
    BY DEF PublisherStep, AcceptClient, TakeFrame, PublisherStop
  <1>2. /\ Sounds' = Sounds /\ Received' = Received /\ Arrived' = Arrived
        /\ PubRecords' = PubRecords /\ AudRecords' = AudRecords
    BY <1>1 DEF Sounds, Received, Arrived, PubRecords, AudRecords
  <1>3. CASE AcceptClient
    <2>1. /\ pub.fd = 0 /\ pub.backlog # << >>
          /\ pub' = [pub EXCEPT !.fd = Head(pub.backlog), !.backlog = Tail(pub.backlog),
                                !.gap = TRUE]
      BY <1>3 DEF AcceptClient
    <2> DEFINE B == 1 .. aud.used
    <2>b. pub.backlog \in Seq(B) /\ pub.backlog # << >>
      BY <1>t, <2>1
    <2> HIDE DEF B
    <2>h. Head(pub.backlog) \in B /\ Tail(pub.backlog) \in Seq(B)
      BY <2>b
    <2>2. Head(pub.backlog) \in 1 .. aud.used /\ Tail(pub.backlog) \in Seq(1 .. aud.used)
      BY <2>h DEF B
    <2>3. Head(pub.backlog) \in 0 .. aud.used
      BY <2>2
    <2>4. /\ pub' \in PubRecords /\ pub'.queue = pub.queue /\ pub'.gap
          /\ pub'.sending = pub.sending
      BY <1>t, <2>1, <2>2, <2>3 DEF PubRecords
    <2>5. pub.sending = NoFrame
      BY <1>t, <2>1 DEF Arrivals
    <2> QED BY <1>1, <1>2, <1>t, <2>4, <2>5, UnservedMoves DEF Arrivals
  <1>4. CASE TakeFrame
    <2> DEFINE first == Head(pub.queue)
    <2> DEFINE g == first.gap \/ pub.gap
    <2> DEFINE f == [first EXCEPT !.gap = g]
    <2> DEFINE rest == Tail(pub.queue)
    <2>1. /\ pub.fd # 0 /\ pub.sending = NoFrame /\ pub.queue # << >>
          /\ pub' = [pub EXCEPT !.queue = rest, !.gap = FALSE, !.sending = f]
      BY <1>4 DEF TakeFrame
    <2>2. first \in Sounds /\ rest \in Seq(Sounds)
      BY <1>t, <2>1
    <2>3. Follows(Known, first) /\ Flows(first, rest, cap.held, cap.ring, NextRead)
      BY <1>t, <2>1, FlowsTake
    <2>4. g \in BOOLEAN
      BY <1>t, <2>2, SoundFields
    <2>5. (pub.gap => g) /\ (first.gap => g)
      OBVIOUS
    <2> HIDE DEF first, rest, g
    <2>6. f \in Sounds /\ f.at = first.at /\ f.sess = first.sess /\ f.gap = g
      BY <2>2, <2>4 DEF Sounds
    <2> HIDE DEF f
    <2>7. f # NoFrame
      BY <2>6, SoundFields
    <2>8. /\ pub' \in PubRecords /\ pub'.queue = rest /\ ~pub'.gap /\ pub'.sending = f
          /\ pub'.fd = pub.fd
      BY <1>t, <2>1, <2>2, <2>6 DEF PubRecords
    <2>9. Live' = Live
      BY <1>1, <2>8 DEF Live
    <2>10. Live => Follows(Arrived, f)
      <3>1. CASE g
        BY <2>6, <3>1 DEF Follows
      <3>2. CASE ~g
        <4>1. Live => Known = Arrived
          BY <2>1, <2>5, <3>2 DEF Known, Sent, Over
        <4>2. Live => Joined(Arrived, first)
          BY <2>3, <2>5, <3>2, <4>1 DEF Follows
        <4> QED BY <4>2, <2>6 DEF Follows, Joined
      <3> QED BY <3>1, <3>2
    <2>11. Arrivals'
      BY <1>1, <1>2, <1>t, <2>1, <2>8, <2>9, <2>10 DEF Arrivals
    <2>12. Weaker(first, Known')
      BY <1>2, <2>6, <2>7, <2>8 DEF Known, Sent, Over, Weaker, NoFrame
    <2>13. Flows(Known', rest, cap.held, cap.ring, NextRead)
      BY <2>3, <2>12, FlowsWeaker
    <2> QED BY <1>1, <1>2, <1>t, <2>8, <2>11, <2>13, ClientMoves
  <1>5. CASE PublisherStop
    <2>1. pub' = [pub EXCEPT !.up = FALSE, !.fd = 0, !.queue = << >>, !.gap = FALSE,
                             !.sending = NoFrame, !.backlog = << >>]
      BY <1>5 DEF PublisherStop
    <2>2. << >> \in Seq(Sounds) /\ << >> \in Seq(1 .. aud.used) /\ 0 \in 0 .. aud.used
      BY SpeechFields DEF SpeechInv
    <2>3. /\ pub' \in PubRecords /\ pub'.queue = << >> /\ pub'.sending = NoFrame /\ pub'.fd = 0
      BY <1>t, <2>1, <2>2 DEF PubRecords
    <2>4. Known' = NoFrame /\ Arrivals'
      BY <1>1, <1>2, <1>t, <2>3 DEF Known, Live, Arrivals
    <2>5. Flows(NoFrame, << >>, cap.held, cap.ring, NextRead)
      BY <1>t, FlowsEmptied
    <2> QED BY <1>1, <1>2, <1>t, <2>3, <2>4, <2>5, ClientMoves
  <1> QED BY <1>3, <1>4, <1>5 DEF PublisherStep

(* SendFrame: the frame is the last that arrived, or the publisher gives   *)
(* the client up.                                                          *)
LEMMA SoundSendKeeps ==
    ASSUME SpeechInv, SendFrame
    PROVE  SpeechInv'
  <1>t. /\ pub \in PubRecords /\ aud \in AudRecords /\ aud.inbox \in Seq(Sounds)
        /\ pub.sending \in Sounds \cup {NoFrame} /\ 0 \in 0 .. aud.used
        /\ SegmenterOK(Sounds, aud.pre, aud.seg) /\ Arrivals
        /\ Flows(Known, pub.queue, cap.held, cap.ring, NextRead)
    BY SpeechFields DEF SpeechInv, SpeechTypes, Departures
  <1>1. UNCHANGED <<cap, mic>> /\ pub.sending # NoFrame
    BY DEF SendFrame
  <1>2. Sounds' = Sounds
    BY <1>1 DEF Sounds
  <1>3. CASE UNCHANGED aud
    <2>1. \/ pub' = [pub EXCEPT !.sending = NoFrame, !.fd = 0]
          \/ aud' = [aud EXCEPT !.inbox = Append(aud.inbox, pub.sending)]
      BY DEF SendFrame
    <2>2. Append(aud.inbox, pub.sending) # aud.inbox
      <3>1. Len(Append(aud.inbox, pub.sending)) = Len(aud.inbox) + 1 /\ Len(aud.inbox) \in Nat
        BY <1>t
      <3> QED BY <3>1
    <2>3. pub' = [pub EXCEPT !.sending = NoFrame, !.fd = 0]
      BY <1>3, <1>t, <2>1, <2>2 DEF AudRecords
    <2>4. /\ pub' \in PubRecords /\ pub'.sending = NoFrame /\ pub'.fd = 0
          /\ pub'.queue = pub.queue
      BY <1>t, <2>3 DEF PubRecords
    <2>5. pub' \in PubRecords' /\ aud' \in AudRecords' /\ ~Live' /\ Received' = Received
      BY <1>2, <1>3, <1>t, <2>4 DEF PubRecords, AudRecords, Live, Received
    <2> QED BY <1>1, <1>3, <1>t, <2>4, <2>5, UnservedMoves DEF Arrivals
  <1>4. CASE pub.fd = aud.conn /\ aud' = [aud EXCEPT !.inbox = Append(aud.inbox, pub.sending)]
             /\ pub' = [pub EXCEPT !.sending = NoFrame]
    <2> DEFINE f == pub.sending
    <2> DEFINE inbox == Append(aud.inbox, f)
    <2>1. f \in Sounds /\ inbox \in Seq(Sounds)
      BY <1>t, <1>1
    <2>2. Live /\ Follows(Arrived, f) /\ Sent = f
      BY <1>1, <1>4, <1>t DEF Arrivals, Live, Sent, Over
    <2>3. Chain(Received, inbox) /\ LastOf(Received, inbox) = f
      BY <1>t, <2>2, ChainAppend, LastOfAppend DEF Arrivals, Arrived
    <2> HIDE DEF inbox
    <2>4. /\ aud' \in AudRecords /\ aud'.inbox = inbox /\ aud'.conn = aud.conn
          /\ aud'.used = aud.used /\ aud'.pre = aud.pre /\ aud'.seg = aud.seg
      BY <1>4, <1>t, <2>1 DEF AudRecords, inbox
    <2>5. /\ pub' \in PubRecords /\ pub'.sending = NoFrame /\ pub'.queue = pub.queue
          /\ pub'.fd = pub.fd /\ pub'.gap = pub.gap
      BY <1>4, <1>t DEF PubRecords
    <2>6. Received' = Received /\ Arrived' = f /\ Live' = Live
      BY <2>3, <2>4, <2>5 DEF Received, Arrived, Live
    <2>7. Sent' = f
      BY <2>5, <2>6 DEF Sent, Over
    <2>8. Known' = Known
      BY <2>2, <2>5, <2>6, <2>7 DEF Known
    <2>9. Arrivals' /\ pub' \in PubRecords' /\ aud' \in AudRecords'
      BY <1>2, <2>3, <2>4, <2>5, <2>6 DEF Arrivals, PubRecords, AudRecords
    <2> QED BY <1>1, <1>t, <2>4, <2>5, <2>8, <2>9, ClientMoves
  <1> QED BY <1>3, <1>4 DEF SendFrame

(* What the segmenter holds ends with the frame it was handed, or nothing  *)
(* that the rest of the way would have to follow is left.                  *)
LEMMA HandleKeeps ==
    ASSUME SpeechInv, HandleFrame
    PROVE  SpeechInv'
  <1>t. /\ pub \in PubRecords /\ aud \in AudRecords /\ aud.inbox \in Seq(Sounds)
        /\ SegmenterOK(Sounds, aud.pre, aud.seg) /\ Arrivals
        /\ Flows(Known, pub.queue, cap.held, cap.ring, NextRead)
    BY SpeechFields DEF SpeechInv, SpeechTypes, Departures
  <1>1. UNCHANGED <<cap, mic, pub>> /\ aud.inbox # << >>
    BY DEF HandleFrame
  <1>2. Sounds' = Sounds
    BY <1>1 DEF Sounds
  <1> DEFINE f == Head(aud.inbox)
  <1> DEFINE rest == Tail(aud.inbox)
  <1>3. f \in Sounds /\ rest \in Seq(Sounds)
    BY <1>t, <1>1
  <1>4. /\ Follows(Received, f) /\ Chain(f, rest) /\ LastOf(f, rest) = Arrived
    BY <1>t, <1>1, ChainTail DEF Arrivals, Arrived
  <1>5. PICK pre, seg, mode :
          /\ mode \in {"other", "speech"}
          /\ SegmenterOK(Sounds, pre, seg)
          /\ LastOf(NoFrame, Holds(pre, seg)) \in {NoFrame, f}
          /\ aud' = [aud EXCEPT !.inbox = rest, !.mode = mode, !.pre = pre, !.seg = seg]
    <2>1. /\ SegmenterOK(Sounds, << >>, NoSegment)
          /\ LastOf(NoFrame, Holds(<< >>, NoSegment)) = NoFrame
      BY DEF SegmenterOK, NoSegment, Strict, Holds, LastOf
    <2>2. CASE \E mode \in {"other", "speech"} :
                 aud' = [aud EXCEPT !.inbox = rest, !.mode = mode, !.pre = << >>,
                                    !.seg = NoSegment]
      <3> HIDE DEF f, rest
      <3> QED BY <2>1, <2>2
    <2>3. ASSUME NEW voiced \in BOOLEAN, NEW r, r = Process(aud.pre, aud.seg, f, voiced),
                 aud' = [aud EXCEPT !.inbox = rest, !.mode = "speech", !.pre = r.pre,
                                    !.seg = r.seg]
          PROVE  \E pre, seg, mode :
                   /\ mode \in {"other", "speech"}
                   /\ SegmenterOK(Sounds, pre, seg)
                   /\ LastOf(NoFrame, Holds(pre, seg)) \in {NoFrame, f}
                   /\ aud' = [aud EXCEPT !.inbox = rest, !.mode = mode, !.pre = pre, !.seg = seg]
      <3> HIDE DEF f, rest
      <3>1. /\ SegmenterOK(Sounds, r.pre, r.seg)
            /\ LastOf(NoFrame, Holds(r.pre, r.seg)) \in {NoFrame, f}
        BY <1>3, <1>4, <1>t, <2>3, ProcessKeeps DEF Received
      <3> QED BY <2>3, <3>1
    <2>4. \/ \E mode \in {"other", "speech"} :
               aud' = [aud EXCEPT !.inbox = rest, !.mode = mode, !.pre = << >>, !.seg = NoSegment]
          \/ \E voiced \in BOOLEAN : \E r :
               /\ r = Process(aud.pre, aud.seg, f, voiced)
               /\ aud' = [aud EXCEPT !.inbox = rest, !.mode = "speech", !.pre = r.pre,
                                     !.seg = r.seg]
      BY DEF HandleFrame
    <2> QED BY <2>2, <2>3, <2>4
  <1> HIDE DEF f, rest
  <1>6. pre \in Seq(Sounds) /\ seg \in Seq(Sounds)
    BY <1>5 DEF SegmenterOK
  <1>7. /\ aud' \in AudRecords /\ aud'.inbox = rest /\ aud'.pre = pre /\ aud'.seg = seg
        /\ aud'.conn = aud.conn /\ aud'.used = aud.used
    BY <1>t, <1>3, <1>5, <1>6 DEF AudRecords
  <1>8. Received' \in {NoFrame, f} /\ Arrived' = LastOf(Received', rest)
    BY <1>5, <1>7 DEF Received, Arrived
  <1>9. Weaker(f, Received')
    BY <1>8, NoFrameWeaker
  <1>10. Chain(Received', rest) /\ Weaker(Arrived, Arrived')
    BY <1>4, <1>8, <1>9, ChainWeaker
  <1>11. Live' = Live
    BY <1>1, <1>7 DEF Live
  <1>12. Arrivals'
    BY <1>1, <1>t, <1>7, <1>10, <1>11, FollowsWeaker DEF Arrivals
  <1>13. Weaker(Known, Known')
    BY <1>1, <1>10, <1>11, NoFrameWeaker DEF Known, Sent, Over
  <1>14. Flows(Known', pub.queue, cap.held, cap.ring, NextRead)
    BY <1>t, <1>13, FlowsWeaker
  <1>15. pub' \in PubRecords' /\ aud' \in AudRecords'
    BY <1>1, <1>2, <1>t, <1>7 DEF PubRecords, AudRecords
  <1> QED BY <1>1, <1>5, <1>7, <1>12, <1>14, <1>15, ClientMoves

(* The client's connections, and the end of the agent.                     *)
LEMMA ConnectionKeeps ==
    ASSUME SpeechInv, ClientConnect \/ ClientDisconnected \/ AgentStop
    PROVE  SpeechInv'
  <1>t. /\ pub \in PubRecords /\ aud \in AudRecords /\ aud.used \in Nat
        /\ pub.fd \in 0 .. aud.used /\ pub.backlog \in Seq(1 .. aud.used)
        /\ SegmenterOK(Sounds, aud.pre, aud.seg) /\ Arrivals
    BY SpeechFields DEF SpeechInv, SpeechTypes
  <1>1. UNCHANGED <<cap, mic>>
    BY DEF ClientConnect, ClientDisconnected, AgentStop
  <1>2. Sounds' = Sounds
    BY <1>1 DEF Sounds
  <1>3. CASE ClientConnect
    <2> DEFINE n == aud.used + 1
    <2>1. /\ aud' = [aud EXCEPT !.conn = n, !.used = n]
          /\ pub' = [pub EXCEPT !.backlog = Append(pub.backlog, n)]
      BY <1>3 DEF ClientConnect
    <2>2. n \in Nat /\ n > aud.used
      BY <1>t
    <2>3. Append(pub.backlog, n) \in Seq(1 .. n) /\ pub.fd \in 0 .. n
      <3>1. 1 .. aud.used \subseteq 1 .. n /\ n \in 1 .. n /\ pub.fd \in 0 .. n
        BY <1>t, <2>2
      <3>2. pub.backlog \in Seq(1 .. n)
        BY <1>t, <3>1, SeqMonotonic
      <3> DEFINE B == 1 .. n
      <3>3. n \in B /\ pub.backlog \in Seq(B)
        BY <3>1, <3>2
      <3> HIDE DEF B, n
      <3>4. Append(pub.backlog, n) \in Seq(B)
        BY <3>3
      <3> QED BY <3>1, <3>4 DEF B
    <2> HIDE DEF n
    <2>4. /\ aud' \in AudRecords /\ aud'.used = n /\ aud'.conn = n
          /\ aud'.inbox = aud.inbox /\ aud'.pre = aud.pre /\ aud'.seg = aud.seg
      BY <1>t, <2>1, <2>2 DEF AudRecords
    <2>5. /\ pub' \in PubRecords' /\ pub'.queue = pub.queue /\ pub'.fd = pub.fd
          /\ pub'.sending = pub.sending
      BY <1>2, <1>t, <2>1, <2>3, <2>4 DEF PubRecords
    <2>6. ~Live' /\ aud' \in AudRecords' /\ Received' = Received
      BY <1>2, <1>t, <2>2, <2>4, <2>5 DEF Live, AudRecords, Received
    <2> QED BY <1>1, <1>t, <2>4, <2>5, <2>6, UnservedMoves DEF Arrivals
  <1>4. CASE ClientDisconnected \/ AgentStop
    <2>1. /\ UNCHANGED pub
          /\ \/ aud' = [aud EXCEPT !.conn = 0, !.inbox = << >>]
             \/ aud' = [aud EXCEPT !.agent = "stopping", !.conn = 0, !.inbox = << >>]
      BY <1>4 DEF ClientDisconnected, AgentStop
    <2>2. /\ aud' \in AudRecords /\ aud'.inbox = << >> /\ aud'.conn = 0 /\ aud'.used = aud.used
          /\ aud'.pre = aud.pre /\ aud'.seg = aud.seg
      <3>1. << >> \in Seq(Sounds) /\ 0 \in Nat
        OBVIOUS
      <3>2. CASE aud' = [aud EXCEPT !.conn = 0, !.inbox = << >>]
        BY <1>t, <3>1, <3>2 DEF AudRecords
      <3>3. CASE aud' = [aud EXCEPT !.agent = "stopping", !.conn = 0, !.inbox = << >>]
        BY <1>t, <3>1, <3>3 DEF AudRecords
      <3> QED BY <2>1, <3>2, <3>3
    <2>3. /\ ~Live' /\ aud' \in AudRecords' /\ pub' \in PubRecords'
          /\ Chain(Received', aud'.inbox)
      BY <1>2, <1>t, <2>1, <2>2, ChainEmpty DEF Live, AudRecords, PubRecords
    <2> QED BY <1>1, <1>t, <2>1, <2>2, <2>3, UnservedMoves DEF Arrivals
  <1> QED BY <1>3, <1>4

(* The recognizer and the stop of the pipeline: at most a segment less.    *)
LEMMA PipelineKeeps ==
    ASSUME SpeechInv, RecognizerStep \/ Watchdog \/ PipelineStop \/ PipelineJoined
    PROVE  SpeechInv'
  <1>t. /\ pub \in PubRecords /\ aud \in AudRecords /\ aud.inbox \in Seq(Sounds)
        /\ SegmenterOK(Sounds, aud.pre, aud.seg) /\ Arrivals
        /\ Flows(Known, pub.queue, cap.held, cap.ring, NextRead)
    BY SpeechFields DEF SpeechInv, SpeechTypes, Departures
  <1>1. UNCHANGED <<cap, mic, pub>>
    BY DEF RecognizerStep, TakeSegment, RecognizeReturns, DeliverTranscript, RecognizerExits,
           Watchdog, PipelineStop, PipelineJoined
  <1>2. /\ aud' \in AudRecords /\ aud'.inbox = aud.inbox /\ aud'.pre = aud.pre
        /\ aud'.seg \in {aud.seg, << >>} /\ aud'.conn = aud.conn /\ aud'.used = aud.used
    <2>1. CASE RecognizerStep \/ Watchdog \/ PipelineJoined
      <3>1. aud' \in {aud, [aud EXCEPT !.agent = "down"]}
        BY <2>1 DEF RecognizerStep, TakeSegment, RecognizeReturns, DeliverTranscript,
              RecognizerExits, Watchdog, PipelineJoined
      <3> QED BY <1>t, <3>1 DEF AudRecords
    <2>2. CASE PipelineStop
      <3>1. << >> \in Seq(Sounds)
        OBVIOUS
      <3>2. aud' = [aud EXCEPT !.seg = << >>]
        BY <2>2 DEF PipelineStop, NoSegment
      <3> QED BY <1>t, <3>1, <3>2 DEF AudRecords
    <2> QED BY <2>1, <2>2
  <1>3. SegmenterOK(Sounds, aud'.pre, aud'.seg)
    BY <1>t, <1>2 DEF SegmenterOK, Strict, NoSegment
  <1>4. Received' = Received \/ Received' = NoFrame
    BY <1>t, <1>2 DEF Received, Holds, SegmenterOK, NoSegment, LastOf
  <1>5. Chain(Received', aud.inbox) /\ Weaker(Arrived, Arrived')
    <2>1. Weaker(Received, Received')
      BY <1>4, NoFrameWeaker
    <2> QED BY <1>t, <1>2, <2>1, ChainWeaker DEF Arrivals, Arrived
  <1>6. Live' = Live
    BY <1>1, <1>2 DEF Live
  <1>7. Arrivals'
    BY <1>1, <1>t, <1>2, <1>5, <1>6, FollowsWeaker DEF Arrivals
  <1>8. Weaker(Known, Known')
    BY <1>1, <1>5, <1>6, NoFrameWeaker DEF Known, Sent, Over
  <1>9. Flows(Known', pub.queue, cap.held, cap.ring, NextRead)
    BY <1>t, <1>8, FlowsWeaker
  <1>10. pub' \in PubRecords' /\ aud' \in AudRecords'
    BY <1>1, <1>2, <1>t DEF PubRecords, AudRecords, Sounds
  <1> QED BY <1>1, <1>3, <1>7, <1>9, <1>10, ClientMoves

-----------------------------------------------------------------------------
(* Every step of the path, of whichever component, keeps the chain.        *)
LEMMA NextSpeech ==
    ASSUME SpeechInv, [AudioNext]_audioVars
    PROVE  SpeechInv'
  <1>1. CASE UNCHANGED speechVars
    BY <1>1 DEF speechVars, SpeechInv, SpeechTypes, CapRecords, PubRecords, AudRecords, Sounds,
          CapturePlaces, SegmenterOK, Strict, Arrivals, Departures, Known, Sent, Live, Arrived,
          Received, NextRead
  <1>2. ASSUME SpeechNext PROVE SpeechInv'
    <2>1. CASE (CaptureCall \/ ControllerStep \/ ReaderStep \/ ProcessingStep) /\ UNCHANGED aud
      BY <2>1, ControlKeeps, ReadKeeps, PopKeeps, JoinedKeeps, PublishKeeps
         DEF ControllerStep, ReaderStep, ProcessingStep
    <2>2. CASE PublisherStep /\ UNCHANGED aud
      BY <2>2, PublisherKeeps
    <2>3. CASE SendFrame \/ HandleFrame \/ ClientConnect \/ ClientDisconnected \/ AgentStop
      BY <2>3, SoundSendKeeps, HandleKeeps, ConnectionKeeps
    <2>4. CASE RecognizerStep \/ Watchdog \/ PipelineStop \/ PipelineJoined
      BY <2>4, PipelineKeeps
    <2> QED BY <1>2, <2>1, <2>2, <2>3, <2>4 DEF SpeechNext
  <1> QED BY <1>1, <1>2 DEF AudioNext, audioVars

(* It holds of every state.                                                *)
LEMMA SpeechInvHolds == AudioInit /\ [][AudioNext]_audioVars => []SpeechInv
  <1>1. ASSUME AudioInit PROVE SpeechInv
    <2>1. SpeechTypes
      BY <1>1 DEF AudioInit, SpeechInit, CaptureInit, SpeechTypes, CapRecords, PubRecords,
            AudRecords, NoSegment
    <2>2. CapturePlaces /\ SegmenterOK(Sounds, aud.pre, aud.seg)
      BY <1>1 DEF AudioInit, SpeechInit, CaptureInit, CapturePlaces, SegmenterOK, Strict, NoSegment
    <2>3. Known = NoFrame /\ Received = NoFrame /\ aud.inbox = << >> /\ pub.sending = NoFrame
      BY <1>1 DEF AudioInit, SpeechInit, CaptureInit, Known, Live, Received, Holds, LastOf,
            NoSegment
    <2>4. Arrivals
      BY <2>3, ChainEmpty DEF Arrivals
    <2>5. Flows(NoFrame, << >>, NoFrame, << >>, NextRead)
      <3>1. Follows(NoFrame, NextRead)
        BY DEF Follows, Joined, NoFrame
      <3> QED BY <3>1, ChainEmpty DEF Flows, Over
    <2>6. Departures
      BY <1>1, <2>3, <2>5 DEF AudioInit, SpeechInit, CaptureInit, Departures
    <2> QED BY <2>1, <2>2, <2>4, <2>6 DEF SpeechInv
  <1> QED BY <1>1, NextSpeech, PTL

(* However sound is lost between the device and the recognizer (an         *)
(* overrun, a full ring or queue, a broken connection, the gate), the      *)
(* SpeechSegmenter joins no two frames of a capture session that did not   *)
(* follow each other: for every capacity and every length.                 *)
THEOREM SpeechIsWhole == AudioSpec => []NothingSpliced
  <1>1. SpeechInv => NothingSpliced
    <2> SUFFICES ASSUME SpeechInv, NEW joined \in {aud.seg, aud.pre},
                        NEW k \in 1 .. Len(joined) - 1,
                        joined[k].sess = joined[k + 1].sess
                 PROVE  joined[k + 1].at = joined[k].at + 1
      BY DEF NothingSpliced
    <2>1. joined \in Seq(Sounds) /\ Strict(joined)
      BY DEF SpeechInv, SegmenterOK
    <2>2. joined[k] \in Sounds
      BY <2>1
    <2>3. joined[k].sess \in 1 .. mic.sess
      BY <2>2, SoundFields
    <2>4. Joined(joined[k], joined[k + 1]) /\ joined[k].sess # 0
      BY <2>1, <2>3, SpeechFields DEF Strict, SpeechInv
    <2> QED BY <2>4 DEF Joined
  <1> QED BY <1>1, SpeechInvHolds, PTL DEF AudioSpec
=============================================================================
