----------------------------- MODULE HListProofs -----------------------------
(***************************************************************************)
(* Proofs about HList, for any number of heads and nodes: after any legal  *)
(* calls the two maps of the memory agree.  ChainsConsistent speaks of the *)
(* objects that happen to be in a list; Agree says what every node is, and *)
(* a lemma for each function of list.h that it keeps it.  From there on    *)
(* the lists are sequences (Spelled), and every call does to them what the *)
(* abstract specification HListSeq says.                                   *)
(***************************************************************************)
EXTENDS HList, Induction, SequenceTheorems

(* A node is in no list, or seems to be in one, or follows a pointer.      *)
Free(m, n)    == m.pprev[n] = m.next[n] /\ m.pprev[n] \in {NULL, POISON}
Faked(m, n)   == m.pprev[n] = n /\ m.next[n] = NULL
Follows(m, n) == m.pprev[n] \in HObjects /\ m.next[m.pprev[n]] = n /\ m.next[n] # POISON

Agree(m) ==
  /\ m \in HMemories
  /\ \A h \in HHeads : m.next[h] # POISON
  /\ \A n \in Nodes : Free(m, n) \/ Faked(m, n) \/ Follows(m, n)
  /\ \A c \in HObjects : m.next[c] \in Nodes => m.pprev[m.next[c]] = c

-----------------------------------------------------------------------------
(* The distinctness of the objects, for the steps below.                   *)
LEMMA Distinct ==
  /\ \A x \in HObjects : x # NULL /\ x # POISON
  /\ NULL # POISON
  /\ \A n \in Nodes : n \in HObjects /\ n \notin HHeads
  /\ \A h \in HHeads : h \in HObjects /\ h \notin Nodes
BY HObjectsAssumption DEF HObjectsAssumption, HObjects

(* What an assignment to a pointer leaves.                                 *)
LEMMA SetNext ==
  ASSUME NEW m \in HMemories, NEW x \in HObjects, NEW v \in Nodes \cup {NULL, POISON}
  PROVE  /\ [m EXCEPT !.next[x] = v] \in HMemories
         /\ \A y \in HObjects : [m EXCEPT !.next[x] = v].next[y] = IF y = x THEN v ELSE m.next[y]
         /\ [m EXCEPT !.next[x] = v].pprev = m.pprev
BY DEF HMemories

LEMMA SetPprev ==
  ASSUME NEW m \in HMemories, NEW x \in Nodes, NEW v \in HObjects \cup {NULL, POISON}
  PROVE  /\ [m EXCEPT !.pprev[x] = v] \in HMemories
         /\ \A y \in Nodes : [m EXCEPT !.pprev[x] = v].pprev[y] = IF y = x THEN v ELSE m.pprev[y]
         /\ [m EXCEPT !.pprev[x] = v].next = m.next
BY DEF HMemories

LEMMA BackSet ==
  ASSUME NEW m \in HMemories, NEW o \in Nodes \cup {NULL}, NEW v \in HObjects,
         NEW q, q = SetBack(m, o, v)
  PROVE  /\ q \in HMemories /\ q.next = m.next
         /\ \A y \in Nodes : q.pprev[y] = IF y = o THEN v ELSE m.pprev[y]
<1>1. CASE o = NULL
  BY <1>1, Distinct DEF SetBack
<1>2. CASE o # NULL
  BY <1>2, SetPprev DEF SetBack
<1> QED
  BY <1>1, <1>2

-----------------------------------------------------------------------------
(* A function of list.h puts a node behind the pointer in c, takes one out *)
(* and leaves v in its pointers, or passes a list on.                      *)
Put(m, q, n, c) ==
  /\ n \in Nodes /\ Free(m, n) /\ c \in HObjects /\ c # n /\ m.next[c] # POISON
  /\ c \in HHeads \/ Follows(m, c)
  /\ q \in HMemories
  /\ \A y \in HObjects : q.next[y] = IF y = c THEN n ELSE IF y = n THEN m.next[c] ELSE m.next[y]
  /\ \A y \in Nodes : q.pprev[y] = IF y = n THEN c ELSE IF y = m.next[c] THEN n ELSE m.pprev[y]

Taken(m, q, n, v) ==
  /\ n \in Nodes
  /\ Follows(m, n) \/ Faked(m, n)
  /\ v \in {NULL, POISON} /\ q \in HMemories
  /\ \A y \in HObjects : q.next[y] = IF y = n THEN v ELSE IF y = m.pprev[n] THEN m.next[n] ELSE m.next[y]
  /\ \A y \in Nodes : q.pprev[y] = IF y = n THEN v ELSE IF y = m.next[n] THEN m.pprev[n] ELSE m.pprev[y]

Passed(m, q, old, new) ==
  /\ old \in HHeads /\ new \in HHeads /\ old # new /\ m.next[new] = NULL
  /\ q \in HMemories
  /\ \A y \in HObjects : q.next[y] = IF y = old THEN NULL ELSE IF y = new THEN m.next[old] ELSE m.next[y]
  /\ \A y \in Nodes : q.pprev[y] = IF y = m.next[old] THEN new ELSE m.pprev[y]

(* They keep the maps in agreement.                                        *)
LEMMA Inserted ==
  ASSUME NEW m, Agree(m), NEW q, NEW n, NEW c, Put(m, q, n, c)
  PROVE  Agree(q)
<1> USE Distinct DEF Agree, Free, Faked, Follows, Put
<1>1. m.next[c] \in Nodes \cup {NULL} /\ m.next[c] # n
  BY DEF HMemories
<1>2. \A h \in HHeads : q.next[h] # POISON
  OBVIOUS
<1>3. ASSUME NEW y \in Nodes PROVE Free(q, y) \/ Faked(q, y) \/ Follows(q, y)
  <2>1. CASE y = n
    BY <1>1, <2>1
  <2>2. CASE y = m.next[c]
    BY <1>1, <2>2
  <2>3. CASE y # n /\ y # m.next[c]
    <3>1. CASE y = c
      BY <1>1, <2>3, <3>1
    <3>2. CASE y # c
      <4>1. q.next[y] = m.next[y] /\ q.pprev[y] = m.pprev[y]
        BY <2>3, <3>2
      <4>2. CASE Follows(m, y)
        BY <1>1, <2>3, <4>1, <4>2
      <4>3. CASE Free(m, y) \/ Faked(m, y)
        BY <4>1, <4>3
      <4> QED
        BY <4>2, <4>3
    <3> QED
      BY <3>1, <3>2
  <2> QED
    BY <2>1, <2>2, <2>3
<1>4. ASSUME NEW y \in HObjects, q.next[y] \in Nodes PROVE q.pprev[q.next[y]] = y
  <2>1. CASE y = c
    BY <1>1, <2>1
  <2>2. CASE y = n
    BY <1>1, <1>4, <2>2
  <2>3. CASE y # n /\ y # c
    BY <1>1, <1>4, <2>3
  <2> QED
    BY <2>1, <2>2, <2>3
<1> QED
  BY <1>2, <1>3, <1>4

LEMMA Removed ==
  ASSUME NEW m, Agree(m), NEW q, NEW n, NEW v, Taken(m, q, n, v)
  PROVE  Agree(q)
<1> USE Distinct DEF Agree, Free, Faked, Follows, Taken
<1>1. m.next[n] \in Nodes \cup {NULL} /\ m.pprev[n] \in HObjects
  BY DEF HMemories
<1>2. \A h \in HHeads : q.next[h] # POISON
  BY <1>1
<1>3. ASSUME NEW y \in Nodes PROVE Free(q, y) \/ Faked(q, y) \/ Follows(q, y)
  <2>1. CASE y = n
    BY <1>1, <2>1
  <2>2. CASE y = m.next[n] /\ y # n
    BY <1>1, <2>2
  <2>3. CASE y # n /\ y # m.next[n]
    BY <1>1, <2>3
  <2> QED
    BY <2>1, <2>2, <2>3
<1>4. ASSUME NEW y \in HObjects, q.next[y] \in Nodes PROVE q.pprev[q.next[y]] = y
  <2>1. CASE y = n
    BY <1>4, <2>1
  <2>2. CASE y = m.pprev[n] /\ y # n
    BY <1>1, <1>4, <2>2
  <2>3. CASE y # n /\ y # m.pprev[n]
    BY <1>1, <1>4, <2>3
  <2> QED
    BY <2>1, <2>2, <2>3
<1> QED
  BY <1>2, <1>3, <1>4

LEMMA Moved ==
  ASSUME NEW m, Agree(m), NEW q, NEW old, NEW new, Passed(m, q, old, new)
  PROVE  Agree(q)
<1> USE Distinct DEF Agree, Free, Faked, Follows, Passed
<1>1. m.next[old] \in Nodes \cup {NULL}
  BY DEF HMemories
<1>2. \A h \in HHeads : q.next[h] # POISON
  BY <1>1
<1>3. ASSUME NEW y \in Nodes PROVE Free(q, y) \/ Faked(q, y) \/ Follows(q, y)
  <2>1. CASE y = m.next[old]
    BY <1>1, <2>1
  <2>2. CASE y # m.next[old]
    BY <1>1, <2>2
  <2> QED
    BY <2>1, <2>2
<1>4. ASSUME NEW y \in HObjects, q.next[y] \in Nodes PROVE q.pprev[q.next[y]] = y
  BY <1>1, <1>4
<1> QED
  BY <1>2, <1>3, <1>4

(* The pointers of one node that is in no list change.                     *)
LEMMA Changed ==
  ASSUME NEW m, Agree(m), NEW n \in Nodes, Free(m, n) \/ Faked(m, n), NEW q \in HMemories,
         Free(q, n) \/ Faked(q, n),
         \A y \in HObjects : y # n => q.next[y] = m.next[y],
         \A y \in Nodes : y # n => q.pprev[y] = m.pprev[y]
  PROVE  Agree(q)
<1> USE Distinct DEF Agree, Free, Faked, Follows
<1>1. \A h \in HHeads : q.next[h] # POISON
  OBVIOUS
<1>2. ASSUME NEW y \in Nodes PROVE Free(q, y) \/ Faked(q, y) \/ Follows(q, y)
  <2>1. CASE y = n
    BY <2>1
  <2>2. CASE y # n
    BY <2>2
  <2> QED
    BY <2>1, <2>2
<1>3. ASSUME NEW y \in HObjects, q.next[y] \in Nodes PROVE q.pprev[q.next[y]] = y
  BY <1>3
<1> QED
  BY <1>1, <1>2, <1>3

-----------------------------------------------------------------------------
(* What the functions of list.h leave.                                     *)
LEMMA AddHead ==
  ASSUME NEW m, Agree(m), NEW n \in Nodes, Free(m, n), NEW h \in HHeads
  PROVE  Put(m, hlist_add_head(m, n, h), n, h)
<1> DEFINE first == m.next[h]
           m0    == [m EXCEPT !.next[n] = first]
           m1    == SetBack(m0, first, n)
           m2    == [m1 EXCEPT !.next[h] = n]
           q     == [m2 EXCEPT !.pprev[n] = h]
<1>1. hlist_add_head(m, n, h) = q
  BY DEF hlist_add_head
<1>2. m \in HMemories /\ first \in Nodes \cup {NULL} /\ n \in HObjects /\ h \in HObjects /\ h # n
  BY Distinct DEF Agree, HMemories
<1>3. /\ m0 \in HMemories /\ m0.pprev = m.pprev
      /\ \A y \in HObjects : m0.next[y] = IF y = n THEN first ELSE m.next[y]
  BY <1>2, SetNext
<1>4. /\ m1 \in HMemories /\ m1.next = m0.next
      /\ \A y \in Nodes : m1.pprev[y] = IF y = first THEN n ELSE m.pprev[y]
  <2> HIDE DEF m0
  <2>1. /\ m1 \in HMemories /\ m1.next = m0.next
        /\ \A y \in Nodes : m1.pprev[y] = IF y = first THEN n ELSE m0.pprev[y]
    <3>1. m1 = SetBack(m0, first, n)
      OBVIOUS
    <3>2. m0 \in HMemories /\ first \in Nodes \cup {NULL} /\ n \in HObjects
      BY <1>2, <1>3
    <3> HIDE DEF first, m1
    <3> QED
      BY ONLY <3>1, <3>2, BackSet
  <2> QED
    BY <1>3, <2>1
<1>5. /\ m2 \in HMemories /\ m2.pprev = m1.pprev
      /\ \A y \in HObjects : m2.next[y] = IF y = h THEN n ELSE m1.next[y]
  <2>1. m1 \in HMemories /\ n \in Nodes /\ h \in HObjects
    BY <1>2, <1>4
  <2> HIDE DEF m1
  <2> QED
    BY ONLY <2>1, SetNext
<1>6. /\ q \in HMemories /\ q.next = m2.next
      /\ \A y \in Nodes : q.pprev[y] = IF y = n THEN h ELSE m2.pprev[y]
  <2> HIDE DEF m2
  <2> QED
    BY <1>2, <1>5, SetPprev
<1> HIDE DEF q, m2, m1, m0
<1>7. /\ \A y \in HObjects : q.next[y] = IF y = h THEN n ELSE IF y = n THEN first ELSE m.next[y]
      /\ \A y \in Nodes : q.pprev[y] = IF y = n THEN h ELSE IF y = first THEN n ELSE m.pprev[y]
  BY <1>3, <1>4, <1>5, <1>6
<1>8. first # POISON
  BY DEF Agree
<1> QED
  BY <1>1, <1>2, <1>6, <1>7, <1>8 DEF Put, first

LEMMA AddBefore ==
  ASSUME NEW m, Agree(m), NEW n \in Nodes, Free(m, n), NEW x \in Nodes, Hashed(m, x)
  PROVE  Put(m, hlist_add_before(m, n, x), n, m.pprev[x])
<1> DEFINE c  == m.pprev[x]
           m0 == [m EXCEPT !.pprev[n] = c]
           m1 == [m0 EXCEPT !.next[n] = x]
           m2 == [m1 EXCEPT !.pprev[x] = n]
           q  == [m2 EXCEPT !.next[m2.pprev[n]] = n]
<1>1. hlist_add_before(m, n, x) = q
  BY DEF hlist_add_before
<1>2. /\ m \in HMemories /\ c \in HObjects /\ m.next[c] = x /\ x # n /\ c # n
      /\ n \in HObjects /\ x \in HObjects
  BY Distinct DEF Agree, HMemories, Hashed, Free
<1>3. /\ m0 \in HMemories /\ m0.next = m.next
      /\ \A y \in Nodes : m0.pprev[y] = IF y = n THEN c ELSE m.pprev[y]
  BY <1>2, SetPprev
<1>4. /\ m1 \in HMemories /\ m1.pprev = m0.pprev
      /\ \A y \in HObjects : m1.next[y] = IF y = n THEN x ELSE m.next[y]
  <2> HIDE DEF m0
  <2> QED
    BY <1>2, <1>3, SetNext
<1>5. /\ m2 \in HMemories /\ m2.next = m1.next
      /\ \A y \in Nodes : m2.pprev[y] = IF y = x THEN n ELSE m1.pprev[y]
  <2> HIDE DEF m1
  <2> QED
    BY <1>2, <1>4, SetPprev
<1> HIDE DEF m0, m1, m2
<1>6. m2.pprev[n] = c
  BY <1>2, <1>3, <1>4, <1>5
<1>7. /\ q \in HMemories /\ q.pprev = m2.pprev
      /\ \A y \in HObjects : q.next[y] = IF y = c THEN n ELSE m2.next[y]
  BY <1>2, <1>5, <1>6, SetNext
<1> HIDE DEF q
<1>8. /\ \A y \in HObjects : q.next[y] = IF y = c THEN n ELSE IF y = n THEN m.next[c] ELSE m.next[y]
      /\ \A y \in Nodes : q.pprev[y] = IF y = n THEN c ELSE IF y = m.next[c] THEN n ELSE m.pprev[y]
  BY <1>2, <1>3, <1>4, <1>5, <1>7
<1>9. m.next[c] # POISON /\ (c \in HHeads \/ Follows(m, c))
  BY <1>2, Distinct DEF Agree, Free, Faked, HObjects
<1> QED
  BY <1>1, <1>2, <1>7, <1>8, <1>9 DEF Put, c

LEMMA AddBehind ==
  ASSUME NEW m, Agree(m), NEW n \in Nodes, Free(m, n), NEW x \in Nodes, Hashed(m, x)
  PROVE  Put(m, hlist_add_behind(m, n, x), n, x)
<1> DEFINE s  == m.next[x]
           m0 == [m EXCEPT !.next[n] = s]
           m1 == [m0 EXCEPT !.next[x] = n]
           m2 == [m1 EXCEPT !.pprev[n] = x]
           q  == SetBack(m2, m2.next[n], n)
<1>1. hlist_add_behind(m, n, x) = q
  BY DEF hlist_add_behind
<1>2. Follows(m, x)
  BY Distinct DEF Agree, Hashed, Free, Faked
<1>3. /\ m \in HMemories /\ s \in Nodes \cup {NULL} /\ s # POISON /\ x # n /\ x \in HObjects /\ n \in HObjects
  BY <1>2, Distinct DEF Agree, HMemories, Follows, Free
<1>4. /\ m0 \in HMemories /\ m0.pprev = m.pprev
      /\ \A y \in HObjects : m0.next[y] = IF y = n THEN s ELSE m.next[y]
  BY <1>3, SetNext
<1>5. /\ m1 \in HMemories /\ m1.pprev = m.pprev
      /\ \A y \in HObjects : m1.next[y] = IF y = x THEN n ELSE m0.next[y]
  <2> HIDE DEF m0
  <2> QED
    BY <1>3, <1>4, SetNext
<1>6. /\ m2 \in HMemories /\ m2.next = m1.next
      /\ \A y \in Nodes : m2.pprev[y] = IF y = n THEN x ELSE m.pprev[y]
  <2> HIDE DEF m1
  <2> QED
    BY <1>3, <1>5, SetPprev
<1> HIDE DEF m0, m1, m2
<1>7. m2.next[n] = s
  BY <1>3, <1>4, <1>5, <1>6
<1>8. /\ q \in HMemories /\ q.next = m2.next
      /\ \A y \in Nodes : q.pprev[y] = IF y = s THEN n ELSE m2.pprev[y]
  <2> HIDE DEF s
  <2>1. m2 \in HMemories /\ s \in Nodes \cup {NULL} /\ n \in HObjects
    BY <1>3, <1>6
  <2>2. q = SetBack(m2, s, n)
    BY <1>7
  <2> HIDE DEF q
  <2>3. CASE s = NULL
    BY <2>1, <2>2, <2>3, Distinct DEF SetBack
  <2>4. CASE s # NULL
    BY <2>1, <2>2, <2>4, SetPprev DEF SetBack
  <2> QED
    BY <2>3, <2>4
<1>9. s # n
  BY <1>3, Distinct DEF Agree, Free
<1> HIDE DEF q
<1>10. /\ \A y \in HObjects : q.next[y] = IF y = x THEN n ELSE IF y = n THEN s ELSE m.next[y]
       /\ \A y \in Nodes : q.pprev[y] = IF y = n THEN x ELSE IF y = s THEN n ELSE m.pprev[y]
  BY <1>3, <1>4, <1>5, <1>6, <1>8, <1>9
<1> QED
  BY <1>1, <1>2, <1>3, <1>8, <1>10 DEF Put, s

(* hlist_del and hlist_del_init of a node in a list, with POISON and NULL. *)
LEMMA Delete ==
  ASSUME NEW m, Agree(m), NEW n \in Nodes, Follows(m, n) \/ Faked(m, n),
         NEW v \in {NULL, POISON}
  PROVE  Taken(m, [__hlist_del(m, n) EXCEPT !.next[n] = v, !.pprev[n] = v], n, v)
<1> DEFINE p  == m.pprev[n]
           s  == m.next[n]
           m0 == [m EXCEPT !.next[p] = s]
           m1 == SetBack(m0, s, p)
           m2 == [m1 EXCEPT !.next[n] = v]
           q  == [m2 EXCEPT !.pprev[n] = v]
<1>1. [__hlist_del(m, n) EXCEPT !.next[n] = v, !.pprev[n] = v] = q
  BY DEF __hlist_del
<1>2. /\ m \in HMemories /\ s \in Nodes \cup {NULL} /\ p \in HObjects /\ n \in HObjects
      /\ v \in Nodes \cup {NULL, POISON} /\ v \in HObjects \cup {NULL, POISON}
  BY Distinct DEF Agree, HMemories, Follows, Faked
<1> HIDE DEF p, s
<1>3. /\ m0 \in HMemories /\ m0.pprev = m.pprev
      /\ \A y \in HObjects : m0.next[y] = IF y = p THEN s ELSE m.next[y]
  BY ONLY <1>2, SetNext
<1>4. /\ m1 \in HMemories /\ m1.next = m0.next
      /\ \A y \in Nodes : m1.pprev[y] = IF y = s THEN p ELSE m0.pprev[y]
  <2>1. m1 = SetBack(m0, s, p)
    OBVIOUS
  <2>2. m0 \in HMemories /\ s \in Nodes \cup {NULL} /\ p \in HObjects
    BY <1>2, <1>3
  <2> HIDE DEF m0, m1
  <2> QED
    BY ONLY <2>1, <2>2, BackSet
<1>5. /\ m2 \in HMemories /\ m2.pprev = m1.pprev
      /\ \A y \in HObjects : m2.next[y] = IF y = n THEN v ELSE m1.next[y]
  <2> HIDE DEF m1
  <2> QED
    BY ONLY <1>2, <1>4, SetNext, ZenonT(30)
<1>6. /\ q \in HMemories /\ q.next = m2.next
      /\ \A y \in Nodes : q.pprev[y] = IF y = n THEN v ELSE m2.pprev[y]
  <2> HIDE DEF m2
  <2> QED
    BY ONLY <1>2, <1>5, n \in Nodes, SetPprev
<1> HIDE DEF q, m2, m1, m0
<1>7. /\ \A y \in HObjects : q.next[y] = IF y = n THEN v ELSE IF y = p THEN s ELSE m.next[y]
      /\ \A y \in Nodes : q.pprev[y] = IF y = n THEN v ELSE IF y = s THEN p ELSE m.pprev[y]
  BY <1>3, <1>4, <1>5, <1>6
<1>8. /\ \A y \in HObjects : q.next[y] = IF y = n THEN v ELSE IF y = m.pprev[n] THEN m.next[n] ELSE m.next[y]
      /\ \A y \in Nodes : q.pprev[y] = IF y = n THEN v ELSE IF y = m.next[n] THEN m.pprev[n] ELSE m.pprev[y]
  BY <1>7 DEF p, s
<1>9. q \in HMemories
  BY <1>6
<1>10. Taken(m, q, n, v)
  BY <1>8, <1>9 DEF Taken
<1> QED
  BY <1>1, <1>10

LEMMA Move ==
  ASSUME NEW m, Agree(m), NEW old \in HHeads, NEW new \in HHeads, old # new,
         m.next[new] = NULL
  PROVE  Passed(m, hlist_move_list(m, old, new), old, new)
<1> DEFINE s  == m.next[old]
           m0 == [m EXCEPT !.next[new] = s]
           m1 == SetBack(m0, m0.next[new], new)
           q  == [m1 EXCEPT !.next[old] = NULL]
<1>1. hlist_move_list(m, old, new) = q
  BY DEF hlist_move_list
<1>2. m \in HMemories /\ s \in Nodes \cup {NULL} /\ old \in HObjects /\ new \in HObjects
  BY Distinct DEF Agree, HMemories
<1> HIDE DEF s
<1>3. /\ m0 \in HMemories /\ m0.pprev = m.pprev
      /\ \A y \in HObjects : m0.next[y] = IF y = new THEN s ELSE m.next[y]
  BY ONLY <1>2, SetNext
<1> HIDE DEF m0
<1>4. m0.next[new] = s
  BY <1>2, <1>3
<1>5. /\ m1 \in HMemories /\ m1.next = m0.next
      /\ \A y \in Nodes : m1.pprev[y] = IF y = s THEN new ELSE m0.pprev[y]
  <2>1. m1 = SetBack(m0, s, new)
    BY <1>4
  <2>2. m0 \in HMemories /\ s \in Nodes \cup {NULL} /\ new \in HObjects
    BY <1>2, <1>3
  <2> HIDE DEF m1
  <2> QED
    BY ONLY <2>1, <2>2, BackSet
<1> HIDE DEF m1
<1>6. /\ q \in HMemories /\ q.pprev = m1.pprev
      /\ \A y \in HObjects : q.next[y] = IF y = old THEN NULL ELSE m1.next[y]
  BY ONLY <1>2, <1>5, SetNext
<1> HIDE DEF q
<1>7. /\ \A y \in HObjects : q.next[y] = IF y = old THEN NULL ELSE IF y = new THEN s ELSE m.next[y]
      /\ \A y \in Nodes : q.pprev[y] = IF y = s THEN new ELSE m.pprev[y]
  BY <1>3, <1>5, <1>6
<1> QED
  BY <1>1, <1>6, <1>7 DEF Passed, s

-----------------------------------------------------------------------------
(* The guards of the actions, in terms of Agree.                           *)
LEMMA Guards ==
  ASSUME NEW m, Agree(m), NEW n \in Nodes
  PROVE  /\ Hashed(m, n) => Follows(m, n)
         /\ ~Hashed(m, n) => Free(m, n) \/ Faked(m, n)
         /\ ~Hashed(m, n) /\ m.pprev[n] # n => Free(m, n)
         /\ m.pprev[n] = n => Follows(m, n) \/ Faked(m, n)
BY Distinct DEF Agree, Hashed, Free, Faked, Follows

LEMMA InitAgrees == HInit => Agree(hm)
<1> SUFFICES ASSUME HInit PROVE Agree(hm)
  OBVIOUS
<1>1. /\ hm.next = [x \in HObjects |-> IF x \in HHeads THEN NULL ELSE POISON]
      /\ hm.pprev = [n \in Nodes |-> POISON] /\ hm \in HMemories
  BY DEF HInit, HMemories
<1> QED
  BY <1>1, Distinct DEF Agree, Free

LEMMA InitialiseAgrees == Agree(hm) /\ HInitialise => Agree(hm')
<1> SUFFICES ASSUME Agree(hm), HInitialise PROVE Agree(hm')
  OBVIOUS
<1>1. CASE \E h \in HHeads : hlist_empty(hm, h) /\ hm' = INIT_HLIST_HEAD(hm, h)
  <2>1. PICK h \in HHeads : hm.next[h] = NULL /\ hm' = [hm EXCEPT !.next[h] = NULL]
    BY <1>1 DEF hlist_empty, INIT_HLIST_HEAD
  <2>2. hm \in HMemories
    BY DEF Agree
  <2>3. hm' = hm
    BY <2>1, <2>2, Distinct DEF HMemories
  <2> QED
    BY <2>3
<1>2. CASE \E n \in Nodes : ~HOn(n) /\ hm' = INIT_HLIST_NODE(hm, n)
  <2>1. PICK n \in Nodes : ~Hashed(hm, n) /\ hm' = [hm EXCEPT !.next[n] = NULL, !.pprev[n] = NULL]
    BY <1>2 DEF HOn, INIT_HLIST_NODE
  <2>2. hm \in HMemories /\ n \in HObjects
    BY Distinct DEF Agree
  <2>3. /\ hm' \in HMemories /\ hm'.next[n] = NULL /\ hm'.pprev[n] = NULL
        /\ \A y \in HObjects : y # n => hm'.next[y] = hm.next[y]
        /\ \A y \in Nodes : y # n => hm'.pprev[y] = hm.pprev[y]
    BY <2>1, <2>2 DEF HMemories
  <2>4. Free(hm', n)
    BY <2>3 DEF Free
  <2> QED
    <3>1. Free(hm, n) \/ Faked(hm, n)
      BY <2>1, Guards
    <3>2. ASSUME NEW q, q = hm' PROVE Agree(q)
      BY <2>3, <2>4, <3>1, <3>2, Changed
    <3> QED
      BY <3>2
<1> QED
  BY <1>1, <1>2 DEF HInitialise, HCall

LEMMA AddAgrees == Agree(hm) /\ HAdd => Agree(hm')
<1> SUFFICES ASSUME Agree(hm), HAdd PROVE Agree(hm')
  OBVIOUS
<1>1. PICK n \in Nodes :
        /\ ~HOn(n) /\ ~Fake(n)
        /\ \/ \E h \in HHeads : hm' = hlist_add_head(hm, n, h)
           \/ \E x \in Nodes :
                HOn(x) /\ (hm' = hlist_add_before(hm, n, x) \/ hm' = hlist_add_behind(hm, n, x))
  BY DEF HAdd, HCall
<1>2. Free(hm, n)
  BY <1>1, Guards DEF HOn, Fake
<1> QED
  BY <1>1, <1>2, AddHead, AddBefore, AddBehind, Inserted DEF HOn

LEMMA FakeAgrees == Agree(hm) /\ AddFake => Agree(hm')
<1> SUFFICES ASSUME Agree(hm), AddFake PROVE Agree(hm')
  OBVIOUS
<1>1. PICK n \in Nodes : hm.pprev[n] = NULL /\ hm' = [hm EXCEPT !.pprev[n] = n]
  BY DEF AddFake, HCall, hlist_unhashed, hlist_add_fake
<1>2. hm \in HMemories /\ n \in HObjects /\ Free(hm, n)
  BY <1>1, Guards, Distinct DEF Agree, Hashed
<1>3. /\ hm' \in HMemories /\ hm'.next = hm.next
      /\ \A y \in Nodes : hm'.pprev[y] = IF y = n THEN n ELSE hm.pprev[y]
  BY <1>1, <1>2, SetPprev
<1>4. Faked(hm', n)
  BY <1>1, <1>2, <1>3 DEF Faked, Free
<1> QED
  BY <1>2, <1>3, <1>4, Changed

LEMMA DeleteAgrees == Agree(hm) /\ HDelete => Agree(hm')
<1> SUFFICES ASSUME Agree(hm), HDelete PROVE Agree(hm')
  OBVIOUS
<1>1. PICK n \in Nodes :
        \/ (HOn(n) \/ Fake(n)) /\ hm' = hlist_del(hm, n)
        \/ (HOn(n) \/ Fake(n) \/ hlist_unhashed(hm, n)) /\ hm' = hlist_del_init(hm, n)
  BY DEF HDelete, HCall
<1>2. HOn(n) \/ Fake(n) => Follows(hm, n) \/ Faked(hm, n)
  BY Guards DEF HOn, Fake
<1>3. CASE (HOn(n) \/ Fake(n)) /\ hm' = hlist_del(hm, n)
  BY <1>2, <1>3, Delete, Removed DEF hlist_del
<1>4. CASE hlist_unhashed(hm, n) /\ hm' = hlist_del_init(hm, n)
  BY <1>4 DEF hlist_del_init
<1>5. CASE ~hlist_unhashed(hm, n) /\ (HOn(n) \/ Fake(n)) /\ hm' = hlist_del_init(hm, n)
  BY <1>2, <1>5, Delete, Removed DEF hlist_del_init, INIT_HLIST_NODE
<1> QED
  BY <1>1, <1>3, <1>4, <1>5

LEMMA MoveAgrees == Agree(hm) /\ MoveList => Agree(hm')
BY Move, Moved DEF MoveList, HCall, hlist_empty

LEMMA Invariant == HSpec => []Agree(hm)
<1> DEFINE Inv == Agree(hm)
<1>1. HInit => Inv
  BY InitAgrees
<1>2. Inv /\ [HNext]_hvars => Inv'
  <2>1. Inv /\ UNCHANGED hvars => Inv'
    BY DEF hvars
  <2> QED
    BY <2>1, InitialiseAgrees, AddAgrees, FakeAgrees, DeleteAgrees, MoveAgrees DEF HNext
<1> HIDE DEF Inv
<1>3. HSpec => []Inv
  BY <1>1, <1>2, PTL DEF HSpec
<1> QED
  BY <1>3 DEF Inv

-----------------------------------------------------------------------------
(* After any legal calls pointers lead to nodes, to nothing or to poison,  *)
(* heads are never poisoned and nodes only in both pointers.               *)
THEOREM TypeCorrect == HSpec => []HTypeOK
<1>1. Agree(hm) => HTypeOK
  BY Distinct DEF Agree, Free, Faked, Follows, HTypeOK
<1> QED
  BY Invariant, <1>1, PTL

(* After any legal calls, hlist_add_fake among them, a traversal meets     *)
(* only nodes that can be deleted through their pprev, which names the     *)
(* pointer that leads to them.                                             *)
THEOREM ChainsStayConsistent == HSpec => []ChainsConsistent
<1>1. Agree(hm) => ChainsConsistent
  <2> SUFFICES ASSUME Agree(hm), NEW c \in HObjects, c \in HHeads \/ Hashed(hm, c)
               PROVE  hm.next[c] = NULL \/ hm.pprev[hm.next[c]] = c
    BY DEF ChainsConsistent, ChainsOf, Agree, HMemories
  <2>1. hm.next[c] # POISON
    <3>1. CASE c \in HHeads
      BY <3>1 DEF Agree
    <3>2. CASE c \in Nodes
      BY <3>2, Guards, Distinct DEF Agree, Follows
    <3> QED
      BY <3>1, <3>2 DEF HObjects
  <2>2. hm.next[c] \in Nodes \cup {NULL}
    BY <2>1 DEF Agree, HMemories
  <2> QED
    BY <2>2 DEF Agree
<1> QED
  BY Invariant, <1>1, PTL

-----------------------------------------------------------------------------
(* Sequences, element by element.                                          *)
LEMMA Joined ==
  ASSUME NEW S, NEW a \in Seq(S), NEW b \in Seq(S)
  PROVE  /\ a \o b \in Seq(S) /\ Len(a) \in Nat /\ Len(b) \in Nat /\ Len(a \o b) = Len(a) + Len(b)
         /\ \A j \in 1 .. Len(a) + Len(b) :
              /\ j <= Len(a) => (a \o b)[j] = a[j]
              /\ j > Len(a) => (a \o b)[j] = b[j - Len(a)]
<1>1. Len(a) \in Nat /\ Len(b) \in Nat
  OBVIOUS
<1>2. a \o b \in Seq(S) /\ Len(a \o b) = Len(a) + Len(b)
  BY ConcatProperties
<1>3. \A j \in 1 .. Len(a) + Len(b) : (a \o b)[j] = IF j <= Len(a) THEN a[j] ELSE b[j - Len(a)]
  BY ConcatProperties
<1> QED
  BY <1>1, <1>2, <1>3

(* r is s with e in front of its i-th element.                             *)
Insertion(r, s, i, e) ==
  /\ r \in Seq(Nodes) /\ Len(r) = Len(s) + 1
  /\ \A j \in 1 .. Len(s) + 1 : r[j] = IF j < i THEN s[j] ELSE IF j = i THEN e ELSE s[j - 1]

LEMMA InsertedAt ==
  ASSUME NEW s \in Seq(Nodes), NEW i \in 1 .. Len(s) + 1, NEW e \in Nodes
  PROVE  Insertion(InsertAt(s, i, e), s, i, e)
<1> DEFINE a == SubSeq(s, 1, i - 1)
           b == SubSeq(s, i, Len(s))
           q == a \o <<e>>
<1>1. Len(s) \in Nat /\ i \in Int
  OBVIOUS
<1>2. /\ a \in Seq(Nodes) /\ Len(a) = i - 1 /\ \A j \in 1 .. i - 1 : a[j] = s[j]
      /\ b \in Seq(Nodes) /\ Len(b) = Len(s) - i + 1 /\ \A j \in 1 .. Len(s) - i + 1 : b[j] = s[i + j - 1]
  BY <1>1
<1> HIDE DEF a, b
<1>3. /\ q \in Seq(Nodes) /\ Len(q) = i
      /\ \A j \in 1 .. i : q[j] = IF j < i THEN s[j] ELSE e
  BY <1>1, <1>2
<1> HIDE DEF q
<1>4. /\ q \o b \in Seq(Nodes) /\ Len(q \o b) = Len(s) + 1
      /\ \A j \in 1 .. Len(s) + 1 :
           /\ j <= i => (q \o b)[j] = q[j]
           /\ j > i => (q \o b)[j] = b[j - i]
  <2>1. Len(q) + Len(b) = Len(s) + 1
    BY <1>1, <1>2, <1>3
  <2> QED
    BY <1>2, <1>3, <2>1, Joined
<1>5. InsertAt(s, i, e) = q \o b
  BY DEF InsertAt, q, a, b
<1>6. ASSUME NEW j \in 1 .. Len(s) + 1
      PROVE  (q \o b)[j] = IF j < i THEN s[j] ELSE IF j = i THEN e ELSE s[j - 1]
  <2>1. CASE j <= i
    BY <1>1, <1>3, <1>4, <2>1
  <2>2. CASE j > i
    <3>1. j - i \in 1 .. Len(s) - i + 1 /\ i + (j - i) - 1 = j - 1
      BY <1>1, <2>2
    <3>2. b[j - i] = s[j - 1]
      BY <1>2, <3>1
    <3> QED
      BY <1>1, <1>4, <2>2, <3>2
  <2>3. j <= i \/ j > i
    BY <1>1
  <2> QED
    BY ONLY <2>1, <2>2, <2>3
<1> QED
  BY <1>4, <1>5, <1>6 DEF Insertion

LEMMA RemovedAt ==
  ASSUME NEW S, NEW s \in Seq(S), NEW i \in 1 .. Len(s)
  PROVE  /\ RemoveAt(s, i) \in Seq(S) /\ Len(RemoveAt(s, i)) = Len(s) - 1
         /\ \A j \in 1 .. Len(s) - 1 : RemoveAt(s, i)[j] = IF j < i THEN s[j] ELSE s[j + 1]
<1> DEFINE a == SubSeq(s, 1, i - 1)
           b == SubSeq(s, i + 1, Len(s))
<1>1. Len(s) \in Nat /\ i \in Int
  OBVIOUS
<1>2. /\ a \in Seq(S) /\ Len(a) = i - 1 /\ \A j \in 1 .. i - 1 : a[j] = s[j]
      /\ b \in Seq(S) /\ Len(b) = Len(s) - i /\ \A j \in 1 .. Len(s) - i : b[j] = s[i + j]
  BY <1>1
<1> HIDE DEF a, b
<1>4. /\ a \o b \in Seq(S) /\ Len(a \o b) = Len(s) - 1
      /\ \A j \in 1 .. Len(s) - 1 :
           /\ j <= i - 1 => (a \o b)[j] = a[j]
           /\ j > i - 1 => (a \o b)[j] = b[j - (i - 1)]
  <2>1. Len(a) + Len(b) = Len(s) - 1 /\ Len(a) = i - 1
    BY <1>1, <1>2
  <2>2. /\ a \o b \in Seq(S) /\ Len(a \o b) = Len(a) + Len(b)
        /\ \A j \in 1 .. Len(a) + Len(b) :
             /\ j <= Len(a) => (a \o b)[j] = a[j]
             /\ j > Len(a) => (a \o b)[j] = b[j - Len(a)]
    <3>1. a \in Seq(S) /\ b \in Seq(S)
      BY <1>2
    <3> QED
      BY ONLY <3>1, Joined
  <2> QED
    BY ONLY <2>1, <2>2
<1>5. RemoveAt(s, i) = a \o b
  BY DEF RemoveAt, a, b
<1>6. ASSUME NEW j \in 1 .. Len(s) - 1
      PROVE  (a \o b)[j] = IF j < i THEN s[j] ELSE s[j + 1]
  <2>1. CASE j < i
    <3>1. j \in 1 .. i - 1 /\ j <= i - 1
      BY <1>1, <2>1
    <3>2. (a \o b)[j] = a[j] /\ a[j] = s[j]
      BY <1>2, <1>4, <3>1
    <3> QED
      BY <2>1, <3>2
  <2>2. CASE j >= i
    <3>1. j - (i - 1) \in 1 .. Len(s) - i /\ i + (j - (i - 1)) = j + 1
      BY <1>1, <2>2
    <3>2. b[j - (i - 1)] = s[j + 1]
      BY <1>2, <3>1
    <3> QED
      <4>1. j > i - 1 /\ ~(j < i)
        BY <1>1, <2>2
      <4>2. (a \o b)[j] = b[j - (i - 1)]
        BY <1>4, <4>1
      <4> QED
        BY <3>2, <4>1, <4>2
  <2>3. j < i \/ j >= i
    BY <1>1
  <2> QED
    BY ONLY <2>1, <2>2, <2>3
<1> QED
  BY <1>4, <1>5, <1>6

LEMMA FirstOfRest ==
  ASSUME NEW S, NEW s \in Seq(S), NEW i \in 1 .. Len(s)
  PROVE  SubSeq(s, i, Len(s)) = <<s[i]>> \o SubSeq(s, i + 1, Len(s))
<1> DEFINE a == SubSeq(s, i, Len(s))
           b == SubSeq(s, i + 1, Len(s))
           c == <<s[i]>>
<1>1. Len(s) \in Nat /\ i \in Int
  OBVIOUS
<1>2. /\ a \in Seq(S) /\ Len(a) = Len(s) - i + 1 /\ \A j \in 1 .. Len(s) - i + 1 : a[j] = s[i + j - 1]
      /\ b \in Seq(S) /\ Len(b) = Len(s) - i /\ \A j \in 1 .. Len(s) - i : b[j] = s[i + j]
      /\ c \in Seq(S) /\ Len(c) = 1 /\ c[1] = s[i]
  BY <1>1
<1> HIDE DEF a, b, c
<1>3. /\ c \o b \in Seq(S) /\ Len(c \o b) = Len(a)
      /\ \A j \in 1 .. Len(a) :
           /\ j <= 1 => (c \o b)[j] = c[j]
           /\ j > 1 => (c \o b)[j] = b[j - 1]
  <2>1. Len(c) + Len(b) = Len(a) /\ Len(c) = 1
    BY <1>1, <1>2
  <2>2. /\ c \o b \in Seq(S) /\ Len(c \o b) = Len(c) + Len(b)
        /\ \A j \in 1 .. Len(c) + Len(b) :
             /\ j <= Len(c) => (c \o b)[j] = c[j]
             /\ j > Len(c) => (c \o b)[j] = b[j - Len(c)]
    <3>1. c \in Seq(S) /\ b \in Seq(S)
      BY <1>2
    <3> QED
      BY ONLY <3>1, Joined
  <2> QED
    BY ONLY <2>1, <2>2
<1>4. ASSUME NEW j \in 1 .. Len(a) PROVE a[j] = (c \o b)[j]
  <2>1. j \in Int /\ a[j] = s[i + j - 1]
    BY <1>2
  <2>2. CASE j = 1
    BY <1>1, <1>2, <1>3, <2>1, <2>2
  <2>3. CASE j > 1
    <3>1. j - 1 \in 1 .. Len(s) - i /\ i + (j - 1) = i + j - 1
      BY <1>1, <1>2, <2>1, <2>3
    <3>2. b[j - 1] = s[i + j - 1]
      BY <1>2, <3>1
    <3> QED
      BY <1>3, <2>1, <2>3, <3>2
  <2>4. j = 1 \/ j > 1
    BY <1>1, <1>2
  <2> QED
    BY ONLY <2>2, <2>3, <2>4
<1>5. a = c \o b
  BY <1>2, <1>3, <1>4, SeqEqual
<1> QED
  BY <1>5 DEF a, b, c

-----------------------------------------------------------------------------
(* The object in front of the (i + 1)-th node of the list of h.            *)
At(s, h, i) == IF i = 0 THEN h ELSE s[h][i]

(* s is what the lists are; every node that follows a pointer is in one.   *)
Spelled(mem, s) ==
  /\ s \in [HHeads -> Seq(Nodes)]
  /\ \A h \in HHeads : \A i \in 0 .. Len(s[h]) :
       mem.next[At(s, h, i)] = IF i = Len(s[h]) THEN NULL ELSE s[h][i + 1]
  /\ \A h, g \in HHeads : \A i \in 1 .. Len(s[h]), j \in 1 .. Len(s[g]) :
       s[h][i] = s[g][j] => h = g /\ i = j
  /\ \A n \in Nodes :
       Follows(mem, n) => \E h \in HHeads : \E i \in 1 .. Len(s[h]) : s[h][i] = n

(* The objects of the lists are objects, and no two of them are the same.  *)
LEMMA Places ==
  ASSUME NEW mem, NEW s, Spelled(mem, s), NEW h \in HHeads
  PROVE  /\ Len(s[h]) \in Nat
         /\ \A i \in 0 .. Len(s[h]) :
              /\ At(s, h, i) \in HObjects
              /\ mem.next[At(s, h, i)] = IF i = Len(s[h]) THEN NULL ELSE s[h][i + 1]
         /\ \A i \in 1 .. Len(s[h]) : At(s, h, i) = s[h][i] /\ s[h][i] \in Nodes
         /\ \A g \in HHeads : \A i \in 0 .. Len(s[h]), j \in 0 .. Len(s[g]) :
              At(s, h, i) = At(s, g, j) => h = g /\ i = j
<1>1. /\ s[h] \in Seq(Nodes) /\ Len(s[h]) \in Nat
      /\ \A g \in HHeads : s[g] \in Seq(Nodes) /\ Len(s[g]) \in Nat
  BY DEF Spelled
<1>2. \A g \in HHeads : \A i \in 0 .. Len(s[g]) :
        /\ i = 0 => At(s, g, i) = g /\ At(s, g, i) \notin Nodes
        /\ i # 0 => At(s, g, i) = s[g][i] /\ At(s, g, i) \in Nodes /\ i \in 1 .. Len(s[g])
  <2> SUFFICES ASSUME NEW g \in HHeads, NEW i \in 0 .. Len(s[g])
               PROVE /\ i = 0 => At(s, g, i) = g /\ At(s, g, i) \notin Nodes
                     /\ i # 0 => At(s, g, i) = s[g][i] /\ At(s, g, i) \in Nodes /\ i \in 1 .. Len(s[g])
    OBVIOUS
  <2>1. CASE i = 0
    BY <2>1, Distinct DEF At
  <2>2. CASE i # 0
    <3>1. i \in 1 .. Len(s[g])
      BY <1>1, <2>2
    <3> QED
      BY <1>1, <2>2, <3>1 DEF At
  <2> QED
    BY <2>1, <2>2
<1>3. \A g \in HHeads : \A i \in 0 .. Len(s[h]), j \in 0 .. Len(s[g]) :
         At(s, h, i) = At(s, g, j) => h = g /\ i = j
  <2> SUFFICES ASSUME NEW g \in HHeads, NEW i \in 0 .. Len(s[h]), NEW j \in 0 .. Len(s[g]),
                      At(s, h, i) = At(s, g, j)
               PROVE  h = g /\ i = j
    OBVIOUS
  <2>1. CASE i = 0
    BY <1>2, <2>1
  <2>2. CASE i # 0
    <3>1. j # 0
      BY <1>2, <2>2
    <3> QED
      BY <1>2, <2>2, <3>1 DEF Spelled
  <2> QED
    BY <2>1, <2>2
<1>4. \A i \in 0 .. Len(s[h]) : mem.next[At(s, h, i)] = IF i = Len(s[h]) THEN NULL ELSE s[h][i + 1]
  BY DEF Spelled
<1>5. \A i \in 0 .. Len(s[h]) : At(s, h, i) \in HObjects
  BY <1>2, Distinct DEF HObjects
<1> QED
  BY <1>1, <1>2, <1>3, <1>4, <1>5

(* The recursive function Met yields the lists.                            *)
LEMMA MetEquation ==
  ASSUME NEW mem, Agree(mem), NEW s, Spelled(mem, s)
  PROVE  \A x \in HObjects :
           Met(mem)[x] = IF mem.next[x] \in Nodes THEN <<mem.next[x]>> \o Met(mem)[mem.next[x]] ELSE <<>>
<1> DEFINE Of(f) == [x \in HObjects |->
                       IF mem.next[x] \in Nodes THEN <<mem.next[x]>> \o f[mem.next[x]] ELSE <<>>]
           Is(x, h, i) == i \in 0 .. Len(s[h]) /\ x = At(s, h, i)
           f == [x \in HObjects |->
                   IF \E h \in HHeads, i \in Nat : Is(x, h, i)
                     THEN LET p == CHOOSE p \in HHeads \X Nat : Is(x, p[1], p[2])
                          IN  SubSeq(s[p[1]], p[2] + 1, Len(s[p[1]]))
                     ELSE <<>>]
<1>1. ASSUME NEW h \in HHeads, NEW i \in 0 .. Len(s[h])
      PROVE  f[At(s, h, i)] = SubSeq(s[h], i + 1, Len(s[h]))
  <2>1. /\ At(s, h, i) \in HObjects /\ i \in Nat /\ Len(s[h]) \in Nat
        /\ \A g \in HHeads : \A j \in 0 .. Len(s[g]) : At(s, h, i) = At(s, g, j) => h = g /\ i = j
    BY Places
  <2>2. Is(At(s, h, i), h, i)
    OBVIOUS
  <2> DEFINE p == CHOOSE p \in HHeads \X Nat : Is(At(s, h, i), p[1], p[2])
  <2>3. <<h, i>> \in HHeads \X Nat /\ Is(At(s, h, i), <<h, i>>[1], <<h, i>>[2])
    BY <2>1, <2>2
  <2>4. p \in HHeads \X Nat /\ Is(At(s, h, i), p[1], p[2])
    <3> HIDE DEF Is
    <3> QED
      BY <2>3
  <2>5. p[1] = h /\ p[2] = i
    <3>1. p[1] \in HHeads /\ p[2] \in 0 .. Len(s[p[1]]) /\ At(s, h, i) = At(s, p[1], p[2])
      <4>1. p \in HHeads \X Nat /\ p[2] \in 0 .. Len(s[p[1]]) /\ At(s, h, i) = At(s, p[1], p[2])
        BY <2>4
      <4> HIDE DEF p
      <4> QED
        BY <4>1
    <3> HIDE DEF p
    <3> QED
      BY <2>1, <3>1
  <2>6. f[At(s, h, i)] = SubSeq(s[p[1]], p[2] + 1, Len(s[p[1]]))
    <3> HIDE DEF Is
    <3> QED
      BY <2>1, <2>2
  <2> QED
    <3> HIDE DEF p, f
    <3> QED
      BY <2>5, <2>6
<1>2. ASSUME NEW x \in HObjects, ~\E h \in HHeads, i \in Nat : Is(x, h, i)
      PROVE  f[x] = <<>> /\ mem.next[x] \notin Nodes
  <2>1. f[x] = <<>>
    <3> HIDE DEF Is
    <3> QED
      BY <1>2
  <2>2. x \notin HHeads
    <3> SUFFICES ASSUME x \in HHeads PROVE FALSE
      OBVIOUS
    <3>1. Len(s[x]) \in Nat
      BY Places
    <3>2. Is(x, x, 0)
      BY <3>1 DEF At
    <3> QED
      BY <1>2, <3>2
  <2>3. ~Follows(mem, x)
    <3> SUFFICES ASSUME Follows(mem, x) PROVE FALSE
      OBVIOUS
    <3>1. PICK h \in HHeads : \E i \in 1 .. Len(s[h]) : s[h][i] = x
      BY <2>2 DEF Spelled, HObjects
    <3>2. PICK i \in 1 .. Len(s[h]) : s[h][i] = x
      BY <3>1
    <3>3. Len(s[h]) \in Nat /\ At(s, h, i) = x
      BY <3>2, Places
    <3>4. Is(x, h, i) /\ i \in Nat
      BY <3>3
    <3> HIDE DEF Is
    <3> QED
      BY <1>2, <3>4
  <2>4. Free(mem, x) \/ Faked(mem, x)
    BY <2>2, <2>3 DEF Agree, HObjects
  <2> QED
    BY <2>1, <2>4, Distinct DEF Free, Faked
<1> HIDE DEF f
<1>3. ASSUME NEW x \in HObjects PROVE f[x] = Of(f)[x]
  <2>1. CASE \E h \in HHeads, i \in Nat : Is(x, h, i)
    <3>1. PICK h \in HHeads, i \in Nat : Is(x, h, i)
      BY <2>1
    <3>2. /\ i \in 0 .. Len(s[h]) /\ x = At(s, h, i) /\ Len(s[h]) \in Nat /\ s[h] \in Seq(Nodes)
          /\ mem.next[x] = IF i = Len(s[h]) THEN NULL ELSE s[h][i + 1]
      BY <3>1, Places DEF Spelled
    <3>3. f[x] = SubSeq(s[h], i + 1, Len(s[h]))
      BY <1>1, <3>2
    <3>4. CASE i = Len(s[h])
      <4>1. SubSeq(s[h], i + 1, Len(s[h])) = <<>>
        BY <3>2, <3>4
      <4> QED
        BY <3>2, <3>3, <3>4, <4>1, Distinct
    <3>5. CASE i # Len(s[h])
      <4>1. i + 1 \in 1 .. Len(s[h]) /\ i + 1 \in 0 .. Len(s[h])
        BY <3>2, <3>5
      <4>2. s[h][i + 1] \in Nodes /\ At(s, h, i + 1) = s[h][i + 1] /\ mem.next[x] = s[h][i + 1]
        BY <3>2, <3>5, <4>1, Places
      <4>3. f[mem.next[x]] = SubSeq(s[h], i + 1 + 1, Len(s[h]))
        BY <1>1, <4>1, <4>2
      <4>4. SubSeq(s[h], i + 1, Len(s[h])) = <<s[h][i + 1]>> \o SubSeq(s[h], i + 1 + 1, Len(s[h]))
        BY <3>2, <4>1, FirstOfRest
      <4> QED
        BY <3>3, <4>2, <4>3, <4>4
    <3> QED
      BY <3>4, <3>5
  <2>2. CASE ~\E h \in HHeads, i \in Nat : Is(x, h, i)
    <3>1. f[x] = <<>> /\ mem.next[x] \notin Nodes
      BY <1>2, <2>2
    <3> QED
      BY <3>1
  <2> QED
    BY <2>1, <2>2
<1>4. f = Of(f)
  <2>1. f = [x \in HObjects |-> f[x]]
    BY DEF f
  <2> HIDE DEF Of
  <2>2. \A x \in HObjects : f[x] = Of(f)[x]
    BY <1>3
  <2>3. Of(f) = [x \in HObjects |-> Of(f)[x]]
    BY DEF Of
  <2> QED
    BY <2>1, <2>2, <2>3
<1> DEFINE g == CHOOSE g : g = Of(g)
<1>5. g = Of(g)
  <2> HIDE DEF Of
  <2> QED
    BY <1>4
<1>6. Met(mem) = g
  BY DEF Met
<1> HIDE DEF g
<1>7. \A x \in HObjects : g[x] = IF mem.next[x] \in Nodes THEN <<mem.next[x]>> \o g[mem.next[x]] ELSE <<>>
  <2> SUFFICES ASSUME NEW x \in HObjects
               PROVE  g[x] = IF mem.next[x] \in Nodes THEN <<mem.next[x]>> \o g[mem.next[x]] ELSE <<>>
    OBVIOUS
  <2>1. g[x] = Of(g)[x]
    BY <1>5
  <2> QED
    BY <2>1
<1> QED
  BY <1>6, <1>7

(* The lists are what the recursive function Met yields.                   *)
LEMMA MetIs ==
  ASSUME NEW mem, Agree(mem), NEW s, Spelled(mem, s), NEW h \in HHeads
  PROVE  Met(mem)[h] = s[h]
<1> DEFINE l == Len(s[h])
           T(k) == k <= l => Met(mem)[At(s, h, l - k)] = SubSeq(s[h], l - k + 1, l)
           S == {k \in Nat : T(k)}
<1>1. /\ s[h] \in Seq(Nodes) /\ l \in Nat
      /\ \A i \in 0 .. l : /\ At(s, h, i) \in HObjects
                           /\ mem.next[At(s, h, i)] = IF i = l THEN NULL ELSE s[h][i + 1]
      /\ \A i \in 1 .. l : At(s, h, i) = s[h][i] /\ s[h][i] \in Nodes
  <2>1. s[h] \in Seq(Nodes)
    BY DEF Spelled
  <2> QED
    BY <2>1, Places
<1>2. 0 \in S
  <2>1. At(s, h, l) \in HObjects /\ mem.next[At(s, h, l)] = NULL
    BY <1>1
  <2>2. Met(mem)[At(s, h, l)] = <<>>
    BY <2>1, MetEquation, Distinct DEF HObjects
  <2>3. SubSeq(s[h], l + 1, l) = <<>> /\ l - 0 = l
    BY <1>1
  <2> QED
    BY <2>2, <2>3
<1>3. ASSUME NEW k \in Nat, k \in S PROVE k + 1 \in S
  <2> SUFFICES ASSUME k + 1 <= l
               PROVE  Met(mem)[At(s, h, l - (k + 1))] = SubSeq(s[h], l - (k + 1) + 1, l)
    <3>1. k + 1 \in Nat
      OBVIOUS
    <3>2. SUFFICES T(k + 1)
      BY <3>1
    <3> QED
      OBVIOUS
  <2> DEFINE i == l - (k + 1)
  <2>1. /\ i \in 0 .. l /\ i # l /\ i + 1 \in 1 .. l /\ l - k = i + 1
        /\ l - k + 1 = i + 1 + 1
    BY <1>1
  <2>2. Met(mem)[At(s, h, i + 1)] = SubSeq(s[h], i + 1 + 1, l)
    <3>1. Met(mem)[At(s, h, l - k)] = SubSeq(s[h], l - k + 1, l)
      <4>1. k <= l
        BY <1>1
      <4> QED
        BY <1>3, <4>1 DEF T
    <3> QED
      BY <2>1, <3>1
  <2> HIDE DEF i
  <2>3. At(s, h, i) \in HObjects /\ mem.next[At(s, h, i)] = s[h][i + 1]
    BY <1>1, <2>1
  <2>4. At(s, h, i + 1) = s[h][i + 1] /\ s[h][i + 1] \in Nodes
    BY <1>1, <2>1
  <2>5. Met(mem)[At(s, h, i)] = <<s[h][i + 1]>> \o Met(mem)[s[h][i + 1]]
    BY <2>3, <2>4, MetEquation
  <2>6. SubSeq(s[h], i + 1, l) = <<s[h][i + 1]>> \o SubSeq(s[h], i + 1 + 1, l)
    BY <1>1, <2>1, FirstOfRest
  <2> QED
    BY <2>2, <2>4, <2>5, <2>6 DEF i
<1>4. l \in S
  <2> HIDE DEF S
  <2> QED
    BY <1>1, <1>2, <1>3, InductionOnSet
<1>5. Met(mem)[At(s, h, 0)] = SubSeq(s[h], 1, l)
  <2>1. l - l = 0 /\ l <= l /\ 0 + 1 = 1
    BY <1>1
  <2> QED
    BY <1>4, <2>1
<1>6. SubSeq(s[h], 1, l) = s[h]
  BY <1>1
<1> QED
  BY <1>5, <1>6 DEF At

(* The pointer that leads to a node of a list.                             *)
LEMMA Back ==
  ASSUME NEW m, Agree(m), NEW s, Spelled(m, s), NEW h \in HHeads, NEW i \in 1 .. Len(s[h])
  PROVE  /\ m.pprev[s[h][i]] = At(s, h, i - 1) /\ m.next[At(s, h, i - 1)] = s[h][i]
         /\ ~Free(m, s[h][i]) /\ ~Faked(m, s[h][i])
<1>1. /\ Len(s[h]) \in Nat /\ i - 1 \in 0 .. Len(s[h]) /\ i \in 0 .. Len(s[h]) /\ i - 1 # Len(s[h])
      /\ i - 1 + 1 = i /\ i - 1 # i
  BY Places
<1>2. m.next[At(s, h, i - 1)] = s[h][i]
  BY <1>1, Places, SMTT(30)
<1>3. s[h][i] \in Nodes /\ At(s, h, i - 1) \in HObjects /\ At(s, h, i) = s[h][i]
  BY <1>1, Places
<1>4. m.pprev[s[h][i]] = At(s, h, i - 1)
  BY <1>2, <1>3 DEF Agree
<1>5. At(s, h, i - 1) # At(s, h, i)
  BY <1>1, Places
<1> QED
  BY <1>2, <1>3, <1>4, <1>5, Distinct DEF Free, Faked

(* The lists after a change to a node that is in none of them.             *)
LEMMA SpelledChanged ==
  ASSUME NEW m, Agree(m), NEW s, Spelled(m, s), NEW n \in Nodes, Free(m, n) \/ Faked(m, n),
         NEW q, Free(q, n) \/ Faked(q, n),
         \A y \in HObjects : y # n => q.next[y] = m.next[y],
         \A y \in Nodes : y # n => q.pprev[y] = m.pprev[y]
  PROVE  Spelled(q, s)
<1>1. ASSUME NEW h \in HHeads, NEW i \in 0 .. Len(s[h])
      PROVE  q.next[At(s, h, i)] = IF i = Len(s[h]) THEN NULL ELSE s[h][i + 1]
  <2>1. At(s, h, i) \in HObjects /\ m.next[At(s, h, i)] = IF i = Len(s[h]) THEN NULL ELSE s[h][i + 1]
    BY Places
  <2>2. At(s, h, i) # n
    <3>1. CASE i = 0
      BY <3>1, Distinct DEF At
    <3>2. CASE i # 0
      <4>1. i \in 1 .. Len(s[h]) /\ At(s, h, i) = s[h][i]
        BY <3>2, Places
      <4> QED
        BY <4>1, Back
    <3> QED
      BY <3>1, <3>2
  <2> QED
    BY <2>1, <2>2
<1>2. ASSUME NEW y \in Nodes, Follows(q, y) PROVE Follows(m, y)
  <2>1. y # n
    BY <1>2, Distinct DEF Follows, Free, Faked
  <2>2. y \in HObjects /\ q.next[y] = m.next[y] /\ q.pprev[y] = m.pprev[y]
    BY <2>1, Distinct
  <2>3. m.pprev[y] # n
    BY <1>2, <2>1, <2>2, Distinct DEF Follows, Free, Faked
  <2> QED
    BY <1>2, <2>2, <2>3 DEF Follows
<1> QED
  BY <1>1, <1>2 DEF Spelled

(* The lists after hlist_move_list.                                        *)
LEMMA SpelledPassed ==
  ASSUME NEW m, Agree(m), NEW s, Spelled(m, s), NEW q, NEW old, NEW new, Passed(m, q, old, new)
  PROVE  Spelled(q, [s EXCEPT ![new] = s[old], ![old] = <<>>])
<1> DEFINE t == [s EXCEPT ![new] = s[old], ![old] = <<>>]
           From(g) == IF g = new THEN old ELSE g
<1>1. /\ old \in HHeads /\ new \in HHeads /\ old # new /\ m.next[new] = NULL
      /\ s \in [HHeads -> Seq(Nodes)] /\ t \in [HHeads -> Seq(Nodes)]
      /\ t[old] = <<>> /\ Len(t[old]) = 0
      /\ \A g \in HHeads : g # old => t[g] = s[From(g)] /\ From(g) \in HHeads
      /\ \A f, g \in HHeads : f # old /\ g # old /\ From(f) = From(g) => f = g
  <2>1. <<>> \in Seq(Nodes)
    OBVIOUS
  <2> QED
    BY <2>1 DEF Passed, Spelled
<1>2. Len(s[new]) = 0
  <2>1. Len(s[new]) \in Nat
    BY <1>1, Places
  <2>2. CASE Len(s[new]) # 0
    <3>1. 1 \in 1 .. Len(s[new]) /\ At(s, new, 1 - 1) = new
      BY <2>1, <2>2 DEF At
    <3>2. m.next[new] = s[new][1] /\ s[new][1] \in Nodes
      BY <1>1, <3>1, Back, Places
    <3> QED
      BY <1>1, <3>2, Distinct
  <2> QED
    BY <2>2
<1> HIDE DEF t
<1>3. ASSUME NEW h \in HHeads, NEW i \in 0 .. Len(t[h])
      PROVE  q.next[At(t, h, i)] = IF i = Len(t[h]) THEN NULL ELSE t[h][i + 1]
  <2>1. CASE h = old
    BY <1>1, <1>3, <2>1, Distinct DEF At, Passed
  <2>2. CASE h # old
    <3>1. /\ t[h] = s[From(h)] /\ From(h) \in HHeads /\ Len(s[From(h)]) \in Nat /\ i \in 0 .. Len(s[From(h)])
          /\ At(s, From(h), i) \in HObjects
          /\ m.next[At(s, From(h), i)] = IF i = Len(t[h]) THEN NULL ELSE t[h][i + 1]
      <4>1. t[h] = s[From(h)] /\ From(h) \in HHeads
        BY <1>1, <2>2
      <4> HIDE DEF From
      <4> QED
        BY <1>3, <4>1, Places
    <3>2. CASE i = 0
      <4>1. At(t, h, i) = h /\ At(s, From(h), i) = From(h)
        BY <3>2 DEF At
      <4>2. q.next[h] = m.next[From(h)]
        BY <1>1, <2>2, Distinct DEF Passed
      <4> QED
        BY <3>1, <4>1, <4>2
    <3>3. CASE i # 0
      <4>1. At(t, h, i) = At(s, From(h), i)
        BY <3>1, <3>3 DEF At
      <4>2. At(s, From(h), i) \in Nodes
        BY <3>1, <3>3, Places
      <4>3. q.next[At(s, From(h), i)] = m.next[At(s, From(h), i)]
        BY <1>1, <4>2, Distinct DEF Passed
      <4> QED
        BY <3>1, <4>1, <4>3
    <3> QED
      BY <3>2, <3>3
  <2> QED
    BY <2>1, <2>2
<1>4. ASSUME NEW h \in HHeads, NEW g \in HHeads, NEW i \in 1 .. Len(t[h]), NEW j \in 1 .. Len(t[g]),
             t[h][i] = t[g][j]
      PROVE  h = g /\ i = j
  <2>1. h # old /\ g # old
    BY <1>1, <1>4
  <2>2. t[h] = s[From(h)] /\ t[g] = s[From(g)] /\ From(h) \in HHeads /\ From(g) \in HHeads
    BY <1>1, <2>1
  <2>3. From(h) = From(g) /\ i = j
    <3> HIDE DEF From
    <3> QED
      BY <1>4, <2>2 DEF Spelled
  <2> QED
    BY <1>1, <2>1, <2>3
<1>5. ASSUME NEW y \in Nodes, Follows(q, y)
      PROVE  \E h \in HHeads : \E i \in 1 .. Len(t[h]) : t[h][i] = y
  <2>1. Follows(m, y) \/ y = m.next[old]
    <3>1. CASE y # m.next[old]
      <4>1. q.next[y] = m.next[y] /\ q.pprev[y] = m.pprev[y]
        BY <1>1, <3>1, Distinct DEF Passed
      <4>2. m.pprev[y] \in HObjects /\ q.next[m.pprev[y]] = y /\ m.next[y] # POISON
        BY <1>5, <4>1 DEF Follows
      <4>3. m.next[m.pprev[y]] = y
        BY <3>1, <4>2, Distinct DEF Passed
      <4> QED
        BY <4>2, <4>3 DEF Follows
    <3> QED
      BY <3>1
  <2>2. PICK g \in HHeads : \E i \in 1 .. Len(s[g]) : s[g][i] = y
    <3>1. CASE Follows(m, y)
      BY <3>1 DEF Spelled
    <3>2. CASE y = m.next[old]
      <4>1. 0 \in 0 .. Len(s[old]) /\ At(s, old, 0) = old /\ Len(s[old]) \in Nat
        BY <1>1, Places DEF At
      <4>2. Len(s[old]) # 0 /\ y = s[old][0 + 1]
        <5>1. m.next[old] = IF 0 = Len(s[old]) THEN NULL ELSE s[old][0 + 1]
          BY <1>1, <4>1, Places
        <5> QED
          BY <3>2, <5>1, Distinct
      <4>3. 1 \in 1 .. Len(s[old]) /\ y = s[old][1]
        BY <4>1, <4>2
      <4> QED
        BY <1>1, <4>3
    <3> QED
      BY <2>1, <3>1, <3>2
  <2>3. g # new
    BY <1>2, <2>2
  <2>4. CASE g = old
    <3>1. t[new] = s[old]
      BY <1>1
    <3> QED
      BY <1>1, <2>2, <2>4, <3>1
  <2>5. CASE g # old
    <3>1. t[g] = s[g]
      BY <1>1, <2>3, <2>5
    <3> QED
      BY <1>1, <2>2, <3>1
  <2> QED
    BY <2>4, <2>5
<1> QED
  BY <1>1, <1>3, <1>4, <1>5 DEF Spelled, t

(* The lists after a node was put behind the i-th object of the list of h. *)
LEMMA SpelledPut ==
  ASSUME NEW m, Agree(m), NEW s, Spelled(m, s), NEW q, NEW n, NEW h \in HHeads,
         NEW i \in 0 .. Len(s[h]), Put(m, q, n, At(s, h, i))
  PROVE  Spelled(q, [s EXCEPT ![h] = InsertAt(@, i + 1, n)])
<1> DEFINE r == InsertAt(s[h], i + 1, n)
           t == [s EXCEPT ![h] = InsertAt(@, i + 1, n)]
           c == At(s, h, i)
           l == Len(s[h])
<1>1. /\ n \in Nodes /\ Free(m, n) /\ c \in HObjects /\ c # n /\ q \in HMemories
      /\ \A y \in HObjects : q.next[y] = IF y = c THEN n ELSE IF y = n THEN m.next[c] ELSE m.next[y]
      /\ \A y \in Nodes : q.pprev[y] = IF y = n THEN c ELSE IF y = m.next[c] THEN n ELSE m.pprev[y]
      /\ c \in HHeads \/ Follows(m, c)
  BY DEF Put
<1>2. /\ s \in [HHeads -> Seq(Nodes)] /\ s[h] \in Seq(Nodes) /\ l \in Nat /\ i \in Int /\ i + 1 \in 1 .. l + 1
      /\ 0 <= i /\ i <= l
  BY Places DEF Spelled
<1>3. /\ r \in Seq(Nodes) /\ Len(r) = l + 1
      /\ \A j \in 1 .. l + 1 : r[j] = IF j < i + 1 THEN s[h][j] ELSE IF j = i + 1 THEN n ELSE s[h][j - 1]
  <2> HIDE DEF r
  <2>1. r = InsertAt(s[h], i + 1, n)
    BY DEF r
  <2>2. n \in Nodes /\ s[h] \in Seq(Nodes) /\ i + 1 \in 1 .. l + 1
    BY <1>1, <1>2
  <2>3. Insertion(InsertAt(s[h], i + 1, n), s[h], i + 1, n)
    BY ONLY <2>2, InsertedAt
  <2> QED
    BY ONLY <2>1, <2>3 DEF Insertion
<1>4. t \in [HHeads -> Seq(Nodes)] /\ t[h] = r /\ \A g \in HHeads : g # h => t[g] = s[g]
  <2>1. t = [s EXCEPT ![h] = r]
    BY <1>2
  <2> HIDE DEF t, r
  <2> QED
    BY <1>2, <1>3, <2>1
<1> HIDE DEF t, r, c, l
<1>5. \A g \in HHeads : \A j \in 1 .. Len(s[g]) : s[g][j] # n
  BY <1>1, Back
(* Where the entries of the new lists were in the old ones.                *)
<1>6. /\ \A j \in 1 .. i : j \in 1 .. l /\ j \in 1 .. l + 1 /\ r[j] = s[h][j]
      /\ i + 1 \in 1 .. l + 1 /\ r[i + 1] = n
      /\ \A j \in i + 2 .. l + 1 : j - 1 \in 1 .. l /\ j \in 1 .. l + 1 /\ r[j] = s[h][j - 1]
      /\ \A j \in 1 .. l + 1 : j \in 1 .. i \/ j = i + 1 \/ j \in i + 2 .. l + 1
  BY <1>2, <1>3
<1>7. /\ \A j \in 0 .. i : j \in 0 .. l /\ At(t, h, j) = At(s, h, j)
      /\ At(t, h, i + 1) = n
      /\ \A j \in i + 2 .. l + 1 : j - 1 \in 0 .. l /\ At(t, h, j) = At(s, h, j - 1)
      /\ \A j \in 0 .. l + 1 : j \in 0 .. i - 1 \/ j = i \/ j = i + 1 \/ j \in i + 2 .. l + 1
  <2>1. ASSUME NEW j \in 0 .. i PROVE j \in 0 .. l /\ At(t, h, j) = At(s, h, j)
    <3>1. j # 0 => j \in 1 .. i
      BY <1>2
    <3> QED
      BY <1>2, <1>4, <1>6, <3>1 DEF At
  <2>2. At(t, h, i + 1) = n
    BY <1>2, <1>4, <1>6 DEF At
  <2>3. ASSUME NEW j \in i + 2 .. l + 1 PROVE j - 1 \in 0 .. l /\ At(t, h, j) = At(s, h, j - 1)
    <3>1. j # 0 /\ j - 1 # 0 /\ j - 1 \in 0 .. l
      BY <1>2
    <3> QED
      BY <1>4, <1>6, <3>1 DEF At
  <2> QED
    BY <1>2, <2>1, <2>2, <2>3
<1>8. ASSUME NEW g \in HHeads, NEW j \in 0 .. Len(t[g])
      PROVE  q.next[At(t, g, j)] = IF j = Len(t[g]) THEN NULL ELSE t[g][j + 1]
  (* An object that is neither c nor n leads where it led.                 *)
  <2>1. ASSUME NEW f \in HHeads, NEW k \in 0 .. Len(s[f]), f # h \/ k # i
        PROVE  q.next[At(s, f, k)] = IF k = Len(s[f]) THEN NULL ELSE s[f][k + 1]
    <3>1. At(s, f, k) # c
      BY <1>2, <2>1, Places DEF c, l
    <3>2. At(s, f, k) # n
      <4>1. CASE k = 0
        BY <1>1, <4>1, Distinct DEF At
      <4>2. CASE k # 0
        <5>1. k \in 1 .. Len(s[f]) /\ At(s, f, k) = s[f][k]
          BY <4>2, Places
        <5> QED
          BY <1>5, <5>1
      <4> QED
        BY <4>1, <4>2
    <3>3. At(s, f, k) \in HObjects /\ m.next[At(s, f, k)] = IF k = Len(s[f]) THEN NULL ELSE s[f][k + 1]
      BY Places
    <3> QED
      BY <1>1, <3>1, <3>2, <3>3
  <2>2. CASE g # h
    <3>1. t[g] = s[g] /\ At(t, g, j) = At(s, g, j)
      BY <1>4, <2>2 DEF At
    <3> QED
      BY <2>1, <2>2, <3>1
  <2>3. CASE g = h
    <3> USE <2>3
    <3>1. j \in 0 .. l + 1 /\ t[h] = r /\ Len(r) = l + 1
      BY <1>3, <1>4
    <3>2. CASE j \in 0 .. i - 1
      <4>1. j \in 0 .. l /\ At(t, h, j) = At(s, h, j) /\ j # i /\ j # l /\ j # l + 1 /\ j + 1 \in 1 .. i
        BY <1>2, <1>7, <3>2
      <4>2. q.next[At(s, h, j)] = s[h][j + 1]
        BY <2>1, <4>1 DEF l
      <4> QED
        BY <1>6, <3>1, <4>1, <4>2
    <3>3. CASE j = i
      <4>1. At(t, h, j) = c /\ j # l + 1
        BY <1>2, <1>7, <3>3 DEF c
      <4> QED
        BY <1>1, <1>6, <3>1, <3>3, <4>1
    <3>4. CASE j = i + 1
      <4>1. At(t, h, j) = n /\ n \in HObjects
        BY <1>1, <1>7, <3>4, Distinct
      <4>2. q.next[n] = m.next[c]
        BY <1>1, <4>1
      <4>3. m.next[c] = IF i = l THEN NULL ELSE s[h][i + 1]
        BY <1>2, Places DEF c, l
      <4>4. CASE i = l
        BY <3>1, <3>4, <4>1, <4>2, <4>3, <4>4
      <4>5. CASE i # l
        <5>1. j + 1 \in i + 2 .. l + 1 /\ j + 1 - 1 = i + 1 /\ j # l + 1
          BY <1>2, <3>4, <4>5
        <5>2. r[j + 1] = s[h][i + 1]
          BY <1>6, <5>1
        <5> QED
          BY <3>1, <4>1, <4>2, <4>3, <4>5, <5>1, <5>2
      <4> QED
        BY <4>4, <4>5
    <3>5. CASE j \in i + 2 .. l + 1
      <4>1. j - 1 \in 0 .. l /\ At(t, h, j) = At(s, h, j - 1) /\ j - 1 # i /\ j - 1 + 1 = j
        BY <1>2, <1>7, <3>5
      <4>2. q.next[At(s, h, j - 1)] = IF j - 1 = l THEN NULL ELSE s[h][j]
        BY <2>1, <4>1 DEF l
      <4>3. CASE j = l + 1
        BY <1>2, <3>1, <4>1, <4>2, <4>3
      <4>4. CASE j # l + 1
        <5>1. j + 1 \in i + 2 .. l + 1 /\ j + 1 - 1 = j /\ j - 1 # l
          BY <1>2, <3>5, <4>4
        <5> QED
          BY <1>6, <3>1, <4>1, <4>2, <4>4, <5>1
      <4> QED
        BY <4>3, <4>4
    <3> QED
      BY <1>7, <3>1, <3>2, <3>3, <3>4, <3>5
  <2> QED
    BY <2>2, <2>3
(* An entry of a new list is n, or one of an old list.                     *)
<1> DEFINE Was(j) == IF j <= i THEN j ELSE j - 1
<1>9. ASSUME NEW g \in HHeads, NEW j \in 1 .. Len(t[g])
      PROVE  \/ g = h /\ j = i + 1 /\ t[g][j] = n
             \/ /\ g = h => j # i + 1 /\ Was(j) \in 1 .. Len(s[g]) /\ t[g][j] = s[g][Was(j)]
                /\ g # h => j \in 1 .. Len(s[g]) /\ t[g][j] = s[g][j]
  <2>1. CASE g # h
    BY <1>4, <2>1
  <2>2. CASE g = h
    <3>1. j \in 1 .. l + 1 /\ t[g] = r
      BY <1>3, <1>4, <2>2
    <3>2. CASE j \in 1 .. i
      <4>1. j <= i /\ j # i + 1 /\ Was(j) = j
        BY <1>2, <3>2
      <4> QED
        BY <1>6, <2>2, <3>1, <3>2, <4>1 DEF l
    <3>3. CASE j = i + 1
      BY <1>6, <2>2, <3>1, <3>3
    <3>4. CASE j \in i + 2 .. l + 1
      <4>1. ~(j <= i) /\ j # i + 1 /\ Was(j) = j - 1
        BY <1>2, <3>4
      <4> QED
        BY <1>6, <2>2, <3>1, <3>4, <4>1 DEF l
    <3> QED
      BY <1>6, <3>1, <3>2, <3>3, <3>4
  <2> QED
    BY <2>1, <2>2
<1>10. ASSUME NEW f \in HHeads, NEW g \in HHeads, NEW j \in 1 .. Len(t[f]), NEW k \in 1 .. Len(t[g]),
              t[f][j] = t[g][k]
       PROVE  f = g /\ j = k
  <2>1. \/ f = h /\ j = i + 1 /\ t[f][j] = n
        \/ /\ f = h => j # i + 1 /\ Was(j) \in 1 .. Len(s[f]) /\ t[f][j] = s[f][Was(j)]
           /\ f # h => j \in 1 .. Len(s[f]) /\ t[f][j] = s[f][j]
    BY <1>9
  <2>2. \/ g = h /\ k = i + 1 /\ t[g][k] = n
        \/ /\ g = h => k # i + 1 /\ Was(k) \in 1 .. Len(s[g]) /\ t[g][k] = s[g][Was(k)]
           /\ g # h => k \in 1 .. Len(s[g]) /\ t[g][k] = s[g][k]
    BY <1>9
  <2>3. j # i + 1 /\ k # i + 1 /\ Was(j) = Was(k) => j = k
    <3>1. j \in Int /\ k \in Int
      OBVIOUS
    <3> QED
      BY <1>2, <3>1
  <2>4. \A a, b \in HHeads : \A u \in 1 .. Len(s[a]), v \in 1 .. Len(s[b]) : s[a][u] = s[b][v] => a = b /\ u = v
    BY DEF Spelled
  <2>5. CASE f = h
    <3> HIDE DEF Was
    <3> QED
      BY <1>5, <1>10, <2>1, <2>2, <2>3, <2>4, <2>5
  <2>6. CASE f # h
    <3> HIDE DEF Was
    <3> QED
      BY <1>5, <1>10, <2>1, <2>2, <2>4, <2>6
  <2> QED
    BY <2>5, <2>6
<1>11. \A g \in HHeads : \A j \in 1 .. Len(s[g]) : \E k \in 1 .. Len(t[g]) : t[g][k] = s[g][j]
  <2> SUFFICES ASSUME NEW g \in HHeads, NEW j \in 1 .. Len(s[g])
               PROVE  \E k \in 1 .. Len(t[g]) : t[g][k] = s[g][j]
    OBVIOUS
  <2>1. CASE g # h
    BY <1>4, <2>1
  <2>2. CASE g = h
    <3>1. t[g] = r /\ Len(t[g]) = l + 1 /\ j \in 1 .. l
      BY <1>3, <1>4, <2>2 DEF l
    <3>2. CASE j <= i
      <4>1. j \in 1 .. i /\ j \in 1 .. l + 1
        BY <1>2, <3>1, <3>2
      <4> QED
        BY <1>6, <2>2, <3>1, <4>1
    <3>3. CASE j > i
      <4>1. j + 1 \in i + 2 .. l + 1 /\ j + 1 - 1 = j /\ j + 1 \in 1 .. l + 1
        BY <1>2, <3>1, <3>3
      <4>2. r[j + 1] = s[h][j]
        BY <1>6, <4>1
      <4> QED
        BY <2>2, <3>1, <4>1, <4>2
    <3>4. j <= i \/ j > i
      BY <1>2, <3>1
    <3> QED
      BY <3>2, <3>3, <3>4
  <2> QED
    BY <2>1, <2>2
<1>12. ASSUME NEW y \in Nodes, Follows(q, y), y # n
       PROVE  \E g \in HHeads : \E j \in 1 .. Len(s[g]) : s[g][j] = y
  <2>1. CASE y = m.next[c]
    <3>1. m.next[c] = IF i = l THEN NULL ELSE s[h][i + 1]
      BY <1>2, Places DEF c, l
    <3>2. i # l
      BY <2>1, <3>1, Distinct
    <3>3. i + 1 \in 1 .. Len(s[h]) /\ s[h][i + 1] = y
      BY <1>2, <2>1, <3>1, <3>2 DEF l
    <3> QED
      BY <3>3
  <2>2. CASE y # m.next[c]
    <3>1. q.pprev[y] = m.pprev[y] /\ m.pprev[y] \in HObjects /\ q.next[m.pprev[y]] = y /\ q.next[y] # POISON
      BY <1>1, <1>12, <2>2 DEF Follows
    <3>2. m.next[m.pprev[y]] = y
      BY <1>1, <1>12, <2>2, <3>1
    <3>3. m.next[y] # POISON
      <4>1. CASE y = c
        BY <1>1, <4>1, Distinct DEF Follows
      <4>2. CASE y # c
        BY <1>1, <1>12, <3>1, <4>2, Distinct
      <4> QED
        BY <4>1, <4>2
    <3>4. Follows(m, y)
      BY <3>1, <3>2, <3>3 DEF Follows
    <3> QED
      BY <3>4 DEF Spelled
  <2> QED
    BY <2>1, <2>2
<1>13. ASSUME NEW y \in Nodes, Follows(q, y)
       PROVE  \E g \in HHeads : \E j \in 1 .. Len(t[g]) : t[g][j] = y
  <2>1. CASE y = n
    <3>1. i + 1 \in 1 .. Len(t[h]) /\ t[h][i + 1] = n
      BY <1>3, <1>4, <1>6
    <3> QED
      BY <2>1, <3>1
  <2>2. CASE y # n
    <3>1. PICK g \in HHeads : \E j \in 1 .. Len(s[g]) : s[g][j] = y
      BY <1>12, <1>13, <2>2
    <3> QED
      BY <1>11, <3>1
  <2> QED
    BY <2>1, <2>2
<1>14. Spelled(q, t)
  BY <1>4, <1>8, <1>10, <1>13 DEF Spelled
<1> QED
  BY <1>14 DEF t

(* The lists after the i-th node of the list of h was taken out.           *)
LEMMA SpelledTaken ==
  ASSUME NEW m, Agree(m), NEW s, Spelled(m, s), NEW q, NEW v, NEW h \in HHeads,
         NEW i \in 1 .. Len(s[h]), Taken(m, q, s[h][i], v)
  PROVE  Spelled(q, [s EXCEPT ![h] = RemoveAt(@, i)])
<1> DEFINE r == RemoveAt(s[h], i)
           t == [s EXCEPT ![h] = RemoveAt(@, i)]
           n == s[h][i]
           l == Len(s[h])
<1>1. /\ n \in Nodes /\ v \in {NULL, POISON} /\ q \in HMemories
      /\ \A y \in HObjects : q.next[y] = IF y = n THEN v ELSE IF y = m.pprev[n] THEN m.next[n] ELSE m.next[y]
      /\ \A y \in Nodes : q.pprev[y] = IF y = n THEN v ELSE IF y = m.next[n] THEN m.pprev[n] ELSE m.pprev[y]
  BY DEF Taken
<1>2. /\ s \in [HHeads -> Seq(Nodes)] /\ s[h] \in Seq(Nodes) /\ l \in Nat /\ i \in Int
      /\ 1 <= i /\ i <= l
  BY Places DEF Spelled
<1>3. /\ r \in Seq(Nodes) /\ Len(r) = l - 1
      /\ \A j \in 1 .. l - 1 : r[j] = IF j < i THEN s[h][j] ELSE s[h][j + 1]
  <2>1. ASSUME NEW w \in Seq(Nodes), NEW k \in 1 .. Len(w)
        PROVE  /\ RemoveAt(w, k) \in Seq(Nodes) /\ Len(RemoveAt(w, k)) = Len(w) - 1
               /\ \A j \in 1 .. Len(w) - 1 : RemoveAt(w, k)[j] = IF j < k THEN w[j] ELSE w[j + 1]
    BY RemovedAt
  <2>2. i \in 1 .. Len(s[h])
    OBVIOUS
  <2> HIDE DEF r
  <2>3. r = RemoveAt(s[h], i)
    BY DEF r
  <2>4. s[h] \in Seq(Nodes)
    BY <1>2
  <2> QED
    BY ONLY <2>1, <2>2, <2>3, <2>4
<1>4. t \in [HHeads -> Seq(Nodes)] /\ t[h] = r /\ \A g \in HHeads : g # h => t[g] = s[g]
  <2>1. t = [s EXCEPT ![h] = r]
    BY <1>2
  <2> HIDE DEF t, r
  <2> QED
    BY <1>2, <1>3, <2>1
<1>5. m.pprev[n] = At(s, h, i - 1) /\ At(s, h, i) = n /\ m.next[n] = IF i = l THEN NULL ELSE s[h][i + 1]
  <2>1. i \in 0 .. l
    BY <1>2
  <2> QED
    BY <2>1, Back, Places
<1> HIDE DEF t, r, n, l
(* Where the entries of the new lists were in the old ones.                *)
<1>6. /\ \A j \in 1 .. i - 1 : j \in 1 .. l /\ j \in 1 .. l - 1 /\ r[j] = s[h][j]
      /\ \A j \in i .. l - 1 : j + 1 \in 1 .. l /\ j \in 1 .. l - 1 /\ r[j] = s[h][j + 1]
      /\ \A j \in 1 .. l - 1 : j \in 1 .. i - 1 \/ j \in i .. l - 1
  BY <1>2, <1>3
<1>7. /\ \A j \in 0 .. i - 1 : j \in 0 .. l /\ At(t, h, j) = At(s, h, j)
      /\ \A j \in i .. l - 1 : j + 1 \in 0 .. l /\ At(t, h, j) = At(s, h, j + 1)
      /\ \A j \in 0 .. l - 1 : j \in 0 .. i - 2 \/ j = i - 1 \/ j \in i .. l - 1
  <2>1. ASSUME NEW j \in 0 .. i - 1 PROVE j \in 0 .. l /\ At(t, h, j) = At(s, h, j)
    <3>1. j # 0 => j \in 1 .. i - 1
      BY <1>2
    <3> QED
      BY <1>2, <1>4, <1>6, <3>1 DEF At
  <2>2. ASSUME NEW j \in i .. l - 1 PROVE j + 1 \in 0 .. l /\ At(t, h, j) = At(s, h, j + 1)
    <3>1. j # 0 /\ j + 1 # 0 /\ j + 1 \in 0 .. l
      BY <1>2
    <3> QED
      BY <1>4, <1>6, <3>1 DEF At
  <2> QED
    BY <1>2, <2>1, <2>2
<1>8. ASSUME NEW g \in HHeads, NEW j \in 0 .. Len(t[g])
      PROVE  q.next[At(t, g, j)] = IF j = Len(t[g]) THEN NULL ELSE t[g][j + 1]
  (* An object that is neither n nor before n leads where it led.          *)
  <2>1. ASSUME NEW f \in HHeads, NEW k \in 0 .. Len(s[f]), f # h \/ (k # i /\ k # i - 1)
        PROVE  q.next[At(s, f, k)] = IF k = Len(s[f]) THEN NULL ELSE s[f][k + 1]
    <3>1. i \in 0 .. Len(s[h]) /\ i - 1 \in 0 .. Len(s[h])
      BY <1>2 DEF l
    <3>2. At(s, f, k) # At(s, h, i) /\ At(s, f, k) # At(s, h, i - 1)
      BY <2>1, <3>1, Places
    <3>3. At(s, f, k) \in HObjects /\ m.next[At(s, f, k)] = IF k = Len(s[f]) THEN NULL ELSE s[f][k + 1]
      BY Places
    <3> QED
      BY <1>1, <1>5, <3>2, <3>3
  <2>2. CASE g # h
    <3>1. t[g] = s[g] /\ At(t, g, j) = At(s, g, j)
      BY <1>4, <2>2 DEF At
    <3> QED
      BY <2>1, <2>2, <3>1
  <2>3. CASE g = h
    <3> USE <2>3
    <3>1. j \in 0 .. l - 1 /\ t[h] = r /\ Len(r) = l - 1
      BY <1>3, <1>4
    <3>2. CASE j \in 0 .. i - 2
      <4>1. /\ j \in 0 .. l /\ At(t, h, j) = At(s, h, j) /\ j # i /\ j # i - 1 /\ j # l /\ j # l - 1
            /\ j + 1 \in 1 .. i - 1
        BY <1>2, <1>7, <3>2
      <4>2. q.next[At(s, h, j)] = s[h][j + 1]
        BY <2>1, <4>1 DEF l
      <4> QED
        BY <1>6, <3>1, <4>1, <4>2
    <3>3. CASE j = i - 1
      <4>1. At(t, h, j) = m.pprev[n] /\ At(s, h, i - 1) # At(s, h, i) /\ At(s, h, i - 1) \in HObjects
        <5>1. i - 1 \in 0 .. i - 1 /\ i - 1 \in 0 .. Len(s[h]) /\ i \in 0 .. Len(s[h]) /\ i - 1 # i
          BY <1>2 DEF l
        <5> QED
          BY <1>5, <1>7, <3>3, <5>1, Places
      <4>2. q.next[At(t, h, j)] = IF i = l THEN NULL ELSE s[h][i + 1]
        BY <1>1, <1>5, <4>1
      <4>3. CASE i = l
        BY <3>1, <3>3, <4>2, <4>3
      <4>4. CASE i # l
        <5>1. i \in i .. l - 1 /\ j # l - 1 /\ j + 1 = i
          BY <1>2, <3>3, <4>4
        <5>2. r[i] = s[h][i + 1]
          BY <1>6, <5>1
        <5> QED
          BY <3>1, <4>2, <4>4, <5>1, <5>2
      <4> QED
        BY <4>3, <4>4
    <3>4. CASE j \in i .. l - 1
      <4>1. j + 1 \in 0 .. l /\ At(t, h, j) = At(s, h, j + 1) /\ j + 1 # i /\ j + 1 # i - 1
        BY <1>2, <1>7, <3>4
      <4>2. q.next[At(s, h, j + 1)] = IF j + 1 = l THEN NULL ELSE s[h][j + 1 + 1]
        BY <2>1, <4>1 DEF l
      <4>3. CASE j = l - 1
        BY <1>2, <3>1, <4>1, <4>2, <4>3
      <4>4. CASE j # l - 1
        <5>1. j + 1 \in i .. l - 1 /\ j + 1 # l
          BY <1>2, <3>4, <4>4
        <5> QED
          BY <1>6, <3>1, <4>1, <4>2, <4>4, <5>1
      <4> QED
        BY <4>3, <4>4
    <3> QED
      BY <1>7, <3>1, <3>2, <3>3, <3>4
  <2> QED
    BY <2>2, <2>3
<1> DEFINE Was(j) == IF j < i THEN j ELSE j + 1
<1>9. ASSUME NEW g \in HHeads, NEW j \in 1 .. Len(t[g])
      PROVE  /\ g = h => Was(j) \in 1 .. Len(s[g]) /\ t[g][j] = s[g][Was(j)]
             /\ g # h => j \in 1 .. Len(s[g]) /\ t[g][j] = s[g][j]
  <2>1. CASE g # h
    BY <1>4, <2>1
  <2>2. CASE g = h
    <3>1. j \in 1 .. l - 1 /\ t[g] = r
      BY <1>3, <1>4, <2>2
    <3>2. CASE j \in 1 .. i - 1
      <4>1. Was(j) = j
        BY <1>2, <3>2
      <4> QED
        BY <1>6, <2>2, <3>1, <3>2, <4>1 DEF l
    <3>3. CASE j \in i .. l - 1
      <4>1. Was(j) = j + 1
        BY <1>2, <3>3
      <4> QED
        BY <1>6, <2>2, <3>1, <3>3, <4>1 DEF l
    <3> QED
      BY <1>6, <3>1, <3>2, <3>3
  <2> QED
    BY <2>1, <2>2
<1>10. ASSUME NEW f \in HHeads, NEW g \in HHeads, NEW j \in 1 .. Len(t[f]), NEW k \in 1 .. Len(t[g]),
              t[f][j] = t[g][k]
       PROVE  f = g /\ j = k
  <2>1. /\ f = h => Was(j) \in 1 .. Len(s[f]) /\ t[f][j] = s[f][Was(j)]
        /\ f # h => j \in 1 .. Len(s[f]) /\ t[f][j] = s[f][j]
    BY <1>9
  <2>2. /\ g = h => Was(k) \in 1 .. Len(s[g]) /\ t[g][k] = s[g][Was(k)]
        /\ g # h => k \in 1 .. Len(s[g]) /\ t[g][k] = s[g][k]
    BY <1>9
  <2>3. Was(j) = Was(k) => j = k
    <3>1. j \in Int /\ k \in Int
      OBVIOUS
    <3> QED
      BY <1>2, <3>1
  <2>4. \A a, b \in HHeads : \A u \in 1 .. Len(s[a]), w \in 1 .. Len(s[b]) : s[a][u] = s[b][w] => a = b /\ u = w
    BY DEF Spelled
  <2> HIDE DEF Was
  <2>5. CASE f = h
    BY <1>10, <2>1, <2>2, <2>3, <2>4, <2>5
  <2>6. CASE f # h
    BY <1>10, <2>1, <2>2, <2>4, <2>6
  <2> QED
    BY <2>5, <2>6
<1>11. \A g \in HHeads : \A j \in 1 .. Len(s[g]) : s[g][j] # n => \E k \in 1 .. Len(t[g]) : t[g][k] = s[g][j]
  <2> SUFFICES ASSUME NEW g \in HHeads, NEW j \in 1 .. Len(s[g]), s[g][j] # n
               PROVE  \E k \in 1 .. Len(t[g]) : t[g][k] = s[g][j]
    OBVIOUS
  <2>1. CASE g # h
    BY <1>4, <2>1
  <2>2. CASE g = h
    <3>1. t[g] = r /\ Len(t[g]) = l - 1 /\ j \in 1 .. l /\ j # i
      BY <1>3, <1>4, <2>2 DEF l, n
    <3>2. CASE j < i
      <4>1. j \in 1 .. i - 1 /\ j \in 1 .. l - 1
        BY <1>2, <3>1, <3>2
      <4> QED
        BY <1>6, <2>2, <3>1, <4>1
    <3>3. CASE j > i
      <4>1. j - 1 \in i .. l - 1 /\ j - 1 + 1 = j /\ j - 1 \in 1 .. l - 1
        BY <1>2, <3>1, <3>3
      <4>2. r[j - 1] = s[h][j]
        BY <1>6, <4>1
      <4> QED
        BY <2>2, <3>1, <4>1, <4>2
    <3>4. j < i \/ j > i
      BY <1>2, <3>1
    <3> QED
      BY <3>2, <3>3, <3>4
  <2> QED
    BY <2>1, <2>2
<1>12. ASSUME NEW y \in Nodes, Follows(q, y)
       PROVE  y # n /\ \E g \in HHeads : \E j \in 1 .. Len(s[g]) : s[g][j] = y
  <2>0. y # n
    BY <1>1, <1>12, Distinct DEF Follows
  <2>1. CASE y = m.next[n]
    <3>1. i # l
      BY <1>5, <2>1, Distinct
    <3>2. i + 1 \in 1 .. Len(s[h]) /\ s[h][i + 1] = y
      BY <1>2, <1>5, <2>1, <3>1 DEF l
    <3> QED
      BY <2>0, <3>2
  <2>2. CASE y # m.next[n]
    <3>1. q.pprev[y] = m.pprev[y] /\ m.pprev[y] \in HObjects /\ q.next[m.pprev[y]] = y /\ q.next[y] # POISON
      BY <1>1, <1>12, <2>0, <2>2 DEF Follows
    <3>2. m.next[m.pprev[y]] = y
      BY <1>1, <2>0, <2>2, <3>1, Distinct
    <3>3. CASE y = m.pprev[n]
      <4>1. i # 1
        BY <1>5, <3>3, Distinct DEF At
      <4>2. i - 1 \in 1 .. Len(s[h]) /\ At(s, h, i - 1) = s[h][i - 1]
        BY <1>2, <4>1 DEF l, At
      <4> QED
        BY <1>5, <2>0, <3>3, <4>2
    <3>4. CASE y # m.pprev[n]
      <4>1. m.next[y] # POISON
        BY <1>1, <2>0, <3>1, <3>4, Distinct
      <4>2. Follows(m, y)
        BY <3>1, <3>2, <4>1 DEF Follows
      <4> QED
        BY <2>0, <4>2 DEF Spelled
    <3> QED
      BY <3>3, <3>4
  <2> QED
    BY <2>1, <2>2
<1>13. ASSUME NEW y \in Nodes, Follows(q, y)
       PROVE  \E g \in HHeads : \E j \in 1 .. Len(t[g]) : t[g][j] = y
  <2>1. PICK g \in HHeads : \E j \in 1 .. Len(s[g]) : s[g][j] = y
    BY <1>12, <1>13
  <2> QED
    BY <1>11, <1>12, <1>13, <2>1
<1>14. Spelled(q, t)
  BY <1>4, <1>8, <1>10, <1>13 DEF Spelled
<1> QED
  BY <1>14 DEF t

-----------------------------------------------------------------------------
(* What the nodes are to hlist_unhashed, and which only seem to be listed. *)
Loose(m) == {n \in Nodes : m.pprev[n] = NULL}
Seeming(m) == {n \in Nodes : m.pprev[n] = n}

LEMMA LoosePut ==
  ASSUME NEW m, Agree(m), NEW s, Spelled(m, s), NEW q, NEW n, NEW h \in HHeads,
         NEW i \in 0 .. Len(s[h]), Put(m, q, n, At(s, h, i))
  PROVE  Loose(q) = Loose(m) \ {n} /\ Seeming(q) = Seeming(m)
<1> DEFINE c == At(s, h, i)
<1>1. /\ n \in Nodes /\ Free(m, n) /\ c \in HObjects /\ c # n
      /\ \A y \in Nodes : q.pprev[y] = IF y = n THEN c ELSE IF y = m.next[c] THEN n ELSE m.pprev[y]
  BY DEF Put
<1>2. ASSUME NEW y \in Nodes, y = m.next[c] PROVE m.pprev[y] = c /\ y # c /\ y # n
  <2>1. m.pprev[y] = c
    BY <1>1, <1>2 DEF Agree
  <2>2. /\ Len(s[h]) \in Nat /\ i # Len(s[h]) /\ y = s[h][i + 1]
    BY <1>2, Places, Distinct
  <2>3. i + 1 \in 0 .. Len(s[h]) /\ i + 1 \in 1 .. Len(s[h]) /\ i + 1 # i
    BY <2>2
  <2>4. At(s, h, i + 1) = y /\ At(s, h, i + 1) # At(s, h, i)
    BY <2>2, <2>3, Places
  <2> QED
    BY <1>1, <2>1, <2>4, Distinct DEF Free
<1> HIDE DEF c
<1>3. ASSUME NEW y \in Nodes
      PROVE  /\ q.pprev[y] = NULL <=> m.pprev[y] = NULL /\ y # n
             /\ q.pprev[y] = y <=> m.pprev[y] = y
  <2>1. CASE y = n
    BY <1>1, <2>1, Distinct DEF Free
  <2>2. CASE y = m.next[c]
    BY <1>1, <1>2, <2>2, Distinct
  <2>3. CASE y # n /\ y # m.next[c]
    BY <1>1, <2>3
  <2> QED
    BY <2>1, <2>2, <2>3
<1> QED
  BY <1>1, <1>3 DEF Loose, Seeming

LEMMA LooseTaken ==
  ASSUME NEW m, Agree(m), NEW s, Spelled(m, s), NEW q, NEW n, NEW v, Taken(m, q, n, v)
  PROVE  /\ Loose(q) = IF v = NULL THEN Loose(m) \cup {n} ELSE Loose(m)
         /\ Seeming(q) = Seeming(m) \ {n}
<1>1. /\ n \in Nodes /\ v \in {NULL, POISON}
      /\ Follows(m, n) \/ Faked(m, n)
      /\ \A y \in Nodes : q.pprev[y] = IF y = n THEN v ELSE IF y = m.next[n] THEN m.pprev[n] ELSE m.pprev[y]
  BY DEF Taken
<1>2. ASSUME NEW y \in Nodes, y = m.next[n]
      PROVE  m.pprev[y] = n /\ m.pprev[n] \in HObjects /\ m.pprev[n] # y /\ y # n
  <2>1. Follows(m, n) /\ m.pprev[y] = n
    BY <1>1, <1>2, Distinct DEF Agree, Faked
  <2>2. PICK h \in HHeads : \E i \in 1 .. Len(s[h]) : s[h][i] = n
    BY <1>1, <2>1 DEF Spelled
  <2>3. PICK i \in 1 .. Len(s[h]) : s[h][i] = n
    BY <2>2
  <2>4. i \in 0 .. Len(s[h]) /\ At(s, h, i) = n /\ Len(s[h]) \in Nat
    BY <2>3, Places
  <2>5. i # Len(s[h]) /\ y = s[h][i + 1]
    BY <1>2, <2>4, Places, Distinct
  <2>6. i + 1 \in 1 .. Len(s[h]) /\ i + 1 \in 0 .. Len(s[h]) /\ i - 1 \in 0 .. Len(s[h]) /\ i + 1 # i /\ i + 1 # i - 1
    BY <2>4, <2>5
  <2>7. At(s, h, i + 1) = y /\ m.pprev[n] = At(s, h, i - 1)
    BY <2>3, <2>5, <2>6, Back, Places
  <2>8. At(s, h, i + 1) # At(s, h, i - 1) /\ At(s, h, i + 1) # At(s, h, i)
    BY <2>4, <2>6, Places
  <2> QED
    BY <2>1, <2>4, <2>7, <2>8 DEF Follows
<1>3. m.pprev[n] # NULL
  BY <1>1, Distinct DEF Follows, Faked
<1>4. ASSUME NEW y \in Nodes
      PROVE  /\ q.pprev[y] = NULL <=> m.pprev[y] = NULL \/ (y = n /\ v = NULL)
             /\ q.pprev[y] = y <=> m.pprev[y] = y /\ y # n
  <2>1. CASE y = n
    BY <1>1, <1>3, <2>1, Distinct
  <2>2. CASE y = m.next[n]
    BY <1>1, <1>2, <2>2, Distinct
  <2>3. CASE y # n /\ y # m.next[n]
    BY <1>1, <2>3
  <2> QED
    BY <2>1, <2>2, <2>3
<1> QED
  BY <1>1, <1>4, Distinct DEF Loose, Seeming

LEMMA LoosePassed ==
  ASSUME NEW m, Agree(m), NEW q, NEW old, NEW new, Passed(m, q, old, new)
  PROVE  Loose(q) = Loose(m) /\ Seeming(q) = Seeming(m)
<1>1. /\ old \in HHeads /\ new \in HHeads
      /\ \A y \in Nodes : q.pprev[y] = IF y = m.next[old] THEN new ELSE m.pprev[y]
  BY DEF Passed
<1>2. \A y \in Nodes : y = m.next[old] => m.pprev[y] = old
  BY <1>1, Distinct DEF Agree
<1>3. \A y \in Nodes : (q.pprev[y] = NULL <=> m.pprev[y] = NULL) /\ (q.pprev[y] = y <=> m.pprev[y] = y)
  BY <1>1, <1>2, Distinct
<1> QED
  BY <1>3 DEF Loose, Seeming

-----------------------------------------------------------------------------
(* What the abstract specification sees.                                   *)
LEMMA ContentsAre ==
  ASSUME NEW m, Agree(m), NEW s, Spelled(m, s)
  PROVE  [h \in HHeads |-> Met(m)[h]] = s
<1>1. s = [h \in HHeads |-> s[h]]
  BY DEF Spelled
<1>2. \A h \in HHeads : Met(m)[h] = s[h]
  BY MetIs
<1> QED
  BY <1>1, <1>2

LEMMA AbstractSees ==
  ASSUME Agree(hm), NEW s, Spelled(hm, s)
  PROVE  /\ HContents = s /\ Unhashed = Loose(hm) /\ Fakes = Seeming(hm)
         /\ \A n \in Nodes : n \in HAbstract!Listed <=> Hashed(hm, n)
         /\ \A h \in HHeads : \A i \in 1 .. Len(s[h]) :
              /\ s[h][i] \in HAbstract!Listed
              /\ HAbstract!ListOf(s[h][i]) = h
              /\ HAbstract!Position(s[h][i]) = i
         /\ HAbstract!Listed \subseteq Nodes
<1>1. HContents = s
  BY ContentsAre DEF HContents
<1>2. Unhashed = Loose(hm) /\ Fakes = Seeming(hm)
  BY DEF Unhashed, Fakes, Loose, Seeming, hlist_unhashed, Fake
<1>3. \A h \in HHeads : HAbstract!Members(h) = {s[h][i] : i \in 1 .. Len(s[h])}
  <2> SUFFICES ASSUME NEW h \in HHeads PROVE HAbstract!Members(h) = {s[h][i] : i \in 1 .. Len(s[h])}
    OBVIOUS
  <2>1. s[h] \in Seq(Nodes)
    BY DEF Spelled
  <2>2. DOMAIN s[h] = 1 .. Len(s[h])
    BY <2>1
  <2> QED
    BY <1>1, <2>2 DEF HAbstract!Members, HAbstract!ToSet
<1>4. /\ HAbstract!Listed = UNION {HAbstract!Members(h) : h \in HHeads}
      /\ \A h \in HHeads : \A i \in 1 .. Len(s[h]) : s[h][i] \in Nodes
  BY Places DEF HAbstract!Listed
<1>5. ASSUME NEW n
      PROVE n \in HAbstract!Listed <=> \E h \in HHeads : \E i \in 1 .. Len(s[h]) : s[h][i] = n
  BY <1>3, <1>4
<1>6. ASSUME NEW n \in Nodes PROVE n \in HAbstract!Listed <=> Hashed(hm, n)
  <2>1. ASSUME NEW h \in HHeads, NEW i \in 1 .. Len(s[h]), s[h][i] = n PROVE Hashed(hm, n)
    <3>1. i - 1 \in 0 .. Len(s[h])
      BY Places
    <3>2. At(s, h, i - 1) \in HObjects
      BY <3>1, Places
    <3> QED
      BY <2>1, <3>2, Back, Distinct DEF Hashed
  <2>2. ASSUME Hashed(hm, n) PROVE \E h \in HHeads : \E i \in 1 .. Len(s[h]) : s[h][i] = n
    BY <2>2, Guards DEF Spelled
  <2> QED
    BY <1>5, <2>1, <2>2
<1>7. ASSUME NEW h \in HHeads, NEW i \in 1 .. Len(s[h])
      PROVE  /\ s[h][i] \in HAbstract!Listed
             /\ HAbstract!ListOf(s[h][i]) = h
             /\ HAbstract!Position(s[h][i]) = i
  <2>1. s[h][i] \in HAbstract!Listed
    BY <1>5
  <2>2. \A g \in HHeads : s[h][i] \in HAbstract!Members(g) <=> g = h
    <3>1. s[h][i] \in HAbstract!Members(h)
      BY <1>3
    <3>2. ASSUME NEW g \in HHeads, s[h][i] \in HAbstract!Members(g) PROVE g = h
      <4>1. PICK j \in 1 .. Len(s[g]) : s[g][j] = s[h][i]
        BY <1>3, <3>2
      <4> QED
        BY <4>1 DEF Spelled
    <3> QED
      BY <3>1, <3>2
  <2>3. HAbstract!ListOf(s[h][i]) = h
    BY <2>2 DEF HAbstract!ListOf
  <2>4. \A j \in DOMAIN s[h] : s[h][j] = s[h][i] <=> j = i
    <3>1. s[h] \in Seq(Nodes) /\ DOMAIN s[h] = 1 .. Len(s[h])
      BY DEF Spelled
    <3> QED
      BY <3>1 DEF Spelled
  <2>5. i \in DOMAIN s[h]
    BY DEF Spelled
  <2>6. HAbstract!Position(s[h][i]) = i
    BY <1>1, <2>3, <2>4, <2>5 DEF HAbstract!Position
  <2> QED
    BY <2>1, <2>3, <2>6
<1>8. HAbstract!Listed \subseteq Nodes
  BY <1>4, <1>5
<1> QED
  BY <1>1, <1>2, <1>6, <1>7, <1>8

-----------------------------------------------------------------------------
(* The lists of a memory are sequences.                                    *)
Reads(m) == \E s : Spelled(m, s)

(* The step of the abstract specification that a step of HList is.         *)
Steps == HAbstract!Next /\ Reads(hm)'

(* What is seen after a step.                                              *)
LEMMA SeenAfter ==
  ASSUME NEW q, q = hm', Agree(q), NEW t, Spelled(q, t)
  PROVE  Reads(hm)' /\ HContents' = t /\ Unhashed' = Loose(q) /\ Fakes' = Seeming(q)
<1>1. Reads(hm)'
  BY DEF Reads
<1>2. HContents' = [h \in HHeads |-> Met(q)[h]]
  BY DEF HContents
<1>3. Unhashed' = Loose(q) /\ Fakes' = Seeming(q)
  BY DEF Unhashed, Fakes, Loose, Seeming, hlist_unhashed, Fake
<1> QED
  BY <1>1, <1>2, <1>3, ContentsAre

LEMMA InitMaps == HInit => HAbstract!Init /\ Reads(hm)
<1> SUFFICES ASSUME HInit PROVE HAbstract!Init /\ Reads(hm)
  OBVIOUS
<1> DEFINE s == [h \in HHeads |-> <<>>]
<1>1. /\ hm.next = [x \in HObjects |-> IF x \in HHeads THEN NULL ELSE POISON]
      /\ hm.pprev = [n \in Nodes |-> POISON] /\ Agree(hm)
  BY InitAgrees DEF HInit
<1>2. Spelled(hm, s)
  <2>1. s \in [HHeads -> Seq(Nodes)] /\ \A h \in HHeads : s[h] = <<>> /\ Len(s[h]) = 0
    OBVIOUS
  <2> HIDE DEF s
  <2>2. \A n \in Nodes : ~Follows(hm, n)
    BY <1>1, Distinct DEF Follows
  <2>3. \A h \in HHeads : \A i \in 0 .. Len(s[h]) :
          hm.next[At(s, h, i)] = IF i = Len(s[h]) THEN NULL ELSE s[h][i + 1]
    BY <1>1, <2>1, Distinct DEF At
  <2>4. \A h, g \in HHeads : \A i \in 1 .. Len(s[h]), j \in 1 .. Len(s[g]) : s[h][i] = s[g][j] => h = g /\ i = j
    BY <2>1
  <2> QED
    BY <2>1, <2>2, <2>3, <2>4 DEF Spelled
<1> HIDE DEF s
<1>3. HContents = s /\ Unhashed = Loose(hm) /\ Fakes = Seeming(hm)
  BY <1>1, <1>2, AbstractSees
<1>4. Loose(hm) = {} /\ Seeming(hm) = {}
  BY <1>1, Distinct DEF Loose, Seeming
<1> QED
  BY <1>2, <1>3, <1>4 DEF HAbstract!Init, HInit, Reads, s

LEMMA InitialiseMaps == Agree(hm) /\ Reads(hm) /\ HInitialise => Steps
<1> SUFFICES ASSUME Agree(hm), Reads(hm), HInitialise PROVE Steps
  OBVIOUS
<1>1. PICK s : Spelled(hm, s)
  BY DEF Reads
<1>2. HContents = s /\ Unhashed = Loose(hm) /\ Fakes = Seeming(hm)
  BY <1>1, AbstractSees
<1>3. ASSUME NEW h \in HHeads, hlist_empty(hm, h), hop' = <<"INIT_HLIST_HEAD", h>>, hm' = INIT_HLIST_HEAD(hm, h)
      PROVE  HAbstract!Initialise /\ Reads(hm)'
  <2>1. hm' = hm
    <3>1. hm \in HMemories /\ hm.next[h] = NULL /\ hm' = [hm EXCEPT !.next[h] = NULL]
      BY <1>3 DEF Agree, hlist_empty, INIT_HLIST_HEAD
    <3> QED
      BY <3>1, Distinct DEF HMemories
  <2>2. HContents' = s /\ Unhashed' = Unhashed /\ Fakes' = Fakes /\ Reads(hm)'
    BY <1>1, <1>2, <2>1, SeenAfter
  <2>3. s[h] = <<>>
    <3>1. s[h] \in Seq(Nodes) /\ Len(s[h]) \in Nat
      BY <1>1 DEF Spelled
    <3>2. Len(s[h]) = 0
      <4>1. 0 \in 0 .. Len(s[h]) /\ At(s, h, 0) = h
        BY <3>1 DEF At
      <4>2. hm.next[h] = NULL
        BY <1>3 DEF hlist_empty
      <4>3. Len(s[h]) # 0 => 0 + 1 = 1 /\ 1 \in 1 .. Len(s[h])
        BY <3>1
      <4> QED
        BY <1>1, <4>1, <4>2, <4>3, Places, Distinct
    <3> QED
      BY <3>1, <3>2
  <2> QED
    BY <1>2, <1>3, <2>2, <2>3 DEF HAbstract!Initialise, HAbstract!Call
<1>4. ASSUME NEW n \in Nodes, ~HOn(n), hop' = <<"INIT_HLIST_NODE", n>>, hm' = INIT_HLIST_NODE(hm, n)
      PROVE  HAbstract!Initialise /\ Reads(hm)'
  <2>1. ~Hashed(hm, n) /\ hm' = [hm EXCEPT !.next[n] = NULL, !.pprev[n] = NULL] /\ hm \in HMemories /\ n \in HObjects
    BY <1>4, Distinct DEF HOn, INIT_HLIST_NODE, Agree
  <2>2. ASSUME NEW q, q = hm'
        PROVE  /\ Agree(q) /\ Spelled(q, s) /\ Loose(q) = Loose(hm) \cup {n} /\ Seeming(q) = Seeming(hm) \ {n}
    <3>1. /\ q \in HMemories /\ q.next[n] = NULL /\ q.pprev[n] = NULL
          /\ \A y \in HObjects : y # n => q.next[y] = hm.next[y]
          /\ \A y \in Nodes : y # n => q.pprev[y] = hm.pprev[y]
      BY <2>1, <2>2 DEF HMemories
    <3>2. Free(q, n) /\ (Free(hm, n) \/ Faked(hm, n))
      BY <2>1, <3>1, Guards DEF Free
    <3>3. Agree(q) /\ Spelled(q, s)
      BY <1>1, <3>1, <3>2, Changed, SpelledChanged
    <3>4. Loose(q) = Loose(hm) \cup {n} /\ Seeming(q) = Seeming(hm) \ {n}
      BY <3>1, Distinct DEF Loose, Seeming
    <3> QED
      BY <3>3, <3>4
  <2>3. /\ HContents' = s /\ Unhashed' = Unhashed \cup {n} /\ Fakes' = Fakes \ {n} /\ Reads(hm)'
    <3>1. ASSUME NEW q, q = hm'
          PROVE  /\ HContents' = s /\ Unhashed' = Loose(hm) \cup {n} /\ Fakes' = Seeming(hm) \ {n} /\ Reads(hm)'
      <4>1. Agree(q) /\ Spelled(q, s) /\ Loose(q) = Loose(hm) \cup {n} /\ Seeming(q) = Seeming(hm) \ {n}
        BY <2>2, <3>1
      <4> QED
        BY <3>1, <4>1, SeenAfter
    <3> QED
      BY <1>2, <3>1
  <2>4. n \in Nodes \ HAbstract!Listed
    BY <1>1, <2>1, AbstractSees
  <2> QED
    BY <1>2, <1>4, <2>3, <2>4 DEF HAbstract!Initialise, HAbstract!Call
<1> QED
  BY <1>3, <1>4 DEF HInitialise, HCall, Steps, HAbstract!Next

(* A node goes into the list of h behind its i-th object.                  *)
LEMMA InsertMaps ==
  ASSUME Agree(hm), NEW s, Spelled(hm, s), NEW n, NEW h \in HHeads, NEW i \in 0 .. Len(s[h]),
         NEW mem, Put(hm, mem, n, At(s, h, i)), NEW o, HCall(o, mem)
  PROVE  HAbstract!Insert(o, n, h, i + 1) /\ Reads(hm)'
<1>1. HContents = s /\ Unhashed = Loose(hm) /\ Fakes = Seeming(hm)
  BY AbstractSees
<1> DEFINE t == [s EXCEPT ![h] = InsertAt(@, i + 1, n)]
<1>2. Agree(mem) /\ Spelled(mem, t) /\ Loose(mem) = Loose(hm) \ {n} /\ Seeming(mem) = Seeming(hm)
  <2> HIDE DEF t
  <2>1. Agree(mem)
    BY Inserted
  <2>2. Spelled(mem, t)
    BY SpelledPut DEF t
  <2>3. Loose(mem) = Loose(hm) \ {n} /\ Seeming(mem) = Seeming(hm)
    BY LoosePut
  <2> QED
    BY <2>1, <2>2, <2>3
<1> HIDE DEF t
<1>3. HContents' = t /\ Unhashed' = Unhashed \ {n} /\ Fakes' = Fakes /\ Reads(hm)'
  <2>1. mem = hm'
    BY DEF HCall
  <2>2. Reads(hm)' /\ HContents' = t /\ Unhashed' = Loose(mem) /\ Fakes' = Seeming(mem)
    BY ONLY <1>2, <2>1, SeenAfter
  <2> QED
    BY <1>1, <1>2, <2>2
<1> QED
  BY <1>1, <1>3 DEF HAbstract!Insert, HAbstract!Call, HAbstract!InsertAt, HCall, t, InsertAt

(* The place of a node that is in a list.                                  *)
LEMMA PlaceOf ==
  ASSUME NEW m, Agree(m), NEW s, Spelled(m, s), NEW x \in Nodes, Hashed(m, x)
  PROVE  \E h \in HHeads : \E i \in 1 .. Len(s[h]) :
           /\ s[h][i] = x /\ At(s, h, i) = x /\ m.pprev[x] = At(s, h, i - 1)
           /\ i \in 0 .. Len(s[h]) /\ i - 1 \in 0 .. Len(s[h]) /\ i - 1 + 1 = i
<1>1. PICK h \in HHeads : \E i \in 1 .. Len(s[h]) : s[h][i] = x
  BY Guards DEF Spelled
<1>2. PICK i \in 1 .. Len(s[h]) : s[h][i] = x
  BY <1>1
<1>3. i \in 0 .. Len(s[h]) /\ i - 1 \in 0 .. Len(s[h]) /\ i - 1 + 1 = i
  BY Places
<1>4. At(s, h, i) = x /\ m.pprev[x] = At(s, h, i - 1)
  BY <1>2, Places, Back
<1> QED
  BY <1>2, <1>3, <1>4

LEMMA AddMaps == Agree(hm) /\ Reads(hm) /\ HAdd => Steps
<1> SUFFICES ASSUME Agree(hm), Reads(hm), HAdd PROVE Steps
  OBVIOUS
<1>1. PICK s : Spelled(hm, s)
  BY DEF Reads
<1>2. PICK n \in Nodes :
        /\ ~HOn(n) /\ ~Fake(n)
        /\ \/ \E h \in HHeads : HCall(<<"hlist_add_head", n, h>>, hlist_add_head(hm, n, h))
           \/ \E x \in Nodes :
                /\ HOn(x)
                /\ \/ HCall(<<"hlist_add_before", n, x>>, hlist_add_before(hm, n, x))
                   \/ HCall(<<"hlist_add_behind", n, x>>, hlist_add_behind(hm, n, x))
  BY DEF HAdd
<1>3. Free(hm, n)
  BY <1>2, Guards DEF HOn, Fake
<1>4. n \in Nodes \ (HAbstract!Listed \cup Fakes)
  <2>1. ~Hashed(hm, n) /\ n \notin Seeming(hm)
    BY <1>2 DEF HOn, Fake, Seeming
  <2> QED
    BY <1>1, <2>1, AbstractSees
<1>5. ASSUME NEW h \in HHeads, HCall(<<"hlist_add_head", n, h>>, hlist_add_head(hm, n, h))
      PROVE  HAbstract!Add /\ Reads(hm)'
  <2>1. 0 \in 0 .. Len(s[h]) /\ At(s, h, 0) = h /\ 0 + 1 = 1
    <3>1. Len(s[h]) \in Nat
      BY <1>1, Places
    <3> QED
      BY <3>1 DEF At
  <2>2. Put(hm, hlist_add_head(hm, n, h), n, At(s, h, 0))
    BY <1>3, <2>1, AddHead
  <2>3. HAbstract!Insert(<<"hlist_add_head", n, h>>, n, h, 0 + 1) /\ Reads(hm)'
    BY <1>1, <1>5, <2>1, <2>2, InsertMaps
  <2> QED
    BY <1>4, <2>1, <2>3 DEF HAbstract!Add
<1>6. ASSUME NEW x \in Nodes, HOn(x),
             HCall(<<"hlist_add_before", n, x>>, hlist_add_before(hm, n, x))
      PROVE  HAbstract!Add /\ Reads(hm)'
  <2>1. Hashed(hm, x)
    BY <1>6 DEF HOn
  <2>2. PICK h \in HHeads : \E i \in 1 .. Len(s[h]) :
           /\ s[h][i] = x /\ At(s, h, i) = x /\ hm.pprev[x] = At(s, h, i - 1)
           /\ i \in 0 .. Len(s[h]) /\ i - 1 \in 0 .. Len(s[h]) /\ i - 1 + 1 = i
    BY <1>1, <2>1, PlaceOf
  <2>3. PICK i \in 1 .. Len(s[h]) :
           /\ s[h][i] = x /\ At(s, h, i) = x /\ hm.pprev[x] = At(s, h, i - 1)
           /\ i \in 0 .. Len(s[h]) /\ i - 1 \in 0 .. Len(s[h]) /\ i - 1 + 1 = i
    BY <2>2
  <2>4. Put(hm, hlist_add_before(hm, n, x), n, At(s, h, i - 1))
    BY <1>3, <2>1, <2>3, AddBefore
  <2>5. HAbstract!Insert(<<"hlist_add_before", n, x>>, n, h, i) /\ Reads(hm)'
    <3>1. HAbstract!Insert(<<"hlist_add_before", n, x>>, n, h, i - 1 + 1) /\ Reads(hm)'
      BY <1>1, <1>6, <2>3, <2>4, InsertMaps
    <3> QED
      BY <2>3, <3>1
  <2>6. x \in HAbstract!Listed /\ HAbstract!ListOf(x) = h /\ HAbstract!Position(x) = i
    BY <1>1, <2>3, AbstractSees
  <2> QED
    BY <1>4, <2>5, <2>6 DEF HAbstract!Add
<1>7. ASSUME NEW x \in Nodes, HOn(x),
             HCall(<<"hlist_add_behind", n, x>>, hlist_add_behind(hm, n, x))
      PROVE  HAbstract!Add /\ Reads(hm)'
  <2>1. Hashed(hm, x)
    BY <1>7 DEF HOn
  <2>2. PICK h \in HHeads : \E i \in 1 .. Len(s[h]) :
           /\ s[h][i] = x /\ At(s, h, i) = x /\ hm.pprev[x] = At(s, h, i - 1)
           /\ i \in 0 .. Len(s[h]) /\ i - 1 \in 0 .. Len(s[h]) /\ i - 1 + 1 = i
    BY <1>1, <2>1, PlaceOf
  <2>3. PICK i \in 1 .. Len(s[h]) : s[h][i] = x /\ At(s, h, i) = x /\ i \in 0 .. Len(s[h])
    BY <2>2
  <2>4. Put(hm, hlist_add_behind(hm, n, x), n, At(s, h, i))
    BY <1>3, <2>1, <2>3, AddBehind
  <2>5. HAbstract!Insert(<<"hlist_add_behind", n, x>>, n, h, i + 1) /\ Reads(hm)'
    BY <1>1, <1>7, <2>3, <2>4, InsertMaps
  <2>6. x \in HAbstract!Listed /\ HAbstract!ListOf(x) = h /\ HAbstract!Position(x) = i
    BY <1>1, <2>3, AbstractSees
  <2> QED
    BY <1>4, <2>5, <2>6 DEF HAbstract!Add
<1> QED
  BY <1>2, <1>5, <1>6, <1>7 DEF Steps, HAbstract!Next

LEMMA FakeMaps == Agree(hm) /\ Reads(hm) /\ AddFake => Steps
<1> SUFFICES ASSUME Agree(hm), Reads(hm), AddFake PROVE Steps
  OBVIOUS
<1>1. PICK s : Spelled(hm, s)
  BY DEF Reads
<1>2. PICK n \in Nodes : hm.pprev[n] = NULL /\ HCall(<<"hlist_add_fake", n>>, [hm EXCEPT !.pprev[n] = n])
  BY DEF AddFake, hlist_unhashed, hlist_add_fake
<1>3. HContents = s /\ Unhashed = Loose(hm) /\ Fakes = Seeming(hm)
  BY <1>1, AbstractSees
<1>4. hm \in HMemories /\ n \in HObjects /\ Free(hm, n)
  BY <1>2, Guards, Distinct DEF Agree, Hashed
<1>5. ASSUME NEW q, q = hm'
      PROVE  HContents' = s /\ Unhashed' = Loose(hm) \ {n} /\ Fakes' = Seeming(hm) \cup {n} /\ Reads(hm)'
  <2>1. /\ q \in HMemories /\ q.next = hm.next
        /\ \A y \in Nodes : q.pprev[y] = IF y = n THEN n ELSE hm.pprev[y]
    BY <1>2, <1>4, <1>5, SetPprev DEF HCall
  <2>2. Faked(q, n)
    BY <1>2, <1>4, <2>1 DEF Faked, Free
  <2>3. Agree(q) /\ Spelled(q, s)
    BY <1>1, <1>4, <2>1, <2>2, Changed, SpelledChanged
  <2>4. Loose(q) = Loose(hm) \ {n} /\ Seeming(q) = Seeming(hm) \cup {n}
    BY <2>1, Distinct DEF Loose, Seeming
  <2> QED
    BY <1>5, <2>3, <2>4, SeenAfter
<1>6. n \in Unhashed
  BY <1>2, <1>3 DEF Loose
<1>7. HContents' = HContents /\ Unhashed' = Unhashed \ {n} /\ Fakes' = Fakes \cup {n} /\ Reads(hm)'
  BY <1>3, <1>5
<1> QED
  BY <1>2, <1>6, <1>7 DEF HAbstract!AddFake, HAbstract!Call, HCall, Steps, HAbstract!Next

(* A node leaves its list, if it is in one.                                *)
LEMMA TakeMaps ==
  ASSUME Agree(hm), NEW s, Spelled(hm, s), NEW n, NEW v, Taken(hm, hm', n, v)
  PROVE  /\ Reads(hm)' /\ HContents' = HAbstract!Without(n)
         /\ Unhashed' = IF v = NULL THEN Unhashed \cup {n} ELSE Unhashed
         /\ Fakes' = Fakes \ {n}
<1>1. HContents = s /\ Unhashed = Loose(hm) /\ Fakes = Seeming(hm)
  BY AbstractSees
<1>2. ASSUME NEW q, q = hm'
      PROVE  /\ Agree(q) /\ Loose(q) = IF v = NULL THEN Loose(hm) \cup {n} ELSE Loose(hm)
             /\ Seeming(q) = Seeming(hm) \ {n}
             /\ Spelled(q, HAbstract!Without(n))
  <2>1. Taken(hm, q, n, v)
    BY <1>2
  <2>2. Agree(q)
    BY <2>1, Removed
  <2>3. Loose(q) = (IF v = NULL THEN Loose(hm) \cup {n} ELSE Loose(hm)) /\ Seeming(q) = Seeming(hm) \ {n}
    BY <2>1, LooseTaken
  <2>4. n \in Nodes
    BY <2>1 DEF Taken
  <2>5. CASE Hashed(hm, n)
    <3>1. PICK h \in HHeads : \E i \in 1 .. Len(s[h]) : s[h][i] = n
      BY <2>4, <2>5, PlaceOf
    <3>2. PICK i \in 1 .. Len(s[h]) : s[h][i] = n
      BY <3>1
    <3>3. Spelled(q, [s EXCEPT ![h] = RemoveAt(@, i)])
      BY <2>1, <3>2, SpelledTaken
    <3>4. n \in HAbstract!Listed /\ HAbstract!ListOf(n) = h /\ HAbstract!Position(n) = i
      BY <3>2, AbstractSees
    <3>5. HAbstract!Without(n) = [s EXCEPT ![h] = RemoveAt(@, i)]
      BY <1>1, <3>4 DEF HAbstract!Without, HAbstract!RemoveAt, RemoveAt
    <3> QED
      BY <2>2, <2>3, <3>3, <3>5
  <2>6. CASE ~Hashed(hm, n)
    <3>1. Free(hm, n) \/ Faked(hm, n)
      BY <2>4, <2>6, Guards
    <3>2. Faked(hm, n)
      BY <2>1, <2>6, <3>1, Distinct DEF Taken, Follows, Hashed
    <3>3. /\ Free(q, n) /\ \A y \in HObjects : y # n => q.next[y] = hm.next[y]
          /\ \A y \in Nodes : y # n => q.pprev[y] = hm.pprev[y]
      BY <2>1, <2>4, <3>2, Distinct DEF Taken, Faked, Free
    <3>4. Spelled(q, s)
      BY <2>4, <3>2, <3>3, SpelledChanged
    <3>5. n \notin HAbstract!Listed
      BY <2>4, <2>6, AbstractSees
    <3>6. HAbstract!Without(n) = s
      BY <1>1, <3>5 DEF HAbstract!Without
    <3> QED
      BY <2>2, <2>3, <3>4, <3>6
  <2> QED
    BY <2>2, <2>3, <2>5, <2>6
<1>3. ASSUME NEW q, q = hm', NEW w, w = HAbstract!Without(n)
      PROVE  /\ Reads(hm)' /\ HContents' = w
             /\ Unhashed' = IF v = NULL THEN Loose(hm) \cup {n} ELSE Loose(hm)
             /\ Fakes' = Seeming(hm) \ {n}
  <2>1. /\ Agree(q) /\ Loose(q) = IF v = NULL THEN Loose(hm) \cup {n} ELSE Loose(hm)
        /\ Seeming(q) = Seeming(hm) \ {n} /\ Spelled(q, w)
    BY <1>2, <1>3
  <2> QED
    BY ONLY <1>3, <2>1, SeenAfter
<1> QED
  BY <1>1, <1>3

LEMMA DeleteMaps == Agree(hm) /\ Reads(hm) /\ HDelete => Steps
<1> SUFFICES ASSUME Agree(hm), Reads(hm), HDelete PROVE Steps
  OBVIOUS
<1>1. PICK s : Spelled(hm, s)
  BY DEF Reads
<1>2. HContents = s /\ Unhashed = Loose(hm) /\ Fakes = Seeming(hm)
  BY <1>1, AbstractSees
<1>3. ASSUME NEW n \in Nodes, HOn(n) \/ Fake(n)
      PROVE  n \in HAbstract!Listed \cup Fakes /\ (Follows(hm, n) \/ Faked(hm, n))
  <2>1. HOn(n) => n \in HAbstract!Listed
    BY <1>1, AbstractSees DEF HOn
  <2>2. Fake(n) => n \in Fakes
    BY DEF Fakes
  <2> QED
    BY <1>3, <2>1, <2>2, Guards DEF HOn, Fake
<1>4. ASSUME NEW n \in Nodes, HOn(n) \/ Fake(n), HCall(<<"hlist_del", n>>, hlist_del(hm, n))
      PROVE  HAbstract!Delete /\ Reads(hm)'
  <2>1. Taken(hm, hlist_del(hm, n), n, POISON)
    BY <1>3, <1>4, Delete DEF hlist_del
  <2>2. Taken(hm, hm', n, POISON)
    BY <1>4, <2>1 DEF HCall
  <2>3. Reads(hm)' /\ HContents' = HAbstract!Without(n) /\ Unhashed' = Unhashed /\ Fakes' = Fakes \ {n}
    BY <1>1, <2>2, TakeMaps, Distinct
  <2> QED
    BY <1>3, <1>4, <2>3 DEF HAbstract!Delete, HAbstract!Call, HCall
<1>5. ASSUME NEW n \in Nodes, HOn(n) \/ Fake(n), ~hlist_unhashed(hm, n),
             HCall(<<"hlist_del_init", n>>, hlist_del_init(hm, n))
      PROVE  HAbstract!Delete /\ Reads(hm)'
  <2>1. Taken(hm, hlist_del_init(hm, n), n, NULL)
    BY <1>3, <1>5, Delete DEF hlist_del_init, INIT_HLIST_NODE
  <2>2. Taken(hm, hm', n, NULL)
    BY <1>5, <2>1 DEF HCall
  <2>3. Reads(hm)' /\ HContents' = HAbstract!Without(n) /\ Unhashed' = Unhashed \cup {n} /\ Fakes' = Fakes \ {n}
    BY <1>1, <2>2, TakeMaps
  <2> QED
    BY <1>3, <1>5, <2>3 DEF HAbstract!Delete, HAbstract!Call, HCall
<1>6. ASSUME NEW n \in Nodes, hlist_unhashed(hm, n),
             HCall(<<"hlist_del_init", n>>, hlist_del_init(hm, n))
      PROVE  HAbstract!Delete /\ Reads(hm)'
  <2>1. hm' = hm
    BY <1>6 DEF HCall, hlist_del_init
  <2>2. HContents' = s /\ Unhashed' = Loose(hm) /\ Fakes' = Seeming(hm) /\ Reads(hm)'
    BY <1>1, <2>1, SeenAfter
  <2>3. n \in Unhashed /\ n \notin Fakes /\ n \notin HAbstract!Listed
    <3>1. hm.pprev[n] = NULL /\ ~Hashed(hm, n)
      BY <1>6 DEF hlist_unhashed, Hashed
    <3> QED
      BY <1>1, <1>2, <3>1, AbstractSees, Distinct DEF Loose, Seeming
  <2>4. HAbstract!Without(n) = HContents
    BY <2>3 DEF HAbstract!Without
  <2>5. Unhashed' = Unhashed \cup {n} /\ Fakes' = Fakes \ {n}
    BY <1>2, <2>2, <2>3
  <2> QED
    BY <1>2, <1>6, <2>2, <2>3, <2>4, <2>5 DEF HAbstract!Delete, HAbstract!Call, HCall
<1> QED
  BY <1>4, <1>5, <1>6 DEF HDelete, Steps, HAbstract!Next

LEMMA MoveMaps == Agree(hm) /\ Reads(hm) /\ MoveList => Steps
<1> SUFFICES ASSUME Agree(hm), Reads(hm), MoveList PROVE Steps
  OBVIOUS
<1>1. PICK s : Spelled(hm, s)
  BY DEF Reads
<1>2. HContents = s /\ Unhashed = Loose(hm) /\ Fakes = Seeming(hm)
  BY <1>1, AbstractSees
<1>3. PICK old \in HHeads, new \in HHeads :
        /\ old # new /\ hm.next[new] = NULL
        /\ HCall(<<"hlist_move_list", old, new>>, hlist_move_list(hm, old, new))
  BY DEF MoveList, hlist_empty
<1>4. ASSUME NEW q, q = hm'
      PROVE  /\ HContents' = [s EXCEPT ![new] = s[old], ![old] = <<>>]
             /\ Unhashed' = Loose(hm) /\ Fakes' = Seeming(hm) /\ Reads(hm)'
  <2>1. Passed(hm, q, old, new)
    BY <1>3, <1>4, Move DEF HCall
  <2>2. Agree(q) /\ Spelled(q, [s EXCEPT ![new] = s[old], ![old] = <<>>])
    BY <1>1, <2>1, Moved, SpelledPassed
  <2>3. Loose(q) = Loose(hm) /\ Seeming(q) = Seeming(hm)
    BY <2>1, LoosePassed
  <2> QED
    BY <1>4, <2>2, <2>3, SeenAfter
<1>5. s[new] = <<>>
  <2>1. s[new] \in Seq(Nodes) /\ Len(s[new]) \in Nat
    BY <1>1 DEF Spelled
  <2>2. 0 \in 0 .. Len(s[new]) /\ At(s, new, 0) = new /\ (Len(s[new]) # 0 => 0 + 1 \in 1 .. Len(s[new]))
    BY <2>1 DEF At
  <2>3. Len(s[new]) = 0
    BY <1>1, <1>3, <2>2, Places, Distinct
  <2> QED
    BY <2>1, <2>3
<1> QED
  BY <1>2, <1>3, <1>4, <1>5 DEF HAbstract!MoveList, HAbstract!Call, HCall, Steps, HAbstract!Next

(* Every call does to the sequences of nodes, and to what hlist_unhashed   *)
(* says of each node, what its name and comment say, whatever was called   *)
(* before: HList implements HListSeq.                                      *)
THEOREM ChainsAreSequences == HSpec => ImplementsChains
<1> DEFINE Seen  == <<HContents, Unhashed, Fakes, hop>>
           Sound == Agree(hm) /\ Reads(hm)
<1>1. HInit => HAbstract!Init /\ Sound
  BY InitAgrees, InitMaps
<1>2. Sound /\ [HNext]_hvars => Sound' /\ [HAbstract!Next]_Seen
  <2>1. Sound /\ HNext => Sound' /\ HAbstract!Next
    <3>1. Sound /\ HNext => Agree(hm)'
      BY InitialiseAgrees, AddAgrees, FakeAgrees, DeleteAgrees, MoveAgrees DEF HNext
    <3>2. Sound /\ HNext => Steps
      BY InitialiseMaps, AddMaps, FakeMaps, DeleteMaps, MoveMaps DEF HNext
    <3> QED
      BY <3>1, <3>2 DEF Steps
  <2>2. Sound /\ UNCHANGED hvars => Sound' /\ UNCHANGED Seen
    BY DEF hvars, Agree, Reads, Spelled, HContents, Unhashed, Fakes, Fake
  <2> QED
    BY <2>1, <2>2
<1> HIDE DEF Sound, Seen
<1>3. HSpec => HAbstract!Init /\ [][HAbstract!Next]_Seen
  BY <1>1, <1>2, PTL DEF HSpec
<1> QED
  BY <1>3 DEF ImplementsChains, HAbstract!Spec, Seen
=============================================================================
