--------------------------- MODULE ListHeadProofs ---------------------------
(* The rings of ListHead stay consistent, for any number of heads and      *)
(* entries.  RingsConsistent speaks of the objects that happen to be       *)
(* linked; the proof names them instead: Rings(mem, S) says that S is a    *)
(* union of rings of mem and that nothing else is linked, whatever stale   *)
(* pointers it holds.  One lemma per pointer operation of list.h gives the *)
(* set T of linked objects it leaves when S was the set before: an added   *)
(* object joins it, a deleted one leaves it, a replacement changes places  *)
(* with its original, an emptied head leaves it.  The functions of list.h  *)
(* and the actions of ListHead are compositions of these.                  *)
(* The last part proves the refinement of ListSeq.  Reads(mem, S, ls) ties *)
(* rings S to lists ls: next spells each list from its head and back to it.*)
(* Again one lemma per pointer operation says which lists it leaves; what  *)
(* ListSeq says of the same call, with no pointers, is compared with that. *)
EXTENDS ListHead, ListWalk, Induction, SequenceTheorems

(* What next and prev may be.                                              *)
Maps == [Objects -> Objects \cup {POISON}]

(* S is a union of rings of mem, and no other object is linked.            *)
Rings(mem, S) ==
  /\ mem \in Memories /\ S \subseteq Objects
  /\ \A o \in S : /\ mem.next[o] \in S /\ mem.prev[o] \in S
                  /\ mem.prev[mem.next[o]] = o /\ mem.next[mem.prev[o]] = o
  /\ \A o \in Objects \ S : ~Linked(mem, o)
  /\ \A o \in Objects : mem.next[o] = POISON <=> mem.prev[o] = POISON

(* The linked objects of mem.                                              *)
InRing(mem) == {o \in Objects : Linked(mem, o)}

(* e may be made a new entry: it is in no ring, or in one of its own.      *)
Free(mem, S, e) == e \notin S \/ (mem.next[e] = e /\ mem.prev[e] = e)

(* Rings are what RingsConsistent asks for, and S is the set of the linked.*)
LEMMA RingsLinked ==
  ASSUME NEW mem, NEW S, Rings(mem, S)
  PROVE  RingsOf(mem) /\ \A o \in Objects : Linked(mem, o) <=> o \in S
<1>1. \A o \in S : o \in Objects /\ o # POISON
  BY ObjectsAssumption DEF Rings, Objects
<1>2. \A o \in S : Linked(mem, o)
  BY <1>1 DEF Rings, Linked
<1>3. DOMAIN mem.next = Objects
  BY DEF Rings, Memories
<1> QED
  BY <1>1, <1>2, <1>3 DEF Rings, RingsOf

(* Conversely, in a consistent memory the linked objects form rings.       *)
LEMMA LinkedRings == ASSUME TypeOK, RingsConsistent PROVE Rings(m, InRing(m))
<1>1. DOMAIN m.next = Objects
  BY DEF TypeOK, Memories
<1>2. \A o \in InRing(m) : m.next[o] \in Objects /\ m.prev[o] \in Objects
  BY DEF TypeOK, InRing, Linked, Memories
<1>3. \A o \in InRing(m) : m.next[o] \in InRing(m) /\ m.prev[o] \in InRing(m)
  BY <1>1, <1>2 DEF InRing, RingsConsistent, RingsOf
<1> QED
  BY <1>3 DEF TypeOK, InRing, Rings, Linked

(* What remains of a step from the rings S of mem to the rings T of r when *)
(* the pointers of each object in T are known.                             *)
LEMMA RingStep ==
  ASSUME NEW mem, NEW S, Rings(mem, S), NEW r \in Memories, NEW T \in SUBSET Objects,
         \A o \in T : /\ r.next[o] \in T /\ r.prev[o] \in T
                      /\ r.prev[r.next[o]] = o /\ r.next[r.prev[o]] = o,
         \A o \in Objects \ T :
           \/ o \notin S /\ r.next[o] = mem.next[o] /\ r.prev[o] = mem.prev[o]
           \/ o \in S /\ {r.next[o], r.prev[o]} \subseteq S \cup T /\ r.prev[r.next[o]] # o
           \/ r.next[o] = POISON /\ r.prev[o] = POISON,
         \A o \in Objects : /\ r.next[o] \in T \cup {POISON, mem.next[o]}
                            /\ r.prev[o] \in T \cup {POISON, mem.prev[o]}
  PROVE  Rings(r, T)
<1>1. \A o \in S \cup T : o \in Objects /\ o # POISON
  BY ObjectsAssumption DEF Rings, Objects
<1>2. \A o \in Objects : r.next[o] = POISON <=> r.prev[o] = POISON
  BY <1>1 DEF Rings
<1>3. ASSUME NEW o \in Objects \ T, Linked(r, o)
      PROVE  FALSE
  <2>1. r.next[o] # POISON /\ r.prev[r.next[o]] = o /\ r.next[r.prev[o]] = o
    BY <1>3 DEF Linked
  <2>2. o \notin S /\ r.next[o] = mem.next[o] /\ r.prev[o] = mem.prev[o] /\ ~Linked(mem, o)
    BY <1>1, <2>1 DEF Rings
  <2>3. r.next[o] \in Objects /\ r.prev[o] \in Objects
    BY <1>3 DEF Memories, Linked
  <2>4. mem.prev[mem.next[o]] = o /\ mem.next[mem.prev[o]] = o
    BY <2>1, <2>2, <2>3, ObjectsAssumption DEF Objects
  <2> QED BY <1>3, <2>2, <2>4 DEF Linked
<1> QED BY <1>2, <1>3 DEF Rings

(* INIT_LIST_HEAD makes an object a ring of its own.                       *)
LEMMA InitRings ==
  ASSUME NEW mem, NEW S, Rings(mem, S), NEW e \in Objects, Free(mem, S, e)
  PROVE  Rings(INIT_LIST_HEAD(mem, e), S \cup {e})
<1> DEFINE r == INIT_LIST_HEAD(mem, e)
           N == mem.next
           P == mem.prev
           T == S \cup {e}
<1>1. /\ N \in Maps /\ P \in Maps /\ S \subseteq Objects
      /\ \A o \in S : N[o] \in S /\ P[o] \in S /\ P[N[o]] = o /\ N[P[o]] = o
  BY DEF Rings, Memories, Maps
<1>2. e \in Objects /\ (e \notin S \/ (N[e] = e /\ P[e] = e))
  BY <1>1 DEF Free
<1>3. r \in Memories
  BY <1>1, <1>2 DEF Rings, Memories, Maps, INIT_LIST_HEAD
<1>4. \A o \in Objects :
        /\ r.next[o] = IF o = e THEN e ELSE N[o]
        /\ r.prev[o] = IF o = e THEN e ELSE P[o]
  BY <1>1, <1>2 DEF Rings, Memories, Maps, INIT_LIST_HEAD
<1> HIDE DEF r
<1>5. ASSUME NEW o \in T
      PROVE  /\ r.next[o] \in T /\ r.prev[o] \in T
             /\ r.prev[r.next[o]] = o /\ r.next[r.prev[o]] = o
  <2>1. CASE o = e
    BY <1>1, <1>2, <1>4, <2>1
  <2>2. CASE o \notin {e}
    BY <1>1, <1>2, <1>4, <2>2
  <2> QED BY <2>1, <2>2
<1>6. T \in SUBSET Objects
  BY <1>1, <1>2
<1>7. \A o \in Objects \ T :
        \/ o \notin S /\ r.next[o] = N[o] /\ r.prev[o] = P[o]
        \/ o \in S /\ {r.next[o], r.prev[o]} \subseteq S \cup T /\ r.prev[r.next[o]] # o
        \/ r.next[o] = POISON /\ r.prev[o] = POISON
  BY <1>1, <1>2, <1>4
<1>8. \A o \in Objects : /\ r.next[o] \in T \cup {POISON, N[o]}
                         /\ r.prev[o] \in T \cup {POISON, P[o]}
  BY <1>1, <1>2, <1>4
<1>9. Rings(r, T)
  BY <1>3, <1>5, <1>6, <1>7, <1>8, RingStep
<1> QED BY <1>9 DEF r

(* __list_add puts an entry between prev and what followed it.             *)
LEMMA AddRings ==
  ASSUME NEW mem, NEW S, Rings(mem, S), NEW e \in Objects, NEW prev \in S, e # prev, Free(mem, S, e)
  PROVE  Rings(__list_add(mem, e, prev, mem.next[prev]), S \cup {e})
<1> DEFINE r == __list_add(mem, e, prev, mem.next[prev])
           N == mem.next
           P == mem.prev
           T == S \cup {e}
           next == N[prev]
<1>1. /\ N \in Maps /\ P \in Maps /\ S \subseteq Objects
      /\ \A o \in S : N[o] \in S /\ P[o] \in S /\ P[N[o]] = o /\ N[P[o]] = o
  BY DEF Rings, Memories, Maps
<1>2. /\ e \in Objects /\ prev \in S /\ e # prev /\ (e \notin S \/ (N[e] = e /\ P[e] = e))
      /\ next \in S /\ e # next /\ next = N[prev]
  BY <1>1 DEF Free
<1>3. r \in Memories
  BY <1>1, <1>2 DEF Rings, Memories, Maps, __list_add
<1>4. \A o \in Objects :
        /\ r.next[o] = IF o = prev THEN e ELSE IF o = e THEN next ELSE N[o]
        /\ r.prev[o] = IF o = e THEN prev ELSE IF o = next THEN e ELSE P[o]
  BY <1>1, <1>2 DEF Rings, Memories, Maps, __list_add
<1> HIDE DEF r
<1>5. ASSUME NEW o \in T
      PROVE  /\ r.next[o] \in T /\ r.prev[o] \in T
             /\ r.prev[r.next[o]] = o /\ r.next[r.prev[o]] = o
  <2>1. CASE o = e
    BY <1>1, <1>2, <1>4, <2>1
  <2>2. CASE o = prev
    BY <1>1, <1>2, <1>4, <2>2
  <2>3. CASE o = next
    BY <1>1, <1>2, <1>4, <2>3
  <2>4. CASE o \notin {e, prev, next}
    BY <1>1, <1>2, <1>4, <2>4
  <2> QED BY <2>1, <2>2, <2>3, <2>4
<1>6. T \in SUBSET Objects
  BY <1>1, <1>2
<1>7. \A o \in Objects \ T :
        \/ o \notin S /\ r.next[o] = N[o] /\ r.prev[o] = P[o]
        \/ o \in S /\ {r.next[o], r.prev[o]} \subseteq S \cup T /\ r.prev[r.next[o]] # o
        \/ r.next[o] = POISON /\ r.prev[o] = POISON
  BY <1>1, <1>2, <1>4
<1>8. \A o \in Objects : /\ r.next[o] \in T \cup {POISON, N[o]}
                         /\ r.prev[o] \in T \cup {POISON, P[o]}
  BY <1>1, <1>2, <1>4
<1>9. Rings(r, T)
  BY <1>3, <1>5, <1>6, <1>7, <1>8, RingStep
<1> QED BY <1>9 DEF r

(* __list_del closes the ring over an entry, which keeps its pointers.     *)
LEMMA DelRings ==
  ASSUME NEW mem, NEW S, Rings(mem, S), NEW e \in S, mem.next[e] # e
  PROVE  Rings(__list_del_entry(mem, e), S \ {e})
<1> DEFINE r == __list_del_entry(mem, e)
           N == mem.next
           P == mem.prev
           T == S \ {e}
           a == mem.next[e]
           b == mem.prev[e]
<1>1. /\ N \in Maps /\ P \in Maps /\ S \subseteq Objects
      /\ \A o \in S : N[o] \in S /\ P[o] \in S /\ P[N[o]] = o /\ N[P[o]] = o
  BY DEF Rings, Memories, Maps
<1>2. /\ a \in S /\ b \in S /\ a # e /\ b # e /\ a = N[e] /\ b = P[e] /\ N[b] = e /\ P[a] = e
  BY <1>1
<1>3. r \in Memories
  BY <1>1, <1>2 DEF Rings, Memories, Maps, __list_del_entry, __list_del
<1>4. \A o \in Objects :
        /\ r.next[o] = IF o = b THEN a ELSE N[o]
        /\ r.prev[o] = IF o = a THEN b ELSE P[o]
  BY <1>1, <1>2 DEF Rings, Memories, Maps, __list_del_entry, __list_del
<1> HIDE DEF r
<1>5. ASSUME NEW o \in T
      PROVE  /\ r.next[o] \in T /\ r.prev[o] \in T
             /\ r.prev[r.next[o]] = o /\ r.next[r.prev[o]] = o
  <2>1. CASE o = a
    BY <1>1, <1>2, <1>4, <2>1
  <2>2. CASE o = b
    BY <1>1, <1>2, <1>4, <2>2
  <2>3. CASE o \notin {a, b}
    BY <1>1, <1>2, <1>4, <2>3
  <2> QED BY <2>1, <2>2, <2>3
<1>6. T \in SUBSET Objects
  BY <1>1, <1>2
<1>7. \A o \in Objects \ T :
        \/ o \notin S /\ r.next[o] = N[o] /\ r.prev[o] = P[o]
        \/ o \in S /\ {r.next[o], r.prev[o]} \subseteq S \cup T /\ r.prev[r.next[o]] # o
        \/ r.next[o] = POISON /\ r.prev[o] = POISON
  BY <1>1, <1>2, <1>4
<1>8. \A o \in Objects : /\ r.next[o] \in T \cup {POISON, N[o]}
                         /\ r.prev[o] \in T \cup {POISON, P[o]}
  BY <1>1, <1>2, <1>4
<1>9. Rings(r, T)
  BY <1>3, <1>5, <1>6, <1>7, <1>8, RingStep
<1> QED BY <1>9 DEF r

(* The poison of list_del unlinks an object that had a ring of its own.    *)
LEMMA PoisonRings ==
  ASSUME NEW mem, NEW S, Rings(mem, S), NEW e \in Objects, Free(mem, S, e)
  PROVE  Rings([mem EXCEPT !.next[e] = POISON, !.prev[e] = POISON], S \ {e})
<1> DEFINE r == [mem EXCEPT !.next[e] = POISON, !.prev[e] = POISON]
           N == mem.next
           P == mem.prev
           T == S \ {e}
<1>1. /\ N \in Maps /\ P \in Maps /\ S \subseteq Objects
      /\ \A o \in S : N[o] \in S /\ P[o] \in S /\ P[N[o]] = o /\ N[P[o]] = o
  BY DEF Rings, Memories, Maps
<1>2. e \in Objects /\ (e \notin S \/ (N[e] = e /\ P[e] = e))
  BY <1>1 DEF Free
<1>3. r \in Memories
  BY <1>1, <1>2 DEF Rings, Memories, Maps, Free
<1>4. \A o \in Objects :
        /\ r.next[o] = IF o = e THEN POISON ELSE N[o]
        /\ r.prev[o] = IF o = e THEN POISON ELSE P[o]
  BY <1>1, <1>2 DEF Rings, Memories, Maps, Free
<1> HIDE DEF r
<1>5. ASSUME NEW o \in T
      PROVE  /\ r.next[o] \in T /\ r.prev[o] \in T
             /\ r.prev[r.next[o]] = o /\ r.next[r.prev[o]] = o
  BY <1>1, <1>2, <1>4, <1>5
<1>6. T \in SUBSET Objects
  BY <1>1, <1>2
<1>7. \A o \in Objects \ T :
        \/ o \notin S /\ r.next[o] = N[o] /\ r.prev[o] = P[o]
        \/ o \in S /\ {r.next[o], r.prev[o]} \subseteq S \cup T /\ r.prev[r.next[o]] # o
        \/ r.next[o] = POISON /\ r.prev[o] = POISON
  BY <1>1, <1>2, <1>4
<1>8. \A o \in Objects : /\ r.next[o] \in T \cup {POISON, N[o]}
                         /\ r.prev[o] \in T \cup {POISON, P[o]}
  BY <1>1, <1>2, <1>4
<1>9. Rings(r, T)
  BY <1>3, <1>5, <1>6, <1>7, <1>8, RingStep
<1> QED BY <1>9 DEF r

(* list_replace: y takes the place of x, also when x is alone in its ring. *)
LEMMA ReplaceRings ==
  ASSUME NEW mem, NEW S, Rings(mem, S), NEW x \in S, NEW y \in Objects, x # y, Free(mem, S, y)
  PROVE  Rings(list_replace(mem, x, y), (S \ {x}) \cup {y})
<1> DEFINE r == list_replace(mem, x, y)
           N == mem.next
           P == mem.prev
           T == (S \ {x}) \cup {y}
           a == mem.next[x]
           b == IF mem.next[x] = x THEN y ELSE mem.prev[x]
<1>1. /\ N \in Maps /\ P \in Maps /\ S \subseteq Objects
      /\ \A o \in S : N[o] \in S /\ P[o] \in S /\ P[N[o]] = o /\ N[P[o]] = o
  BY DEF Rings, Memories, Maps
<1>2. /\ x \in S /\ y \in Objects /\ x # y /\ (y \notin S \/ (N[y] = y /\ P[y] = y))
      /\ a = N[x] /\ a \in S /\ a # y
      /\ \/ a = x /\ b = y /\ P[x] = x
         \/ a # x /\ b = P[x] /\ b \in S /\ b # x /\ b # y
  BY <1>1 DEF Free
<1>3. r \in Memories
  BY <1>1, <1>2, ZenonT(30) DEF Rings, Memories, Maps, list_replace
<1>4. \A o \in Objects :
        /\ r.next[o] = IF o = b THEN y ELSE IF o = y THEN a ELSE N[o]
        /\ r.prev[o] = IF o = y THEN b ELSE IF o = a THEN y ELSE P[o]
  BY <1>1, <1>2 DEF Rings, Memories, Maps, list_replace
<1> HIDE DEF r
<1>5. ASSUME NEW o \in T
      PROVE  /\ r.next[o] \in T /\ r.prev[o] \in T
             /\ r.prev[r.next[o]] = o /\ r.next[r.prev[o]] = o
  <2>1. CASE o = y
    BY <1>1, <1>2, <1>4, <2>1
  <2>2. CASE o = a
    BY <1>1, <1>2, <1>4, <2>2
  <2>3. CASE o = b
    BY <1>1, <1>2, <1>4, <2>3
  <2>4. CASE o \notin {y, a, b}
    BY <1>1, <1>2, <1>4, <2>4
  <2> QED BY <2>1, <2>2, <2>3, <2>4
<1>6. T \in SUBSET Objects
  BY <1>1, <1>2
<1>7. \A o \in Objects \ T :
        \/ o \notin S /\ r.next[o] = N[o] /\ r.prev[o] = P[o]
        \/ o \in S /\ {r.next[o], r.prev[o]} \subseteq S \cup T /\ r.prev[r.next[o]] # o
        \/ r.next[o] = POISON /\ r.prev[o] = POISON
  BY <1>1, <1>2, <1>4
<1>8. \A o \in Objects : /\ r.next[o] \in T \cup {POISON, N[o]}
                         /\ r.prev[o] \in T \cup {POISON, P[o]}
  BY <1>1, <1>2, <1>4
<1>9. Rings(r, T)
  BY <1>3, <1>5, <1>6, <1>7, <1>8, RingStep
<1> QED BY <1>9 DEF r

(* __list_cut_position splits a ring after x and gives the first part to l.*)
LEMMA CutRings ==
  ASSUME NEW mem, NEW S, Rings(mem, S), NEW h \in S, NEW x \in S, NEW l \in Objects,
         l # h, l # x, x # h, Free(mem, S, l)
  PROVE  Rings(__list_cut_position(mem, l, h, x), S \cup {l})
<1> DEFINE r == __list_cut_position(mem, l, h, x)
           N == mem.next
           P == mem.prev
           T == S \cup {l}
           f == mem.next[h]
           g == mem.next[x]
<1>1. /\ N \in Maps /\ P \in Maps /\ S \subseteq Objects
      /\ \A o \in S : N[o] \in S /\ P[o] \in S /\ P[N[o]] = o /\ N[P[o]] = o
  BY DEF Rings, Memories, Maps
<1>2. /\ h \in S /\ x \in S /\ l \in Objects /\ l # h /\ l # x /\ x # h
      /\ (l \notin S \/ (N[l] = l /\ P[l] = l))
      /\ f = N[h] /\ g = N[x] /\ f \in S /\ g \in S /\ f # l /\ g # l /\ f # g
  BY <1>1 DEF Free
<1>3. r \in Memories
  BY <1>1, <1>2 DEF Rings, Memories, Maps, __list_cut_position
<1>4. \A o \in Objects :
        /\ r.next[o] = IF o = l THEN f ELSE IF o = x THEN l ELSE IF o = h THEN g ELSE N[o]
        /\ r.prev[o] = IF o = f THEN l ELSE IF o = l THEN x ELSE IF o = g THEN h ELSE P[o]
  BY <1>1, <1>2 DEF Rings, Memories, Maps, __list_cut_position
<1> HIDE DEF r
<1>5. ASSUME NEW o \in T
      PROVE  /\ r.next[o] \in T /\ r.prev[o] \in T
             /\ r.prev[r.next[o]] = o /\ r.next[r.prev[o]] = o
  <2>1. CASE o = l
    BY <1>1, <1>2, <1>4, <2>1
  <2>2. CASE o = x
    BY <1>1, <1>2, <1>4, <2>2
  <2>3. CASE o = h
    BY <1>1, <1>2, <1>4, <2>3
  <2>4. CASE o = f
    BY <1>1, <1>2, <1>4, <2>4
  <2>5. CASE o = g
    BY <1>1, <1>2, <1>4, <2>5
  <2>6. CASE o \notin {l, x, h, f, g}
    BY <1>1, <1>2, <1>4, <2>6
  <2> QED BY <2>1, <2>2, <2>3, <2>4, <2>5, <2>6
<1>6. T \in SUBSET Objects
  BY <1>1, <1>2
<1>7. \A o \in Objects \ T :
        \/ o \notin S /\ r.next[o] = N[o] /\ r.prev[o] = P[o]
        \/ o \in S /\ {r.next[o], r.prev[o]} \subseteq S \cup T /\ r.prev[r.next[o]] # o
        \/ r.next[o] = POISON /\ r.prev[o] = POISON
  BY <1>1, <1>2, <1>4
<1>8. \A o \in Objects : /\ r.next[o] \in T \cup {POISON, N[o]}
                         /\ r.prev[o] \in T \cup {POISON, P[o]}
  BY <1>1, <1>2, <1>4
<1>9. Rings(r, T)
  BY <1>3, <1>5, <1>6, <1>7, <1>8, RingStep
<1> QED BY <1>9 DEF r

(* __list_splice joins the ring of l to another, without l.                *)
LEMMA SpliceRings ==
  ASSUME NEW mem, NEW S, Rings(mem, S), NEW l \in S, NEW p \in S,
         mem.next[l] # l, p # l, mem.next[p] # l
  PROVE  Rings(__list_splice(mem, l, p, mem.next[p]), S \ {l})
<1> DEFINE r == __list_splice(mem, l, p, mem.next[p])
           N == mem.next
           P == mem.prev
           T == S \ {l}
           q == mem.next[p]
           f == mem.next[l]
           z == mem.prev[l]
<1>1. /\ N \in Maps /\ P \in Maps /\ S \subseteq Objects
      /\ \A o \in S : N[o] \in S /\ P[o] \in S /\ P[N[o]] = o /\ N[P[o]] = o
  BY DEF Rings, Memories, Maps
<1>2. /\ l \in S /\ p \in S /\ p # l /\ q = N[p] /\ q \in S /\ q # l
      /\ f = N[l] /\ z = P[l] /\ f \in S /\ z \in S /\ f # l /\ z # l /\ f # q /\ z # p
  BY <1>1
<1>3. r \in Memories
  BY <1>1, <1>2 DEF Rings, Memories, Maps, __list_splice
<1>4. \A o \in Objects :
        /\ r.next[o] = IF o = p THEN f ELSE IF o = z THEN q ELSE N[o]
        /\ r.prev[o] = IF o = f THEN p ELSE IF o = q THEN z ELSE P[o]
  BY <1>1, <1>2 DEF Rings, Memories, Maps, __list_splice
<1> HIDE DEF r
<1>5. ASSUME NEW o \in T
      PROVE  /\ r.next[o] \in T /\ r.prev[o] \in T
             /\ r.prev[r.next[o]] = o /\ r.next[r.prev[o]] = o
  <2>1. CASE o = p
    BY <1>1, <1>2, <1>4, <2>1
  <2>2. CASE o = q
    BY <1>1, <1>2, <1>4, <2>2
  <2>3. CASE o = f
    BY <1>1, <1>2, <1>4, <2>3
  <2>4. CASE o = z
    BY <1>1, <1>2, <1>4, <2>4
  <2>5. CASE o \notin {p, q, f, z}
    BY <1>1, <1>2, <1>4, <2>5
  <2> QED BY <2>1, <2>2, <2>3, <2>4, <2>5
<1>6. T \in SUBSET Objects
  BY <1>1, <1>2
<1>7. \A o \in Objects \ T :
        \/ o \notin S /\ r.next[o] = N[o] /\ r.prev[o] = P[o]
        \/ o \in S /\ {r.next[o], r.prev[o]} \subseteq S \cup T /\ r.prev[r.next[o]] # o
        \/ r.next[o] = POISON /\ r.prev[o] = POISON
  BY <1>1, <1>2, <1>4
<1>8. \A o \in Objects : /\ r.next[o] \in T \cup {POISON, N[o]}
                         /\ r.prev[o] \in T \cup {POISON, P[o]}
  BY <1>1, <1>2, <1>4
<1>9. Rings(r, T)
  BY <1>3, <1>5, <1>6, <1>7, <1>8, RingStep
<1> QED BY <1>9 DEF r

-----------------------------------------------------------------------------
(* The functions of list.h, from mem with the rings S.                     *)

(* An object in no ring is free.                                           *)
LEMMA FreeOutside == \A mem, S, e : e \notin S => Free(mem, S, e)
BY DEF Free

(* An entry that is taken out is in no ring but possibly one of its own.   *)
LEMMA DelFree ==
  ASSUME NEW mem, NEW S, Rings(mem, S), NEW e \in S
  PROVE  \E T \in SUBSET S : /\ S \ {e} \subseteq T
                             /\ Rings(__list_del_entry(mem, e), T)
                             /\ Free(__list_del_entry(mem, e), T, e)
<1>1. CASE mem.next[e] # e
  <2>1. Rings(__list_del_entry(mem, e), S \ {e})
    BY <1>1, DelRings
  <2>2. Free(__list_del_entry(mem, e), S \ {e}, e)
    BY FreeOutside
  <2> QED BY <2>1, <2>2
<1>2. CASE mem.next[e] = e
  <2>1. mem.prev[e] = e /\ e \in Objects /\ mem \in Memories
    BY <1>2 DEF Rings
  <2>2. __list_del_entry(mem, e) = INIT_LIST_HEAD(mem, e)
    BY <1>2, <2>1 DEF __list_del_entry, __list_del, INIT_LIST_HEAD, Memories
  <2>3. Rings(INIT_LIST_HEAD(mem, e), S \cup {e})
    BY <1>2, <2>1, InitRings DEF Free
  <2>4. S \cup {e} = S
    OBVIOUS
  <2>5. Free(INIT_LIST_HEAD(mem, e), S, e)
    BY <2>1 DEF Free, INIT_LIST_HEAD, Memories
  <2> QED BY <2>2, <2>3, <2>4, <2>5
<1> QED BY <1>1, <1>2

(* list_add and list_add_tail insert after and before x.                   *)
LEMMA AddBoth ==
  ASSUME NEW mem, NEW S, Rings(mem, S), NEW x \in S, NEW e \in Objects, e # x,
         Free(mem, S, e)
  PROVE  /\ Rings(list_add(mem, e, x), S \cup {e})
         /\ Rings(list_add_tail(mem, e, x), S \cup {e})
<1>1. mem.prev[x] \in S /\ mem.next[mem.prev[x]] = x /\ mem.prev[x] # e
  BY DEF Rings, Free
<1>2. Rings(__list_add(mem, e, mem.prev[x], mem.next[mem.prev[x]]), S \cup {e})
  BY <1>1, AddRings
<1> QED BY <1>1, <1>2, AddRings DEF list_add, list_add_tail

(* list_move and list_move_tail delete and add.                            *)
LEMMA MoveBoth ==
  ASSUME NEW mem, NEW S, Rings(mem, S), NEW e \in S, NEW x \in S, e # x
  PROVE  /\ \E T : Rings(list_move(mem, e, x), T)
         /\ \E T : Rings(list_move_tail(mem, e, x), T)
<1>1. PICK T \in SUBSET S : /\ S \ {e} \subseteq T
                            /\ Rings(__list_del_entry(mem, e), T)
                            /\ Free(__list_del_entry(mem, e), T, e)
  BY DelFree
<1>2. x \in T /\ e \in Objects
  BY <1>1 DEF Rings
<1> QED BY <1>1, <1>2, AddBoth DEF list_move, list_move_tail

-----------------------------------------------------------------------------
(* The actions, from the memory m.                                         *)

(* What the preconditions of the calls mean for the rings.                 *)
LEMMA Places ==
  ASSUME TypeOK, RingsConsistent
  PROVE  /\ Rings(m, InRing(m))
         /\ \A x \in Objects : On(x) <=> x \in InRing(m)
         /\ \A x \in Objects : Alone(x) => Free(m, InRing(m), x)
         /\ \A x \in Objects : Placed(x) => x \in InRing(m)
         /\ \A e \in Entries, x \in Objects : Alone(e) /\ Placed(x) => e # x
<1>1. Rings(m, InRing(m)) /\ \A x \in Objects : On(x) <=> x \in InRing(m)
  BY LinkedRings DEF On, InRing
<1>2. ASSUME NEW x \in Objects, Alone(x), x \in InRing(m)
      PROVE  m.next[x] = x /\ m.prev[x] = x
  <2>1. m.next[x] = x
    BY <1>2 DEF Alone, InRing
  <2> QED BY <1>1, <1>2, <2>1 DEF Rings
<1>3. \A x \in Objects : Placed(x) => x \in InRing(m)
  BY <1>1 DEF Placed
<1>4. \A e \in Entries, x \in Objects : Alone(e) /\ Placed(x) => e # x
  BY ObjectsAssumption DEF Alone, Placed, On
<1>5. \A x \in Objects : Alone(x) => Free(m, InRing(m), x)
  BY <1>2 DEF Free
<1> QED BY <1>1, <1>3, <1>4, <1>5

(* The entry up to which a list is cut is not the head of the new list.    *)
LEMMA CutPlace ==
  ASSUME NEW S, Rings(m, S), NEW h \in S, NEW l \in Objects, NEW x \in Objects, l # h,
         Free(m, S, l), SameRing(h, x) \/ x = m.next[h]
  PROVE  x \in S \ {l}
<1>1. S \ {l} \in SUBSET Objects
  BY DEF Rings
<1>2. \A o \in S \ {l} : m.next[o] \in S \ {l} /\ m.prev[o] \in S \ {l}
  BY DEF Rings, Free
<1>3. h \in S \ {l}
  OBVIOUS
<1>4. CASE SameRing(h, x)
  BY <1>1, <1>2, <1>3, <1>4 DEF SameRing
<1> QED BY <1>2, <1>3, <1>4

(* The place of a splice is not next to the head that is emptied.          *)
LEMMA SplicePlace ==
  ASSUME NEW S, Rings(m, S), NEW l \in S, NEW x \in S, ~SameRing(l, x)
  PROVE  x # l /\ m.next[x] # l /\ m.prev[x] # l
<1>1. PICK A \in SUBSET Objects :
        l \in A /\ x \notin A /\ \A o \in A : m.next[o] \in A /\ m.prev[o] \in A
  BY DEF SameRing
<1> QED BY <1>1 DEF Rings

(* list_splice and list_splice_tail splice after and before x.             *)
LEMMA SpliceBoth ==
  ASSUME NEW S, Rings(m, S), NEW l \in S, NEW x \in S, ~SameRing(l, x), ~list_empty(m, l)
  PROVE  /\ Rings(__list_splice(m, l, x, m.next[x]), S \ {l})
         /\ Rings(__list_splice(m, l, m.prev[x], x), S \ {l})
<1>1. x # l /\ m.next[x] # l /\ m.prev[x] # l /\ m.next[l] # l
  BY SplicePlace DEF list_empty
<1>2. m.prev[x] \in S /\ m.next[m.prev[x]] = x
  BY DEF Rings
<1>3. Rings(__list_splice(m, l, m.prev[x], m.next[m.prev[x]]), S \ {l})
  BY <1>1, <1>2, SpliceRings
<1> QED BY <1>1, <1>2, <1>3, SpliceRings

(* Every call leaves rings.                                                *)
LEMMA CallsKeepRings ==
  ASSUME TypeOK, RingsConsistent, Next
  PROVE  \E T : Rings(m', T)
<1> DEFINE S == InRing(m)
<1>1. /\ Rings(m, S)
      /\ \A x \in Objects : On(x) <=> x \in S
      /\ \A x \in Objects : Alone(x) => Free(m, S, x)
      /\ \A x \in Objects : Placed(x) => x \in S
      /\ \A e \in Entries, x \in Objects : Alone(e) /\ Placed(x) => e # x
  BY Places
<1>2. Entries \subseteq Objects /\ Heads \subseteq Objects
  BY DEF Objects
<1> HIDE DEF S
<1>3. CASE Initialise
  <2>1. PICK x \in Objects : Alone(x) /\ m' = INIT_LIST_HEAD(m, x)
    BY <1>3 DEF Initialise, Call
  <2> QED BY <1>1, <2>1, InitRings
<1>4. CASE Add
  <2>1. PICK e \in Entries, x \in Objects :
          Alone(e) /\ Placed(x) /\ m' \in {list_add(m, e, x), list_add_tail(m, e, x)}
    BY <1>4 DEF Add, Call
  <2>2. e # x /\ x \in S /\ e \in Objects /\ Free(m, S, e)
    BY <1>1, <1>2, <2>1
  <2>3. Rings(list_add(m, e, x), S \cup {e}) /\ Rings(list_add_tail(m, e, x), S \cup {e})
    BY <1>1, <2>2, AddBoth
  <2> QED BY <2>1, <2>3
<1>5. CASE Delete
  <2>1. PICK e \in Entries : On(e) /\ m' \in {list_del(m, e), list_del_init(m, e)}
    BY <1>5 DEF Delete, Call
  <2>2. e \in S /\ e \in Objects
    BY <1>1, <1>2, <2>1
  <2>3. PICK T : Rings(__list_del_entry(m, e), T) /\ Free(__list_del_entry(m, e), T, e)
    BY <1>1, <2>2, DelFree
  <2>4. Rings(list_del(m, e), T \ {e})
    BY <2>2, <2>3, PoisonRings DEF list_del
  <2>5. Rings(list_del_init(m, e), T \cup {e})
    BY <2>2, <2>3, InitRings DEF list_del_init
  <2> QED BY <2>1, <2>4, <2>5
<1>6. CASE Move
  <2>1. PICK e \in Entries, x \in Objects :
          e # x /\ On(e) /\ Placed(x) /\ m' \in {list_move(m, e, x), list_move_tail(m, e, x)}
    BY <1>6 DEF Move, Call
  <2>2. e \in S /\ x \in S
    BY <1>1, <1>2, <2>1
  <2> QED BY <1>1, <2>1, <2>2, MoveBoth
<1>7. CASE Replace
  <2>1. PICK x, y \in Objects :
          x # y /\ On(x) /\ Alone(y) /\ m' \in {list_replace(m, x, y), list_replace_init(m, x, y)}
    BY <1>7 DEF Replace, Call
  <2> DEFINE T == (S \ {x}) \cup {y}
  <2>2. Rings(list_replace(m, x, y), T)
    BY <1>1, <2>1, ReplaceRings
  <2>3. Free(list_replace(m, x, y), T, x)
    BY <2>1, FreeOutside
  <2>4. Rings(list_replace_init(m, x, y), T \cup {x})
    BY <2>2, <2>3, InitRings DEF list_replace_init
  <2> QED BY <2>1, <2>2, <2>4
<1>8. CASE RotateLeft
  <2>1. PICK h \in Heads : On(h) /\ m' = list_rotate_left(m, h)
    BY <1>8 DEF RotateLeft, Call
  <2>2. h \in S /\ m.next[h] \in S
    BY <1>1, <1>2, <2>1 DEF Rings
  <2>3. CASE list_empty(m, h)
    BY <1>1, <2>1, <2>3 DEF list_rotate_left
  <2>4. CASE ~list_empty(m, h)
    <3>1. m.next[h] # h /\ m' = list_move_tail(m, m.next[h], h)
      BY <2>1, <2>4 DEF list_rotate_left, list_empty
    <3> QED BY <1>1, <2>2, <3>1, MoveBoth
  <2> QED BY <2>3, <2>4
<1>9. CASE Cut
  <2>1. PICK h \in Heads, l \in Heads, x \in Objects :
          /\ l # h /\ On(h) /\ Alone(l) /\ m' = list_cut_position(m, l, h, x)
          /\ list_empty(m, h) \/ list_is_singular(m, h) \/ SameRing(h, x)
    BY <1>9 DEF Cut, Call
  <2>2. h \in S /\ l \in Objects /\ Free(m, S, l)
    BY <1>1, <1>2, <2>1
  <2>3. CASE m' = m
    BY <1>1, <2>3
  <2>4. CASE m' # m /\ x = h
    <3>1. m' = INIT_LIST_HEAD(m, l)
      BY <2>1, <2>4 DEF list_cut_position
    <3> QED BY <1>1, <2>2, <3>1, InitRings
  <2>5. CASE m' # m /\ x # h
    <3>1. m' = __list_cut_position(m, l, h, x) /\ (SameRing(h, x) \/ x = m.next[h])
      BY <2>1, <2>5 DEF list_cut_position
    <3>2. x \in S /\ x # l
      BY <1>1, <2>1, <2>2, <3>1, CutPlace
    <3>3. Rings(__list_cut_position(m, l, h, x), S \cup {l})
      BY <1>1, <2>1, <2>2, <2>5, <3>2, CutRings
    <3> QED BY <3>1, <3>3
  <2> QED BY <2>3, <2>4, <2>5
<1>10. CASE SpliceAll
  <2>1. PICK l \in Heads, x \in Objects :
          /\ On(l) /\ Placed(x) /\ ~SameRing(l, x)
          /\ m' \in {list_splice(m, l, x), list_splice_tail(m, l, x),
                     list_splice_init(m, l, x), list_splice_tail_init(m, l, x)}
    BY <1>10 DEF SpliceAll, Call
  <2>2. l \in S /\ x \in S /\ l \in Objects
    BY <1>1, <1>2, <2>1
  <2>3. CASE list_empty(m, l)
    <3>1. m' = m
      BY <2>1, <2>3 DEF list_splice, list_splice_tail, list_splice_init, list_splice_tail_init
    <3> QED BY <1>1, <3>1
  <2>4. CASE ~list_empty(m, l)
    <3>1. /\ Rings(__list_splice(m, l, x, m.next[x]), S \ {l})
          /\ Rings(__list_splice(m, l, m.prev[x], x), S \ {l})
      BY <1>1, <2>1, <2>2, <2>4, SpliceBoth
    <3>2. ASSUME NEW r, Rings(r, S \ {l})
          PROVE  Rings(INIT_LIST_HEAD(r, l), (S \ {l}) \cup {l})
      BY <2>2, <3>2, InitRings, FreeOutside
    <3> QED BY <2>1, <2>4, <3>1, <3>2
         DEF list_splice, list_splice_tail, list_splice_init, list_splice_tail_init
  <2> QED BY <2>3, <2>4
<1> QED BY <1>3, <1>4, <1>5, <1>6, <1>7, <1>8, <1>9, <1>10 DEF Next

(* Before the first call nothing is linked.                                *)
LEMMA Initially == Init => TypeOK /\ RingsConsistent
BY DEF Init, TypeOK, RingsConsistent, RingsOf, Linked, Memories

(* A call, or none, keeps the invariant.                                   *)
LEMMA Preserved ==
  ASSUME TypeOK, RingsConsistent, [Next]_vars
  PROVE  TypeOK' /\ RingsConsistent'
<1>1. CASE Next
  <2>1. PICK T : Rings(m', T)
    BY <1>1, CallsKeepRings
  <2>2. RingsOf(m')
    BY <2>1, RingsLinked
  <2>3. TypeOK'
    BY <2>1 DEF Rings, TypeOK
  <2> QED BY <2>2, <2>3 DEF RingsConsistent
<1>2. CASE UNCHANGED vars
  BY <1>2 DEF vars, TypeOK, RingsConsistent
<1> QED BY <1>1, <1>2

(* In every program that keeps to the comments of list.h, with any number  *)
(* of heads and entries, pointers lead to objects or are poisoned, and the *)
(* neighbours of a linked object are linked to it and to others in turn.   *)
THEOREM InvariantHolds == Spec => [](TypeOK /\ RingsConsistent)
<1>1. TypeOK /\ RingsConsistent /\ [Next]_vars => (TypeOK /\ RingsConsistent)'
  BY Preserved
<1> QED BY Initially, <1>1, PTL DEF Spec

(* After any sequence of legal calls of list.h every pointer leads to an   *)
(* object or is poison, and both pointers of an object are poisoned or none.*)
THEOREM TypeCorrect == Spec => []TypeOK
BY InvariantHolds, PTL

(* After any sequence of legal calls of list.h, stale pointers or not, what*)
(* is linked has linked neighbours, each of which points back to it.       *)
THEOREM RingsStayConsistent == Spec => []RingsConsistent
BY InvariantHolds, PTL

-----------------------------------------------------------------------------
(***************************************************************************)
(* The loops over a list of ListWalk.  The ring of head is a function c    *)
(* with c[0] = head, and p is the place of the cursor in it.  Every call   *)
(* the body makes takes one entry out of the ring, puts one in, or leaves  *)
(* it alone (Shorter, Longer); what was seen and what lies ahead stay in   *)
(* the order the list had at first (Visits).  A loop in the direction of   *)
(* prev is one in the direction of next with the two maps exchanged, so    *)
(* each call is looked at once, for maps F and G.                          *)
(***************************************************************************)
(* F and G are next and prev, or prev and next: what holds in one          *)
(* direction of a loop holds in the other.                                 *)
WalkMaps == [WalkObjects -> WalkObjects \cup {POISON}]

(* The objects L are in rings, e may have any pointers, and all others are *)
(* poisoned.                                                               *)
Around(F, G, L, e) ==
  /\ F \in WalkMaps /\ G \in WalkMaps /\ L \subseteq WalkObjects
  /\ \A x \in L : F[x] \in L /\ G[x] \in L /\ F[G[x]] = x /\ G[F[x]] = x
  /\ \A x \in WalkObjects \ L : x # e => F[x] = POISON /\ G[x] = POISON

(* c[0], ..., c[k] is the ring of head.                                    *)
Following(k, i) == IF i = k THEN 0 ELSE i + 1

Circle(F, L, c, k) ==
  /\ k \in Nat /\ c \in [0 .. k -> L] /\ c[0] = head
  /\ \A i, j \in 0 .. k : c[i] = c[j] => i = j
  /\ \A i \in 0 .. k : F[c[i]] = c[Following(k, i)]
  /\ other \in L /\ \A i \in 0 .. k : c[i] # other

Hub(F, G, L, c, k) == Around(F, G, L, head) /\ Circle(F, L, c, k)

(* The ring without its i-th entry, and with e after the i-th.             *)
Shorter(c, k, i)    == [j \in 0 .. k - 1 |-> IF j < i THEN c[j] ELSE c[j + 1]]
Longer(c, k, i, e) ==
  [j \in 0 .. k + 1 |-> IF j <= i THEN c[j] ELSE IF j = i + 1 THEN e ELSE c[j - 1]]

(* __list_del and __list_add.                                              *)
Unlink(F, G, e)    == [F EXCEPT ![G[e]] = F[e]]
Between(F, a, e, b) == [F EXCEPT ![e] = b, ![a] = e]

(* The objects of a loop are told apart.                                   *)
LEMMA WalkObjectsDistinct ==
  /\ head # other /\ head \in WalkObjects /\ other \in WalkObjects
  /\ \A x \in WalkObjects : x # POISON /\ (x \in Items <=> x # head /\ x # other)
BY WalkAssumption DEF WalkObjects

(* The pointers backwards.                                                 *)
LEMMA Backwards ==
  ASSUME NEW F, NEW G, NEW L, NEW c, NEW k, NEW e, Around(F, G, L, e), Circle(F, L, c, k)
  PROVE  /\ \A i \in 0 .. k : Following(k, i) \in 0 .. k /\ G[c[Following(k, i)]] = c[i]
         /\ \A i \in 0 .. k : \E j \in 0 .. k : Following(k, j) = i
         /\ \A x \in L, i \in 0 .. k : F[x] = c[i] => \E j \in 0 .. k : x = c[j]
<1>1. \A i \in 0 .. k : Following(k, i) \in 0 .. k
  BY DEF Circle, Following
<1>2. \A i \in 0 .. k : G[c[Following(k, i)]] = c[i]
  BY <1>1 DEF Circle, Around
<1>3. ASSUME NEW i \in 0 .. k PROVE \E j \in 0 .. k : Following(k, j) = i
  <2>1. k \in Nat
    BY DEF Circle
  <2>2. CASE i = 0
    <3>1. k \in 0 .. k /\ Following(k, k) = 0
      BY <2>1 DEF Following
    <3> QED
      BY <2>2, <3>1
  <2>3. CASE i # 0
    <3>1. i - 1 \in 0 .. k /\ i - 1 # k /\ i - 1 + 1 = i
      BY <2>1, <2>3
    <3>2. Following(k, i - 1) = i
      BY <3>1 DEF Following
    <3> QED
      BY <3>1, <3>2
  <2> QED
    BY <2>2, <2>3
<1>4. ASSUME NEW x \in L, NEW i \in 0 .. k, F[x] = c[i]
      PROVE  \E j \in 0 .. k : x = c[j]
  <2>1. PICK j \in 0 .. k : Following(k, j) = i
    BY <1>3
  <2>2. G[F[x]] = x
    BY DEF Around
  <2> QED
    BY <1>2, <1>4, <2>1, <2>2
<1> QED
  BY <1>1, <1>2, <1>3, <1>4

(* An object is taken out of its ring.                                     *)
LEMMA Unlinked ==
  ASSUME NEW F, NEW G, NEW L, NEW h, Around(F, G, L, h), h \in L, NEW e \in L, F[e] # e
  PROVE  Around(Unlink(F, G, e), Unlink(G, F, e), L \ {e}, e)
<1> DEFINE N == Unlink(F, G, e)
           P == Unlink(G, F, e)
           a == F[e]
           b == G[e]
<1>1. /\ F \in WalkMaps /\ G \in WalkMaps /\ L \subseteq WalkObjects
      /\ \A x \in L : F[x] \in L /\ G[x] \in L /\ F[G[x]] = x /\ G[F[x]] = x
      /\ \A x \in WalkObjects \ L : F[x] = POISON /\ G[x] = POISON
  BY DEF Around
<1>2. a \in L /\ b \in L /\ a # e /\ b # e /\ F[b] = e /\ G[a] = e
  BY <1>1
<1>3. /\ N \in WalkMaps /\ P \in WalkMaps
      /\ N[b] = a /\ \A x \in WalkObjects : x # b => N[x] = F[x]
      /\ P[a] = b /\ \A x \in WalkObjects : x # a => P[x] = G[x]
  BY <1>1, <1>2 DEF Unlink, WalkMaps
<1> HIDE DEF N, P, a, b
<1>4. ASSUME NEW x \in L \ {e}
      PROVE  N[x] \in L \ {e} /\ P[x] \in L \ {e} /\ N[P[x]] = x /\ P[N[x]] = x
  <2>1. x \in WalkObjects /\ F[x] \in L /\ G[x] \in L /\ F[G[x]] = x /\ G[F[x]] = x
    BY <1>1
  <2>2. (F[x] = e => x = b) /\ (G[x] = e => x = a) /\ (F[x] = a => x = e) /\ (G[x] = b => x = e)
    BY <1>1, <2>1 DEF a, b
  <2>3. N[x] \in L \ {e} /\ P[N[x]] = x
    <3>1. CASE x = b
      BY <1>2, <1>3, <3>1
    <3>2. CASE x # b
      BY <1>1, <1>2, <1>3, <2>1, <2>2, <3>2
    <3> QED
      BY <3>1, <3>2
  <2>4. P[x] \in L \ {e} /\ N[P[x]] = x
    <3>1. CASE x = a
      BY <1>2, <1>3, <3>1
    <3>2. CASE x # a
      BY <1>1, <1>2, <1>3, <2>1, <2>2, <3>2
    <3> QED
      BY <3>1, <3>2
  <2> QED
    BY <2>3, <2>4
<1>5. ASSUME NEW x \in WalkObjects \ (L \ {e}), x # e
      PROVE  N[x] = POISON /\ P[x] = POISON
  BY <1>1, <1>2, <1>3, <1>5
<1>6. L \ {e} \subseteq WalkObjects
  BY <1>1
<1>7. N \in WalkMaps /\ P \in WalkMaps
  BY <1>3
<1> QED
  BY <1>4, <1>5, <1>6, <1>7 DEF Around, N, P

(* The ring of head, when another object is taken out, or one of its own.  *)
LEMMA UnlinkedElsewhere ==
  ASSUME NEW F, NEW G, NEW L, NEW c, NEW k, Hub(F, G, L, c, k),
         NEW e \in L, F[e] # e, e # other, \A i \in 0 .. k : c[i] # e
  PROVE  Circle(Unlink(F, G, e), L \ {e}, c, k)
<1>1. \A i \in 0 .. k : c[i] \in L /\ c[i] # G[e]
  <2> SUFFICES ASSUME NEW i \in 0 .. k PROVE c[i] \in L /\ c[i] # G[e]
    OBVIOUS
  <2> Following(k, i) \in 0 .. k
    BY Backwards DEF Hub
  <2>1. c[i] \in L /\ F[c[i]] = c[Following(k, i)] /\ Following(k, i) \in 0 .. k
    BY DEF Hub, Circle
  <2>2. F[G[e]] = e
    BY DEF Hub, Around
  <2> QED
    BY <2>1, <2>2
<1>2. F \in WalkMaps /\ L \subseteq WalkObjects
  BY DEF Hub, Around
<1>3. \A i \in 0 .. k : Unlink(F, G, e)[c[i]] = F[c[i]]
  BY <1>1, <1>2 DEF Unlink, WalkMaps
<1>4. c \in [0 .. k -> L \ {e}]
  BY <1>1 DEF Hub, Circle
<1> QED
  BY <1>3, <1>4 DEF Hub, Circle

(* The ring of head, when one of its own is taken out.                     *)
LEMMA UnlinkedHere ==
  ASSUME NEW F, NEW G, NEW L, NEW c, NEW k, Hub(F, G, L, c, k),
         NEW i \in 1 .. k
  PROVE  Circle(Unlink(F, G, c[i]), L \ {c[i]}, Shorter(c, k, i), k - 1)
<1> DEFINE e == c[i]
           N == Unlink(F, G, e)
           d == Shorter(c, k, i)
<1>1. /\ k \in Nat /\ c \in [0 .. k -> L] /\ c[0] = head
      /\ \A a, b \in 0 .. k : c[a] = c[b] => a = b
      /\ \A j \in 0 .. k : F[c[j]] = c[Following(k, j)]
      /\ other \in L /\ \A j \in 0 .. k : c[j] # other
      /\ F \in WalkMaps /\ L \subseteq WalkObjects
  BY DEF Hub, Circle, Around
<1>2. k - 1 \in Nat /\ i \in 0 .. k /\ i # 0 /\ i - 1 \in 0 .. k /\ i - 1 # k /\ i - 1 + 1 = i
  BY <1>1
<1>3. G[e] = c[i - 1] /\ F[e] = c[Following(k, i)]
  <2>1. Following(k, i - 1) = i
    BY <1>2 DEF Following
  <2>2. \A j \in 0 .. k : G[c[Following(k, j)]] = c[j]
    BY Backwards DEF Hub
  <2> QED
    BY <1>1, <1>2, <2>1, <2>2
<1>4. \A j \in 0 .. k : N[c[j]] = IF j = i - 1 THEN c[Following(k, i)] ELSE c[Following(k, j)]
  <2> SUFFICES ASSUME NEW j \in 0 .. k
               PROVE  N[c[j]] = IF j = i - 1 THEN c[Following(k, i)] ELSE c[Following(k, j)]
    OBVIOUS
  <2>1. c[j] \in WalkObjects /\ c[i - 1] \in WalkObjects /\ (c[j] = c[i - 1] <=> j = i - 1)
    BY <1>1, <1>2
  <2>2. N = [F EXCEPT ![c[i - 1]] = c[Following(k, i)]]
    BY <1>3 DEF Unlink
  <2> QED
    BY <1>1, <2>1, <2>2 DEF WalkMaps
<1> HIDE DEF N, e
<1>5. \A j \in 0 .. k - 1 : /\ d[j] = c[IF j < i THEN j ELSE j + 1]
                            /\ (IF j < i THEN j ELSE j + 1) \in 0 .. k
                            /\ (IF j < i THEN j ELSE j + 1) # i
  <2>1. \A j \in 0 .. k - 1 : d[j] = c[IF j < i THEN j ELSE j + 1]
    BY DEF Shorter
  <2>2. \A j \in 0 .. k - 1 : /\ (IF j < i THEN j ELSE j + 1) \in 0 .. k
                              /\ (IF j < i THEN j ELSE j + 1) # i
    BY <1>1
  <2> QED
    BY <2>1, <2>2
<1>6. d \in [0 .. k - 1 -> L \ {e}]
  <2>1. \A j \in 0 .. k - 1 : d[j] \in L \ {e}
    BY <1>1, <1>2, <1>5 DEF e
  <2> QED
    BY <2>1 DEF Shorter
<1>7. d[0] = head
  <2>1. 0 \in 0 .. k - 1 /\ 0 < i
    BY <1>2
  <2> QED
    BY <1>1, <1>5, <2>1
<1>8. \A a, b \in 0 .. k - 1 : d[a] = d[b] => a = b
  <2> SUFFICES ASSUME NEW a \in 0 .. k - 1, NEW b \in 0 .. k - 1, d[a] = d[b] PROVE a = b
    OBVIOUS
  <2>1. (IF a < i THEN a ELSE a + 1) = (IF b < i THEN b ELSE b + 1)
    BY <1>1, <1>5
  <2> QED
    BY <1>2, <2>1
<1>9. \A j \in 0 .. k - 1 : N[d[j]] = d[Following(k - 1, j)]
  <2> SUFFICES ASSUME NEW j \in 0 .. k - 1 PROVE N[d[j]] = d[Following(k - 1, j)]
    OBVIOUS
  <2> DEFINE q == IF j < i THEN j ELSE j + 1
             r == Following(k - 1, j)
  <2>1. q \in 0 .. k /\ q # i /\ d[j] = c[q]
    BY <1>5
  <2>2. r \in 0 .. k - 1
    BY <1>2 DEF Following
  <2>3. (IF r < i THEN r ELSE r + 1) = IF q = i - 1 THEN Following(k, i) ELSE Following(k, q)
    BY <1>1, <1>2 DEF Following
  <2>4. d[r] = c[IF r < i THEN r ELSE r + 1]
    BY <1>5, <2>2
  <2>5. N[c[q]] = IF q = i - 1 THEN c[Following(k, i)] ELSE c[Following(k, q)]
    BY <1>4, <2>1
  <2> HIDE DEF q, r
  <2> QED
    BY <2>1, <2>3, <2>4, <2>5 DEF r
<1>10. \A j \in 0 .. k - 1 : d[j] # other
  BY <1>1, <1>5
<1>11. other \in L \ {e}
  BY <1>1, <1>2 DEF e
<1> HIDE DEF d
<1> QED
  BY <1>2, <1>6, <1>7, <1>8, <1>9, <1>10, <1>11 DEF Circle, N, d, e

(* An object in no ring is given poisoned pointers.                        *)
LEMMA Poisoned ==
  ASSUME NEW F, NEW G, NEW L, NEW c, NEW k, NEW e \in WalkObjects \ L,
         Around(F, G, L, e), Circle(F, L, c, k)
  PROVE  Hub([F EXCEPT ![e] = POISON], [G EXCEPT ![e] = POISON], L, c, k)
<1> DEFINE N == [F EXCEPT ![e] = POISON]
           P == [G EXCEPT ![e] = POISON]
<1>1. /\ F \in WalkMaps /\ G \in WalkMaps /\ L \subseteq WalkObjects
      /\ \A x \in L : F[x] \in L /\ G[x] \in L /\ F[G[x]] = x /\ G[F[x]] = x
      /\ \A x \in WalkObjects \ L : x # e => F[x] = POISON /\ G[x] = POISON
  BY DEF Around
<1>2. /\ N \in WalkMaps /\ P \in WalkMaps
      /\ N[e] = POISON /\ P[e] = POISON
      /\ \A x \in WalkObjects : x # e => N[x] = F[x] /\ P[x] = G[x]
  BY <1>1 DEF WalkMaps
<1> HIDE DEF N, P
<1>3. \A x \in L : x # e /\ N[x] = F[x] /\ P[x] = G[x]
  BY <1>1, <1>2
<1>4. Around(N, P, L, head)
  BY <1>1, <1>2, <1>3 DEF Around
<1>5. Circle(N, L, c, k)
  BY <1>3 DEF Circle
<1> QED
  BY <1>4, <1>5 DEF Hub, N, P

(* Such an object is given pointers to itself.                             *)
LEMMA Initialised ==
  ASSUME NEW F, NEW G, NEW L, NEW c, NEW k, NEW e \in WalkObjects \ L,
         Around(F, G, L, e), Circle(F, L, c, k)
  PROVE  Hub([F EXCEPT ![e] = e], [G EXCEPT ![e] = e], L \cup {e}, c, k)
<1> DEFINE N == [F EXCEPT ![e] = e]
           P == [G EXCEPT ![e] = e]
           M == L \cup {e}
<1>1. /\ F \in WalkMaps /\ G \in WalkMaps /\ L \subseteq WalkObjects
      /\ \A x \in L : F[x] \in L /\ G[x] \in L /\ F[G[x]] = x /\ G[F[x]] = x
      /\ \A x \in WalkObjects \ L : x # e => F[x] = POISON /\ G[x] = POISON
  BY DEF Around
<1>2. /\ N \in WalkMaps /\ P \in WalkMaps
      /\ N[e] = e /\ P[e] = e
      /\ \A x \in WalkObjects : x # e => N[x] = F[x] /\ P[x] = G[x]
  BY <1>1 DEF WalkMaps
<1> HIDE DEF N, P
<1>3. \A x \in L : x # e /\ N[x] = F[x] /\ P[x] = G[x]
  BY <1>1, <1>2
<1>4. \A x \in M : N[x] \in M /\ P[x] \in M /\ N[P[x]] = x /\ P[N[x]] = x
  BY <1>1, <1>2, <1>3
<1>5. Around(N, P, M, head)
  BY <1>1, <1>2, <1>4 DEF Around
<1>6. c \in [0 .. k -> M] /\ \A i \in 0 .. k : N[c[i]] = F[c[i]]
  BY <1>3 DEF Circle
<1>7. Circle(N, M, c, k)
  BY <1>6 DEF Circle
<1> HIDE DEF M
<1> QED
  BY <1>5, <1>7 DEF Hub, N, P, M

(* Such an object is put between a and the object after it.                *)
LEMMA Inserted ==
  ASSUME NEW F, NEW G, NEW L, NEW e \in WalkObjects \ L, NEW a \in L, Around(F, G, L, e)
  PROVE  Around(Between(F, a, e, F[a]), Between(G, F[a], e, a), L \cup {e}, head)
<1> DEFINE b == F[a]
           N == Between(F, a, e, b)
           P == Between(G, b, e, a)
           M == L \cup {e}
<1>1. /\ F \in WalkMaps /\ G \in WalkMaps /\ L \subseteq WalkObjects
      /\ \A x \in L : F[x] \in L /\ G[x] \in L /\ F[G[x]] = x /\ G[F[x]] = x
      /\ \A x \in WalkObjects \ L : x # e => F[x] = POISON /\ G[x] = POISON
  BY DEF Around
<1>2. a # e /\ b # e /\ b \in L /\ G[b] = a /\ a \in WalkObjects /\ b \in WalkObjects
  BY <1>1
<1>3. /\ N \in WalkMaps /\ P \in WalkMaps
      /\ N[e] = b /\ N[a] = e /\ \A x \in WalkObjects : x # e /\ x # a => N[x] = F[x]
      /\ P[e] = a /\ P[b] = e /\ \A x \in WalkObjects : x # e /\ x # b => P[x] = G[x]
  BY <1>1, <1>2 DEF Between, WalkMaps
<1>4. \A x \in L : (F[x] = b => x = a) /\ (G[x] = a => x = b)
  BY <1>1
<1> HIDE DEF N, P, b
<1>5. ASSUME NEW x \in M
      PROVE  N[x] \in M /\ P[x] \in M /\ N[P[x]] = x /\ P[N[x]] = x
  <2>1. N[x] \in M /\ P[N[x]] = x
    <3>1. CASE x = e
      BY <1>2, <1>3, <3>1
    <3>2. CASE x = a
      BY <1>2, <1>3, <3>2
    <3>3. CASE x # e /\ x # a
      <4>1. x \in L /\ x \in WalkObjects /\ F[x] \in L /\ F[x] \in WalkObjects /\ F[x] # e /\ F[x] # b /\ G[F[x]] = x
        BY <1>1, <1>4, <3>3
      <4> QED
        BY <1>3, <3>3, <4>1
    <3> QED
      BY <3>1, <3>2, <3>3
  <2>2. P[x] \in M /\ N[P[x]] = x
    <3>1. CASE x = e
      BY <1>2, <1>3, <3>1
    <3>2. CASE x = b
      BY <1>2, <1>3, <3>2
    <3>3. CASE x # e /\ x # b
      <4>1. x \in L /\ x \in WalkObjects /\ G[x] \in L /\ G[x] \in WalkObjects /\ G[x] # e /\ G[x] # a /\ F[G[x]] = x
        BY <1>1, <1>4, <3>3
      <4> QED
        BY <1>3, <3>3, <4>1
    <3> QED
      BY <3>1, <3>2, <3>3
  <2> QED
    BY <2>1, <2>2
<1>6. M \subseteq WalkObjects /\ \A x \in WalkObjects \ M : N[x] = POISON /\ P[x] = POISON
  BY <1>1, <1>2, <1>3
<1> HIDE DEF M
<1> QED
  BY <1>3, <1>5, <1>6 DEF Around, N, P, M, b

(* The ring of head, when an object is put elsewhere, or after its i-th.   *)
LEMMA InsertedElsewhere ==
  ASSUME NEW F, NEW L, NEW c, NEW k, NEW e \in WalkObjects \ L, NEW a \in L, F \in WalkMaps,
         L \subseteq WalkObjects, Circle(F, L, c, k), \A i \in 0 .. k : c[i] # a
  PROVE  Circle(Between(F, a, e, F[a]), L \cup {e}, c, k)
<1>1. \A i \in 0 .. k : c[i] \in L /\ c[i] # a /\ c[i] # e /\ c[i] \in WalkObjects
  BY DEF Circle
<1>2. \A i \in 0 .. k : Between(F, a, e, F[a])[c[i]] = F[c[i]]
  BY <1>1 DEF Between, WalkMaps
<1>3. c \in [0 .. k -> L \cup {e}]
  BY DEF Circle
<1> QED
  BY <1>2, <1>3 DEF Circle

(* The ring of head, when an object is put after its i-th.                 *)
LEMMA InsertedHere ==
  ASSUME NEW F, NEW L, NEW c, NEW k, NEW e \in WalkObjects \ L, F \in WalkMaps,
         L \subseteq WalkObjects, Circle(F, L, c, k), NEW i \in 0 .. k
  PROVE  Circle(Between(F, c[i], e, F[c[i]]), L \cup {e}, Longer(c, k, i, e), k + 1)
<1> DEFINE N == Between(F, c[i], e, F[c[i]])
           d == Longer(c, k, i, e)
           M == L \cup {e}
<1>1. /\ k \in Nat /\ c \in [0 .. k -> L] /\ c[0] = head
      /\ \A a, b \in 0 .. k : c[a] = c[b] => a = b
      /\ \A j \in 0 .. k : F[c[j]] = c[Following(k, j)]
      /\ other \in L /\ \A j \in 0 .. k : c[j] # other
  BY DEF Circle
<1>2. \A j \in 0 .. k : c[j] # e /\ c[j] \in L /\ c[j] \in WalkObjects
  BY <1>1
<1>3. /\ N[e] = c[Following(k, i)] /\ N[c[i]] = e
      /\ \A j \in 0 .. k : j # i => N[c[j]] = c[Following(k, j)]
  <2>1. \A x \in WalkObjects : x # e /\ x # c[i] => N[x] = F[x]
    BY <1>2 DEF Between, WalkMaps
  <2>2. N[e] = F[c[i]] /\ N[c[i]] = e
    BY <1>2 DEF Between, WalkMaps
  <2>3. \A j \in 0 .. k : j # i => N[c[j]] = F[c[j]]
    BY <1>1, <1>2, <2>1
  <2> QED
    BY <1>1, <2>2, <2>3
<1> HIDE DEF N
<1>4. \A j \in 0 .. k + 1 : d[j] = IF j <= i THEN c[j] ELSE IF j = i + 1 THEN e ELSE c[j - 1]
  BY DEF Longer
<1>5. \A j \in 0 .. k + 1 : /\ j <= i => j \in 0 .. k
                            /\ ~(j <= i) /\ j # i + 1 => j - 1 \in 0 .. k /\ j - 1 > i
  BY <1>1
<1>6. \A j \in 0 .. k + 1 : d[j] \in M /\ d[j] # other
  <2>1. other # e
    BY <1>1
  <2> QED
    BY <1>1, <1>4, <1>5, <2>1
<1>7. d \in [0 .. k + 1 -> M]
  BY <1>6 DEF Longer
<1>8. d[0] = head
  <2>1. 0 \in 0 .. k + 1 /\ 0 <= i
    BY <1>1
  <2> QED
    BY <1>1, <1>4, <2>1
<1>9. \A a, b \in 0 .. k + 1 : d[a] = d[b] => a = b
  <2> SUFFICES ASSUME NEW a \in 0 .. k + 1, NEW b \in 0 .. k + 1, d[a] = d[b] PROVE a = b
    OBVIOUS
  <2> DEFINE q(j) == IF j <= i THEN j ELSE j - 1
  <2>1. \A j \in 0 .. k + 1 : j # i + 1 => d[j] = c[q(j)] /\ q(j) \in 0 .. k
    BY <1>4, <1>5
  <2>2. d[i + 1] = e
    <3>1. i + 1 \in 0 .. k + 1 /\ ~(i + 1 <= i)
      BY <1>1
    <3> QED
      BY <1>4, <3>1
  <2>3. CASE a # i + 1 /\ b # i + 1
    <3>1. q(a) = q(b)
      BY <1>1, <2>1, <2>3
    <3> QED
      BY <2>3, <3>1
  <2>4. CASE a = i + 1 \/ b = i + 1
    <3> HIDE DEF q
    <3> QED
      BY <1>2, <2>1, <2>2, <2>4
  <2> QED
    BY <2>3, <2>4
<1>10. \A j \in 0 .. k + 1 : N[d[j]] = d[Following(k + 1, j)]
  <2> SUFFICES ASSUME NEW j \in 0 .. k + 1 PROVE N[d[j]] = d[Following(k + 1, j)]
    OBVIOUS
  <2> DEFINE r == Following(k + 1, j)
  <2>1. r \in 0 .. k + 1 /\ d[r] = IF r <= i THEN c[r] ELSE IF r = i + 1 THEN e ELSE c[r - 1]
    <3>1. r \in 0 .. k + 1
      BY <1>1 DEF Following
    <3> QED
      BY <1>4, <3>1
  <2>2. CASE j < i
    <3>1. r = j + 1 /\ r <= i /\ Following(k, j) = j + 1 /\ j \in 0 .. k /\ d[j] = c[j] /\ j # i
      BY <1>1, <1>4, <2>2 DEF Following
    <3> QED
      BY <1>3, <2>1, <3>1
  <2>3. CASE j = i
    <3>1. r = i + 1 /\ ~(r <= i) /\ d[j] = c[i]
      BY <1>1, <1>4, <2>3 DEF Following
    <3> QED
      BY <1>3, <2>1, <3>1
  <2>4. CASE j = i + 1
    <3>1. d[j] = e
      BY <1>4, <2>4
    <3>2. CASE i = k
      <4>1. r = 0 /\ Following(k, i) = 0 /\ 0 <= i
        BY <1>1, <2>4, <3>2 DEF Following
      <4> QED
        BY <1>3, <2>1, <3>1, <4>1
    <3>3. CASE i # k
      <4>1. r = i + 2 /\ Following(k, i) = i + 1 /\ ~(r <= i) /\ r # i + 1 /\ r - 1 = i + 1
        BY <1>1, <2>4, <3>3 DEF Following
      <4> QED
        BY <1>3, <2>1, <3>1, <4>1
    <3> QED
      BY <3>2, <3>3
  <2>5. CASE j > i + 1
    <3>1. d[j] = c[j - 1] /\ j - 1 \in 0 .. k /\ j - 1 # i
      BY <1>4, <1>5, <2>5
    <3>2. N[d[j]] = c[Following(k, j - 1)]
      BY <1>3, <3>1
    <3>3. CASE j = k + 1
      <4>1. r = 0 /\ Following(k, j - 1) = 0 /\ 0 <= i
        BY <1>1, <3>3 DEF Following
      <4> QED
        BY <2>1, <3>2, <4>1
    <3>4. CASE j # k + 1
      <4>1. r = j + 1 /\ Following(k, j - 1) = j /\ ~(r <= i) /\ r # i + 1 /\ r - 1 = j
        BY <1>1, <2>5, <3>4 DEF Following
      <4> QED
        BY <2>1, <3>2, <4>1
    <3> QED
      BY <3>3, <3>4
  <2> QED
    BY <2>2, <2>3, <2>4, <2>5
<1> HIDE DEF d
<1>11. k + 1 \in Nat /\ other \in M
  BY <1>1
<1> HIDE DEF M
<1> QED
  BY <1>6, <1>7, <1>8, <1>9, <1>10, <1>11 DEF Circle, N, d, M

(* An object alone in its ring may as well be in none.                     *)
LEMMA Apart ==
  ASSUME NEW F, NEW G, NEW L, NEW c, NEW k, Hub(F, G, L, c, k),
         NEW e \in L, F[e] = e, e # other, \A i \in 0 .. k : c[i] # e
  PROVE  Around(F, G, L \ {e}, e) /\ Circle(F, L \ {e}, c, k)
<1>1. /\ F \in WalkMaps /\ G \in WalkMaps /\ L \subseteq WalkObjects
      /\ \A x \in L : F[x] \in L /\ G[x] \in L /\ F[G[x]] = x /\ G[F[x]] = x
      /\ \A x \in WalkObjects \ L : x # head => F[x] = POISON /\ G[x] = POISON
      /\ Circle(F, L, c, k)
  BY DEF Hub, Around
<1>2. \A x \in L : x # e => F[x] # e /\ G[x] # e
  BY <1>1
<1>3. head \in L
  <2>1. 0 \in 0 .. k /\ c \in [0 .. k -> L] /\ c[0] = head
    BY <1>1 DEF Circle
  <2> QED
    BY <2>1
<1>4. Around(F, G, L \ {e}, e)
  BY <1>1, <1>2, <1>3 DEF Around
<1>5. c \in [0 .. k -> L \ {e}]
  BY <1>1 DEF Circle
<1> QED
  BY <1>1, <1>4, <1>5 DEF Circle

(* x comes before y in C, if C has both.                                   *)
Earlier(C, x, y) == \A a, b \in DOMAIN C : x = C[a] /\ y = C[b] => a < b

(* The loop has seen s and is at the p-th entry of the ring c, or at head  *)
(* (p = k + 1).  What it has seen and what lies ahead is in the order of C *)
(* and without repetition; an entry of E that is neither is not in the     *)
(* ring; the entries in f are new to all of them.                          *)
Visits(C, E, s, f, c, k, p) ==
  /\ p \in 1 .. k + 1
  /\ s \in Seq(Items)
  /\ \A x, y \in DOMAIN s : x < y => s[x] # s[y] /\ Earlier(C, s[x], s[y])
  /\ \A i, j \in 1 .. k : i < j => Earlier(C, c[i], c[j])
  /\ \A x \in DOMAIN s, j \in p .. k : s[x] # c[j] /\ Earlier(C, s[x], c[j])
  /\ \A e \in E : \/ \E x \in DOMAIN s : e = s[x]
                  \/ \E j \in p .. k : e = c[j]
                  \/ \A j \in 0 .. k : e # c[j]
  /\ f \subseteq Items
  /\ \A e \in f : /\ \A j \in 0 .. k : c[j] # e
                  /\ \A x \in DOMAIN s : s[x] # e
                  /\ \A a \in DOMAIN C : C[a] # e

(* The ring c becomes the ring d while the loop goes from p to q: g tells  *)
(* which entry of c an entry of d was, 0 if it is the new entry e, and h   *)
(* are the entries that are still new.                                     *)
Turned(c, k, p, f, d, l, q, h, g, e) ==
  /\ p \in 1 .. k /\ l \in Nat /\ q \in 1 .. l + 1 /\ d[0] = c[0]
  /\ h \subseteq f /\ e \notin h
  /\ \A j \in 1 .. l : \/ g[j] \in 1 .. k /\ d[j] = c[g[j]]
                       \/ g[j] = 0 /\ d[j] = e /\ e \in f
  /\ \A i, j \in 1 .. l : i < j => g[i] # g[j] /\ (g[j] # 0 => g[i] < g[j])
  /\ \A j \in q .. l : g[j] = 0 \/ g[j] > p
  /\ \A j \in 1 .. l : j < q => g[j] <= p
  /\ \A j \in p + 1 .. k : (\E i \in 1 .. l : g[i] = j) \/ \A i \in 0 .. l : d[i] # c[j]

(* What the loop needs of the ring: no entry twice.                        *)
NoTwice(c, k) ==
  /\ k \in Nat /\ \A i, j \in 0 .. k : c[i] = c[j] => i = j
  /\ \A i \in 1 .. k : c[i] \in Items

(* One turn of a loop: what is seen stays in order.                        *)
LEMMA Turn ==
  ASSUME NEW C, NEW E, NEW s, NEW f, NEW c, NEW k, NEW p, NoTwice(c, k),
         Visits(C, E, s, f, c, k, p), \A e \in E : \E a \in DOMAIN C : e = C[a],
         NEW d, NEW l, NEW q, NEW h, NEW g, NEW e, Turned(c, k, p, f, d, l, q, h, g, e)
  PROVE  Visits(C, E, Append(s, c[p]), h, d, l, q)
<1> USE DEF NoTwice, Turned
<1> k \in Nat /\ p \in 1 .. k /\ l \in Nat /\ q \in 1 .. l + 1
  OBVIOUS
<1> DEFINE t == Append(s, c[p])
<1>1. /\ s \in Seq(Items)
      /\ \A x, y \in DOMAIN s : x < y => s[x] # s[y] /\ Earlier(C, s[x], s[y])
      /\ \A i, j \in 1 .. k : i < j => Earlier(C, c[i], c[j])
      /\ \A x \in DOMAIN s, j \in p .. k : s[x] # c[j] /\ Earlier(C, s[x], c[j])
  BY DEF Visits
<1>2. \A b \in E : \/ \E x \in DOMAIN s : b = s[x]
                   \/ \E j \in p .. k : b = c[j]
                   \/ \A j \in 0 .. k : b # c[j]
  BY DEF Visits
<1>3. f \subseteq Items /\ \A b \in f : /\ \A j \in 0 .. k : c[j] # b
                                        /\ \A x \in DOMAIN s : s[x] # b
                                        /\ \A a \in DOMAIN C : C[a] # b
  BY DEF Visits
<1>4. c[p] \in Items /\ p \in p .. k /\ p \in 0 .. k
  OBVIOUS
<1>5. /\ t \in Seq(Items) /\ Len(t) = Len(s) + 1 /\ t[Len(s) + 1] = c[p]
      /\ \A x \in DOMAIN s : t[x] = s[x] /\ x \in DOMAIN t
      /\ \A x \in DOMAIN t : x \in DOMAIN s \/ x = Len(s) + 1
      /\ DOMAIN s = 1 .. Len(s) /\ DOMAIN t = 1 .. Len(s) + 1 /\ Len(s) \in Nat
  BY <1>1, <1>4
<1> HIDE DEF t
<1>6. ASSUME NEW x \in DOMAIN t, NEW y \in DOMAIN t, x < y
      PROVE  t[x] # t[y] /\ Earlier(C, t[x], t[y])
  <2>1. x \in DOMAIN s
    BY <1>5, <1>6
  <2>2. CASE y \in DOMAIN s
    BY <1>1, <1>5, <1>6, <2>1, <2>2
  <2>3. CASE y = Len(s) + 1
    BY <1>1, <1>4, <1>5, <2>1, <2>3
  <2> QED
    BY <1>5, <2>2, <2>3
<1>7. \A b \in f : \A x : Earlier(C, b, x) /\ Earlier(C, x, b)
  BY <1>3 DEF Earlier
<1>8. ASSUME NEW i \in 1 .. l, NEW j \in 1 .. l, i < j PROVE Earlier(C, d[i], d[j])
  <2>1. CASE g[i] = 0 \/ g[j] = 0
    BY <1>7, <2>1
  <2>2. CASE g[i] # 0 /\ g[j] # 0
    <3>1. g[i] \in 1 .. k /\ g[j] \in 1 .. k /\ g[i] < g[j] /\ d[i] = c[g[i]] /\ d[j] = c[g[j]]
      BY <1>8, <2>2
    <3> QED
      BY <1>1, <3>1
  <2> QED
    BY <2>1, <2>2
<1>9. ASSUME NEW x \in DOMAIN t, NEW j \in q .. l PROVE t[x] # d[j] /\ Earlier(C, t[x], d[j])
  <2>1. j \in 1 .. l
    OBVIOUS
  <2>2. CASE g[j] = 0
    <3>1. d[j] \in f
      BY <2>1, <2>2
    <3>2. t[x] # d[j]
      BY <1>3, <1>4, <1>5, <3>1
    <3> QED
      BY <1>7, <3>1, <3>2
  <2>3. CASE g[j] # 0
    <3>1. g[j] \in 1 .. k /\ d[j] = c[g[j]] /\ g[j] > p /\ g[j] \in p .. k /\ p \in 1 .. k
      BY <2>1, <2>3
    <3>2. CASE x \in DOMAIN s
      BY <1>1, <1>5, <3>1, <3>2
    <3>3. CASE x = Len(s) + 1
      BY <1>1, <1>5, <3>1, <3>3
    <3> QED
      BY <1>5, <3>2, <3>3
  <2> QED
    BY <2>2, <2>3
<1>10. ASSUME NEW b \in E
       PROVE  \/ \E x \in DOMAIN t : b = t[x]
              \/ \E j \in q .. l : b = d[j]
              \/ \A j \in 0 .. l : b # d[j]
  <2>1. CASE \E x \in DOMAIN s : b = s[x]
    BY <1>5, <2>1
  <2>2. CASE \E j \in p .. k : b = c[j]
    <3>1. PICK j \in p .. k : b = c[j]
      BY <2>2
    <3>2. CASE j = p
      <4>1. Len(s) + 1 \in DOMAIN t
        BY <1>5
      <4> QED
        BY <1>5, <3>1, <3>2, <4>1
    <3>3. CASE j # p
      <4>1. j \in p + 1 .. k
        BY <3>3
      <4>2. CASE \E i \in 1 .. l : g[i] = j
        <5>1. PICK i \in 1 .. l : g[i] = j
          BY <4>2
        <5>2. i \in q .. l /\ d[i] = c[j]
          BY <4>1, <5>1
        <5> QED
          BY <3>1, <5>2
      <4>3. CASE \A i \in 0 .. l : d[i] # c[j]
        BY <3>1, <4>3
      <4> QED
        BY <4>1, <4>2, <4>3
    <3> QED
      BY <3>2, <3>3
  <2>3. CASE \A j \in 0 .. k : b # c[j]
    <3> SUFFICES ASSUME NEW j \in 0 .. l PROVE b # d[j]
      OBVIOUS
    <3>1. CASE j = 0
      BY <2>3, <3>1
    <3>2. CASE j # 0
      <4>1. j \in 1 .. l
        BY <3>2
      <4>2. CASE g[j] = 0
        BY <1>3, <4>1, <4>2
      <4>3. CASE g[j] # 0
        BY <2>3, <4>1, <4>3
      <4> QED
        BY <4>2, <4>3
    <3> QED
      BY <3>1, <3>2
  <2> QED
    BY <1>2, <2>1, <2>2, <2>3
<1>11. ASSUME NEW b \in h
       PROVE  /\ \A j \in 0 .. l : d[j] # b
              /\ \A x \in DOMAIN t : t[x] # b
              /\ \A a \in DOMAIN C : C[a] # b
  <2>1. b \in f /\ b # e
    OBVIOUS
  <2>2. ASSUME NEW j \in 0 .. l PROVE d[j] # b
    <3>1. CASE j = 0
      BY <1>3, <2>1, <3>1
    <3>2. CASE j # 0
      <4>1. j \in 1 .. l
        BY <3>2
      <4> QED
        BY <1>3, <2>1, <4>1
    <3> QED
      BY <3>1, <3>2
  <2>3. \A x \in DOMAIN t : t[x] # b
    BY <1>3, <1>4, <1>5, <2>1
  <2> QED
    BY <1>3, <2>1, <2>2, <2>3
<1>12. h \subseteq Items
  BY <1>3
<1> QED
  BY <1>5, <1>6, <1>8, <1>9, <1>10, <1>11, <1>12 DEF Visits, t

(* The entry the cursor is at.                                             *)
At(c, k, p) == c[IF p = k + 1 THEN 0 ELSE p]

(* The body leaves the ring, or takes out its i-th, or adds one after it.  *)
LEMMA TurnSame ==
  ASSUME NEW C, NEW E, NEW s, NEW f, NEW c, NEW k, NEW p \in 1 .. k, NoTwice(c, k),
         Visits(C, E, s, f, c, k, p), \A e \in E : \E a \in DOMAIN C : e = C[a]
  PROVE  Visits(C, E, Append(s, c[p]), f, c, k, p + 1)
<1> DEFINE g == [j \in 1 .. k |-> j]
<1>1. k \in Nat /\ p + 1 \in 1 .. k + 1 /\ \A j \in 1 .. k : g[j] = j
  BY DEF NoTwice
<1> DEFINE e == POISON
<1>2. e \notin f
  BY WalkAssumption DEF Visits
<1> HIDE DEF g
<1>3. \A j \in 1 .. k : \/ g[j] \in 1 .. k /\ c[j] = c[g[j]]
                        \/ g[j] = 0 /\ c[j] = e /\ e \in f
  BY <1>1
<1>4. \A i, j \in 1 .. k : i < j => g[i] # g[j] /\ (g[j] # 0 => g[i] < g[j])
  BY <1>1
<1>5. /\ \A j \in p + 1 .. k : g[j] = 0 \/ g[j] > p
      /\ \A j \in 1 .. k : j < p + 1 => g[j] <= p
  BY <1>1
<1>6. \A j \in p + 1 .. k : \E i \in 1 .. k : g[i] = j
  BY <1>1
<1>7. Turned(c, k, p, f, c, k, p + 1, f, g, e)
  BY <1>1, <1>2, <1>3, <1>4, <1>5, <1>6 DEF Turned
<1> QED
  BY <1>7, Turn

(* The turn in which the i-th of the ring is taken out.                    *)
LEMMA TurnShorter ==
  ASSUME NEW C, NEW E, NEW s, NEW f, NEW c, NEW k, NEW p \in 1 .. k, NoTwice(c, k),
         Visits(C, E, s, f, c, k, p), \A e \in E : \E a \in DOMAIN C : e = C[a],
         NEW i \in 1 .. k
  PROVE  Visits(C, E, Append(s, c[p]), f, Shorter(c, k, i), k - 1, IF i <= p THEN p ELSE p + 1)
<1> DEFINE l == k - 1
           d == Shorter(c, k, i)
           q == IF i <= p THEN p ELSE p + 1
           g == [j \in 1 .. l |-> IF j < i THEN j ELSE j + 1]
<1>1. /\ k \in Nat /\ l \in Nat /\ q \in 1 .. l + 1
      /\ \A a, b \in 0 .. k : c[a] = c[b] => a = b
      /\ \A a \in 1 .. k : c[a] \in Items
  BY DEF NoTwice
<1>2. \A j \in 1 .. l : g[j] = IF j < i THEN j ELSE j + 1
  OBVIOUS
<1>3. \A j \in 0 .. l : d[j] = c[IF j < i THEN j ELSE j + 1]
  BY DEF Shorter
<1> DEFINE e == POISON
<1>4. e \notin f
  BY WalkAssumption DEF Visits
<1>5. d[0] = c[0]
  <2>1. 0 \in 0 .. l /\ 0 < i
    BY <1>1
  <2> QED
    BY <1>3, <2>1
<1> HIDE DEF g, d
<1>6. \A j \in 1 .. l : \/ g[j] \in 1 .. k /\ d[j] = c[g[j]]
                        \/ g[j] = 0 /\ d[j] = e /\ e \in f
  BY <1>1, <1>2, <1>3
<1>7. \A a, b \in 1 .. l : a < b => g[a] # g[b] /\ (g[b] # 0 => g[a] < g[b])
  BY <1>1, <1>2
<1>8. /\ \A j \in q .. l : g[j] = 0 \/ g[j] > p
      /\ \A j \in 1 .. l : j < q => g[j] <= p
  BY <1>1, <1>2
<1>9. ASSUME NEW j \in p + 1 .. k
      PROVE  (\E a \in 1 .. l : g[a] = j) \/ \A a \in 0 .. l : d[a] # c[j]
  <2>1. CASE j = i
    <3>1. \A a \in 0 .. l : /\ (IF a < i THEN a ELSE a + 1) \in 0 .. k
                            /\ (IF a < i THEN a ELSE a + 1) # j
      BY <1>1, <2>1
    <3>2. j \in 0 .. k
      BY <1>1
    <3> QED
      BY <1>1, <1>3, <3>1, <3>2
  <2>2. CASE j < i
    <3>1. j \in 1 .. l /\ g[j] = j
      BY <1>1, <1>2, <2>2
    <3> QED
      BY <3>1
  <2>3. CASE j > i
    <3>1. j - 1 \in 1 .. l /\ g[j - 1] = j
      BY <1>1, <1>2, <2>3
    <3> QED
      BY <3>1
  <2> QED
    BY <1>1, <2>1, <2>2, <2>3
<1> HIDE DEF l, q
<1>10. Turned(c, k, p, f, d, l, q, f, g, e)
  BY <1>1, <1>4, <1>5, <1>6, <1>7, <1>8, <1>9 DEF Turned
<1>11. Visits(C, E, Append(s, c[p]), f, d, l, q)
  BY <1>10, Turn
<1> QED
  BY <1>11 DEF d, l, q

(* The turn in which e is put after the i-th of the ring.                  *)
LEMMA TurnLonger ==
  ASSUME NEW C, NEW E, NEW s, NEW f, NEW c, NEW k, NEW p \in 1 .. k, NoTwice(c, k),
         Visits(C, E, s, f, c, k, p), \A e \in E : \E a \in DOMAIN C : e = C[a],
         NEW i \in {p - 1, p}, NEW e \in f, NEW q \in {p + 1, p + 2}, i # p => q = p + 2
  PROVE  Visits(C, E, Append(s, c[p]), f \ {e}, Longer(c, k, i, e), k + 1, q)
<1> DEFINE l == k + 1
           d == Longer(c, k, i, e)
           g == [j \in 1 .. l |-> IF j <= i THEN j ELSE IF j = i + 1 THEN 0 ELSE j - 1]
<1>1. /\ k \in Nat /\ l \in Nat /\ q \in 1 .. l + 1 /\ i \in 0 .. k
      /\ \A a, b \in 0 .. k : c[a] = c[b] => a = b
      /\ \A a \in 1 .. k : c[a] \in Items
  BY DEF NoTwice
<1>2. \A j \in 1 .. l : g[j] = IF j <= i THEN j ELSE IF j = i + 1 THEN 0 ELSE j - 1
  OBVIOUS
<1>3. \A j \in 0 .. l : d[j] = IF j <= i THEN c[j] ELSE IF j = i + 1 THEN e ELSE c[j - 1]
  BY DEF Longer
<1>5. d[0] = c[0]
  <2>1. 0 \in 0 .. l /\ 0 <= i
    BY <1>1
  <2> QED
    BY <1>3, <2>1
<1> HIDE DEF g, d
<1>6. \A j \in 1 .. l : \/ g[j] \in 1 .. k /\ d[j] = c[g[j]]
                        \/ g[j] = 0 /\ d[j] = e /\ e \in f
  BY <1>1, <1>2, <1>3
<1>7. \A a, b \in 1 .. l : a < b => g[a] # g[b] /\ (g[b] # 0 => g[a] < g[b])
  BY <1>1, <1>2
<1>8. /\ \A j \in q .. l : g[j] = 0 \/ g[j] > p
      /\ \A j \in 1 .. l : j < q => g[j] <= p
  BY <1>1, <1>2
<1>9. ASSUME NEW j \in p + 1 .. k PROVE \E a \in 1 .. l : g[a] = j
  <2>1. j + 1 \in 1 .. l /\ g[j + 1] = j
    BY <1>1, <1>2
  <2> QED
    BY <2>1
<1>10. f \ {e} \in SUBSET f /\ e \notin f \ {e}
  OBVIOUS
<1> HIDE DEF l
<1>11. Turned(c, k, p, f, d, l, q, f \ {e}, g, e)
  BY <1>1, <1>5, <1>6, <1>7, <1>8, <1>9, <1>10 DEF Turned
<1>12. Visits(C, E, Append(s, c[p]), f \ {e}, d, l, q)
  BY <1>11, Turn
<1> QED
  BY <1>12 DEF d, l

(* The pointers in the direction of a loop, and those against it.          *)
Ahead(mem, dir)  == IF dir = "next" THEN mem.next ELSE mem.prev
Behind(mem, dir) == IF dir = "next" THEN mem.prev ELSE mem.next

WalkMemory == [next : WalkMaps, prev : WalkMaps]

(* mem with the ring c of head, and the objects f alone in theirs.         *)
Threads(dir, mem, f, L, c, k) ==
  /\ mem \in WalkMemory
  /\ Hub(Ahead(mem, dir), Behind(mem, dir), L, c, k)
  /\ \A x \in f : x \in L /\ x # other /\ Ahead(mem, dir)[x] = x

(* The functions of list.h on both maps.                                   *)
LEMMA MapsAdded ==
  ASSUME NEW mem \in WalkMemory, NEW e \in WalkObjects, NEW a \in WalkObjects, NEW b \in WalkObjects,
         e # a, e # b
  PROVE  /\ __list_add(mem, e, a, b) \in WalkMemory
         /\ __list_add(mem, e, a, b).next = Between(mem.next, a, e, b)
         /\ __list_add(mem, e, a, b).prev = Between(mem.prev, b, e, a)
<1>1. mem.next \in WalkMaps /\ mem.prev \in WalkMaps
  BY DEF WalkMemory
<1>2. Between(mem.next, a, e, b) \in WalkMaps /\ Between(mem.prev, b, e, a) \in WalkMaps
  BY <1>1 DEF Between, WalkMaps
<1> DEFINE N == Between(mem.next, a, e, b)
           P == [mem.prev EXCEPT ![b] = e, ![e] = a]
<1>3. P = Between(mem.prev, b, e, a)
  BY <1>1 DEF Between, WalkMaps
<1>4. __list_add(mem, e, a, b) \in WalkMemory
  BY <1>1 DEF __list_add, WalkMemory, WalkMaps
<1>5. __list_add(mem, e, a, b).next = N
  BY <1>1 DEF __list_add, WalkMemory, WalkMaps, Between
<1>6. __list_add(mem, e, a, b).prev = P
  BY <1>1 DEF __list_add, WalkMemory, WalkMaps
<1> QED
  BY <1>3, <1>4, <1>5, <1>6

(* __list_del_entry on both maps.                                          *)
LEMMA MapsRemoved ==
  ASSUME NEW mem \in WalkMemory, NEW e \in WalkObjects,
         mem.next[e] \in WalkObjects, mem.prev[e] \in WalkObjects
  PROVE  /\ __list_del_entry(mem, e) \in WalkMemory
         /\ __list_del_entry(mem, e).next = Unlink(mem.next, mem.prev, e)
         /\ __list_del_entry(mem, e).prev = Unlink(mem.prev, mem.next, e)
<1>1. mem.next \in WalkMaps /\ mem.prev \in WalkMaps
  BY DEF WalkMemory
<1>2. Unlink(mem.next, mem.prev, e) \in WalkMaps /\ Unlink(mem.prev, mem.next, e) \in WalkMaps
  BY <1>1 DEF Unlink, WalkMaps
<1>3. __list_del_entry(mem, e) \in WalkMemory
  BY <1>1 DEF __list_del_entry, __list_del, WalkMemory, WalkMaps
<1>4. __list_del_entry(mem, e).next = Unlink(mem.next, mem.prev, e)
  BY <1>1 DEF __list_del_entry, __list_del, WalkMemory, WalkMaps, Unlink
<1>5. __list_del_entry(mem, e).prev = Unlink(mem.prev, mem.next, e)
  BY <1>1 DEF __list_del_entry, __list_del, WalkMemory, WalkMaps, Unlink
<1> QED
  BY <1>3, <1>4, <1>5

(* e is put behind x in one direction, before it in the other.             *)
LEMMA AddedBoth ==
  ASSUME NEW mem \in WalkMemory, NEW dir \in {"next", "prev"}, NEW e \in WalkObjects,
         NEW L \in SUBSET WalkObjects, e \notin L, NEW x \in L,
         Around(Ahead(mem, dir), Behind(mem, dir), L, e),
         NEW r \in {list_add(mem, e, x), list_add_tail(mem, e, x)}
  PROVE  /\ r \in WalkMemory
         /\ \E a \in {x, Behind(mem, dir)[x]} :
              /\ a \in L
              /\ Ahead(r, dir)  = Between(Ahead(mem, dir), a, e, Ahead(mem, dir)[a])
              /\ Behind(r, dir) = Between(Behind(mem, dir), Ahead(mem, dir)[a], e, a)
<1>1. /\ mem.next[x] \in L /\ mem.prev[x] \in L
      /\ mem.next[mem.prev[x]] = x /\ mem.prev[mem.next[x]] = x
  BY DEF Around, Ahead, Behind
<1>2. CASE r = list_add(mem, e, x)
  <2>1. r = __list_add(mem, e, x, mem.next[x])
    BY <1>2 DEF list_add
  <2>2. /\ r \in WalkMemory
        /\ r.next = Between(mem.next, x, e, mem.next[x])
        /\ r.prev = Between(mem.prev, mem.next[x], e, x)
    BY <1>1, <2>1, MapsAdded
  <2>3. CASE dir = "next"
    BY <1>1, <2>2, <2>3 DEF Ahead, Behind
  <2>4. CASE dir = "prev"
    BY <1>1, <2>2, <2>4 DEF Ahead, Behind
  <2> QED
    BY <2>3, <2>4
<1>3. CASE r = list_add_tail(mem, e, x)
  <2>1. r = __list_add(mem, e, mem.prev[x], x)
    BY <1>3 DEF list_add_tail
  <2>2. /\ r \in WalkMemory
        /\ r.next = Between(mem.next, mem.prev[x], e, x)
        /\ r.prev = Between(mem.prev, x, e, mem.prev[x])
    BY <1>1, <2>1, MapsAdded
  <2>3. CASE dir = "next"
    BY <1>1, <2>2, <2>3 DEF Ahead, Behind
  <2>4. CASE dir = "prev"
    BY <1>1, <2>2, <2>4 DEF Ahead, Behind
  <2> QED
    BY <2>3, <2>4
<1> QED
  BY <1>2, <1>3

(* An entry is taken out: the ring of head loses it, if it was there.      *)
Without(c, k, e, d, l) ==
  \/ (\A i \in 0 .. k : c[i] # e) /\ d = c /\ l = k
  \/ \E i \in 1 .. k : c[i] = e /\ d = Shorter(c, k, i) /\ l = k - 1

(* The ways to take out e.                                                 *)
Taken(mem, e, r) ==
  r \in {list_del(mem, e), list_del_init(mem, e), list_move_tail(mem, e, other)}

(* Whatever way an entry is taken out, the rings stay rings.               *)
LEMMA RemovalKeeps ==
  ASSUME NEW dir \in {"next", "prev"}, NEW mem, NEW f, NEW L, NEW c, NEW k,
         Threads(dir, mem, f, L, c, k), NEW e \in Items, e \in L, Ahead(mem, dir)[e] # e,
         NEW r, Taken(mem, e, r)
  PROVE  \E M, d, l : Threads(dir, r, f, M, d, l) /\ Without(c, k, e, d, l)
<1> DEFINE F == Ahead(mem, dir)
           G == Behind(mem, dir)
           u == __list_del_entry(mem, e)
           N == Ahead(u, dir)
           P == Behind(u, dir)
           K == L \ {e}
<1>1. /\ mem \in WalkMemory /\ Hub(F, G, L, c, k) /\ Around(F, G, L, head) /\ Circle(F, L, c, k)
      /\ \A x \in f : x \in L /\ x # other /\ F[x] = x
  BY DEF Threads, Hub
<1>2. /\ F \in WalkMaps /\ G \in WalkMaps /\ L \subseteq WalkObjects
      /\ \A x \in L : F[x] \in L /\ G[x] \in L /\ F[G[x]] = x /\ G[F[x]] = x
  BY <1>1 DEF Around
<1>3. e \in WalkObjects /\ e # head /\ e # other /\ head \in L /\ k \in Nat /\ c[0] = head /\ other \in L
  <2>1. k \in Nat /\ c \in [0 .. k -> L] /\ c[0] = head /\ other \in L
    BY <1>1 DEF Circle
  <2>2. 0 \in 0 .. k
    BY <2>1
  <2> QED
    BY <2>1, <2>2, WalkObjectsDistinct DEF WalkObjects
<1>4. u \in WalkMemory /\ N = Unlink(F, G, e) /\ P = Unlink(G, F, e)
  <2>1. mem.next[e] \in WalkObjects /\ mem.prev[e] \in WalkObjects
    BY <1>2 DEF Ahead, Behind
  <2> QED
    BY <1>1, <1>3, <2>1, MapsRemoved DEF Ahead, Behind
<1>5. Around(N, P, K, e)
  BY <1>1, <1>3, <1>4, Unlinked
<1>6. PICK d, l : Without(c, k, e, d, l) /\ Circle(N, K, d, l)
  <2>1. CASE \A i \in 0 .. k : c[i] # e
    <3>1. Circle(N, K, c, k)
      BY <1>1, <1>3, <1>4, <2>1, UnlinkedElsewhere
    <3> QED
      BY <2>1, <3>1 DEF Without
  <2>2. CASE \E i \in 0 .. k : c[i] = e
    <3>1. PICK i \in 1 .. k : c[i] = e
      BY <1>3, <2>2
    <3>2. Circle(N, K, Shorter(c, k, i), k - 1)
      BY <1>1, <1>4, <3>1, UnlinkedHere
    <3> QED
      BY <3>1, <3>2 DEF Without
  <2> QED
    BY <2>1, <2>2
<1>7. \A x \in f : x \in K /\ N[x] = x /\ x # e /\ x # other
  <2> SUFFICES ASSUME NEW x \in f PROVE x \in K /\ N[x] = x /\ x # e /\ x # other
    OBVIOUS
  <2>1. x \in L /\ F[x] = x /\ x # e /\ x # G[e] /\ x \in WalkObjects /\ x # other
    BY <1>1, <1>2
  <2> QED
    BY <1>2, <1>4, <2>1 DEF Unlink, WalkMaps
<1>8. K \subseteq WalkObjects /\ e \in WalkObjects \ K /\ other \in K
  BY <1>2, <1>3
<1>9. /\ N \in WalkMaps /\ P \in WalkMaps
      /\ \A x \in K : N[x] \in K /\ P[x] \in K /\ N[P[x]] = x
  BY <1>5 DEF Around
<1>10. Circle(N, K, d, l)
  BY <1>6
<1> HIDE DEF F, G, N, P, K, u
<1>11. CASE r = list_del(mem, e)
  <2>1. r \in WalkMemory /\ Ahead(r, dir) = [N EXCEPT ![e] = POISON] /\ Behind(r, dir) = [P EXCEPT ![e] = POISON]
    <3>1. r = [u EXCEPT !.next[e] = POISON, !.prev[e] = POISON]
      BY <1>11 DEF list_del, u
    <3>2. r = [next |-> [u.next EXCEPT ![e] = POISON], prev |-> [u.prev EXCEPT ![e] = POISON]]
      BY <1>4, <3>1 DEF WalkMemory
    <3>3. [u.next EXCEPT ![e] = POISON] \in WalkMaps /\ [u.prev EXCEPT ![e] = POISON] \in WalkMaps
      BY <1>4 DEF WalkMemory, WalkMaps
    <3> QED
      BY <3>2, <3>3 DEF WalkMemory, Ahead, Behind, N, P
  <2>2. Hub([N EXCEPT ![e] = POISON], [P EXCEPT ![e] = POISON], K, d, l)
    BY <1>5, <1>8, <1>10, Poisoned
  <2>3. \A x \in f : x \in K /\ x # other /\ Ahead(r, dir)[x] = x
    <3>1. \A x \in f : x \in WalkObjects
      BY <1>7, <1>8
    <3> QED
      BY <1>7, <1>9, <2>1, <3>1 DEF WalkMaps
  <2> QED
    BY <1>6, <2>1, <2>2, <2>3 DEF Threads
<1>12. CASE r = list_del_init(mem, e)
  <2>1. r \in WalkMemory /\ Ahead(r, dir) = [N EXCEPT ![e] = e] /\ Behind(r, dir) = [P EXCEPT ![e] = e]
    <3>1. r = [u EXCEPT !.next[e] = e, !.prev[e] = e]
      BY <1>12 DEF list_del_init, INIT_LIST_HEAD, u
    <3>2. r = [next |-> [u.next EXCEPT ![e] = e], prev |-> [u.prev EXCEPT ![e] = e]]
      BY <1>4, <3>1 DEF WalkMemory
    <3>3. [u.next EXCEPT ![e] = e] \in WalkMaps /\ [u.prev EXCEPT ![e] = e] \in WalkMaps
      BY <1>3, <1>4 DEF WalkMemory, WalkMaps
    <3> QED
      BY <3>2, <3>3 DEF WalkMemory, Ahead, Behind, N, P
  <2>2. Hub([N EXCEPT ![e] = e], [P EXCEPT ![e] = e], K \cup {e}, d, l)
    BY <1>5, <1>8, <1>10, Initialised
  <2>3. \A x \in f : x \in K \cup {e} /\ x # other /\ Ahead(r, dir)[x] = x
    <3>1. \A x \in f : x \in WalkObjects
      BY <1>7, <1>8
    <3> QED
      BY <1>7, <1>9, <2>1, <3>1 DEF WalkMaps
  <2> QED
    BY <1>6, <2>1, <2>2, <2>3 DEF Threads
<1>13. CASE r = list_move_tail(mem, e, other)
  <2>1. r = list_add_tail(u, e, other)
    BY <1>13 DEF list_move_tail, u
  <2>2. PICK a \in {other, P[other]} :
          /\ r \in WalkMemory /\ a \in K
          /\ Ahead(r, dir)  = Between(N, a, e, N[a])
          /\ Behind(r, dir) = Between(P, N[a], e, a)
    BY <1>4, <1>5, <1>8, <2>1, AddedBoth DEF N, P
  <2>3. \A i \in 0 .. l : d[i] # a
    <3> SUFFICES ASSUME NEW i \in 0 .. l, d[i] = a PROVE FALSE
      OBVIOUS
    <3>1. d[i] # other /\ N[d[i]] = d[Following(l, i)]
      BY <1>10 DEF Circle
    <3>2. Following(l, i) \in 0 .. l
      BY <1>10 DEF Circle, Following
    <3>3. d[Following(l, i)] # other
      BY <1>10, <3>2 DEF Circle
    <3> QED
      BY <1>8, <1>9, <2>2, <3>1, <3>3
  <2>4. Around(Ahead(r, dir), Behind(r, dir), K \cup {e}, head)
    BY <1>5, <1>8, <2>2, Inserted
  <2>5. Circle(Between(N, a, e, N[a]), K \cup {e}, d, l)
    BY <1>8, <1>9, <1>10, <2>2, <2>3, InsertedElsewhere
  <2>6. ASSUME NEW x \in f PROVE x \in K \cup {e} /\ x # other /\ Ahead(r, dir)[x] = x
    <3>1. x \in K /\ N[x] = x /\ x # e /\ x # other /\ x \in WalkObjects
      BY <1>7, <1>8
    <3>2. x # a
      BY <1>8, <1>9, <2>2, <3>1
    <3>3. a \in WalkObjects
      BY <1>8, <2>2
    <3> QED
      BY <1>8, <1>9, <2>2, <3>1, <3>2, <3>3 DEF Between, WalkMaps
  <2> QED
    BY <1>6, <2>2, <2>4, <2>5, <2>6 DEF Threads, Hub
<1> QED
  BY <1>11, <1>12, <1>13 DEF Taken

(* e is added before or after x.                                           *)
Added(mem, e, x, r) == r \in {list_add(mem, e, x), list_add_tail(mem, e, x)}

(* A new entry is added next to the p-th of the ring.                      *)
LEMMA AddKeeps ==
  ASSUME NEW dir \in {"next", "prev"}, NEW mem, NEW f, NEW L, NEW c, NEW k,
         Threads(dir, mem, f, L, c, k), NEW e \in f, \A i \in 0 .. k : c[i] # e,
         NEW p \in 1 .. k, NEW r, Added(mem, e, c[p], r)
  PROVE  \E i \in {p - 1, p} : Threads(dir, r, f \ {e}, L, Longer(c, k, i, e), k + 1)
<1> DEFINE F == Ahead(mem, dir)
           G == Behind(mem, dir)
           K == L \ {e}
<1>1. /\ mem \in WalkMemory /\ Hub(F, G, L, c, k) /\ Circle(F, L, c, k)
      /\ \A x \in f : x \in L /\ x # other /\ F[x] = x
  BY DEF Threads, Hub
<1>2. /\ F \in WalkMaps /\ G \in WalkMaps /\ L \subseteq WalkObjects
      /\ \A x \in L : F[x] \in L /\ G[x] \in L /\ F[G[x]] = x /\ G[F[x]] = x
  BY <1>1 DEF Hub, Around
<1>3. e \in L /\ F[e] = e /\ e # other /\ e \in WalkObjects \ K /\ K \subseteq WalkObjects /\ K \cup {e} = L
  BY <1>1, <1>2
<1>4. Around(F, G, K, e) /\ Circle(F, K, c, k)
  BY <1>1, <1>3, Apart
<1>5. k \in Nat /\ p \in 0 .. k /\ p - 1 \in 0 .. k /\ c[p] \in K /\ c[p - 1] \in K
  <2>1. k \in Nat /\ c \in [0 .. k -> K]
    BY <1>4 DEF Circle
  <2>2. p \in 0 .. k /\ p - 1 \in 0 .. k
    BY <2>1
  <2> QED
    BY <2>1, <2>2
<1>6. G[c[p]] = c[p - 1]
  <2>1. Following(k, p - 1) = p
    BY <1>5 DEF Following
  <2>2. G[c[Following(k, p - 1)]] = c[p - 1]
    BY <1>1, <1>5, Backwards DEF Hub
  <2> QED
    BY <2>1, <2>2
<1> HIDE DEF F, G, K
<1>7. PICK a \in {c[p], G[c[p]]} :
        /\ r \in WalkMemory /\ a \in K
        /\ Ahead(r, dir)  = Between(F, a, e, F[a])
        /\ Behind(r, dir) = Between(G, F[a], e, a)
  BY <1>1, <1>3, <1>4, <1>5, AddedBoth DEF Added, F, G
<1>8. PICK i \in {p - 1, p} : a = c[i] /\ i \in 0 .. k
  BY <1>5, <1>6
<1>9. Around(Ahead(r, dir), Behind(r, dir), L, head)
  BY <1>3, <1>4, <1>7, Inserted
<1>10. Circle(Between(F, c[i], e, F[c[i]]), K \cup {e}, Longer(c, k, i, e), k + 1)
  BY <1>2, <1>3, <1>4, <1>8, InsertedHere
<1>11. ASSUME NEW x \in f \ {e} PROVE x \in L /\ x # other /\ Ahead(r, dir)[x] = x
  <2>1. x \in L /\ F[x] = x /\ x # e /\ x # other /\ x \in WalkObjects
    BY <1>1, <1>2
  <2>2. x # a
    <3> SUFFICES ASSUME x = c[i] PROVE FALSE
      BY <1>8
    <3>1. F[c[i]] = c[Following(k, i)] /\ Following(k, i) \in 0 .. k
      BY <1>4, <1>8 DEF Circle, Following
    <3>2. Following(k, i) = i
      BY <1>4, <1>8, <2>1, <3>1 DEF Circle
    <3>3. i = 0 /\ k = 0
      BY <1>5, <1>8, <3>2 DEF Following
    <3> QED
      BY <1>5, <3>3
  <2>3. a \in WalkObjects
    BY <1>3, <1>7
  <2> QED
    BY <1>2, <1>3, <1>7, <2>1, <2>2, <2>3 DEF Between, WalkMaps
<1> QED
  BY <1>3, <1>7, <1>8, <1>9, <1>10, <1>11 DEF Threads, Hub

(* The loop, in the direction dir, at the p-th entry ps of the ring c; nx  *)
(* is the object after it.                                                 *)
Walking(dir, C, E, mem, s, f, ps, nx, L, c, k, p) ==
  /\ Threads(dir, mem, f, L, c, k)
  /\ Visits(C, E, s, f, c, k, p)
  /\ ps = At(c, k, p)
  /\ nx = Ahead(mem, dir)[ps]

(* The ring of head in a memory.                                           *)
LEMMA Ring ==
  ASSUME NEW dir, NEW mem, NEW f, NEW L, NEW c, NEW k, Threads(dir, mem, f, L, c, k)
  PROVE  /\ NoTwice(c, k) /\ k \in Nat /\ c[0] = head /\ head \in L /\ L \subseteq WalkObjects
         /\ \A i \in 0 .. k : /\ c[i] \in L /\ Following(k, i) \in 0 .. k
                              /\ Ahead(mem, dir)[c[i]] = c[Following(k, i)]
<1>1. /\ k \in Nat /\ c \in [0 .. k -> L] /\ c[0] = head
      /\ \A i, j \in 0 .. k : c[i] = c[j] => i = j
      /\ \A i \in 0 .. k : Ahead(mem, dir)[c[i]] = c[Following(k, i)]
      /\ \A i \in 0 .. k : c[i] # other
      /\ L \subseteq WalkObjects
  BY DEF Threads, Hub, Around, Circle
<1>2. \A i \in 0 .. k : c[i] \in L /\ Following(k, i) \in 0 .. k
  BY <1>1 DEF Following
<1>3. 0 \in 0 .. k /\ head \in L
  BY <1>1
<1>4. \A i \in 1 .. k : c[i] \in Items
  <2> SUFFICES ASSUME NEW i \in 1 .. k PROVE c[i] \in Items
    OBVIOUS
  <2>1. i \in 0 .. k /\ i # 0
    BY <1>1
  <2> QED
    BY <1>1, <1>3, <2>1 DEF WalkObjects
<1> QED
  BY <1>1, <1>2, <1>3, <1>4 DEF NoTwice

(* What the loop has before a turn.                                        *)
LEMMA Midway ==
  ASSUME NEW dir, NEW C, NEW E, NEW mem, NEW s, NEW f, NEW ps, NEW nx,
         NEW L, NEW c, NEW k, NEW p, Walking(dir, C, E, mem, s, f, ps, nx, L, c, k, p), ps # head
  PROVE  /\ p \in 1 .. k /\ ps = c[p]
         /\ nx = c[Following(k, p)] /\ nx = At(c, k, p + 1) /\ nx \in L
         /\ \A i \in 0 .. k : (c[i] = ps => i = p) /\ (c[i] = nx => i = Following(k, p))
<1>1. /\ NoTwice(c, k) /\ k \in Nat /\ c[0] = head
      /\ \A i \in 0 .. k : /\ c[i] \in L /\ Following(k, i) \in 0 .. k
                           /\ Ahead(mem, dir)[c[i]] = c[Following(k, i)]
  BY Ring DEF Walking
<1>2. p \in 1 .. k + 1 /\ ps = At(c, k, p) /\ nx = Ahead(mem, dir)[ps]
  BY DEF Walking, Visits
<1>3. p # k + 1
  BY <1>1, <1>2 DEF At
<1>4. p \in 1 .. k /\ p \in 0 .. k /\ ps = c[p]
  BY <1>1, <1>2, <1>3 DEF At
<1>5. nx = c[Following(k, p)] /\ nx \in L
  BY <1>1, <1>2, <1>4
<1>6. Following(k, p) = IF p + 1 = k + 1 THEN 0 ELSE p + 1
  BY <1>1, <1>4 DEF Following
<1>7. \A i, j \in 0 .. k : c[i] = c[j] => i = j
  BY <1>1 DEF NoTwice
<1> QED
  BY <1>1, <1>4, <1>5, <1>6, <1>7 DEF At

(* The entry after one of the ring.                                        *)
LEMMA AtFollowing ==
  ASSUME NEW c, NEW k \in Nat, NEW i \in 0 .. k
  PROVE  c[Following(k, i)] = At(c, k, i + 1)
BY DEF Following, At

(* The body leaves the list alone.                                         *)
LEMMA GoingOn ==
  ASSUME NEW dir, NEW C, NEW E, NEW mem, NEW s, NEW f, NEW ps, NEW nx,
         NEW L, NEW c, NEW k, NEW p, Walking(dir, C, E, mem, s, f, ps, nx, L, c, k, p), ps # head,
         \A e \in E : \E a \in DOMAIN C : e = C[a]
  PROVE  Walking(dir, C, E, mem, Append(s, ps), f, nx, Ahead(mem, dir)[nx], L, c, k, p + 1)
<1>1. p \in 1 .. k /\ ps = c[p] /\ nx = At(c, k, p + 1)
  BY Midway
<1>2. NoTwice(c, k) /\ Threads(dir, mem, f, L, c, k) /\ Visits(C, E, s, f, c, k, p)
  BY Ring DEF Walking
<1>3. Visits(C, E, Append(s, c[p]), f, c, k, p + 1)
  BY <1>1, <1>2, TurnSame
<1> QED
  BY <1>1, <1>2, <1>3 DEF Walking

(* A loop goes on from the object it has saved, or from its cursor.        *)
GoesOn(dir, r, ps, nx, to) == to \in {nx, Ahead(r, dir)[ps]}

(* The body takes out an entry, but not the one the loop goes on from.     *)
LEMMA GoingWithout ==
  ASSUME NEW dir \in {"next", "prev"}, NEW C, NEW E, NEW mem, NEW s, NEW f, NEW ps, NEW nx,
         NEW L, NEW c, NEW k, NEW p, Walking(dir, C, E, mem, s, f, ps, nx, L, c, k, p), ps # head,
         \A x \in E : \E a \in DOMAIN C : x = C[a],
         NEW e \in Items, e \in L, Ahead(mem, dir)[e] # e,
         NEW r, Taken(mem, e, r), NEW to, GoesOn(dir, r, ps, nx, to),
         (e # nx /\ to = nx) \/ (e # ps /\ to = Ahead(r, dir)[ps])
  PROVE  \E M, d, l, q :
           Walking(dir, C, E, r, Append(s, ps), f, to, Ahead(r, dir)[to], M, d, l, q)
<1>1. /\ p \in 1 .. k /\ p \in 0 .. k /\ k \in Nat /\ ps = c[p] /\ nx = c[Following(k, p)]
      /\ nx = At(c, k, p + 1)
      /\ \A i \in 0 .. k : (c[i] = ps => i = p) /\ (c[i] = nx => i = Following(k, p))
  BY Midway, Ring DEF Walking
<1>2. NoTwice(c, k) /\ Threads(dir, mem, f, L, c, k) /\ Visits(C, E, s, f, c, k, p)
  BY Ring DEF Walking
<1>3. PICK M, d, l : Threads(dir, r, f, M, d, l) /\ Without(c, k, e, d, l)
  BY <1>2, RemovalKeeps
<1>4. /\ l \in Nat
      /\ \A i \in 0 .. l : Following(l, i) \in 0 .. l /\ Ahead(r, dir)[d[i]] = d[Following(l, i)]
  BY <1>3, Ring
<1>5. CASE (\A i \in 0 .. k : c[i] # e) /\ d = c /\ l = k
  <2>1. to = At(d, l, p + 1)
    <3>1. Ahead(r, dir)[c[p]] = c[Following(k, p)]
      BY <1>1, <1>4, <1>5
    <3> QED
      BY <1>1, <1>5, <3>1
  <2>2. Visits(C, E, Append(s, ps), f, d, l, p + 1)
    BY <1>1, <1>2, <1>5, TurnSame
  <2> QED
    BY <1>3, <2>1, <2>2 DEF Walking
<1>6. CASE \E i \in 1 .. k : c[i] = e /\ d = Shorter(c, k, i) /\ l = k - 1
  <2>1. PICK i \in 1 .. k : c[i] = e /\ d = Shorter(c, k, i) /\ l = k - 1
    BY <1>6
  <2> DEFINE q == IF i <= p THEN p ELSE p + 1
  <2>2. Visits(C, E, Append(s, ps), f, d, l, q)
    BY <1>1, <1>2, <2>1, TurnShorter
  <2>3. \A j \in 0 .. l : d[j] = IF j < i THEN c[j] ELSE c[j + 1]
    BY <2>1 DEF Shorter
  <2>4. i \in 0 .. k
    BY <1>1
  <2>5. CASE e # nx /\ to = nx
    <3>1. i # Following(k, p) /\ to = At(c, k, p + 1)
      BY <1>1, <2>1, <2>5
    <3>2. CASE p = k
      <4>1. q = l + 1 /\ 0 \in 0 .. l /\ 0 < i
        BY <1>1, <1>4, <2>1, <3>2
      <4>2. d[0] = c[0]
        BY <2>3, <4>1
      <4> QED
        BY <1>3, <2>2, <3>1, <3>2, <4>1, <4>2 DEF Walking, At
    <3>3. CASE p # k
      <4>1. i # p + 1 /\ to = c[p + 1] /\ q # l + 1 /\ q \in 0 .. l
        BY <1>1, <2>1, <3>1, <3>3 DEF Following, At
      <4>2. d[q] = c[p + 1]
        BY <1>1, <2>3, <4>1
      <4> QED
        BY <1>3, <2>2, <4>1, <4>2 DEF Walking, At
    <3> QED
      BY <3>2, <3>3
  <2>6. CASE e # ps /\ to = Ahead(r, dir)[ps]
    <3> DEFINE o == IF i < p THEN p - 1 ELSE p
    <3>1. i # p /\ o \in 0 .. l /\ o + 1 = q
      BY <1>1, <2>1, <2>6
    <3>2. d[o] = ps
      BY <1>1, <2>3, <3>1
    <3>3. to = d[Following(l, o)]
      BY <1>4, <2>6, <3>1, <3>2
    <3>4. d[Following(l, o)] = At(d, l, q)
      BY <1>4, <3>1, AtFollowing
    <3> QED
      BY <1>3, <2>2, <3>3, <3>4 DEF Walking
  <2> QED
    BY <2>5, <2>6
<1> QED
  BY <1>3, <1>5, <1>6 DEF Without

(* The body adds an entry next to the cursor.                              *)
LEMMA GoingWith ==
  ASSUME NEW dir \in {"next", "prev"}, NEW C, NEW E, NEW mem, NEW s, NEW f, NEW ps, NEW nx,
         NEW L, NEW c, NEW k, NEW p, Walking(dir, C, E, mem, s, f, ps, nx, L, c, k, p), ps # head,
         \A x \in E : \E a \in DOMAIN C : x = C[a],
         NEW e \in f, NEW r, Added(mem, e, ps, r), NEW to, GoesOn(dir, r, ps, nx, to)
  PROVE  \E d, l, q :
           Walking(dir, C, E, r, Append(s, ps), f \ {e}, to, Ahead(r, dir)[to], L, d, l, q)
<1>1. /\ p \in 1 .. k /\ p \in 0 .. k /\ k \in Nat /\ ps = c[p]
      /\ nx = At(c, k, p + 1)
  BY Midway, Ring DEF Walking
<1>2. NoTwice(c, k) /\ Threads(dir, mem, f, L, c, k) /\ Visits(C, E, s, f, c, k, p)
  BY Ring DEF Walking
<1>3. \A i \in 0 .. k : c[i] # e
  BY <1>2 DEF Visits
<1>4. PICK i \in {p - 1, p} : Threads(dir, r, f \ {e}, L, Longer(c, k, i, e), k + 1)
  <2>1. Added(mem, e, c[p], r)
    BY <1>1
  <2>2. p \in 1 .. k /\ Threads(dir, mem, f, L, c, k) /\ e \in f /\ dir \in {"next", "prev"}
    BY <1>1, <1>2
  <2> QED
    BY ONLY <1>3, <2>1, <2>2, AddKeeps
<1> DEFINE l == k + 1
           d == Longer(c, k, i, e)
<1>5. /\ l \in Nat
      /\ \A j \in 0 .. l : Following(l, j) \in 0 .. l /\ Ahead(r, dir)[d[j]] = d[Following(l, j)]
  BY <1>4, Ring
<1>6. \A j \in 0 .. l : d[j] = IF j <= i THEN c[j] ELSE IF j = i + 1 THEN e ELSE c[j - 1]
  BY DEF Longer
<1>7. \A q \in {p + 1, p + 2} : (i # p => q = p + 2) => Visits(C, E, Append(s, ps), f \ {e}, d, l, q)
  BY <1>1, <1>2, TurnLonger
<1> HIDE DEF d
<1>8. CASE to = nx
  <2>1. Visits(C, E, Append(s, ps), f \ {e}, d, l, p + 2)
    BY <1>1, <1>7
  <2>2. At(d, l, p + 2) = nx
    <3>1. CASE p = k
      <4>1. 0 \in 0 .. l /\ 0 <= i /\ p + 2 = l + 1 /\ p + 1 = k + 1
        BY <1>1, <3>1
      <4>2. d[0] = c[0]
        BY <1>6, <4>1
      <4> QED
        BY <1>1, <4>1, <4>2 DEF At
    <3>2. CASE p # k
      <4>1. p + 2 \in 0 .. l /\ ~(p + 2 <= i) /\ p + 2 # i + 1 /\ p + 2 - 1 = p + 1 /\ p + 2 # l + 1
        BY <1>1, <3>2
      <4>2. d[p + 2] = c[p + 1] /\ p + 1 # k + 1
        BY <1>1, <1>6, <3>2, <4>1
      <4> QED
        BY <1>1, <4>1, <4>2 DEF At
    <3> QED
      BY <3>1, <3>2
  <2> QED
    BY <1>4, <1>8, <2>1, <2>2 DEF Walking, d
<1>9. CASE to = Ahead(r, dir)[ps]
  <2> DEFINE o == IF i = p THEN p ELSE p + 1
  <2>1. o \in 0 .. l /\ o + 1 \in {p + 1, p + 2} /\ (i # p => o + 1 = p + 2)
    BY <1>1
  <2>2. d[o] = ps
    BY <1>1, <1>6, <2>1
  <2>3. to = d[Following(l, o)]
    BY <1>5, <1>9, <2>1, <2>2
  <2>4. d[Following(l, o)] = At(d, l, o + 1)
    BY <1>5, <2>1, AtFollowing
  <2>5. Visits(C, E, Append(s, ps), f \ {e}, d, l, o + 1)
    BY <1>7, <2>1
  <2> QED
    BY <1>4, <2>3, <2>4, <2>5 DEF Walking, d
<1> QED
  BY <1>8, <1>9 DEF GoesOn

(* What the loop was given.                                                *)
Route ==
  /\ loop.macro \in Macros
  /\ Course \in Seq(Items)
  /\ \E q \in 1 .. Len(Course) + 1 : Expected = SubSeq(Course, q, Len(Course))

LoopInv ==
  /\ Route
  /\ \E L, c, k, p : Walking(loop.macro.dir, Course, ToSet(Expected), wm, seen, fresh, pos, n, L, c, k, p)

(* The entries the loop was to visit are a part of its course.             *)
LEMMA ExpectedEntries ==
  ASSUME Route
  PROVE  /\ \E q \in 1 .. Len(Course) + 1 :
              \A a \in DOMAIN Expected : a + q - 1 \in DOMAIN Course /\ Expected[a] = Course[a + q - 1]
         /\ DOMAIN Course \subseteq Int /\ DOMAIN Expected \subseteq Int
         /\ \A x \in ToSet(Expected) : \E a \in DOMAIN Course : x = Course[a]
<1>1. Course \in Seq(Items) /\ Len(Course) \in Nat /\ DOMAIN Course = 1 .. Len(Course)
  BY DEF Route
<1>2. PICK q \in 1 .. Len(Course) + 1 : Expected = SubSeq(Course, q, Len(Course))
  BY DEF Route
<1>3. \A a \in DOMAIN Expected : a \in Int /\ a + q - 1 \in DOMAIN Course /\ Expected[a] = Course[a + q - 1]
  BY <1>1, <1>2
<1>4. ASSUME NEW x \in ToSet(Expected) PROVE \E a \in DOMAIN Course : x = Course[a]
  <2>1. PICK a \in DOMAIN Expected : x = Expected[a]
    BY DEF ToSet
  <2> QED
    BY <1>3, <2>1
<1> QED
  BY <1>1, <1>3, <1>4

(* An entry that is linked to others may be taken out of its ring.         *)
LEMMA Removable ==
  ASSUME NEW dir \in {"next", "prev"}, NEW mem, NEW f, NEW L, NEW c, NEW k,
         Threads(dir, mem, f, L, c, k), NEW e \in Items, Linked(mem, e), mem.next[e] # e
  PROVE  e \in L /\ Ahead(mem, dir)[e] # e
<1>1. e \in WalkObjects /\ e # head
  BY WalkObjectsDistinct DEF WalkObjects
<1>2. e \in L
  BY <1>1 DEF Threads, Hub, Around, Linked, Ahead, Behind
<1>3. mem.prev[e] # e
  BY DEF Linked
<1> QED
  BY <1>2, <1>3 DEF Ahead

(* Every turn of the loop keeps the invariant, one case per action.        *)
LEMMA LoopGoesOn == LoopInv /\ [WalkNext]_walk_vars => LoopInv'
<1> SUFFICES ASSUME LoopInv, [WalkNext]_walk_vars PROVE LoopInv'
  OBVIOUS
<1>1. CASE UNCHANGED walk_vars
  BY <1>1 DEF LoopInv, Route, Course, Expected, walk_vars
<1>2. CASE UNCHANGED <<loop, orig>> /\ pos # head /\ ~UNCHANGED walk_vars
  <2>1. PICK dir, C, E, L, c, k, p :
          /\ dir = loop.macro.dir /\ C = Course /\ E = ToSet(Expected)
          /\ Walking(dir, C, E, wm, seen, fresh, pos, n, L, c, k, p)
    BY DEF LoopInv
  <2>2. /\ dir \in {"next", "prev"} /\ loop.macro.safe \in BOOLEAN
        /\ \A x \in E : \E a \in DOMAIN C : x = C[a]
    BY <2>1, ExpectedEntries DEF LoopInv, Route, Macros
  <2>3. Route' /\ dir = loop.macro.dir' /\ C = Course' /\ E = ToSet(Expected)'
    BY <1>2, <2>1 DEF LoopInv, Route, Course, Expected
  <2>4. SUFFICES \E M, d, l, q : Walking(dir, C, E, wm', seen', fresh', pos', n', M, d, l, q)
    BY <2>3 DEF LoopInv
  <2>5. \A mem, x : Step(mem, x) = Ahead(mem, dir)[x]
    BY <2>1, <2>2 DEF Step, Ahead
  <2>6. Threads(dir, wm, fresh, L, c, k)
    BY <2>1 DEF Walking
  <2>7. ASSUME NEW mem, NEW next, Advance(mem, next)
        PROVE  /\ wm' = mem /\ seen' = Append(seen, pos)
               /\ pos' = IF loop.macro.safe THEN next ELSE Ahead(mem, dir)[pos]
               /\ n' = Ahead(mem, dir)[pos']
    BY <2>5, <2>7 DEF Advance
  <2>8. n = Ahead(wm, dir)[pos]
    BY <2>1 DEF Walking
  <2>9. CASE Keep
    <3>1. Advance(wm, n) /\ fresh' = fresh
      BY <2>9 DEF Keep
    <3>2. wm' = wm /\ seen' = Append(seen, pos) /\ pos' = n /\ n' = Ahead(wm, dir)[n]
      BY <2>7, <2>8, <3>1
    <3>3. Walking(dir, C, E, wm, Append(seen, pos), fresh, n, Ahead(wm, dir)[n], L, c, k, p + 1)
      BY <1>2, <2>1, <2>2, GoingOn
    <3> QED
      BY <3>1, <3>2, <3>3
  <2>10. CASE RemoveEntry
    <3>1. PICK e, mem :
            /\ e \in Items /\ mem \in Removals(e) /\ InList(e) /\ e # (IF loop.macro.safe THEN n ELSE pos)
            /\ Advance(mem, n) /\ fresh' = fresh
      BY <2>10 DEF RemoveEntry
    <3>2. e \in L /\ Ahead(wm, dir)[e] # e
      BY <2>2, <2>6, <3>1, Removable DEF InList
    <3>3. /\ wm' = mem /\ seen' = Append(seen, pos) /\ n' = Ahead(mem, dir)[pos']
          /\ (e # n /\ pos' = n) \/ (e # pos /\ pos' = Ahead(mem, dir)[pos])
      BY <2>2, <2>7, <3>1
    <3>4. Taken(wm, e, mem) /\ GoesOn(dir, mem, pos, n, pos')
      BY <3>1, <3>3 DEF Removals, Taken, GoesOn
    <3>5. \E M, d, l, q :
            Walking(dir, C, E, mem, Append(seen, pos), fresh, pos', Ahead(mem, dir)[pos'], M, d, l, q)
      <4>1. /\ pos # head /\ dir \in {"next", "prev"} /\ e \in Items /\ e \in L /\ Ahead(wm, dir)[e] # e
            /\ (e # n /\ pos' = n) \/ (e # pos /\ pos' = Ahead(mem, dir)[pos])
        BY <1>2, <2>2, <3>1, <3>2, <3>3
      <4>2. Walking(dir, C, E, wm, seen, fresh, pos, n, L, c, k, p)
        BY <2>1
      <4>3. \A x \in E : \E a \in DOMAIN C : x = C[a]
        BY <2>2
      <4> QED
        BY ONLY <3>4, <4>1, <4>2, <4>3, GoingWithout
    <3> QED
      BY <3>1, <3>3, <3>5
  <2>11. CASE RemoveNext
    <3>1. PICK mem \in Removals(n) :
            /\ loop.macro.safe /\ loop.macro.dir = "next" /\ head # n
            /\ Advance(mem, mem.next[pos]) /\ fresh' = fresh
      BY <2>11 DEF RemoveNext
    <3>2. /\ p \in 1 .. k /\ pos = c[p] /\ n = c[Following(k, p)] /\ n \in L
          /\ c[0] = head /\ k \in Nat /\ L \subseteq WalkObjects
          /\ \A i \in 0 .. k : Following(k, i) \in 0 .. k /\ Ahead(wm, dir)[c[i]] = c[Following(k, i)]
          /\ \A i, j \in 0 .. k : c[i] = c[j] => i = j
          /\ \A i \in 1 .. k : c[i] \in Items
      BY <1>2, <2>1, <2>6, Midway, Ring DEF NoTwice
    <3>3. Following(k, p) = p + 1 /\ p + 1 \in 1 .. k /\ p + 1 \in 0 .. k
      BY <3>1, <3>2 DEF Following
    <3>4. n \in Items /\ n # pos /\ Ahead(wm, dir)[n] # n
      <4>1. Following(k, p + 1) # p + 1
        BY <3>2, <3>3 DEF Following
      <4> QED
        BY <3>2, <3>3, <4>1
    <3>5. /\ wm' = mem /\ seen' = Append(seen, pos) /\ n' = Ahead(mem, dir)[pos']
          /\ pos' = Ahead(mem, dir)[pos]
      <4>1. mem.next[pos] = Ahead(mem, dir)[pos]
        BY <2>1, <3>1 DEF Ahead
      <4> QED
        BY <2>7, <3>1, <4>1
    <3>6. Taken(wm, n, mem) /\ GoesOn(dir, mem, pos, n, pos')
      BY <3>1, <3>5 DEF Removals, Taken, GoesOn
    <3>7. \E M, d, l, q :
            Walking(dir, C, E, mem, Append(seen, pos), fresh, pos', Ahead(mem, dir)[pos'], M, d, l, q)
      <4>1. /\ pos # head /\ dir \in {"next", "prev"} /\ n \in Items /\ n \in L /\ Ahead(wm, dir)[n] # n
            /\ (n # n /\ pos' = n) \/ (n # pos /\ pos' = Ahead(mem, dir)[pos])
        BY <1>2, <2>2, <3>2, <3>4, <3>5
      <4>2. Walking(dir, C, E, wm, seen, fresh, pos, n, L, c, k, p)
        BY <2>1
      <4>3. \A x \in E : \E a \in DOMAIN C : x = C[a]
        BY <2>2
      <4> QED
        BY ONLY <3>6, <4>1, <4>2, <4>3, GoingWithout
    <3> QED
      BY <3>1, <3>5, <3>7
  <2>12. CASE AddEntry
    <3>1. PICK e, mem :
            /\ e \in fresh /\ mem \in {list_add(wm, e, pos), list_add_tail(wm, e, pos)}
            /\ Advance(mem, n) /\ fresh' = fresh \ {e}
      BY <2>12 DEF AddEntry
    <3>2. /\ wm' = mem /\ seen' = Append(seen, pos) /\ n' = Ahead(mem, dir)[pos']
          /\ pos' \in {n, Ahead(mem, dir)[pos]}
      BY <2>2, <2>7, <3>1
    <3>3. Added(wm, e, pos, mem) /\ GoesOn(dir, mem, pos, n, pos')
      BY <3>1, <3>2 DEF Added, GoesOn
    <3>4. \E d, l, q :
            Walking(dir, C, E, mem, Append(seen, pos), fresh \ {e}, pos', Ahead(mem, dir)[pos'], L, d, l, q)
      <4>1. pos # head /\ e \in fresh /\ dir \in {"next", "prev"}
        BY <1>2, <2>2, <3>1
      <4>2. Walking(dir, C, E, wm, seen, fresh, pos, n, L, c, k, p)
        BY <2>1
      <4>3. \A x \in E : \E a \in DOMAIN C : x = C[a]
        BY <2>2
      <4> QED
        BY ONLY <3>3, <4>1, <4>2, <4>3, GoingWith
    <3> QED
      BY <3>1, <3>2, <3>4
  <2> QED
    BY <1>2, <2>9, <2>10, <2>11, <2>12 DEF WalkNext, WalkStopped
<1>3. WalkNext => UNCHANGED walk_vars \/ (UNCHANGED <<loop, orig>> /\ pos # head)
  BY DEF WalkNext, Keep, RemoveEntry, RemoveNext, AddEntry, WalkStopped, Advance
<1> QED
  BY <1>1, <1>2, <1>3

(* The objects of a ring are in the list of head, and no others are.       *)
LEMMA RingIsLoop ==
  ASSUME LoopInv, NEW L, NEW c, NEW k,
         Threads(loop.macro.dir, wm, fresh, L, c, k)
  PROVE  \A x \in WalkObjects : InLoop(x) <=> \E i \in 0 .. k : x = c[i]
<1> DEFINE F == Ahead(wm, loop.macro.dir)
           G == Behind(wm, loop.macro.dir)
<1>1. \A x : {wm.next[x], wm.prev[x]} = {F[x], G[x]}
  BY DEF Ahead, Behind
<1>2. /\ NoTwice(c, k) /\ k \in Nat /\ c[0] = head /\ L \subseteq WalkObjects
      /\ \A i \in 0 .. k : c[i] \in L /\ Following(k, i) \in 0 .. k /\ F[c[i]] = c[Following(k, i)]
  BY Ring
<1>3. \A i \in 0 .. k : \E j \in 0 .. k : G[c[i]] = c[j]
  <2>1. Around(F, G, L, head) /\ Circle(F, L, c, k)
    BY DEF Threads, Hub
  <2>2. \A i \in 0 .. k : \E j \in 0 .. k : Following(k, j) = i /\ G[c[Following(k, j)]] = c[j]
    BY <2>1, Backwards
  <2> QED
    BY <2>2
<1> HIDE DEF F, G
<1>4. ASSUME NEW S \in SUBSET WalkObjects, head \in S,
             \A y \in S : {wm.next[y], wm.prev[y]} \cap WalkObjects \subseteq S
      PROVE  \A i \in 0 .. k : c[i] \in S
  <2> DEFINE T == {i \in Nat : i <= k => c[i] \in S}
  <2>1. 0 \in T
    BY <1>2, <1>4
  <2>2. ASSUME NEW i \in Nat, i \in T PROVE i + 1 \in T
    <3> SUFFICES ASSUME i + 1 <= k PROVE c[i + 1] \in S
      OBVIOUS
    <3>1. i \in 0 .. k /\ i + 1 \in 0 .. k /\ Following(k, i) = i + 1 /\ c[i] \in S
      BY <1>2, <2>2 DEF Following
    <3>2. F[c[i]] = c[i + 1] /\ c[i + 1] \in WalkObjects
      BY <1>2, <3>1
    <3> QED
      BY <1>1, <1>4, <3>1, <3>2
  <2> HIDE DEF T
  <2>3. \A i \in Nat : i \in T
    BY <2>1, <2>2, InductionOnSet
  <2> QED
    BY <1>2, <2>3 DEF T
<1>5. ASSUME NEW x \in WalkObjects, NEW i \in 0 .. k, x = c[i] PROVE InLoop(x)
  BY <1>4, <1>5 DEF InLoop
<1>6. ASSUME NEW x \in WalkObjects, InLoop(x) PROVE \E i \in 0 .. k : x = c[i]
  <2> DEFINE S == {c[i] : i \in 0 .. k}
  <2>1. S \in SUBSET WalkObjects
    BY <1>2
  <2>2. head \in S
    <3>1. 0 \in 0 .. k
      BY <1>2
    <3> QED
      BY <1>2, <3>1
  <2>3. \A y \in S : F[y] \in S /\ G[y] \in S
    BY <1>2, <1>3
  <2>4. \A y \in S : {wm.next[y], wm.prev[y]} \cap WalkObjects \subseteq S
    <3> HIDE DEF S
    <3>1. \A y \in S : {wm.next[y], wm.prev[y]} = {F[y], G[y]}
      BY <1>1, <2>1
    <3> QED
      BY <2>3, <3>1
  <2>5. x \in S
    <3> HIDE DEF S
    <3> QED
      BY <1>6, <2>1, <2>2, <2>4 DEF InLoop
  <2> QED
    BY <2>5
<1> QED
  BY <1>5, <1>6

(* The invariant says that the cursor, and what is saved, are in the list. *)
LEMMA LoopStays == LoopInv => StaysInLoop
<1> SUFFICES ASSUME LoopInv PROVE StaysInLoop
  OBVIOUS
<1> DEFINE F == Ahead(wm, loop.macro.dir)
           G == Behind(wm, loop.macro.dir)
<1>1. PICK L, c, k, p : Walking(loop.macro.dir, Course, ToSet(Expected), wm, seen, fresh, pos, n, L, c, k, p)
  BY DEF LoopInv
<1>2. /\ Threads(loop.macro.dir, wm, fresh, L, c, k) /\ p \in 1 .. k + 1 /\ pos = At(c, k, p) /\ n = F[pos]
  BY <1>1 DEF Walking, Visits
<1>3. /\ k \in Nat /\ L \subseteq WalkObjects
      /\ \A i \in 0 .. k : c[i] \in L /\ Following(k, i) \in 0 .. k /\ F[c[i]] = c[Following(k, i)]
  BY <1>2, Ring
<1>4. PICK i \in 0 .. k : pos = c[i]
  BY <1>2, <1>3 DEF At
<1>5. pos \in L /\ pos \in WalkObjects /\ n \in WalkObjects /\ \E j \in 0 .. k : n = c[j]
  BY <1>2, <1>3, <1>4
<1>6. InLoop(pos) /\ InLoop(n)
  BY <1>2, <1>4, <1>5, RingIsLoop
<1>7. F[pos] \in L /\ G[pos] \in L /\ F[G[pos]] = pos /\ G[F[pos]] = pos
  BY <1>2, <1>5 DEF Threads, Hub, Around
<1>8. F[pos] # POISON /\ G[pos] # POISON
  BY <1>3, <1>7, WalkObjectsDistinct
<1>9. Linked(wm, pos)
  BY <1>7, <1>8 DEF Linked, Ahead, Behind
<1> QED
  BY <1>6, <1>9 DEF StaysInLoop

(* The invariant says that what was seen is in order and complete.         *)
LEMMA LoopVisits == LoopInv => VisitsEach
<1> SUFFICES ASSUME LoopInv PROVE VisitsEach
  OBVIOUS
<1>1. PICK L, c, k, p : Walking(loop.macro.dir, Course, ToSet(Expected), wm, seen, fresh, pos, n, L, c, k, p)
  BY DEF LoopInv
<1>2. /\ Threads(loop.macro.dir, wm, fresh, L, c, k) /\ p \in 1 .. k + 1 /\ pos = At(c, k, p)
      /\ Visits(Course, ToSet(Expected), seen, fresh, c, k, p)
  BY <1>1 DEF Walking, Visits
<1>3. NoTwice(c, k) /\ c[0] = head /\ k \in Nat
  BY <1>2, Ring
<1>4. PICK q \in 1 .. Len(Course) + 1 :
        \A a \in DOMAIN Expected : a + q - 1 \in DOMAIN Course /\ Expected[a] = Course[a + q - 1]
  BY ExpectedEntries DEF LoopInv
<1>5. Len(Course) \in Nat /\ q \in Int /\ DOMAIN Expected \subseteq Int
  BY ExpectedEntries DEF LoopInv, Route
<1>6. ASSUME NEW x \in DOMAIN seen, NEW y \in DOMAIN seen, x < y
      PROVE  /\ seen[x] # seen[y]
             /\ \A a, b \in DOMAIN Expected : seen[x] = Expected[a] /\ seen[y] = Expected[b] => a < b
  <2>1. seen[x] # seen[y] /\ Earlier(Course, seen[x], seen[y])
    BY <1>2, <1>6 DEF Visits
  <2>2. ASSUME NEW a \in DOMAIN Expected, NEW b \in DOMAIN Expected,
               seen[x] = Expected[a], seen[y] = Expected[b]
        PROVE  a < b
    <3>1. a + q - 1 < b + q - 1
      BY <1>4, <2>1, <2>2 DEF Earlier
    <3> QED
      BY <1>5, <3>1
  <2> QED
    BY <2>1, <2>2
<1>7. ASSUME pos = head, NEW e \in ToSet(Expected) PROVE e \in ToSet(seen) \/ ~InLoop(e)
  <2>1. p = k + 1
    <3> SUFFICES ASSUME p # k + 1 PROVE FALSE
      OBVIOUS
    <3>1. p \in 0 .. k /\ 0 \in 0 .. k
      BY <1>2, <1>3
    <3>2. c[p] = c[0]
      BY <1>2, <1>3, <1>7 DEF At
    <3>3. p = 0
      BY <1>3, <3>1, <3>2 DEF NoTwice
    <3> QED
      BY <1>2, <3>3
  <2>2. \/ \E x \in DOMAIN seen : e = seen[x]
        \/ \E j \in p .. k : e = c[j]
        \/ \A j \in 0 .. k : e # c[j]
    BY <1>2 DEF Visits
  <2>3. ~\E j \in p .. k : e = c[j]
    BY <1>3, <2>1
  <2>4. e \in WalkObjects
    BY ExpectedEntries DEF LoopInv, Route, WalkObjects
  <2> QED
    BY <1>2, <2>2, <2>3, <2>4, RingIsLoop DEF ToSet
<1> QED
  BY <1>6, <1>7 DEF VisitsEach

(* An object that is alone is added before head: the ring ends with it.    *)
LEMMA AppendKeeps ==
  ASSUME NEW mem, NEW f, NEW L, NEW c, NEW k, Threads("next", mem, f, L, c, k),
         NEW e \in f, \A x \in f, i \in 0 .. k : c[i] # x
  PROVE  Threads("next", list_add_tail(mem, e, head), f \ {e}, L, Longer(c, k, k, e), k + 1)
<1> DEFINE F == mem.next
           G == mem.prev
           K == L \ {e}
           r == list_add_tail(mem, e, head)
           a == G[head]
<1>1. /\ mem \in WalkMemory /\ Hub(F, G, L, c, k) /\ Circle(F, L, c, k) /\ Around(F, G, L, head)
      /\ \A x \in f : x \in L /\ x # other /\ F[x] = x
  BY DEF Threads, Hub, Ahead, Behind
<1>2. /\ F \in WalkMaps /\ G \in WalkMaps /\ L \subseteq WalkObjects
      /\ \A x \in L : F[x] \in L /\ G[x] \in L /\ F[G[x]] = x /\ G[F[x]] = x
  BY <1>1 DEF Around
<1>3. e \in L /\ F[e] = e /\ e # other /\ e \in WalkObjects \ K /\ K \subseteq WalkObjects /\ K \cup {e} = L
  BY <1>1, <1>2
<1>4. Around(F, G, K, e) /\ Circle(F, K, c, k)
  BY <1>1, <1>3, Apart
<1>5. k \in Nat /\ k \in 0 .. k /\ 0 \in 0 .. k /\ c[k] \in K /\ c[0] = head /\ head \in K
  <2>1. k \in Nat /\ c \in [0 .. k -> K] /\ c[0] = head
    BY <1>4 DEF Circle
  <2>2. k \in 0 .. k /\ 0 \in 0 .. k
    BY <2>1
  <2> QED
    BY <2>1, <2>2
<1>6. a = c[k] /\ F[a] = head
  <2>1. Following(k, k) = 0
    BY DEF Following
  <2>2. G[c[Following(k, k)]] = c[k]
    BY <1>1, <1>5, Backwards
  <2> QED
    BY <1>2, <1>3, <1>5, <2>1, <2>2
<1>7. r = __list_add(mem, e, a, head)
  BY DEF list_add_tail
<1>8. a \in K /\ a # e /\ head # e /\ a \in WalkObjects /\ head \in WalkObjects
  BY <1>3, <1>5, <1>6
<1> HIDE DEF F, G, K, r, a
<1>9. r \in WalkMemory /\ r.next = Between(F, a, e, F[a]) /\ r.prev = Between(G, F[a], e, a)
  BY <1>1, <1>3, <1>6, <1>7, <1>8, MapsAdded DEF F, G
<1>10. Around(r.next, r.prev, L, head)
  BY <1>3, <1>4, <1>8, <1>9, Inserted
<1>11. Circle(Between(F, c[k], e, F[c[k]]), K \cup {e}, Longer(c, k, k, e), k + 1)
  BY <1>2, <1>3, <1>4, <1>5, InsertedHere
<1>12. ASSUME NEW x \in f \ {e} PROVE x \in L /\ x # other /\ r.next[x] = x
  <2>1. x \in L /\ F[x] = x /\ x # e /\ x # other /\ x \in WalkObjects /\ x # a
    BY <1>1, <1>2, <1>5, <1>6
  <2> QED
    BY <1>2, <1>3, <1>8, <1>9, <2>1 DEF Between, WalkMaps
<1>13. Circle(r.next, L, Longer(c, k, k, e), k + 1)
  BY <1>3, <1>6, <1>9, <1>11
<1> QED
  BY <1>9, <1>10, <1>12, <1>13 DEF Threads, Hub, Ahead, Behind, r

(* head and the entries of s.                                              *)
RingOf(s, i) == [j \in 0 .. i |-> IF j = 0 THEN head ELSE s[j]]

(* No function of list.h leaves anything but pointers.                     *)
LEMMA AddType ==
  ASSUME NEW mem \in WalkMemory, NEW e \in WalkObjects
  PROVE  list_add_tail(mem, e, head) \in WalkMemory
<1>1. head \in WalkObjects /\ mem.prev[head] \in WalkObjects \cup {POISON}
  BY DEF WalkObjects, WalkMemory, WalkMaps
<1> QED
  BY <1>1 DEF list_add_tail, __list_add, WalkMemory, WalkMaps

(* The memory List(s) is what its equation says.                           *)
LEMMA ListSteps ==
  ASSUME NEW s \in Seq(Items)
  PROVE  \E g : /\ List(s) = g[Len(s)]
                /\ g[0] = [next |-> [x \in WalkObjects |-> x], prev |-> [x \in WalkObjects |-> x]]
                /\ \A i \in 1 .. Len(s) : g[i] = list_add_tail(g[i - 1], s[i], head)
<1> DEFINE N == Len(s)
           alone == [next |-> [x \in Items \cup {head, other} |-> x],
                     prev |-> [x \in Items \cup {head, other} |-> x]]
           step == [i \in 1 .. N |-> [v \in WalkMemory |-> list_add_tail(v, s[i], head)]]
           body(g) == [i \in 0 .. N |-> IF i = 0 THEN alone ELSE list_add_tail(g[i - 1], s[i], head)]
<1>1. N \in Nat /\ N \in Int /\ 0 \in Int /\ 0 <= N /\ 0 + 1 .. N = 1 .. N
  OBVIOUS
<1>2. alone \in WalkMemory
  BY DEF WalkMemory, WalkMaps, WalkObjects
<1>3. \A i \in 0 + 1 .. N : step[i] \in [WalkMemory -> WalkMemory]
  <2> SUFFICES ASSUME NEW i \in 1 .. N, NEW v \in WalkMemory
               PROVE  list_add_tail(v, s[i], head) \in WalkMemory
    BY <1>1
  <2> s[i] \in WalkObjects
    BY DEF WalkObjects
  <2> QED
    BY AddType
<1>4. \E g : Solves(g, 0, N, WalkMemory, alone, step)
  <2> HIDE DEF N, alone, step
  <2> QED
    BY ONLY <1>1, <1>2, <1>3, Recursion
<1>5. PICK g : Solves(g, 0, N, WalkMemory, alone, step)
  BY <1>4
<1>6. g = body(g)
  <2>1. g \in [0 .. N -> WalkMemory] /\ g[0] = alone
    BY <1>5 DEF Solves
  <2>2. ASSUME NEW i \in 0 .. N, i # 0 PROVE g[i] = list_add_tail(g[i - 1], s[i], head)
    <3>1. i \in 0 + 1 .. N /\ i \in 1 .. N /\ i - 1 \in 0 .. N
      BY <1>1, <2>2
    <3>2. g[i] = step[i][g[i - 1]] /\ g[i - 1] \in WalkMemory
      BY <1>5, <2>1, <3>1 DEF Solves
    <3> QED
      BY <3>1, <3>2
  <2> HIDE DEF alone
  <2> QED
    BY <2>1, <2>2
<1>7. List(s) = (CHOOSE g1 : g1 = body(g1))[N]
  BY DEF List
<1> DEFINE h == CHOOSE g1 : g1 = body(g1)
<1>8. h = body(h)
  BY <1>6
<1>9. h[0] = alone /\ \A i \in 1 .. N : h[i] = list_add_tail(h[i - 1], s[i], head)
  <2> HIDE DEF h, alone
  <2>1. 0 \in 0 .. N /\ \A i \in 1 .. N : i \in 0 .. N /\ i # 0
    BY <1>1
  <2> QED
    BY <1>8, <2>1
<1>10. List(s) = h[N]
  BY <1>7
<1>11. alone = [next |-> [x \in WalkObjects |-> x], prev |-> [x \in WalkObjects |-> x]]
  BY DEF WalkObjects
<1> HIDE DEF h, alone
<1> QED
  BY <1>9, <1>10, <1>11

(* List(s) is the list of head with the entries of s, in their order.      *)
LEMMA ListHolds ==
  ASSUME NEW s \in Seq(Items), IsInjective(s)
  PROVE  Threads("next", List(s), Items \ ToSet(s), WalkObjects, RingOf(s, Len(s)), Len(s))
<1> DEFINE N == Len(s)
           Rest(i) == Items \ {s[j] : j \in 1 .. i}
<1>1. N \in Nat /\ \A i \in 1 .. N : s[i] \in Items /\ i \in DOMAIN s
  OBVIOUS
<1>2. PICK g : /\ List(s) = g[N]
               /\ g[0] = [next |-> [x \in WalkObjects |-> x], prev |-> [x \in WalkObjects |-> x]]
               /\ \A i \in 1 .. N : g[i] = list_add_tail(g[i - 1], s[i], head)
  BY ListSteps
<1> DEFINE T == {i \in Nat : i <= N => Threads("next", g[i], Rest(i), WalkObjects, RingOf(s, i), i)}
<1>3. Threads("next", g[0], Rest(0), WalkObjects, RingOf(s, 0), 0)
  <2> DEFINE I == [x \in WalkObjects |-> x]
             c == RingOf(s, 0)
  <2>1. I \in WalkMaps /\ \A x \in WalkObjects : I[x] = x
    BY DEF WalkMaps
  <2> HIDE DEF I
  <2>2. Around(I, I, WalkObjects, head)
    BY <2>1 DEF Around
  <2>3. \A i \in 0 .. 0 : i = 0 /\ c[i] = head /\ Following(0, i) = 0
    BY DEF RingOf, Following
  <2>4. c \in [0 .. 0 -> WalkObjects] /\ 0 \in 0 .. 0
    <3>1. head \in WalkObjects
      BY DEF WalkObjects
    <3> QED
      BY <3>1 DEF RingOf
  <2>5. other \in WalkObjects /\ head \in WalkObjects /\ head # other
    BY WalkObjectsDistinct
  <2> HIDE DEF c
  <2>6. Circle(I, WalkObjects, c, 0)
    BY <2>1, <2>3, <2>4, <2>5 DEF Circle
  <2>7. g[0].next = I /\ g[0].prev = I /\ g[0] \in WalkMemory
    BY <1>2, <2>1 DEF I, WalkMemory
  <2>8. \A x \in Rest(0) : x \in WalkObjects /\ x # other
    BY WalkAssumption DEF WalkObjects
  <2> QED
    BY <2>1, <2>2, <2>6, <2>7, <2>8 DEF Threads, Hub, Ahead, Behind, c
<1>4. ASSUME NEW i \in Nat, i \in T PROVE i + 1 \in T
  <2> SUFFICES ASSUME i + 1 <= N
               PROVE  Threads("next", g[i + 1], Rest(i + 1), WalkObjects, RingOf(s, i + 1), i + 1)
    OBVIOUS
  <2>1. Threads("next", g[i], Rest(i), WalkObjects, RingOf(s, i), i)
    BY <1>1, <1>4
  <2>2. i + 1 \in 1 .. N /\ i + 1 - 1 = i
    BY <1>1
  <2> DEFINE e == s[i + 1]
             c == RingOf(s, i)
  <2>3. \A j \in 0 .. i : c[j] = IF j = 0 THEN head ELSE s[j]
    BY DEF RingOf
  <2>4. \A j \in 1 .. i : j \in DOMAIN s /\ s[j] # e
    <3>1. \A j \in 1 .. i : j \in 1 .. N /\ j # i + 1
      BY <1>1, <2>2
    <3> QED
      BY <1>1, <2>2, <3>1 DEF IsInjective
  <2>5. e \in Rest(i)
    BY <1>1, <2>2, <2>4
  <2>6. \A x \in Rest(i), j \in 0 .. i : c[j] # x
    <3> SUFFICES ASSUME NEW x \in Rest(i), NEW j \in 0 .. i PROVE c[j] # x
      OBVIOUS
    <3>1. CASE j = 0
      BY <2>3, <3>1, WalkAssumption
    <3>2. CASE j # 0
      BY <2>3, <3>2
    <3> QED
      BY <3>1, <3>2
  <2>7. Rest(i + 1) = Rest(i) \ {e}
    <3>1. \A x : (\E j \in 1 .. i + 1 : x = s[j]) <=> (\E j \in 1 .. i : x = s[j]) \/ x = e
      <4>1. \A j \in 1 .. i + 1 : j \in 1 .. i \/ j = i + 1
        OBVIOUS
      <4>2. \A j \in 1 .. i : j \in 1 .. i + 1
        OBVIOUS
      <4>3. i + 1 \in 1 .. i + 1
        OBVIOUS
      <4> QED
        BY <4>1, <4>2, <4>3
    <3> QED
      BY <3>1
  <2>8. Longer(c, i, i, e) = RingOf(s, i + 1)
    <3>1. \A j \in 0 .. i + 1 : /\ j <= i => j \in 0 .. i
                                /\ ~(j <= i) => j = i + 1 /\ j # 0
      OBVIOUS
    <3> QED
      BY <2>3, <3>1 DEF Longer, RingOf
  <2> HIDE DEF e, c, Rest
  <2>9. Threads("next", list_add_tail(g[i], e, head), Rest(i) \ {e}, WalkObjects, Longer(c, i, i, e), i + 1)
    BY <2>1, <2>5, <2>6, AppendKeeps DEF c
  <2>10. g[i + 1] = list_add_tail(g[i], e, head)
    BY <1>2, <2>2 DEF e
  <2> QED
    BY <2>7, <2>8, <2>9, <2>10
<1>5. N \in T
  <2>1. 0 \in T
    BY <1>3
  <2> HIDE DEF T
  <2> QED
    BY <1>1, <1>4, <2>1, InductionOnSet
<1>6. Rest(N) = Items \ ToSet(s)
  <2>1. DOMAIN s = 1 .. N
    OBVIOUS
  <2> QED
    BY <2>1 DEF ToSet
<1>7. Threads("next", g[N], Rest(N), WalkObjects, RingOf(s, N), N)
  <2> HIDE DEF N, Rest
  <2> QED
    BY <1>1, <1>5
<1> QED
  BY <1>2, <1>6, <1>7

(* The list backwards.                                                     *)
LEMMA Backward ==
  ASSUME NEW mem, NEW f, NEW L, NEW c, NEW k, Threads("next", mem, f, L, c, k)
  PROVE  Threads("prev", mem, f, L, [j \in 0 .. k |-> c[IF j = 0 THEN 0 ELSE k + 1 - j]], k)
<1> DEFINE F == mem.next
           G == mem.prev
           b(j) == IF j = 0 THEN 0 ELSE k + 1 - j
           d == [j \in 0 .. k |-> c[b(j)]]
<1>1. /\ mem \in WalkMemory /\ Circle(F, L, c, k) /\ Around(F, G, L, head)
      /\ \A x \in f : x \in L /\ x # other /\ F[x] = x
  BY DEF Threads, Hub, Ahead, Behind
<1>2. /\ k \in Nat /\ c \in [0 .. k -> L] /\ c[0] = head
      /\ \A i, j \in 0 .. k : c[i] = c[j] => i = j
      /\ other \in L /\ \A i \in 0 .. k : c[i] # other
  BY <1>1 DEF Circle
<1>3. \A j \in 0 .. k : b(j) \in 0 .. k
  BY <1>2
<1>4. \A i, j \in 0 .. k : b(i) = b(j) => i = j
  BY <1>2
<1>5. \A j \in 0 .. k : Following(k, j) \in 0 .. k /\ Following(k, b(Following(k, j))) = b(j)
  BY <1>2 DEF Following
<1>6. \A j \in 0 .. k : d[j] = c[b(j)]
  OBVIOUS
<1>7. \A i \in 0 .. k : G[c[Following(k, i)]] = c[i]
  BY <1>1, Backwards
<1>8. b(0) = 0 /\ 0 \in 0 .. k
  BY <1>2
<1> HIDE DEF b
<1>9. d \in [0 .. k -> L]
  BY <1>2, <1>3
<1> HIDE DEF d
<1>10. \A j \in 0 .. k : G[d[j]] = d[Following(k, j)]
  BY <1>3, <1>5, <1>6, <1>7
<1>11. Circle(G, L, d, k)
  <2>1. \A i, j \in 0 .. k : d[i] = d[j] => i = j
    BY <1>2, <1>3, <1>4, <1>6
  <2>2. d[0] = head /\ \A i \in 0 .. k : d[i] # other
    BY <1>2, <1>3, <1>6, <1>8
  <2> QED
    BY <1>2, <1>9, <1>10, <2>1, <2>2 DEF Circle
<1>12. Around(G, F, L, head)
  BY <1>1 DEF Around
<1>13. \A x \in f : x \in L /\ x # other /\ G[x] = x
  BY <1>1 DEF Around
<1>14. Threads("prev", mem, f, L, d, k)
  BY <1>1, <1>11, <1>12, <1>13 DEF Threads, Hub, Ahead, Behind
<1> QED
  BY <1>14 DEF d, b

(* The invariant holds when the loop begins.                               *)
LEMMA LoopBegins == WalkInit => LoopInv
<1> SUFFICES ASSUME WalkInit PROVE LoopInv
  OBVIOUS
<1> DEFINE N == Len(orig)
           dir == loop.macro.dir
           at == loop.at
           C == Course
<1>1. orig \in Seq(Items) /\ IsInjective(orig)
  <2>1. Cardinality(Items) \in Nat
    BY WalkAssumption, FS_CardinalityType
  <2>2. PICK l \in 0 .. Cardinality(Items) : orig \in [1 .. l -> Items]
    BY <2>1 DEF WalkInit, SeqOf
  <2>3. l \in Nat
    BY <2>1
  <2> QED
    BY <2>2, <2>3 DEF WalkInit
<1>2. /\ loop.macro \in Macros /\ at \in ToSet(orig) \cup {head}
      /\ loop.macro.from = "first" => at = head
      /\ loop.macro.from = "from" => at # head
      /\ fresh = Items \ ToSet(orig) /\ wm = List(orig)
      /\ pos = Start /\ n = Step(wm, Start) /\ seen = <<>>
  BY DEF WalkInit
<1>3. dir \in {"next", "prev"} /\ loop.macro.from \in {"first", "continue", "from"}
  BY <1>2 DEF Macros
<1>4. N \in Nat /\ DOMAIN orig = 1 .. N
  BY <1>1
<1> HIDE DEF dir, at
<1>5. /\ C \in Seq(Items) /\ Len(C) = N /\ DOMAIN C = 1 .. N /\ ToSet(C) = ToSet(orig)
      /\ \A i, j \in 1 .. N : C[i] = C[j] => i = j
  <2>1. CASE dir = "next"
    BY <1>1, <1>4, <2>1 DEF Course, IsInjective, dir
  <2>2. CASE dir = "prev"
    <3>1. C = [i \in 1 .. N |-> orig[(N - i) + 1]]
      BY <2>2 DEF Course, Reverse, dir
    <3>2. \A i \in 1 .. N : (N - i) + 1 \in 1 .. N
      BY <1>4
    <3>3. \A i \in 1 .. N : C[i] = orig[(N - i) + 1] /\ orig[(N - i) + 1] \in Items
      BY <1>1, <1>4, <3>1, <3>2
    <3>4. C \in Seq(Items) /\ Len(C) = N /\ DOMAIN C = 1 .. N
      BY <1>4, <3>1, <3>3
    <3>5. \A i \in 1 .. N : orig[i] = C[(N - i) + 1]
      BY <1>4, <3>2, <3>3
    <3>6. ToSet(C) = ToSet(orig)
      BY <1>4, <3>2, <3>3, <3>4, <3>5 DEF ToSet
    <3>7. \A i, j \in 1 .. N : C[i] = C[j] => i = j
      <4> SUFFICES ASSUME NEW i \in 1 .. N, NEW j \in 1 .. N, C[i] = C[j] PROVE i = j
        OBVIOUS
      <4>1. (N - i) + 1 = (N - j) + 1
        BY <1>1, <1>4, <3>2, <3>3 DEF IsInjective
      <4> QED
        BY <1>4, <4>1
    <3> QED
      BY <3>4, <3>6, <3>7
  <2> QED
    BY <1>3, <2>1, <2>2
<1> DEFINE c == RingOf(C, N)
<1>6. Threads(dir, wm, fresh, WalkObjects, c, N)
  <2>1. Threads("next", wm, fresh, WalkObjects, RingOf(orig, N), N)
    BY <1>1, <1>2, ListHolds
  <2>2. CASE dir = "next"
    BY <2>1, <2>2 DEF Course, dir
  <2>3. CASE dir = "prev"
    <3>1. C = [i \in 1 .. N |-> orig[(N - i) + 1]]
      BY <2>3 DEF Course, Reverse, dir
    <3>2. \A j \in 0 .. N : j # 0 => j \in 1 .. N /\ N + 1 - j \in 1 .. N /\ N + 1 - j = (N - j) + 1 /\ N + 1 - j # 0
      BY <1>4
    <3>3. [j \in 0 .. N |-> RingOf(orig, N)[IF j = 0 THEN 0 ELSE N + 1 - j]] = c
      <4> SUFFICES ASSUME NEW j \in 0 .. N
                   PROVE  RingOf(orig, N)[IF j = 0 THEN 0 ELSE N + 1 - j] = IF j = 0 THEN head ELSE C[j]
        BY DEF RingOf
      <4>1. CASE j = 0
        BY <4>1 DEF RingOf
      <4>2. CASE j # 0
        <5>1. N + 1 - j \in 0 .. N
          BY <1>4, <4>2
        <5> QED
          BY <3>1, <3>2, <4>2, <5>1 DEF RingOf
      <4> QED
        BY <4>1, <4>2
    <3>4. Threads("prev", wm, fresh, WalkObjects,
                  [j \in 0 .. N |-> RingOf(orig, N)[IF j = 0 THEN 0 ELSE N + 1 - j]], N)
      BY <2>1, Backward
    <3> QED
      BY <2>3, <3>3, <3>4
  <2> QED
    BY <1>3, <2>2, <2>3
<1>7. /\ c[0] = head /\ \A j \in 1 .. N : c[j] = C[j] /\ j \in 0 .. N
      /\ 0 \in 0 .. N
      /\ \A j \in 0 .. N : c[Following(N, j)] = At(c, N, j + 1) /\ Ahead(wm, dir)[c[j]] = c[Following(N, j)]
  <2>1. \A j \in 0 .. N : c[j] = IF j = 0 THEN head ELSE C[j]
    BY DEF RingOf
  <2>2. 0 \in 0 .. N /\ \A j \in 1 .. N : j \in 0 .. N /\ j # 0
    BY <1>4
  <2>3. \A j \in 0 .. N : Ahead(wm, dir)[c[j]] = c[Following(N, j)]
    BY <1>6, Ring
  <2> HIDE DEF c
  <2> QED
    BY <1>4, <2>1, <2>2, <2>3, AtFollowing
<1> HIDE DEF c
<1>8. \A x : Step(wm, x) = Ahead(wm, dir)[x]
  BY <1>3 DEF Step, Ahead, dir
<1> DEFINE i == IF at = head THEN 0 ELSE CHOOSE j \in DOMAIN C : C[j] = at
           p == i + (IF loop.macro.from = "from" THEN 0 ELSE 1)
<1>9. i \in 0 .. N /\ c[i] = at /\ (at # head => i # 0)
  <2>1. CASE at = head
    BY <1>7, <2>1
  <2>2. CASE at # head
    <3>1. \E j \in DOMAIN C : C[j] = at
      BY <1>2, <1>5, <2>2 DEF ToSet
    <3>2. i \in 1 .. N /\ C[i] = at
      BY <1>5, <2>2, <3>1
    <3> QED
      BY <1>4, <1>7, <3>2
  <2> QED
    BY <2>1, <2>2
<1>10. Expected = SubSeq(C, p, N)
  BY <1>5 DEF Expected, at
<1> HIDE DEF i
<1>11. p \in 1 .. N + 1 /\ pos = At(c, N, p)
  <2>1. CASE loop.macro.from = "from"
    <3>1. p = i /\ i \in 1 .. N /\ i # N + 1
      BY <1>2, <1>4, <1>9, <2>1
    <3>2. Start = c[i]
      BY <1>9, <2>1 DEF Start, at
    <3> QED
      BY <1>2, <3>1, <3>2 DEF At
  <2>2. CASE loop.macro.from # "from"
    <3>1. p = i + 1 /\ i + 1 \in 1 .. N + 1
      BY <1>4, <1>9, <2>2
    <3>2. Start = Ahead(wm, dir)[c[i]]
      BY <1>8, <1>9, <2>2 DEF Start, at
    <3>3. Start = At(c, N, i + 1)
      BY <1>7, <1>9, <3>2
    <3> QED
      BY <1>2, <3>1, <3>3
  <2> QED
    BY <2>1, <2>2
<1> HIDE DEF p, C
<1>12. ASSUME NEW x \in ToSet(Expected) PROVE \E j \in p .. N : x = c[j]
  <2>1. PICK a \in DOMAIN Expected : x = Expected[a]
    BY DEF ToSet
  <2>2. DOMAIN Expected = 1 .. N - p + 1 /\ \A b \in 1 .. N - p + 1 : Expected[b] = C[p + b - 1]
    BY <1>4, <1>5, <1>10, <1>11
  <2>3. p + a - 1 \in p .. N /\ p + a - 1 \in 1 .. N /\ x = C[p + a - 1]
    BY <1>4, <1>11, <2>1, <2>2
  <2> QED
    BY <1>7, <2>3
<1>13. \A j \in 0 .. N : c[j] \in ToSet(orig) \cup {head}
  <2>1. \A j \in 1 .. N : C[j] \in ToSet(orig)
    BY <1>5 DEF ToSet
  <2>2. \A j \in 0 .. N : j = 0 \/ j \in 1 .. N
    BY <1>4
  <2> QED
    BY <1>7, <2>1, <2>2
<1>14. \A b \in fresh : /\ \A j \in 0 .. N : c[j] # b
                        /\ \A a \in DOMAIN C : C[a] # b
  <2>1. head \notin Items
    BY WalkAssumption
  <2>2. \A a \in DOMAIN C : C[a] \in ToSet(orig)
    BY <1>5 DEF ToSet
  <2> QED
    BY <1>2, <1>13, <2>1, <2>2
<1>15. \A a, b \in 1 .. N : a < b => Earlier(C, c[a], c[b])
  BY <1>4, <1>5, <1>7 DEF Earlier
<1>16. seen \in Seq(Items) /\ DOMAIN seen = {}
  BY <1>2
<1>17. Visits(C, ToSet(Expected), seen, fresh, c, N, p)
  BY <1>2, <1>11, <1>12, <1>14, <1>15, <1>16 DEF Visits
<1>18. n = Ahead(wm, dir)[pos]
  BY <1>2, <1>8
<1>19. Walking(dir, C, ToSet(Expected), wm, seen, fresh, pos, n, WalkObjects, c, N, p)
  BY <1>6, <1>11, <1>17, <1>18 DEF Walking
<1>20. Route
  BY <1>2, <1>5, <1>10, <1>11 DEF Route, C
<1> QED
  BY <1>19, <1>20 DEF LoopInv, C, dir

(* Types, from the same invariant.                                         *)
LEMMA LoopTypes == LoopInv => WalkTypeOK
<1> SUFFICES ASSUME LoopInv PROVE WalkTypeOK
  OBVIOUS
<1>1. PICK L, c, k, p : Walking(loop.macro.dir, Course, ToSet(Expected), wm, seen, fresh, pos, n, L, c, k, p)
  BY DEF LoopInv
<1>2. /\ Threads(loop.macro.dir, wm, fresh, L, c, k) /\ p \in 1 .. k + 1 /\ pos = At(c, k, p)
      /\ n = Ahead(wm, loop.macro.dir)[pos] /\ fresh \subseteq Items
      /\ seen \in Seq(Items) /\ \A x, y \in DOMAIN seen : x < y => seen[x] # seen[y]
  BY <1>1 DEF Walking, Visits
<1>3. /\ NoTwice(c, k) /\ c[0] = head /\ k \in Nat
      /\ \A i \in 0 .. k : Following(k, i) \in 0 .. k /\ Ahead(wm, loop.macro.dir)[c[i]] = c[Following(k, i)]
  <2>1. Threads(loop.macro.dir, wm, fresh, L, c, k)
    BY <1>2
  <2> QED
    BY ONLY <2>1, Ring
<1>4. \A i \in 0 .. k : c[i] \in Items \cup {head}
  <2>1. \A i \in 0 .. k : i = 0 \/ i \in 1 .. k
    BY <1>3
  <2> QED
    BY <1>3, <2>1 DEF NoTwice
<1>5. PICK i \in 0 .. k : pos = c[i]
  BY <1>2, <1>3 DEF At
<1>6. pos \in Items \cup {head} /\ n \in Items \cup {head}
  BY <1>2, <1>3, <1>4, <1>5
<1>7. IsInjective(seen)
  <2> SUFFICES ASSUME NEW a \in DOMAIN seen, NEW b \in DOMAIN seen, seen[a] = seen[b] PROVE a = b
    BY DEF IsInjective
  <2>1. a \in Int /\ b \in Int
    BY <1>2
  <2>2. ~(a < b) /\ ~(b < a)
    BY <1>2
  <2> QED
    BY <2>1, <2>2
<1>8. wm \in [next : [WalkObjects -> WalkObjects \cup {POISON}],
              prev : [WalkObjects -> WalkObjects \cup {POISON}]]
  BY <1>2 DEF Threads, WalkMemory, WalkMaps
<1> QED
  BY <1>2, <1>6, <1>7, <1>8 DEF WalkTypeOK

(* The invariant of a loop over a list.                                    *)
LEMMA LoopAlways == WalkSpec => []LoopInv
BY LoopBegins, LoopGoesOn, PTL DEF WalkSpec

(* The memory, the cursor and its temporary storage are always objects and *)
(* pointers of the two lists (list_for_each_entry and its variants).       *)
THEOREM LoopTypeCorrect == WalkSpec => []WalkTypeOK
BY LoopAlways, LoopTypes, PTL

(* Whatever entries the body of a list_for_each_entry loop takes out or    *)
(* adds, by the comments of include/list.h, the loop goes on from an entry *)
(* of its own list.                                                        *)
THEOREM LoopStaysInList == WalkSpec => []StaysInLoop
BY LoopAlways, LoopStays, PTL

(* Such a loop runs its body once for every entry it was to visit, in the  *)
(* order of the list, but for those that were taken out before their turn. *)
THEOREM LoopVisitsEach == WalkSpec => []VisitsEach
BY LoopAlways, LoopVisits, PTL

-----------------------------------------------------------------------------
(***************************************************************************)
(* The lists as sequences.  Reads(mem, S, ls) says that the rings S of mem *)
(* are the lists ls: from each head in S its entries are met in order, and *)
(* an entry in S that is in no list is in a ring of its own.               *)
(***************************************************************************)
Spot(h, s, i) == IF i = 0 THEN h ELSE s[i]

Spells(F, h, s) ==
  /\ s \in Seq(Entries)
  /\ \A i \in 0 .. Len(s) : F[Spot(h, s, i)] = IF i = Len(s) THEN h ELSE s[i + 1]

In(s, e) == \E i \in 1 .. Len(s) : s[i] = e

Reads(mem, S, ls) ==
  /\ Rings(mem, S)
  /\ ls \in [Heads -> Seq(Entries) \cup {POISON}]
  /\ \A h \in Heads : ls[h] = POISON <=> h \notin S
  /\ \A h \in Heads \cap S : Spells(mem.next, h, ls[h])
  /\ \A e \in Entries \cap S : mem.next[e] = e \/ \E h \in Heads \cap S : In(ls[h], e)

(* The objects of a list are linked, and prev leads from each to the one   *)
(* before it.                                                              *)
LEMMA Spots ==
  ASSUME NEW mem, NEW S, Rings(mem, S), NEW h \in Heads \cap S, NEW s, Spells(mem.next, h, s)
  PROVE  /\ s \in Seq(Entries) /\ Len(s) \in Nat
         /\ \A i \in 0 .. Len(s) : Spot(h, s, i) \in S
         /\ \A i \in 1 .. Len(s) : s[i] \in Entries /\ s[i] \in S /\ mem.prev[s[i]] = Spot(h, s, i - 1)
         /\ mem.prev[h] = Spot(h, s, Len(s))
<1> DEFINE z == Len(s)
<1>1. s \in Seq(Entries) /\ z \in Nat /\ \A i \in 1 .. z : s[i] \in Entries
  BY DEF Spells
<1>2. /\ \A i \in 0 .. z - 1 : mem.next[Spot(h, s, i)] = Spot(h, s, i + 1)
      /\ mem.next[Spot(h, s, z)] = h
  <2>1. \A i \in 0 .. z - 1 : i \in 0 .. z /\ i # z /\ i + 1 # 0
    BY <1>1
  <2>2. z \in 0 .. z
    BY <1>1
  <2> QED
    BY <2>1, <2>2 DEF Spells, Spot
<1>3. \A o \in S : mem.next[o] \in S /\ mem.prev[mem.next[o]] = o
  BY DEF Rings
<1> DEFINE P == {i \in Nat : i <= z => Spot(h, s, i) \in S}
<1>4. 0 \in P
  BY DEF Spot
<1>5. ASSUME NEW i \in Nat, i \in P PROVE i + 1 \in P
  <2> SUFFICES ASSUME i + 1 <= z PROVE Spot(h, s, i + 1) \in S
    OBVIOUS
  <2>1. i \in 0 .. z - 1 /\ i <= z
    BY <1>1
  <2> QED
    BY <1>2, <1>3, <1>5, <2>1
<1>6. \A i \in Nat : i \in P
  <2> HIDE DEF P
  <2> QED
    BY <1>4, <1>5, InductionOnSet
<1>7. \A i \in 0 .. z : Spot(h, s, i) \in S
  BY <1>1, <1>6
<1>8. ASSUME NEW i \in 1 .. z PROVE s[i] \in S /\ mem.prev[s[i]] = Spot(h, s, i - 1)
  <2>1. i \in 0 .. z /\ i # 0 /\ i - 1 \in 0 .. z - 1 /\ i - 1 \in 0 .. z /\ (i - 1) + 1 = i
    BY <1>1
  <2>2. Spot(h, s, i) = s[i]
    BY <2>1 DEF Spot
  <2> QED
    BY <1>2, <1>3, <1>7, <2>1, <2>2
<1>9. mem.prev[h] = Spot(h, s, z)
  <2>1. z \in 0 .. z
    BY <1>1
  <2> QED
    BY <1>2, <1>3, <1>7, <2>1
<1> QED
  BY <1>1, <1>7, <1>8, <1>9

(* An object is in one list, and at one place of it.                       *)
LEMMA SpotsApart ==
  ASSUME NEW mem, NEW S, Rings(mem, S), NEW h \in Heads \cap S, NEW g \in Heads \cap S,
         NEW s, NEW t, Spells(mem.next, h, s), Spells(mem.next, g, t),
         NEW i \in 0 .. Len(s), NEW j \in 0 .. Len(t), Spot(h, s, i) = Spot(g, t, j)
  PROVE  h = g /\ i = j
<1> DEFINE P == {y \in Nat : \A q \in 0 .. Len(t) :
                   y <= Len(s) /\ Spot(h, s, y) = Spot(g, t, q) => h = g /\ y = q}
<1>1. /\ Len(s) \in Nat /\ Len(t) \in Nat
      /\ \A k \in 1 .. Len(s) : s[k] \in Entries /\ mem.prev[s[k]] = Spot(h, s, k - 1)
      /\ \A k \in 1 .. Len(t) : t[k] \in Entries /\ mem.prev[t[k]] = Spot(g, t, k - 1)
  BY Spots
<1>2. h \notin Entries /\ g \notin Entries
  BY ObjectsAssumption
<1>3. 0 \in P
  <2> SUFFICES ASSUME NEW q \in 0 .. Len(t), Spot(h, s, 0) = Spot(g, t, q) PROVE h = g /\ 0 = q
    OBVIOUS
  <2>1. q # 0 => q \in 1 .. Len(t)
    BY <1>1
  <2> QED
    BY <1>1, <1>2, <2>1 DEF Spot
<1>4. ASSUME NEW y \in Nat, y \in P PROVE y + 1 \in P
  <2> SUFFICES ASSUME NEW q \in 0 .. Len(t), y + 1 <= Len(s), Spot(h, s, y + 1) = Spot(g, t, q)
               PROVE  h = g /\ y + 1 = q
    OBVIOUS
  <2>1. y + 1 \in 1 .. Len(s) /\ y + 1 # 0 /\ (y + 1) - 1 = y /\ y <= Len(s)
    BY <1>1
  <2>2. s[y + 1] = Spot(g, t, q) /\ s[y + 1] \in Entries
    BY <1>1, <2>1 DEF Spot
  <2>3. q # 0
    BY <1>2, <2>2 DEF Spot
  <2>4. q \in 1 .. Len(t) /\ q - 1 \in 0 .. Len(t) /\ (q - 1) + 1 = q
    BY <1>1, <2>3
  <2>5. s[y + 1] = t[q]
    BY <2>2, <2>3 DEF Spot
  <2>6. Spot(h, s, y) = Spot(g, t, q - 1)
    BY <1>1, <2>1, <2>4, <2>5
  <2>7. h = g /\ y = q - 1
    BY <1>4, <2>1, <2>4, <2>6
  <2> QED
    BY <2>4, <2>7
<1>5. \A y \in Nat : y \in P
  <2> HIDE DEF P
  <2> QED
    BY <1>3, <1>4, InductionOnSet
<1>6. i \in Nat /\ i <= Len(s)
  BY <1>1
<1> QED
  BY <1>5, <1>6

(* A list is no longer than there are entries.                             *)
LEMMA ShortEnough ==
  ASSUME NEW s \in Seq(Entries), \A i, j \in 1 .. Len(s) : s[i] = s[j] => i = j
  PROVE  Len(s) <= Cardinality(Entries) /\ Cardinality(Entries) \in Nat
<1> DEFINE y == Len(s)
           T == {s[i] : i \in 1 .. y}
<1>1. y \in Nat /\ T \subseteq Entries
  OBVIOUS
<1>2. IsFiniteSet(1 .. y) /\ Cardinality(1 .. y) = y
  <2>1. 1 \in Int /\ y \in Int
    BY <1>1
  <2> HIDE DEF y
  <2>2. IsFiniteSet(1 .. y) /\ Cardinality(1 .. y) = IF 1 > y THEN 0 ELSE y - 1 + 1
    BY ONLY <2>1, FS_Interval
  <2> QED
    BY <1>1, <2>2
<1>3. IsFiniteSet(Entries) /\ Cardinality(T) <= Cardinality(Entries) /\ Cardinality(Entries) \in Nat
  BY <1>1, ObjectsAssumption, FS_Subset, FS_CardinalityType
<1>4. s \in Surjection(1 .. y, T) /\ s \in Injection(1 .. y, T)
  <2>1. s \in [1 .. y -> T]
    BY <1>1
  <2> QED
    BY <2>1 DEF Surjection, Injection, IsInjective
<1>5. Cardinality(T) = y
  <2> HIDE DEF T, y
  <2> QED
    BY <1>2, <1>4, FS_Surjection
<1> QED
  BY <1>3, <1>5

(* What is met from a head is its list.                                    *)
LEMMA EntriesAre ==
  ASSUME NEW mem, NEW S, Rings(mem, S), NEW h \in Heads \cap S, NEW s, Spells(mem.next, h, s)
  PROVE  EntriesFrom(mem, h) = s
<1> DEFINE N == Cardinality(Entries)
           z == Len(s)
           Equation(q) == q = [i \in 0 .. N + 1 |-> IF i = 0 THEN h ELSE mem.next[q[i - 1]]]
           at == CHOOSE q : Equation(q)
           l == CHOOSE k \in 0 .. N : at[k + 1] = h /\ \A i \in 1 .. k : at[i] # h
           step == [i \in 1 .. N + 1 |-> [o \in S |-> mem.next[o]]]
<1>1. /\ s \in Seq(Entries) /\ z \in Nat /\ \A i \in 1 .. z : s[i] \in Entries
      /\ h \notin Entries
  BY Spots, ObjectsAssumption
<1>2. z <= N /\ N \in Nat
  <2>1. ASSUME NEW i \in 1 .. z, NEW j \in 1 .. z, s[i] = s[j] PROVE i = j
    <3>1. i \in 0 .. Len(s) /\ j \in 0 .. Len(s) /\ i # 0 /\ j # 0
      BY <1>1
    <3>2. Spot(h, s, i) = Spot(h, s, j)
      BY <2>1, <3>1 DEF Spot
    <3> QED
      BY <3>1, <3>2, SpotsApart
  <2> QED
    BY <1>1, <2>1, ShortEnough
<1> HIDE DEF N
<1>3. PICK f : Solves(f, 0, N + 1, S, h, step)
  <2>1. \A i \in 0 + 1 .. N + 1 : step[i] \in [S -> S]
    BY <1>2 DEF Rings
  <2>2. 0 \in Int /\ N + 1 \in Int /\ 0 <= N + 1 /\ h \in S
    BY <1>2
  <2> HIDE DEF step
  <2> QED
    BY ONLY <2>1, <2>2, Recursion
<1>4. Equation(f)
  <2>1. f \in [0 .. N + 1 -> S] /\ f[0] = h /\ \A i \in 0 + 1 .. N + 1 : f[i] = step[i][f[i - 1]]
    BY <1>3 DEF Solves
  <2>2. \A i \in 0 .. N + 1 : i # 0 => i \in 0 + 1 .. N + 1 /\ i \in 1 .. N + 1 /\ i - 1 \in 0 .. N + 1
    BY <1>2
  <2>3. \A i \in 0 .. N + 1 : f[i] = IF i = 0 THEN h ELSE mem.next[f[i - 1]]
    BY <2>1, <2>2
  <2>4. f = [i \in 0 .. N + 1 |-> f[i]]
    BY <2>1
  <2> QED
    BY <2>3, <2>4
<1>5. Equation(at)
  <2>1. \E q : Equation(q)
    BY <1>4
  <2> HIDE DEF Equation
  <2> QED
    BY <2>1
<1>6. /\ at[0] = h
      /\ \A i \in 1 .. N + 1 : at[i] = mem.next[at[i - 1]]
  <2> HIDE DEF at
  <2>1. \A i \in 1 .. N + 1 : i \in 0 .. N + 1 /\ i # 0
    BY <1>2
  <2>2. 0 \in 0 .. N + 1
    BY <1>2
  <2>3. \A i \in 0 .. N + 1 : at[i] = IF i = 0 THEN h ELSE mem.next[at[i - 1]]
    BY <1>5
  <2> QED
    BY <2>1, <2>2, <2>3
<1>7. EntriesFrom(mem, h) = [i \in 1 .. l |-> at[i]]
  BY DEF EntriesFrom, N
<1> HIDE DEF at, Equation
<1> DEFINE P == {i \in Nat : i <= z => at[i] = Spot(h, s, i)}
<1>8. 0 \in P
  BY <1>6 DEF Spot
<1>9. ASSUME NEW i \in Nat, i \in P PROVE i + 1 \in P
  <2> SUFFICES ASSUME i + 1 <= z PROVE at[i + 1] = Spot(h, s, i + 1)
    OBVIOUS
  <2>1. i + 1 \in 1 .. N + 1 /\ (i + 1) - 1 = i /\ i \in 0 .. Len(s) /\ i # Len(s) /\ i + 1 # 0 /\ i <= z
    BY <1>1, <1>2
  <2>2. at[i] = Spot(h, s, i)
    BY <1>9, <2>1
  <2>3. at[i + 1] = mem.next[Spot(h, s, i)]
    BY <1>6, <2>1, <2>2
  <2> QED
    BY <2>1, <2>3 DEF Spells, Spot
<1>10. \A i \in Nat : i \in P
  <2> HIDE DEF P
  <2> QED
    BY <1>8, <1>9, InductionOnSet
<1>11. (\A i \in 1 .. z : at[i] = s[i] /\ at[i] # h) /\ at[z + 1] = h
  <2>1. \A i \in 1 .. z : at[i] = s[i] /\ at[i] # h
    <3>1. \A i \in 1 .. z : i \in Nat /\ i <= z /\ i # 0
      BY <1>1
    <3> QED
      BY <1>1, <1>10, <3>1 DEF Spot
  <2>2. at[z + 1] = mem.next[at[z]] /\ at[z] = Spot(h, s, z) /\ z \in 0 .. Len(s)
    <3>1. z + 1 \in 1 .. N + 1 /\ (z + 1) - 1 = z /\ z \in 0 .. Len(s)
      BY <1>1, <1>2
    <3> QED
      BY <1>1, <1>6, <1>10, <3>1
  <2> QED
    BY <2>1, <2>2 DEF Spells
<1>12. l = z
  <2>1. z \in 0 .. N /\ at[z + 1] = h /\ \A i \in 1 .. z : at[i] # h
    BY <1>1, <1>2, <1>11
  <2>2. ASSUME NEW k \in 0 .. N, at[k + 1] = h, \A i \in 1 .. k : at[i] # h PROVE k = z
    <3>1. ~(k < z)
      <4>1. k < z => k + 1 \in 1 .. z
        BY <1>1, <1>2
      <4> QED
        BY <1>11, <2>2, <4>1
    <3>2. ~(z < k)
      <4>1. z < k => z + 1 \in 1 .. k
        BY <1>1, <1>2
      <4> QED
        BY <1>11, <2>2, <4>1
    <3> QED
      BY <1>1, <1>2, <3>1, <3>2
  <2> QED
    BY <2>1, <2>2
<1>13. s = [i \in 1 .. z |-> s[i]]
  BY <1>1
<1> QED
  BY <1>7, <1>11, <1>12, <1>13

(* Contents follows next from a head, and so finds the sequence it spells. *)
LEMMA ContentsAre ==
  ASSUME NEW mem, NEW S, NEW ls, Reads(mem, S, ls)
  PROVE  Contents(mem) = ls
<1>1. ASSUME NEW h \in Heads PROVE ls[h] = IF Linked(mem, h) THEN EntriesFrom(mem, h) ELSE POISON
  <2>1. Linked(mem, h) <=> h \in S
    BY RingsLinked DEF Reads, Objects
  <2>2. h \in S => EntriesFrom(mem, h) = ls[h]
    BY EntriesAre DEF Reads
  <2> QED
    BY <2>1, <2>2 DEF Reads
<1>2. ls = [h \in Heads |-> ls[h]]
  BY DEF Reads
<1> QED
  BY <1>1, <1>2 DEF Contents

(* SubSeq is a sequence, and which.                                        *)
LEMMA Part ==
  ASSUME NEW T, NEW s \in Seq(T), NEW i \in 1 .. Len(s) + 1, NEW j \in 0 .. Len(s), i <= j + 1
  PROVE  /\ SubSeq(s, i, j) \in Seq(T) /\ Len(SubSeq(s, i, j)) = j - i + 1
         /\ \A k \in 1 .. j - i + 1 : SubSeq(s, i, j)[k] = s[i + k - 1]
<1>1. Len(s) \in Nat /\ i \in Int /\ j \in Int /\ \A k \in i .. j : k \in 1 .. Len(s)
  OBVIOUS
<1>2. \A k \in i .. j : s[k] \in T
  BY <1>1, ElementOfSeq
<1> DEFINE t == SubSeq(s, i, j)
<1>3. /\ t \in Seq(T) /\ Len(t) = IF i <= j THEN j - i + 1 ELSE 0
      /\ \A k \in 1 .. j - i + 1 : t[k] = s[i + k - 1]
  BY <1>1, <1>2, SubSeqProperties
<1> HIDE DEF t
<1>4. Len(t) = j - i + 1
  BY <1>1, <1>3
<1> QED
  BY <1>3, <1>4 DEF t

(* A concatenation is its parts, one behind the other.                     *)
LEMMA Joined ==
  ASSUME NEW S, NEW a \in Seq(S), NEW b \in Seq(S)
  PROVE  /\ a \o b \in Seq(S) /\ Len(a) \in Nat /\ Len(b) \in Nat /\ Len(a \o b) = Len(a) + Len(b)
         /\ \A j \in 1 .. Len(a) + Len(b) :
              /\ j <= Len(a) => (a \o b)[j] = a[j]
              /\ j > Len(a) => (a \o b)[j] = b[j - Len(a)]
<1>1. Len(a) \in Nat /\ Len(b) \in Nat
  OBVIOUS
<1>2. a \o b \in Seq(S) /\ Len(a \o b) = Len(a) + Len(b)
  BY ConcatProperties
<1>3. \A j \in 1 .. Len(a) + Len(b) : (a \o b)[j] = IF j <= Len(a) THEN a[j] ELSE b[j - Len(a)]
  BY ConcatProperties
<1> QED
  BY <1>1, <1>2, <1>3

(* RemoveAt leaves out one element.                                        *)
LEMMA RemovedAt ==
  ASSUME NEW S, NEW s \in Seq(S), NEW i \in 1 .. Len(s)
  PROVE  /\ RemoveAt(s, i) \in Seq(S) /\ Len(RemoveAt(s, i)) = Len(s) - 1
         /\ \A j \in 1 .. Len(s) - 1 : RemoveAt(s, i)[j] = IF j < i THEN s[j] ELSE s[j + 1]
<1> DEFINE a == SubSeq(s, 1, i - 1)
           b == SubSeq(s, i + 1, Len(s))
<1>1. Len(s) \in Nat /\ i \in Int
  OBVIOUS
<1>2. /\ a \in Seq(S) /\ Len(a) = i - 1 /\ \A j \in 1 .. i - 1 : a[j] = s[j]
      /\ b \in Seq(S) /\ Len(b) = Len(s) - i /\ \A j \in 1 .. Len(s) - i : b[j] = s[i + j]
  BY <1>1
<1> HIDE DEF a, b
<1>4. /\ a \o b \in Seq(S) /\ Len(a \o b) = Len(s) - 1
      /\ \A j \in 1 .. Len(s) - 1 :
           /\ j <= i - 1 => (a \o b)[j] = a[j]
           /\ j > i - 1 => (a \o b)[j] = b[j - (i - 1)]
  <2>1. Len(a) + Len(b) = Len(s) - 1 /\ Len(a) = i - 1
    BY <1>1, <1>2
  <2>2. /\ a \o b \in Seq(S) /\ Len(a \o b) = Len(a) + Len(b)
        /\ \A j \in 1 .. Len(a) + Len(b) :
             /\ j <= Len(a) => (a \o b)[j] = a[j]
             /\ j > Len(a) => (a \o b)[j] = b[j - Len(a)]
    <3>1. a \in Seq(S) /\ b \in Seq(S)
      BY <1>2
    <3> QED
      BY ONLY <3>1, Joined
  <2> QED
    BY ONLY <2>1, <2>2
<1>5. RemoveAt(s, i) = a \o b
  BY DEF RemoveAt, a, b
<1>6. ASSUME NEW j \in 1 .. Len(s) - 1
      PROVE  (a \o b)[j] = IF j < i THEN s[j] ELSE s[j + 1]
  <2>1. CASE j < i
    <3>1. j \in 1 .. i - 1 /\ j <= i - 1
      BY <1>1, <2>1
    <3>2. (a \o b)[j] = a[j] /\ a[j] = s[j]
      BY <1>2, <1>4, <3>1
    <3> QED
      BY <2>1, <3>2
  <2>2. CASE j >= i
    <3>1. j - (i - 1) \in 1 .. Len(s) - i /\ i + (j - (i - 1)) = j + 1
      BY <1>1, <2>2
    <3>2. b[j - (i - 1)] = s[j + 1]
      BY <1>2, <3>1
    <3> QED
      <4>1. j > i - 1 /\ ~(j < i)
        BY <1>1, <2>2
      <4>2. (a \o b)[j] = b[j - (i - 1)]
        BY <1>4, <4>1
      <4> QED
        BY <3>2, <4>1, <4>2
  <2>3. j < i \/ j >= i
    BY <1>1
  <2> QED
    BY ONLY <2>1, <2>2, <2>3
<1> QED
  BY <1>4, <1>5, <1>6

(* r is s with t behind its first i elements.                              *)
Inserts(r, s, i, t) ==
  /\ r \in Seq(Entries) /\ Len(r) = Len(s) + Len(t)
  /\ \A j \in 1 .. i : r[j] = s[j]
  /\ \A j \in 1 .. Len(t) : r[i + j] = t[j]
  /\ \A j \in i + 1 .. Len(s) : r[j + Len(t)] = s[j]

(* ListSeq's Insert is what Inserts says of it.                            *)
LEMMA InsertIs ==
  ASSUME NEW s \in Seq(Entries), NEW t \in Seq(Entries), NEW i \in 0 .. Len(s)
  PROVE  Inserts(Abstract!Insert(s, i, t), s, i, t)
<1> DEFINE a == SubSeq(s, 1, i)
           b == SubSeq(s, i + 1, Len(s))
           q == a \o t
           r == q \o b
           y == Len(t)
           z == Len(s)
<1>1. z \in Nat /\ y \in Nat /\ i \in 0 .. z /\ i \in Nat
  OBVIOUS
<1>2. a \in Seq(Entries) /\ Len(a) = i /\ \A j \in 1 .. i : a[j] = s[j]
  <2>1. s \in Seq(Entries) /\ 1 \in 1 .. Len(s) + 1 /\ i \in 0 .. Len(s) /\ 1 <= i + 1
    BY <1>1
  <2>2. a \in Seq(Entries) /\ Len(a) = i - 1 + 1 /\ \A j \in 1 .. i - 1 + 1 : a[j] = s[1 + j - 1]
    BY ONLY <2>1, Part
  <2>3. i - 1 + 1 = i /\ \A j \in 1 .. i : 1 + j - 1 = j
    BY <1>1
  <2> QED
    BY <2>2, <2>3
<1>3. b \in Seq(Entries) /\ Len(b) = z - i /\ \A j \in 1 .. z - i : b[j] = s[i + j]
  <2> DEFINE a1 == i + 1
  <2>1. s \in Seq(Entries) /\ a1 \in 1 .. Len(s) + 1 /\ z \in 0 .. Len(s) /\ a1 <= z + 1
    BY <1>1
  <2> HIDE DEF a1, z
  <2>2. /\ SubSeq(s, a1, z) \in Seq(Entries) /\ Len(SubSeq(s, a1, z)) = z - a1 + 1
        /\ \A j \in 1 .. z - a1 + 1 : SubSeq(s, a1, z)[j] = s[a1 + j - 1]
    BY ONLY <2>1, Part
  <2>3. z - a1 + 1 = z - i /\ \A j \in 1 .. z - i : a1 + j - 1 = i + j
    BY <1>1 DEF a1
  <2>4. b = SubSeq(s, a1, z)
    BY DEF a1, z
  <2> QED
    BY <2>2, <2>3, <2>4
<1> HIDE DEF a, b, z
<1>4. /\ q \in Seq(Entries) /\ Len(q) = i + y
      /\ \A j \in 1 .. i : q[j] = s[j]
      /\ \A j \in 1 .. y : q[i + j] = t[j]
  <2>1. /\ q \in Seq(Entries) /\ Len(q) = Len(a) + Len(t)
        /\ \A j \in 1 .. Len(a) + Len(t) : /\ j <= Len(a) => q[j] = a[j]
                                           /\ j > Len(a) => q[j] = t[j - Len(a)]
    <3>1. a \in Seq(Entries) /\ t \in Seq(Entries)
      BY <1>2
    <3> QED
      BY ONLY <3>1, Joined
  <2>2. /\ \A j \in 1 .. i : j \in 1 .. i + y /\ j <= i
        /\ \A j \in 1 .. y : i + j \in 1 .. i + y /\ i + j > i /\ (i + j) - i = j
    BY <1>1
  <2> HIDE DEF q, y
  <2>3. /\ Len(q) = i + y
        /\ \A j \in 1 .. i + y : /\ j <= i => q[j] = a[j]
                                 /\ j > i => q[j] = t[j - i]
    BY <1>2, <2>1 DEF y
  <2> QED
    BY <1>2, <2>1, <2>2, <2>3
<1> HIDE DEF q, y
<1>5. /\ r \in Seq(Entries) /\ Len(r) = z + y
      /\ \A j \in 1 .. i + y : r[j] = q[j]
      /\ \A j \in i + 1 .. z : r[j + y] = s[j]
  <2>1. /\ r \in Seq(Entries) /\ Len(r) = Len(q) + Len(b)
        /\ \A j \in 1 .. Len(q) + Len(b) : /\ j <= Len(q) => r[j] = q[j]
                                           /\ j > Len(q) => r[j] = b[j - Len(q)]
    <3>1. q \in Seq(Entries) /\ b \in Seq(Entries)
      BY <1>3, <1>4
    <3> QED
      BY ONLY <3>1, Joined
  <2>2. /\ \A j \in 1 .. i + y : j \in 1 .. (i + y) + (z - i) /\ j <= i + y
        /\ \A j \in i + 1 .. z : /\ j + y \in 1 .. (i + y) + (z - i) /\ j + y > i + y
                                 /\ (j + y) - (i + y) = j - i /\ j - i \in 1 .. z - i /\ i + (j - i) = j
        /\ (i + y) + (z - i) = z + y
    <3>1. z \in Nat /\ y \in Nat /\ i \in Nat /\ i <= z
      BY <1>1
    <3>2. \A j \in 1 .. i + y : j \in 1 .. (i + y) + (z - i) /\ j <= i + y
      BY <3>1
    <3>3. \A j \in i + 1 .. z : /\ j + y \in 1 .. (i + y) + (z - i) /\ j + y > i + y
                                /\ (j + y) - (i + y) = j - i /\ j - i \in 1 .. z - i /\ i + (j - i) = j
      BY <3>1
    <3> QED
      BY <3>1, <3>2, <3>3
  <2> HIDE DEF r
  <2>3. /\ Len(r) = (i + y) + (z - i)
        /\ \A j \in 1 .. (i + y) + (z - i) : /\ j <= i + y => r[j] = q[j]
                                             /\ j > i + y => r[j] = b[j - (i + y)]
    BY <1>3, <1>4, <2>1
  <2>4. ASSUME NEW j \in i + 1 .. z PROVE r[j + y] = s[j]
    <3>1. r[j + y] = b[j - i] /\ b[j - i] = s[i + (j - i)]
      BY <1>3, <2>2, <2>3
    <3> QED
      BY <2>2, <3>1
  <2> QED
    BY <2>1, <2>2, <2>3, <2>4
<1>6. (\A j \in 1 .. i : j \in 1 .. i + y) /\ (\A j \in 1 .. y : i + j \in 1 .. i + y)
  BY <1>1
<1>7. Abstract!Insert(s, i, t) = r
  BY DEF Abstract!Insert, r, q, a, b
<1> HIDE DEF r
<1>8. Inserts(r, s, i, t)
  BY <1>4, <1>5, <1>6 DEF Inserts, y, z
<1> QED
  BY <1>7, <1>8

(* The lists of a map G of pointers that differs from F in a few.          *)
LEMMA SpellsSame ==
  ASSUME NEW F, NEW G, NEW h, NEW s, Spells(F, h, s),
         \A j \in 0 .. Len(s) : G[Spot(h, s, j)] = F[Spot(h, s, j)]
  PROVE  Spells(G, h, s)
BY DEF Spells

(* G leads from the i-th object of s through t to the next one.            *)
Joins(F, G, h, s, i, t) ==
  /\ G[Spot(h, s, i)] = t[1]
  /\ \A j \in 1 .. Len(t) - 1 : G[t[j]] = t[j + 1]
  /\ G[t[Len(t)]] = F[Spot(h, s, i)]
  /\ \A j \in 0 .. Len(s) : j # i => G[Spot(h, s, j)] = F[Spot(h, s, j)]

(* A function that joins t behind the i-th object spells the longer list.  *)
LEMMA SpellsInsert ==
  ASSUME NEW F, NEW G, NEW h, NEW s, Spells(F, h, s), NEW i \in 0 .. Len(s),
         NEW t \in Seq(Entries), t # <<>>, NEW r, Inserts(r, s, i, t), Joins(F, G, h, s, i, t)
  PROVE  Spells(G, h, r)
<1> DEFINE z == Len(s)
           y == Len(t)
<1>1. z \in Nat /\ y \in Nat /\ y # 0 /\ i \in Nat /\ i <= z
  <2>1. s \in Seq(Entries)
    BY DEF Spells
  <2>2. Len(t) \in Nat /\ Len(t) # 0
    BY EmptySeq
  <2> QED
    BY <2>1, <2>2
<1>2. \A j \in 0 .. z : F[Spot(h, s, j)] = IF j = z THEN h ELSE s[j + 1]
  BY DEF Spells
<1>3. /\ r \in Seq(Entries) /\ Len(r) = z + y
      /\ \A j \in 1 .. i : r[j] = s[j]
      /\ \A j \in 1 .. y : r[i + j] = t[j]
      /\ \A j \in i + 1 .. z : r[j + y] = s[j]
  BY DEF Inserts
<1>4. /\ G[Spot(h, s, i)] = t[1] /\ (\A j \in 1 .. y - 1 : G[t[j]] = t[j + 1])
      /\ G[t[y]] = F[Spot(h, s, i)]
      /\ \A j \in 0 .. z : j # i => G[Spot(h, s, j)] = F[Spot(h, s, j)]
  BY DEF Joins
<1> HIDE DEF z, y
<1>5. ASSUME NEW k \in 0 .. z + y PROVE G[Spot(h, r, k)] = IF k = z + y THEN h ELSE r[k + 1]
  <2>1. CASE k < i
    <3>1. k \in 0 .. z /\ k # i /\ k # z /\ k # z + y /\ k + 1 \in 1 .. i /\ (k # 0 => k \in 1 .. i)
      BY <1>1, <2>1
    <3>2. Spot(h, r, k) = Spot(h, s, k)
      BY <1>3, <3>1 DEF Spot
    <3>3. G[Spot(h, s, k)] = s[k + 1]
      BY <1>2, <1>4, <3>1
    <3> QED
      BY <1>3, <3>1, <3>2, <3>3
  <2>2. CASE k = i
    <3>1. k # z + y /\ 1 \in 1 .. y /\ (i # 0 => i \in 1 .. i)
      BY <1>1, <2>2
    <3>2. Spot(h, r, i) = Spot(h, s, i)
      BY <1>3, <3>1 DEF Spot
    <3> QED
      BY <1>3, <1>4, <2>2, <3>1, <3>2
  <2>3. CASE i < k /\ k < i + y
    <3>1. PICK j \in 1 .. y - 1 : k = i + j
      <4>1. k - i \in 1 .. y - 1 /\ k = i + (k - i)
        BY <1>1, <2>3
      <4> QED
        BY <4>1
    <3>2. k # z + y /\ k # 0 /\ j \in 1 .. y /\ j + 1 \in 1 .. y /\ k + 1 = i + (j + 1)
      BY <1>1, <3>1
    <3>3. Spot(h, r, k) = t[j] /\ r[k + 1] = t[j + 1]
      BY <1>3, <3>1, <3>2 DEF Spot
    <3> QED
      BY <1>4, <3>2, <3>3
  <2>4. CASE k = i + y
    <3>1. /\ k # 0 /\ y \in 1 .. y /\ (k = z + y <=> i = z) /\ i \in 0 .. z
          /\ i # z => i + 1 \in i + 1 .. z /\ (i + 1) + y = k + 1
      <4>1. z \in Nat /\ y \in Nat /\ y # 0 /\ i \in Nat /\ i <= z /\ k = i + y
        BY <1>1, <2>4
      <4>2. k # 0 /\ y \in 1 .. y /\ (k = z + y <=> i = z) /\ i \in 0 .. z
        BY <4>1
      <4>3. i # z => i + 1 \in i + 1 .. z /\ (i + 1) + y = k + 1
        BY <4>1
      <4> QED
        BY <4>2, <4>3
    <3>2. Spot(h, r, k) = t[y]
      BY <1>3, <2>4, <3>1 DEF Spot
    <3>3. i # z => r[k + 1] = s[i + 1]
      BY <1>3, <3>1
    <3> QED
      BY <1>2, <1>4, <3>1, <3>2, <3>3
  <2>5. CASE i + y < k
    <3>1. PICK j \in i + 1 .. z : k = j + y
      <4>1. k - y \in i + 1 .. z /\ k = (k - y) + y
        BY <1>1, <2>5
      <4> QED
        BY <4>1
    <3>2. /\ k # 0 /\ j # 0 /\ j # i /\ j \in 0 .. z /\ (k = z + y <=> j = z)
          /\ j # z => j + 1 \in i + 1 .. z /\ (j + 1) + y = k + 1
      <4>1. z \in Nat /\ y \in Nat /\ i \in Nat /\ k = j + y /\ j \in i + 1 .. z
        BY <1>1, <3>1
      <4>2. k # 0 /\ j # 0 /\ j # i /\ j \in 0 .. z /\ (k = z + y <=> j = z)
        BY <4>1
      <4>3. j # z => j + 1 \in i + 1 .. z /\ (j + 1) + y = k + 1
        BY <4>1
      <4> QED
        BY <4>2, <4>3
    <3>3. Spot(h, r, k) = s[j] /\ Spot(h, s, j) = s[j] /\ (j # z => r[k + 1] = s[j + 1])
      BY <1>3, <3>1, <3>2 DEF Spot
    <3> QED
      BY <1>2, <1>4, <3>2, <3>3
  <2>6. k < i \/ k = i \/ (i < k /\ k < i + y) \/ k = i + y \/ i + y < k
    <3>1. k \in Int /\ i \in Int /\ y \in Int
      BY <1>1
    <3>2. (k < i \/ k = i \/ i < k) /\ (k < i + y \/ k = i + y \/ i + y < k)
      BY ONLY <3>1
    <3> QED
      BY ONLY <3>2
  <2> QED
    BY <2>1, <2>2, <2>3, <2>4, <2>5, <2>6
<1> QED
  BY <1>3, <1>5 DEF Spells

(* One that leads past the i-th entry spells the list without it.          *)
LEMMA SpellsRemove ==
  ASSUME NEW F, NEW G, NEW h, NEW s, Spells(F, h, s), NEW i \in 1 .. Len(s),
         G[Spot(h, s, i - 1)] = F[s[i]],
         \A j \in 0 .. Len(s) : j # i - 1 /\ j # i => G[Spot(h, s, j)] = F[Spot(h, s, j)]
  PROVE  Spells(G, h, RemoveAt(s, i))
<1> DEFINE z == Len(s)
           r == RemoveAt(s, i)
<1>1. s \in Seq(Entries) /\ z \in Nat /\ i \in 1 .. z
  BY DEF Spells
<1>2. \A j \in 0 .. z : F[Spot(h, s, j)] = IF j = z THEN h ELSE s[j + 1]
  BY DEF Spells
<1>3. /\ r \in Seq(Entries) /\ Len(r) = z - 1
      /\ \A j \in 1 .. z - 1 : r[j] = IF j < i THEN s[j] ELSE s[j + 1]
  BY <1>1, RemovedAt
<1> HIDE DEF z, r
<1>4. G[Spot(h, s, i - 1)] = F[s[i]] /\ Spot(h, s, i) = s[i]
  BY <1>1 DEF Spot
<1>5. ASSUME NEW k \in 0 .. z - 1 PROVE G[Spot(h, r, k)] = IF k = z - 1 THEN h ELSE r[k + 1]
  <2>1. CASE k < i - 1
    <3>1. /\ k \in 0 .. z /\ k # i - 1 /\ k # i /\ k # z /\ k # z - 1 /\ k + 1 \in 1 .. z - 1 /\ k + 1 < i
          /\ k # 0 => k \in 1 .. z - 1 /\ k < i
      BY <1>1, <2>1
    <3>2. Spot(h, r, k) = Spot(h, s, k) /\ r[k + 1] = s[k + 1]
      BY <1>3, <3>1 DEF Spot
    <3>3. G[Spot(h, s, k)] = s[k + 1]
      BY <1>2, <3>1 DEF z
    <3> QED
      BY <3>1, <3>2, <3>3
  <2>2. CASE k = i - 1
    <3>1. /\ k + 1 = i /\ (k = z - 1 <=> i = z) /\ i \in 0 .. z
          /\ k # 0 => k \in 1 .. z - 1 /\ k < i
          /\ i # z => i \in 1 .. z - 1 /\ ~(i < i)
      BY <1>1, <2>2
    <3>2. Spot(h, r, k) = Spot(h, s, k) /\ (i # z => r[i] = s[i + 1])
      BY <1>3, <3>1 DEF Spot
    <3>3. F[s[i]] = IF i = z THEN h ELSE s[i + 1]
      BY <1>2, <1>4, <3>1
    <3> QED
      BY <1>4, <2>2, <3>1, <3>2, <3>3
  <2>3. CASE k > i - 1
    <3>1. /\ k # 0 /\ k \in 1 .. z - 1 /\ ~(k < i) /\ k + 1 \in 0 .. z /\ k + 1 # i - 1 /\ k + 1 # i /\ k + 1 # 0
          /\ k = z - 1 <=> k + 1 = z
          /\ k # z - 1 => k + 1 \in 1 .. z - 1 /\ ~(k + 1 < i)
      BY <1>1, <2>3
    <3>2. Spot(h, r, k) = s[k + 1] /\ Spot(h, s, k + 1) = s[k + 1] /\ (k # z - 1 => r[k + 1] = s[(k + 1) + 1])
      BY <1>3, <3>1 DEF Spot
    <3>3. G[s[k + 1]] = IF k + 1 = z THEN h ELSE s[(k + 1) + 1]
      BY <1>2, <3>1, <3>2 DEF z
    <3> QED
      BY <3>1, <3>2, <3>3
  <2>4. k < i - 1 \/ k = i - 1 \/ k > i - 1
    BY <1>1
  <2> QED
    BY <2>1, <2>2, <2>3, <2>4
<1>6. Spells(G, h, r)
  BY <1>3, <1>5 DEF Spells
<1> QED
  BY <1>6 DEF r

(* One that leads through e instead spells the list with e in its place.   *)
LEMMA SpellsReplace ==
  ASSUME NEW F, NEW G, NEW h, NEW s, Spells(F, h, s), NEW i \in 1 .. Len(s), NEW e \in Entries,
         G[Spot(h, s, i - 1)] = e, G[e] = F[s[i]],
         \A j \in 0 .. Len(s) : j # i - 1 /\ j # i => G[Spot(h, s, j)] = F[Spot(h, s, j)]
  PROVE  Spells(G, h, ReplaceAt(s, i, e))
<1> DEFINE z == Len(s)
           r == ReplaceAt(s, i, e)
<1>1. s \in Seq(Entries) /\ z \in Nat /\ i \in 1 .. z
  BY DEF Spells
<1>2. \A j \in 0 .. z : F[Spot(h, s, j)] = IF j = z THEN h ELSE s[j + 1]
  BY DEF Spells
<1>3. r \in Seq(Entries) /\ Len(r) = z /\ \A j \in 1 .. z : r[j] = IF j = i THEN e ELSE s[j]
  BY <1>1 DEF ReplaceAt
<1> HIDE DEF z, r
<1>4. Spot(h, s, i) = s[i]
  BY <1>1 DEF Spot
<1>5. ASSUME NEW k \in 0 .. z PROVE G[Spot(h, r, k)] = IF k = z THEN h ELSE r[k + 1]
  <2>1. CASE k = i - 1
    <3>1. k + 1 = i /\ k # z /\ (k # 0 => k \in 1 .. z /\ k # i)
      BY <1>1, <2>1
    <3>2. Spot(h, r, k) = Spot(h, s, i - 1) /\ r[k + 1] = e
      BY <1>1, <1>3, <2>1, <3>1 DEF Spot
    <3> QED
      BY <3>1, <3>2
  <2>2. CASE k = i
    <3>1. k # 0 /\ (k # z => k + 1 \in 1 .. z /\ k + 1 # i)
      BY <1>1, <2>2
    <3>2. Spot(h, r, k) = e /\ (k # z => r[k + 1] = s[k + 1])
      BY <1>1, <1>3, <2>2, <3>1 DEF Spot
    <3>3. F[s[i]] = IF k = z THEN h ELSE s[k + 1]
      BY <1>2, <1>4, <2>2
    <3> QED
      BY <3>2, <3>3
  <2>3. CASE k # i - 1 /\ k # i
    <3>1. (k # 0 => k \in 1 .. z) /\ (k # z => k + 1 \in 1 .. z /\ k + 1 # i)
      BY <1>1, <2>3
    <3>2. Spot(h, r, k) = Spot(h, s, k) /\ (k # z => r[k + 1] = s[k + 1])
      BY <1>3, <2>3, <3>1 DEF Spot
    <3>3. G[Spot(h, s, k)] = IF k = z THEN h ELSE s[k + 1]
      BY <1>2, <2>3 DEF z
    <3> QED
      BY <3>2, <3>3
  <2> QED
    BY <2>1, <2>2, <2>3
<1>6. Spells(G, h, r)
  BY <1>3, <1>5 DEF Spells
<1> QED
  BY <1>6 DEF r

(* The front of a list, cut off and closed with the head l.                *)
LEMMA SpellsFront ==
  ASSUME NEW F, NEW G, NEW h, NEW l, NEW s, Spells(F, h, s), NEW i \in 1 .. Len(s),
         G[l] = s[1], G[s[i]] = l, \A j \in 1 .. i - 1 : G[s[j]] = F[s[j]]
  PROVE  Spells(G, l, SubSeq(s, 1, i))
<1> DEFINE z == Len(s)
           r == SubSeq(s, 1, i)
<1>1. s \in Seq(Entries) /\ z \in Nat /\ i \in 1 .. z /\ i \in Nat
  BY DEF Spells
<1>2. \A j \in 0 .. z : F[Spot(h, s, j)] = IF j = z THEN h ELSE s[j + 1]
  BY DEF Spells
<1>3. r \in Seq(Entries) /\ Len(r) = i /\ \A j \in 1 .. i : r[j] = s[j]
  <2>1. s \in Seq(Entries) /\ 1 \in 1 .. Len(s) + 1 /\ i \in 0 .. Len(s) /\ 1 <= i + 1
    BY <1>1
  <2>2. r \in Seq(Entries) /\ Len(r) = i - 1 + 1 /\ \A j \in 1 .. i - 1 + 1 : r[j] = s[1 + j - 1]
    BY ONLY <2>1, Part
  <2>3. i - 1 + 1 = i /\ \A j \in 1 .. i : 1 + j - 1 = j
    BY <1>1
  <2> QED
    BY <2>2, <2>3
<1> HIDE DEF z, r
<1>4. ASSUME NEW k \in 0 .. i PROVE G[Spot(l, r, k)] = IF k = i THEN l ELSE r[k + 1]
  <2>1. CASE k = 0
    <3>1. i # 0 /\ 1 \in 1 .. i
      BY <1>1
    <3> QED
      BY <1>3, <2>1, <3>1 DEF Spot
  <2>2. CASE k = i
    <3>1. i # 0 /\ i \in 1 .. i
      BY <1>1
    <3> QED
      BY <1>3, <2>2, <3>1 DEF Spot
  <2>3. CASE k # 0 /\ k # i
    <3>1. k \in 1 .. i - 1 /\ k \in 1 .. i /\ k + 1 \in 1 .. i /\ k \in 0 .. z /\ k # z
      BY <1>1, <2>3
    <3>2. F[s[k]] = s[k + 1]
      BY <1>2, <2>3, <3>1 DEF Spot
    <3> QED
      BY <1>3, <2>3, <3>1, <3>2 DEF Spot
  <2> QED
    BY <2>1, <2>2, <2>3
<1>5. Spells(G, l, r)
  BY <1>3, <1>4 DEF Spells
<1> QED
  BY <1>5 DEF r

(* What is left of a list whose front is cut off.                          *)
LEMMA SpellsBack ==
  ASSUME NEW F, NEW G, NEW h, NEW s, Spells(F, h, s), NEW i \in 1 .. Len(s),
         G[h] = F[s[i]], \A j \in i + 1 .. Len(s) : G[s[j]] = F[s[j]]
  PROVE  Spells(G, h, SubSeq(s, i + 1, Len(s)))
<1> DEFINE z == Len(s)
           r == SubSeq(s, i + 1, z)
<1>1. s \in Seq(Entries) /\ z \in Nat /\ i \in 1 .. z /\ i \in Nat
  BY DEF Spells
<1>2. \A j \in 0 .. z : F[Spot(h, s, j)] = IF j = z THEN h ELSE s[j + 1]
  BY DEF Spells
<1>3. r \in Seq(Entries) /\ Len(r) = z - i /\ \A j \in 1 .. z - i : r[j] = s[i + j]
  <2> DEFINE a1 == i + 1
  <2>1. s \in Seq(Entries) /\ a1 \in 1 .. Len(s) + 1 /\ z \in 0 .. Len(s) /\ a1 <= z + 1
    BY <1>1
  <2> HIDE DEF a1, z
  <2>2. /\ SubSeq(s, a1, z) \in Seq(Entries) /\ Len(SubSeq(s, a1, z)) = z - a1 + 1
        /\ \A j \in 1 .. z - a1 + 1 : SubSeq(s, a1, z)[j] = s[a1 + j - 1]
    BY ONLY <2>1, Part
  <2>3. z - a1 + 1 = z - i /\ \A j \in 1 .. z - i : a1 + j - 1 = i + j
    BY <1>1 DEF a1
  <2>4. r = SubSeq(s, a1, z)
    BY DEF a1
  <2> QED
    BY <2>2, <2>3, <2>4
<1>4. \A j \in i + 1 .. z : G[s[j]] = F[s[j]]
  OBVIOUS
<1> HIDE DEF z, r
<1>5. ASSUME NEW k \in 0 .. z - i PROVE G[Spot(h, r, k)] = IF k = z - i THEN h ELSE r[k + 1]
  <2>1. /\ i + k \in 0 .. z /\ i + k # 0 /\ (k = z - i <=> i + k = z) /\ (i + k) + 1 = i + (k + 1)
        /\ k # z - i => k + 1 \in 1 .. z - i
        /\ k # 0 => k \in 1 .. z - i /\ i + k \in i + 1 .. z
        /\ i + 0 = i
    BY <1>1
  <2>2. F[s[i + k]] = IF k = z - i THEN h ELSE r[k + 1]
    BY <1>2, <1>3, <2>1 DEF Spot
  <2>3. G[Spot(h, r, k)] = F[s[i + k]]
    BY <1>3, <1>4, <2>1 DEF Spot
  <2> QED
    BY <2>2, <2>3
<1>6. Spells(G, h, r)
  BY <1>3, <1>5 DEF Spells
<1> QED
  BY <1>6 DEF r, z

(* The places of the lists, all different.                                 *)
LEMMA Listed ==
  ASSUME NEW mem, NEW S, NEW ls, Reads(mem, S, ls)
  PROVE  /\ \A h \in Heads \cap S :
              /\ ls[h] \in Seq(Entries) /\ Len(ls[h]) \in Nat /\ Spells(mem.next, h, ls[h])
              /\ \A i \in 0 .. Len(ls[h]) : Spot(h, ls[h], i) \in S
              /\ \A i \in 1 .. Len(ls[h]) :
                   /\ ls[h][i] \in Entries /\ ls[h][i] \in S
                   /\ Spot(h, ls[h], i) = ls[h][i] /\ mem.prev[ls[h][i]] = Spot(h, ls[h], i - 1)
              /\ mem.prev[h] = Spot(h, ls[h], Len(ls[h]))
         /\ \A h, g \in Heads \cap S : \A i \in 0 .. Len(ls[h]), j \in 0 .. Len(ls[g]) :
              Spot(h, ls[h], i) = Spot(g, ls[g], j) => h = g /\ i = j
<1>1. Rings(mem, S) /\ \A h \in Heads \cap S : Spells(mem.next, h, ls[h])
  BY DEF Reads
<1>2. ASSUME NEW h \in Heads \cap S
      PROVE  /\ ls[h] \in Seq(Entries) /\ Len(ls[h]) \in Nat /\ Spells(mem.next, h, ls[h])
             /\ \A i \in 0 .. Len(ls[h]) : Spot(h, ls[h], i) \in S
             /\ \A i \in 1 .. Len(ls[h]) :
                  /\ ls[h][i] \in Entries /\ ls[h][i] \in S
                  /\ Spot(h, ls[h], i) = ls[h][i] /\ mem.prev[ls[h][i]] = Spot(h, ls[h], i - 1)
             /\ mem.prev[h] = Spot(h, ls[h], Len(ls[h]))
  <2>1. /\ ls[h] \in Seq(Entries) /\ Len(ls[h]) \in Nat /\ Spells(mem.next, h, ls[h])
        /\ \A i \in 0 .. Len(ls[h]) : Spot(h, ls[h], i) \in S
        /\ \A i \in 1 .. Len(ls[h]) :
             ls[h][i] \in Entries /\ ls[h][i] \in S /\ mem.prev[ls[h][i]] = Spot(h, ls[h], i - 1)
        /\ mem.prev[h] = Spot(h, ls[h], Len(ls[h]))
    BY <1>1, Spots
  <2>2. \A i \in 1 .. Len(ls[h]) : i # 0
    BY <2>1
  <2> QED
    BY <2>1, <2>2 DEF Spot
<1>3. ASSUME NEW h \in Heads \cap S, NEW g \in Heads \cap S,
             NEW i \in 0 .. Len(ls[h]), NEW j \in 0 .. Len(ls[g]), Spot(h, ls[h], i) = Spot(g, ls[g], j)
      PROVE  h = g /\ i = j
  BY <1>1, <1>3, SpotsApart
<1> QED
  BY <1>2, <1>3

(* An entry in a list is not in a ring of its own, and an object that may  *)
(* be made a new entry or head has no list and is in none.                 *)
LEMMA NotAlone ==
  ASSUME NEW mem, NEW S, NEW ls, Reads(mem, S, ls), NEW h \in Heads \cap S, NEW i \in 1 .. Len(ls[h])
  PROVE  mem.next[ls[h][i]] # ls[h][i]
<1>1. /\ Len(ls[h]) \in Nat /\ ls[h][i] \in Entries /\ Spot(h, ls[h], i) = ls[h][i]
      /\ \A k \in 0 .. Len(ls[h]) : mem.next[Spot(h, ls[h], k)] = IF k = Len(ls[h]) THEN h ELSE ls[h][k + 1]
  BY Listed DEF Spells
<1>2. i \in 0 .. Len(ls[h]) /\ (i # Len(ls[h]) => i + 1 \in 1 .. Len(ls[h]) /\ i + 1 \in 0 .. Len(ls[h]) /\ i # i + 1)
  BY <1>1
<1>3. i # Len(ls[h]) => Spot(h, ls[h], i) # ls[h][i + 1]
  <2>1. i # Len(ls[h]) => Spot(h, ls[h], i + 1) = ls[h][i + 1] /\ Spot(h, ls[h], i) # Spot(h, ls[h], i + 1)
    BY <1>2, Listed
  <2> QED
    BY <2>1
<1>4. h \notin Entries
  BY ObjectsAssumption
<1> QED
  BY <1>1, <1>2, <1>3, <1>4

(* A free object is in no list but its own, which is empty.                *)
LEMMA FreeUnlisted ==
  ASSUME NEW mem, NEW S, NEW ls, Reads(mem, S, ls), NEW e \in Objects, Free(mem, S, e)
  PROVE  /\ \A h \in Heads \cap S : ~In(ls[h], e)
         /\ e \in Heads \cap S => ls[e] = <<>>
<1>1. ASSUME NEW h \in Heads \cap S, NEW i \in 1 .. Len(ls[h]), ls[h][i] = e PROVE FALSE
  <2>1. e \in S /\ mem.next[e] # e
    BY <1>1, Listed, NotAlone
  <2> QED
    BY <2>1 DEF Free
<1>2. ASSUME e \in Heads \cap S PROVE ls[e] = <<>>
  <2>1. /\ mem.next[e] = e /\ e \notin Entries
        /\ ls[e] \in Seq(Entries) /\ Len(ls[e]) \in Nat /\ Spells(mem.next, e, ls[e])
    BY <1>2, ObjectsAssumption, Listed DEF Free
  <2>2. mem.next[e] = IF 0 = Len(ls[e]) THEN e ELSE ls[e][1]
    <3>1. 0 \in 0 .. Len(ls[e])
      BY <2>1
    <3> QED
      BY <2>1, <3>1 DEF Spells, Spot
  <2>3. Len(ls[e]) # 0 => 1 \in 1 .. Len(ls[e])
    BY <2>1
  <2>4. Len(ls[e]) = 0
    BY <1>2, <2>1, <2>2, <2>3, Listed
  <2> QED
    BY <2>1, <2>4, EmptySeq
<1> QED
  BY <1>1, <1>2 DEF In

(* A change among entries that are in no list.                             *)
LEMMA ReadsOutside ==
  ASSUME NEW mem, NEW S, NEW ls, Reads(mem, S, ls), NEW X \in SUBSET Entries,
         \A h \in Heads \cap S : \A e \in X : ~In(ls[h], e),
         NEW r, NEW T, Rings(r, T), T \ X = S \ X,
         \A o \in S \ X : r.next[o] = mem.next[o],
         \A o \in X \cap T : r.next[o] = o
  PROVE  Reads(r, T, ls)
<1>1. \A h \in Heads : h \in S <=> h \in T
  BY ObjectsAssumption
<1>2. ASSUME NEW h \in Heads \cap T PROVE Spells(r.next, h, ls[h])
  <2>1. h \in Heads \cap S
    BY <1>1
  <2>2. ASSUME NEW i \in 0 .. Len(ls[h]) PROVE r.next[Spot(h, ls[h], i)] = mem.next[Spot(h, ls[h], i)]
    <3>1. Spot(h, ls[h], i) \in S
      BY <2>1, Listed
    <3>2. Spot(h, ls[h], i) \notin X
      <4>1. CASE i = 0
        BY <4>1, ObjectsAssumption DEF Spot
      <4>2. CASE i # 0
        <5>1. i \in 1 .. Len(ls[h])
          BY <2>1, <4>2, Listed
        <5> QED
          BY <2>1, <4>2, <5>1 DEF Spot, In
      <4> QED
        BY <4>1, <4>2
    <3> QED
      BY <3>1, <3>2
  <2>3. Spells(mem.next, h, ls[h])
    BY <2>1, Listed
  <2> QED
    BY <2>2, <2>3, SpellsSame
<1>3. ASSUME NEW e \in Entries \cap T PROVE r.next[e] = e \/ \E h \in Heads \cap T : In(ls[h], e)
  <2>1. CASE e \in X
    BY <2>1
  <2>2. CASE e \notin X
    <3>1. e \in Entries \cap S /\ r.next[e] = mem.next[e]
      BY <2>2
    <3> QED
      BY <1>1, <3>1 DEF Reads
  <2> QED
    BY <2>1, <2>2
<1>4. /\ ls \in [Heads -> Seq(Entries) \cup {POISON}]
      /\ \A h \in Heads : ls[h] = POISON <=> h \notin T
  BY <1>1 DEF Reads
<1> QED
  BY <1>2, <1>3, <1>4 DEF Reads

(* A head without a list gets an empty one.                                *)
LEMMA ReadsEmptied ==
  ASSUME NEW mem, NEW S, NEW ls, Reads(mem, S, ls), NEW e \in Heads, Free(mem, S, e)
  PROVE  Reads(INIT_LIST_HEAD(mem, e), S \cup {e}, [ls EXCEPT ![e] = <<>>])
<1> DEFINE r == INIT_LIST_HEAD(mem, e)
           T == S \cup {e}
           k == [ls EXCEPT ![e] = <<>>]
<1>1. e \in Objects /\ Rings(mem, S)
  BY DEF Objects, Reads
<1>2. Rings(r, T)
  BY <1>1, InitRings
<1>3. (\A h \in Heads \cap S : ~In(ls[h], e)) /\ (e \in S => ls[e] = <<>>)
  BY <1>1, FreeUnlisted
<1>4. r.next[e] = e /\ \A o \in Objects : o # e => r.next[o] = mem.next[o]
  BY <1>1 DEF INIT_LIST_HEAD, Rings, Memories
<1>5. /\ ls \in [Heads -> Seq(Entries) \cup {POISON}] /\ <<>> \in Seq(Entries) /\ POISON # <<>>
  <2>1. <<>> \in Seq(Entries)
    OBVIOUS
  <2> QED
    BY <2>1, ObjectsAssumption DEF Reads
<1>6. /\ k \in [Heads -> Seq(Entries) \cup {POISON}]
      /\ k[e] = <<>> /\ \A h \in Heads : h # e => k[h] = ls[h]
  BY <1>5
<1> HIDE DEF r, k
<1>7. \A h \in Heads : k[h] = POISON <=> h \notin T
  BY <1>5, <1>6 DEF Reads
<1>8. ASSUME NEW h \in Heads \cap T PROVE Spells(r.next, h, k[h])
  <2>1. CASE h = e
    <3>1. Len(<<>>) = 0 /\ <<>> \in Seq(Entries) /\ 0 .. 0 = {0}
      OBVIOUS
    <3> QED
      BY <1>4, <1>6, <2>1, <3>1 DEF Spells, Spot
  <2>2. CASE h # e
    <3>1. h \in Heads \cap S /\ k[h] = ls[h]
      BY <1>6, <2>2
    <3>2. Spells(mem.next, h, ls[h]) /\ Len(ls[h]) \in Nat
      BY <3>1, Listed
    <3>3. ASSUME NEW i \in 0 .. Len(ls[h]) PROVE r.next[Spot(h, ls[h], i)] = mem.next[Spot(h, ls[h], i)]
      <4>1. Spot(h, ls[h], i) \in Objects
        BY <1>1, <3>1, Listed DEF Rings
      <4>2. Spot(h, ls[h], i) # e
        <5>1. i # 0 => i \in 1 .. Len(ls[h])
          BY <3>2
        <5> QED
          BY <1>3, <2>2, <3>1, <5>1 DEF Spot, In
      <4> QED
        BY <1>4, <4>1, <4>2
    <3> QED
      BY <3>1, <3>2, <3>3, SpellsSame
  <2> QED
    BY <2>1, <2>2
<1>9. ASSUME NEW o \in Entries \cap T PROVE r.next[o] = o \/ \E h \in Heads \cap T : In(k[h], o)
  <2>1. o \in Entries \cap S /\ o # e /\ o \in Objects
    BY ObjectsAssumption DEF Objects
  <2>2. r.next[o] = mem.next[o]
    BY <1>4, <2>1
  <2>3. mem.next[o] = o \/ \E h \in Heads \cap S : In(ls[h], o)
    BY <2>1 DEF Reads
  <2>4. ASSUME NEW h \in Heads \cap S, In(ls[h], o) PROVE \E g \in Heads \cap T : In(k[g], o)
    <3>1. h # e
      <4>1. ~In(<<>>, o)
        BY DEF In
      <4> QED
        BY <1>3, <2>4, <4>1
    <3> QED
      BY <1>6, <2>4, <3>1
  <2> QED
    BY <2>2, <2>3, <2>4
<1>10. Reads(r, T, k)
  BY <1>2, <1>6, <1>7, <1>8, <1>9 DEF Reads
<1> QED
  BY <1>10 DEF r, k

(* The first object of a list is its head, the others are its entries.     *)
LEMMA SpotIs ==
  ASSUME NEW mem, NEW S, NEW ls, Reads(mem, S, ls), NEW h \in Heads \cap S, NEW j \in 0 .. Len(ls[h])
  PROVE  /\ \/ j = 0 /\ Spot(h, ls[h], j) = h /\ Spot(h, ls[h], j) \notin Entries
            \/ /\ j \in 1 .. Len(ls[h]) /\ Spot(h, ls[h], j) = ls[h][j]
               /\ Spot(h, ls[h], j) \in Entries /\ Spot(h, ls[h], j) \notin Heads /\ In(ls[h], Spot(h, ls[h], j))
         /\ mem.next[Spot(h, ls[h], j)] = IF j = Len(ls[h]) THEN h ELSE ls[h][j + 1]
         /\ Spot(h, ls[h], j) \in S /\ Spot(h, ls[h], j) \in Objects
<1>1. Heads \cap Entries = {} /\ S \subseteq Objects
  BY ObjectsAssumption DEF Reads, Rings
<1>2. /\ Len(ls[h]) \in Nat /\ Spells(mem.next, h, ls[h]) /\ Spot(h, ls[h], j) \in S
      /\ \A i \in 1 .. Len(ls[h]) : ls[h][i] \in Entries /\ Spot(h, ls[h], i) = ls[h][i]
  BY Listed
<1>3. mem.next[Spot(h, ls[h], j)] = IF j = Len(ls[h]) THEN h ELSE ls[h][j + 1]
  BY <1>2 DEF Spells
<1>4. CASE j = 0
  BY <1>1, <1>2, <1>3, <1>4 DEF Spot
<1>5. CASE j # 0
  <2>1. j \in 1 .. Len(ls[h])
    BY <1>2, <1>5
  <2> QED
    BY <1>1, <1>2, <1>3, <2>1 DEF In
<1> QED
  BY <1>4, <1>5

(* A step that changes the lists of the heads D and the pointers of W.     *)
Changes(mem, S, ls, r, T, k, D, W) ==
  /\ Rings(r, T) /\ D \in SUBSET Heads /\ k \in [Heads -> Seq(Entries) \cup {POISON}]
  /\ \A g \in D : k[g] = POISON <=> g \notin T
  /\ \A g \in D \cap T : Spells(r.next, g, k[g])
  /\ \A g \in Heads \ D : k[g] = ls[g] /\ (g \in S <=> g \in T)
  /\ \A o \in Objects \ W : r.next[o] = mem.next[o]
  /\ \A g \in (Heads \cap S) \ D : \A j \in 0 .. Len(ls[g]) : Spot(g, ls[g], j) \notin W
  /\ \A o \in Entries \cap T :
       o \in W \/ o \notin S \/ (\E g \in D \cap S : In(ls[g], o))
         => r.next[o] = o \/ \E g \in D \cap T : In(k[g], o)

(* A call that changes the rings and lists as Changes says keeps Reads.    *)
LEMMA ReadsStep ==
  ASSUME NEW mem, NEW S, NEW ls, Reads(mem, S, ls), NEW r, NEW T, NEW k, NEW D, NEW W,
         Changes(mem, S, ls, r, T, k, D, W)
  PROVE  Reads(r, T, k)
<1>0. /\ Rings(r, T) /\ D \in SUBSET Heads /\ k \in [Heads -> Seq(Entries) \cup {POISON}]
      /\ \A g \in D : k[g] = POISON <=> g \notin T
      /\ \A g \in D \cap T : Spells(r.next, g, k[g])
      /\ \A g \in Heads \ D : k[g] = ls[g] /\ (g \in S <=> g \in T)
      /\ \A o \in Objects \ W : r.next[o] = mem.next[o]
      /\ \A g \in (Heads \cap S) \ D : \A j \in 0 .. Len(ls[g]) : Spot(g, ls[g], j) \notin W
      /\ \A o \in Entries \cap T :
           o \in W \/ o \notin S \/ (\E g \in D \cap S : In(ls[g], o))
             => r.next[o] = o \/ \E g \in D \cap T : In(k[g], o)
  BY DEF Changes
<1>1. \A g \in Heads : k[g] = POISON <=> g \notin T
  BY <1>0 DEF Reads
<1>2. ASSUME NEW g \in Heads \cap T PROVE Spells(r.next, g, k[g])
  <2>1. CASE g \in D
    BY <1>0, <2>1
  <2>2. CASE g \notin D
    <3>1. g \in Heads \cap S /\ k[g] = ls[g] /\ g \in (Heads \cap S) \ D
      BY <1>0, <2>2
    <3>2. Spells(mem.next, g, ls[g])
      BY <3>1, Listed
    <3>3. ASSUME NEW j \in 0 .. Len(ls[g]) PROVE r.next[Spot(g, ls[g], j)] = mem.next[Spot(g, ls[g], j)]
      <4>1. Spot(g, ls[g], j) \in Objects
        BY <3>1, SpotIs
      <4> QED
        BY <1>0, <3>1, <4>1
    <3> QED
      BY <3>1, <3>2, <3>3, SpellsSame
  <2> QED
    BY <2>1, <2>2
<1>3. ASSUME NEW o \in Entries \cap T PROVE r.next[o] = o \/ \E g \in Heads \cap T : In(k[g], o)
  <2>1. CASE o \in W \/ o \notin S \/ \E g \in D \cap S : In(ls[g], o)
    BY <1>0, <2>1
  <2>2. CASE o \notin W /\ o \in S /\ ~\E g \in D \cap S : In(ls[g], o)
    <3>1. r.next[o] = mem.next[o]
      BY <1>0, <2>2 DEF Objects
    <3>2. mem.next[o] = o \/ \E g \in Heads \cap S : In(ls[g], o)
      BY <2>2 DEF Reads
    <3>3. ASSUME NEW g \in Heads \cap S, In(ls[g], o) PROVE \E f \in Heads \cap T : In(k[f], o)
      <4>1. g \notin D
        BY <2>2, <3>3
      <4> QED
        BY <1>0, <3>3, <4>1
    <3> QED
      BY <3>1, <3>2, <3>3
  <2> QED
    BY <2>1, <2>2
<1> QED
  BY <1>0, <1>1, <1>2, <1>3 DEF Reads

(* What is in a sequence stays there, and what is inserted is there.       *)
LEMMA InsertHas ==
  ASSUME NEW q, NEW s \in Seq(Entries), NEW t \in Seq(Entries), NEW i \in 0 .. Len(s), Inserts(q, s, i, t),
         NEW o, In(s, o) \/ In(t, o)
  PROVE  In(q, o)
<1> DEFINE z == Len(s)
           y == Len(t)
<1>1. z \in Nat /\ y \in Nat /\ i \in 0 .. z
  OBVIOUS
<1>2. /\ Len(q) = z + y
      /\ \A j \in 1 .. i : q[j] = s[j]
      /\ \A j \in 1 .. y : q[i + j] = t[j]
      /\ \A j \in i + 1 .. z : q[j + y] = s[j]
  BY DEF Inserts
<1>3. (\E j \in 1 .. z : s[j] = o) \/ (\E j \in 1 .. y : t[j] = o)
  BY DEF In
<1> HIDE DEF z, y
<1>4. ASSUME NEW j \in 1 .. y, t[j] = o PROVE \E a \in 1 .. z + y : q[a] = o
  <2>1. i + j \in 1 .. z + y
    BY <1>1
  <2> QED
    BY <1>2, <1>4, <2>1
<1>5. ASSUME NEW j \in 1 .. z, s[j] = o PROVE \E a \in 1 .. z + y : q[a] = o
  <2>1. CASE j <= i
    <3>1. j \in 1 .. i /\ j \in 1 .. z + y
      BY <1>1, <2>1
    <3> QED
      BY <1>2, <1>5, <3>1
  <2>2. CASE j > i
    <3>1. j \in i + 1 .. z /\ j + y \in 1 .. z + y
      BY <1>1, <2>2
    <3> QED
      BY <1>2, <1>5, <3>1
  <2>3. j <= i \/ j > i
    BY <1>1
  <2> QED
    BY <2>1, <2>2, <2>3
<1> QED
  BY <1>2, <1>3, <1>4, <1>5 DEF In

(* __list_add of a free entry behind the i-th entry of the list of h.      *)
LEMMA ReadsAdd ==
  ASSUME NEW mem, NEW S, NEW ls, Reads(mem, S, ls), NEW h \in Heads \cap S, NEW i \in 0 .. Len(ls[h]),
         NEW e \in Entries, Free(mem, S, e)
  PROVE  Reads(__list_add(mem, e, Spot(h, ls[h], i), mem.next[Spot(h, ls[h], i)]), S \cup {e},
               [ls EXCEPT ![h] = Abstract!Insert(@, i, <<e>>)])
<1> DEFINE p == Spot(h, ls[h], i)
           r == __list_add(mem, e, p, mem.next[p])
           T == S \cup {e}
           t == <<e>>
           q == Abstract!Insert(ls[h], i, t)
           k == [ls EXCEPT ![h] = q]
<1>1. Rings(mem, S) /\ e \in Objects /\ ls \in [Heads -> Seq(Entries) \cup {POISON}]
  BY DEF Reads, Objects
<1>2. \A g \in Heads \cap S : ~In(ls[g], e)
  BY <1>1, FreeUnlisted
<1>3. p \in S /\ p \in Objects /\ p # e
  BY <1>2, SpotIs
<1>4. Rings(r, T)
  BY <1>1, <1>3, AddRings
<1>5. ls[h] \in Seq(Entries) /\ t \in Seq(Entries) /\ Len(t) = 1 /\ t[1] = e /\ t # <<>>
  BY Listed
<1>6. Inserts(q, ls[h], i, t) /\ q \in Seq(Entries) /\ q # POISON
  <2>1. Inserts(q, ls[h], i, t)
    BY <1>5, InsertIs
  <2>2. q \in Seq(Entries)
    BY <2>1 DEF Inserts
  <2> QED
    BY <2>1, <2>2, ObjectsAssumption
<1>7. r.next[p] = e /\ r.next[e] = mem.next[p] /\ \A o \in Objects \ {p, e} : r.next[o] = mem.next[o]
  BY <1>1, <1>3 DEF __list_add, Rings, Memories
<1> HIDE DEF p, r, q, t
<1>8. k \in [Heads -> Seq(Entries) \cup {POISON}] /\ k[h] = q /\ \A g \in Heads \ {h} : k[g] = ls[g]
  BY <1>1, <1>6
<1>9. Spells(r.next, h, k[h])
  <2>1. Spells(mem.next, h, ls[h])
    BY Listed
  <2>2. \A j \in 0 .. Len(ls[h]) : j # i => r.next[Spot(h, ls[h], j)] = mem.next[Spot(h, ls[h], j)]
    <3>1. ASSUME NEW j \in 0 .. Len(ls[h]), j # i PROVE Spot(h, ls[h], j) \in Objects \ {p, e}
      BY <1>2, <3>1, SpotIs, Listed DEF p
    <3> QED
      BY <1>7, <3>1
  <2>3. Joins(mem.next, r.next, h, ls[h], i, t)
    <3>1. r.next[Spot(h, ls[h], i)] = t[1] /\ r.next[t[Len(t)]] = mem.next[Spot(h, ls[h], i)]
      BY <1>5, <1>7 DEF p
    <3>2. \A j \in 1 .. Len(t) - 1 : r.next[t[j]] = t[j + 1]
      BY <1>5
    <3> QED
      BY <2>2, <3>1, <3>2 DEF Joins
  <2>4. Spells(r.next, h, q)
    BY <1>5, <1>6, <2>1, <2>3, SpellsInsert
  <2> QED
    BY <1>8, <2>4
<1> HIDE DEF k
<1>10. ASSUME NEW g \in (Heads \cap S) \ {h}, NEW j \in 0 .. Len(ls[g]) PROVE Spot(g, ls[g], j) \notin {p, e}
  <2>1. Spot(g, ls[g], j) # e
    BY <1>2, SpotIs
  <2>2. Spot(g, ls[g], j) # p
    BY Listed DEF p
  <2> QED
    BY <2>1, <2>2
<1>11. ASSUME NEW o \in Entries, o \in {p, e} \/ o \notin S \/ In(ls[h], o), o \in T PROVE In(k[h], o)
  <2>1. In(t, e)
    BY <1>5 DEF In
  <2>2. o = e \/ In(ls[h], o)
    BY <1>11, SpotIs DEF p
  <2> QED
    BY <1>5, <1>6, <1>8, <2>1, <2>2, InsertHas
<1>12. \A g \in Heads : g \in S <=> g \in T
  BY ObjectsAssumption
<1>13. Reads(r, T, k)
  <2>1. k[h] = POISON <=> h \notin T
    BY <1>6, <1>8
  <2>2. Changes(mem, S, ls, r, T, k, {h}, {p, e})
    BY <1>4, <1>7, <1>8, <1>9, <1>10, <1>11, <1>12, <2>1 DEF Changes
  <2> QED
    BY <2>2, ReadsStep
<1> QED
  BY <1>13 DEF r, p, k, q, t

(* What RemoveAt and ReplaceAt leave in a sequence.                        *)
LEMMA RemoveHas ==
  ASSUME NEW s \in Seq(Entries), NEW i \in 1 .. Len(s), NEW o, In(s, o), o # s[i]
  PROVE  In(RemoveAt(s, i), o)
<1> DEFINE z == Len(s)
           r == RemoveAt(s, i)
<1>1. z \in Nat /\ i \in 1 .. z
  OBVIOUS
<1>2. Len(r) = z - 1 /\ \A j \in 1 .. z - 1 : r[j] = IF j < i THEN s[j] ELSE s[j + 1]
  BY RemovedAt
<1>3. PICK j \in 1 .. z : s[j] = o
  BY DEF In
<1> HIDE DEF z, r
<1>4. CASE j < i
  <2>1. j \in 1 .. z - 1
    BY <1>1, <1>4
  <2>2. r[j] = o
    BY <1>2, <1>3, <1>4, <2>1
  <2>3. In(r, o)
    BY <1>2, <2>1, <2>2 DEF In
  <2> QED
    BY <2>3 DEF r
<1>5. CASE j > i
  <2>1. j - 1 \in 1 .. z - 1 /\ ~(j - 1 < i) /\ (j - 1) + 1 = j
    BY <1>1, <1>5
  <2>2. r[j - 1] = o
    BY <1>2, <1>3, <2>1
  <2>3. In(r, o)
    BY <1>2, <2>1, <2>2 DEF In
  <2> QED
    BY <2>3 DEF r
<1>6. j # i
  BY <1>3
<1>7. j < i \/ j > i
  BY <1>1, <1>6
<1> QED
  BY <1>4, <1>5, <1>7

(* What ReplaceAt leaves, the other way round.                             *)
LEMMA ReplaceHas ==
  ASSUME NEW s \in Seq(Entries), NEW i \in 1 .. Len(s), NEW e, NEW o, o = e \/ (In(s, o) /\ o # s[i])
  PROVE  In(ReplaceAt(s, i, e), o)
<1>1. /\ Len(ReplaceAt(s, i, e)) = Len(s)
      /\ \A j \in 1 .. Len(s) : ReplaceAt(s, i, e)[j] = IF j = i THEN e ELSE s[j]
  BY DEF ReplaceAt
<1> QED
  BY <1>1 DEF In

(* __list_del_entry of a listed entry.                                     *)
LEMMA ReadsDelete ==
  ASSUME NEW mem, NEW S, NEW ls, Reads(mem, S, ls), NEW h \in Heads \cap S, NEW i \in 1 .. Len(ls[h])
  PROVE  Reads(__list_del_entry(mem, ls[h][i]), S \ {ls[h][i]}, [ls EXCEPT ![h] = RemoveAt(@, i)])
<1> DEFINE e == ls[h][i]
           p == mem.prev[e]
           r == __list_del_entry(mem, e)
           T == S \ {e}
           q == RemoveAt(ls[h], i)
           k == [ls EXCEPT ![h] = q]
<1>1. Rings(mem, S) /\ ls \in [Heads -> Seq(Entries) \cup {POISON}]
  BY DEF Reads
<1>2. /\ e \in S /\ e \in Entries /\ e \in Objects /\ e \notin Heads /\ mem.next[e] # e
      /\ ls[h] \in Seq(Entries) /\ Len(ls[h]) \in Nat /\ p = Spot(h, ls[h], i - 1) /\ e = Spot(h, ls[h], i)
      /\ Spells(mem.next, h, ls[h])
  BY Listed, NotAlone, ObjectsAssumption DEF Objects
<1>3. i - 1 \in 0 .. Len(ls[h]) /\ i \in 0 .. Len(ls[h]) /\ i - 1 # i
  BY <1>2
<1>4. Rings(r, T)
  BY <1>1, <1>2, DelRings
<1>5. q \in Seq(Entries) /\ q # POISON
  BY <1>2, RemovedAt, ObjectsAssumption
<1>6. p \in S /\ p \in Objects /\ p # e
  BY <1>2, <1>3, SpotIs, Listed
<1>7. r.next[p] = mem.next[e] /\ \A o \in Objects \ {p} : r.next[o] = mem.next[o]
  BY <1>1, <1>6 DEF __list_del_entry, __list_del, Rings, Memories
<1> HIDE DEF p, r, q, e
<1>8. k \in [Heads -> Seq(Entries) \cup {POISON}] /\ k[h] = q /\ \A g \in Heads \ {h} : k[g] = ls[g]
  BY <1>1, <1>5
<1>9. Spells(r.next, h, k[h])
  <2>1. \A j \in 0 .. Len(ls[h]) : j # i - 1 => r.next[Spot(h, ls[h], j)] = mem.next[Spot(h, ls[h], j)]
    <3>1. ASSUME NEW j \in 0 .. Len(ls[h]), j # i - 1 PROVE Spot(h, ls[h], j) \in Objects \ {p}
      BY <1>2, <1>3, <3>1, SpotIs, Listed
    <3> QED
      BY <1>7, <3>1
  <2>2. r.next[Spot(h, ls[h], i - 1)] = mem.next[ls[h][i]]
    BY <1>2, <1>7 DEF e
  <2>3. Spells(r.next, h, q)
    BY <1>2, <2>1, <2>2, SpellsRemove DEF q
  <2> QED
    BY <1>8, <2>3
<1> HIDE DEF k
<1>10. ASSUME NEW g \in (Heads \cap S) \ {h}, NEW j \in 0 .. Len(ls[g]) PROVE Spot(g, ls[g], j) \notin {p}
  BY <1>2, <1>3, Listed
<1>11. ASSUME NEW o \in Entries, o \in {p} \/ o \notin S \/ In(ls[h], o), o \in T PROVE In(k[h], o)
  <2>1. o # ls[h][i] /\ In(ls[h], o)
    BY <1>2, <1>3, <1>6, <1>11, SpotIs DEF e
  <2> QED
    BY <1>2, <1>8, <2>1, RemoveHas DEF q
<1>12. \A g \in Heads : g \in S <=> g \in T
  BY <1>2
<1>13. Reads(r, T, k)
  <2>1. k[h] = POISON <=> h \notin T
    BY <1>5, <1>8, <1>12
  <2>2. Changes(mem, S, ls, r, T, k, {h}, {p})
    BY <1>4, <1>7, <1>8, <1>9, <1>10, <1>11, <1>12, <2>1 DEF Changes
  <2> QED
    BY <2>2, ReadsStep
<1> QED
  BY <1>13 DEF r, k, q, e

(* list_replace of a listed entry by a free one.                           *)
LEMMA ReadsReplace ==
  ASSUME NEW mem, NEW S, NEW ls, Reads(mem, S, ls), NEW h \in Heads \cap S, NEW i \in 1 .. Len(ls[h]),
         NEW e \in Entries, Free(mem, S, e)
  PROVE  Reads(list_replace(mem, ls[h][i], e), (S \ {ls[h][i]}) \cup {e},
               [ls EXCEPT ![h] = ReplaceAt(@, i, e)])
<1> DEFINE x == ls[h][i]
           p == mem.prev[x]
           r == list_replace(mem, x, e)
           T == (S \ {x}) \cup {e}
           q == ReplaceAt(ls[h], i, e)
           k == [ls EXCEPT ![h] = q]
<1>1. Rings(mem, S) /\ ls \in [Heads -> Seq(Entries) \cup {POISON}] /\ e \in Objects /\ e \notin Heads
  BY ObjectsAssumption DEF Reads, Objects
<1>2. /\ x \in S /\ x \in Entries /\ x \in Objects /\ x \notin Heads /\ mem.next[x] # x
      /\ ls[h] \in Seq(Entries) /\ Len(ls[h]) \in Nat /\ p = Spot(h, ls[h], i - 1) /\ x = Spot(h, ls[h], i)
      /\ Spells(mem.next, h, ls[h]) /\ x # e
  BY Listed, NotAlone, ObjectsAssumption DEF Objects, Free
<1>3. i - 1 \in 0 .. Len(ls[h]) /\ i \in 0 .. Len(ls[h]) /\ i - 1 # i
  BY <1>2
<1>4. Rings(r, T)
  BY <1>1, <1>2, ReplaceRings
<1>5. q \in Seq(Entries) /\ q # POISON
  <2>1. q \in Seq(Entries)
    BY <1>2 DEF ReplaceAt
  <2> QED
    BY <2>1, ObjectsAssumption
<1>6. \A g \in Heads \cap S : ~In(ls[g], e)
  BY <1>1, FreeUnlisted
<1>7. p \in S /\ p \in Objects /\ p # x /\ p # e /\ mem.next[x] \in Objects
  BY <1>1, <1>2, <1>3, <1>6, SpotIs, Listed DEF Rings
<1>8. r.next[p] = e /\ r.next[e] = mem.next[x] /\ \A o \in Objects \ {p, e} : r.next[o] = mem.next[o]
  <2> DEFINE m1 == [mem EXCEPT !.next[e] = mem.next[x], !.prev[mem.next[x]] = e]
  <2>1. m1.prev[x] = p
    <3>1. mem.next[x] # x
      BY <1>2
    <3> QED
      BY <1>1, <1>2, <3>1 DEF Rings, Memories
  <2>2. r.next = [m1.next EXCEPT ![p] = e] /\ m1.next = [mem.next EXCEPT ![e] = mem.next[x]]
    BY <1>1, <2>1 DEF list_replace, Rings, Memories
  <2>3. mem.next \in [Objects -> Objects \cup {POISON}]
    BY <1>1 DEF Rings, Memories
  <2> HIDE DEF m1, r
  <2> QED
    BY <1>1, <1>7, <2>2, <2>3
<1> HIDE DEF p, r, q, x
<1>9. k \in [Heads -> Seq(Entries) \cup {POISON}] /\ k[h] = q /\ \A g \in Heads \ {h} : k[g] = ls[g]
  BY <1>1, <1>5
<1>10. Spells(r.next, h, k[h])
  <2>1. \A j \in 0 .. Len(ls[h]) : j # i - 1 => r.next[Spot(h, ls[h], j)] = mem.next[Spot(h, ls[h], j)]
    <3>1. ASSUME NEW j \in 0 .. Len(ls[h]), j # i - 1 PROVE Spot(h, ls[h], j) \in Objects \ {p, e}
      BY <1>2, <1>3, <1>6, <3>1, SpotIs, Listed
    <3> QED
      BY <1>8, <3>1
  <2>2. r.next[Spot(h, ls[h], i - 1)] = e /\ r.next[e] = mem.next[ls[h][i]]
    BY <1>2, <1>8 DEF x
  <2>3. Spells(r.next, h, q)
    BY <1>2, <2>1, <2>2, SpellsReplace DEF q
  <2> QED
    BY <1>9, <2>3
<1> HIDE DEF k
<1>11. ASSUME NEW g \in (Heads \cap S) \ {h}, NEW j \in 0 .. Len(ls[g]) PROVE Spot(g, ls[g], j) \notin {p, e}
  BY <1>2, <1>3, <1>6, SpotIs, Listed
<1>12. ASSUME NEW o \in Entries, o \in {p, e} \/ o \notin S \/ In(ls[h], o), o \in T PROVE In(k[h], o)
  <2>1. o = e \/ (o # ls[h][i] /\ In(ls[h], o))
    BY <1>2, <1>3, <1>7, <1>12, SpotIs DEF x
  <2> QED
    BY <1>2, <1>9, <2>1, ReplaceHas DEF q
<1>13. \A g \in Heads : g \in S <=> g \in T
  BY <1>1, <1>2
<1>14. Reads(r, T, k)
  <2>1. k[h] = POISON <=> h \notin T
    BY <1>5, <1>9, <1>13
  <2>2. Changes(mem, S, ls, r, T, k, {h}, {p, e})
    BY <1>4, <1>8, <1>9, <1>10, <1>11, <1>12, <1>13, <2>1 DEF Changes
  <2> QED
    BY <2>2, ReadsStep
<1> QED
  BY <1>14 DEF r, k, q, x

(* __list_splice of the list of l behind the i-th entry of that of h.      *)
LEMMA ReadsSplice ==
  ASSUME NEW mem, NEW S, NEW ls, Reads(mem, S, ls), NEW h \in Heads \cap S, NEW i \in 0 .. Len(ls[h]),
         NEW l \in Heads \cap S, l # h, ls[l] # <<>>
  PROVE  Reads(__list_splice(mem, l, Spot(h, ls[h], i), mem.next[Spot(h, ls[h], i)]), S \ {l},
               [[ls EXCEPT ![l] = POISON] EXCEPT ![h] = Abstract!Insert(@, i, ls[l])])
<1> DEFINE p == Spot(h, ls[h], i)
           r == __list_splice(mem, l, p, mem.next[p])
           T == S \ {l}
           t == ls[l]
           z == mem.prev[l]
           q == Abstract!Insert(ls[h], i, t)
           k == [[ls EXCEPT ![l] = POISON] EXCEPT ![h] = q]
<1>1. Rings(mem, S) /\ ls \in [Heads -> Seq(Entries) \cup {POISON}]
  BY DEF Reads
<1>2. /\ ls[h] \in Seq(Entries) /\ Len(ls[h]) \in Nat /\ t \in Seq(Entries) /\ Len(t) \in Nat /\ t # <<>>
      /\ z = Spot(l, t, Len(t)) /\ Spells(mem.next, h, ls[h])
  BY Listed
<1>3. /\ Len(t) # 0 /\ 1 \in 1 .. Len(t) /\ Len(t) \in 1 .. Len(t) /\ 0 \in 0 .. Len(t) /\ Len(t) \in 0 .. Len(t)
      /\ 0 # Len(t)
  BY <1>2, EmptySeq
<1>4. z = t[Len(t)] /\ z \in S /\ z \in Entries /\ In(t, z) /\ z \in Objects /\ z # p
  <2>1. z = t[Len(t)] /\ z \in S /\ z \in Entries /\ In(t, z) /\ z \in Objects
    BY <1>2, <1>3, SpotIs
  <2>2. z # p
    BY <1>2, <1>3, Listed
  <2> QED
    BY <2>1, <2>2
<1>5. mem.next[l] = t[1] /\ mem.next[l] # l
  <2>1. Spot(l, t, 0) = l
    BY DEF Spot
  <2>2. mem.next[l] = t[1]
    BY <1>3, <2>1, SpotIs
  <2>3. t[1] \in Entries
    BY <1>3, Listed
  <2> QED
    BY <2>2, <2>3, ObjectsAssumption
<1>6. /\ p \in S /\ p \in Objects /\ p # l /\ mem.next[p] # l
      /\ mem.next[p] = IF i = Len(ls[h]) THEN h ELSE ls[h][i + 1]
  <2>1. p \in S /\ p \in Objects /\ mem.next[p] = IF i = Len(ls[h]) THEN h ELSE ls[h][i + 1]
    BY SpotIs
  <2>2. p # l
    BY <1>3, Listed DEF Spot
  <2>3. i # Len(ls[h]) => i + 1 \in 1 .. Len(ls[h])
    BY <1>2
  <2>4. mem.next[p] # l
    BY <2>1, <2>3, Listed, ObjectsAssumption
  <2> QED
    BY <2>1, <2>2, <2>4
<1>7. Rings(r, T)
  BY <1>1, <1>5, <1>6, SpliceRings
<1>8. Inserts(q, ls[h], i, t) /\ q \in Seq(Entries) /\ q # POISON
  <2>1. Inserts(q, ls[h], i, t)
    BY <1>2, InsertIs
  <2>2. q \in Seq(Entries)
    BY <2>1 DEF Inserts
  <2> QED
    BY <2>1, <2>2, ObjectsAssumption
<1>9. r.next[p] = t[1] /\ r.next[z] = mem.next[p] /\ \A o \in Objects \ {p, z} : r.next[o] = mem.next[o]
  <2>1. mem.next \in [Objects -> Objects \cup {POISON}]
    BY <1>1 DEF Rings, Memories
  <2>2. r.next = [[mem.next EXCEPT ![p] = mem.next[l]] EXCEPT ![z] = mem.next[p]]
    BY <1>1 DEF __list_splice, Rings, Memories
  <2> HIDE DEF p, r, z
  <2> QED
    BY <1>4, <1>5, <1>6, <2>1, <2>2
<1> HIDE DEF p, r, q, z
<1>10. /\ k \in [Heads -> Seq(Entries) \cup {POISON}] /\ k[h] = q /\ k[l] = POISON
       /\ \A g \in Heads \ {h, l} : k[g] = ls[g]
  BY <1>1, <1>8
<1> HIDE DEF k
<1>11. Spells(r.next, h, k[h])
  <2>1. \A j \in 0 .. Len(ls[h]) : j # i => r.next[Spot(h, ls[h], j)] = mem.next[Spot(h, ls[h], j)]
    <3>1. ASSUME NEW j \in 0 .. Len(ls[h]), j # i PROVE Spot(h, ls[h], j) \in Objects \ {p, z}
      BY <1>2, <1>3, <3>1, SpotIs, Listed DEF p
    <3> QED
      BY <1>9, <3>1
  <2>2. ASSUME NEW j \in 1 .. Len(t) - 1 PROVE r.next[t[j]] = t[j + 1]
    <3>1. j \in 0 .. Len(t) /\ j \in 1 .. Len(t) /\ j # Len(t) /\ j # 0
      BY <1>2
    <3>2. t[j] = Spot(l, t, j) /\ mem.next[t[j]] = t[j + 1] /\ t[j] \in Objects
      BY <3>1, SpotIs
    <3>3. t[j] # p /\ t[j] # z
      BY <1>2, <1>3, <3>1, <3>2, Listed DEF p
    <3> QED
      BY <1>9, <3>2, <3>3
  <2> HIDE DEF t
  <2>3. Joins(mem.next, r.next, h, ls[h], i, t)
    BY <1>4, <1>9, <2>1, <2>2 DEF Joins, p
  <2>4. Spells(r.next, h, q)
    BY <1>2, <1>8, <2>3, SpellsInsert
  <2> QED
    BY <1>10, <2>4
<1>12. ASSUME NEW g \in (Heads \cap S) \ {h, l}, NEW j \in 0 .. Len(ls[g]) PROVE Spot(g, ls[g], j) \notin {p, z}
  BY <1>2, <1>3, Listed DEF p
<1>13. ASSUME NEW o \in Entries, o \in {p, z} \/ o \notin S \/ In(ls[h], o) \/ In(ls[l], o), o \in T PROVE In(k[h], o)
  <2>1. In(t, o) \/ In(ls[h], o)
    BY <1>4, <1>13, SpotIs DEF p
  <2> HIDE DEF t
  <2> QED
    BY <1>2, <1>8, <1>10, <2>1, InsertHas
<1>14. \A g \in Heads \ {h, l} : g \in S <=> g \in T
  OBVIOUS
<1>15. Reads(r, T, k)
  <2>1. (k[h] = POISON <=> h \notin T) /\ (k[l] = POISON <=> l \notin T)
    BY <1>8, <1>10
  <2>2. Changes(mem, S, ls, r, T, k, {h, l}, {p, z})
    BY <1>7, <1>9, <1>10, <1>11, <1>12, <1>13, <1>14, <2>1 DEF Changes
  <2> QED
    BY <2>2, ReadsStep
<1> QED
  BY <1>15 DEF r, k, q, p

(* What is in a sequence is in its first i elements or in the rest.        *)
LEMMA PartsHave ==
  ASSUME NEW s \in Seq(Entries), NEW i \in 1 .. Len(s)
  PROVE  /\ SubSeq(s, 1, i) \in Seq(Entries) /\ SubSeq(s, i + 1, Len(s)) \in Seq(Entries)
         /\ \A o : In(s, o) => In(SubSeq(s, 1, i), o) \/ In(SubSeq(s, i + 1, Len(s)), o)
<1> DEFINE z == Len(s)
           a == SubSeq(s, 1, i)
           b == SubSeq(s, i + 1, z)
<1>1. z \in Nat /\ i \in 1 .. z /\ i \in Nat
  OBVIOUS
<1>2. a \in Seq(Entries) /\ Len(a) = i /\ \A j \in 1 .. i : a[j] = s[j]
  <2>1. s \in Seq(Entries) /\ 1 \in 1 .. Len(s) + 1 /\ i \in 0 .. Len(s) /\ 1 <= i + 1
    BY <1>1
  <2>2. a \in Seq(Entries) /\ Len(a) = i - 1 + 1 /\ \A j \in 1 .. i - 1 + 1 : a[j] = s[1 + j - 1]
    BY ONLY <2>1, Part
  <2>3. i - 1 + 1 = i /\ \A j \in 1 .. i : 1 + j - 1 = j
    BY <1>1
  <2> QED
    BY <2>2, <2>3
<1>3. b \in Seq(Entries) /\ Len(b) = z - i /\ \A j \in 1 .. z - i : b[j] = s[i + j]
  <2> DEFINE a1 == i + 1
  <2>1. s \in Seq(Entries) /\ a1 \in 1 .. Len(s) + 1 /\ z \in 0 .. Len(s) /\ a1 <= z + 1
    BY <1>1
  <2> HIDE DEF a1, z
  <2>2. /\ SubSeq(s, a1, z) \in Seq(Entries) /\ Len(SubSeq(s, a1, z)) = z - a1 + 1
        /\ \A j \in 1 .. z - a1 + 1 : SubSeq(s, a1, z)[j] = s[a1 + j - 1]
    BY ONLY <2>1, Part
  <2>3. z - a1 + 1 = z - i /\ \A j \in 1 .. z - i : a1 + j - 1 = i + j
    BY <1>1 DEF a1
  <2>4. b = SubSeq(s, a1, z)
    BY DEF a1
  <2> QED
    BY <2>2, <2>3, <2>4
<1> HIDE DEF a, b
<1>4. ASSUME NEW o, NEW j \in 1 .. z, s[j] = o PROVE In(a, o) \/ In(b, o)
  <2> HIDE DEF z
  <2>1. CASE j <= i
    <3>1. j \in 1 .. i
      BY <1>1, <2>1
    <3> QED
      BY <1>2, <1>4, <3>1 DEF In
  <2>2. CASE j > i
    <3>1. j - i \in 1 .. z - i /\ i + (j - i) = j
      BY <1>1, <2>2
    <3> QED
      BY <1>3, <1>4, <3>1 DEF In
  <2>3. j <= i \/ j > i
    BY <1>1
  <2> QED
    BY <2>1, <2>2, <2>3
<1>5. \A o : In(s, o) => In(a, o) \/ In(b, o)
  BY <1>4 DEF In
<1> QED
  BY <1>2, <1>3, <1>5 DEF a, b

(* __list_cut_position of the list of h behind its i-th entry.             *)
LEMMA ReadsCut ==
  ASSUME NEW mem, NEW S, NEW ls, Reads(mem, S, ls), NEW h \in Heads \cap S, NEW i \in 1 .. Len(ls[h]),
         NEW l \in Heads, l # h, Free(mem, S, l)
  PROVE  Reads(__list_cut_position(mem, l, h, ls[h][i]), S \cup {l},
               [ls EXCEPT ![l] = SubSeq(ls[h], 1, i), ![h] = SubSeq(@, i + 1, Len(@))])
<1> DEFINE x == ls[h][i]
           r == __list_cut_position(mem, l, h, x)
           T == S \cup {l}
           a == SubSeq(ls[h], 1, i)
           b == SubSeq(ls[h], i + 1, Len(ls[h]))
           k == [ls EXCEPT ![l] = a, ![h] = b]
<1>1. Rings(mem, S) /\ ls \in [Heads -> Seq(Entries) \cup {POISON}] /\ h \in Objects /\ l \in Objects
  BY DEF Reads, Objects
<1>2. /\ x \in S /\ x \in Entries /\ x \in Objects /\ x \notin Heads /\ x = Spot(h, ls[h], i)
      /\ ls[h] \in Seq(Entries) /\ Len(ls[h]) \in Nat /\ Spells(mem.next, h, ls[h])
  BY Listed, ObjectsAssumption DEF Objects
<1>3. /\ i \in 0 .. Len(ls[h]) /\ 0 \in 0 .. Len(ls[h]) /\ 0 # Len(ls[h]) /\ 1 \in 1 .. Len(ls[h])
      /\ \A j \in 1 .. i - 1 : j \in 0 .. Len(ls[h]) /\ j \in 1 .. Len(ls[h]) /\ j # i
      /\ \A j \in i + 1 .. Len(ls[h]) : j \in 0 .. Len(ls[h]) /\ j \in 1 .. Len(ls[h]) /\ j # i
  BY <1>2
<1>4. Rings(r, T)
  BY <1>1, <1>2, CutRings
<1>5. a \in Seq(Entries) /\ b \in Seq(Entries) /\ a # POISON /\ b # POISON
  <2>1. a \in Seq(Entries) /\ b \in Seq(Entries)
    BY <1>2, PartsHave
  <2> QED
    BY <2>1, ObjectsAssumption
<1>6. mem.next[h] = ls[h][1]
  <2>1. Spot(h, ls[h], 0) = h
    BY DEF Spot
  <2> QED
    BY <1>3, <2>1, SpotIs
<1>7. /\ r.next[l] = ls[h][1] /\ r.next[x] = l /\ r.next[h] = mem.next[x]
      /\ \A o \in Objects \ {l, x, h} : r.next[o] = mem.next[o]
  <2>1. mem.next \in [Objects -> Objects \cup {POISON}]
    BY <1>1 DEF Rings, Memories
  <2>2. r.next = [mem.next EXCEPT ![l] = mem.next[h], ![x] = l, ![h] = mem.next[x]]
    BY <1>1 DEF __list_cut_position, Rings, Memories
  <2> HIDE DEF r, x
  <2> QED
    BY <1>1, <1>2, <1>6, <2>1, <2>2
<1>8. l \in S => ls[l] = <<>>
  BY <1>1, FreeUnlisted
<1> HIDE DEF r, a, b, x
<1>9. /\ k \in [Heads -> Seq(Entries) \cup {POISON}] /\ k[l] = a /\ k[h] = b
      /\ \A g \in Heads \ {h, l} : k[g] = ls[g]
  BY <1>1, <1>5
<1>10. Spells(r.next, l, k[l])
  <2>1. \A j \in 1 .. i - 1 : r.next[ls[h][j]] = mem.next[ls[h][j]]
    <3>1. ASSUME NEW j \in 1 .. i - 1 PROVE ls[h][j] \in Objects \ {l, x, h}
      <4>1. ls[h][j] \in Entries /\ ls[h][j] = Spot(h, ls[h], j) /\ Spot(h, ls[h], j) # x
        BY <1>2, <1>3, Listed
      <4> QED
        BY <4>1, ObjectsAssumption DEF Objects
    <3> QED
      BY <1>7, <3>1
  <2>2. r.next[l] = ls[h][1] /\ r.next[ls[h][i]] = l
    BY <1>7 DEF x
  <2>3. Spells(r.next, l, a)
    BY <1>2, <2>1, <2>2, SpellsFront DEF a
  <2> QED
    BY <1>9, <2>3
<1>11. Spells(r.next, h, k[h])
  <2>1. \A j \in i + 1 .. Len(ls[h]) : r.next[ls[h][j]] = mem.next[ls[h][j]]
    <3>1. ASSUME NEW j \in i + 1 .. Len(ls[h]) PROVE ls[h][j] \in Objects \ {l, x, h}
      <4>1. ls[h][j] \in Entries /\ ls[h][j] = Spot(h, ls[h], j) /\ Spot(h, ls[h], j) # x
        BY <1>2, <1>3, Listed
      <4> QED
        BY <4>1, ObjectsAssumption DEF Objects
    <3> QED
      BY <1>7, <3>1
  <2>2. r.next[h] = mem.next[ls[h][i]]
    BY <1>7 DEF x
  <2>3. Spells(r.next, h, b)
    BY <1>2, <2>1, <2>2, SpellsBack DEF b
  <2> QED
    BY <1>9, <2>3
<1> HIDE DEF k
<1>12. ASSUME NEW g \in (Heads \cap S) \ {h, l}, NEW j \in 0 .. Len(ls[g]) PROVE Spot(g, ls[g], j) \notin {l, x, h}
  <2>1. Spot(g, ls[g], j) # x
    BY <1>2, <1>3, Listed
  <2> QED
    BY <2>1, SpotIs
<1>13. ASSUME NEW o \in Entries, o \in {l, x, h} \/ o \notin S \/ In(ls[h], o) \/ (l \in S /\ In(ls[l], o)), o \in T
       PROVE  In(k[h], o) \/ In(k[l], o)
  <2>1. ~In(<<>>, o)
    BY DEF In
  <2>2. In(ls[h], o)
    BY <1>2, <1>3, <1>8, <1>13, <2>1, SpotIs, ObjectsAssumption
  <2> QED
    BY <1>2, <1>9, <2>2, PartsHave DEF a, b
<1>14. \A g \in Heads \ {h, l} : g \in S <=> g \in T
  OBVIOUS
<1>15. Reads(r, T, k)
  <2>1. (k[h] = POISON <=> h \notin T) /\ (k[l] = POISON <=> l \notin T)
    BY <1>5, <1>9
  <2>2. Changes(mem, S, ls, r, T, k, {h, l}, {l, x, h})
    BY <1>4, <1>7, <1>9, <1>10, <1>11, <1>12, <1>13, <1>14, <2>1 DEF Changes
  <2> QED
    BY <2>2, ReadsStep
<1> QED
  BY <1>15 DEF r, k, a, b, x

(* list_replace of the head g by the head h, which takes over its list.    *)
LEMMA ReadsTakeover ==
  ASSUME NEW mem, NEW S, NEW ls, Reads(mem, S, ls), NEW g \in Heads \cap S,
         NEW h \in Heads, h # g, Free(mem, S, h)
  PROVE  Reads(list_replace(mem, g, h), (S \ {g}) \cup {h}, [ls EXCEPT ![h] = ls[g], ![g] = POISON])
<1> DEFINE r == list_replace(mem, g, h)
           T == (S \ {g}) \cup {h}
           s == ls[g]
           m1 == [mem EXCEPT !.next[h] = mem.next[g], !.prev[mem.next[g]] = h]
           z == m1.prev[g]
           k == [ls EXCEPT ![h] = s, ![g] = POISON]
<1>1. Rings(mem, S) /\ ls \in [Heads -> Seq(Entries) \cup {POISON}] /\ h \in Objects /\ g \in Objects
  BY DEF Reads, Objects
<1>2. /\ s \in Seq(Entries) /\ Len(s) \in Nat /\ Spells(mem.next, g, s) /\ s # POISON
      /\ mem.prev[g] = Spot(g, s, Len(s)) /\ 0 \in 0 .. Len(s) /\ Len(s) \in 0 .. Len(s)
      /\ mem.next[g] = IF 0 = Len(s) THEN g ELSE s[1]
  <2>1. s \in Seq(Entries) /\ Len(s) \in Nat /\ Spells(mem.next, g, s) /\ mem.prev[g] = Spot(g, s, Len(s))
    BY Listed
  <2>2. 0 \in 0 .. Len(s) /\ Len(s) \in 0 .. Len(s) /\ 0 + 1 = 1
    BY <2>1
  <2>3. Spot(g, s, 0) = g
    BY DEF Spot
  <2> QED
    BY <2>1, <2>2, <2>3, SpotIs, ObjectsAssumption
<1>3. Rings(r, T)
  BY <1>1, ReplaceRings
<1>4. h \in S => ls[h] = <<>>
  BY <1>1, FreeUnlisted
<1>5. /\ mem.next \in [Objects -> Objects \cup {POISON}] /\ mem.prev \in [Objects -> Objects \cup {POISON}]
      /\ mem.next[g] \in Objects
      /\ z = IF mem.next[g] = g THEN h ELSE mem.prev[g]
      /\ r.next = [[mem.next EXCEPT ![h] = mem.next[g]] EXCEPT ![z] = h]
  BY <1>1 DEF list_replace, Rings, Memories
<1> HIDE DEF r, m1, z
<1>6. /\ k \in [Heads -> Seq(Entries) \cup {POISON}] /\ k[h] = s /\ k[g] = POISON
      /\ \A f \in Heads \ {h, g} : k[f] = ls[f]
  BY <1>1, <1>2
<1>7. ASSUME Len(s) = 0
      PROVE  z = h /\ Spells(r.next, h, s)
  <2>1. z = h
    BY <1>2, <1>5, <1>7
  <2>2. r.next[h] = h
    BY <1>1, <1>5, <2>1
  <2>3. 0 .. 0 = {0}
    OBVIOUS
  <2> QED
    BY <1>2, <1>7, <2>1, <2>2, <2>3 DEF Spells, Spot
<1>8. ASSUME Len(s) # 0
      PROVE  z = s[Len(s)] /\ z \in Entries /\ z = Spot(g, s, Len(s)) /\ Spells(r.next, h, s)
  <2>1. Len(s) \in 1 .. Len(s) /\ 1 \in 1 .. Len(s) /\ \A j \in 1 .. Len(s) - 1 : j \in 0 .. Len(s) /\ j \in 1 .. Len(s) /\ j # Len(s)
    BY <1>2, <1>8
  <2>2. mem.next[g] = s[1] /\ s[1] # g
    BY <1>2, <1>8, <2>1, Listed, ObjectsAssumption
  <2>3. z = Spot(g, s, Len(s)) /\ z = s[Len(s)] /\ z \in Entries /\ z \in Objects /\ z # h
    <3>1. z = Spot(g, s, Len(s))
      BY <1>2, <1>5, <2>2
    <3>2. Spot(g, s, Len(s)) = s[Len(s)] /\ s[Len(s)] \in Entries
      BY <2>1, Listed
    <3> QED
      BY <3>1, <3>2, ObjectsAssumption DEF Objects
  <2>4. r.next[h] = s[1] /\ r.next[z] = h /\ \A o \in Objects \ {h, z} : r.next[o] = mem.next[o]
    BY <1>1, <1>5, <2>2, <2>3
  <2>5. \A j \in 1 .. Len(s) - 1 : r.next[s[j]] = mem.next[s[j]]
    <3>1. ASSUME NEW j \in 1 .. Len(s) - 1 PROVE s[j] \in Objects \ {h, z}
      <4>1. j \in 0 .. Len(s) /\ j \in 1 .. Len(s) /\ j # Len(s)
        BY <2>1
      <4>2. s[j] \in Entries /\ s[j] = Spot(g, s, j)
        BY <4>1, Listed
      <4>3. Spot(g, s, j) # Spot(g, s, Len(s))
        BY <1>2, <4>1, Listed
      <4> QED
        BY <2>3, <4>2, <4>3, ObjectsAssumption DEF Objects
    <3> QED
      BY <2>4, <3>1
  <2> DEFINE y == Len(s)
  <2>6. Spells(r.next, h, SubSeq(s, 1, y))
    <3>1. Spells(mem.next, g, s) /\ y \in 1 .. Len(s) /\ r.next[h] = s[1] /\ r.next[s[y]] = h
          /\ \A j \in 1 .. y - 1 : r.next[s[j]] = mem.next[s[j]]
      BY <1>2, <2>1, <2>3, <2>4, <2>5
    <3> DEFINE G == r.next
               F == mem.next
    <3> HIDE DEF y, s, F, G
    <3>2. Spells(G, h, SubSeq(s, 1, y))
      BY ONLY <3>1, SpellsFront DEF F, G
    <3> QED
      BY <3>2 DEF G
  <2>7. SubSeq(s, 1, Len(s)) = s
    BY <1>2
  <2> QED
    BY <2>3, <2>6, <2>7
<1> HIDE DEF k
<1>9. Spells(r.next, h, k[h]) /\ (z = h \/ (z \in Entries /\ z = Spot(g, s, Len(s))))
  BY <1>6, <1>7, <1>8
<1>10. \A o \in Objects \ {h, z} : r.next[o] = mem.next[o]
  BY <1>1, <1>5
<1>11. ASSUME NEW f \in (Heads \cap S) \ {h, g}, NEW j \in 0 .. Len(ls[f]) PROVE Spot(f, ls[f], j) \notin {h, z}
  <2>1. Spot(f, ls[f], j) # Spot(g, s, Len(s))
    BY <1>2, Listed
  <2>2. Spot(f, ls[f], j) # h
    BY SpotIs
  <2> QED
    BY <1>9, <2>1, <2>2
<1>12. ASSUME NEW o \in Entries, o \in {h, z} \/ o \notin S \/ In(ls[g], o) \/ (h \in S /\ In(ls[h], o)), o \in T
       PROVE  In(k[h], o)
  <2>1. ~In(<<>>, o)
    BY DEF In
  <2>2. o # h
    BY ObjectsAssumption
  <2>3. o = z => In(ls[g], o)
    BY <1>2, <1>9, <1>12, <2>2, SpotIs, ObjectsAssumption
  <2> QED
    BY <1>4, <1>6, <1>12, <2>1, <2>2, <2>3
<1>13. \A f \in Heads \ {h, g} : f \in S <=> f \in T
  OBVIOUS
<1>14. Reads(r, T, k)
  <2>1. (k[h] = POISON <=> h \notin T) /\ (k[g] = POISON <=> g \notin T) /\ g \notin T /\ h \in T
    BY <1>2, <1>6
  <2>2. Changes(mem, S, ls, r, T, k, {h, g}, {h, z})
    BY <1>3, <1>6, <1>9, <1>10, <1>11, <1>12, <1>13, <2>1 DEF Changes
  <2> QED
    BY <2>2, ReadsStep
<1> QED
  BY <1>14 DEF r, k

(* The calls on entries that are in no list leave the lists alone.         *)
LEMMA ReadsFresh ==
  ASSUME NEW mem, NEW S, NEW ls, Reads(mem, S, ls), NEW e \in Entries, Free(mem, S, e)
  PROVE  /\ Reads(INIT_LIST_HEAD(mem, e), S \cup {e}, ls)
         /\ Reads([mem EXCEPT !.next[e] = POISON, !.prev[e] = POISON], S \ {e}, ls)
<1>1. Rings(mem, S) /\ e \in Objects /\ S \subseteq Objects
  BY DEF Reads, Objects, Rings
<1>2. \A h \in Heads \cap S : \A o \in {e} : ~In(ls[h], o)
  BY <1>1, FreeUnlisted
<1>3. Reads(INIT_LIST_HEAD(mem, e), S \cup {e}, ls)
  <2> DEFINE r == INIT_LIST_HEAD(mem, e)
  <2>1. Rings(r, S \cup {e})
    BY <1>1, InitRings
  <2>2. r.next[e] = e /\ \A o \in S \ {e} : r.next[o] = mem.next[o]
    BY <1>1 DEF INIT_LIST_HEAD, Rings, Memories
  <2> HIDE DEF r
  <2> DEFINE T == S \cup {e}
             X == {e}
  <2>3. /\ T \ X = S \ X /\ X \in SUBSET Entries /\ Rings(r, T)
        /\ \A h \in Heads \cap S : \A o \in X : ~In(ls[h], o)
        /\ \A o \in S \ X : r.next[o] = mem.next[o]
        /\ \A o \in X \cap T : r.next[o] = o
    BY <1>2, <2>1, <2>2
  <2> HIDE DEF T, X
  <2>4. Reads(r, T, ls)
    BY <2>3, ReadsOutside
  <2> QED
    BY <2>4 DEF r, T
<1>4. Reads([mem EXCEPT !.next[e] = POISON, !.prev[e] = POISON], S \ {e}, ls)
  <2> DEFINE r == [mem EXCEPT !.next[e] = POISON, !.prev[e] = POISON]
  <2>1. Rings(r, S \ {e})
    BY <1>1, PoisonRings
  <2>2. \A o \in S \ {e} : r.next[o] = mem.next[o]
    BY <1>1 DEF Rings, Memories
  <2> HIDE DEF r
  <2> DEFINE T == S \ {e}
             X == {e}
  <2>3. /\ T \ X = S \ X /\ X \in SUBSET Entries /\ Rings(r, T)
        /\ \A h \in Heads \cap S : \A o \in X : ~In(ls[h], o)
        /\ \A o \in S \ X : r.next[o] = mem.next[o]
        /\ \A o \in X \cap T : r.next[o] = o
    BY <1>2, <2>1, <2>2
  <2> HIDE DEF T, X
  <2>4. Reads(r, T, ls)
    BY <2>3, ReadsOutside
  <2> QED
    BY <2>4 DEF r, T
<1> QED
  BY <1>3, <1>4

(* list_replace of an entry alone in its ring changes no list.             *)
LEMMA ReadsSwap ==
  ASSUME NEW mem, NEW S, NEW ls, Reads(mem, S, ls), NEW x \in Entries \cap S, mem.next[x] = x,
         NEW y \in Entries, x # y, Free(mem, S, y)
  PROVE  Reads(list_replace(mem, x, y), (S \ {x}) \cup {y}, ls)
<1> DEFINE r == list_replace(mem, x, y)
           T == (S \ {x}) \cup {y}
           X == {x, y}
<1>1. Rings(mem, S) /\ y \in Objects /\ x \in Objects /\ S \subseteq Objects
  BY DEF Reads, Objects, Rings
<1>2. mem.prev[x] = x
  BY <1>1 DEF Rings
<1>3. \A h \in Heads \cap S : \A o \in X : ~In(ls[h], o)
  <2>1. Free(mem, S, x)
    BY <1>2 DEF Free
  <2> QED
    BY <1>1, <2>1, FreeUnlisted
<1>4. Rings(r, T)
  BY <1>1, ReplaceRings
<1>5. r.next[y] = y /\ \A o \in S \ X : r.next[o] = mem.next[o]
  <2>1. mem.next \in [Objects -> Objects \cup {POISON}]
    BY <1>1 DEF Rings, Memories
  <2>2. r.next = [[mem.next EXCEPT ![y] = x] EXCEPT ![y] = y]
    BY <1>1, <1>2 DEF list_replace, Rings, Memories
  <2> HIDE DEF r
  <2> QED
    BY <1>1, <2>1, <2>2
<1> HIDE DEF r
<1>6. T \ X = S \ X /\ X \in SUBSET Entries /\ X \cap T \subseteq {y}
  OBVIOUS
<1> HIDE DEF X, T
<1>7. Reads(r, T, ls)
  BY <1>3, <1>4, <1>5, <1>6, ReadsOutside
<1> QED
  BY <1>7 DEF r, T

(* __list_del_entry of an entry in no list.                                *)
LEMMA ReadsDeleteAlone ==
  ASSUME NEW mem, NEW S, NEW ls, Reads(mem, S, ls), NEW e \in Entries \cap S, mem.next[e] = e
  PROVE  Reads(__list_del_entry(mem, e), S, ls) /\ Free(__list_del_entry(mem, e), S, e)
<1>1. Rings(mem, S) /\ e \in Objects
  BY DEF Reads, Objects
<1>2. mem.prev[e] = e
  BY <1>1 DEF Rings
<1>3. __list_del_entry(mem, e) = INIT_LIST_HEAD(mem, e)
  BY <1>1, <1>2 DEF __list_del_entry, __list_del, INIT_LIST_HEAD, Rings, Memories
<1>4. Free(mem, S, e) /\ S \cup {e} = S
  BY <1>2 DEF Free
<1>5. Reads(INIT_LIST_HEAD(mem, e), S, ls)
  <2>1. Reads(INIT_LIST_HEAD(mem, e), S \cup {e}, ls)
    BY <1>4, ReadsFresh
  <2> QED
    BY ONLY <1>4, <2>1
<1>6. Free(INIT_LIST_HEAD(mem, e), S, e)
  BY <1>1 DEF Free, INIT_LIST_HEAD, Rings, Memories
<1> QED
  BY <1>3, <1>5, <1>6

(* What ListSeq says of sequences of which each object is at one place.    *)
Separate(ls) ==
  /\ ls \in [Heads -> Seq(Entries) \cup {POISON}]
  /\ \A h, g \in Heads : ls[h] # POISON /\ ls[g] # POISON =>
       \A i \in 0 .. Len(ls[h]), j \in 0 .. Len(ls[g]) :
         Spot(h, ls[h], i) = Spot(g, ls[g], j) => h = g /\ i = j

(* ListSeq's Ring of a head is its spots.                                  *)
LEMMA RingIs ==
  ASSUME NEW h \in Heads, NEW ls, ls[h] \in Seq(Entries)
  PROVE  /\ DOMAIN Abstract!Ring(ls, h) = 1 .. Len(ls[h]) + 1
         /\ \A j \in 0 .. Len(ls[h]) : j + 1 \in 1 .. Len(ls[h]) + 1
                                       /\ Abstract!Ring(ls, h)[j + 1] = Spot(h, ls[h], j)
         /\ \A x : x \in Abstract!ToSet(Abstract!Ring(ls, h)) <=> \E j \in 0 .. Len(ls[h]) : Spot(h, ls[h], j) = x
<1> DEFINE s == ls[h]
           y == Len(s)
           a == <<h>>
           q == a \o s
<1>1. s \in Seq(Objects) /\ a \in Seq(Objects) /\ Len(a) = 1 /\ a[1] = h /\ y \in Nat
  BY DEF Objects
<1>2. /\ q \in Seq(Objects) /\ Len(q) = 1 + y
      /\ \A j \in 1 .. 1 + y : /\ j <= 1 => q[j] = a[j]
                               /\ j > 1 => q[j] = s[j - 1]
  BY <1>1, Joined
<1>3. DOMAIN q = 1 .. y + 1
  BY <1>1, <1>2
<1> HIDE DEF q, s, y, a
<1>4. ASSUME NEW j \in 0 .. y PROVE j + 1 \in 1 .. y + 1 /\ q[j + 1] = Spot(h, s, j)
  <2>1. j + 1 \in 1 .. y + 1 /\ j + 1 \in 1 .. 1 + y
    BY <1>1
  <2>2. CASE j = 0
    <3>1. j + 1 = 1 /\ 1 <= 1 /\ 1 \in 1 .. 1 + y
      BY <1>1, <2>2
    <3> QED
      BY <1>1, <1>2, <2>1, <2>2, <3>1 DEF Spot
  <2>3. CASE j # 0
    <3>1. j + 1 > 1 /\ (j + 1) - 1 = j
      BY <1>1, <2>3
    <3> QED
      BY <1>2, <2>1, <2>3, <3>1 DEF Spot
  <2> QED
    BY <2>2, <2>3
<1>5. ASSUME NEW x PROVE x \in Abstract!ToSet(q) <=> \E j \in 0 .. y : Spot(h, s, j) = x
  <2>1. x \in Abstract!ToSet(q) <=> \E k \in 1 .. y + 1 : q[k] = x
    BY <1>3 DEF Abstract!ToSet
  <2>2. ASSUME NEW k \in 1 .. y + 1, q[k] = x PROVE \E j \in 0 .. y : Spot(h, s, j) = x
    <3>1. k - 1 \in 0 .. y /\ (k - 1) + 1 = k
      BY <1>1
    <3> QED
      BY <1>4, <2>2, <3>1
  <2> QED
    BY <1>4, <2>1, <2>2
<1>6. Abstract!Ring(ls, h) = q
  BY DEF Abstract!Ring, q, a, s
<1> QED
  BY <1>3, <1>4, <1>5, <1>6 DEF y, s

(* Placed is the set of the spots of all the lists.                        *)
LEMMA PlacedIs ==
  ASSUME NEW ls, Separate(ls)
  PROVE  \A x : x \in Abstract!Placed(ls)
                  <=> \E h \in Heads : ls[h] # POISON /\ \E j \in 0 .. Len(ls[h]) : Spot(h, ls[h], j) = x
<1>1. \A h \in Heads : ls[h] # POISON => ls[h] \in Seq(Entries)
  BY DEF Separate
<1> QED
  BY <1>1, RingIs DEF Abstract!Placed, Abstract!Usable

(* An object at a spot of a list is found in that list, at that index.     *)
LEMMA Found ==
  ASSUME NEW ls, Separate(ls), NEW h \in Heads, ls[h] # POISON, NEW i \in 0 .. Len(ls[h])
  PROVE  /\ Spot(h, ls[h], i) \in Abstract!Placed(ls)
         /\ Abstract!ListOf(ls, Spot(h, ls[h], i)) = h
         /\ Abstract!Index(ls, Spot(h, ls[h], i)) = i
<1> DEFINE x == Spot(h, ls[h], i)
           q == Abstract!Ring(ls, h)
<1>1. \A g \in Heads : ls[g] # POISON => ls[g] \in Seq(Entries)
  BY DEF Separate
<1>2. x \in Abstract!Placed(ls)
  <2>1. \E g \in Heads : ls[g] # POISON /\ \E j \in 0 .. Len(ls[g]) : Spot(g, ls[g], j) = x
    OBVIOUS
  <2> HIDE DEF x
  <2> QED
    BY <2>1, PlacedIs
<1>3. Abstract!ListOf(ls, x) = h
  <2>1. h \in Abstract!Usable(ls) /\ x \in Abstract!ToSet(q)
    BY <1>1, RingIs DEF Abstract!Usable
  <2>2. ASSUME NEW g \in Abstract!Usable(ls), x \in Abstract!ToSet(Abstract!Ring(ls, g)) PROVE g = h
    <3>1. g \in Heads /\ ls[g] # POISON /\ ls[g] \in Seq(Entries)
      BY <1>1 DEF Abstract!Usable
    <3>2. PICK j \in 0 .. Len(ls[g]) : Spot(g, ls[g], j) = x
      BY <2>2, <3>1, RingIs
    <3> QED
      BY <3>1, <3>2 DEF Separate
  <2> HIDE DEF x, q
  <2> QED
    BY <2>1, <2>2 DEF Abstract!ListOf, q
<1>4. Abstract!Index(ls, x) = i
  <2>1. /\ DOMAIN q = 1 .. Len(ls[h]) + 1 /\ Len(ls[h]) \in Nat
        /\ \A j \in 0 .. Len(ls[h]) : j + 1 \in 1 .. Len(ls[h]) + 1 /\ q[j + 1] = Spot(h, ls[h], j)
    BY <1>1, RingIs
  <2> HIDE DEF q
  <2>2. i + 1 \in DOMAIN q /\ q[i + 1] = x
    <3>1. i \in 0 .. Len(ls[h])
      OBVIOUS
    <3> QED
      BY <2>1, <3>1
  <2>3. ASSUME NEW k \in DOMAIN q, q[k] = x PROVE k = i + 1
    <3>1. k - 1 \in 0 .. Len(ls[h]) /\ (k - 1) + 1 = k
      BY <2>1
    <3>2. Spot(h, ls[h], k - 1) = x
      BY <2>1, <2>3, <3>1
    <3>3. k - 1 = i
      BY <3>1, <3>2 DEF Separate
    <3> QED
      BY <2>1, <3>1, <3>3
  <2> HIDE DEF x, q
  <2>4. (CHOOSE k \in DOMAIN q : q[k] = x) = i + 1
    BY <2>2, <2>3
  <2>5. Abstract!Index(ls, x) = (CHOOSE k \in DOMAIN q : q[k] = x) - 1
    BY <1>3 DEF Abstract!Index, q
  <2>6. (i + 1) - 1 = i
    OBVIOUS
  <2> QED
    BY <2>4, <2>5, <2>6
<1> QED
  BY <1>2, <1>3, <1>4

(* The place a sequence goes to, counted in entries before it.             *)
Gap(s, i) == IF i = 0 THEN Len(s) ELSE i - 1

Lands(ls, h, i, t) ==
  /\ Abstract!After(ls, Spot(h, ls[h], i), t) = [ls EXCEPT ![h] = Abstract!Insert(@, i, t)]
  /\ Abstract!Before(ls, Spot(h, ls[h], i), t) = [ls EXCEPT ![h] = Abstract!Insert(@, Gap(@, i), t)]

(* ListSeq's After and Before insert where Lands says.                     *)
LEMMA AfterBefore ==
  ASSUME NEW ls, Separate(ls), NEW h \in Heads, ls[h] # POISON, NEW i \in 0 .. Len(ls[h]), NEW t \in Seq(Entries)
  PROVE  Lands(ls, h, i, t)
<1> DEFINE x == Spot(h, ls[h], i)
           s == ls[h]
<1>1. Abstract!ListOf(ls, x) = h /\ Abstract!Index(ls, x) = i /\ s \in Seq(Entries) /\ Len(s) \in Nat
  BY Found DEF Separate
<1>2. i = 0 => x \in Heads
  BY DEF Spot
<1>3. i # 0 => x \notin Heads
  <2>1. i # 0 => i \in 1 .. Len(s) /\ x = s[i]
    BY <1>1 DEF Spot
  <2> QED
    BY <1>1, <2>1, ObjectsAssumption
<1>4. Abstract!Insert(s, Len(s), t) = s \o t
  <2>1. SubSeq(s, 1, Len(s)) = s /\ SubSeq(s, Len(s) + 1, Len(s)) = <<>>
    BY <1>1
  <2>2. (s \o t) \o <<>> = s \o t
    BY <1>1
  <2> QED
    BY <2>1, <2>2 DEF Abstract!Insert
<1> HIDE DEF x
<1>5. Abstract!After(ls, x, t) = [ls EXCEPT ![h] = Abstract!Insert(@, i, t)]
  BY <1>1 DEF Abstract!After
<1>6. Abstract!Before(ls, x, t) = [ls EXCEPT ![h] = Abstract!Insert(@, Gap(@, i), t)]
  <2>1. CASE i = 0
    BY <1>1, <1>2, <1>4, <2>1 DEF Abstract!Before, Gap
  <2>2. CASE i # 0
    BY <1>1, <1>3, <2>2 DEF Abstract!Before, Gap
  <2> QED
    BY <2>1, <2>2
<1> QED
  BY <1>5, <1>6 DEF x, Lands

(* The lists of a memory are such sequences.                               *)
LEMMA ReadsSeparate ==
  ASSUME NEW mem, NEW S, NEW ls, Reads(mem, S, ls)
  PROVE  /\ Separate(ls) /\ S = InRing(mem) /\ ls = Contents(mem)
         /\ \A h \in Heads : h \in S <=> ls[h] # POISON
         /\ \A h \in Heads : h \in Abstract!Usable(ls) <=> h \in S
         /\ \A x : x \in Abstract!Placed(ls) <=>
                     \E h \in Heads \cap S : \E i \in 0 .. Len(ls[h]) : Spot(h, ls[h], i) = x
         /\ \A x \in Objects : x \in Abstract!Placed(ls) <=> x \in S /\ (x \in Heads \/ mem.next[x] # x)
<1>1. \A h \in Heads : h \in S <=> ls[h] # POISON
  BY DEF Reads
<1>2. Separate(ls)
  <2>1. ls \in [Heads -> Seq(Entries) \cup {POISON}]
    BY DEF Reads
  <2> QED
    BY <1>1, <2>1, Listed DEF Separate
<1>3. S = InRing(mem)
  BY RingsLinked DEF Reads, InRing, Rings
<1>4. ls = Contents(mem)
  BY ContentsAre
<1>5. \A x : x \in Abstract!Placed(ls) <=>
               \E h \in Heads \cap S : \E i \in 0 .. Len(ls[h]) : Spot(h, ls[h], i) = x
  BY <1>1, <1>2, PlacedIs
<1>6. ASSUME NEW x \in Objects
      PROVE  x \in Abstract!Placed(ls) <=> x \in S /\ (x \in Heads \/ mem.next[x] # x)
  <2>1. ASSUME NEW h \in Heads \cap S, NEW i \in 0 .. Len(ls[h]), Spot(h, ls[h], i) = x
        PROVE  x \in S /\ (x \in Heads \/ mem.next[x] # x)
    BY <2>1, SpotIs, NotAlone
  <2>2. ASSUME x \in S, x \in Heads
        PROVE  \E h \in Heads \cap S : \E i \in 0 .. Len(ls[h]) : Spot(h, ls[h], i) = x
    <3>1. 0 \in 0 .. Len(ls[x])
      BY <2>2, Listed
    <3> QED
      BY <2>2, <3>1 DEF Spot
  <2>3. ASSUME x \in S, x \notin Heads, mem.next[x] # x
        PROVE  \E h \in Heads \cap S : \E i \in 0 .. Len(ls[h]) : Spot(h, ls[h], i) = x
    <3>1. PICK h \in Heads \cap S : In(ls[h], x)
      BY <2>3 DEF Reads, Objects
    <3>2. PICK i \in 1 .. Len(ls[h]) : ls[h][i] = x
      BY <3>1 DEF In
    <3>3. i \in 0 .. Len(ls[h]) /\ Spot(h, ls[h], i) = x
      BY <3>2, Listed
    <3> QED
      BY <3>3
  <2> QED
    BY <1>5, <2>1, <2>2, <2>3
<1>7. \A h \in Heads : h \in Abstract!Usable(ls) <=> h \in S
  BY <1>1 DEF Abstract!Usable
<1> QED
  BY <1>1, <1>2, <1>3, <1>4, <1>5, <1>6, <1>7

(* The place of list_add_tail is right behind another.                     *)
LEMMA GapIs ==
  ASSUME NEW mem, NEW S, NEW ls, Reads(mem, S, ls), NEW h \in Heads \cap S, NEW i \in 0 .. Len(ls[h])
  PROVE  /\ Gap(ls[h], i) \in 0 .. Len(ls[h])
         /\ mem.prev[Spot(h, ls[h], i)] = Spot(h, ls[h], Gap(ls[h], i))
         /\ mem.next[Spot(h, ls[h], Gap(ls[h], i))] = Spot(h, ls[h], i)
<1>1. Len(ls[h]) \in Nat /\ Spot(h, ls[h], i) \in S /\ Rings(mem, S)
  BY Listed DEF Reads
<1>2. Gap(ls[h], i) \in 0 .. Len(ls[h])
  BY <1>1 DEF Gap
<1>3. mem.prev[Spot(h, ls[h], i)] = Spot(h, ls[h], Gap(ls[h], i))
  <2>1. CASE i = 0
    BY <2>1, Listed DEF Gap, Spot
  <2>2. CASE i # 0
    <3>1. i \in 1 .. Len(ls[h])
      BY <1>1, <2>2
    <3> QED
      BY <2>2, <3>1, Listed DEF Gap
  <2> QED
    BY <2>1, <2>2
<1>4. mem.next[mem.prev[Spot(h, ls[h], i)]] = Spot(h, ls[h], i)
  BY <1>1 DEF Rings
<1> QED
  BY <1>2, <1>3, <1>4

(* list_add and list_add_tail.                                             *)
LEMMA MapAdd ==
  ASSUME NEW mem, NEW S, NEW ls, Reads(mem, S, ls), NEW x \in Abstract!Placed(ls),
         NEW e \in Entries, Free(mem, S, e)
  PROVE  /\ Reads(list_add(mem, e, x), S \cup {e}, Abstract!After(ls, x, <<e>>))
         /\ Reads(list_add_tail(mem, e, x), S \cup {e}, Abstract!Before(ls, x, <<e>>))
<1>1. Separate(ls) /\ \A h \in Heads : h \in S <=> ls[h] # POISON
  BY ReadsSeparate
<1>2. PICK h \in Heads \cap S : \E i \in 0 .. Len(ls[h]) : Spot(h, ls[h], i) = x
  BY ReadsSeparate
<1>3. PICK i \in 0 .. Len(ls[h]) : Spot(h, ls[h], i) = x
  BY <1>2
<1> DEFINE t == <<e>>
           j == Gap(ls[h], i)
<1>4. /\ Separate(ls) /\ h \in Heads /\ ls[h] # POISON /\ i \in 0 .. Len(ls[h]) /\ t \in Seq(Entries)
      /\ j \in 0 .. Len(ls[h]) /\ mem.prev[x] = Spot(h, ls[h], j) /\ mem.next[Spot(h, ls[h], j)] = x
  <2>1. j \in 0 .. Len(ls[h]) /\ mem.prev[x] = Spot(h, ls[h], j) /\ mem.next[Spot(h, ls[h], j)] = x
    BY <1>3, GapIs
  <2> HIDE DEF j
  <2> QED
    BY <1>1, <2>1
<1>5. /\ Abstract!After(ls, x, t) = [ls EXCEPT ![h] = Abstract!Insert(@, i, t)]
      /\ Abstract!Before(ls, x, t) = [ls EXCEPT ![h] = Abstract!Insert(@, j, t)]
  <2>1. /\ Abstract!After(ls, Spot(h, ls[h], i), t) = [ls EXCEPT ![h] = Abstract!Insert(@, i, t)]
        /\ Abstract!Before(ls, Spot(h, ls[h], i), t) = [ls EXCEPT ![h] = Abstract!Insert(@, Gap(@, i), t)]
    <3>1. Lands(ls, h, i, t)
      <4> HIDE DEF t, j
      <4> QED
        BY ONLY <1>4, AfterBefore
    <3> QED
      BY <3>1 DEF Lands
  <2>2. [ls EXCEPT ![h] = Abstract!Insert(@, Gap(@, i), t)] = [ls EXCEPT ![h] = Abstract!Insert(@, j, t)]
    OBVIOUS
  <2> HIDE DEF t, j
  <2> QED
    BY ONLY <1>3, <2>1, <2>2
<1>6. Reads(list_add(mem, e, x), S \cup {e}, Abstract!After(ls, x, t))
  <2>1. Reads(__list_add(mem, e, Spot(h, ls[h], i), mem.next[Spot(h, ls[h], i)]), S \cup {e},
              [ls EXCEPT ![h] = Abstract!Insert(@, i, <<e>>)])
    BY ReadsAdd
  <2>2. list_add(mem, e, x) = __list_add(mem, e, Spot(h, ls[h], i), mem.next[Spot(h, ls[h], i)])
    BY <1>3 DEF list_add
  <2> QED
    BY ONLY <1>5, <2>1, <2>2
<1>7. Reads(list_add_tail(mem, e, x), S \cup {e}, Abstract!Before(ls, x, t))
  <2> HIDE DEF j
  <2>1. Reads(__list_add(mem, e, Spot(h, ls[h], j), mem.next[Spot(h, ls[h], j)]), S \cup {e},
              [ls EXCEPT ![h] = Abstract!Insert(@, j, <<e>>)])
    BY <1>4, ReadsAdd
  <2>2. list_add_tail(mem, e, x) = __list_add(mem, e, Spot(h, ls[h], j), mem.next[Spot(h, ls[h], j)])
    BY <1>4 DEF list_add_tail
  <2> QED
    BY ONLY <1>5, <2>1, <2>2
<1> QED
  BY <1>6, <1>7

(* __list_del_entry, which leaves the other places places.                 *)
LEMMA MapTake ==
  ASSUME NEW mem, NEW S, NEW ls, Reads(mem, S, ls), NEW e \in Entries \cap S
  PROVE  \E T : /\ Reads(__list_del_entry(mem, e), T, Abstract!Without(ls, e))
                /\ Free(__list_del_entry(mem, e), T, e)
                /\ \A x \in Abstract!Placed(ls) : x # e => x \in Abstract!Placed(Abstract!Without(ls, e))
<1>1. e \in Objects /\ e \notin Heads
  BY ObjectsAssumption DEF Objects
<1>2. CASE mem.next[e] = e
  <2>1. e \notin Abstract!Placed(ls)
    BY <1>1, <1>2, ReadsSeparate
  <2>2. Abstract!Without(ls, e) = ls
    BY <2>1 DEF Abstract!Without
  <2>3. Reads(__list_del_entry(mem, e), S, ls) /\ Free(__list_del_entry(mem, e), S, e)
    BY <1>2, ReadsDeleteAlone
  <2> QED
    BY <2>2, <2>3
<1>3. CASE mem.next[e] # e
  <2>1. e \in Abstract!Placed(ls)
    BY <1>1, <1>3, ReadsSeparate
  <2>2. PICK h \in Heads \cap S : \E i \in 0 .. Len(ls[h]) : Spot(h, ls[h], i) = e
    BY <2>1, ReadsSeparate
  <2>3. PICK i \in 0 .. Len(ls[h]) : Spot(h, ls[h], i) = e
    BY <2>2
  <2>4. /\ i \in 1 .. Len(ls[h]) /\ e = ls[h][i] /\ ls[h] \in Seq(Entries) /\ ls[h] # POISON
        /\ Separate(ls) /\ ls \in [Heads -> Seq(Entries) \cup {POISON}]
    BY <2>3, SpotIs, Listed, ReadsSeparate, ObjectsAssumption DEF Separate
  <2>5. Abstract!ListOf(ls, e) = h /\ Abstract!Index(ls, e) = i
    BY <2>3, <2>4, Found
  <2> DEFINE q == [ls EXCEPT ![h] = RemoveAt(@, i)]
             r == __list_del_entry(mem, e)
             T == S \ {e}
  <2>6. Abstract!Without(ls, e) = q
    BY <2>1, <2>5 DEF Abstract!Without, RemoveAt, Abstract!RemoveAt
  <2>7. Reads(r, T, q)
    BY <2>4, ReadsDelete
  <2>8. Free(r, T, e)
    BY FreeOutside
  <2>9. q[h] = RemoveAt(ls[h], i) /\ \A g \in Heads : g # h => q[g] = ls[g]
    BY <2>4
  <2>10. \A g \in Heads : g \in T <=> g \in S
    BY <1>1
  <2> HIDE DEF q, r, T
  <2>11. ASSUME NEW x \in Abstract!Placed(ls), x # e PROVE x \in Abstract!Placed(q)
    <3>1. PICK g \in Heads \cap S : \E j \in 0 .. Len(ls[g]) : Spot(g, ls[g], j) = x
      BY ReadsSeparate
    <3>2. PICK j \in 0 .. Len(ls[g]) : Spot(g, ls[g], j) = x
      BY <3>1
    <3>3. g \in Heads \cap T /\ q[g] \in Seq(Entries) /\ Len(q[g]) \in Nat
      BY <2>7, <2>10, Listed
    <3>4. \E k \in 0 .. Len(q[g]) : Spot(g, q[g], k) = x
      <4>1. CASE g # h
        BY <2>9, <3>2, <4>1
      <4>2. CASE g = h /\ j = 0
        <5>1. 0 \in 0 .. Len(q[g])
          BY <3>3
        <5> QED
          BY <3>2, <4>2, <5>1 DEF Spot
      <4>3. CASE g = h /\ j # 0
        <5>1. In(ls[h], x)
          BY <3>2, <4>3, SpotIs
        <5>2. In(q[h], x)
          BY <2>4, <2>9, <2>11, <5>1, RemoveHas
        <5>3. PICK k \in 1 .. Len(q[h]) : q[h][k] = x
          BY <5>2 DEF In
        <5>4. k \in 0 .. Len(q[h]) /\ k # 0
          BY <3>3, <4>3
        <5> QED
          BY <4>3, <5>3, <5>4 DEF Spot
      <4> QED
        BY <4>1, <4>2, <4>3
    <3> QED
      BY <2>7, <3>3, <3>4, ReadsSeparate
  <2>12. Reads(r, T, q) /\ Free(r, T, e) /\ \A x \in Abstract!Placed(ls) : x # e => x \in Abstract!Placed(q)
    BY <2>7, <2>8, <2>11
  <2> QED
    BY <2>6, <2>12 DEF r
<1> QED
  BY <1>2, <1>3

(* list_del and list_del_init.                                             *)
LEMMA MapDelete ==
  ASSUME NEW mem, NEW S, NEW ls, Reads(mem, S, ls), NEW e \in Entries \cap S
  PROVE  /\ \E T : Reads(list_del(mem, e), T, Abstract!Without(ls, e))
         /\ \E T : Reads(list_del_init(mem, e), T, Abstract!Without(ls, e))
<1> DEFINE r == __list_del_entry(mem, e)
           q == Abstract!Without(ls, e)
<1>1. PICK T : Reads(r, T, q) /\ Free(r, T, e)
  BY MapTake
<1> HIDE DEF r, q
<1>2. /\ Reads(INIT_LIST_HEAD(r, e), T \cup {e}, q)
      /\ Reads([r EXCEPT !.next[e] = POISON, !.prev[e] = POISON], T \ {e}, q)
  BY <1>1, ReadsFresh
<1> QED
  BY <1>2 DEF list_del, list_del_init, r, q

(* list_move and list_move_tail.                                           *)
LEMMA MapMove ==
  ASSUME NEW mem, NEW S, NEW ls, Reads(mem, S, ls), NEW e \in Entries \cap S,
         NEW x \in Abstract!Placed(ls), x # e
  PROVE  /\ \E T : Reads(list_move(mem, e, x), T, Abstract!After(Abstract!Without(ls, e), x, <<e>>))
         /\ \E T : Reads(list_move_tail(mem, e, x), T, Abstract!Before(Abstract!Without(ls, e), x, <<e>>))
<1> DEFINE r == __list_del_entry(mem, e)
           q == Abstract!Without(ls, e)
<1>1. PICK T : Reads(r, T, q) /\ Free(r, T, e) /\ x \in Abstract!Placed(q)
  BY MapTake
<1> HIDE DEF r, q
<1>2. /\ Reads(list_add(r, e, x), T \cup {e}, Abstract!After(q, x, <<e>>))
      /\ Reads(list_add_tail(r, e, x), T \cup {e}, Abstract!Before(q, x, <<e>>))
  BY <1>1, MapAdd
<1> QED
  BY <1>2 DEF list_move, list_move_tail, r, q

(* list_replace and list_replace_init of an entry.                         *)
LEMMA MapReplace ==
  ASSUME NEW mem, NEW S, NEW ls, Reads(mem, S, ls), NEW x \in Entries \cap S,
         NEW y \in Entries, x # y, Free(mem, S, y), NEW k,
         k = IF x \in Abstract!Placed(ls)
               THEN [ls EXCEPT ![Abstract!ListOf(ls, x)] = Abstract!ReplaceAt(@, Abstract!Index(ls, x), y)]
               ELSE ls
  PROVE  /\ \E T : Reads(list_replace(mem, x, y), T, k)
         /\ \E T : Reads(list_replace_init(mem, x, y), T, k)
<1> DEFINE T == (S \ {x}) \cup {y}
           r == list_replace(mem, x, y)
<1>1. x \in Objects /\ x \notin Heads
  BY ObjectsAssumption DEF Objects
<1>2. Reads(r, T, k)
  <2>1. CASE mem.next[x] = x
    <3>1. x \notin Abstract!Placed(ls)
      BY <1>1, <2>1, ReadsSeparate
    <3>2. k = ls
      BY <3>1
    <3> QED
      BY <2>1, <3>2, ReadsSwap
  <2>2. CASE mem.next[x] # x
    <3>1. x \in Abstract!Placed(ls)
      BY <1>1, <2>2, ReadsSeparate
    <3>2. PICK h \in Heads \cap S : \E i \in 0 .. Len(ls[h]) : Spot(h, ls[h], i) = x
      BY <3>1, ReadsSeparate
    <3>3. PICK i \in 0 .. Len(ls[h]) : Spot(h, ls[h], i) = x
      BY <3>2
    <3>4. i \in 1 .. Len(ls[h]) /\ x = ls[h][i] /\ ls[h] # POISON /\ Separate(ls)
      BY <3>3, SpotIs, Listed, ReadsSeparate, ObjectsAssumption
    <3>5. Abstract!ListOf(ls, x) = h /\ Abstract!Index(ls, x) = i
      BY <3>3, <3>4, Found
    <3>6. k = [ls EXCEPT ![h] = ReplaceAt(@, i, y)]
      BY <3>1, <3>5 DEF ReplaceAt, Abstract!ReplaceAt
    <3>7. Reads(list_replace(mem, ls[h][i], y), (S \ {ls[h][i]}) \cup {y}, [ls EXCEPT ![h] = ReplaceAt(@, i, y)])
      BY <3>4, ReadsReplace
    <3> QED
      BY <3>4, <3>6, <3>7
  <2> QED
    BY <2>1, <2>2
<1>3. Free(r, T, x)
  BY FreeOutside
<1> HIDE DEF r, T
<1>4. Reads(INIT_LIST_HEAD(r, x), T \cup {x}, k)
  BY <1>2, <1>3, ReadsFresh
<1> QED
  BY <1>2, <1>4 DEF list_replace_init, r

(* list_replace and list_replace_init of a head.                           *)
LEMMA MapTakeover ==
  ASSUME NEW mem, NEW S, NEW ls, Reads(mem, S, ls), NEW g \in Heads \cap S,
         NEW h \in Heads, h # g, Free(mem, S, h)
  PROVE  /\ \E T : Reads(list_replace(mem, g, h), T, [ls EXCEPT ![h] = ls[g], ![g] = POISON])
         /\ \E T : Reads(list_replace_init(mem, g, h), T, [ls EXCEPT ![h] = ls[g], ![g] = <<>>])
<1> DEFINE T == (S \ {g}) \cup {h}
           r == list_replace(mem, g, h)
           k == [ls EXCEPT ![h] = ls[g], ![g] = POISON]
<1>1. Reads(r, T, k)
  BY ReadsTakeover
<1>2. Free(r, T, g)
  BY FreeOutside
<1>3. [k EXCEPT ![g] = <<>>] = [ls EXCEPT ![h] = ls[g], ![g] = <<>>]
  OBVIOUS
<1> HIDE DEF r, T, k
<1>4. Reads(INIT_LIST_HEAD(r, g), T \cup {g}, [k EXCEPT ![g] = <<>>])
  BY <1>1, <1>2, ReadsEmptied
<1>5. \E U : Reads(INIT_LIST_HEAD(r, g), U, [ls EXCEPT ![h] = ls[g], ![g] = <<>>])
  BY ONLY <1>3, <1>4
<1> QED
  BY <1>1, <1>5 DEF list_replace_init, r, k

(* A list is empty if its sequence is.                                     *)
LEMMA EmptyIs ==
  ASSUME NEW mem, NEW S, NEW ls, Reads(mem, S, ls), NEW h \in Heads \cap S
  PROVE  /\ list_empty(mem, h) <=> ls[h] = <<>>
         /\ ls[h] # <<>> => /\ 1 \in 1 .. Len(ls[h]) /\ Len(ls[h]) \in 1 .. Len(ls[h])
                            /\ mem.next[h] = ls[h][1] /\ mem.prev[h] = ls[h][Len(ls[h])]
<1>1. /\ ls[h] \in Seq(Entries) /\ Len(ls[h]) \in Nat /\ mem.prev[h] = Spot(h, ls[h], Len(ls[h]))
      /\ \A i \in 1 .. Len(ls[h]) : ls[h][i] \in Entries
  BY Listed
<1>2. 0 \in 0 .. Len(ls[h]) /\ Spot(h, ls[h], 0) = h
  BY <1>1 DEF Spot
<1>3. mem.next[h] = IF 0 = Len(ls[h]) THEN h ELSE ls[h][1]
  BY <1>2, SpotIs
<1>4. ls[h] = <<>> <=> Len(ls[h]) = 0
  BY <1>1, EmptySeq
<1>5. Len(ls[h]) # 0 => 1 \in 1 .. Len(ls[h]) /\ Len(ls[h]) \in 1 .. Len(ls[h])
  BY <1>1
<1>6. h \notin Entries
  BY ObjectsAssumption
<1>7. list_empty(mem, h) <=> ls[h] = <<>>
  BY <1>1, <1>3, <1>4, <1>5, <1>6 DEF list_empty
<1>8. ls[h] # <<>> => mem.next[h] = ls[h][1] /\ mem.prev[h] = ls[h][Len(ls[h])]
  BY <1>1, <1>3, <1>4 DEF Spot
<1> QED
  BY <1>4, <1>5, <1>7, <1>8

(* Moving the first entry behind the last is a rotation.                   *)
LEMMA Rotated ==
  ASSUME NEW s \in Seq(Entries), s # <<>>
  PROVE  RemoveAt(s, 1) \o <<s[1]>> = Append(Tail(s), Head(s))
<1>1. SubSeq(s, 1, 0) = <<>> /\ SubSeq(s, 2, Len(s)) = Tail(s) /\ Tail(s) \in Seq(Entries) /\ Head(s) = s[1]
  <2>1. Len(s) \in Nat /\ Len(s) # 0
    BY EmptySeq
  <2> QED
    BY <2>1
<1>2. RemoveAt(s, 1) = Tail(s)
  <2>1. RemoveAt(s, 1) = SubSeq(s, 1, 0) \o SubSeq(s, 2, Len(s))
    BY DEF RemoveAt
  <2>2. <<>> \o Tail(s) = Tail(s)
    BY <1>1
  <2> QED
    BY <1>1, <2>1, <2>2
<1>3. s[1] \in Entries
  <2>1. 1 \in 1 .. Len(s)
    BY EmptySeq
  <2> QED
    BY <2>1
<1>4. Tail(s) \o <<s[1]>> = Append(Tail(s), s[1])
  BY <1>1, <1>3
<1> QED
  BY <1>1, <1>2, <1>4

(* list_rotate_left.                                                       *)
LEMMA MapRotate ==
  ASSUME NEW mem, NEW S, NEW ls, Reads(mem, S, ls), NEW h \in Heads \cap S
  PROVE  \E T : Reads(list_rotate_left(mem, h), T,
                      IF ls[h] = <<>> THEN ls ELSE [ls EXCEPT ![h] = Append(Tail(@), Head(@))])
<1>1. CASE ls[h] = <<>>
  <2>1. list_rotate_left(mem, h) = mem
    BY <1>1, EmptyIs DEF list_rotate_left
  <2> QED
    BY <1>1, <2>1
<1>2. CASE ls[h] # <<>>
  <2> DEFINE e == ls[h][1]
             q == [ls EXCEPT ![h] = RemoveAt(@, 1)]
             k == [ls EXCEPT ![h] = Append(Tail(@), Head(@))]
  <2>1. /\ 1 \in 1 .. Len(ls[h]) /\ 1 \in 0 .. Len(ls[h]) /\ ls[h] \in Seq(Entries) /\ ls[h] # POISON
        /\ ~list_empty(mem, h) /\ mem.next[h] = e /\ e \in Entries /\ e \in S /\ Spot(h, ls[h], 1) = e
        /\ Separate(ls) /\ ls \in [Heads -> Seq(Entries) \cup {POISON}] /\ e # h
    <3>1. 1 \in 1 .. Len(ls[h]) /\ ~list_empty(mem, h) /\ mem.next[h] = e
      BY <1>2, EmptyIs
    <3>2. ls[h] \in Seq(Entries) /\ Len(ls[h]) \in Nat /\ e \in Entries /\ e \in S /\ Spot(h, ls[h], 1) = e
      BY <3>1, Listed
    <3>3. Separate(ls) /\ ls[h] # POISON
      BY ReadsSeparate
    <3> QED
      BY <3>1, <3>2, <3>3, ObjectsAssumption DEF Separate
  <2> HIDE DEF e
  <2>2. /\ e \in Abstract!Placed(ls) /\ h \in Abstract!Placed(ls)
        /\ Abstract!ListOf(ls, e) = h /\ Abstract!Index(ls, e) = 1
    <3>1. e \in Abstract!Placed(ls) /\ Abstract!ListOf(ls, e) = h /\ Abstract!Index(ls, e) = 1
      BY <2>1, Found
    <3>2. h \in Abstract!Placed(ls)
      BY ReadsSeparate DEF Objects
    <3> QED
      BY <3>1, <3>2
  <2>3. Abstract!Without(ls, e) = q
    <3>1. Abstract!Without(ls, e) = [ls EXCEPT ![h] = Abstract!RemoveAt(@, 1)]
      BY <2>2 DEF Abstract!Without
    <3>2. \A s : Abstract!RemoveAt(s, 1) = RemoveAt(s, 1)
      BY DEF RemoveAt, Abstract!RemoveAt
    <3> QED
      BY <3>1, <3>2
  <2>4. PICK U : Reads(__list_del_entry(mem, e), U, q) /\ h \in Abstract!Placed(q)
    <3>1. e \in Entries \cap S
      BY <2>1
    <3>2. \E U : /\ Reads(__list_del_entry(mem, e), U, Abstract!Without(ls, e))
                 /\ Free(__list_del_entry(mem, e), U, e)
                 /\ \A x \in Abstract!Placed(ls) : x # e => x \in Abstract!Placed(Abstract!Without(ls, e))
      BY <3>1, MapTake
    <3> HIDE DEF q
    <3> QED
      BY ONLY <2>1, <2>2, <2>3, <3>2
  <2>5. q[h] = RemoveAt(ls[h], 1) /\ q[h] \in Seq(Entries) /\ q[h] # POISON
    <3>1. q[h] = RemoveAt(ls[h], 1)
      BY <2>1
    <3>2. RemoveAt(ls[h], 1) \in Seq(Entries)
      BY <2>1, RemovedAt
    <3> QED
      BY <3>1, <3>2, ObjectsAssumption
  <2> HIDE DEF q
  <2>6. Abstract!ListOf(q, h) = h
    <3>1. Separate(q)
      BY <2>4, ReadsSeparate
    <3>2. 0 \in 0 .. Len(q[h]) /\ Spot(h, q[h], 0) = h
      BY <2>5 DEF Spot
    <3> QED
      BY <2>5, <3>1, <3>2, Found
  <2>7. Abstract!Before(q, h, <<e>>) = [q EXCEPT ![h] = @ \o <<e>>]
    BY <2>6 DEF Abstract!Before
  <2>8. RemoveAt(ls[h], 1) \o <<e>> = Append(Tail(ls[h]), Head(ls[h]))
    BY <1>2, <2>1, Rotated DEF e
  <2>9. [q EXCEPT ![h] = @ \o <<e>>] = k
    BY <2>1, <2>5, <2>8 DEF q
  <2>10. list_rotate_left(mem, h) = list_move_tail(mem, e, h)
    BY <2>1 DEF list_rotate_left
  <2>11. PICK T : Reads(list_move_tail(mem, e, h), T, Abstract!Before(Abstract!Without(ls, e), h, <<e>>))
    BY <2>1, <2>2, MapMove
  <2>12. Reads(list_rotate_left(mem, h), T, k)
    BY ONLY <2>3, <2>7, <2>9, <2>10, <2>11
  <2> QED
    BY <1>2, <2>12
<1> QED
  BY <1>1, <1>2

(* list_cut_position.                                                      *)
LEMMA MapCut ==
  ASSUME NEW mem, NEW S, NEW ls, Reads(mem, S, ls), NEW h \in Heads \cap S,
         NEW l \in Heads, l # h, Free(mem, S, l), NEW x, NEW i, i = Abstract!Index(ls, x),
         \/ list_empty(mem, h) \/ list_is_singular(mem, h) \/ x \in Abstract!ToSet(Abstract!Ring(ls, h))
  PROVE  \E T : Reads(list_cut_position(mem, l, h, x), T,
                      IF ls[h] # <<>> /\ x \in Abstract!ToSet(Abstract!Ring(ls, h))
                        THEN [ls EXCEPT ![l] = SubSeq(ls[h], 1, i), ![h] = SubSeq(@, i + 1, Len(@))]
                        ELSE ls)
<1> DEFINE s == ls[h]
           k == [ls EXCEPT ![l] = SubSeq(s, 1, i), ![h] = SubSeq(@, i + 1, Len(@))]
           c == list_cut_position(mem, l, h, x)
<1>1. /\ s \in Seq(Entries) /\ Len(s) \in Nat /\ s # POISON /\ Separate(ls)
      /\ ls \in [Heads -> Seq(Entries) \cup {POISON}]
      /\ \A j \in 1 .. Len(s) : s[j] \in Entries /\ Spot(h, s, j) = s[j]
  BY Listed, ReadsSeparate DEF Separate
<1>2. \A o : o \in Abstract!ToSet(Abstract!Ring(ls, h)) <=> \E j \in 0 .. Len(s) : Spot(h, s, j) = o
  BY <1>1, RingIs
<1>3. /\ list_empty(mem, h) <=> s = <<>>
      /\ s # <<>> => /\ 1 \in 1 .. Len(s) /\ Len(s) \in 1 .. Len(s)
                     /\ mem.next[h] = s[1] /\ mem.prev[h] = s[Len(s)]
  BY EmptyIs
<1>4. s # <<>> /\ list_is_singular(mem, h) => Len(s) = 1
  <2> SUFFICES ASSUME s # <<>>, list_is_singular(mem, h) PROVE Len(s) = 1
    OBVIOUS
  <2>1. /\ 1 \in 1 .. Len(s) /\ Len(s) \in 1 .. Len(s) /\ 1 \in 0 .. Len(s) /\ Len(s) \in 0 .. Len(s)
        /\ s[1] = s[Len(s)]
    BY <1>1, <1>3 DEF list_is_singular
  <2>2. Spot(h, s, 1) = Spot(h, s, Len(s))
    BY <1>1, <2>1
  <2> DEFINE y == Len(s)
  <2>3. y \in 0 .. Len(s) /\ 1 \in 0 .. Len(s) /\ Spot(h, s, 1) = Spot(h, s, y)
    BY <2>1, <2>2
  <2> HIDE DEF y
  <2>4. 1 = y
    BY <2>3, Listed
  <2> QED
    BY <2>4 DEF y
<1>5. ASSUME s = <<>> \/ x \notin Abstract!ToSet(Abstract!Ring(ls, h)) PROVE c = mem
  <2>1. CASE s = <<>>
    BY <1>3, <2>1 DEF list_cut_position
  <2>2. CASE s # <<>>
    <3>1. list_is_singular(mem, h)
      BY <1>3, <1>5, <2>2
    <3>2. 0 \in 0 .. Len(s) /\ 1 \in 0 .. Len(s) /\ Spot(h, s, 0) = h /\ Spot(h, s, 1) = mem.next[h]
      BY <1>1, <1>3, <2>2 DEF Spot
    <3>3. x \notin {mem.next[h], h}
      BY <1>2, <1>5, <2>2, <3>2
    <3> QED
      BY <3>1, <3>3 DEF list_cut_position
  <2> QED
    BY <2>1, <2>2
<1>6. ASSUME s # <<>>, x \in Abstract!ToSet(Abstract!Ring(ls, h)) PROVE \E T : Reads(c, T, k)
  <2>1. PICK j \in 0 .. Len(s) : Spot(h, s, j) = x
    BY <1>2, <1>6
  <2>2. i = j
    BY <1>1, <2>1, Found
  <2>3. CASE j = 0
    <3>1. x = h
      BY <2>1, <2>3 DEF Spot
    <3>2. c = INIT_LIST_HEAD(mem, l)
      BY <1>3, <1>6, <3>1 DEF list_cut_position
    <3>3. Reads(INIT_LIST_HEAD(mem, l), S \cup {l}, [ls EXCEPT ![l] = <<>>])
      BY ReadsEmptied
    <3>4. k = [ls EXCEPT ![l] = <<>>]
      <4>1. SubSeq(s, 1, 0) = <<>> /\ SubSeq(s, 0 + 1, Len(s)) = s
        BY <1>1
      <4> QED
        BY <1>1, <2>2, <2>3, <4>1
    <3> QED
      BY ONLY <3>2, <3>3, <3>4
  <2>4. CASE j # 0
    <3>1. j \in 1 .. Len(s) /\ x = s[j] /\ x # h
      BY <1>1, <2>1, <2>4, ObjectsAssumption
    <3>2. list_is_singular(mem, h) => x = mem.next[h]
      <4>1. list_is_singular(mem, h) => j = 1
        <5>1. \A a \in 1 .. 1 : a = 1
          OBVIOUS
        <5>2. list_is_singular(mem, h) => 1 .. Len(s) = 1 .. 1
          BY <1>4, <1>6
        <5> QED
          BY ONLY <3>1, <5>1, <5>2
      <4> QED
        BY <1>3, <1>6, <3>1, <4>1
    <3>3. c = __list_cut_position(mem, l, h, s[j])
      BY <1>3, <1>6, <3>1, <3>2 DEF list_cut_position
    <3>4. Reads(__list_cut_position(mem, l, h, ls[h][j]), S \cup {l},
                [ls EXCEPT ![l] = SubSeq(ls[h], 1, j), ![h] = SubSeq(@, j + 1, Len(@))])
      BY <3>1, ReadsCut
    <3> QED
      BY <2>2, <3>3, <3>4
  <2> QED
    BY <2>3, <2>4
<1>7. ASSUME s # <<>> /\ x \in Abstract!ToSet(Abstract!Ring(ls, h))
      PROVE  \E T : Reads(c, T, IF s # <<>> /\ x \in Abstract!ToSet(Abstract!Ring(ls, h)) THEN k ELSE ls)
  <2> HIDE DEF c, k, s
  <2> QED
    BY <1>6, <1>7
<1>8. ASSUME ~(s # <<>> /\ x \in Abstract!ToSet(Abstract!Ring(ls, h)))
      PROVE  \E T : Reads(c, T, IF s # <<>> /\ x \in Abstract!ToSet(Abstract!Ring(ls, h)) THEN k ELSE ls)
  <2> HIDE DEF c, k, s
  <2>1. Reads(c, S, ls)
    BY <1>5, <1>8
  <2> QED
    BY <1>8, <2>1
<1>9. \E T : Reads(c, T, IF s # <<>> /\ x \in Abstract!ToSet(Abstract!Ring(ls, h)) THEN k ELSE ls)
  <2> HIDE DEF c, k, s
  <2> QED
    BY <1>7, <1>8
<1> QED
  BY <1>9

(* __list_splice, alone and with the emptied head initialised.             *)
LEMMA SpliceAt ==
  ASSUME NEW mem, NEW S, NEW ls, Reads(mem, S, ls), NEW h \in Heads \cap S, NEW j \in 0 .. Len(ls[h]),
         NEW l \in Heads \cap S, l # h, ls[l] # <<>>, NEW r,
         r = __list_splice(mem, l, Spot(h, ls[h], j), mem.next[Spot(h, ls[h], j)])
  PROVE  /\ \E T : Reads(r, T, [[ls EXCEPT ![l] = POISON] EXCEPT ![h] = Abstract!Insert(@, j, ls[l])])
         /\ \E T : Reads(INIT_LIST_HEAD(r, l), T,
                         [[ls EXCEPT ![l] = <<>>] EXCEPT ![h] = Abstract!Insert(@, j, ls[l])])
<1> DEFINE k == [[ls EXCEPT ![l] = POISON] EXCEPT ![h] = Abstract!Insert(@, j, ls[l])]
           T == S \ {l}
<1>1. Reads(r, T, k)
  BY ReadsSplice
<1>2. Free(r, T, l)
  BY FreeOutside
<1>3. [k EXCEPT ![l] = <<>>] = [[ls EXCEPT ![l] = <<>>] EXCEPT ![h] = Abstract!Insert(@, j, ls[l])]
  <2> DEFINE q == Abstract!Insert(ls[h], j, ls[l])
  <2>1. k = [[ls EXCEPT ![l] = POISON] EXCEPT ![h] = q]
    OBVIOUS
  <2>2. [[ls EXCEPT ![l] = <<>>] EXCEPT ![h] = Abstract!Insert(@, j, ls[l])] = [[ls EXCEPT ![l] = <<>>] EXCEPT ![h] = q]
    OBVIOUS
  <2> HIDE DEF k, q
  <2>3. [k EXCEPT ![l] = <<>>] = [[ls EXCEPT ![l] = <<>>] EXCEPT ![h] = q]
    BY <2>1
  <2> QED
    BY <2>2, <2>3
<1> HIDE DEF k, T
<1>4. Reads(INIT_LIST_HEAD(r, l), T \cup {l}, [k EXCEPT ![l] = <<>>])
  BY <1>1, <1>2, ReadsEmptied
<1>5. \E U : Reads(INIT_LIST_HEAD(r, l), U,
                   [[ls EXCEPT ![l] = <<>>] EXCEPT ![h] = Abstract!Insert(@, j, ls[l])])
  BY ONLY <1>3, <1>4
<1> QED
  BY <1>1, <1>5 DEF k

(* Inserting no entries changes nothing.                                   *)
LEMMA InsertNone ==
  ASSUME NEW s \in Seq(Entries), NEW i \in 0 .. Len(s)
  PROVE  Abstract!Insert(s, i, <<>>) = s
<1> DEFINE q == Abstract!Insert(s, i, <<>>)
           z == Len(s)
<1>1. <<>> \in Seq(Entries) /\ Len(<<>>) = 0
  OBVIOUS
<1>2. Inserts(q, s, i, <<>>)
  BY <1>1, InsertIs
<1> HIDE DEF q
<1>3. /\ q \in Seq(Entries) /\ Len(q) = z + 0 /\ z \in Nat
      /\ \A j \in 1 .. i : q[j] = s[j]
      /\ \A j \in i + 1 .. z : q[j + 0] = s[j]
  BY <1>1, <1>2 DEF Inserts
<1>4. ASSUME NEW j \in 1 .. z PROVE q[j] = s[j]
  <2>1. (j \in 1 .. i \/ j \in i + 1 .. z) /\ j + 0 = j
    BY <1>3
  <2> QED
    BY <1>3, <2>1
<1>5. q = s
  BY <1>3, <1>4
<1> QED
  BY <1>5 DEF q

(* The lists without that of l, which goes elsewhere.                      *)
Left(ls, l, end) == IF ls[l] = <<>> THEN ls ELSE [ls EXCEPT ![l] = end]

(* Without the list of l each object is still at one place.                *)
LEMMA LeftSeparate ==
  ASSUME NEW ls, Separate(ls), NEW l \in Heads, ls[l] # POISON, NEW end \in {POISON, <<>>}
  PROVE  Separate([ls EXCEPT ![l] = end])
<1> DEFINE k == [ls EXCEPT ![l] = end]
<1>1. /\ ls \in [Heads -> Seq(Entries) \cup {POISON}] /\ ls[l] \in Seq(Entries) /\ Len(ls[l]) \in Nat
      /\ <<>> \in Seq(Entries) /\ Len(<<>>) = 0
  BY DEF Separate
<1>2. /\ k \in [Heads -> Seq(Entries) \cup {POISON}]
      /\ \A h \in Heads : k[h] = IF h = l THEN end ELSE ls[h]
  BY <1>1
<1> HIDE DEF k
<1>3. ASSUME NEW h \in Heads, k[h] # POISON, NEW i \in 0 .. Len(k[h])
      PROVE  ls[h] # POISON /\ i \in 0 .. Len(ls[h]) /\ Spot(h, k[h], i) = Spot(h, ls[h], i)
  <2>1. CASE h = l
    <3>1. k[h] = <<>> /\ i = 0
      BY <1>1, <1>2, <1>3, <2>1
    <3>2. 0 \in 0 .. Len(ls[h])
      BY <1>1, <2>1
    <3> QED
      BY <2>1, <3>1, <3>2 DEF Spot
  <2>2. CASE h # l
    BY <1>2, <1>3, <2>2
  <2> QED
    BY <2>1, <2>2
<1>4. Separate(k)
  <2>1. ASSUME NEW h \in Heads, NEW g \in Heads, k[h] # POISON, k[g] # POISON,
               NEW i \in 0 .. Len(k[h]), NEW j \in 0 .. Len(k[g]), Spot(h, k[h], i) = Spot(g, k[g], j)
        PROVE  h = g /\ i = j
    <3>1. ls[h] # POISON /\ i \in 0 .. Len(ls[h]) /\ Spot(h, k[h], i) = Spot(h, ls[h], i)
      BY <1>3, <2>1
    <3>2. ls[g] # POISON /\ j \in 0 .. Len(ls[g]) /\ Spot(g, k[g], j) = Spot(g, ls[g], j)
      BY <1>3, <2>1
    <3>3. \A a \in 0 .. Len(ls[h]), b \in 0 .. Len(ls[g]) :
            Spot(h, ls[h], a) = Spot(g, ls[g], b) => h = g /\ a = b
      BY <3>1, <3>2 DEF Separate
    <3>4. Spot(h, ls[h], i) = Spot(g, ls[g], j)
      BY <2>1, <3>1, <3>2
    <3> QED
      BY <3>1, <3>2, <3>3, <3>4
  <2> QED
    BY <1>2, <2>1 DEF Separate
<1> QED
  BY <1>4 DEF k

(* The four splices.                                                       *)
LEMMA MapSplice ==
  ASSUME NEW mem, NEW S, NEW ls, Reads(mem, S, ls), NEW l \in Heads \cap S,
         NEW x \in Abstract!Placed(ls), Abstract!ListOf(ls, x) # l
  PROVE  /\ \E T : Reads(list_splice(mem, l, x), T, Abstract!After(Left(ls, l, POISON), x, ls[l]))
         /\ \E T : Reads(list_splice_tail(mem, l, x), T, Abstract!Before(Left(ls, l, POISON), x, ls[l]))
         /\ \E T : Reads(list_splice_init(mem, l, x), T, Abstract!After(Left(ls, l, <<>>), x, ls[l]))
         /\ \E T : Reads(list_splice_tail_init(mem, l, x), T, Abstract!Before(Left(ls, l, <<>>), x, ls[l]))
<1> DEFINE t == ls[l]
<1>1. /\ Separate(ls) /\ t \in Seq(Entries) /\ t # POISON /\ ls \in [Heads -> Seq(Entries) \cup {POISON}]
      /\ \A h \in Heads : h \in S <=> ls[h] # POISON
  BY ReadsSeparate, Listed DEF Separate
<1>2. PICK h \in Heads \cap S : \E i \in 0 .. Len(ls[h]) : Spot(h, ls[h], i) = x
  BY ReadsSeparate
<1>3. PICK i \in 0 .. Len(ls[h]) : Spot(h, ls[h], i) = x
  BY <1>2
<1> DEFINE j == Gap(ls[h], i)
<1>4. h # l /\ ls[h] # POISON /\ ls[h] \in Seq(Entries) /\ Len(ls[h]) \in Nat /\ h \in Heads
  BY <1>1, <1>3, Found, Listed
<1>5. j \in 0 .. Len(ls[h]) /\ mem.prev[x] = Spot(h, ls[h], j) /\ mem.next[Spot(h, ls[h], j)] = x
  BY <1>3, GapIs
<1>6. list_empty(mem, l) <=> t = <<>>
  BY EmptyIs
<1> HIDE DEF t
<1>7. CASE t = <<>>
  <2>1. /\ list_splice(mem, l, x) = mem /\ list_splice_tail(mem, l, x) = mem
        /\ list_splice_init(mem, l, x) = mem /\ list_splice_tail_init(mem, l, x) = mem
    BY <1>6, <1>7 DEF list_splice, list_splice_tail, list_splice_init, list_splice_tail_init
  <2>2. Left(ls, l, POISON) = ls /\ Left(ls, l, <<>>) = ls
    BY <1>7 DEF Left, t
  <2>3. Lands(ls, h, i, t)
    <3>1. Separate(ls) /\ h \in Heads /\ ls[h] # POISON /\ i \in 0 .. Len(ls[h]) /\ t \in Seq(Entries)
      BY <1>1, <1>4
    <3> QED
      BY ONLY <3>1, AfterBefore
  <2>4. Abstract!Insert(ls[h], i, <<>>) = ls[h] /\ Abstract!Insert(ls[h], j, <<>>) = ls[h]
    <3> HIDE DEF j
    <3> QED
      BY <1>4, <1>5, InsertNone
  <2>5. /\ Abstract!After(ls, x, t) = [ls EXCEPT ![h] = Abstract!Insert(ls[h], i, t)]
        /\ Abstract!Before(ls, x, t) = [ls EXCEPT ![h] = Abstract!Insert(ls[h], j, t)]
    BY <1>3, <2>3 DEF Lands
  <2>6. Abstract!After(ls, x, t) = ls /\ Abstract!Before(ls, x, t) = ls
    <3>1. [ls EXCEPT ![h] = ls[h]] = ls
      BY <1>1
    <3> HIDE DEF j
    <3> QED
      BY ONLY <1>7, <2>4, <2>5, <3>1
  <2> QED
    BY <2>1, <2>2, <2>6 DEF t
<1>8. CASE t # <<>>
  <2>1. ASSUME NEW end \in {POISON, <<>>}
        PROVE  /\ Abstract!After(Left(ls, l, end), x, t)
                    = [[ls EXCEPT ![l] = end] EXCEPT ![h] = Abstract!Insert(@, i, t)]
               /\ Abstract!Before(Left(ls, l, end), x, t)
                    = [[ls EXCEPT ![l] = end] EXCEPT ![h] = Abstract!Insert(@, j, t)]
    <3> DEFINE q == [ls EXCEPT ![l] = end]
    <3>1. Left(ls, l, end) = q
      BY <1>8 DEF Left, t
    <3>2. q[h] = ls[h]
      BY <1>1, <1>4
    <3>3. Separate(q)
      BY <1>1, LeftSeparate DEF t
    <3> HIDE DEF q
    <3>4. Lands(q, h, i, t)
      <4>1. Separate(q) /\ h \in Heads /\ q[h] # POISON /\ i \in 0 .. Len(q[h]) /\ t \in Seq(Entries)
        BY <1>1, <1>4, <3>2, <3>3
      <4> QED
        BY ONLY <4>1, AfterBefore
    <3>5. /\ Abstract!After(q, x, t) = [q EXCEPT ![h] = Abstract!Insert(@, i, t)]
          /\ Abstract!Before(q, x, t) = [q EXCEPT ![h] = Abstract!Insert(@, j, t)]
      BY <1>3, <3>2, <3>4 DEF Lands
    <3> QED
      BY <3>1, <3>5 DEF q
  <2>2. ~list_empty(mem, l)
    BY <1>6, <1>8
  <2> DEFINE a == __list_splice(mem, l, x, mem.next[x])
             b == __list_splice(mem, l, mem.prev[x], x)
  <2>3. /\ list_splice(mem, l, x) = a /\ list_splice_tail(mem, l, x) = b
        /\ list_splice_init(mem, l, x) = INIT_LIST_HEAD(a, l)
        /\ list_splice_tail_init(mem, l, x) = INIT_LIST_HEAD(b, l)
    BY <2>2 DEF list_splice, list_splice_tail, list_splice_init, list_splice_tail_init
  <2>4. /\ a = __list_splice(mem, l, Spot(h, ls[h], i), mem.next[Spot(h, ls[h], i)])
        /\ b = __list_splice(mem, l, Spot(h, ls[h], j), mem.next[Spot(h, ls[h], j)])
    BY <1>3, <1>5
  <2> HIDE DEF a, b, j
  <2>5. /\ \E T : Reads(a, T, [[ls EXCEPT ![l] = POISON] EXCEPT ![h] = Abstract!Insert(@, i, ls[l])])
        /\ \E T : Reads(INIT_LIST_HEAD(a, l), T,
                        [[ls EXCEPT ![l] = <<>>] EXCEPT ![h] = Abstract!Insert(@, i, ls[l])])
    BY <1>4, <1>8, <2>4, SpliceAt DEF t
  <2>6. /\ \E T : Reads(b, T, [[ls EXCEPT ![l] = POISON] EXCEPT ![h] = Abstract!Insert(@, j, ls[l])])
        /\ \E T : Reads(INIT_LIST_HEAD(b, l), T,
                        [[ls EXCEPT ![l] = <<>>] EXCEPT ![h] = Abstract!Insert(@, j, ls[l])])
    BY <1>4, <1>5, <1>8, <2>4, SpliceAt DEF t
  <2>7. /\ Abstract!After(Left(ls, l, POISON), x, t)
             = [[ls EXCEPT ![l] = POISON] EXCEPT ![h] = Abstract!Insert(@, i, t)]
        /\ Abstract!Before(Left(ls, l, POISON), x, t)
             = [[ls EXCEPT ![l] = POISON] EXCEPT ![h] = Abstract!Insert(@, j, t)]
    BY <2>1
  <2>8. /\ Abstract!After(Left(ls, l, <<>>), x, t)
             = [[ls EXCEPT ![l] = <<>>] EXCEPT ![h] = Abstract!Insert(@, i, t)]
        /\ Abstract!Before(Left(ls, l, <<>>), x, t)
             = [[ls EXCEPT ![l] = <<>>] EXCEPT ![h] = Abstract!Insert(@, j, t)]
    BY <2>1
  <2>9. t = ls[l]
    BY DEF t
  <2> QED
    BY ONLY <2>3, <2>5, <2>6, <2>7, <2>8, <2>9
<1> QED
  BY <1>7, <1>8

(* The memory is rings and lists.                                          *)
Sequences == Reads(m, InRing(m), Contents(m))

Sound == TypeOK /\ RingsConsistent /\ Sequences

(* What the calls' preconditions mean for the lists.                       *)
Situation(S, ls) ==
  /\ Reads(m, S, ls) /\ Contents(m) = ls
  /\ \A x \in Objects : On(x) <=> x \in S
  /\ \A x \in Objects : Alone(x) => Free(m, S, x)
  /\ \A h \in Heads : On(h) => h \in Heads \cap S /\ h \in Abstract!Usable(ls)
  /\ \A h \in Heads : Alone(h) => Abstract!Vacant(h)
  /\ \A e \in Entries : On(e) => e \in Entries \cap S
  /\ \A e \in Entries : Alone(e) => e \in Entries \ Abstract!Placed(ls)
  /\ \A x \in Objects : Placed(x) => x \in Abstract!Placed(ls)
  /\ \A h \in Heads, x \in Objects :
       On(h) /\ SameRing(h, x) => x \in Abstract!ToSet(Abstract!Ring(ls, h))
  /\ \A h \in Heads, x \in Objects :
       On(h) /\ Placed(x) /\ ~SameRing(h, x) => Abstract!ListOf(ls, x) # h

(* A set closed under next and prev is a union of lists.                   *)
LEMMA RingClosed ==
  ASSUME NEW S, NEW ls, Reads(m, S, ls), NEW h \in Heads \cap S, NEW x \in Objects
  PROVE  SameRing(h, x) <=> \E j \in 0 .. Len(ls[h]) : Spot(h, ls[h], j) = x
<1> DEFINE s == ls[h]
           R == {Spot(h, s, j) : j \in 0 .. Len(s)}
<1>1. s \in Seq(Entries) /\ Len(s) \in Nat
  BY Listed
<1>2. R \in SUBSET Objects /\ h \in R
  <2>1. 0 \in 0 .. Len(s) /\ Spot(h, s, 0) = h
    BY <1>1 DEF Spot
  <2>2. R \subseteq Objects
    BY SpotIs
  <2> QED
    BY <2>1, <2>2
<1>3. ASSUME NEW o \in R PROVE m.next[o] \in R /\ m.prev[o] \in R
  <2>1. PICK j \in 0 .. Len(s) : o = Spot(h, s, j)
    OBVIOUS
  <2>2. m.prev[o] \in R
    BY <2>1, GapIs
  <2>3. m.next[o] \in R
    <3>1. CASE j = Len(s)
      BY <1>2, <2>1, <3>1, SpotIs
    <3>2. CASE j # Len(s)
      <4>1. j + 1 \in 0 .. Len(s) /\ j + 1 # 0
        BY <1>1, <3>2
      <4>2. m.next[o] = Spot(h, s, j + 1)
        BY <2>1, <3>2, <4>1, SpotIs DEF Spot
      <4> QED
        BY <4>1, <4>2
    <3> QED
      BY <3>1, <3>2
  <2> QED
    BY <2>2, <2>3
<1>4. SameRing(h, x) => x \in R
  <2> HIDE DEF R
  <2> QED
    BY <1>2, <1>3 DEF SameRing
<1>5. ASSUME NEW A \in SUBSET Objects, h \in A, \A o \in A : m.next[o] \in A /\ m.prev[o] \in A,
             NEW j \in 0 .. Len(s)
      PROVE  Spot(h, s, j) \in A
  <2> DEFINE P == {i \in Nat : i <= Len(s) => Spot(h, s, i) \in A}
  <2>1. 0 \in P
    BY <1>5 DEF Spot
  <2>2. ASSUME NEW i \in Nat, i \in P PROVE i + 1 \in P
    <3> SUFFICES ASSUME i + 1 <= Len(s) PROVE Spot(h, s, i + 1) \in A
      OBVIOUS
    <3>1. i \in 0 .. Len(s) /\ i # Len(s) /\ i <= Len(s) /\ i + 1 # 0
      BY <1>1
    <3>2. m.next[Spot(h, s, i)] = Spot(h, s, i + 1)
      BY <3>1, SpotIs DEF Spot
    <3> QED
      BY <1>5, <2>2, <3>1, <3>2
  <2>3. \A i \in Nat : i \in P
    <3> HIDE DEF P
    <3> QED
      BY <2>1, <2>2, InductionOnSet
  <2>4. j \in Nat /\ j <= Len(s)
    BY <1>1
  <2> QED
    BY <2>3, <2>4
<1>6. x \in R => SameRing(h, x)
  BY <1>5 DEF SameRing
<1> QED
  BY <1>4, <1>6

(* Every state of a sound memory is a Situation.                           *)
LEMMA InSituation == Sound => Situation(InRing(m), Contents(m))
<1> SUFFICES ASSUME Sound PROVE Situation(InRing(m), Contents(m))
  OBVIOUS
<1>1. PICK S : S = InRing(m)
  OBVIOUS
<1>2. PICK ls : ls = Contents(m)
  OBVIOUS
<1>3. Reads(m, S, ls)
  BY <1>1, <1>2 DEF Sound, Sequences
<1>4. /\ \A x \in Objects : On(x) <=> x \in S
      /\ \A x \in Objects : Alone(x) => Free(m, S, x)
  BY <1>1, Places DEF Sound
<1>5. Heads \subseteq Objects /\ Entries \subseteq Objects /\ \A e \in Entries : e \notin Heads
  BY ObjectsAssumption DEF Objects
<1>6. \A h \in Heads : On(h) => h \in Heads \cap S /\ h \in Abstract!Usable(ls)
  BY <1>3, <1>4, <1>5, ReadsSeparate
<1>7. \A x \in Objects : x \in Abstract!Placed(ls) <=> x \in S /\ (x \in Heads \/ m.next[x] # x)
  BY <1>3, ReadsSeparate
<1>8. \A x \in Objects : Placed(x) => x \in Abstract!Placed(ls)
  BY <1>4, <1>7 DEF Placed
<1>9. \A e \in Entries : Alone(e) => e \in Entries \ Abstract!Placed(ls)
  BY <1>4, <1>5, <1>7 DEF Free
<1>10. ASSUME NEW h \in Heads, Alone(h) PROVE Abstract!Vacant(h)
  <2>1. h \in S => ls[h] = <<>>
    BY <1>3, <1>4, <1>5, <1>10, FreeUnlisted
  <2>2. h \notin S => ls[h] = POISON
    BY <1>3 DEF Reads
  <2> QED
    BY <1>2, <2>1, <2>2 DEF Abstract!Vacant
<1>11. ASSUME NEW h \in Heads, NEW x \in Objects, On(h), SameRing(h, x)
       PROVE  x \in Abstract!ToSet(Abstract!Ring(ls, h))
  <2>1. h \in Heads \cap S
    BY <1>6, <1>11
  <2>2. \E j \in 0 .. Len(ls[h]) : Spot(h, ls[h], j) = x
    BY <1>3, <1>11, <2>1, RingClosed
  <2>3. ls[h] \in Seq(Entries)
    BY <1>3, <2>1, Listed
  <2> QED
    BY <2>2, <2>3, RingIs
<1>12. ASSUME NEW h \in Heads, NEW x \in Objects, On(h), Placed(x), ~SameRing(h, x)
       PROVE  Abstract!ListOf(ls, x) # h
  <2>1. h \in Heads \cap S /\ x \in Abstract!Placed(ls)
    BY <1>6, <1>8, <1>12
  <2>2. PICK g \in Heads \cap S : \E i \in 0 .. Len(ls[g]) : Spot(g, ls[g], i) = x
    BY <1>3, <2>1, ReadsSeparate
  <2>3. PICK i \in 0 .. Len(ls[g]) : Spot(g, ls[g], i) = x
    BY <2>2
  <2>4. g # h
    BY <1>3, <1>12, <2>1, <2>3, RingClosed
  <2>5. Separate(ls) /\ ls[g] # POISON
    BY <1>3, ReadsSeparate
  <2> QED
    BY <2>3, <2>4, <2>5, Found
<1>13. \A e \in Entries : On(e) => e \in Entries \cap S
  BY <1>4, <1>5
<1>14. Situation(S, ls)
  BY <1>2, <1>3, <1>4, <1>6, <1>8, <1>9, <1>10, <1>11, <1>12, <1>13 DEF Situation
<1> QED
  BY <1>1, <1>2, <1>14

(* A memory that reads as the lists k is seen as k.                        *)
LEMMA SeenAs ==
  ASSUME NEW q, NEW k, \E T : Reads(q, T, k)
  PROVE  Contents(q) = k /\ Reads(q, InRing(q), Contents(q))
BY ReadsSeparate

(* The call o leaves the lists k.                                          *)
Does(o, k) == Abstract!Call(o, k) /\ Sequences'

(* A call that leads to a memory read as k does what ListSeq says, with k. *)
LEMMA Done ==
  ASSUME NEW o, NEW q, Call(o, q), NEW k, \E T : Reads(q, T, k)
  PROVE  Does(o, k)
<1>1. op' = o /\ m' = q
  BY DEF Call
<1>2. Contents(q) = k /\ Reads(q, InRing(q), Contents(q))
  BY SeenAs
<1> QED
  BY <1>1, <1>2 DEF Does, Abstract!Call, Sequences

(* Each action of ListHead is the action of ListSeq of the same name.      *)
LEMMA InitialiseMaps == Sound /\ Initialise => Abstract!Initialise /\ Sequences'
<1> SUFFICES ASSUME Sound, Initialise PROVE Abstract!Initialise /\ Sequences'
  OBVIOUS
<1>1. PICK S, ls : Situation(S, ls)
  BY InSituation
<1>2. PICK x \in Objects : Alone(x) /\ Call(<<"INIT_LIST_HEAD", x>>, INIT_LIST_HEAD(m, x))
  BY DEF Initialise
<1>3. Contents(m) = ls /\ Reads(m, S, ls) /\ Free(m, S, x)
  BY <1>1, <1>2 DEF Situation
<1>4. CASE x \in Heads
  <2>1. Reads(INIT_LIST_HEAD(m, x), S \cup {x}, [ls EXCEPT ![x] = <<>>])
    BY <1>3, <1>4, ReadsEmptied
  <2>2. Does(<<"INIT_LIST_HEAD", x>>, [ls EXCEPT ![x] = <<>>])
    BY <1>2, <2>1, Done
  <2>3. Abstract!Vacant(x)
    BY <1>1, <1>2, <1>4 DEF Situation
  <2> QED
    BY <1>3, <1>4, <2>2, <2>3 DEF Does, Abstract!Initialise
<1>5. CASE x \in Entries
  <2>1. Reads(INIT_LIST_HEAD(m, x), S \cup {x}, ls)
    BY <1>3, <1>5, ReadsFresh
  <2>2. Does(<<"INIT_LIST_HEAD", x>>, ls)
    BY <1>2, <2>1, Done
  <2>3. x \in Entries \ Abstract!Placed(ls)
    BY <1>1, <1>2, <1>5 DEF Situation
  <2> QED
    BY <1>3, <2>2, <2>3 DEF Does, Abstract!Initialise
<1> QED
  BY <1>4, <1>5 DEF Objects

(* list_add and list_add_tail.                                             *)
LEMMA AddMaps == Sound /\ Add => Abstract!Add /\ Sequences'
<1> SUFFICES ASSUME Sound, Add PROVE Abstract!Add /\ Sequences'
  OBVIOUS
<1>1. PICK S, ls : Situation(S, ls)
  BY InSituation
<1>2. PICK e \in Entries, x \in Objects :
        /\ Alone(e) /\ Placed(x)
        /\ \/ Call(<<"list_add", e, x>>, list_add(m, e, x))
           \/ Call(<<"list_add_tail", e, x>>, list_add_tail(m, e, x))
  BY DEF Add
<1>3. /\ Contents(m) = ls /\ Reads(m, S, ls) /\ Free(m, S, e)
      /\ x \in Abstract!Placed(ls) /\ e \in Entries \ Abstract!Placed(ls)
  BY <1>1, <1>2 DEF Situation, Objects
<1>4. /\ Reads(list_add(m, e, x), S \cup {e}, Abstract!After(ls, x, <<e>>))
      /\ Reads(list_add_tail(m, e, x), S \cup {e}, Abstract!Before(ls, x, <<e>>))
  BY <1>3, MapAdd
<1>5. \/ Does(<<"list_add", e, x>>, Abstract!After(ls, x, <<e>>))
      \/ Does(<<"list_add_tail", e, x>>, Abstract!Before(ls, x, <<e>>))
  BY <1>2, <1>4, Done
<1> QED
  BY <1>3, <1>5 DEF Does, Abstract!Add

(* list_del and list_del_init.                                             *)
LEMMA DeleteMaps == Sound /\ Delete => Abstract!Delete /\ Sequences'
<1> SUFFICES ASSUME Sound, Delete PROVE Abstract!Delete /\ Sequences'
  OBVIOUS
<1>1. PICK S, ls : Situation(S, ls)
  BY InSituation
<1>2. PICK e \in Entries :
        /\ On(e)
        /\ \/ Call(<<"list_del", e>>, list_del(m, e))
           \/ Call(<<"list_del_init", e>>, list_del_init(m, e))
  BY DEF Delete
<1>3. Contents(m) = ls /\ Reads(m, S, ls) /\ e \in Entries \cap S
  BY <1>1, <1>2 DEF Situation
<1>4. /\ \E T : Reads(list_del(m, e), T, Abstract!Without(ls, e))
      /\ \E T : Reads(list_del_init(m, e), T, Abstract!Without(ls, e))
  BY <1>3, MapDelete
<1>5. \/ Does(<<"list_del", e>>, Abstract!Without(ls, e))
      \/ Does(<<"list_del_init", e>>, Abstract!Without(ls, e))
  BY <1>2, <1>4, Done
<1> QED
  BY <1>3, <1>5 DEF Does, Abstract!Delete

(* list_move and list_move_tail.                                           *)
LEMMA MoveMaps == Sound /\ Move => Abstract!Move /\ Sequences'
<1> SUFFICES ASSUME Sound, Move PROVE Abstract!Move /\ Sequences'
  OBVIOUS
<1>1. PICK S, ls : Situation(S, ls)
  BY InSituation
<1>2. PICK e \in Entries, x \in Objects :
        /\ e # x /\ On(e) /\ Placed(x)
        /\ \/ Call(<<"list_move", e, x>>, list_move(m, e, x))
           \/ Call(<<"list_move_tail", e, x>>, list_move_tail(m, e, x))
  BY DEF Move
<1>3. Contents(m) = ls /\ Reads(m, S, ls) /\ e \in Entries \cap S /\ x \in Abstract!Placed(ls) /\ x # e
  BY <1>1, <1>2 DEF Situation
<1>4. /\ \E T : Reads(list_move(m, e, x), T, Abstract!After(Abstract!Without(ls, e), x, <<e>>))
      /\ \E T : Reads(list_move_tail(m, e, x), T, Abstract!Before(Abstract!Without(ls, e), x, <<e>>))
  BY <1>3, MapMove
<1>5. \/ Does(<<"list_move", e, x>>, Abstract!After(Abstract!Without(ls, e), x, <<e>>))
      \/ Does(<<"list_move_tail", e, x>>, Abstract!Before(Abstract!Without(ls, e), x, <<e>>))
  BY <1>2, <1>4, Done
<1> QED
  BY <1>3, <1>5 DEF Does, Abstract!Move

(* list_replace and list_replace_init, of entries and of heads.            *)
LEMMA ReplaceMaps == Sound /\ Replace => Abstract!Replace /\ Sequences'
<1> SUFFICES ASSUME Sound, Replace PROVE Abstract!Replace /\ Sequences'
  OBVIOUS
<1>1. PICK S, ls : Situation(S, ls)
  BY InSituation
<1>2. PICK x \in Objects, y \in Objects :
        /\ x # y /\ (x \in Heads <=> y \in Heads)
        /\ On(x) /\ Alone(y)
        /\ \/ Call(<<"list_replace", x, y>>, list_replace(m, x, y))
           \/ Call(<<"list_replace_init", x, y>>, list_replace_init(m, x, y))
  BY DEF Replace
<1>3. Contents(m) = ls /\ Reads(m, S, ls) /\ Free(m, S, y)
  BY <1>1, <1>2 DEF Situation
<1>4. CASE x \in Heads
  <2>1. x \in Heads \cap S /\ x \in Abstract!Usable(ls) /\ y \in Heads /\ Abstract!Vacant(y)
    BY <1>1, <1>2, <1>4 DEF Situation
  <2>2. /\ \E T : Reads(list_replace(m, x, y), T, [ls EXCEPT ![y] = ls[x], ![x] = POISON])
        /\ \E T : Reads(list_replace_init(m, x, y), T, [ls EXCEPT ![y] = ls[x], ![x] = <<>>])
    BY <1>2, <1>3, <2>1, MapTakeover
  <2>3. \/ Does(<<"list_replace", x, y>>, [ls EXCEPT ![y] = ls[x], ![x] = POISON])
        \/ Does(<<"list_replace_init", x, y>>, [ls EXCEPT ![y] = ls[x], ![x] = <<>>])
    BY <1>2, <2>2, Done
  <2>4. PICK end \in {<<"list_replace", POISON>>, <<"list_replace_init", <<>> >>} :
          Does(<<end[1], x, y>>, [ls EXCEPT ![y] = ls[x], ![x] = end[2]])
    BY <2>3
  <2> QED
    BY <1>2, <1>3, <2>1, <2>4 DEF Does, Abstract!Replace
<1>5. CASE x \in Entries
  <2>1. x \in Entries \cap S /\ y \in Entries /\ y \in Entries \ Abstract!Placed(ls)
    BY <1>1, <1>2, <1>5, ObjectsAssumption DEF Situation, Objects
  <2>2. PICK k : k = IF x \in Abstract!Placed(ls)
                       THEN [ls EXCEPT ![Abstract!ListOf(ls, x)]
                                         = Abstract!ReplaceAt(@, Abstract!Index(ls, x), y)]
                       ELSE ls
    OBVIOUS
  <2>3. /\ \E T : Reads(list_replace(m, x, y), T, k)
        /\ \E T : Reads(list_replace_init(m, x, y), T, k)
    BY <1>2, <1>3, <2>1, <2>2, MapReplace
  <2>4. Does(<<"list_replace", x, y>>, k) \/ Does(<<"list_replace_init", x, y>>, k)
    BY <1>2, <2>3, Done
  <2>5. PICK f \in {"list_replace", "list_replace_init"} : Does(<<f, x, y>>, k)
    BY <2>4
  <2> QED
    BY <1>2, <1>3, <2>1, <2>2, <2>5 DEF Does, Abstract!Replace
<1> QED
  BY <1>4, <1>5 DEF Objects

(* list_rotate_left.                                                       *)
LEMMA RotateMaps == Sound /\ RotateLeft => Abstract!RotateLeft /\ Sequences'
<1> SUFFICES ASSUME Sound, RotateLeft PROVE Abstract!RotateLeft /\ Sequences'
  OBVIOUS
<1>1. PICK S, ls : Situation(S, ls)
  BY InSituation
<1>2. PICK h \in Heads : On(h) /\ Call(<<"list_rotate_left", h>>, list_rotate_left(m, h))
  BY DEF RotateLeft
<1>3. Contents(m) = ls /\ Reads(m, S, ls) /\ h \in Heads \cap S /\ h \in Abstract!Usable(ls)
  BY <1>1, <1>2 DEF Situation
<1>4. PICK k : k = IF ls[h] = <<>> THEN ls ELSE [ls EXCEPT ![h] = Append(Tail(@), Head(@))]
  OBVIOUS
<1>5. \E T : Reads(list_rotate_left(m, h), T, k)
  BY <1>3, <1>4, MapRotate
<1>6. Does(<<"list_rotate_left", h>>, k)
  BY <1>2, <1>5, Done
<1> QED
  BY <1>3, <1>4, <1>6 DEF Does, Abstract!RotateLeft

(* list_cut_position.                                                      *)
LEMMA CutMaps == Sound /\ Cut => Abstract!Cut /\ Sequences'
<1> SUFFICES ASSUME Sound, Cut PROVE Abstract!Cut /\ Sequences'
  OBVIOUS
<1>1. PICK S, ls : Situation(S, ls)
  BY InSituation
<1>2. PICK h \in Heads, l \in Heads, x \in Objects :
        /\ l # h /\ On(h) /\ Alone(l)
        /\ \/ list_empty(m, h) \/ list_is_singular(m, h) \/ SameRing(h, x)
        /\ Call(<<"list_cut_position", l, h, x>>, list_cut_position(m, l, h, x))
  BY DEF Cut
<1>3. /\ Contents(m) = ls /\ Reads(m, S, ls) /\ h \in Heads \cap S /\ h \in Abstract!Usable(ls)
      /\ Free(m, S, l) /\ Abstract!Vacant(l) /\ x \in Heads \cup Entries
      /\ \/ list_empty(m, h) \/ list_is_singular(m, h) \/ x \in Abstract!ToSet(Abstract!Ring(ls, h))
  BY <1>1, <1>2 DEF Situation, Objects
<1>4. PICK i : i = Abstract!Index(ls, x)
  OBVIOUS
<1>5. PICK k : k = IF ls[h] # <<>> /\ x \in Abstract!ToSet(Abstract!Ring(ls, h))
                     THEN [ls EXCEPT ![l] = SubSeq(ls[h], 1, i), ![h] = SubSeq(@, i + 1, Len(@))]
                     ELSE ls
  OBVIOUS
<1>6. \E T : Reads(list_cut_position(m, l, h, x), T, k)
  BY <1>2, <1>3, <1>4, <1>5, MapCut
<1>7. Does(<<"list_cut_position", l, h, x>>, k)
  BY <1>2, <1>6, Done
<1> QED
  BY <1>2, <1>3, <1>4, <1>5, <1>7 DEF Does, Abstract!Cut

(* list_splice and its three variants.                                     *)
LEMMA SpliceMaps == Sound /\ SpliceAll => Abstract!SpliceAll /\ Sequences'
<1> SUFFICES ASSUME Sound, SpliceAll PROVE Abstract!SpliceAll /\ Sequences'
  OBVIOUS
<1>1. PICK S, ls : Situation(S, ls)
  BY InSituation
<1>2. PICK l \in Heads, x \in Objects :
        /\ On(l) /\ Placed(x) /\ ~SameRing(l, x)
        /\ \/ Call(<<"list_splice", l, x>>, list_splice(m, l, x))
           \/ Call(<<"list_splice_tail", l, x>>, list_splice_tail(m, l, x))
           \/ Call(<<"list_splice_init", l, x>>, list_splice_init(m, l, x))
           \/ Call(<<"list_splice_tail_init", l, x>>, list_splice_tail_init(m, l, x))
  BY DEF SpliceAll
<1>3. /\ Contents(m) = ls /\ Reads(m, S, ls) /\ l \in Heads \cap S /\ l \in Abstract!Usable(ls)
      /\ x \in Abstract!Placed(ls) /\ Abstract!ListOf(ls, x) # l
  BY <1>1, <1>2 DEF Situation
<1>4. /\ \E T : Reads(list_splice(m, l, x), T, Abstract!After(Left(ls, l, POISON), x, ls[l]))
      /\ \E T : Reads(list_splice_tail(m, l, x), T, Abstract!Before(Left(ls, l, POISON), x, ls[l]))
      /\ \E T : Reads(list_splice_init(m, l, x), T, Abstract!After(Left(ls, l, <<>>), x, ls[l]))
      /\ \E T : Reads(list_splice_tail_init(m, l, x), T, Abstract!Before(Left(ls, l, <<>>), x, ls[l]))
  BY <1>3, MapSplice
<1>5. \/ Does(<<"list_splice", l, x>>, Abstract!After(Left(ls, l, POISON), x, ls[l]))
      \/ Does(<<"list_splice_tail", l, x>>, Abstract!Before(Left(ls, l, POISON), x, ls[l]))
      \/ Does(<<"list_splice_init", l, x>>, Abstract!After(Left(ls, l, <<>>), x, ls[l]))
      \/ Does(<<"list_splice_tail_init", l, x>>, Abstract!Before(Left(ls, l, <<>>), x, ls[l]))
  BY <1>2, <1>4, Done
<1> QED
  BY <1>3, <1>5 DEF Does, Abstract!SpliceAll, Left

(* No list yet.                                                            *)
LEMMA InitMaps == Init => Abstract!Init /\ Sequences
<1> SUFFICES ASSUME Init PROVE Abstract!Init /\ Sequences
  OBVIOUS
<1> DEFINE k == [h \in Heads |-> POISON]
<1>1. /\ m = [next |-> [x \in Objects |-> POISON], prev |-> [x \in Objects |-> POISON]]
      /\ op = <<>>
  BY DEF Init
<1>2. Rings(m, {})
  BY <1>1 DEF Rings, Memories, Linked
<1>3. Reads(m, {}, k)
  BY <1>2 DEF Reads
<1>4. Contents(m) = k /\ Sequences
  BY <1>3, SeenAs DEF Sequences
<1> QED
  BY <1>1, <1>4 DEF Abstract!Init

(* Every call of list.h changes the sequences of entries as its comment    *)
(* says, whatever was called before: ListHead implements ListSeq.          *)
THEOREM ListsAreSequences == Spec => ImplementsSequences
<1> DEFINE Seen == <<Contents(m), op>>
<1>1. Init => Abstract!Init /\ Sound
  BY InitMaps, Initially DEF Sound
<1>2. Sound /\ [Next]_vars => Sound' /\ [Abstract!Next]_Seen
  <2>1. Sound /\ Next => Sound' /\ Abstract!Next
    <3>1. Sound /\ Next => TypeOK' /\ RingsConsistent'
      BY Preserved DEF Sound
    <3>2. Sound /\ Next => Abstract!Next /\ Sequences'
      BY InitialiseMaps, AddMaps, DeleteMaps, MoveMaps, ReplaceMaps, RotateMaps, CutMaps, SpliceMaps
         DEF Next, Abstract!Next
    <3> QED
      BY <3>1, <3>2 DEF Sound
  <2>2. Sound /\ UNCHANGED vars => Sound' /\ UNCHANGED Seen
    <3>1. Sound /\ UNCHANGED vars => TypeOK' /\ RingsConsistent'
      BY Preserved DEF Sound
    <3>2. Sound /\ UNCHANGED vars => Sequences' /\ UNCHANGED Seen
      BY DEF Sound, Sequences, vars
    <3> QED
      BY <3>1, <3>2 DEF Sound
  <2> QED
    BY <2>1, <2>2
<1> HIDE DEF Sound, Seen
<1>3. Spec => Abstract!Init /\ [][Abstract!Next]_Seen
  BY <1>1, <1>2, PTL DEF Spec
<1> QED
  BY <1>3 DEF ImplementsSequences, Abstract!Spec, Seen

=============================================================================
