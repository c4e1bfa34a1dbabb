--------------------------- MODULE ShmPoolsProofs ---------------------------
(***************************************************************************)
(* Reference counts and the free list of ShmPools are exact, for every set *)
(* of clients and objects, every size and every geometry.                  *)
(***************************************************************************)
EXTENDS ShmPools, FiniteSetTheorems, TLAPS

PoolType == [size : Nat, refs : Nat]

\* The part of the state that release_pool and create_pool keep consistent.
PoolInv ==
  /\ pools \in Seq(PoolType)
  /\ freeIndexes \in Seq(Nat)
  /\ RefsExact
  /\ FreeListExact

\* The fields of a pool, and a pool that loses a reference.
LEMMA PoolFields ==
  ASSUME NEW pool \in PoolType
  PROVE  /\ pool.size \in Nat /\ pool.refs \in Nat
         /\ pool.refs > 0 => [pool EXCEPT !.refs = @ - 1] \in PoolType
BY DEF PoolType

\* Every slot holds a pool or what is left of one.
LEMMA SlotFields ==
  ASSUME pools \in Seq(PoolType), NEW i \in DOMAIN pools
  PROVE  /\ i \in Nat \ {0} /\ pools[i] \in PoolType
         /\ pools[i].refs \in Nat
         /\ Alive(i) <=> pools[i].refs # 0
<1>1. i \in Nat \ {0} /\ pools[i] \in PoolType
  OBVIOUS
<1>2. pools[i].refs \in Nat
  BY <1>1, PoolFields
<1>3. QED
  BY <1>1, <1>2 DEF Alive

\* Storing a pool in a slot.
LEMMA StorePool ==
  ASSUME NEW p \in Seq(PoolType), NEW i \in DOMAIN p, NEW pool \in PoolType
  PROVE  LET q == [p EXCEPT ![i] = pool]
         IN /\ q \in Seq(PoolType) /\ DOMAIN q = DOMAIN p
            /\ q[i] = pool
            /\ \A j \in DOMAIN p \ {i} : q[j] = p[j]
OBVIOUS

\* Extending the vector by a pool.
LEMMA PushPool ==
  ASSUME NEW p \in Seq(PoolType), NEW pool \in PoolType
  PROVE  LET q == Append(p, pool)
             new == Len(p) + 1
         IN /\ q \in Seq(PoolType) /\ DOMAIN q = DOMAIN p \cup {new}
            /\ new \in Nat \ {0} /\ new \notin DOMAIN p
            /\ q[new] = pool
            /\ \A j \in DOMAIN p : q[j] = p[j]
OBVIOUS

\* Taking the first element of a list without repetitions.
LEMMA TailOfDistinct ==
  ASSUME NEW q \in Seq(Nat), q # <<>>, IsInjective(q)
  PROVE  /\ Head(q) \in Range(q) /\ Tail(q) \in Seq(Nat)
         /\ IsInjective(Tail(q))
         /\ Range(Tail(q)) = Range(q) \ {Head(q)}
<1> DEFINE t == Tail(q)
<1>1. /\ t \in Seq(Nat) /\ DOMAIN t = 1..Len(q) - 1 /\ DOMAIN q = 1..Len(q) /\ Len(q) \in Nat \ {0}
      /\ \A n \in DOMAIN t : n + 1 \in DOMAIN q /\ t[n] = q[n + 1]
  OBVIOUS
<1>2. Head(q) = q[1] /\ 1 \in DOMAIN q
  BY <1>1
<1>3. \A n \in DOMAIN q \ {1} : n - 1 \in DOMAIN t /\ t[n - 1] = q[n] /\ q[n] # q[1]
  BY <1>1, <1>2 DEF IsInjective
<1>4. IsInjective(t)
  <2> SUFFICES ASSUME NEW m \in DOMAIN t, NEW n \in DOMAIN t, t[m] = t[n] PROVE m = n
    BY DEF IsInjective
  <2>1. m + 1 = n + 1
    BY <1>1 DEF IsInjective
  <2>2. QED
    BY <1>1, <2>1
<1>5. \A n \in DOMAIN t : q[n + 1] # q[1]
  BY <1>1, <1>2 DEF IsInjective
<1>6. ASSUME NEW y \in Range(t) PROVE y \in Range(q) \ {q[1]}
  BY <1>1, <1>5 DEF Range
<1>7. ASSUME NEW y \in Range(q), y # q[1] PROVE y \in Range(t)
  <2>1. PICK n \in DOMAIN q : y = q[n]
    BY DEF Range
  <2>2. n - 1 \in DOMAIN t /\ t[n - 1] = y
    BY <1>3, <1>7, <2>1
  <2>3. QED
    BY <2>2 DEF Range
<1>8. QED
  <2>1. Range(t) = Range(q) \ {q[1]}
    BY <1>6, <1>7
  <2>2. Head(q) \in Range(q)
    BY <1>2 DEF Range
  <2>3. QED
    BY <1>1, <1>2, <1>4, <2>1, <2>2

\* Putting a new element in front of a list without repetitions.
LEMMA ConsDistinct ==
  ASSUME NEW q \in Seq(Nat), NEW x \in Nat, x \notin Range(q), IsInjective(q)
  PROVE  LET r == <<x>> \o q
         IN r \in Seq(Nat) /\ IsInjective(r) /\ Range(r) = Range(q) \cup {x}
<1> DEFINE r == <<x>> \o q
<1>1. /\ r \in Seq(Nat) /\ DOMAIN r = 1..Len(q) + 1 /\ DOMAIN q = 1..Len(q) /\ Len(q) \in Nat
      /\ r[1] = x
      /\ \A n \in DOMAIN q : r[n + 1] = q[n]
  OBVIOUS
<1>2. \A n \in DOMAIN r \ {1} : n - 1 \in DOMAIN q /\ r[n] = q[n - 1] /\ r[n] # x
  <2> SUFFICES ASSUME NEW n \in DOMAIN r \ {1}
               PROVE  n - 1 \in DOMAIN q /\ r[n] = q[n - 1] /\ r[n] # x
    OBVIOUS
  <2>1. n - 1 \in DOMAIN q /\ (n - 1) + 1 = n
    BY <1>1
  <2>2. r[n] = q[n - 1]
    BY <1>1, <2>1
  <2>3. QED
    BY <2>1, <2>2 DEF Range
<1>3. IsInjective(r)
  <2> SUFFICES ASSUME NEW m \in DOMAIN r, NEW n \in DOMAIN r, r[m] = r[n] PROVE m = n
    BY DEF IsInjective
  <2>1. CASE m = 1 \/ n = 1
    BY <1>1, <1>2, <2>1
  <2>2. CASE m # 1 /\ n # 1
    <3>1. m - 1 = n - 1
      BY <1>2, <2>2 DEF IsInjective
    <3>2. QED
      BY <1>1, <3>1
  <2>3. QED
    BY <2>1, <2>2
<1>4. Range(r) = Range(q) \cup {x}
  <2>1. \A n \in DOMAIN q : n + 1 \in DOMAIN r
    BY <1>1
  <2>2. 1 \in DOMAIN r
    BY <1>1
  <2>3. ASSUME NEW y \in Range(r) PROVE y \in Range(q) \cup {x}
    BY <1>1, <1>2 DEF Range
  <2>4. ASSUME NEW y \in Range(q) PROVE y \in Range(r)
    <3>1. PICK n \in DOMAIN q : y = q[n]
      BY DEF Range
    <3>2. n + 1 \in DOMAIN r /\ r[n + 1] = y
      BY <1>1, <2>1, <3>1
    <3>3. QED
      BY <3>2 DEF Range
  <2>5. x \in Range(r)
    BY <1>1, <2>2 DEF Range
  <2>6. QED
    BY <2>3, <2>4, <2>5
<1>5. QED
  BY <1>1, <1>3, <1>4

\* Only so many objects can refer to a slot, and the count of a set of them
\* tells whether there are any.
LEMMA HolderSets ==
  ASSUME NEW S \in SUBSET Holder
  PROVE  IsFiniteSet(S) /\ (Cardinality(S) = 0 <=> S = {})
<1>1. IsFiniteSet({"pool", "buffer"})
  <2>1. IsFiniteSet({"pool"}) /\ {"pool", "buffer"} = {"pool"} \cup {"buffer"}
    BY FS_Singleton
  <2>2. QED
    BY <2>1, FS_AddElement
<1>2. IsFiniteSet(Holder)
  BY <1>1, KeyAssumption, FS_Product DEF Holder
<1>3. IsFiniteSet(S)
  BY <1>2, FS_Subset
<1>4. QED
  BY <1>3, FS_EmptySet

\* A slot is alive exactly when something refers to it.
LEMMA AliveHeld ==
  PoolInv => \A i : i # 0 => (Alive(i) <=> \E h \in Holder : SlotOf(h) = i)
<1> SUFFICES ASSUME PoolInv, NEW i, i # 0
             PROVE  Alive(i) <=> \E h \in Holder : SlotOf(h) = i
  OBVIOUS
<1>1. Holders(i) \in SUBSET Holder /\ (Holders(i) = {} <=> ~\E h \in Holder : SlotOf(h) = i)
  BY DEF Holders
<1>2. CASE i \in DOMAIN pools
  <2>1. pools[i].refs = Cardinality(Holders(i))
    BY <1>2 DEF PoolInv, RefsExact
  <2>2. Alive(i) <=> pools[i].refs # 0
    BY <1>2, SlotFields DEF PoolInv
  <2>3. QED
    BY <1>1, <2>1, <2>2, HolderSets
<1>3. CASE i \notin DOMAIN pools
  BY <1>3 DEF PoolInv, RefsExact, Alive
<1>4. QED
  BY <1>2, <1>3

\* A step that counts the holders right keeps the counts right.
LEMMA RefsKept ==
  ASSUME \A i \in DOMAIN pools' : pools'[i].refs = Cardinality(Holders(i)'),
         \A h \in Holder : SlotOf(h)' \in DOMAIN pools' \cup {0}
  PROVE  RefsExact'
BY DEF RefsExact

\* A new pool takes a dead slot and is its only holder.
LEMMA MapPoolStep ==
  ASSUME PoolInv, poolIndex \in [Key -> Nat], NEW k \in Key, poolIndex[k] = 0,
         NEW size \in Nat, MapPool(k, size), UNCHANGED buffers
  PROVE  /\ PoolInv' /\ poolIndex' \in [Key -> Nat]
         /\ poolIndex'[k] # 0 /\ ~Alive(poolIndex'[k])
         /\ poolIndex' = [poolIndex EXCEPT ![k] = poolIndex'[k]]
         /\ \A j \in DOMAIN pools : Alive(j) => pools'[j] = pools[j]
<1> DEFINE pool == [size |-> size, refs |-> 1]
<1>0. PICK new : new = poolIndex'[k]
  OBVIOUS
<1>1. pool \in PoolType
  BY DEF PoolType
<1>2. /\ new \in Nat \ {0} /\ ~Alive(new)
      /\ poolIndex' = [poolIndex EXCEPT ![k] = new]
      /\ pools' \in Seq(PoolType) /\ freeIndexes' \in Seq(Nat)
      /\ DOMAIN pools' = DOMAIN pools \cup {new}
      /\ pools'[new] = pool
      /\ \A j \in DOMAIN pools \ {new} : pools'[j] = pools[j]
  <2>1. CASE freeIndexes # <<>>
    <3>1. Head(freeIndexes) \in DOMAIN pools /\ ~Alive(Head(freeIndexes))
      BY <2>1, TailOfDistinct DEF PoolInv, FreeListExact
    <3>2. /\ pools' = [pools EXCEPT ![Head(freeIndexes)] = pool]
          /\ poolIndex' = [poolIndex EXCEPT ![k] = Head(freeIndexes)]
          /\ freeIndexes' = Tail(freeIndexes)
      BY <2>1 DEF MapPool
    <3>3. new = Head(freeIndexes)
      BY <1>0, <3>2
    <3>4. freeIndexes' \in Seq(Nat)
      BY <2>1, <3>2 DEF PoolInv
    <3>5. /\ pools' \in Seq(PoolType) /\ DOMAIN pools' = DOMAIN pools
          /\ pools'[new] = pool
          /\ \A j \in DOMAIN pools \ {new} : pools'[j] = pools[j]
      BY <1>1, <3>1, <3>2, <3>3, StorePool DEF PoolInv
    <3>6. new \in Nat \ {0} /\ ~Alive(new)
      BY <3>1, <3>3, SlotFields DEF PoolInv
    <3>7. QED
      BY <3>1, <3>2, <3>3, <3>4, <3>5, <3>6
  <2>2. CASE freeIndexes = <<>>
    <3>1. /\ pools' = Append(pools, pool)
          /\ poolIndex' = [poolIndex EXCEPT ![k] = Len(pools) + 1]
          /\ UNCHANGED freeIndexes
      BY <2>2 DEF MapPool
    <3>2. new = Len(pools) + 1
      BY <1>0, <3>1
    <3>3. QED
      BY <1>1, <3>1, <3>2, PushPool DEF PoolInv, Alive
  <2>3. QED
    BY <2>1, <2>2
<1>3. FreeListExact'
  <2>1. CASE freeIndexes # <<>>
    <3>1. new = Head(freeIndexes) /\ freeIndexes' = Tail(freeIndexes)
      BY <1>0, <2>1 DEF MapPool
    <3>2. IsInjective(freeIndexes')
      BY <2>1, <3>1, TailOfDistinct DEF PoolInv, FreeListExact
    <3>3. Range(freeIndexes') = Range(freeIndexes) \ {new}
      BY <2>1, <3>1, TailOfDistinct DEF PoolInv, FreeListExact
    <3>4. {i \in DOMAIN pools : ~Alive(i)}' = {i \in DOMAIN pools : ~Alive(i)} \ {new}
      BY <1>2 DEF Alive
    <3>5. QED
      BY <3>2, <3>3, <3>4 DEF PoolInv, FreeListExact
  <2>2. CASE freeIndexes = <<>>
    <3>1. UNCHANGED freeIndexes /\ new \notin DOMAIN pools
      BY <1>0, <2>2 DEF MapPool, PoolInv
    <3>2. {i \in DOMAIN pools : ~Alive(i)}' = {i \in DOMAIN pools : ~Alive(i)}
      BY <1>2, <3>1 DEF Alive
    <3>3. QED
      BY <3>1, <3>2 DEF PoolInv, FreeListExact, IsInjective, Range
  <2>3. QED
    BY <2>1, <2>2
<1>4. Holders(new)' = {<<"pool", k>>} /\ \A j \in DOMAIN pools \ {new} : Holders(j)' = Holders(j)
  <2>1. \A h \in Holder : SlotOf(h) # new
    BY <1>2, AliveHeld
  <2>2. \A h \in Holder : SlotOf(h)' = IF h = <<"pool", k>> THEN new ELSE SlotOf(h)
    BY <1>2 DEF SlotOf, Holder
  <2>3. SlotOf(<<"pool", k>>) = 0 /\ <<"pool", k>> \in Holder
    BY DEF SlotOf, Holder
  <2>4. 0 \notin DOMAIN pools
    BY DEF PoolInv
  <2>5. \A j : Holders(j)' = {h \in Holder : SlotOf(h)' = j}
    BY DEF Holders, Holder
  <2>6. \A j : Holders(j) = {h \in Holder : SlotOf(h) = j}
    BY DEF Holders
  <2>7. Holders(new)' = {<<"pool", k>>}
    <3>1. \A h \in Holder : SlotOf(h)' = new <=> h = <<"pool", k>>
      BY <2>1, <2>2
    <3>2. {h \in Holder : SlotOf(h)' = new} = {<<"pool", k>>}
      BY <2>3, <3>1
    <3>3. QED
      BY <2>5, <3>2
  <2>8. ASSUME NEW j \in DOMAIN pools \ {new} PROVE Holders(j)' = Holders(j)
    BY <2>2, <2>3, <2>4, <2>5, <2>6
  <2>9. QED
    BY <2>7, <2>8
<1>5. \A i \in DOMAIN pools' : pools'[i].refs = Cardinality(Holders(i)')
  <2>1. Cardinality(Holders(new)') = 1
    BY <1>4, FS_Singleton
  <2>2. pools'[new].refs = 1
    BY <1>2
  <2>3. ASSUME NEW j \in DOMAIN pools \ {new} PROVE pools'[j].refs = Cardinality(Holders(j)')
    BY <1>2, <1>4 DEF PoolInv, RefsExact
  <2>4. ASSUME NEW j \in DOMAIN pools' PROVE pools'[j].refs = Cardinality(Holders(j)')
    <3>1. CASE j = new
      BY <2>1, <2>2, <3>1
    <3>2. CASE j # new
      BY <1>2, <2>3, <3>2
    <3>3. QED
      BY <3>1, <3>2
  <2>5. QED
    BY <2>4
<1>6. \A h \in Holder : SlotOf(h)' \in DOMAIN pools' \cup {0}
  BY <1>2 DEF PoolInv, RefsExact, SlotOf, Holder
<1>7. PoolInv'
  BY <1>2, <1>3, <1>5, <1>6, RefsKept DEF PoolInv
<1>8. QED
  BY <1>0, <1>2, <1>7

\* A holder that lets go of its slot is counted out, and the last frees the slot.
LEMMA ReleasePoolStep ==
  ASSUME PoolInv, NEW h \in Holder, SlotOf(h) # 0, SlotOf(h)' = 0,
         \A g \in Holder \ {h} : SlotOf(g)' = SlotOf(g),
         ReleasePool(SlotOf(h))
  PROVE  PoolInv'
<1>0. PICK s : s = SlotOf(h)
  OBVIOUS
<1>1. s \in DOMAIN pools /\ Alive(s) /\ s \in Nat
  BY <1>0, AliveHeld DEF PoolInv, Alive
<1>2. /\ Holders(s)' = Holders(s) \ {h}
      /\ \A j \in DOMAIN pools \ {s} : Holders(j)' = Holders(j)
  <2>1. 0 \notin DOMAIN pools
    BY DEF PoolInv
  <2>2. \A j : Holders(j)' = {g \in Holder : SlotOf(g)' = j}
    BY DEF Holders, Holder
  <2>3. \A j : Holders(j) = {g \in Holder : SlotOf(g) = j}
    BY DEF Holders
  <2>4. Holders(s)' = Holders(s) \ {h}
    <3>1. \A g \in Holder : SlotOf(g)' = s <=> SlotOf(g) = s /\ g # h
      BY <1>0, <1>1, <2>1
    <3>2. {g \in Holder : SlotOf(g)' = s} = {g \in Holder : SlotOf(g) = s} \ {h}
      BY <3>1
    <3>3. QED
      BY <2>2, <2>3, <3>2
  <2>5. ASSUME NEW j \in DOMAIN pools \ {s} PROVE Holders(j)' = Holders(j)
    BY <1>0, <1>1, <2>1, <2>2, <2>3
  <2>6. QED
    BY <2>4, <2>5
<1>3. pools[s].refs = Cardinality(Holders(s)) /\ Cardinality(Holders(s)') = pools[s].refs - 1
  <2>1. h \in Holders(s)
    BY <1>0 DEF Holders
  <2>2. pools[s].refs = Cardinality(Holders(s))
    BY <1>1 DEF PoolInv, RefsExact
  <2>3. Cardinality(Holders(s) \ {h}) = Cardinality(Holders(s)) - 1
    BY <2>1, HolderSets, FS_RemoveElement DEF Holders
  <2>4. QED
    BY <1>2, <2>2, <2>3
<1>4. /\ pools' \in Seq(PoolType) /\ DOMAIN pools' = DOMAIN pools
      /\ pools'[s].refs = pools[s].refs - 1
      /\ \A j \in DOMAIN pools \ {s} : pools'[j] = pools[j]
  <2>1. pools[s] \in PoolType /\ pools[s].refs > 0
    BY <1>1, SlotFields DEF PoolInv
  <2>2. CASE pools[s].refs = 1
    <3>1. NoPool \in PoolType /\ NoPool.refs = 0
      BY DEF NoPool, PoolType
    <3>2. pools' = [pools EXCEPT ![s] = NoPool]
      BY <1>0, <1>1, <2>2 DEF ReleasePool
    <3>3. QED
      BY <1>1, <2>2, <3>1, <3>2, StorePool DEF PoolInv
  <2>3. CASE pools[s].refs # 1
    <3> DEFINE left == [pools[s] EXCEPT !.refs = @ - 1]
    <3>1. left \in PoolType /\ left.refs = pools[s].refs - 1
      <4>1. left \in PoolType
        BY <2>1, PoolFields
      <4>2. pools[s] \in [size : Nat, refs : Nat]
        BY <2>1 DEF PoolType
      <4>3. QED
        BY <4>1, <4>2
    <3>2. pools' = [pools EXCEPT ![s] = left]
      BY <1>0, <1>1, <2>3 DEF ReleasePool
    <3>3. QED
      BY <1>1, <3>1, <3>2, StorePool DEF PoolInv
  <2>4. QED
    BY <2>2, <2>3
<1>5. FreeListExact' /\ freeIndexes' \in Seq(Nat)
  <2>1. CASE pools[s].refs = 1
    <3>1. freeIndexes' = <<s>> \o freeIndexes
      BY <1>0, <1>1, <2>1 DEF ReleasePool
    <3>2. {i \in DOMAIN pools : ~Alive(i)}' = {i \in DOMAIN pools : ~Alive(i)} \cup {s}
      BY <1>1, <1>4, <2>1 DEF Alive
    <3>3. s \notin Range(freeIndexes)
      BY <1>1 DEF PoolInv, FreeListExact
    <3>4. /\ freeIndexes' \in Seq(Nat) /\ IsInjective(freeIndexes')
          /\ Range(freeIndexes') = Range(freeIndexes) \cup {s}
      BY <1>1, <3>1, <3>3, ConsDistinct DEF PoolInv, FreeListExact
    <3>5. QED
      BY <3>2, <3>4 DEF PoolInv, FreeListExact
  <2>2. CASE pools[s].refs # 1
    <3>1. UNCHANGED freeIndexes
      BY <1>0, <1>1, <2>2 DEF ReleasePool
    <3>2. {i \in DOMAIN pools : ~Alive(i)}' = {i \in DOMAIN pools : ~Alive(i)}
      <4>1. pools[s].refs - 1 > 0 /\ pools[s].refs > 0
        BY <1>1, <2>2, SlotFields DEF PoolInv
      <4>2. QED
        BY <1>1, <1>4, <4>1 DEF Alive
    <3>3. QED
      BY <3>1, <3>2 DEF PoolInv, FreeListExact, IsInjective, Range
  <2>3. QED
    BY <2>1, <2>2
<1>6. \A i \in DOMAIN pools' : pools'[i].refs = Cardinality(Holders(i)')
  <2>1. ASSUME NEW j \in DOMAIN pools \ {s} PROVE pools'[j].refs = Cardinality(Holders(j)')
    BY <1>2, <1>4 DEF PoolInv, RefsExact
  <2>2. QED
    BY <1>3, <1>4, <2>1
<1>7. \A g \in Holder : SlotOf(g)' \in DOMAIN pools' \cup {0}
  BY <1>4 DEF PoolInv, RefsExact
<1>8. QED
  BY <1>4, <1>5, <1>6, <1>7, RefsKept DEF PoolInv

\* A holder that comes to an alive slot is counted in.
LEMMA SharePoolStep ==
  ASSUME PoolInv, NEW h \in Holder, NEW s, Alive(s),
         SlotOf(h) = 0, SlotOf(h)' = s,
         \A g \in Holder \ {h} : SlotOf(g)' = SlotOf(g),
         pools' = [pools EXCEPT ![s].refs = @ + 1], UNCHANGED freeIndexes
  PROVE  PoolInv'
<1>1. s \in DOMAIN pools /\ s \in Nat \ {0} /\ pools[s] \in PoolType /\ pools[s].refs \in Nat
  BY SlotFields DEF Alive, PoolInv
<1>2. PICK more \in PoolType :
        /\ more = [pools[s] EXCEPT !.refs = @ + 1]
        /\ more.refs = pools[s].refs + 1
  <2>1. pools[s] \in [size : Nat, refs : Nat]
    BY <1>1 DEF PoolType
  <2>2. /\ [pools[s] EXCEPT !.refs = @ + 1].refs = pools[s].refs + 1
        /\ [pools[s] EXCEPT !.refs = @ + 1] \in [size : Nat, refs : Nat]
    BY <2>1
  <2>3. QED
    BY <2>2 DEF PoolType
<1>3. /\ pools' \in Seq(PoolType) /\ DOMAIN pools' = DOMAIN pools
      /\ pools'[s].refs = pools[s].refs + 1
      /\ \A j \in DOMAIN pools \ {s} : pools'[j] = pools[j]
  <2>1. pools' = [pools EXCEPT ![s] = more]
    BY <1>2
  <2>2. /\ pools' \in Seq(PoolType) /\ DOMAIN pools' = DOMAIN pools
        /\ pools'[s] = more
        /\ \A j \in DOMAIN pools \ {s} : pools'[j] = pools[j]
    BY <1>1, <1>2, <2>1, StorePool DEF PoolInv
  <2>3. QED
    BY <1>2, <2>2
<1>4. FreeListExact'
  <2>1. pools[s].refs > 0 /\ pools[s].refs + 1 > 0
    BY <1>1 DEF Alive
  <2>2. {i \in DOMAIN pools : ~Alive(i)}' = {i \in DOMAIN pools : ~Alive(i)}
    BY <1>1, <1>3, <2>1 DEF Alive
  <2>3. QED
    BY <2>2 DEF PoolInv, FreeListExact, IsInjective, Range
<1>5. /\ Holders(s)' = Holders(s) \cup {h} /\ h \notin Holders(s)
      /\ \A j \in DOMAIN pools \ {s} : Holders(j)' = Holders(j)
  <2>1. 0 \notin DOMAIN pools
    BY DEF PoolInv
  <2>2. \A j : Holders(j)' = {g \in Holder : SlotOf(g)' = j}
    BY DEF Holders, Holder
  <2>3. \A j : Holders(j) = {g \in Holder : SlotOf(g) = j}
    BY DEF Holders
  <2>4. {g \in Holder : SlotOf(g)' = s} = {g \in Holder : SlotOf(g) = s} \cup {h}
    BY <1>1, <2>1
  <2>5. ASSUME NEW j \in DOMAIN pools \ {s} PROVE Holders(j)' = Holders(j)
    BY <1>1, <2>1, <2>2, <2>3
  <2>6. h \notin Holders(s)
    BY <1>1, <2>3
  <2>7. QED
    BY <2>2, <2>3, <2>4, <2>5, <2>6
<1>6. pools[s].refs + 1 = Cardinality(Holders(s)')
  <2>1. pools[s].refs = Cardinality(Holders(s))
    BY <1>1 DEF PoolInv, RefsExact
  <2>2. Cardinality(Holders(s) \cup {h}) = Cardinality(Holders(s)) + 1
    BY <1>5, HolderSets, FS_AddElement DEF Holders
  <2>3. QED
    BY <1>5, <2>1, <2>2
<1>7. \A i \in DOMAIN pools' : pools'[i].refs = Cardinality(Holders(i)')
  <2>1. ASSUME NEW j \in DOMAIN pools \ {s} PROVE pools'[j].refs = Cardinality(Holders(j)')
    BY <1>3, <1>5 DEF PoolInv, RefsExact
  <2>2. QED
    BY <1>3, <1>6, <2>1
<1>8. \A g \in Holder : SlotOf(g)' \in DOMAIN pools' \cup {0}
  BY <1>1, <1>3 DEF PoolInv, RefsExact
<1>9. QED
  BY <1>3, <1>4, <1>7, <1>8, RefsKept DEF PoolInv

----------------------------------------------------------------------------
(* Buffers in their pools.                                                 *)

BufferType == [pool : Nat, shape : ShapeType]

\* Each buffer was checked against a pool that has not shrunk since.
BuffersFit ==
  \A k \in Key : buffers[k].pool # 0 =>
    /\ ValidShape(buffers[k].shape)
    /\ End(buffers[k].shape) <= pools[buffers[k].pool].size

\* The checks of create_buffer cover every row, not only the last.
LEMMA RowsInPool ==
  ASSUME NEW shape \in ShapeType, ValidShape(shape),
         NEW size \in Nat, End(shape) <= size,
         NEW row \in 0..shape.height - 1
  PROVE  LET start == shape.offset + row * shape.stride
         IN 0 <= start /\ start + RowBytes(shape) <= size
<1>1. PICK o \in Int, w \in Int, n \in Int, d \in Int :
        o = shape.offset /\ w = RowBytes(shape) /\ n = shape.height /\ d = shape.stride
  BY DEF ShapeType, RowBytes, BytesPerPixel
<1>2. o >= 0 /\ w > 0 /\ n > 0 /\ d >= w /\ o + (n - 1) * d + w <= size /\ row \in 0..n - 1
  <2>1. w > 0
    BY <1>1 DEF ValidShape, RowBytes, BytesPerPixel, ShapeType
  <2>2. QED
    BY <1>1, <2>1 DEF ValidShape, End
<1>3. row * d >= 0 /\ (n - 1 - row) * d >= 0
  BY <1>2
<1>4. (n - 1 - row) * d = (n - 1) * d - row * d /\ row * d \in Int /\ (n - 1) * d \in Int
  BY <1>2
<1>5. 0 <= o + row * d /\ o + row * d + w <= size
  BY <1>2, <1>3, <1>4
<1>6. QED
  BY <1>1, <1>5

\* What AliveHeld says of the next state.
LEMMA AliveHeldNext ==
  PoolInv' => (\A i : i # 0 => (Alive(i) <=> \E h \in Holder : SlotOf(h) = i))'
BY AliveHeld, PTL

\* Buffers fit as long as no pool shrinks while it is alive.
LEMMA BuffersFitKept ==
  ASSUME PoolInv, PoolInv', BuffersFit, buffers \in [Key -> BufferType],
         \A k \in Key : buffers'[k] = buffers[k] \/ buffers'[k].pool = 0,
         \A j \in DOMAIN pools : Alive(j) /\ Alive(j)' => pools'[j].size >= pools[j].size
  PROVE  BuffersFit'
<1> SUFFICES ASSUME NEW k \in Key, buffers'[k].pool # 0
             PROVE  /\ ValidShape(buffers'[k].shape)
                    /\ End(buffers'[k].shape) <= pools'[buffers'[k].pool].size
  BY DEF BuffersFit, ValidShape, End, RowBytes
<1>1. PICK b \in BufferType : b = buffers[k] /\ b = buffers'[k]
  OBVIOUS
<1>2. PICK s : s = b.pool
  OBVIOUS
<1>3. <<"buffer", k>> \in Holder /\ SlotOf(<<"buffer", k>>) = s /\ SlotOf(<<"buffer", k>>)' = s
  BY <1>1, <1>2 DEF Holder, SlotOf
<1>4. s # 0
  BY <1>1, <1>2
<1>5. Alive(s)
  BY <1>3, <1>4, AliveHeld
<1>6. Alive(s)'
  <2>1. (\A i : i # 0 => (Alive(i) <=> \E h \in Holder : SlotOf(h) = i))'
    BY AliveHeldNext
  <2>2. \A i : i # 0 => (Alive(i)' <=> \E h \in Holder : SlotOf(h)' = i)
    BY <2>1 DEF Holder
  <2>3. QED
    BY <1>3, <1>4, <2>2
<1>7. ValidShape(b.shape) /\ End(b.shape) <= pools[s].size
  BY <1>1, <1>2, <1>4 DEF BuffersFit
<1>8. s \in DOMAIN pools /\ pools'[s].size >= pools[s].size
  BY <1>5, <1>6 DEF Alive
<1>9. End(b.shape) \in Int
  <2>1. b.shape \in ShapeType
    BY DEF BufferType
  <2>2. QED
    BY <2>1 DEF ShapeType, End, RowBytes, BytesPerPixel
<1>10. pools[s].size \in Nat /\ pools'[s].size \in Nat
  <2>1. pools[s] \in PoolType
    BY <1>8, SlotFields DEF PoolInv
  <2>2. s \in DOMAIN pools' /\ pools' \in Seq(PoolType)
    BY <1>6 DEF Alive, PoolInv
  <2>3. pools'[s] \in PoolType
    BY <2>2
  <2>4. QED
    BY <2>1, <2>3, PoolFields
<1>11. QED
  BY <1>1, <1>2, <1>7, <1>8, <1>9, <1>10

\* Giving a reference back changes no size of a pool that stays.
LEMMA ReleaseKeepsSizes ==
  ASSUME PoolInv, NEW i, ReleasePool(i),
         NEW j \in DOMAIN pools, Alive(j), Alive(j)'
  PROVE  pools'[j].size >= pools[j].size
<1>1. pools[j].size \in Nat /\ pools[j] \in PoolType
  BY SlotFields, PoolFields DEF PoolInv
<1>2. pools'[j].size = pools[j].size
  <2>1. CASE i # j \/ ~Alive(i)
    BY <2>1 DEF ReleasePool
  <2>2. CASE i = j /\ pools[j].refs = 1
    <3>1. pools'[j] = NoPool
      BY <2>2 DEF ReleasePool
    <3>2. FALSE
      BY <3>1 DEF Alive, NoPool
    <3>3. QED
      BY <3>2
  <2>3. CASE i = j /\ pools[j].refs # 1
    BY <1>1, <2>3 DEF ReleasePool, PoolType
  <2>4. QED
    BY <2>1, <2>2, <2>3
<1>3. QED
  BY <1>1, <1>2

----------------------------------------------------------------------------
(* The requests.                                                           *)

\* The inductive invariant: counts and free list can only be exact together,
\* since a slot taken from the list must have no holder and one released to it
\* must have no other; buffers fit because an alive slot keeps its pool.
IInv == TypeOK /\ PoolInv /\ BuffersFit /\ ResourcesRegistered

\* A step that touches no pool and moves no holder.
LEMMA PoolsUntouched ==
  ASSUME PoolInv, UNCHANGED <<pools, freeIndexes>>,
         \A g \in Holder : SlotOf(g)' = SlotOf(g)
  PROVE  PoolInv'
<1>1. \A i : Holders(i)' = Holders(i)
  BY DEF Holders, Holder
<1>2. RefsExact'
  BY <1>1, RefsKept DEF PoolInv, RefsExact
<1>3. FreeListExact'
  BY DEF PoolInv, FreeListExact, Alive, IsInjective, Range
<1>4. QED
  BY <1>2, <1>3 DEF PoolInv

\* Destroying a pool object, directly or with its client.
LEMMA DeletePoolStep ==
  ASSUME IInv, NEW k \in Key, DeletePool(k), UNCHANGED buffers
  PROVE  PoolInv' /\ poolIndex' \in [Key -> Nat]
<1>1. poolIndex \in [Key -> Nat] /\ poolIndex' = [poolIndex EXCEPT ![k] = 0]
  BY DEF IInv, TypeOK, DeletePool
<1> DEFINE h == <<"pool", k>>
<1>2. h \in Holder /\ SlotOf(h) = poolIndex[k]
  BY DEF Holder, SlotOf
<1>3. SlotOf(h)' = 0 /\ \A g \in Holder \ {h} : SlotOf(g)' = SlotOf(g)
  BY <1>1 DEF SlotOf, Holder
<1>4. CASE poolIndex[k] # 0
  <2>1. ReleasePool(SlotOf(h))
    BY <1>2, <1>4 DEF DeletePool
  <2>2. PoolInv'
    BY <1>2, <1>3, <1>4, <2>1, ReleasePoolStep DEF IInv
  <2>3. QED
    BY <1>1, <2>2
<1>5. CASE poolIndex[k] = 0
  <2>1. UNCHANGED <<pools, freeIndexes>>
    BY <1>5 DEF DeletePool
  <2>2. \A g \in Holder : SlotOf(g)' = SlotOf(g)
    BY <1>2, <1>3, <1>5
  <2>3. QED
    BY <1>1, <2>1, <2>2, PoolsUntouched DEF IInv
<1>6. QED
  BY <1>4, <1>5

\* Destroying a buffer, directly or with its client.
LEMMA DeleteBufferStep ==
  ASSUME IInv, NEW k \in Key, DeleteBuffer(k), UNCHANGED poolIndex
  PROVE  PoolInv' /\ buffers' \in [Key -> [pool : Nat, shape : ShapeType]]
<1>1. buffers' = [buffers EXCEPT ![k] = NoBuffer]
  BY DEF DeleteBuffer
<1>2. NoBuffer \in [pool : Nat, shape : ShapeType]
  BY DEF NoBuffer, NoShape, ShapeType
<1>3. buffers \in [Key -> [pool : Nat, shape : ShapeType]]
  BY DEF IInv, TypeOK
<1>4. buffers' \in [Key -> [pool : Nat, shape : ShapeType]]
  BY <1>1, <1>2, <1>3
<1> DEFINE h == <<"buffer", k>>
<1>5. h \in Holder /\ SlotOf(h) = buffers[k].pool
  BY DEF Holder, SlotOf
<1>6. SlotOf(h)' = 0 /\ \A g \in Holder \ {h} : SlotOf(g)' = SlotOf(g)
  BY <1>1, <1>3 DEF SlotOf, Holder, NoBuffer
<1>7. CASE buffers[k].pool # 0
  <2>1. ReleasePool(SlotOf(h))
    BY <1>5, <1>7 DEF DeleteBuffer
  <2>2. QED
    BY <1>4, <1>5, <1>6, <1>7, <2>1, ReleasePoolStep DEF IInv
<1>8. CASE buffers[k].pool = 0
  <2>1. UNCHANGED <<pools, freeIndexes>>
    BY <1>8 DEF DeleteBuffer
  <2>2. \A g \in Holder : SlotOf(g)' = SlotOf(g)
    BY <1>5, <1>6, <1>8
  <2>3. QED
    BY <1>4, <2>1, <2>2, PoolsUntouched DEF IInv
<1>9. QED
  BY <1>7, <1>8

\* The parts of the state that every request leaves in order.
LEMMA InvFields ==
  ASSUME IInv
  PROVE  /\ objects \in [Key -> Interface] /\ poolIndex \in [Key -> Nat]
         /\ buffers \in [Key -> BufferType] /\ removing \in Client \cup {NoClient}
BY DEF IInv, TypeOK, BufferType

\* What is left to show of a step once the pools are known to be in order.
LEMMA InvKept ==
  ASSUME PoolInv', BuffersFit', ResourcesRegistered',
         objects' \in [Key -> Interface], poolIndex' \in [Key -> Nat],
         buffers' \in [Key -> BufferType], removing' \in Client \cup {NoClient}
  PROVE  IInv'
BY DEF IInv, TypeOK, PoolInv, PoolType, BufferType

LEMMA CreatePoolStep ==
  ASSUME IInv, NEW k \in Key, NEW size \in Size, CreatePool(k, size)
  PROVE  IInv'
<1>1. objects' = [objects EXCEPT ![k] = "wl_shm_pool"] /\ UNCHANGED <<buffers, removing>>
  BY DEF CreatePool
<1>2. objects' \in [Key -> Interface]
  BY <1>1, InvFields DEF Interface
<1>3. CASE UNCHANGED <<pools, poolIndex, freeIndexes>>
  <2>1. PoolInv'
    BY <1>1, <1>3, PoolsUntouched DEF IInv, SlotOf
  <2>2. BuffersFit'
    BY <1>1, <1>3 DEF IInv, BuffersFit, ValidShape, End, RowBytes
  <2>3. ResourcesRegistered'
    BY <1>1, <1>3, InvFields DEF IInv, ResourcesRegistered, CreatePool
  <2>4. QED
    BY <1>1, <1>2, <1>3, <2>1, <2>2, <2>3, InvFields, InvKept
<1>4. CASE size > 0 /\ poolIndex[k] = 0 /\ MapPool(k, size)
  <2>1. size \in Nat
    BY <1>4, SizeAssumption
  <2>2. /\ PoolInv' /\ poolIndex' \in [Key -> Nat]
        /\ poolIndex' = [poolIndex EXCEPT ![k] = poolIndex'[k]]
        /\ \A j \in DOMAIN pools : Alive(j) => pools'[j] = pools[j]
    BY <1>1, <1>4, <2>1, InvFields, MapPoolStep DEF IInv
  <2>3. ASSUME NEW j \in DOMAIN pools, Alive(j) PROVE pools'[j].size >= pools[j].size
    <3>1. pools[j].size \in Nat
      BY SlotFields, PoolFields DEF IInv, PoolInv
    <3>2. QED
      BY <2>2, <2>3, <3>1
  <2>4. BuffersFit'
    BY <1>1, <2>2, <2>3, InvFields, BuffersFitKept DEF IInv
  <2>5. ResourcesRegistered'
    BY <1>1, <2>2, InvFields DEF IInv, ResourcesRegistered, CreatePool
  <2>6. QED
    BY <1>1, <1>2, <2>2, <2>4, <2>5, InvFields, InvKept
<1>5. QED
  BY <1>3, <1>4 DEF CreatePool

LEMMA ResizePoolStep ==
  ASSUME IInv, NEW k \in Key, NEW size \in Size, ResizePool(k, size)
  PROVE  IInv'
<1>1. PICK s : s = poolIndex[k]
  OBVIOUS
<1>2. s \in DOMAIN pools /\ pools[s] \in PoolType /\ pools[s].size \in Nat /\ pools[s].refs \in Nat
  BY <1>1, SlotFields, PoolFields DEF ResizePool, Alive, IInv, PoolInv
<1>3. size \in Nat /\ size > pools[s].size
  BY <1>1, <1>2, SizeAssumption DEF ResizePool
<1>4. PICK larger \in PoolType :
        /\ larger = [pools[s] EXCEPT !.size = size]
        /\ larger.size = size /\ larger.refs = pools[s].refs
  <2>1. pools[s] \in [size : Nat, refs : Nat]
    BY <1>2 DEF PoolType
  <2>2. /\ [pools[s] EXCEPT !.size = size].size = size
        /\ [pools[s] EXCEPT !.size = size].refs = pools[s].refs
        /\ [pools[s] EXCEPT !.size = size] \in [size : Nat, refs : Nat]
    BY <1>3, <2>1
  <2>3. QED
    BY <2>2 DEF PoolType
<1>5. /\ pools' \in Seq(PoolType) /\ DOMAIN pools' = DOMAIN pools
      /\ \A j \in DOMAIN pools : pools'[j].refs = pools[j].refs
      /\ \A j \in DOMAIN pools : pools'[j].size >= pools[j].size
  <2>1. pools' = [pools EXCEPT ![s] = larger]
    BY <1>1, <1>4 DEF ResizePool
  <2>2. /\ pools' \in Seq(PoolType) /\ DOMAIN pools' = DOMAIN pools
        /\ pools'[s] = larger
        /\ \A j \in DOMAIN pools \ {s} : pools'[j] = pools[j]
    BY <1>2, <2>1, StorePool DEF IInv, PoolInv
  <2>3. ASSUME NEW j \in DOMAIN pools
        PROVE  pools'[j].refs = pools[j].refs /\ pools'[j].size >= pools[j].size
    <3>1. pools[j].size \in Nat
      BY SlotFields, PoolFields DEF IInv, PoolInv
    <3>2. CASE j = s
      <4>1. pools'[j].size = size /\ pools'[j].refs = pools[s].refs
        BY <1>4, <2>2, <3>2
      <4>2. QED
        BY <1>3, <3>1, <3>2, <4>1
    <3>3. CASE j # s
      BY <2>2, <3>1, <3>3
    <3>4. QED
      BY <3>2, <3>3
  <2>4. QED
    BY <2>2, <2>3
<1>6. UNCHANGED <<objects, poolIndex, freeIndexes, buffers, removing>>
  BY DEF ResizePool
<1>7. PoolInv'
  <2>1. \A g \in Holder : SlotOf(g)' = SlotOf(g)
    BY <1>6 DEF SlotOf
  <2>2. \A i : Holders(i)' = Holders(i)
    BY <2>1 DEF Holders, Holder
  <2>3. RefsExact'
    BY <1>5, <2>1, <2>2, RefsKept DEF IInv, PoolInv, RefsExact
  <2>4. FreeListExact'
    <3>1. {i \in DOMAIN pools : ~Alive(i)}' = {i \in DOMAIN pools : ~Alive(i)}
      BY <1>5 DEF Alive
    <3>2. QED
      BY <1>6, <3>1 DEF IInv, PoolInv, FreeListExact, IsInjective, Range
  <2>5. QED
    BY <1>5, <1>6, <2>3, <2>4 DEF IInv, PoolInv
<1>8. BuffersFit'
  BY <1>5, <1>6, <1>7, InvFields, BuffersFitKept DEF IInv
<1>9. ResourcesRegistered'
  BY <1>6 DEF IInv, ResourcesRegistered
<1>10. QED
  BY <1>6, <1>7, <1>8, <1>9, InvFields, InvKept

LEMMA CreateBufferStep ==
  ASSUME IInv, NEW p \in Key, NEW b \in Key, NEW shape \in Shape, CreateBuffer(p, b, shape)
  PROVE  IInv'
<1>1. objects' = [objects EXCEPT ![b] = "wl_buffer"]
      /\ UNCHANGED <<poolIndex, freeIndexes, removing>>
  BY DEF CreateBuffer
<1>2. objects' \in [Key -> Interface]
  BY <1>1, InvFields DEF Interface
<1>3. CASE UNCHANGED <<pools, buffers>>
  <2>1. PoolInv'
    BY <1>1, <1>3, PoolsUntouched DEF IInv, SlotOf
  <2>2. BuffersFit'
    BY <1>1, <1>3 DEF IInv, BuffersFit, ValidShape, End, RowBytes
  <2>3. ResourcesRegistered'
    BY <1>1, <1>3, InvFields DEF IInv, ResourcesRegistered, CreateBuffer
  <2>4. QED
    BY <1>1, <1>2, <1>3, <2>1, <2>2, <2>3, InvFields, InvKept
<1>4. CASE ~UNCHANGED <<pools, buffers>>
  <2>1. PICK s : s = poolIndex[p]
    OBVIOUS
  <2>2. PICK made \in BufferType : made = [pool |-> s, shape |-> shape]
    BY <2>1, InvFields, ShapeAssumption DEF BufferType, ShapeType
  <2>3. /\ ValidShape(shape) /\ Alive(s) /\ End(shape) <= pools[s].size
        /\ buffers[b].pool = 0
        /\ pools' = [pools EXCEPT ![s].refs = @ + 1]
        /\ buffers' = [buffers EXCEPT ![b] = made]
    BY <1>4, <2>1, <2>2 DEF CreateBuffer
  <2>4. /\ <<"buffer", b>> \in Holder /\ SlotOf(<<"buffer", b>>) = 0
        /\ SlotOf(<<"buffer", b>>)' = s
        /\ \A g \in Holder \ {<<"buffer", b>>} : SlotOf(g)' = SlotOf(g)
    BY <1>1, <2>2, <2>3, InvFields DEF SlotOf, Holder
  <2>5. PoolInv'
    BY <1>1, <2>3, <2>4, SharePoolStep DEF IInv
  <2>6. \A j \in DOMAIN pools : pools'[j].size = pools[j].size
    <3>1. pools[s] \in PoolType /\ s \in DOMAIN pools
      BY <2>3, SlotFields DEF Alive, IInv, PoolInv
    <3>2. QED
      BY <2>3, <3>1 DEF PoolType
  <2>7. BuffersFit'
    <3> SUFFICES ASSUME NEW k \in Key, buffers'[k].pool # 0
                 PROVE  /\ ValidShape(buffers'[k].shape)
                        /\ End(buffers'[k].shape) <= pools'[buffers'[k].pool].size
      BY DEF BuffersFit, ValidShape, End, RowBytes
    <3>1. CASE k = b
      BY <2>2, <2>3, <2>6, <3>1, InvFields DEF Alive
    <3>2. CASE k # b
      <4>1. buffers'[k] = buffers[k]
        BY <2>3, <3>2, InvFields
      <4>2. buffers[k].pool \in DOMAIN pools
        <5>1. <<"buffer", k>> \in Holder /\ SlotOf(<<"buffer", k>>) = buffers[k].pool
          BY DEF Holder, SlotOf
        <5>2. QED
          BY <4>1, <5>1 DEF IInv, PoolInv, RefsExact
      <4>3. QED
        BY <2>6, <4>1, <4>2 DEF IInv, BuffersFit
    <3>3. QED
      BY <3>1, <3>2
  <2>8. ResourcesRegistered'
    BY <1>1, <2>3, InvFields DEF IInv, ResourcesRegistered, CreateBuffer
  <2>9. buffers' \in [Key -> BufferType]
    BY <2>3, InvFields
  <2>10. QED
    BY <1>1, <1>2, <2>5, <2>7, <2>8, <2>9, InvFields, InvKept
<1>5. QED
  BY <1>3, <1>4

LEMMA DestroyPoolStep ==
  ASSUME IInv, NEW k \in Key, DeletePool(k), UNCHANGED <<buffers, removing>>,
         objects' \in [Key -> Interface],
         \A o \in Key \ {k} : objects'[o] = objects[o],
         objects'[k] = objects[k] \/ objects[k] = "wl_shm_pool"
  PROVE  IInv'
<1>1. PoolInv' /\ poolIndex' \in [Key -> Nat]
  BY DeletePoolStep
<1>2. \E i : ReleasePool(i) \/ UNCHANGED pools
  BY DEF DeletePool
<1>3. ASSUME NEW j \in DOMAIN pools, Alive(j), Alive(j)' PROVE pools'[j].size >= pools[j].size
  <2>1. CASE \E i : ReleasePool(i)
    BY <1>3, <2>1, ReleaseKeepsSizes DEF IInv
  <2>2. CASE UNCHANGED pools
    <3>1. pools[j].size \in Nat
      BY SlotFields, PoolFields DEF IInv, PoolInv
    <3>2. QED
      BY <2>2, <3>1
  <2>3. QED
    BY <1>2, <2>1, <2>2
<1>4. BuffersFit'
  BY <1>1, <1>3, InvFields, BuffersFitKept DEF IInv
<1>5. ResourcesRegistered'
  BY InvFields DEF IInv, ResourcesRegistered, DeletePool
<1>6. QED
  BY <1>1, <1>4, <1>5, InvFields, InvKept

LEMMA DestroyBufferStep ==
  ASSUME IInv, NEW k \in Key, DeleteBuffer(k), UNCHANGED <<poolIndex, removing>>,
         objects' \in [Key -> Interface],
         \A o \in Key \ {k} : objects'[o] = objects[o],
         objects'[k] = objects[k] \/ objects[k] = "wl_buffer"
  PROVE  IInv'
<1>1. PoolInv' /\ buffers' \in [Key -> BufferType]
  BY DeleteBufferStep DEF BufferType
<1>2. /\ \A o \in Key \ {k} : buffers'[o] = buffers[o]
      /\ buffers'[k].pool = 0
  BY InvFields DEF DeleteBuffer, NoBuffer
<1>3. \E i : ReleasePool(i) \/ UNCHANGED pools
  BY DEF DeleteBuffer
<1>4. ASSUME NEW j \in DOMAIN pools, Alive(j), Alive(j)' PROVE pools'[j].size >= pools[j].size
  <2>1. CASE \E i : ReleasePool(i)
    BY <1>4, <2>1, ReleaseKeepsSizes DEF IInv
  <2>2. CASE UNCHANGED pools
    <3>1. pools[j].size \in Nat
      BY SlotFields, PoolFields DEF IInv, PoolInv
    <3>2. QED
      BY <2>2, <3>1
  <2>3. QED
    BY <1>3, <2>1, <2>2
<1>5. BuffersFit'
  BY <1>1, <1>2, <1>4, InvFields, BuffersFitKept DEF IInv
<1>6. ResourcesRegistered'
  BY <1>2, InvFields DEF IInv, ResourcesRegistered
<1>7. QED
  BY <1>1, <1>5, <1>6, InvFields, InvKept

\* A step that leaves pools, buffers and their slots alone.
LEMMA OthersStep ==
  ASSUME IInv, UNCHANGED <<pools, poolIndex, freeIndexes, buffers>>,
         objects' \in [Key -> Interface], removing' \in Client \cup {NoClient},
         \A k \in Key : objects'[k] = objects[k] \/ (buffers[k].pool = 0 /\ poolIndex[k] = 0)
  PROVE  IInv'
<1>1. PoolInv'
  BY PoolsUntouched DEF IInv, SlotOf
<1>2. BuffersFit'
  BY DEF IInv, BuffersFit, ValidShape, End, RowBytes
<1>3. ResourcesRegistered'
  BY DEF IInv, ResourcesRegistered
<1>4. QED
  BY <1>1, <1>2, <1>3, InvFields, InvKept

LEMMA Initially == Init => IInv
<1> SUFFICES ASSUME Init PROVE IInv
  OBVIOUS
<1>1. TypeOK
  BY DEF Init, TypeOK, Interface, NoBuffer, NoShape, ShapeType
<1>2. \A h \in Holder : SlotOf(h) = 0
  BY DEF Init, Holder, SlotOf, NoBuffer
<1>3. RefsExact
  BY <1>2 DEF Init, RefsExact
<1>4. FreeListExact
  BY DEF Init, FreeListExact, IsInjective, Range
<1>5. PoolInv
  BY <1>1, <1>3, <1>4 DEF PoolInv, TypeOK, PoolType
<1>6. BuffersFit /\ ResourcesRegistered
  BY DEF Init, BuffersFit, ResourcesRegistered, NoBuffer
<1>7. QED
  BY <1>1, <1>5, <1>6 DEF IInv

LEMMA Inductive == IInv /\ [Next]_vars => IInv'
<1> SUFFICES ASSUME IInv, [Next]_vars PROVE IInv'
  OBVIOUS
<1>1. ASSUME NEW k \in Key, NEW size \in Size, CreatePool(k, size) PROVE IInv'
  BY <1>1, CreatePoolStep
<1>2. ASSUME NEW k \in Key, NEW size \in Size, ResizePool(k, size) PROVE IInv'
  BY <1>2, ResizePoolStep
<1>3. ASSUME NEW p \in Key, NEW b \in Key, NEW shape \in Shape, CreateBuffer(p, b, shape)
      PROVE  IInv'
  BY <1>3, CreateBufferStep
<1>4. ASSUME NEW k \in Key, DestroyPool(k) PROVE IInv'
  <2>1. objects' \in [Key -> Interface] /\ \A o \in Key \ {k} : objects'[o] = objects[o]
    BY <1>4, InvFields DEF DestroyPool, Interface
  <2>2. QED
    BY <1>4, <2>1, DestroyPoolStep DEF DestroyPool
<1>5. ASSUME NEW k \in Key, DestroyBuffer(k) PROVE IInv'
  <2>1. objects' \in [Key -> Interface] /\ \A o \in Key \ {k} : objects'[o] = objects[o]
    BY <1>5, InvFields DEF DestroyBuffer, Interface
  <2>2. QED
    BY <1>5, <2>1, DestroyBufferStep DEF DestroyBuffer
<1>6. ASSUME NEW c \in Client, RemoveClient(c) PROVE IInv'
  BY <1>6, InvFields, OthersStep DEF RemoveClient
<1>7. ASSUME NEW k \in Key, RemoveClientBuffer(k) PROVE IInv'
  BY <1>7, InvFields, DestroyBufferStep DEF RemoveClientBuffer
<1>8. ASSUME NEW k \in Key, RemoveClientPool(k) PROVE IInv'
  BY <1>8, InvFields, DestroyPoolStep DEF RemoveClientPool
<1>9. ASSUME ClientRemoved PROVE IInv'
  <2>1. \A k \in Key : k[1] = removing => buffers[k].pool = 0 /\ poolIndex[k] = 0
    BY <1>9 DEF ClientRemoved, Owned
  <2>2. /\ objects' \in [Key -> Interface] /\ removing' = NoClient
        /\ \A k \in Key : k[1] # removing => objects'[k] = objects[k]
    BY <1>9, InvFields DEF ClientRemoved, Interface
  <2>3. QED
    BY <1>9, <2>1, <2>2, OthersStep DEF ClientRemoved
<1>10. CASE UNCHANGED vars
  BY <1>10, InvFields, OthersStep DEF vars
<1>11. QED
  BY <1>1, <1>2, <1>3, <1>4, <1>5, <1>6, <1>7, <1>8, <1>9, <1>10 DEF Next

LEMMA InvAlways == Spec => []IInv
BY Initially, Inductive, PTL DEF Spec

----------------------------------------------------------------------------

\* The types of ShmManager's fields and of the registry entries
\* (crates/lumalla_display/src/shm.rs).
THEOREM TypeCorrect == Spec => []TypeOK
<1>1. IInv => TypeOK
  BY DEF IInv
<1>2. QED
  BY <1>1, InvAlways, PTL

\* However requests, resizes and client removals are ordered, the reference
\* count of a slot is the number of objects that refer to it (release_pool).
THEOREM CountsExact == Spec => []RefsExact
<1>1. IInv => RefsExact
  BY DEF IInv, PoolInv
<1>2. QED
  BY <1>1, InvAlways, PTL

\* The free list names each dead slot once and nothing else, so create_pool
\* never hands out a slot that is in use.
THEOREM FreeListAlwaysExact == Spec => []FreeListExact
<1>1. IInv => FreeListExact
  BY DEF IInv, PoolInv
<1>2. QED
  BY <1>1, InvAlways, PTL

\* snapshot_buffer never reads outside the mapping.
THEOREM SnapshotsInBounds == Spec => []SnapshotInBounds
<1>1. IInv => SnapshotInBounds
  <2> SUFFICES ASSUME IInv, NEW k \in Key, buffers[k].pool # 0,
                      NEW row \in 0..buffers[k].shape.height - 1
               PROVE  LET start == buffers[k].shape.offset + row * buffers[k].shape.stride
                      IN /\ 0 <= start
                         /\ start + RowBytes(buffers[k].shape) <= pools[buffers[k].pool].size
    BY DEF SnapshotInBounds
  <2>1. buffers[k].shape \in ShapeType
    BY InvFields DEF BufferType
  <2>2. ValidShape(buffers[k].shape) /\ End(buffers[k].shape) <= pools[buffers[k].pool].size
    BY DEF IInv, BuffersFit
  <2>3. pools[buffers[k].pool].size \in Nat
    <3>1. <<"buffer", k>> \in Holder /\ SlotOf(<<"buffer", k>>) = buffers[k].pool
      BY DEF Holder, SlotOf
    <3>2. buffers[k].pool \in DOMAIN pools
      BY <3>1 DEF IInv, PoolInv, RefsExact
    <3>3. QED
      BY <3>2, SlotFields, PoolFields DEF IInv, PoolInv
  <2>4. QED
    BY <2>1, <2>2, <2>3, RowsInPool
<1>2. QED
  BY <1>1, InvAlways, PTL

\* A removed client leaves no pool and no buffer behind (delete_client).
THEOREM ResourcesAlwaysRegistered == Spec => []ResourcesRegistered
<1>1. IInv => ResourcesRegistered
  BY DEF IInv
<1>2. QED
  BY <1>1, InvAlways, PTL

----------------------------------------------------------------------------
(* Sharing by reachability.                                                *)

Mapped == {i \in DOMAIN pools : Alive(i)}
BufferSlots == [k \in Key |-> buffers[k].pool]

\* With exact counts, the mappings that are alive are those in use.
LEMMA MappedReferenced == IInv => Mapped = Sharing!Referenced(poolIndex, BufferSlots)
<1> SUFFICES ASSUME IInv PROVE Mapped = Sharing!Referenced(poolIndex, BufferSlots)
  OBVIOUS
<1>1. ASSUME NEW i PROVE i \in Mapped <=> i # 0 /\ Alive(i)
  BY DEF Mapped, Alive, IInv, PoolInv
<1>2. ASSUME NEW i
      PROVE  (\E h \in Holder : SlotOf(h) = i)
               <=> \E k \in Key : poolIndex[k] = i \/ BufferSlots[k] = i
  <2>1. \A k \in Key : /\ <<"pool", k>> \in Holder /\ SlotOf(<<"pool", k>>) = poolIndex[k]
                       /\ <<"buffer", k>> \in Holder
                       /\ SlotOf(<<"buffer", k>>) = BufferSlots[k]
    BY DEF Holder, SlotOf, BufferSlots
  <2>2. \A h \in Holder : \E k \in Key : SlotOf(h) = poolIndex[k] \/ SlotOf(h) = BufferSlots[k]
    BY DEF Holder, SlotOf, BufferSlots
  <2>3. QED
    BY <2>1, <2>2
<1>3. ASSUME NEW i
      PROVE  i \in Sharing!Referenced(poolIndex, BufferSlots)
               <=> i # 0 /\ \E k \in Key : poolIndex[k] = i \/ BufferSlots[k] = i
  BY DEF Sharing!Referenced
<1>4. ASSUME NEW i PROVE i \in Mapped <=> i \in Sharing!Referenced(poolIndex, BufferSlots)
  BY <1>1, <1>2, <1>3, AliveHeld DEF IInv
<1>5. QED
  BY <1>4

LEMMA MappedReferencedNext ==
  IInv' => Mapped' = Sharing!Referenced(poolIndex', BufferSlots')
<1>1. IInv' => (Mapped = Sharing!Referenced(poolIndex, BufferSlots))'
  BY MappedReferenced, PTL
<1>2. QED
  BY <1>1 DEF Sharing!Referenced

\* A pool object that goes drops its mapping.
LEMMA DropsPool ==
  ASSUME IInv', NEW k \in Key, DeletePool(k), UNCHANGED buffers
  PROVE  Sharing!Next
<1>1. poolIndex' = [poolIndex EXCEPT ![k] = 0] /\ BufferSlots' = BufferSlots
  BY DEF DeletePool, BufferSlots
<1>2. Mapped' = Sharing!Referenced(poolIndex', BufferSlots)
  BY <1>1, MappedReferencedNext
<1>3. Sharing!DropPool(k)
  BY <1>1, <1>2 DEF Sharing!DropPool, BufferSlots, Mapped
<1>4. QED
  BY <1>3 DEF Sharing!Next

\* So does a buffer.
LEMMA DropsBuffer ==
  ASSUME IInv, IInv', NEW k \in Key, DeleteBuffer(k), UNCHANGED poolIndex
  PROVE  Sharing!Next
<1>1. BufferSlots' = [BufferSlots EXCEPT ![k] = 0]
  BY InvFields DEF DeleteBuffer, BufferSlots, NoBuffer
<1>2. Mapped' = Sharing!Referenced(poolIndex, BufferSlots')
  BY MappedReferencedNext
<1>3. Sharing!DropBuffer(k)
  BY <1>1, <1>2 DEF Sharing!DropBuffer, BufferSlots, Mapped
<1>4. QED
  BY <1>3 DEF Sharing!Next

\* A request that moves no object from slot to slot maps and unmaps nothing.
LEMMA Stutters ==
  ASSUME IInv, IInv', UNCHANGED poolIndex, BufferSlots' = BufferSlots
  PROVE  UNCHANGED <<poolIndex, BufferSlots, Mapped>>
BY MappedReferenced, MappedReferencedNext

LEMMA SharingStep ==
  ASSUME IInv, IInv', [Next]_vars
  PROVE  Sharing!Next \/ UNCHANGED <<poolIndex, BufferSlots, Mapped>>
<1>1. ASSUME NEW k \in Key, NEW size \in Size, CreatePool(k, size)
      PROVE  Sharing!Next \/ UNCHANGED <<poolIndex, BufferSlots, Mapped>>
  <2>1. BufferSlots' = BufferSlots
    BY <1>1 DEF CreatePool, BufferSlots
  <2>2. CASE UNCHANGED poolIndex
    BY <2>1, <2>2, Stutters
  <2>3. CASE size > 0 /\ poolIndex[k] = 0 /\ MapPool(k, size)
    <3>1. PICK new : new = poolIndex'[k]
      OBVIOUS
    <3>2. new # 0 /\ ~Alive(new) /\ poolIndex' = [poolIndex EXCEPT ![k] = new]
      <4>1. size \in Nat /\ UNCHANGED buffers
        BY <1>1, <2>3, SizeAssumption DEF CreatePool
      <4>2. QED
        BY <2>3, <3>1, <4>1, InvFields, MapPoolStep DEF IInv
    <3>3. Sharing!Referenced(poolIndex', BufferSlots')
            = Sharing!Referenced(poolIndex, BufferSlots) \cup {new}
      <4>1. ASSUME NEW i
            PROVE  (i # 0 /\ \E o \in Key : poolIndex'[o] = i \/ BufferSlots'[o] = i)
                     <=> i = new \/ (i # 0 /\ \E o \in Key : poolIndex[o] = i \/ BufferSlots[o] = i)
        BY <2>1, <2>3, <3>2, InvFields
      <4>2. QED
        BY <4>1 DEF Sharing!Referenced
    <3>4. Mapped' = Mapped \cup {new}
      BY <3>3, MappedReferenced, MappedReferencedNext
    <3>5. new \notin Mapped \cup {0}
      BY <3>2 DEF Mapped
    <3>6. Sharing!Map(k)
      BY <2>1, <2>3, <3>1, <3>2, <3>4, <3>5 DEF Sharing!Map, Mapped, BufferSlots
    <3>7. QED
      BY <3>6 DEF Sharing!Next
  <2>4. QED
    BY <1>1, <2>2, <2>3 DEF CreatePool
<1>2. ASSUME NEW k \in Key, NEW size \in Size, ResizePool(k, size)
      PROVE  UNCHANGED <<poolIndex, BufferSlots, Mapped>>
  BY <1>2, Stutters DEF ResizePool, BufferSlots
<1>3. ASSUME NEW p \in Key, NEW b \in Key, NEW shape \in Shape, CreateBuffer(p, b, shape)
      PROVE  Sharing!Next \/ UNCHANGED <<poolIndex, BufferSlots, Mapped>>
  <2>1. UNCHANGED poolIndex
    BY <1>3 DEF CreateBuffer
  <2>2. CASE UNCHANGED buffers
    BY <2>1, <2>2, Stutters DEF BufferSlots
  <2>3. CASE ~UNCHANGED buffers
    <3>1. /\ Alive(poolIndex[p]) /\ buffers[b].pool = 0
          /\ buffers' = [buffers EXCEPT ![b] = [pool |-> poolIndex[p], shape |-> shape]]
      BY <1>3, <2>3 DEF CreateBuffer
    <3>2. BufferSlots' = [BufferSlots EXCEPT ![b] = poolIndex[p]] /\ BufferSlots[b] = 0
      BY <3>1, InvFields DEF BufferSlots
    <3>3. poolIndex[p] # 0
      BY <3>1 DEF Alive, IInv, PoolInv
    <3>4. Sharing!Referenced(poolIndex', BufferSlots') = Sharing!Referenced(poolIndex, BufferSlots)
      <4>1. ASSUME NEW i
            PROVE  (\E o \in Key : poolIndex'[o] = i \/ BufferSlots'[o] = i) /\ i # 0
                     <=> (\E o \in Key : poolIndex[o] = i \/ BufferSlots[o] = i) /\ i # 0
        BY <2>1, <3>2 DEF BufferSlots
      <4>2. QED
        BY <4>1 DEF Sharing!Referenced
    <3>5. Mapped' = Mapped
      BY <3>4, MappedReferenced, MappedReferencedNext
    <3>6. Sharing!Share(b, p)
      BY <2>1, <3>2, <3>3, <3>5 DEF Sharing!Share, Mapped, BufferSlots
    <3>7. QED
      BY <3>6 DEF Sharing!Next
  <2>4. QED
    BY <2>2, <2>3
<1>4. ASSUME NEW k \in Key, DestroyPool(k) \/ RemoveClientPool(k) PROVE Sharing!Next
  BY <1>4, DropsPool DEF DestroyPool, RemoveClientPool
<1>5. ASSUME NEW k \in Key, DestroyBuffer(k) \/ RemoveClientBuffer(k) PROVE Sharing!Next
  BY <1>5, DropsBuffer DEF DestroyBuffer, RemoveClientBuffer
<1>6. ASSUME (\E c \in Client : RemoveClient(c)) \/ ClientRemoved \/ UNCHANGED vars
      PROVE  UNCHANGED <<poolIndex, BufferSlots, Mapped>>
  BY <1>6, Stutters DEF RemoveClient, ClientRemoved, BufferSlots, vars
<1>7. QED
  BY <1>1, <1>2, <1>3, <1>4, <1>5, <1>6 DEF Next

\* Slots that are reused, counts and the free list behave as if every mapping
\* were simply kept while an object refers to it (shm.rs).
THEOREM ImplementsSharing == Spec => SharingSpec
<1>1. Init => Sharing!Init
  BY DEF Init, Sharing!Init, NoBuffer
<1>2. IInv /\ IInv' /\ [Next]_vars => [Sharing!Next]_(Sharing!vars)
  BY SharingStep DEF Sharing!vars, BufferSlots, Mapped
<1>3. QED
  BY <1>1, <1>2, InvAlways, PTL DEF Spec, SharingSpec, Sharing!Spec
=============================================================================
