------------------------- MODULE BufferCacheProofs -------------------------
(***************************************************************************)
(* The buffer cache, for any number of buffers, clients and blocks, as     *)
(* long as a call keeps the processor until it sleeps: three invariants on *)
(* top of each other.  Kept is about the queues, the locks and who claims  *)
(* a buffer; Counted about the counts; Sound needs in addition that no     *)
(* write fails, and with it the cache implements the store of blocks.      *)
(***************************************************************************)
EXTENDS BufferCache, FiniteSetTheorems, WellFoundedInduction, TLAPS

---------------------------------------------------------------------------
(* The hash chains and the free list: what a walk along them finds, and    *)
(* that taking a buffer out and putting it in at the other place keeps     *)
(* every chain and the ring whole.                                         *)

Positions == 0 .. NR_BUFFERS - 1

\* A non-empty set of naturals has a least member, and First finds it.
LEMMA FirstIsLeast ==
  ASSUME NEW S, S \subseteq Nat, S # {}
  PROVE  First(S) \in S /\ \A n \in S : First(S) <= n
<1>1. PICK m \in S : \A n \in S : ~(<<n, m>> \in OpToRel(<, Nat))
  BY NatLessThanWellFounded, WFMin
<1>2. \A n \in S : ~(n < m)
  BY <1>1 DEF OpToRel
<1>3. \A n \in S : m <= n
  BY <1>2
<1> QED
  BY <1>3 DEF First

\* Following pointers within a set S.
LEMMA Followed ==
  ASSUME NEW S, NEW first \in S, NEW pointer \in [S -> S]
  PROVE  LET w == Follow(first, pointer)
         IN  /\ w \in [Positions -> S]
             /\ w[0] = first
             /\ \A n \in Positions \ {0} : w[n] = pointer[w[n - 1]]
<1> DEFINE Path(f, m) == /\ f \in [0 .. m -> S] /\ f[0] = first
                         /\ \A n \in 1 .. m : f[n] = pointer[f[n - 1]]
           None == {m \in Nat : ~ \E f : Path(f, m)}
<1>1. None = {}
  <2>1. SUFFICES ASSUME None # {} PROVE FALSE
    OBVIOUS
  <2>2. First(None) \in None /\ \A n \in None : First(None) <= n
    BY <2>1, FirstIsLeast
  <2> DEFINE m == First(None)
  <2>3. m # 0
    <3>1. Path([n \in 0 .. 0 |-> first], 0)
      OBVIOUS
    <3> QED
      BY <2>2, <3>1, ZenonT(60)
  <2>4. m \in Nat /\ m - 1 \in Nat /\ m - 1 \notin None
    <3>1. m \in None /\ m \in Nat /\ \A n \in None : m <= n
      BY <2>2
    <3> HIDE DEF m, None
    <3> QED
      BY <2>3, <3>1
  <2> HIDE DEF m
  <2>5. PICK f : Path(f, m - 1)
    BY <2>4
  <2>6. Path([n \in 0 .. m |-> IF n = m THEN pointer[f[m - 1]] ELSE f[n]], m)
    BY <2>3, <2>4, <2>5
  <2> QED
    BY <2>2, <2>4, <2>6 DEF m
<1> DEFINE K == NR_BUFFERS - 1
<1>2. K \in Nat
  BY CacheAssumption
<1>3. PICK f : Path(f, K)
  BY <1>1, <1>2
<1> DEFINE Eqn(w) == w = [n \in 0 .. K |-> IF n = 0 THEN first ELSE pointer[w[n - 1]]]
<1>4. Eqn(f)
  BY <1>2, <1>3
<1>5. Follow(first, pointer) = CHOOSE w : Eqn(w)
  BY DEF Follow
<1>6. Eqn(Follow(first, pointer))
  BY <1>4, <1>5
<1> DEFINE w == Follow(first, pointer)
           Off == {n \in 0 .. K : w[n] \notin S}
<1> HIDE DEF w
<1>7. w = [n \in 0 .. K |-> IF n = 0 THEN first ELSE pointer[w[n - 1]]]
  BY <1>6 DEF w
<1>8. Off = {}
  <2>1. SUFFICES ASSUME Off # {} PROVE FALSE
    OBVIOUS
  <2>2. First(Off) \in Off /\ \A n \in Off : First(Off) <= n
    BY <2>1, FirstIsLeast
  <2> DEFINE m == First(Off)
  <2> HIDE DEF m
  <2>3. m \in 0 .. K /\ w[m] \notin S /\ \A n \in Off : m <= n
    BY <2>2 DEF m
  <2>4. m # 0
    BY <1>7, <2>3
  <2>5. m - 1 \in 0 .. K /\ m - 1 \notin Off
    BY <1>2, <2>3, <2>4
  <2> QED
    BY <1>7, <2>3, <2>4, <2>5
<1>9. w \in [0 .. K -> S]
  BY <1>7, <1>8
<1>10. w[0] = first /\ \A n \in 0 .. K : n # 0 => w[n] = pointer[w[n - 1]]
  BY <1>2, <1>7
<1> QED
  BY <1>9, <1>10, SMTT(60) DEF w, Positions

---------------------------------------------------------------------------
(* The queues.                                                             *)

\* The links of q are pointers to buffers, and may be Nil but in the free list.
Links(q) ==
  q \in [hash : [Chains -> Bufs \cup {Nil}],
         next : [Bufs -> Bufs \cup {Nil}], prev : [Bufs -> Bufs \cup {Nil}],
         free : Bufs, next_free : [Bufs -> Bufs], prev_free : [Bufs -> Bufs]]

After(n) == IF n = NR_BUFFERS - 1 THEN 0 ELSE n + 1

\* The free list is a ring: f[n] is its n-th buffer, g[b] the place of b.
Ring(q, f, g) ==
  /\ f \in [Positions -> Bufs] /\ g \in [Bufs -> Positions]
  /\ \A n \in Positions : g[f[n]] = n
  /\ \A b \in Bufs : f[g[b]] = b
  /\ q.free = f[0]
  /\ \A n \in Positions : /\ q.next_free[f[n]] = f[After(n)]
                          /\ q.prev_free[f[After(n)]] = f[n]

\* Does b hold a block of the chain h?
InChain(blk, h, b) == blk[b] # Nil /\ HashFn[blk[b]] = h

\* The chains: the links mirror each other and stay within a chain, its head is
\* the only buffer without predecessor, and a chain goes through the free list
\* backwards, since a buffer gets to the front of the one and the end of the
\* other at the same time.
Hash(q, g, blk) ==
  /\ \A b \in Bufs : blk[b] = Nil => q.next[b] = Nil /\ q.prev[b] = Nil
  /\ \A b, c \in Bufs : q.next[b] = c <=> q.prev[c] = b
  /\ \A b, c \in Bufs : q.next[b] = c => /\ blk[c] # Nil /\ g[c] < g[b]
                                        /\ HashFn[blk[b]] = HashFn[blk[c]]
  /\ \A h \in Chains, b \in Bufs : q.hash[h] = b <=> InChain(blk, h, b) /\ q.prev[b] = Nil

Queued(q, blk) == Links(q) /\ \E f, g : Ring(q, f, g) /\ Hash(q, g, blk)

\* The bounds, and what Nil is not.
LEMMA Sizes ==
  /\ NR_BUFFERS \in Nat /\ NR_BUFFERS >= 2
  /\ Bufs = 1 .. NR_BUFFERS /\ Nil \notin Bufs /\ Nil \notin Blocks
  /\ \A k \in Blocks : HashFn[k] \in Chains
  BY CacheAssumption DEF Bufs, Chains

\* The free list leads through all buffers in order.
LEMMA FreeListIsRing ==
  ASSUME NEW f, NEW g, Links(queues), Ring(queues, f, g)
  PROVE  FreeList = f
<1>1. /\ FreeList \in [Positions -> Bufs] /\ FreeList[0] = queues.free
      /\ \A n \in Positions \ {0} : FreeList[n] = queues.next_free[FreeList[n - 1]]
  BY Followed DEF FreeList, Links
<1> DEFINE Off == {n \in Positions : FreeList[n] # f[n]}
<1>2. Off = {}
  <2>1. SUFFICES ASSUME Off # {} PROVE FALSE
    OBVIOUS
  <2>2. Off \subseteq Nat
    BY DEF Positions
  <2>3. PICK m \in Off : \A n \in Off : m <= n
    BY <2>1, <2>2, FirstIsLeast
  <2>4. m # 0
    BY <1>1, <2>3 DEF Ring
  <2>5. m - 1 \in Positions /\ m - 1 \notin Off /\ After(m - 1) = m
    BY <2>2, <2>3, <2>4, Sizes DEF Positions, After
  <2>6. FreeList[m] = queues.next_free[f[m - 1]]
    BY <1>1, <2>3, <2>4, <2>5
  <2> QED
    BY <2>3, <2>5, <2>6 DEF Ring
<1> QED
  BY <1>1, <1>2 DEF Ring

\* What the pointers of a chain lead to.
LEMMA ChainIsWalk ==
  ASSUME NEW h \in Chains, Links(queues)
  PROVE  /\ Chain(h) \in [Positions -> Bufs \cup {Nil}]
         /\ Chain(h)[0] = queues.hash[h]
         /\ \A n \in Positions \ {0} :
              Chain(h)[n] = IF Chain(h)[n - 1] = Nil THEN Nil
                            ELSE queues.next[Chain(h)[n - 1]]
<1> DEFINE S == Bufs \cup {Nil}
           step == [b \in S |-> IF b = Nil THEN Nil ELSE queues.next[b]]
<1>1. queues.hash[h] \in S /\ step \in [S -> S]
  BY DEF Links
<1>2. Chain(h) = Follow(queues.hash[h], step)
  BY DEF Chain
<1> HIDE DEF step
<1>3. /\ Chain(h) \in [Positions -> S] /\ Chain(h)[0] = queues.hash[h]
      /\ \A n \in Positions \ {0} : Chain(h)[n] = step[Chain(h)[n - 1]]
  BY <1>1, <1>2, Followed
<1>4. \A n \in Positions \ {0} : n - 1 \in Positions
  BY Sizes DEF Positions
<1> QED
  BY <1>3, <1>4 DEF step

\* A chain holds buffers of its own blocks only, each behind its predecessor.
LEMMA ChainStays ==
  ASSUME NEW f, NEW g, Links(queues), Ring(queues, f, g), Hash(queues, g, b_block_nr),
         NEW h \in Chains
  PROVE  \A n \in Positions : Chain(h)[n] # Nil =>
           /\ InChain(b_block_nr, h, Chain(h)[n])
           /\ queues.prev[Chain(h)[n]] = IF n = 0 THEN Nil ELSE Chain(h)[n - 1]
<1> DEFINE c == Chain(h)
           Good(n) == /\ InChain(b_block_nr, h, c[n])
                      /\ queues.prev[c[n]] = IF n = 0 THEN Nil ELSE c[n - 1]
           Bad == {n \in Positions : c[n] # Nil /\ ~Good(n)}
<1>1. /\ c \in [Positions -> Bufs \cup {Nil}] /\ c[0] = queues.hash[h]
      /\ \A n \in Positions \ {0} :
           c[n] = IF c[n - 1] = Nil THEN Nil ELSE queues.next[c[n - 1]]
  BY ChainIsWalk
<1> HIDE DEF c
<1>2. Bad = {}
  <2>1. SUFFICES ASSUME Bad # {} PROVE FALSE
    OBVIOUS
  <2>2. Bad \subseteq Nat
    BY DEF Positions
  <2>3. PICK m \in Bad : \A n \in Bad : m <= n
    BY <2>1, <2>2, FirstIsLeast
  <2>4. m \in Positions /\ c[m] \in Bufs /\ ~Good(m)
    BY <1>1, <2>3
  <2>5. m # 0
    BY <1>1, <2>4 DEF Hash
  <2>6. m - 1 \in Positions /\ m - 1 \notin Bad
    BY <2>2, <2>3, <2>4, <2>5, Sizes DEF Positions
  <2>7. c[m - 1] \in Bufs /\ c[m] = queues.next[c[m - 1]] /\ Good(m - 1)
    BY <1>1, <2>4, <2>5, <2>6, Sizes
  <2> QED
    BY <2>4, <2>5, <2>7 DEF Hash, InChain
<1> QED
  BY <1>2 DEF c

\* A chain reaches every buffer that holds one of its blocks.
LEMMA ChainReaches ==
  ASSUME NEW f, NEW g, Links(queues), Ring(queues, f, g), Hash(queues, g, b_block_nr),
         NEW h \in Chains, NEW b \in Bufs, InChain(b_block_nr, h, b)
  PROVE  \E n \in Positions : Chain(h)[n] = b
<1> DEFINE c == Chain(h)
           Reached(x) == \E n \in Positions : n <= NR_BUFFERS - 1 - g[x] /\ c[n] = x
           Missed == {x \in Bufs : InChain(b_block_nr, h, x) /\ ~Reached(x)}
           Ends == {NR_BUFFERS - 1 - g[x] : x \in Missed}
<1>1. /\ c \in [Positions -> Bufs \cup {Nil}] /\ c[0] = queues.hash[h]
      /\ \A n \in Positions \ {0} :
           c[n] = IF c[n - 1] = Nil THEN Nil ELSE queues.next[c[n - 1]]
  BY ChainIsWalk
<1> HIDE DEF c
<1>2. Missed = {}
  <2>1. SUFFICES ASSUME Missed # {} PROVE FALSE
    OBVIOUS
  <2>2. Ends \subseteq Nat /\ Ends # {}
    <3>1. \A y \in Bufs : NR_BUFFERS - 1 - g[y] \in Nat
      <4>1. \A y \in Bufs : g[y] \in 0 .. NR_BUFFERS - 1
        BY DEF Ring, Positions
      <4> QED
        BY <4>1, Sizes
    <3> QED
      BY <2>1, <3>1
  <2>3. PICK e \in Ends : \A d \in Ends : e <= d
    BY <2>2, FirstIsLeast
  <2>4. PICK x \in Missed : e = NR_BUFFERS - 1 - g[x]
    BY <2>3
  <2>5. x \in Bufs /\ g[x] \in Positions /\ e \in Nat /\ 0 \in Positions
    <3>1. x \in Bufs /\ e \in Nat
      BY <2>2, <2>3, <2>4
    <3>2. 0 \in Positions
      BY Sizes DEF Positions
    <3> QED
      BY <3>1, <3>2 DEF Ring
  <2>6. queues.prev[x] # Nil
    <3>1. queues.prev[x] = Nil => c[0] = x
      BY <1>1, <2>4, <2>5 DEF Hash
    <3> QED
      BY <2>4, <2>5, <3>1
  <2>7. PICK y \in Bufs : queues.prev[x] = y
    BY <2>5, <2>6 DEF Links
  <2>8. queues.next[y] = x /\ g[x] < g[y] /\ InChain(b_block_nr, h, y) /\ g[y] \in Positions
    BY <2>4, <2>5, <2>7, Sizes, SMTT(60) DEF Hash, InChain, Ring
  <2>9. y \notin Missed
    <3>1. NR_BUFFERS - 1 - g[y] < e
      BY <2>4, <2>5, <2>8, Sizes, SMTT(60) DEF Positions
    <3>2. y \in Missed => NR_BUFFERS - 1 - g[y] \in Ends
      OBVIOUS
    <3>3. NR_BUFFERS - 1 - g[y] \in Int
      BY <2>8, Sizes DEF Positions
    <3> HIDE DEF Ends, Missed
    <3> QED
      BY <2>3, <2>5, <3>1, <3>2, <3>3
  <2>10. PICK n \in Positions : n <= NR_BUFFERS - 1 - g[y] /\ c[n] = y
    BY <2>8, <2>9
  <2>11. n + 1 \in Positions /\ n + 1 # 0 /\ n + 1 <= NR_BUFFERS - 1 - g[x]
    BY <2>5, <2>8, <2>10, Sizes, SMTT(60) DEF Positions
  <2>12. c[n + 1] = x
    <3>1. (n + 1) - 1 = n
      BY DEF Positions
    <3> QED
      BY <1>1, <2>8, <2>10, <2>11, <3>1, Sizes
  <2> QED
    BY <2>4, <2>11, <2>12
<1> QED
  BY <1>2 DEF c

\* The search of a chain finds the block exactly if a buffer holds it.
LEMMA Found ==
  ASSUME Queued(queues, b_block_nr), NEW k \in Blocks
  PROVE  /\ findBuffer(k) \in Bufs \cup {Nil}
         /\ findBuffer(k) # Nil => b_block_nr[findBuffer(k)] = k
         /\ findBuffer(k) = Nil => \A b \in Bufs : b_block_nr[b] # k
<1> DEFINE h == HashFn[k]
           c == Chain(h)
           at == {n \in DOMAIN c : c[n] # Nil /\ b_block_nr[c[n]] = k}
<1>1. PICK f, g : Ring(queues, f, g) /\ Hash(queues, g, b_block_nr)
  BY DEF Queued
<1>2. h \in Chains /\ Links(queues)
  BY Sizes DEF Queued
<1>3. c \in [Positions -> Bufs \cup {Nil}]
  BY <1>2, ChainIsWalk
<1>4. findBuffer(k) = IF at = {} THEN Nil ELSE c[First(at)]
  BY DEF findBuffer
<1>5. at \subseteq Nat /\ at \subseteq Positions
  <2>1. DOMAIN c = Positions /\ Positions \subseteq Nat
    BY <1>3 DEF Positions
  <2> HIDE DEF c
  <2> QED
    BY <2>1
<1>6. at = {} => \A b \in Bufs : b_block_nr[b] # k
  <2>1. SUFFICES ASSUME at = {}, NEW b \in Bufs, b_block_nr[b] = k PROVE FALSE
    OBVIOUS
  <2>2. InChain(b_block_nr, h, b)
    BY <2>1, Sizes DEF InChain
  <2>3. PICK n \in Positions : c[n] = b
    BY <1>1, <1>2, <2>2, ChainReaches
  <2>4. n \in at
    BY <1>3, <2>1, <2>3, Sizes
  <2> QED
    BY <2>1, <2>4
<1> HIDE DEF c, h
<1>7. at # {} => First(at) \in at
  BY <1>5, FirstIsLeast
<1>8. CASE at = {}
  BY <1>4, <1>6, <1>8
<1>9. CASE at # {}
  <2>1. findBuffer(k) = c[First(at)] /\ First(at) \in at
    BY <1>4, <1>7, <1>9
  <2> HIDE DEF at
  <2>2. c[First(at)] \in Bufs /\ b_block_nr[c[First(at)]] = k
    BY <1>3, <1>5, <2>1 DEF at
  <2> QED
    BY <2>1, <2>2, Sizes
<1> QED
  BY <1>8, <1>9

\* The search of the free list misses no unused buffer and takes no other one.
LEMMA UnusedTaken ==
  ASSUME Queued(queues, b_block_nr),
         b_dirt \in [Bufs -> BOOLEAN], b_lock \in [Bufs -> BOOLEAN]
  PROVE  /\ Unused = {} => \A b \in Bufs : b_count[b] # 0
         /\ Unused # {} => FreeList[Best] \in Bufs /\ b_count[FreeList[Best]] = 0
<1>1. PICK f, g : Ring(queues, f, g)
  BY DEF Queued
<1>2. FreeList = f
  BY <1>1, FreeListIsRing DEF Queued
<1>3. Unused = {n \in Positions : b_count[f[n]] = 0}
  BY <1>2 DEF Unused, Positions
<1>4. Unused = {} => \A b \in Bufs : b_count[b] # 0
  BY <1>1, <1>3 DEF Ring
<1>5. ASSUME Unused # {}
      PROVE  FreeList[Best] \in Bufs /\ b_count[FreeList[Best]] = 0
  <2> DEFINE bad(n) == BADNESS(f[n])
             Values == {bad(n) : n \in Unused}
             Least == {n \in Unused : \A m \in Unused : bad(n) <= bad(m)}
  <2>1. \A n \in Positions : bad(n) \in Nat
    BY <1>1 DEF Ring, BADNESS
  <2> HIDE DEF bad
  <2>2. Values \subseteq Nat /\ Values # {}
    BY <1>3, <1>5, <2>1
  <2>3. PICK v \in Values : \A w \in Values : v <= w
    BY <2>2, FirstIsLeast
  <2>4. Least # {} /\ Least \subseteq Nat
    BY <1>3, <2>3 DEF Positions
  <2>5. Best = First(Least)
    BY <1>2 DEF Best, bad
  <2> HIDE DEF Least
  <2>6. Best \in Least
    BY <2>4, <2>5, FirstIsLeast
  <2>7. Best \in Unused
    BY <2>6 DEF Least
  <2> QED
    BY <1>1, <1>2, <1>3, <2>7 DEF Ring
<1> QED
  BY <1>4, <1>5

\* The queues are whole.
LEMMA QueuedIntact ==
  ASSUME Queued(queues, b_block_nr)
  PROVE  Whole
<1>1. PICK f, g : Ring(queues, f, g) /\ Hash(queues, g, b_block_nr)
  BY DEF Queued
<1>2. Links(queues) /\ FreeList = f
  BY <1>1, FreeListIsRing DEF Queued
<1>3. {FreeList[n] : n \in DOMAIN FreeList} = Bufs
  BY <1>1, <1>2 DEF Ring
<1>4. ASSUME NEW b \in Bufs
      PROVE  queues.prev_free[queues.next_free[b]] = b
  BY <1>1 DEF Ring
<1>5. ASSUME NEW h \in Chains
      PROVE  LET c == Chain(h)
             IN  /\ {c[n] : n \in DOMAIN c} \ {Nil}
                      = {b \in Bufs : b_block_nr[b] # Nil /\ HashFn[b_block_nr[b]] = h}
                 /\ \A n \in DOMAIN c : c[n] # Nil =>
                      queues.prev[c[n]] = IF n = 0 THEN Nil ELSE c[n - 1]
  <2> DEFINE c == Chain(h)
  <2>1. c \in [Positions -> Bufs \cup {Nil}]
    BY <1>2, ChainIsWalk
  <2>2. \A n \in Positions : c[n] # Nil =>
          /\ InChain(b_block_nr, h, c[n])
          /\ queues.prev[c[n]] = IF n = 0 THEN Nil ELSE c[n - 1]
    BY <1>1, <1>2, ChainStays
  <2>3. \A b \in Bufs : InChain(b_block_nr, h, b) => \E n \in Positions : c[n] = b
    BY <1>1, <1>2, ChainReaches
  <2> HIDE DEF c
  <2>4. {c[n] : n \in DOMAIN c} \ {Nil}
          = {b \in Bufs : b_block_nr[b] # Nil /\ HashFn[b_block_nr[b]] = h}
    BY <2>1, <2>2, <2>3, Sizes DEF InChain
  <2> QED
    BY <2>1, <2>2, <2>4 DEF c
<1> QED
  BY <1>3, <1>4, <1>5 DEF Whole

\* What becomes of the links when b is taken out and when it is put in.
TakenOut(q, r, b) ==
  /\ Links(r)
  /\ r.prev = IF q.next[b] = Nil THEN q.prev ELSE [q.prev EXCEPT ![q.next[b]] = q.prev[b]]
  /\ r.next = IF q.prev[b] = Nil THEN q.next ELSE [q.next EXCEPT ![q.prev[b]] = q.next[b]]
  /\ r.hash = [h \in Chains |-> IF InChain(b_block_nr, h, b) /\ q.hash[h] = b
                                  THEN q.next[b] ELSE q.hash[h]]
  /\ r.next_free = [q.next_free EXCEPT ![q.prev_free[b]] = q.next_free[b]]
  /\ r.prev_free = [q.prev_free EXCEPT ![q.next_free[b]] = q.prev_free[b]]
  /\ r.free = IF q.free = b THEN q.next_free[b] ELSE q.free

PutIn(q, r, b, k) ==
  LET first == q.hash[HashFn[k]]
      last  == q.prev_free[q.free]
  IN  /\ Links(r)
      /\ r.prev = IF first = Nil THEN [q.prev EXCEPT ![b] = Nil]
                  ELSE [q.prev EXCEPT ![b] = Nil, ![first] = b]
      /\ r.next = [q.next EXCEPT ![b] = first]
      /\ r.hash = [q.hash EXCEPT ![HashFn[k]] = b]
      /\ r.next_free = [q.next_free EXCEPT ![b] = q.free, ![last] = b]
      /\ r.prev_free = [q.prev_free EXCEPT ![b] = last, ![q.free] = b]
      /\ r.free = q.free

\* removeFromQueues takes a buffer out of both queues and changes no other link.
LEMMA Removed ==
  ASSUME NEW q, Links(q), NEW b \in Bufs, b_block_nr \in [Bufs -> Blocks \cup {Nil}]
  PROVE  TakenOut(q, removeFromQueues(q, b), b)
<1> DEFINE k == b_block_nr[b]
           prev == Point(q.prev, q.next[b], q.prev[b])
           next == Point(q.next, q.prev[b], q.next[b])
           hash == IF k # Nil /\ q.hash[HashFn[k]] = b
                     THEN [q.hash EXCEPT ![HashFn[k]] = q.next[b]] ELSE q.hash
           next_free == [q.next_free EXCEPT ![q.prev_free[b]] = q.next_free[b]]
           prev_free == [q.prev_free EXCEPT ![q.next_free[b]] = q.prev_free[b]]
           free == IF q.free = b THEN q.next_free[b] ELSE q.free
           r == removeFromQueues(q, b)
<1>1. r = [hash |-> hash, next |-> next, prev |-> prev, free |-> free,
           next_free |-> next_free, prev_free |-> prev_free]
  BY DEF removeFromQueues, Links
<1>2. /\ q.hash \in [Chains -> Bufs \cup {Nil}]
      /\ q.next \in [Bufs -> Bufs \cup {Nil}] /\ q.prev \in [Bufs -> Bufs \cup {Nil}]
      /\ q.free \in Bufs
      /\ q.next_free \in [Bufs -> Bufs] /\ q.prev_free \in [Bufs -> Bufs]
  BY DEF Links
<1>3. next \in [Bufs -> Bufs \cup {Nil}] /\ prev \in [Bufs -> Bufs \cup {Nil}]
  BY <1>2 DEF Point
<1>4. free \in Bufs /\ next_free \in [Bufs -> Bufs] /\ prev_free \in [Bufs -> Bufs]
  BY <1>2
<1>5. hash = [h \in Chains |-> IF InChain(b_block_nr, h, b) /\ q.hash[h] = b
                                 THEN q.next[b] ELSE q.hash[h]]
  BY <1>2, Sizes DEF InChain
<1>6. hash \in [Chains -> Bufs \cup {Nil}]
  BY <1>2, <1>5
<1>7. /\ prev = IF q.next[b] = Nil THEN q.prev ELSE [q.prev EXCEPT ![q.next[b]] = q.prev[b]]
      /\ next = IF q.prev[b] = Nil THEN q.next ELSE [q.next EXCEPT ![q.prev[b]] = q.next[b]]
  BY DEF Point
<1> HIDE DEF hash, next, prev, free, next_free, prev_free
<1>8. Links(r)
  BY <1>1, <1>3, <1>4, <1>6 DEF Links
<1> QED
  BY <1>1, <1>5, <1>7, <1>8 DEF TakenOut, free, next_free, prev_free

\* insertIntoQueues puts a buffer at the end of the free list and first in its chain.
LEMMA Inserted ==
  ASSUME NEW q, Links(q), NEW b \in Bufs, NEW k \in Blocks
  PROVE  PutIn(q, insertIntoQueues(q, b, k), b, k)
<1> DEFINE first == q.hash[HashFn[k]]
           last == q.prev_free[q.free]
           prev == Point([q.prev EXCEPT ![b] = Nil], first, b)
           next == [q.next EXCEPT ![b] = first]
           hash == [q.hash EXCEPT ![HashFn[k]] = b]
           next_free == [q.next_free EXCEPT ![b] = q.free, ![last] = b]
           prev_free == [q.prev_free EXCEPT ![b] = last, ![q.free] = b]
           r == insertIntoQueues(q, b, k)
<1>1. r = [hash |-> hash, next |-> next, prev |-> prev, free |-> q.free,
           next_free |-> next_free, prev_free |-> prev_free]
  BY DEF insertIntoQueues, Links
<1>2. /\ q.hash \in [Chains -> Bufs \cup {Nil}]
      /\ q.next \in [Bufs -> Bufs \cup {Nil}] /\ q.prev \in [Bufs -> Bufs \cup {Nil}]
      /\ q.free \in Bufs
      /\ q.next_free \in [Bufs -> Bufs] /\ q.prev_free \in [Bufs -> Bufs]
  BY DEF Links
<1>3. HashFn[k] \in Chains
  BY Sizes
<1>4. next \in [Bufs -> Bufs \cup {Nil}] /\ prev \in [Bufs -> Bufs \cup {Nil}]
  BY <1>2, <1>3 DEF Point
<1>5. next_free \in [Bufs -> Bufs] /\ prev_free \in [Bufs -> Bufs]
  BY <1>2
<1>6. hash \in [Chains -> Bufs \cup {Nil}]
  BY <1>2, <1>3
<1>7. prev = IF first = Nil THEN [q.prev EXCEPT ![b] = Nil]
             ELSE [q.prev EXCEPT ![b] = Nil, ![first] = b]
  BY DEF Point
<1> HIDE DEF hash, next, prev, next_free, prev_free
<1>8. Links(r)
  BY <1>1, <1>2, <1>4, <1>5, <1>6 DEF Links
<1> QED
  BY <1>1, <1>7, <1>8 DEF PutIn, hash, next, next_free, prev_free

\* The ring once b has moved to its end: f and g follow.
MovedTo(f, g, b) ==
  [n \in Positions |-> IF n < g[b] THEN f[n]
                       ELSE IF n < NR_BUFFERS - 1 THEN f[n + 1] ELSE b]
MovedFrom(g, b) ==
  [c \in Bufs |-> IF c = b THEN NR_BUFFERS - 1 ELSE IF g[c] < g[b] THEN g[c] ELSE g[c] - 1]

\* A numbering of the free list is one again when a buffer has moved to its end, and the
\* others keep their order.
LEMMA MovedPlaces ==
  ASSUME NEW f \in [Positions -> Bufs], NEW g \in [Bufs -> Positions], NEW b \in Bufs,
         \A n \in Positions : g[f[n]] = n, \A c \in Bufs : f[g[c]] = c
  PROVE  LET f2 == MovedTo(f, g, b)
             g2 == MovedFrom(g, b)
         IN  /\ f2 \in [Positions -> Bufs] /\ g2 \in [Bufs -> Positions]
             /\ \A n \in Positions : g2[f2[n]] = n
             /\ \A c \in Bufs : f2[g2[c]] = c
             /\ \A c, d \in Bufs \ {b} : g2[c] < g2[d] <=> g[c] < g[d]
             /\ \A c \in Bufs \ {b} : g2[c] < g2[b]
<1> DEFINE N == NR_BUFFERS - 1
           f2 == MovedTo(f, g, b)
           g2 == MovedFrom(g, b)
<1>1. Positions = 0 .. N /\ N \in Nat /\ N >= 1
  BY Sizes DEF Positions
<1> HIDE DEF N
<1>2. g[b] \in 0 .. N /\ f[g[b]] = b
  BY <1>1
<1>3. f2 = [n \in 0 .. N |-> IF n < g[b] THEN f[n] ELSE IF n < N THEN f[n + 1] ELSE b]
  BY <1>1 DEF MovedTo, N
<1>4. g2 = [c \in Bufs |-> IF c = b THEN N ELSE IF g[c] < g[b] THEN g[c] ELSE g[c] - 1]
  BY DEF MovedFrom, N
<1>5. \A c, d \in Bufs : g[c] = g[d] => c = d
  OBVIOUS
<1> HIDE DEF f2, g2
<1>6. \A n \in 0 .. N : f2[n] \in Bufs /\ g2[f2[n]] = n
  <2> SUFFICES ASSUME NEW n \in 0 .. N PROVE f2[n] \in Bufs /\ g2[f2[n]] = n
    OBVIOUS
  <2>1. CASE n < g[b]
    <3>1. f2[n] = f[n] /\ f[n] \in Bufs /\ g[f[n]] = n
      BY <1>1, <1>3, <2>1
    <3> QED
      BY <1>4, <2>1, <3>1
  <2>2. CASE ~(n < g[b]) /\ n < N
    <3>1. n + 1 \in 0 .. N
      BY <1>1, <2>2
    <3>2. f2[n] = f[n + 1] /\ f[n + 1] \in Bufs /\ g[f[n + 1]] = n + 1
      BY <1>1, <1>3, <2>2, <3>1
    <3>3. n + 1 # g[b] /\ ~(n + 1 < g[b])
      BY <1>2, <2>2
    <3> QED
      BY <1>2, <1>4, <2>2, <3>2, <3>3
  <2>3. CASE n = N
    BY <1>2, <1>3, <1>4, <2>3
  <2> QED
    BY <1>1, <2>1, <2>2, <2>3
<1>7. \A c \in Bufs : g2[c] \in 0 .. N /\ f2[g2[c]] = c
  <2> SUFFICES ASSUME NEW c \in Bufs PROVE g2[c] \in 0 .. N /\ f2[g2[c]] = c
    OBVIOUS
  <2>1. g[c] \in 0 .. N /\ f[g[c]] = c
    BY <1>1
  <2>2. CASE c = b
    BY <1>1, <1>2, <1>3, <1>4, <2>2
  <2>3. CASE c # b /\ g[c] < g[b]
    BY <1>3, <1>4, <2>1, <2>3
  <2>4. CASE c # b /\ ~(g[c] < g[b])
    <3>1. g[c] > g[b] /\ g2[c] = g[c] - 1
      BY <1>2, <1>4, <1>5, <2>1, <2>4
    <3>2. g2[c] \in 0 .. N /\ ~(g2[c] < g[b]) /\ g2[c] < N /\ g2[c] + 1 = g[c]
      BY <1>1, <1>2, <2>1, <3>1
    <3> QED
      BY <1>3, <2>1, <3>2
  <2> QED
    BY <2>2, <2>3, <2>4
<1>8. \A c, d \in Bufs \ {b} : g2[c] < g2[d] <=> g[c] < g[d]
  <2> SUFFICES ASSUME NEW c \in Bufs \ {b}, NEW d \in Bufs \ {b}
               PROVE  g2[c] < g2[d] <=> g[c] < g[d]
    OBVIOUS
  <2>1. g[c] \in 0 .. N /\ g[d] \in 0 .. N /\ g[c] # g[b] /\ g[d] # g[b]
    BY <1>1, <1>5
  <2> QED
    BY <1>2, <1>4, <2>1
<1>9. \A c \in Bufs \ {b} : g2[c] < g2[b]
  <2> SUFFICES ASSUME NEW c \in Bufs \ {b} PROVE g2[c] < g2[b]
    OBVIOUS
  <2>1. g[c] \in 0 .. N /\ g[c] # g[b]
    BY <1>1, <1>5
  <2> QED
    BY <1>1, <1>2, <1>4, <2>1
<1>10. f2 \in [Positions -> Bufs] /\ g2 \in [Bufs -> Positions]
  BY <1>1, <1>3, <1>4, <1>6, <1>7
<1> QED
  BY <1>1, <1>6, <1>7, <1>8, <1>9, <1>10 DEF f2, g2

\* getblk moves the buffer it takes to the end of the free list.
LEMMA RingMoves ==
  ASSUME NEW q, NEW q1, NEW q2, NEW f, NEW g, NEW b \in Bufs, NEW k \in Blocks,
         Links(q), Ring(q, f, g), TakenOut(q, q1, b), PutIn(q1, q2, b, k)
  PROVE  Ring(q2, MovedTo(f, g, b), MovedFrom(g, b))
<1> DEFINE N == NR_BUFFERS - 1
           f2 == MovedTo(f, g, b)
           g2 == MovedFrom(g, b)
           last == q1.prev_free[q1.free]
           i == g[b]
<1>1. Positions = 0 .. N /\ N \in Nat /\ N >= 1
  BY Sizes DEF Positions
<1>2. \A n \in 0 .. N : After(n) = IF n = N THEN 0 ELSE n + 1
  BY DEF After
<1> HIDE DEF N
<1>3. /\ f \in [0 .. N -> Bufs] /\ g \in [Bufs -> 0 .. N]
      /\ \A n \in 0 .. N : g[f[n]] = n
      /\ \A c \in Bufs : f[g[c]] = c
      /\ q.free = f[0]
      /\ \A n \in 0 .. N : n # N => q.next_free[f[n]] = f[n + 1] /\ q.prev_free[f[n + 1]] = f[n]
      /\ q.next_free[f[N]] = f[0] /\ q.prev_free[f[0]] = f[N]
  BY <1>1, <1>2 DEF Ring
<1>4. /\ q1.next_free = [q.next_free EXCEPT ![q.prev_free[b]] = q.next_free[b]]
      /\ q1.prev_free = [q.prev_free EXCEPT ![q.next_free[b]] = q.prev_free[b]]
      /\ q1.free = IF q.free = b THEN q.next_free[b] ELSE q.free
      /\ Links(q1)
  BY DEF TakenOut
<1>5. /\ q2.next_free = [q1.next_free EXCEPT ![b] = q1.free, ![last] = b]
      /\ q2.prev_free = [q1.prev_free EXCEPT ![b] = last, ![q1.free] = b]
      /\ q2.free = q1.free
  BY DEF PutIn
<1>6. /\ q.next_free \in [Bufs -> Bufs] /\ q.prev_free \in [Bufs -> Bufs]
      /\ q1.next_free \in [Bufs -> Bufs] /\ q1.prev_free \in [Bufs -> Bufs]
      /\ q1.free \in Bufs
  BY <1>4 DEF Links
<1>7. /\ f2 \in [0 .. N -> Bufs] /\ g2 \in [Bufs -> 0 .. N]
      /\ \A n \in 0 .. N : g2[f2[n]] = n
      /\ \A c \in Bufs : f2[g2[c]] = c
  <2>1. /\ f \in [Positions -> Bufs] /\ g \in [Bufs -> Positions]
        /\ \A n \in Positions : g[f[n]] = n
        /\ \A c \in Bufs : f[g[c]] = c
    BY DEF Ring
  <2>2. /\ f2 \in [Positions -> Bufs] /\ g2 \in [Bufs -> Positions]
        /\ \A n \in Positions : g2[f2[n]] = n
        /\ \A c \in Bufs : f2[g2[c]] = c
    BY <2>1, MovedPlaces, ZenonT(60)
  <2> QED
    BY <1>1, <2>2
<1>8. f2 = [n \in 0 .. N |-> IF n < i THEN f[n] ELSE IF n < N THEN f[n + 1] ELSE b]
  BY <1>1 DEF MovedTo, N
<1>9. i \in 0 .. N /\ f[i] = b
  BY <1>3
<1> HIDE DEF f2, g2, i
\* The neighbours of b.
<1>10. /\ q.next_free[b] = IF i = N THEN f[0] ELSE f[i + 1]
       /\ q.prev_free[b] = IF i = 0 THEN f[N] ELSE f[i - 1]
  <2>1. i # 0 => i - 1 \in 0 .. N /\ i - 1 # N /\ (i - 1) + 1 = i
    BY <1>1, <1>9
  <2> QED
    BY <1>1, <1>3, <1>9, <2>1
<1>11. \A m, n \in 0 .. N : f[m] = f[n] => m = n
  BY <1>3
<1>12. q1.free = f2[0] /\ q2.free = f2[0]
  <2>1. 0 \in 0 .. N /\ 0 < N /\ (f[0] = b <=> i = 0)
    BY <1>1, <1>9, <1>11
  <2> QED
    BY <1>1, <1>3, <1>4, <1>5, <1>8, <1>9, <1>10, <2>1
\* The last of the others.
<1>13. last = f2[N - 1] /\ N - 1 \in 0 .. N
  <2>1. N - 1 \in 0 .. N /\ N - 1 < N /\ (N - 1) + 1 = N /\ 0 \in 0 .. N /\ N \in 0 .. N
    BY <1>1
  <2>2. CASE i = 0
    <3>1. q1.free = f[1] /\ q.next_free[b] = f[1] /\ f[1] \in Bufs /\ q.prev_free[b] = f[N]
      BY <1>1, <1>3, <1>4, <1>9, <1>10, <2>2
    <3> QED
      BY <1>4, <1>6, <1>8, <2>1, <2>2, <3>1
  <2>3. CASE i = N
    <3>1. q1.free = f[0] /\ q.next_free[b] = f[0] /\ q.prev_free[b] = f[N - 1] /\ f[0] \in Bufs
      BY <1>1, <1>3, <1>4, <1>9, <1>10, <1>11, <2>1, <2>3
    <3> QED
      BY <1>4, <1>6, <1>8, <2>1, <2>3, <3>1
  <2>4. CASE i # 0 /\ i # N
    <3>1. q1.free = f[0] /\ q.next_free[b] = f[i + 1] /\ f[i + 1] # f[0] /\ f[0] \in Bufs
      BY <1>1, <1>3, <1>4, <1>9, <1>10, <1>11, <2>1, <2>4
    <3>2. last = q.prev_free[f[0]]
      BY <1>4, <1>6, <3>1
    <3> QED
      BY <1>3, <1>8, <1>9, <2>1, <2>4, <3>2
  <2> QED
    BY <2>1, <2>2, <2>3, <2>4
<1>14. \A m, n \in 0 .. N : f2[m] = f2[n] => m = n
  BY <1>7
<1>15. f2[N] = b
  BY <1>1, <1>8, <1>9
\* Between two others in succession nothing lies but b.
<1>16. \A n \in 0 .. N - 2 : /\ q1.next_free[f2[n]] = f2[n + 1]
                             /\ q1.prev_free[f2[n + 1]] = f2[n]
  <2> SUFFICES ASSUME NEW n \in 0 .. N - 2
               PROVE  q1.next_free[f2[n]] = f2[n + 1] /\ q1.prev_free[f2[n + 1]] = f2[n]
    OBVIOUS
  <2>1. /\ n \in 0 .. N /\ n + 1 \in 0 .. N /\ n + 2 \in 0 .. N /\ n # N /\ n + 1 # N
        /\ (n + 1) + 1 = n + 2 /\ n < N /\ n + 1 < N
    BY <1>1
  <2>2. CASE n + 1 < i
    <3>1. f2[n] = f[n] /\ f2[n + 1] = f[n + 1]
      BY <1>8, <1>9, <2>1, <2>2
    <3>2. q.prev_free[b] = f[i - 1] /\ f[i - 1] # f[n]
      BY <1>1, <1>9, <1>10, <1>11, <2>1, <2>2
    <3>3. q.next_free[b] # f[n + 1]
      BY <1>1, <1>9, <1>10, <1>11, <2>1, <2>2
    <3>4. f[n] \in Bufs /\ f[n + 1] \in Bufs
      BY <1>3, <2>1
    <3> QED
      BY <1>3, <1>4, <1>6, <2>1, <3>1, <3>2, <3>3, <3>4
  <2>3. CASE n + 1 = i
    <3>1. f2[n] = f[n] /\ f2[n + 1] = f[n + 2] /\ i = n + 1
      BY <1>8, <1>9, <2>1, <2>3
    <3>2. q.prev_free[b] = f[n] /\ q.next_free[b] = f[n + 2]
      BY <1>1, <1>9, <1>10, <2>1, <2>3
    <3>3. f[n] \in Bufs /\ f[n + 2] \in Bufs
      BY <1>3, <2>1
    <3> QED
      BY <1>4, <1>6, <3>1, <3>2, <3>3
  <2>4. CASE n + 1 > i
    <3>1. f2[n] = f[n + 1] /\ f2[n + 1] = f[n + 2]
      BY <1>8, <1>9, <2>1, <2>4
    <3>2. q.prev_free[b] # f[n + 1]
      BY <1>1, <1>9, <1>10, <1>11, <2>1, <2>4
    <3>3. q.next_free[b] # f[n + 2]
      BY <1>1, <1>9, <1>10, <1>11, <2>1, <2>4
    <3>4. /\ f[n + 1] \in Bufs /\ f[n + 2] \in Bufs
          /\ q.next_free[f[n + 1]] = f[n + 2] /\ q.prev_free[f[n + 2]] = f[n + 1]
      BY <1>3, <2>1
    <3> QED
      BY <1>4, <1>6, <3>1, <3>2, <3>3, <3>4
  <2> QED
    BY <1>9, <2>1, <2>2, <2>3, <2>4
<1>17. \A n \in 0 .. N : /\ q2.next_free[f2[n]] = f2[IF n = N THEN 0 ELSE n + 1]
                         /\ q2.prev_free[f2[IF n = N THEN 0 ELSE n + 1]] = f2[n]
  <2> SUFFICES ASSUME NEW n \in 0 .. N
               PROVE  /\ q2.next_free[f2[n]] = f2[IF n = N THEN 0 ELSE n + 1]
                      /\ q2.prev_free[f2[IF n = N THEN 0 ELSE n + 1]] = f2[n]
    OBVIOUS
  <2>1. /\ f2[0] \in Bufs /\ f2[N] \in Bufs /\ f2[N - 1] \in Bufs
        /\ f2[0] # b /\ f2[N - 1] # b
    BY <1>1, <1>7, <1>13, <1>14, <1>15
  <2>2. CASE n = N
    BY <1>5, <1>6, <1>12, <1>13, <1>15, <2>1, <2>2
  <2>3. CASE n = N - 1
    <3>1. n # N /\ n + 1 = N
      BY <1>1, <2>3
    <3> QED
      BY <1>5, <1>6, <1>12, <1>13, <1>15, <2>1, <2>3, <3>1
  <2>4. CASE n \in 0 .. N - 2
    <3>1. n # N /\ n + 1 \in 0 .. N /\ n + 1 # N /\ n # N - 1 /\ n + 1 # 0
      BY <1>1, <2>4
    <3>2. /\ f2[n] \in Bufs /\ f2[n + 1] \in Bufs
          /\ f2[n] # b /\ f2[n] # last /\ f2[n + 1] # b /\ f2[n + 1] # q1.free
      BY <1>1, <1>7, <1>12, <1>13, <1>14, <1>15, <3>1
    <3> QED
      BY <1>5, <1>6, <1>16, <2>4, <3>1, <3>2
  <2> QED
    BY <1>1, <2>2, <2>3, <2>4
<1>18. \A n \in Positions : /\ q2.next_free[f2[n]] = f2[After(n)]
                           /\ q2.prev_free[f2[After(n)]] = f2[n]
  BY <1>1, <1>2, <1>17
<1>19. Ring(q2, f2, g2)
  BY <1>1, <1>7, <1>12, <1>18 DEF Ring
<1> QED
  BY <1>19 DEF f2, g2

\* The chains of the buffers other than b, and nothing that leads to b.
HashWithout(q, g, blk, b) ==
  LET Others == Bufs \ {b}
  IN  /\ \A c \in Others : q.next[c] # b /\ q.prev[c] # b
      /\ \A c \in Others : blk[c] = Nil => q.next[c] = Nil /\ q.prev[c] = Nil
      /\ \A c, d \in Others : q.next[c] = d <=> q.prev[d] = c
      /\ \A c, d \in Others : q.next[c] = d => /\ blk[d] # Nil /\ g[d] < g[c]
                                              /\ HashFn[blk[c]] = HashFn[blk[d]]
      /\ \A h \in Chains : q.hash[h] # b
      /\ \A h \in Chains, c \in Others :
           q.hash[h] = c <=> InChain(blk, h, c) /\ q.prev[c] = Nil

\* After removeFromQueues the chains are those of the other buffers.
LEMMA HashTakenOut ==
  ASSUME NEW q, NEW r, NEW g \in [Bufs -> Positions], NEW b \in Bufs,
         Links(q), Hash(q, g, b_block_nr), TakenOut(q, r, b)
  PROVE  HashWithout(r, g, b_block_nr, b)
<1> DEFINE pb == q.prev[b]
           nb == q.next[b]
           blk == b_block_nr
           Others == Bufs \ {b}
<1>1. /\ \A c \in Bufs : blk[c] = Nil => q.next[c] = Nil /\ q.prev[c] = Nil
      /\ \A c, d \in Bufs : q.next[c] = d <=> q.prev[d] = c
      /\ \A c, d \in Bufs : q.next[c] = d => /\ blk[d] # Nil /\ g[d] < g[c]
                                            /\ HashFn[blk[c]] = HashFn[blk[d]]
      /\ \A h \in Chains, c \in Bufs : q.hash[h] = c <=> InChain(blk, h, c) /\ q.prev[c] = Nil
  BY DEF Hash
<1>2. /\ q.hash \in [Chains -> Bufs \cup {Nil}]
      /\ q.next \in [Bufs -> Bufs \cup {Nil}] /\ q.prev \in [Bufs -> Bufs \cup {Nil}]
  BY DEF Links
<1>3. Nil \notin Bufs /\ \A c \in Bufs : g[c] \in Nat
  BY Sizes DEF Positions
<1>4. pb \in Others \cup {Nil} /\ nb \in Others \cup {Nil}
  BY <1>1, <1>2, <1>3
<1>5. pb # Nil => pb # nb
  BY <1>1, <1>3, <1>4
<1>6. /\ \A c \in Bufs : r.next[c] = IF c = pb THEN nb ELSE q.next[c]
      /\ \A c \in Bufs : r.prev[c] = IF c = nb THEN pb ELSE q.prev[c]
      /\ \A h \in Chains : r.hash[h] = IF InChain(blk, h, b) /\ q.hash[h] = b
                                         THEN nb ELSE q.hash[h]
  <2>1. /\ r.prev = IF nb = Nil THEN q.prev ELSE [q.prev EXCEPT ![nb] = pb]
        /\ r.next = IF pb = Nil THEN q.next ELSE [q.next EXCEPT ![pb] = nb]
        /\ r.hash = [h \in Chains |-> IF InChain(blk, h, b) /\ q.hash[h] = b
                                        THEN nb ELSE q.hash[h]]
    BY DEF TakenOut
  <2> QED
    BY <1>2, <1>3, <1>4, <2>1
<1>7. /\ nb # Nil => /\ q.prev[nb] = b /\ blk[nb] # Nil /\ blk[b] # Nil /\ g[nb] < g[b]
                     /\ HashFn[blk[nb]] = HashFn[blk[b]]
      /\ pb # Nil => /\ q.next[pb] = b /\ blk[pb] # Nil /\ blk[b] # Nil /\ g[b] < g[pb]
                     /\ HashFn[blk[pb]] = HashFn[blk[b]]
  BY <1>1, <1>3, <1>4
<1>8. /\ \A c \in Others : q.next[c] = b <=> c = pb
      /\ \A c \in Others : q.prev[c] = b <=> c = nb
  BY <1>1, <1>4
<1> HIDE DEF pb, nb
<1>9. \A c \in Others : r.next[c] # b /\ r.prev[c] # b
  BY <1>3, <1>4, <1>6, <1>8
<1>10. \A c \in Others : blk[c] = Nil => r.next[c] = Nil /\ r.prev[c] = Nil
  BY <1>1, <1>3, <1>4, <1>6, <1>7
<1>11. \A c, d \in Others : r.next[c] = d <=> r.prev[d] = c
  BY <1>1, <1>3, <1>4, <1>5, <1>6, <1>7, <1>8
<1>12. \A c, d \in Others : r.next[c] = d => /\ blk[d] # Nil /\ g[d] < g[c]
                                            /\ HashFn[blk[c]] = HashFn[blk[d]]
  BY <1>1, <1>3, <1>4, <1>6, <1>7
<1>13. \A h \in Chains : r.hash[h] # b
  BY <1>1, <1>3, <1>4, <1>6
<1>14. ASSUME NEW h \in Chains, NEW c \in Others
       PROVE  r.hash[h] = c <=> InChain(blk, h, c) /\ r.prev[c] = Nil
  <2>1. q.hash[h] = b <=> InChain(blk, h, b) /\ pb = Nil
    BY <1>1 DEF pb
  <2>2. q.hash[h] = c <=> InChain(blk, h, c) /\ q.prev[c] = Nil
    BY <1>1
  <2>3. CASE c = nb
    <3>1. InChain(blk, h, c) <=> InChain(blk, h, b)
      BY <1>3, <1>7, <2>3 DEF InChain
    <3>2. q.prev[c] = b /\ r.prev[c] = pb
      BY <1>3, <1>6, <1>7, <2>3
    <3> QED
      BY <1>3, <1>6, <2>1, <2>2, <2>3, <3>1, <3>2
  <2>4. CASE c # nb
    <3>1. r.prev[c] = q.prev[c]
      BY <1>6, <2>4
    <3> QED
      BY <1>6, <2>1, <2>2, <2>4, <3>1
  <2> QED
    BY <2>3, <2>4
<1> QED
  BY <1>9, <1>10, <1>11, <1>12, <1>13, <1>14 DEF HashWithout

\* After insertIntoQueues the chains are those of all buffers, with the new block.
LEMMA HashPutIn ==
  ASSUME NEW q, NEW r, NEW g \in [Bufs -> Positions], NEW g2 \in [Bufs -> Positions],
         NEW b \in Bufs, NEW k \in Blocks,
         Links(q), PutIn(q, r, b, k), HashWithout(q, g, b_block_nr, b),
         b_block_nr \in [Bufs -> Blocks \cup {Nil}],
         \A c, d \in Bufs \ {b} : g2[c] < g2[d] <=> g[c] < g[d],
         \A c \in Bufs \ {b} : g2[c] < g2[b]
  PROVE  Hash(r, g2, [b_block_nr EXCEPT ![b] = k])
<1> DEFINE first == q.hash[HashFn[k]]
           blk == b_block_nr
           blk2 == [b_block_nr EXCEPT ![b] = k]
           Others == Bufs \ {b}
<1>1. /\ \A c \in Others : q.next[c] # b /\ q.prev[c] # b
      /\ \A c \in Others : blk[c] = Nil => q.next[c] = Nil /\ q.prev[c] = Nil
      /\ \A c, d \in Others : q.next[c] = d <=> q.prev[d] = c
      /\ \A c, d \in Others : q.next[c] = d => /\ blk[d] # Nil /\ g[d] < g[c]
                                              /\ HashFn[blk[c]] = HashFn[blk[d]]
      /\ \A h \in Chains : q.hash[h] # b
      /\ \A h \in Chains, c \in Others :
           q.hash[h] = c <=> InChain(blk, h, c) /\ q.prev[c] = Nil
  BY DEF HashWithout
<1>2. /\ q.hash \in [Chains -> Bufs \cup {Nil}]
      /\ q.next \in [Bufs -> Bufs \cup {Nil}] /\ q.prev \in [Bufs -> Bufs \cup {Nil}]
  BY DEF Links
<1>3. Nil \notin Bufs /\ k # Nil /\ HashFn[k] \in Chains
  BY Sizes
<1>4. first \in Others \cup {Nil}
  BY <1>1, <1>2, <1>3
<1>5. blk2[b] = k /\ \A c \in Others : blk2[c] = blk[c]
  OBVIOUS
<1>6. /\ r.next[b] = first /\ \A c \in Others : r.next[c] = q.next[c]
      /\ r.prev[b] = Nil
      /\ \A c \in Others : r.prev[c] = IF c = first THEN b ELSE q.prev[c]
      /\ \A h \in Chains : r.hash[h] = IF h = HashFn[k] THEN b ELSE q.hash[h]
  <2>1. /\ r.prev = IF first = Nil THEN [q.prev EXCEPT ![b] = Nil]
                    ELSE [q.prev EXCEPT ![b] = Nil, ![first] = b]
        /\ r.next = [q.next EXCEPT ![b] = first]
        /\ r.hash = [q.hash EXCEPT ![HashFn[k]] = b]
    BY DEF PutIn
  <2> QED
    BY <1>2, <1>3, <1>4, <2>1
<1>7. first # Nil => InChain(blk, HashFn[k], first) /\ q.prev[first] = Nil
  BY <1>1, <1>3, <1>4
<1> HIDE DEF first, blk2
<1>8. \A c \in Bufs : blk2[c] = Nil => r.next[c] = Nil /\ r.prev[c] = Nil
  BY <1>1, <1>3, <1>4, <1>5, <1>6, <1>7 DEF InChain
<1>9. ASSUME NEW c \in Bufs, NEW d \in Bufs
      PROVE  r.next[c] = d <=> r.prev[d] = c
  <2>1. CASE c = b /\ d = b
    BY <1>3, <1>4, <1>6, <2>1
  <2>2. CASE c = b /\ d # b
    BY <1>1, <1>6, <2>2
  <2>3. CASE c # b /\ d = b
    BY <1>1, <1>3, <1>6, <2>3
  <2>4. CASE c # b /\ d # b
    BY <1>1, <1>3, <1>6, <1>7, <2>4
  <2> QED
    BY <2>1, <2>2, <2>3, <2>4
<1>10. ASSUME NEW c \in Bufs, NEW d \in Bufs, r.next[c] = d
       PROVE  blk2[d] # Nil /\ g2[d] < g2[c] /\ HashFn[blk2[c]] = HashFn[blk2[d]]
  <2>1. CASE c = b
    BY <1>3, <1>4, <1>5, <1>6, <1>7, <1>10, <2>1 DEF InChain
  <2>2. CASE c # b
    BY <1>1, <1>5, <1>6, <1>10, <2>2
  <2> QED
    BY <2>1, <2>2
<1>11. ASSUME NEW h \in Chains, NEW c \in Bufs
       PROVE  r.hash[h] = c <=> InChain(blk2, h, c) /\ r.prev[c] = Nil
  <2>1. CASE c = b
    BY <1>1, <1>3, <1>5, <1>6, <2>1 DEF InChain
  <2>2. CASE c # b
    <3>1. InChain(blk2, h, c) <=> InChain(blk, h, c)
      BY <1>5, <2>2 DEF InChain
    <3>2. q.hash[h] = c <=> InChain(blk, h, c) /\ q.prev[c] = Nil
      BY <1>1, <2>2
    <3>3. CASE h = HashFn[k]
      <4>1. r.hash[h] = b /\ b # c /\ b # Nil
        BY <1>3, <1>6, <2>2, <3>3
      <4>2. InChain(blk, h, c) /\ q.prev[c] = Nil => c = first
        BY <3>2, <3>3 DEF first
      <4> QED
        BY <1>6, <2>2, <3>1, <4>1, <4>2
    <3>4. CASE h # HashFn[k]
      <4>1. c = first => ~InChain(blk, h, c)
        BY <1>3, <1>7, <2>2, <3>4 DEF InChain
      <4> QED
        BY <1>6, <2>2, <3>1, <3>2, <3>4, <4>1
    <3> QED
      BY <3>3, <3>4
  <2> QED
    BY <2>1, <2>2
<1> QED
  BY <1>8, <1>9, <1>10, <1>11 DEF Hash, blk2

\* getblk keeps the queues in order when it claims b for block k.
LEMMA Requeued ==
  ASSUME NEW q, Queued(q, b_block_nr), b_block_nr \in [Bufs -> Blocks \cup {Nil}],
         NEW b \in Bufs, NEW k \in Blocks
  PROVE  Queued(insertIntoQueues(removeFromQueues(q, b), b, k),
                [b_block_nr EXCEPT ![b] = k])
<1> DEFINE q1 == removeFromQueues(q, b)
           q2 == insertIntoQueues(q1, b, k)
<1>1. PICK f, g : Ring(q, f, g) /\ Hash(q, g, b_block_nr)
  BY DEF Queued
<1> DEFINE f2 == MovedTo(f, g, b)
           g2 == MovedFrom(g, b)
<1>2. /\ f \in [Positions -> Bufs] /\ g \in [Bufs -> Positions]
      /\ \A n \in Positions : g[f[n]] = n
      /\ \A c \in Bufs : f[g[c]] = c
  BY <1>1 DEF Ring
<1>3. Links(q) /\ TakenOut(q, q1, b)
  BY Removed DEF Queued
<1>4. Links(q1)
  BY <1>3 DEF TakenOut
<1> HIDE DEF q1
<1>5. PutIn(q1, q2, b, k)
  BY <1>4, Inserted
<1> HIDE DEF q2
<1>6. Ring(q2, f2, g2)
  BY <1>1, <1>3, <1>5, RingMoves
<1>7. /\ g2 \in [Bufs -> Positions]
      /\ \A c, d \in Bufs \ {b} : g2[c] < g2[d] <=> g[c] < g[d]
      /\ \A c \in Bufs \ {b} : g2[c] < g2[b]
  BY <1>2, MovedPlaces
<1> HIDE DEF f2, g2
<1>8. HashWithout(q1, g, b_block_nr, b)
  BY <1>1, <1>2, <1>3, HashTakenOut
<1>9. Hash(q2, g2, [b_block_nr EXCEPT ![b] = k])
  BY <1>2, <1>4, <1>5, <1>7, <1>8, HashPutIn
<1>10. Links(q2)
  BY <1>5 DEF PutIn
<1> QED
  BY <1>6, <1>9, <1>10 DEF Queued, q1, q2

\* initBuffer's queues: the free list in the order of the heads, empty chains.
LEMMA InitQueued ==
  ASSUME b_block_nr = [b \in Bufs |-> Nil], queues = InitQueues
  PROVE  Queued(queues, b_block_nr)
<1> DEFINE f == [n \in Positions |-> n + 1]
           g == [b \in Bufs |-> b - 1]
<1>1. Links(queues)
  BY Sizes DEF Links, InitQueues
<1>2. Ring(queues, f, g)
  <2>1. f \in [Positions -> Bufs] /\ g \in [Bufs -> Positions]
    BY Sizes DEF Positions
  <2>2. (\A n \in Positions : g[f[n]] = n) /\ (\A b \in Bufs : f[g[b]] = b)
    BY Sizes DEF Positions
  <2>3. queues.free = f[0]
    BY Sizes DEF InitQueues, Positions
  <2>4. ASSUME NEW n \in Positions
        PROVE  queues.next_free[f[n]] = f[After(n)] /\ queues.prev_free[f[After(n)]] = f[n]
    <3>1. CASE n = NR_BUFFERS - 1
      <4>1. f[n] = NR_BUFFERS /\ f[After(n)] = 1 /\ NR_BUFFERS \in Bufs /\ 1 \in Bufs
        BY Sizes, <3>1 DEF Positions, After
      <4>2. NR_BUFFERS % NR_BUFFERS = 0
        BY Sizes
      <4> QED
        BY <4>1, <4>2 DEF InitQueues
    <3>2. CASE n # NR_BUFFERS - 1
      <4>1. /\ f[n] = n + 1 /\ f[After(n)] = n + 2
            /\ n + 1 \in Bufs /\ n + 2 \in Bufs /\ n + 1 < NR_BUFFERS /\ n \in Nat
        BY Sizes, <3>2 DEF Positions, After
      <4>2. (n + 1) % NR_BUFFERS = n + 1
        BY Sizes, <4>1
      <4> QED
        BY <4>1, <4>2 DEF InitQueues
    <3> QED
      BY <3>1, <3>2
  <2> QED
    BY <2>1, <2>2, <2>3, <2>4 DEF Ring
<1>3. Hash(queues, g, b_block_nr)
  BY Sizes DEF Hash, InitQueues, InChain
<1> QED
  BY <1>1, <1>2, <1>3 DEF Queued

---------------------------------------------------------------------------
(* The queues, the locks, and who claims a buffer.                         *)

Calls == [at : Places, block : Blocks \cup {Nil}, bh : Bufs \cup {Nil},
          i : 0 .. 2 * NR_BUFFERS + 1]

\* The types; that b_count keeps its bounds follows from Counted below.
Types ==
  /\ b_block_nr \in [Bufs -> Blocks \cup {Nil}]
  /\ b_count \in [Bufs -> Int]
  /\ b_dirt \in [Bufs -> BOOLEAN] /\ b_uptodate \in [Bufs -> BOOLEAN]
  /\ b_lock \in [Bufs -> BOOLEAN] /\ b_data \in [Bufs -> Vals]
  /\ request \in [Bufs -> {"READ", "WRITE", Nil}] /\ disk \in [Blocks -> Vals]
  /\ call \in [Clients -> Calls]
  /\ cpu \in Clients \cup {Nil}

\* The places where a call works on a buffer, and those at which it claims it.
Claimers == {"claim", "mark", "remove", "insert"}
WithBuffer == Using \cup {"chosen", "sync", "slot"} \cup Claimers

\* The buffer whose lock a call holds while it sleeps for a slot.
SlotOf(c) == IF c.i = 0 THEN c.bh ELSE Visited(c.i)
Holds(c, b) == c.at = "slot" /\ SlotOf(c) = b

\* What a call has in its hands at each place.
Shape(c, blk) ==
  /\ c.at # "idle" => c.block \in Blocks
  /\ c.at \in WithBuffer => c.bh \in Bufs
  /\ c.at = "sync" => c.i >= 1
  /\ c.at \notin {"sync", "slot"} => c.i = 0
  /\ c.at = "slot" => c.i <= 2 * NR_BUFFERS /\ blk[SlotOf(c)] # Nil
  /\ c.at \in Using \ {"remove", "insert"} => blk[c.bh] # Nil

Shapes == \A p \in Clients : Shape(call[p], b_block_nr)

\* A lock is held by one transfer, or by one call that sleeps for a slot.
Locks ==
  \A b \in Bufs :
    /\ request[b] # Nil => b_lock[b] /\ b_block_nr[b] # Nil
    /\ \A p \in Clients : Holds(call[p], b) => b_lock[b] /\ request[b] = Nil
    /\ \A p, q \in Clients : Holds(call[p], b) /\ Holds(call[q], b) => p = q

\* Who claims a buffer has the processor since it saw the buffer unlocked, and
\* since it saw that no buffer has the block.
Claiming ==
  \A p \in Clients : call[p].at \in Claimers =>
    /\ cpu = p /\ ~b_lock[call[p].bh]
    /\ call[p].at # "claim" => \A b \in Bufs : b_block_nr[b] # call[p].block

\* The queues are in order, or the buffer that is claimed is out of them.
InOrder ==
  /\ (\A p \in Clients : call[p].at # "insert") => Queued(queues, b_block_nr)
  /\ \A p \in Clients : call[p].at = "insert" =>
       \E q : Queued(q, b_block_nr) /\ queues = removeFromQueues(q, call[p].bh)

Kept == Types /\ Shapes /\ Locks /\ Claiming /\ InOrder /\ OneBufferPerBlock

\* A step of p leaves the calls of the others alone.
OthersStay(p) == \A q \in Clients \ {p} : call'[q] = call[q]

\* What becomes of the calls when p moves on.
LEMMA GotoAfter ==
  ASSUME Types, NEW p \in Clients, NEW c, Goto(p, c)
  PROVE  OthersStay(p) /\ call'[p] = c /\ (c \in Calls => call' \in [Clients -> Calls])
  BY DEF Types, Goto, OthersStay

\* A call that only changes its place.
LEMMA PlaceAfter ==
  ASSUME Types, NEW p \in Clients, NEW place, GotoAt(p, place)
  PROVE  /\ Goto(p, [call[p] EXCEPT !.at = place])
         /\ OthersStay(p)
         /\ call'[p] = [call[p] EXCEPT !.at = place]
         /\ call'[p].at = place /\ call'[p].bh = call[p].bh
         /\ call'[p].block = call[p].block /\ call'[p].i = call[p].i
         /\ place \in Places => call'[p] \in Calls /\ call' \in [Clients -> Calls]
<1>1. call \in [Clients -> Calls]
  BY DEF Types
<1>2. call' = [call EXCEPT ![p] = [call[p] EXCEPT !.at = place]]
  BY <1>1 DEF GotoAt
<1>3. place \in Places => [call[p] EXCEPT !.at = place] \in Calls
  BY <1>1 DEF Calls
<1> QED
  BY <1>1, <1>2, <1>3 DEF Goto, OthersStay, Calls

\* The place of a call is one of the places.
LEMMA VisitedBuffer ==
  /\ \A i \in Nat : i >= 1 => Visited(i) \in Bufs
  /\ \A c \in Calls : c.bh \in Bufs => SlotOf(c) \in Bufs
<1>1. ASSUME NEW i \in Nat, i >= 1 PROVE Visited(i) \in Bufs
  BY <1>1, Sizes DEF Visited
<1>2. ASSUME NEW c \in Calls, c.bh \in Bufs PROVE SlotOf(c) \in Bufs
  <2>1. c.i \in Nat
    BY Sizes DEF Calls
  <2> QED
    BY <1>1, <1>2, <2>1 DEF SlotOf
<1> QED
  BY <1>1, <1>2

\* Who takes a step is the only one that may be claiming a buffer.
LEMMA OneClaims ==
  ASSUME Kept, ~Preemptible, NEW p \in Clients, NEW place, At(p, place)
  PROVE  \A q \in Clients \ {p} : call[q].at \notin Claimers
  BY CacheAssumption DEF Kept, Claiming, At

\* If it is not about to put the buffer back, the queues are in order.
LEMMA QueuesInOrder ==
  ASSUME Kept, ~Preemptible, NEW p \in Clients, NEW place, At(p, place), place # "insert"
  PROVE  Queued(queues, b_block_nr)
<1>1. \A q \in Clients : call[q].at # "insert"
  BY OneClaims DEF Claimers, At
<1> QED
  BY <1>1 DEF Kept, InOrder

\* A call that claims a buffer is not interrupted.
LEMMA StaysOn ==
  ASSUME NEW p \in Clients, Runs(p), call'[p].at \in Claimers
  PROVE  cpu' = p
<1>1. WaitsFor(p)' = {}
  BY DEF WaitsFor, Claimers
<1>2. ~OffProcessor(p)'
  BY <1>1 DEF OffProcessor, Blocked, Claimers
<1> QED
  BY <1>2 DEF Runs

\* initBuffer leaves the queues in order and every buffer without a block.
LEMMA InitKept == Init => Kept
<1> SUFFICES ASSUME Init PROVE Kept
  OBVIOUS
<1>1. Types
  <2>1. (CHOOSE v \in Vals : TRUE) \in Vals
    BY CacheAssumption
  <2>2. NoCall \in Calls
    BY Sizes DEF NoCall, Calls, Places
  <2>3. disk \in [Blocks -> Vals]
    BY CacheAssumption DEF Init
  <2> QED
    BY <2>1, <2>2, <2>3 DEF Init, Types
<1>2. \A p \in Clients : call[p].at = "idle" /\ call[p].i = 0
  BY DEF Init, NoCall
<1>3. Shapes /\ Locks /\ Claiming
  BY <1>2 DEF Init, Shapes, Shape, Locks, Holds, Claiming, Using, WithBuffer, Claimers
<1>4. Queued(queues, b_block_nr) /\ OneBufferPerBlock
  BY InitQueued DEF Init, OneBufferPerBlock
<1>5. InOrder
  BY <1>2, <1>4 DEF InOrder
<1> QED
  BY <1>1, <1>3, <1>4, <1>5 DEF Kept

\* What a call that is not blocked knows of the lock it looks at.
LEMMA NotBlocked ==
  ASSUME Kept, NEW p \in Clients, ~Blocked(p)
  PROVE  /\ call[p].at \in {"hashed", "chosen", "wait", "release"} => ~b_lock[call[p].bh]
         /\ call[p].at = "got" /\ ~b_uptodate[call[p].bh] => ~b_lock[call[p].bh]
         /\ call[p].at = "sync" /\ call[p].i <= 2 * NR_BUFFERS
              /\ b_block_nr[Visited(call[p].i)] # Nil => ~b_lock[Visited(call[p].i)]
<1> DEFINE c == call[p]
<1>1. c.at \in {"hashed", "chosen", "wait", "release", "got"} => c.bh \in Bufs
  BY DEF Kept, Shapes, Shape, WithBuffer, Using
<1>2. c.at = "sync" => Visited(c.i) \in Bufs
  <2>1. c \in Calls
    BY DEF Kept, Types
  <2>2. c.i \in Nat
    BY <2>1, Sizes DEF Calls
  <2> QED
    BY <2>2, VisitedBuffer DEF Kept, Shapes, Shape
<1>3. \A b \in WaitsFor(p) : ~b_lock[b]
  <2>1. WaitsFor(p) \subseteq Bufs
    BY <1>1, <1>2 DEF WaitsFor
  <2> QED
    BY <2>1 DEF Blocked
<1>4. c.at \in {"hashed", "chosen", "wait", "release"} => WaitsFor(p) = {c.bh}
  BY DEF WaitsFor
<1>5. c.at = "got" => WaitsFor(p) = {b \in {c.bh} : ~b_uptodate[b]}
  BY DEF WaitsFor
<1>6. c.at = "sync" => WaitsFor(p) = {b \in {Visited(c.i)} :
                                        c.i <= 2 * NR_BUFFERS /\ b_block_nr[b] # Nil}
  BY DEF WaitsFor
<1> QED
  BY <1>3, <1>4, <1>5, <1>6

\* A step by which a call moves on, and that leaves the locks and the queues alone.
LEMMA MoveKept ==
  ASSUME Kept, ~Preemptible, NEW p \in Clients, NEW place, At(p, place), place # "insert",
         NEW c \in Calls, Goto(p, c), Shape(c, b_block_nr), c.at \notin Claimers \cup {"slot"},
         UNCHANGED <<b_block_nr, b_lock, queues, request, disk>>, Runs(p),
         b_count' \in [Bufs -> Int], b_dirt' \in [Bufs -> BOOLEAN],
         b_uptodate' \in [Bufs -> BOOLEAN], b_data' \in [Bufs -> Vals]
  PROVE  Kept'
<1>1. OthersStay(p) /\ call'[p] = c /\ call' \in [Clients -> Calls]
  BY GotoAfter DEF Kept
<1>2. Types'
  BY <1>1 DEF Kept, Types, Runs
<1>3. Shapes'
  BY <1>1 DEF Kept, Shapes, OthersStay
<1>4. Locks'
  BY <1>1 DEF Kept, Locks, Holds, OthersStay
<1>5. \A q \in Clients : call'[q].at \notin Claimers
  BY <1>1, OneClaims DEF OthersStay
<1>6. Claiming' /\ InOrder'
  BY <1>5, QueuesInOrder DEF Claiming, InOrder, Claimers
<1> QED
  BY <1>2, <1>3, <1>4, <1>6 DEF Kept, OneBufferPerBlock

\* The search, and what a client does with its buffer.
LEMMA SearchKept ==
  ASSUME Kept, ~Preemptible, NEW p \in Clients, Runs(p),
         Find(p) \/ Hashed(p) \/ Scan(p) \/ LookAgain(p)
  PROVE  Kept'
<1> DEFINE c == call[p]
<1>1. Types /\ Shapes /\ c \in Calls /\ Shape(c, b_block_nr)
  BY DEF Kept, Types, Shapes
<1>2. UNCHANGED <<b_block_nr, b_dirt, b_uptodate, b_lock, b_data, queues, request, disk>>
  BY DEF Find, Hashed, Scan, LookAgain, device, heads
<1>3. CASE Find(p)
  <2> DEFINE b == findBuffer(c.block)
  <2>1. At(p, "find") /\ c.at = "find" /\ c.block \in Blocks
    BY <1>1, <1>3 DEF Find, At, Shape
  <2>2. b \in Bufs \cup {Nil} /\ (b # Nil => b_block_nr[b] = c.block)
    BY <2>1, QueuesInOrder, Found
  <2> HIDE DEF b
  <2>3. CASE b = Nil
    <3> DEFINE d == [c EXCEPT !.at = "scan"]
    <3>1. Goto(p, d) /\ b_count' = b_count
      BY <1>1, <1>3, <2>3, PlaceAfter DEF Find, b
    <3>2. d \in Calls /\ d.at = "scan" /\ Shape(d, b_block_nr)
      BY <1>1, <2>1 DEF Shape, WithBuffer, Using, Claimers, Calls, Places
    <3> QED
      BY <1>1, <1>2, <2>1, <3>1, <3>2, MoveKept DEF Types, Claimers
  <2>4. CASE b # Nil
    <3> DEFINE d == [c EXCEPT !.at = "hashed", !.bh = b]
    <3>1. Goto(p, d) /\ b_count' = [b_count EXCEPT ![b] = @ + 1]
      BY <1>3, <2>4 DEF Find, b
    <3>2. d \in Calls /\ d.at = "hashed" /\ d.bh = b /\ d.block = c.block /\ d.i = c.i
      BY <1>1, <2>2 DEF Calls, Places
    <3>3. Shape(d, b_block_nr)
      BY <1>1, <2>1, <2>2, <2>4, <3>2, Sizes DEF Shape, WithBuffer, Using, Claimers
    <3>4. b_count' \in [Bufs -> Int]
      BY <1>1, <2>2, <2>4, <3>1 DEF Types
    <3> HIDE DEF d
    <3> QED
      BY <1>1, <1>2, <2>1, <3>1, <3>2, <3>3, <3>4, MoveKept DEF Types, Claimers
  <2> QED
    BY <2>3, <2>4
<1>4. CASE Hashed(p)
  <2>1. /\ At(p, "hashed") /\ c.at = "hashed" /\ c.block \in Blocks /\ c.bh \in Bufs
        /\ b_block_nr[c.bh] # Nil
    BY <1>1, <1>4 DEF Hashed, At, Shape, WithBuffer, Using
  <2>2. CASE b_block_nr[c.bh] = c.block
    <3> DEFINE d == [c EXCEPT !.at = "got"]
    <3>1. Goto(p, d) /\ b_count' = b_count
      BY <1>1, <1>4, <2>2, PlaceAfter DEF Hashed
    <3>2. d \in Calls /\ d.at = "got" /\ Shape(d, b_block_nr)
      BY <1>1, <2>1 DEF Shape, WithBuffer, Using, Claimers, Calls, Places
    <3> QED
      BY <1>1, <1>2, <2>1, <3>1, <3>2, MoveKept DEF Types, Claimers
  <2>3. CASE b_block_nr[c.bh] # c.block
    <3> DEFINE d == [c EXCEPT !.at = "find", !.bh = Nil]
    <3>1. Goto(p, d) /\ b_count' = [b_count EXCEPT ![c.bh] = @ - 1]
      BY <1>4, <2>3 DEF Hashed
    <3>2. d \in Calls /\ d.at = "find" /\ Shape(d, b_block_nr)
      BY <1>1, <2>1 DEF Shape, WithBuffer, Using, Claimers, Calls, Places
    <3>3. b_count' \in [Bufs -> Int]
      BY <1>1, <2>1, <3>1 DEF Types
    <3> QED
      BY <1>1, <1>2, <2>1, <3>1, <3>2, <3>3, MoveKept DEF Types, Claimers
  <2> QED
    BY <2>2, <2>3
<1>5. CASE Scan(p)
  <2>1. At(p, "scan") /\ c.at = "scan" /\ c.block \in Blocks /\ b_count' = b_count
    BY <1>1, <1>5 DEF Scan, At, Shape, heads
  <2>2. CASE Unused = {}
    <3> DEFINE d == [c EXCEPT !.at = "space"]
    <3>1. Goto(p, d)
      BY <1>1, <1>5, <2>2, PlaceAfter DEF Scan
    <3>2. d \in Calls /\ d.at = "space" /\ Shape(d, b_block_nr)
      BY <1>1, <2>1 DEF Shape, WithBuffer, Using, Claimers, Calls, Places
    <3> QED
      BY <1>1, <1>2, <2>1, <3>1, <3>2, MoveKept DEF Types, Claimers
  <2>3. CASE Unused # {}
    <3> DEFINE b == FreeList[Best]
               d == [c EXCEPT !.at = "chosen", !.bh = b]
    <3>1. b \in Bufs
      BY <1>1, <2>1, <2>3, QueuesInOrder, UnusedTaken DEF Types
    <3>2. Goto(p, d)
      BY <1>5, <2>3 DEF Scan
    <3> HIDE DEF b
    <3>3. d \in Calls /\ d.at = "chosen" /\ Shape(d, b_block_nr)
      BY <1>1, <2>1, <3>1 DEF Shape, WithBuffer, Using, Claimers, Calls, Places
    <3> QED
      BY <1>1, <1>2, <2>1, <3>2, <3>3, MoveKept DEF Types, Claimers
  <2> QED
    BY <2>2, <2>3
<1>6. CASE LookAgain(p)
  <2>1. At(p, "space") /\ c.at = "space" /\ c.block \in Blocks /\ b_count' = b_count
    BY <1>1, <1>6 DEF LookAgain, At, Shape, heads
  <2> DEFINE d == [c EXCEPT !.at = "find"]
  <2>2. Goto(p, d)
    BY <1>1, <1>6, PlaceAfter DEF LookAgain
  <2>3. d \in Calls /\ d.at = "find" /\ Shape(d, b_block_nr)
    BY <1>1, <2>1 DEF Shape, WithBuffer, Using, Claimers, Calls, Places
  <2> QED
    BY <1>1, <1>2, <2>1, <2>2, <2>3, MoveKept DEF Types, Claimers
<1> QED
  BY <1>3, <1>4, <1>5, <1>6

\* What bread, brelse and the client do between the waits.
LEMMA UseKept ==
  ASSUME Kept, ~Preemptible, NEW p \in Clients, Runs(p),
         \/ Wait(p) \/ brelse(p) \/ Release(p)
         \/ (\E k \in Blocks : bread(p, k)) \/ (\E v \in Vals : Modify(p, v))
  PROVE  Kept'
<1> DEFINE c == call[p]
<1>1. Types /\ Shapes /\ c \in Calls /\ Shape(c, b_block_nr)
  BY DEF Kept, Types, Shapes
<1>2. UNCHANGED <<b_block_nr, b_uptodate, b_lock, queues, request, disk>>
  BY DEF Wait, brelse, Release, bread, Modify, device, heads
<1>3. CASE Wait(p) \/ brelse(p)
  <2>1. /\ c.at \in {"wait", "hold"} /\ At(p, c.at) /\ c.block \in Blocks /\ c.bh \in Bufs
        /\ b_block_nr[c.bh] # Nil /\ UNCHANGED <<b_count, b_dirt, b_data>>
    BY <1>1, <1>3 DEF Wait, brelse, At, Shape, WithBuffer, Using, heads
  <2>2. PICK place \in {"hold", "release"} : GotoAt(p, place)
    BY <1>3 DEF Wait, brelse
  <2> DEFINE d == [c EXCEPT !.at = place]
  <2>3. Goto(p, d)
    BY <1>1, <2>2, PlaceAfter
  <2>4. d \in Calls /\ d.at = place /\ Shape(d, b_block_nr)
    BY <1>1, <2>1, <2>2 DEF Shape, WithBuffer, Using, Claimers, Calls, Places
  <2> QED
    BY <1>1, <1>2, <2>1, <2>2, <2>3, <2>4, MoveKept DEF Types, Claimers
<1>4. CASE Release(p)
  <2>1. /\ At(p, "release") /\ c.bh \in Bufs /\ UNCHANGED <<b_dirt, b_data>>
        /\ b_count' = [b_count EXCEPT ![c.bh] = @ - 1] /\ Goto(p, NoCall)
    BY <1>1, <1>4 DEF Release, At, Shape, WithBuffer, Using
  <2>2. NoCall \in Calls /\ NoCall.at = "idle" /\ Shape(NoCall, b_block_nr)
    BY Sizes DEF NoCall, Calls, Places, Shape, WithBuffer, Using, Claimers
  <2>3. b_count' \in [Bufs -> Int]
    BY <1>1, <2>1 DEF Types
  <2> QED
    BY <1>1, <1>2, <2>1, <2>2, <2>3, MoveKept DEF Types, Claimers
<1>5. CASE \E k \in Blocks : bread(p, k)
  <2>1. PICK k \in Blocks : bread(p, k)
    BY <1>5
  <2> DEFINE d == [NoCall EXCEPT !.at = "find", !.block = k]
  <2>2. At(p, "idle") /\ Goto(p, d) /\ UNCHANGED heads
    BY <2>1 DEF bread
  <2>3. d \in Calls /\ d.at = "find" /\ Shape(d, b_block_nr)
    <3>1. NoCall \in Calls
      BY Sizes DEF NoCall, Calls, Places
    <3> QED
      BY <3>1 DEF NoCall, Calls, Places, Shape, WithBuffer, Using, Claimers
  <2> QED
    BY <1>1, <1>2, <2>2, <2>3, MoveKept DEF Types, Claimers, heads
<1>6. CASE \E v \in Vals : Modify(p, v)
  <2>1. PICK v \in Vals : Modify(p, v)
    BY <1>6
  <2>2. At(p, "hold") /\ c.at = "hold" /\ c.bh \in Bufs /\ call' = call /\ b_count' = b_count
    BY <1>1, <2>1 DEF Modify, At, Shape, WithBuffer, Using
  <2>3. Goto(p, c)
    BY <1>1, <2>2 DEF Goto, Types
  <2>4. b_dirt' \in [Bufs -> BOOLEAN] /\ b_data' \in [Bufs -> Vals]
    BY <1>1, <2>1, <2>2 DEF Modify, Types
  <2> QED
    BY <1>1, <1>2, <2>2, <2>3, <2>4, MoveKept DEF Types, Claimers
<1> QED
  BY <1>3, <1>4, <1>5, <1>6

\* A call that found its slot passes the lock on to the transfer.
LEMMA SubmitKept ==
  ASSUME Kept, ~Preemptible, NEW p \in Clients, NEW place, At(p, place), place # "insert",
         NEW b \in Bufs, NEW cmd \in {"READ", "WRITE"}, Submit(b, cmd),
         b_block_nr[b] # Nil, ~b_lock[b] \/ Holds(call[p], b),
         NEW c \in Calls, Goto(p, c), Shape(c, b_block_nr), c.at \notin Claimers \cup {"slot"},
         UNCHANGED <<b_block_nr, b_count, b_uptodate, b_data, queues, disk>>, Runs(p)
  PROVE  Kept'
<1>1. OthersStay(p) /\ call'[p] = c /\ call' \in [Clients -> Calls]
  BY GotoAfter DEF Kept
<1>2. /\ request' = [request EXCEPT ![b] = cmd] /\ request \in [Bufs -> {"READ", "WRITE", Nil}]
      /\ b_lock' = [b_lock EXCEPT ![b] = TRUE] /\ b_lock \in [Bufs -> BOOLEAN]
      /\ b_dirt' = [b_dirt EXCEPT ![b] = FALSE] /\ b_dirt \in [Bufs -> BOOLEAN]
  BY DEF Submit, Kept, Types
<1>3. Types'
  BY <1>1, <1>2 DEF Kept, Types, Runs
<1>4. Shapes'
  BY <1>1 DEF Kept, Shapes, OthersStay
<1>5. \A q \in Clients : ~Holds(call'[q], b)
  <2>1. \A q \in Clients \ {p} : ~Holds(call[q], b)
    BY DEF Kept, Locks
  <2> QED
    BY <1>1, <2>1 DEF OthersStay, Holds
<1>6. \A q \in Clients, x \in Bufs : Holds(call'[q], x) => Holds(call[q], x)
  BY <1>1 DEF OthersStay, Holds
<1>7. Locks'
  <2> SUFFICES ASSUME NEW x \in Bufs
               PROVE  /\ request'[x] # Nil => b_lock'[x] /\ b_block_nr'[x] # Nil
                      /\ \A q \in Clients : Holds(call'[q], x) => b_lock'[x] /\ request'[x] = Nil
                      /\ \A q, r \in Clients : Holds(call'[q], x) /\ Holds(call'[r], x) => q = r
    BY DEF Locks, Holds, SlotOf, Visited
  <2>1. CASE x = b
    BY <1>2, <1>5, <2>1
  <2>2. CASE x # b
    BY <1>2, <1>6, <2>2 DEF Kept, Locks
  <2> QED
    BY <2>1, <2>2
<1>8. \A q \in Clients : call'[q].at \notin Claimers
  BY <1>1, OneClaims DEF OthersStay
<1>9. Claiming' /\ InOrder'
  BY <1>8, QueuesInOrder DEF Claiming, InOrder, Claimers
<1> QED
  BY <1>3, <1>4, <1>7, <1>9 DEF Kept, OneBufferPerBlock

\* A call that finds none sleeps with the lock.
LEMMA AwaitKept ==
  ASSUME Kept, ~Preemptible, NEW p \in Clients, NEW place, At(p, place), place # "insert",
         NEW b \in Bufs, AwaitSlot(p, b), b_block_nr[b] # Nil, ~b_lock[b],
         call[p].bh \in Bufs, call[p].block \in Blocks, call[p].i <= 2 * NR_BUFFERS,
         SlotOf(call[p]) = b,
         UNCHANGED <<b_block_nr, b_count, b_uptodate, b_data, queues, disk>>, Runs(p)
  PROVE  Kept'
<1> DEFINE c == [call[p] EXCEPT !.at = "slot"]
<1>1. /\ OthersStay(p) /\ call'[p] = c /\ call'[p].at = "slot" /\ call'[p].bh = call[p].bh
      /\ call'[p].block = call[p].block /\ call'[p].i = call[p].i
      /\ call' \in [Clients -> Calls]
  BY PlaceAfter DEF AwaitSlot, Kept, Places
<1>2. /\ UNCHANGED <<b_dirt, request>> /\ b_lock \in [Bufs -> BOOLEAN]
      /\ b_lock' = [b_lock EXCEPT ![b] = TRUE]
  BY DEF AwaitSlot, Kept, Types
<1>3. Types'
  BY <1>1, <1>2 DEF Kept, Types, Runs
<1>4. SlotOf(call'[p]) = b
  BY <1>1 DEF SlotOf
<1>5. Shape(call'[p], b_block_nr')
  BY <1>1, <1>4 DEF Kept, Shapes, Shape, Using
<1>6. Shapes'
  BY <1>1, <1>5 DEF Kept, Shapes, OthersStay
<1>7. \A q \in Clients \ {p}, x \in Bufs : Holds(call'[q], x) => Holds(call[q], x) /\ x # b
  BY <1>1 DEF OthersStay, Kept, Locks
<1>8. \A x \in Bufs : Holds(call'[p], x) => x = b
  BY <1>4 DEF Holds
<1>9. request[b] = Nil
  BY DEF Kept, Locks
<1>10. Locks'
  <2> SUFFICES ASSUME NEW x \in Bufs
               PROVE  /\ request'[x] # Nil => b_lock'[x] /\ b_block_nr'[x] # Nil
                      /\ \A q \in Clients : Holds(call'[q], x) => b_lock'[x] /\ request'[x] = Nil
                      /\ \A q, r \in Clients : Holds(call'[q], x) /\ Holds(call'[r], x) => q = r
    BY DEF Locks, Holds, SlotOf, Visited
  <2>1. CASE x = b
    BY <1>2, <1>7, <1>8, <1>9, <2>1
  <2>2. CASE x # b
    BY <1>2, <1>7, <1>8, <2>2 DEF Kept, Locks
  <2> QED
    BY <2>1, <2>2
<1>11. \A q \in Clients : call'[q].at \notin Claimers
  BY <1>1, OneClaims DEF OthersStay, Claimers
<1>12. Claiming' /\ InOrder'
  BY <1>11, QueuesInOrder DEF Claiming, InOrder, Claimers
<1> QED
  BY <1>3, <1>6, <1>10, <1>12 DEF Kept, OneBufferPerBlock

\* syncDev and bread, and those who sleep for a slot in them.
LEMMA TransferKept ==
  ASSUME Kept, ~Preemptible, NEW p \in Clients, Runs(p), Sync(p) \/ Slot(p) \/ Got(p)
  PROVE  Kept'
<1> DEFINE c == call[p]
<1>1. Types /\ Shapes /\ c \in Calls /\ Shape(c, b_block_nr) /\ c.i \in Nat
  <2>1. Types /\ Shapes /\ c \in Calls /\ Shape(c, b_block_nr)
    BY DEF Kept, Types, Shapes
  <2> QED
    BY <2>1, Sizes DEF Calls
<1>2. UNCHANGED <<b_block_nr, b_count, b_uptodate, b_data, queues, disk>>
  BY DEF Sync, Slot, Got
<1>3. CASE Sync(p)
  <2> DEFINE b == Visited(c.i)
             d == [c EXCEPT !.at = "chosen", !.i = 0]
             e == [c EXCEPT !.i = c.i + 1]
  <2>1. /\ At(p, "sync") /\ ~Blocked(p) /\ c.at = "sync" /\ c.i >= 1
        /\ c.block \in Blocks /\ c.bh \in Bufs /\ b \in Bufs
    BY <1>1, <1>3, VisitedBuffer DEF Sync, At, Shape, WithBuffer
  <2>2. ASSUME c.i > 2 * NR_BUFFERS, Goto(p, d), UNCHANGED <<b_dirt, b_lock, request>>
        PROVE  Kept'
    <3>1. 0 \in 0 .. 2 * NR_BUFFERS + 1
      BY Sizes
    <3>2. d \in Calls /\ d.at = "chosen" /\ d.i = 0 /\ d.bh = c.bh /\ d.block = c.block
      BY <1>1, <3>1 DEF Calls, Places
    <3>3. Shape(d, b_block_nr)
      BY <2>1, <3>2 DEF Shape, WithBuffer, Using, Claimers
    <3> QED
      BY <1>1, <1>2, <2>1, <2>2, <3>2, <3>3, MoveKept DEF Types, Claimers
  <2>3. c.i <= 2 * NR_BUFFERS => /\ e \in Calls /\ e.at = "sync" /\ Shape(e, b_block_nr)
    <3>1. c.i <= 2 * NR_BUFFERS => c.i + 1 \in 0 .. 2 * NR_BUFFERS + 1 /\ c.i + 1 >= 1
      BY <1>1, Sizes
    <3> QED
      BY <1>1, <2>1, <3>1 DEF Shape, WithBuffer, Using, Claimers, Calls, Places
  <2>4. ASSUME c.i <= 2 * NR_BUFFERS, Goto(p, e), UNCHANGED <<b_dirt, b_lock, request>>
        PROVE  Kept'
    <3> HIDE DEF e
    <3> QED
      BY <1>1, <1>2, <2>1, <2>3, <2>4, MoveKept DEF Types, Claimers
  <2>5. c.i <= 2 * NR_BUFFERS /\ b_block_nr[b] # Nil => ~b_lock[b]
    BY <2>1, NotBlocked
  <2>6. ASSUME c.i <= 2 * NR_BUFFERS, b_block_nr[b] # Nil, Goto(p, e), Submit(b, "WRITE")
        PROVE  Kept'
    <3> HIDE DEF e, b
    <3> QED
      BY <1>2, <2>1, <2>3, <2>5, <2>6, SubmitKept DEF Claimers
  <2>7. ASSUME c.i <= 2 * NR_BUFFERS, b_block_nr[b] # Nil, AwaitSlot(p, b)
        PROVE  Kept'
    <3>1. SlotOf(c) = b
      BY <2>1 DEF SlotOf
    <3> HIDE DEF b
    <3> QED
      BY <1>2, <2>1, <2>5, <2>7, <3>1, AwaitKept
  <2> QED
    BY <1>3, <2>2, <2>4, <2>6, <2>7 DEF Sync
<1>4. CASE Slot(p)
  <2>1. /\ At(p, "slot") /\ c.at = "slot" /\ c.i <= 2 * NR_BUFFERS
        /\ c.block \in Blocks /\ c.bh \in Bufs /\ SlotOf(c) \in Bufs
        /\ b_block_nr[SlotOf(c)] # Nil /\ Holds(c, SlotOf(c))
    BY <1>1, <1>4, VisitedBuffer DEF Slot, At, Shape, WithBuffer, Holds
  <2>2. CASE c.i = 0
    <3> DEFINE d == [c EXCEPT !.at = "wait"]
    <3>1. Goto(p, d) /\ Submit(c.bh, "READ") /\ SlotOf(c) = c.bh
      BY <1>1, <1>4, <2>2, PlaceAfter DEF Slot, SlotOf
    <3>2. d \in Calls /\ d.at = "wait" /\ Shape(d, b_block_nr)
      BY <1>1, <2>1, <2>2, <3>1 DEF Shape, WithBuffer, Using, Claimers, Calls, Places
    <3> HIDE DEF d
    <3> QED
      BY <1>2, <2>1, <3>1, <3>2, SubmitKept DEF Claimers
  <2>3. CASE c.i # 0
    <3> DEFINE d == [c EXCEPT !.at = "sync", !.i = c.i + 1]
    <3>1. Goto(p, d) /\ Submit(SlotOf(c), "WRITE")
      BY <1>4, <2>3 DEF Slot, SlotOf
    <3>2. d \in Calls /\ d.at = "sync" /\ Shape(d, b_block_nr)
      <4>1. c.i + 1 \in 0 .. 2 * NR_BUFFERS + 1 /\ c.i + 1 >= 1
        BY <1>1, <2>1, Sizes
      <4> QED
        BY <1>1, <2>1, <4>1 DEF Shape, WithBuffer, Using, Claimers, Calls, Places
    <3> HIDE DEF d
    <3> QED
      BY <1>2, <2>1, <3>1, <3>2, SubmitKept DEF Claimers
  <2> QED
    BY <2>2, <2>3
<1>5. CASE Got(p)
  <2> DEFINE b == c.bh
  <2>1. /\ At(p, "got") /\ ~Blocked(p) /\ c.at = "got" /\ c.block \in Blocks /\ b \in Bufs
        /\ b_block_nr[b] # Nil
    BY <1>1, <1>5 DEF Got, At, Shape, WithBuffer, Using
  <2>2. ~b_uptodate[b] => ~b_lock[b]
    BY <2>1, NotBlocked
  <2>3. ASSUME NEW place \in {"hold", "wait"}, GotoAt(p, place)
        PROVE  LET d == [c EXCEPT !.at = place]
               IN  d \in Calls /\ d.at = place /\ Shape(d, b_block_nr) /\ Goto(p, d)
    BY <1>1, <2>1, <2>3, PlaceAfter DEF Shape, WithBuffer, Using, Claimers, Calls, Places
  <2>4. CASE GotoAt(p, "hold") /\ UNCHANGED <<b_dirt, b_lock, request>>
    BY <1>1, <1>2, <2>1, <2>3, <2>4, MoveKept DEF Types, Claimers
  <2>5. CASE ~b_uptodate[b] /\ GotoAt(p, "wait") /\ Submit(b, "READ")
    <3> DEFINE d == [c EXCEPT !.at = "wait"]
    <3>1. d \in Calls /\ d.at = "wait" /\ Shape(d, b_block_nr) /\ Goto(p, d)
      BY <2>3, <2>5
    <3> HIDE DEF d
    <3> QED
      BY <1>2, <2>1, <2>2, <2>5, <3>1, SubmitKept DEF Claimers
  <2>6. CASE ~b_uptodate[b] /\ AwaitSlot(p, b)
    <3>1. c.i = 0
      BY <1>1, <2>1 DEF Shape
    <3> QED
      BY <1>2, <2>1, <2>2, <2>6, <3>1, AwaitKept, Sizes DEF SlotOf
  <2> QED
    BY <1>5, <2>4, <2>5, <2>6 DEF Got
<1> QED
  BY <1>3, <1>4, <1>5

\* getblk goes on to claim the buffer it found unlocked, or looks for another.
LEMMA ChosenKept ==
  ASSUME Kept, ~Preemptible, NEW p \in Clients, Chosen(p), Runs(p)
  PROVE  Kept'
<1> DEFINE c == call[p]
<1>1. Types /\ Shapes /\ c \in Calls /\ Shape(c, b_block_nr)
  BY DEF Kept, Types, Shapes
<1>2. /\ UNCHANGED <<b_block_nr, b_count, b_dirt, b_uptodate, b_lock, b_data, queues>>
      /\ UNCHANGED <<request, disk>>
  BY DEF Chosen, heads, device
<1>3. /\ At(p, "chosen") /\ c.at = "chosen" /\ c.block \in Blocks /\ c.bh \in Bufs /\ c.i = 0
  BY <1>1 DEF Chosen, At, Shape, WithBuffer
<1>4. CASE Goto(p, [c EXCEPT !.at = "find", !.bh = Nil])
  <2> DEFINE d == [c EXCEPT !.at = "find", !.bh = Nil]
  <2>1. d \in Calls /\ d.at = "find" /\ Shape(d, b_block_nr)
    BY <1>1, <1>3 DEF Shape, WithBuffer, Using, Claimers, Calls, Places
  <2> QED
    BY <1>1, <1>2, <1>3, <1>4, <2>1, MoveKept DEF Types, Claimers
<1>5. CASE Goto(p, [c EXCEPT !.at = "sync", !.i = 1])
  <2> DEFINE d == [c EXCEPT !.at = "sync", !.i = 1]
  <2>1. 1 \in 0 .. 2 * NR_BUFFERS + 1
    BY Sizes
  <2>2. d \in Calls /\ d.at = "sync" /\ d.i = 1 /\ d.bh = c.bh /\ d.block = c.block
    BY <1>1, <2>1 DEF Calls, Places
  <2>3. Shape(d, b_block_nr)
    BY <1>3, <2>2 DEF Shape, WithBuffer, Using, Claimers
  <2> QED
    BY <1>1, <1>2, <1>3, <1>5, <2>2, <2>3, MoveKept DEF Types, Claimers
<1>6. CASE GotoAt(p, "claim")
  <2>1. /\ OthersStay(p) /\ call'[p].at = "claim" /\ call'[p].bh = c.bh
        /\ call'[p].block = c.block /\ call'[p].i = c.i /\ call' \in [Clients -> Calls]
    BY <1>1, <1>6, PlaceAfter DEF Places
  <2>2. Types'
    BY <1>1, <1>2, <2>1 DEF Types, Runs
  <2>3. Shapes'
    <3>1. Shape(call'[p], b_block_nr)
      BY <1>3, <2>1 DEF Shape, Using
    <3> QED
      BY <1>1, <1>2, <2>1, <3>1 DEF Shapes, OthersStay
  <2>4. Locks'
    BY <1>2, <2>1 DEF Kept, Locks, Holds, OthersStay
  <2>5. ~b_lock[c.bh]
    BY <1>3, NotBlocked DEF Chosen, At
  <2>6. cpu' = p
    BY <2>1, StaysOn DEF Claimers
  <2>7. Claiming' /\ \A q \in Clients : call'[q].at # "insert"
    BY <1>2, <1>3, <2>1, <2>5, <2>6, OneClaims DEF Claiming, Claimers, OthersStay
  <2>8. InOrder'
    BY <1>2, <1>3, <2>7, QueuesInOrder DEF InOrder
  <2> QED
    BY <1>2, <2>2, <2>3, <2>4, <2>7, <2>8 DEF Kept, OneBufferPerBlock
<1> QED
  BY <1>4, <1>5, <1>6 DEF Chosen

\* Nobody else brought the block in, so no buffer has it; and nobody gets to run
\* before the buffer is claimed for it.
LEMMA ClaimKept ==
  ASSUME Kept, ~Preemptible, NEW p \in Clients, Claim(p) \/ Mark(p), Runs(p)
  PROVE  Kept'
<1> DEFINE c == call[p]
           k == c.block
<1>1. Types /\ Shapes /\ c \in Calls /\ Shape(c, b_block_nr)
  BY DEF Kept, Types, Shapes
<1>2. /\ c.at \in {"claim", "mark"} /\ At(p, c.at) /\ k \in Blocks /\ c.bh \in Bufs /\ c.i = 0
      /\ UNCHANGED <<b_block_nr, b_lock, b_data, queues, request, disk>>
  BY <1>1 DEF Claim, Mark, At, Shape, WithBuffer, Claimers, heads, device
<1>3. Queued(queues, b_block_nr)
  BY <1>2, QueuesInOrder
<1>4. CASE Claim(p) /\ findBuffer(k) # Nil
  <2> DEFINE d == [c EXCEPT !.at = "find", !.bh = Nil]
  <2>1. Goto(p, d) /\ UNCHANGED <<b_count, b_dirt, b_uptodate>>
    BY <1>4 DEF Claim, heads
  <2>2. d \in Calls /\ d.at = "find" /\ Shape(d, b_block_nr)
    BY <1>1, <1>2 DEF Shape, WithBuffer, Using, Claimers, Calls, Places
  <2> QED
    BY <1>1, <1>2, <2>1, <2>2, MoveKept DEF Types, Claimers
<1>5. CASE Mark(p) \/ (Claim(p) /\ findBuffer(k) = Nil)
  <2>1. \E place \in {"mark", "remove"} : GotoAt(p, place)
    BY <1>5 DEF Claim, Mark
  <2>2. /\ OthersStay(p) /\ call'[p].at \in {"mark", "remove"} /\ call'[p].bh = c.bh
        /\ call'[p].block = k /\ call'[p].i = c.i /\ call' \in [Clients -> Calls]
    BY <1>1, <2>1, PlaceAfter DEF Places
  <2>3. \A b \in Bufs : b_block_nr[b] # k
    <3>1. CASE Mark(p)
      BY <3>1 DEF Mark, At, Kept, Claiming, Claimers
    <3>2. CASE Claim(p) /\ findBuffer(k) = Nil
      BY <1>2, <1>3, <3>2, Found
    <3> QED
      BY <1>5, <3>1, <3>2
  <2>4. /\ b_count' \in [Bufs -> Int] /\ b_dirt' \in [Bufs -> BOOLEAN]
        /\ b_uptodate' \in [Bufs -> BOOLEAN]
    <3>1. CASE Mark(p)
      BY <1>1, <1>2, <3>1 DEF Mark, Types
    <3>2. CASE Claim(p)
      <4>1. UNCHANGED heads
        BY <3>2 DEF Claim
      <4> QED
        BY <1>1, <4>1 DEF Types, heads
    <3> QED
      BY <1>5, <3>1, <3>2
  <2>5. Types'
    BY <1>1, <1>2, <2>2, <2>4 DEF Types, Runs
  <2>6. Shapes'
    <3>1. Shape(call'[p], b_block_nr)
      BY <1>2, <2>2 DEF Shape, Using
    <3> QED
      BY <1>1, <1>2, <2>2, <3>1 DEF Shapes, OthersStay
  <2>7. Locks'
    BY <1>2, <2>2 DEF Kept, Locks, Holds, OthersStay
  <2>8. cpu' = p
    BY <2>2, StaysOn DEF Claimers
  <2>9. ~b_lock[c.bh]
    BY <1>2 DEF Kept, Claiming, Claimers
  <2>10. \A q \in Clients \ {p} : call'[q].at \notin Claimers
    BY <1>2, <2>2, OneClaims DEF OthersStay
  <2>11. Claiming'
    BY <1>2, <2>2, <2>3, <2>8, <2>9, <2>10 DEF Claiming
  <2>12. InOrder'
    BY <1>2, <1>3, <2>2, <2>10 DEF InOrder, Claimers
  <2> QED
    BY <1>2, <2>5, <2>6, <2>7, <2>11, <2>12 DEF Kept, OneBufferPerBlock
<1> QED
  BY <1>4, <1>5

\* The buffer is taken out of the queues and put in at the chain of its new block,
\* which no other buffer has.
LEMMA RequeueKept ==
  ASSUME Kept, ~Preemptible, NEW p \in Clients, Remove(p) \/ Insert(p), Runs(p)
  PROVE  Kept'
<1> DEFINE c == call[p]
           b == c.bh
           k == c.block
<1>1. Types /\ Shapes /\ c \in Calls /\ Shape(c, b_block_nr)
  BY DEF Kept, Types, Shapes
<1>2. /\ c.at \in {"remove", "insert"} /\ At(p, c.at) /\ k \in Blocks /\ b \in Bufs /\ c.i = 0
      /\ UNCHANGED <<b_count, b_dirt, b_uptodate, b_lock, b_data, request, disk>>
  BY <1>1 DEF Remove, Insert, At, Shape, WithBuffer, Claimers, heads, device
<1>3. ~b_lock[b] /\ \A x \in Bufs : b_block_nr[x] # k
  BY <1>2 DEF Kept, Claiming, Claimers
<1>4. \A q \in Clients \ {p} : call[q].at \notin Claimers
  BY <1>2, OneClaims
<1>5. CASE Remove(p)
  <2>1. /\ OthersStay(p) /\ call'[p].at = "insert" /\ call'[p].bh = b
        /\ call'[p].block = k /\ call'[p].i = 0 /\ call' \in [Clients -> Calls]
    BY <1>1, <1>2, <1>5, PlaceAfter DEF Remove, Places
  <2>2. b_block_nr' = b_block_nr /\ queues' = removeFromQueues(queues, b)
    BY <1>5 DEF Remove, heads
  <2>3. Types'
    BY <1>1, <1>2, <2>1, <2>2 DEF Types, Runs
  <2>4. Shapes'
    <3>1. Shape(call'[p], b_block_nr)
      BY <1>2, <2>1 DEF Shape, Using
    <3> QED
      BY <1>1, <2>1, <2>2, <3>1 DEF Shapes, OthersStay
  <2>5. Locks'
    BY <1>2, <2>1, <2>2 DEF Kept, Locks, Holds, OthersStay
  <2>6. cpu' = p
    BY <2>1, StaysOn DEF Claimers
  <2>7. Claiming'
    BY <1>2, <1>3, <1>4, <2>1, <2>2, <2>6 DEF Claiming, OthersStay
  <2>8. Queued(queues, b_block_nr)
    BY <1>5, QueuesInOrder DEF Remove
  <2>9. InOrder'
    <3>1. \A q \in Clients : call'[q].at = "insert" => q = p
      BY <1>4, <2>1 DEF OthersStay, Claimers
    <3> QED
      BY <2>1, <2>2, <2>8, <3>1 DEF InOrder, removeFromQueues
  <2> QED
    BY <2>2, <2>3, <2>4, <2>5, <2>7, <2>9 DEF Kept, OneBufferPerBlock
<1>6. CASE Insert(p)
  <2>1. /\ OthersStay(p) /\ call'[p].at = "got" /\ call'[p].bh = b
        /\ call'[p].block = k /\ call'[p].i = 0 /\ call' \in [Clients -> Calls]
    BY <1>1, <1>2, <1>6, PlaceAfter DEF Insert, Places
  <2>2. /\ b_block_nr' = [b_block_nr EXCEPT ![b] = k]
        /\ queues' = insertIntoQueues(queues, b, k)
    BY <1>6 DEF Insert
  <2>3. /\ b_block_nr' \in [Bufs -> Blocks \cup {Nil}] /\ b_block_nr'[b] = k
        /\ \A x \in Bufs \ {b} : b_block_nr'[x] = b_block_nr[x]
    BY <1>1, <1>2, <2>2 DEF Types
  <2>4. \A x \in Bufs : b_block_nr[x] # Nil => b_block_nr'[x] # Nil
    BY <1>2, <2>3, Sizes
  <2>5. Types'
    BY <1>1, <1>2, <2>1, <2>3 DEF Types, Runs
  <2>6. Shapes'
    <3>1. Shape(call'[p], b_block_nr')
      BY <1>2, <2>1, <2>3, Sizes DEF Shape, Using
    <3>2. ASSUME NEW q \in Clients \ {p} PROVE Shape(call[q], b_block_nr')
      <4>1. Shape(call[q], b_block_nr) /\ call[q] \in Calls
        BY <1>1 DEF Shapes, Types
      <4>2. call[q].bh \in Bufs => SlotOf(call[q]) \in Bufs
        BY <4>1, VisitedBuffer
      <4> QED
        BY <2>4, <4>1, <4>2 DEF Shape, WithBuffer
    <3> QED
      BY <2>1, <3>1, <3>2 DEF Shapes, OthersStay
  <2>7. Locks'
    BY <1>2, <2>1, <2>4 DEF Kept, Locks, Holds, OthersStay
  <2>8. \A q \in Clients : call'[q].at \notin Claimers
    BY <1>4, <2>1 DEF OthersStay, Claimers
  <2>9. PICK q : Queued(q, b_block_nr) /\ queues = removeFromQueues(q, b)
    BY <1>6 DEF Insert, At, Kept, InOrder
  <2>10. Queued(queues', b_block_nr')
    BY <1>1, <1>2, <2>2, <2>9, Requeued DEF Types
  <2>11. Claiming' /\ InOrder'
    BY <2>8, <2>10 DEF Claiming, InOrder, Claimers
  <2>12. OneBufferPerBlock'
    BY <1>3, <2>3 DEF Kept, OneBufferPerBlock
  <2> QED
    BY <2>5, <2>6, <2>7, <2>11, <2>12 DEF Kept
<1> QED
  BY <1>5, <1>6

\* The end of a transfer.
LEMMA CompleteKept ==
  ASSUME Kept, NEW b \in Bufs, NEW ok \in BOOLEAN, Complete(b, ok)
  PROVE  Kept'
<1>1. Types /\ Shapes /\ Locks /\ Claiming
  BY DEF Kept
<1>2. /\ UNCHANGED <<b_block_nr, b_count, b_dirt, queues, call, cpu>>
      /\ b_uptodate' = [b_uptodate EXCEPT ![b] = ok]
      /\ b_lock' = [b_lock EXCEPT ![b] = FALSE]
      /\ request' = [request EXCEPT ![b] = Nil] /\ request[b] # Nil
      /\ b_data' = b_data \/ b_data' = [b_data EXCEPT ![b] = disk[b_block_nr[b]]]
      /\ disk' = disk \/ disk' = [disk EXCEPT ![b_block_nr[b]] = b_data[b]]
  BY DEF Complete
<1>3. b_block_nr[b] \in Blocks
  BY <1>1 DEF Complete, Types, Locks
<1>4. Types'
  BY <1>1, <1>2, <1>3 DEF Types
<1>5. Shapes' /\ InOrder'
  BY <1>1, <1>2 DEF Kept, Shapes, InOrder, removeFromQueues
<1>6. Locks'
  BY <1>1, <1>2 DEF Types, Locks, Holds
<1>7. Claiming'
  <2>1. \A x \in Bufs : ~b_lock[x] => ~b_lock'[x]
    BY <1>1, <1>2 DEF Types
  <2>2. \A p \in Clients : call[p].at \in Claimers => call[p].bh \in Bufs
    BY <1>1 DEF Shapes, Shape, WithBuffer
  <2> QED
    BY <1>1, <1>2, <2>1, <2>2 DEF Claiming
<1> QED
  BY <1>2, <1>4, <1>5, <1>6, <1>7 DEF Kept, OneBufferPerBlock

\* Every step keeps the first invariant.
LEMMA NextKept == ~Preemptible /\ Kept /\ [Next]_vars => Kept'
<1> SUFFICES ASSUME ~Preemptible, Kept, [Next]_vars PROVE Kept'
  OBVIOUS
<1>1. ASSUME NEW p \in Clients, Step(p) PROVE Kept'
  BY <1>1, SearchKept, ChosenKept, TransferKept, ClaimKept, RequeueKept, UseKept DEF Step
<1>2. ASSUME NEW p \in Clients, Use(p) PROVE Kept'
  BY <1>2, UseKept DEF Use
<1>3. ASSUME NEW b \in Bufs, NEW ok \in BOOLEAN, Complete(b, ok) PROVE Kept'
  BY <1>3, CompleteKept
<1>4. CASE UNCHANGED vars
  BY <1>4 DEF vars, heads, device, Kept, Types, Shapes, Locks, Claiming, InOrder,
              OneBufferPerBlock, removeFromQueues, Holds, SlotOf
<1> QED
  BY <1>1, <1>2, <1>3, <1>4 DEF Next

\* As long as a call keeps the processor until it sleeps, whatever getblk, bread,
\* brelse and syncDev do, the queues stay in order and a block has one buffer.
THEOREM CacheInvariant == Spec => [](~Preemptible => Kept)
<1> USE DEF Spec
<1>1. CASE Preemptible
  BY <1>1, PTL
<1>2. CASE ~Preemptible
  BY <1>2, InitKept, NextKept, PTL
<1> QED
  BY <1>1, <1>2

\* Under the same condition whoever walks along the chains and the free list of
\* initBuffer and getblk finds them whole, whatever was found, evicted and claimed.
\* (With interrupts enabled, the clock can come between removeFromQueues and
\* insertIntoQueues, and inside them.)
THEOREM QueuesStayIntact == Spec => [](~Preemptible => QueuesIntact)
<1>1. Kept => QueuesIntact
  <2> SUFFICES ASSUME Kept PROVE QueuesIntact
    OBVIOUS
  <2>1. CASE \A p \in Clients : call[p].at # "insert"
    BY <2>1, QueuedIntact DEF Kept, InOrder, QueuesIntact
  <2>2. CASE \E p \in Clients : call[p].at = "insert"
    BY <2>2 DEF Kept, Claiming, Claimers, QueuesIntact
  <2> QED
    BY <2>1, <2>2
<1> QED
  BY <1>1, CacheInvariant, PTL

\* Under the same condition getblk never gives a block a second buffer: between its
\* last findBuffer and insertIntoQueues nobody else runs.
THEOREM BlockHasOneBuffer == Spec => [](~Preemptible => OneBufferPerBlock)
<1>1. Kept => OneBufferPerBlock
  BY DEF Kept
<1> QED
  BY <1>1, CacheInvariant, PTL

\* Under the same condition getblk gives no buffer to another block while a transfer
\* or a call that waits for a slot holds its lock.
THEOREM LockedStays == ~Preemptible /\ Spec => LockedKeepsBlock
<1> DEFINE A == \A b \in Bufs : b_lock[b] => b_block_nr'[b] = b_block_nr[b]
<1>1. Kept /\ [Next]_vars => [A]_vars
  <2> SUFFICES ASSUME Kept, [Next]_vars PROVE [A]_vars
    OBVIOUS
  <2>1. CASE \E p \in Clients : Insert(p)
    <3>1. PICK p \in Clients : Insert(p)
      BY <2>1
    <3>2. ~b_lock[call[p].bh] /\ call[p].bh \in Bufs
      BY <3>1 DEF Insert, At, Kept, Claiming, Claimers, Shapes, Shape, WithBuffer
    <3>3. \A b \in Bufs \ {call[p].bh} : b_block_nr'[b] = b_block_nr[b]
      BY <3>1 DEF Insert, Kept, Types
    <3> QED
      BY <3>2, <3>3
  <2>2. CASE ~ \E p \in Clients : Insert(p)
    <3>1. ASSUME NEW p \in Clients, Step(p) \/ Use(p) PROVE b_block_nr' = b_block_nr
      BY <2>2, <3>1 DEF Step, Use, Find, Hashed, Scan, LookAgain, Chosen, Sync, Slot, Claim,
                        Mark, Remove, Got, Wait, brelse, Release, bread, Modify, heads
    <3>2. ASSUME NEW b \in Bufs, NEW ok \in BOOLEAN, Complete(b, ok)
          PROVE  b_block_nr' = b_block_nr
      BY <3>2 DEF Complete
    <3>3. b_block_nr' = b_block_nr
      BY <3>1, <3>2 DEF Next, vars, heads
    <3> QED
      BY <3>3
  <2> QED
    BY <2>1, <2>2
<1> SUFFICES ASSUME ~Preemptible PROVE Spec => LockedKeepsBlock
  OBVIOUS
<1> QED
  BY <1>1, CacheInvariant, PTL DEF Spec, LockedKeepsBlock

---------------------------------------------------------------------------
(* The counts.                                                             *)

Users(b) == {p \in Clients : InUse(call[p]) /\ call[p].bh = b}

\* A call that uses a buffer finds its block in it, already while it waits in
\* getHashTable.
UsedKeepsBlock ==
  \A p \in Clients : InUse(call[p]) /\ call[p].at \notin Claimers =>
    b_block_nr[call[p].bh] = call[p].block

\* Nobody else uses the buffer that a call claims; it is clean, and in the end empty.
Ready ==
  \A p \in Clients : call[p].at \in Claimers =>
    /\ call[p].at \in {"claim", "mark"} => b_count[call[p].bh] = 0
    /\ ~b_dirt[call[p].bh]
    /\ call[p].at \in {"remove", "insert"} => ~b_uptodate[call[p].bh]
    /\ \A q \in Clients \ {p} : ~(InUse(call[q]) /\ call[q].bh = call[p].bh)

Counted == CountsAreUsers /\ UsedKeepsBlock /\ Ready

\* A call counts for a buffer or does not.
Uses(c, b) == IF InUse(c) /\ c.bh = b THEN 1 ELSE 0

\* Only finitely many calls use a buffer, since there are finitely many clients.
LEMMA UsersFinite ==
  ASSUME NEW b
  PROVE  IsFiniteSet(Users(b)) /\ IsFiniteSet(Users(b)')
<1>1. Users(b) \subseteq Clients /\ Users(b)' \subseteq Clients
  BY DEF Users
<1> QED
  BY <1>1, CacheAssumption, FS_Subset

\* Where every buffer's count changes as the call that moves demands, the
\* counts stay the numbers of users.
LEMMA CountsFollow ==
  ASSUME CountsAreUsers, NEW p \in Clients, OthersStay(p),
         \A b \in Bufs : b_count'[b] = b_count[b] + Uses(call'[p], b) - Uses(call[p], b)
  PROVE  CountsAreUsers'
<1> SUFFICES ASSUME NEW b \in Bufs PROVE b_count'[b] = Cardinality(Users(b)')
  BY DEF CountsAreUsers, Users, InUse
<1> DEFINE U == Users(b)
           V == Users(b)'
           W == U \ {p}
<1>1. b_count[b] = Cardinality(U)
  BY DEF CountsAreUsers, Users
<1>2. IsFiniteSet(U) /\ IsFiniteSet(V) /\ IsFiniteSet(W)
  BY UsersFinite, FS_Subset
<1>3. V \ {p} = W
  BY DEF OthersStay, Users, InUse, Using
<1>4. p \in U <=> InUse(call[p]) /\ call[p].bh = b
  BY DEF Users
<1>5. p \in V <=> InUse(call'[p]) /\ call'[p].bh = b
  BY DEF Users, InUse, Using
<1> HIDE DEF U, V
<1>6. Cardinality(W) = Cardinality(U) - (IF p \in U THEN 1 ELSE 0)
  BY <1>2, FS_RemoveElement, FS_CardinalityType
<1>7. Cardinality(W) = Cardinality(V) - (IF p \in V THEN 1 ELSE 0)
  BY <1>2, <1>3, FS_RemoveElement, FS_CardinalityType
<1>8. Cardinality(U) \in Nat /\ Cardinality(V) \in Nat
  BY <1>2, FS_CardinalityType
<1>9. b_count'[b] = Cardinality(V)
  BY <1>1, <1>4, <1>5, <1>6, <1>7, <1>8 DEF Uses
<1> QED
  BY <1>9 DEF V

\* Nobody uses a buffer whose count is 0.
LEMMA FreeHasNoUser ==
  ASSUME CountsAreUsers, NEW b \in Bufs
  PROVE  /\ b_count[b] \in Nat
         /\ b_count[b] = 0 => \A p \in Clients : ~(InUse(call[p]) /\ call[p].bh = b)
<1>1. b_count[b] = Cardinality(Users(b)) /\ IsFiniteSet(Users(b))
  BY UsersFinite DEF CountsAreUsers, Users
<1>2. b_count[b] \in Nat /\ (b_count[b] = 0 => Users(b) = {})
  BY <1>1, FS_CardinalityType, FS_EmptySet
<1> QED
  BY <1>2 DEF Users

\* The parts of Counted where the step claims nothing and drops no use.
LEMMA CountedFollows ==
  ASSUME Kept, Counted, ~Preemptible, NEW p \in Clients, NEW place, At(p, place),
         OthersStay(p), b_block_nr' = b_block_nr, call'[p].at \notin Claimers,
         InUse(call'[p]) => b_block_nr[call'[p].bh] = call'[p].block,
         \A b \in Bufs : b_count'[b] = b_count[b] + Uses(call'[p], b) - Uses(call[p], b)
  PROVE  Counted'
<1>1. CountsAreUsers'
  BY CountsFollow DEF Counted
<1>2. UsedKeepsBlock'
  BY DEF Counted, UsedKeepsBlock, OthersStay, InUse, Using
<1>3. Ready'
  BY OneClaims DEF Ready, OthersStay
<1> QED
  BY <1>1, <1>2, <1>3 DEF Counted

\* At the start nobody uses a buffer.
LEMMA InitCounted == Init => Counted
<1> SUFFICES ASSUME Init PROVE Counted
  OBVIOUS
<1>1. CountsAreUsers
  <2>1. \A b \in Bufs : Users(b) = {} /\ b_count[b] = 0
    BY DEF Init, Users, NoCall, InUse, Using
  <2> QED
    BY <2>1, FS_EmptySet DEF CountsAreUsers, Users
<1>2. UsedKeepsBlock /\ Ready
  BY DEF Init, UsedKeepsBlock, Ready, NoCall, InUse, Using, Claimers
<1> QED
  BY <1>1, <1>2 DEF Counted

\* The search counts what it finds before it waits for it; and what it waits for
\* keeps its block meanwhile.
LEMMA SearchCounted ==
  ASSUME Kept, Counted, ~Preemptible, NEW p \in Clients, Find(p) \/ Hashed(p)
  PROVE  Counted'
<1> DEFINE c == call[p]
<1>1. Types /\ c \in Calls /\ c.at \in {"find", "hashed"} /\ At(p, c.at)
  BY DEF Kept, Types, Find, Hashed, At
<1>2. c.block \in Blocks /\ b_block_nr' = b_block_nr
  BY <1>1 DEF Kept, Shapes, Shape, Find, Hashed
<1>3. \A b \in Bufs : b_count[b] \in Nat
  BY FreeHasNoUser DEF Counted
<1>4. b_count \in [Bufs -> Int]
  BY <1>1 DEF Types
<1>5. CASE Find(p)
  <2> DEFINE b == findBuffer(c.block)
  <2>1. At(p, "find") /\ c.at = "find"
    BY <1>5 DEF Find, At
  <2>2. b \in Bufs \cup {Nil} /\ (b # Nil => b_block_nr[b] = c.block)
    BY <1>2, <2>1, QueuesInOrder, Found
  <2> HIDE DEF b
  <2>3. CASE b = Nil
    <3>1. GotoAt(p, "scan") /\ b_count' = b_count
      BY <1>5, <2>3 DEF Find, b
    <3>2. OthersStay(p) /\ call'[p].at = "scan"
      BY <1>1, <3>1, PlaceAfter
    <3>3. \A x \in Bufs : b_count'[x] = b_count[x] + Uses(call'[p], x) - Uses(c, x)
      BY <1>3, <2>1, <3>1, <3>2 DEF Uses, InUse, Using
    <3> QED
      BY <1>1, <1>2, <3>2, <3>3, CountedFollows DEF InUse, Using, Claimers
  <2>4. CASE b # Nil
    <3>1. /\ Goto(p, [c EXCEPT !.at = "hashed", !.bh = b])
          /\ b_count' = [b_count EXCEPT ![b] = @ + 1]
      BY <1>5, <2>4 DEF Find, b
    <3>2. /\ OthersStay(p) /\ call'[p].at = "hashed"
          /\ call'[p].bh = b /\ call'[p].block = c.block
      <4> DEFINE d == [c EXCEPT !.at = "hashed", !.bh = b]
      <4>1. OthersStay(p) /\ call'[p] = d
        BY <1>1, <3>1, GotoAfter
      <4> QED
        BY <1>1, <4>1 DEF Calls
    <3>3. \A x \in Bufs : b_count'[x] = b_count[x] + Uses(call'[p], x) - Uses(c, x)
      BY <1>3, <1>4, <2>1, <2>2, <2>4, <3>1, <3>2 DEF Uses, InUse, Using
    <3> QED
      BY <1>1, <1>2, <2>2, <2>4, <3>2, <3>3, CountedFollows DEF Claimers
  <2> QED
    BY <2>3, <2>4
<1>6. CASE Hashed(p)
  <2>1. c.at = "hashed" /\ b_block_nr[c.bh] = c.block
    BY <1>6 DEF Hashed, At, Counted, UsedKeepsBlock, InUse, Using, Claimers
  <2>2. GotoAt(p, "got") /\ b_count' = b_count
    BY <1>6, <2>1 DEF Hashed
  <2>3. OthersStay(p) /\ call'[p].at = "got" /\ call'[p].bh = c.bh /\ call'[p].block = c.block
    BY <1>1, <2>2, PlaceAfter
  <2>4. \A x \in Bufs : b_count'[x] = b_count[x] + Uses(call'[p], x) - Uses(c, x)
    BY <1>3, <2>1, <2>2, <2>3 DEF Uses, InUse, Using
  <2> QED
    BY <1>1, <1>2, <2>1, <2>3, <2>4, CountedFollows DEF Claimers
<1> QED
  BY <1>5, <1>6

\* A call that moves on and changes no count, and claims nothing.
LEMMA MoveCounted ==
  ASSUME Kept, Counted, ~Preemptible, NEW p \in Clients, NEW place, At(p, place),
         OthersStay(p), UNCHANGED <<b_block_nr, b_count>>, call'[p].at \notin Claimers,
         InUse(call'[p]) <=> InUse(call[p]),
         InUse(call[p]) => /\ call[p].at \notin Claimers
                           /\ call'[p].bh = call[p].bh /\ call'[p].block = call[p].block
  PROVE  Counted'
<1>1. \A x \in Bufs : b_count[x] \in Nat
  BY FreeHasNoUser DEF Counted
<1>2. \A x \in Bufs : b_count'[x] = b_count[x] + Uses(call'[p], x) - Uses(call[p], x)
  BY <1>1 DEF Uses
<1>3. InUse(call'[p]) => b_block_nr[call'[p].bh] = call'[p].block
  BY DEF Counted, UsedKeepsBlock
<1> QED
  BY <1>2, <1>3, CountedFollows

\* Whatever keeps its buffer, or has none, leaves the counts alone.
LEMMA StayCounted ==
  ASSUME Kept, Counted, ~Preemptible, NEW p \in Clients,
         \/ Scan(p) \/ LookAgain(p) \/ Sync(p) \/ Slot(p) \/ Got(p) \/ Wait(p) \/ brelse(p)
         \/ (\E k \in Blocks : bread(p, k)) \/ (\E v \in Vals : Modify(p, v))
  PROVE  Counted'
<1> DEFINE c == call[p]
<1>1. /\ Types /\ c \in Calls /\ c.at \notin Claimers /\ At(p, c.at)
  BY DEF Kept, Types, Scan, LookAgain, Sync, Slot, Got, Wait, brelse, bread, Modify, At, Claimers
<1>2. UNCHANGED <<b_block_nr, b_count>>
  BY DEF Scan, LookAgain, Sync, Slot, Got, Wait, brelse, bread, Modify, heads
<1>3. Shape(c, b_block_nr)
  BY DEF Kept, Shapes
<1>4. ASSUME NEW d, Goto(p, d), d.at \notin Claimers, InUse(d) <=> InUse(c),
             InUse(c) => d.bh = c.bh /\ d.block = c.block
      PROVE  Counted'
  <2>1. OthersStay(p) /\ call'[p] = d
    BY <1>1, <1>4, GotoAfter
  <2> QED
    BY <1>1, <1>2, <1>4, <2>1, MoveCounted
<1>5. ASSUME NEW place, GotoAt(p, place), place \notin Claimers,
             (place \in Using \/ (place = "slot" /\ c.i = 0)) <=> InUse(c)
      PROVE  Counted'
  <2>1. /\ OthersStay(p) /\ call'[p].at = place /\ call'[p].bh = c.bh
        /\ call'[p].block = c.block /\ call'[p].i = c.i
    BY <1>1, <1>5, PlaceAfter
  <2>2. InUse(call'[p]) <=> InUse(c)
    BY <1>5, <2>1 DEF InUse
  <2> QED
    BY <1>1, <1>2, <1>5, <2>1, <2>2, MoveCounted
<1>6. CASE Scan(p)
  <2> DEFINE d == [c EXCEPT !.at = "chosen", !.bh = FreeList[Best]]
  <2>1. c.at = "scan" /\ (GotoAt(p, "space") \/ Goto(p, d))
    BY <1>6 DEF Scan, At
  <2>2. d.at = "chosen"
    BY <1>1 DEF Calls
  <2> QED
    BY <1>4, <1>5, <2>1, <2>2 DEF InUse, Using, Claimers
<1>7. CASE LookAgain(p)
  BY <1>5, <1>7 DEF LookAgain, At, InUse, Using, Claimers
<1>8. CASE Sync(p)
  <2> DEFINE d == [c EXCEPT !.at = "chosen", !.i = 0]
             e == [c EXCEPT !.i = c.i + 1]
  <2>1. /\ c.at = "sync" /\ c.i >= 1 /\ c.i \in Nat
        /\ GotoAt(p, "slot") \/ Goto(p, d) \/ Goto(p, e)
    <3>1. c.i \in Nat
      BY <1>1, Sizes DEF Calls
    <3> QED
      BY <1>3, <1>8, <3>1 DEF Sync, At, AwaitSlot, Shape
  <2>2. d.at = "chosen" /\ e.at = "sync"
    BY <1>1, <2>1 DEF Calls
  <2>3. ~InUse(c) /\ ~InUse(d) /\ ~InUse(e) /\ c.i # 0
    BY <2>1, <2>2 DEF InUse, Using
  <2> HIDE DEF d, e
  <2> QED
    BY <1>4, <1>5, <2>1, <2>2, <2>3 DEF Using, Claimers
<1>9. CASE Slot(p)
  <2> DEFINE e == [c EXCEPT !.at = "sync", !.i = c.i + 1]
  <2>1. c.at = "slot" /\ ((c.i = 0 /\ GotoAt(p, "wait")) \/ (c.i # 0 /\ Goto(p, e)))
    BY <1>9 DEF Slot, At
  <2>2. e.at = "sync" /\ ~InUse(e)
    BY <1>1 DEF Calls, InUse, Using
  <2> HIDE DEF e
  <2> QED
    BY <1>4, <1>5, <2>1, <2>2 DEF InUse, Using, Claimers
<1>10. CASE Got(p)
  <2>1. c.at = "got" /\ c.i = 0 /\ \E place \in {"hold", "wait", "slot"} : GotoAt(p, place)
    BY <1>3, <1>10 DEF Got, At, AwaitSlot, Shape
  <2> QED
    BY <1>5, <2>1 DEF InUse, Using, Claimers
<1>11. CASE Wait(p) \/ brelse(p)
  <2>1. c.at \in {"wait", "hold"} /\ \E place \in {"hold", "release"} : GotoAt(p, place)
    BY <1>11 DEF Wait, brelse, At
  <2> QED
    BY <1>5, <2>1 DEF InUse, Using, Claimers
<1>12. CASE \E k \in Blocks : bread(p, k)
  <2>1. PICK k \in Blocks : bread(p, k)
    BY <1>12
  <2> DEFINE d == [NoCall EXCEPT !.at = "find", !.block = k]
  <2>2. c.at = "idle" /\ Goto(p, d) /\ d.at = "find"
    BY <2>1 DEF bread, At, NoCall
  <2> QED
    BY <1>4, <2>2 DEF InUse, Using, Claimers
<1>13. CASE \E v \in Vals : Modify(p, v)
  <2>1. call' = call
    BY <1>13 DEF Modify
  <2> QED
    BY <1>1, <1>2, <2>1, MoveCounted DEF OthersStay
<1> QED
  BY <1>6, <1>7, <1>8, <1>9, <1>10, <1>11, <1>12, <1>13

\* Who goes on to claim the buffer saw it free, clean and unlocked.
LEMMA ChosenCounted ==
  ASSUME Kept, Counted, ~Preemptible, NEW p \in Clients, Chosen(p), Runs(p)
  PROVE  Counted'
<1> DEFINE c == call[p]
           b == c.bh
<1>1. /\ Types /\ c \in Calls /\ c.at = "chosen" /\ At(p, c.at) /\ b \in Bufs
  BY DEF Kept, Types, Chosen, At, Shapes, Shape, WithBuffer
<1>2. UNCHANGED <<b_block_nr, b_count, b_dirt, b_lock, b_uptodate>>
  BY DEF Chosen, heads
<1>3. \A x \in Bufs : b_count[x] \in Nat
  BY FreeHasNoUser DEF Counted
<1>4. CASE b_count[b] > 0 \/ b_dirt[b]
  <2> DEFINE d == [c EXCEPT !.at = "find", !.bh = Nil]
             e == [c EXCEPT !.at = "sync", !.i = 1]
  <2>1. Goto(p, d) \/ Goto(p, e)
    BY <1>1, <1>3, <1>4 DEF Chosen
  <2>2. OthersStay(p) /\ (call'[p] = d \/ call'[p] = e)
    BY <1>1, <2>1, GotoAfter
  <2>3. call'[p].at \in {"find", "sync"}
    BY <1>1, <2>2 DEF Calls
  <2> QED
    BY <1>1, <1>2, <2>2, <2>3, MoveCounted DEF InUse, Using, Claimers
<1>5. CASE ~(b_count[b] > 0 \/ b_dirt[b])
  <2>1. GotoAt(p, "claim")
    BY <1>5 DEF Chosen
  <2>2. OthersStay(p) /\ call'[p].at = "claim" /\ call'[p].bh = b
    BY <1>1, <2>1, PlaceAfter
  <2>3. \A x \in Bufs : b_count'[x] = b_count[x] + Uses(call'[p], x) - Uses(c, x)
    BY <1>1, <1>2, <1>3, <2>2 DEF Uses, InUse, Using
  <2>4. CountsAreUsers'
    BY <2>2, <2>3, CountsFollow DEF Counted
  <2>5. UsedKeepsBlock'
    BY <1>2, <2>2 DEF Counted, UsedKeepsBlock, OthersStay, InUse, Using, Claimers
  <2>6. b_count[b] = 0 /\ ~b_dirt[b] /\ \A q \in Clients : ~(InUse(call[q]) /\ call[q].bh = b)
    BY <1>1, <1>3, <1>5, FreeHasNoUser DEF Counted
  <2>7. \A q \in Clients \ {p} : call'[q].at \notin Claimers
    BY <1>1, <2>2, OneClaims DEF OthersStay
  <2>8. Ready'
    BY <1>2, <2>2, <2>6, <2>7 DEF Ready, OthersStay, InUse, Using
  <2> QED
    BY <2>4, <2>5, <2>8 DEF Counted
<1> QED
  BY <1>4, <1>5

\* A claim takes the buffer from nobody.
LEMMA ClaimCounted ==
  ASSUME Kept, Counted, ~Preemptible, NEW p \in Clients,
         Claim(p) \/ Mark(p) \/ Remove(p) \/ Insert(p)
  PROVE  Counted'
<1> DEFINE c == call[p]
           b == c.bh
           k == c.block
<1>1. /\ Types /\ c \in Calls /\ c.at \in Claimers /\ At(p, c.at) /\ b \in Bufs /\ k \in Blocks
  BY DEF Kept, Types, Claim, Mark, Remove, Insert, At, Shapes, Shape, WithBuffer, Claimers
<1>2. \A x \in Bufs : b_count[x] \in Nat
  BY FreeHasNoUser DEF Counted
<1>3. /\ c.at \in {"claim", "mark"} => b_count[b] = 0
      /\ ~b_dirt[b]
      /\ c.at \in {"remove", "insert"} => ~b_uptodate[b]
      /\ \A q \in Clients \ {p} : ~(InUse(call[q]) /\ call[q].bh = b)
  BY <1>1 DEF Counted, Ready
<1>4. \A q \in Clients \ {p} : call[q].at \notin Claimers
  BY <1>1, OneClaims
<1>5. b_count \in [Bufs -> Int] /\ b_dirt \in [Bufs -> BOOLEAN] /\ b_uptodate \in [Bufs -> BOOLEAN]
  BY <1>1 DEF Types
<1>6. CASE Goto(p, [c EXCEPT !.at = "find", !.bh = Nil]) /\ Claim(p)
  <2> DEFINE d == [c EXCEPT !.at = "find", !.bh = Nil]
  <2>1. OthersStay(p) /\ call'[p] = d
    BY <1>1, <1>6, GotoAfter
  <2>2. c.at = "claim" /\ call'[p].at = "find" /\ UNCHANGED <<b_block_nr, b_count>>
    BY <1>1, <1>6, <2>1 DEF Claim, At, heads, Calls
  <2> QED
    BY <1>1, <2>1, <2>2, MoveCounted DEF InUse, Using, Claimers
\* The counts and marks at the next place, if it is still one of the claim.
<1>7. ASSUME NEW place \in {"mark", "remove", "insert"}, GotoAt(p, place),
             b_block_nr' = b_block_nr,
             \A x \in Bufs \ {b} : b_count'[x] = b_count[x],
             b_count'[b] = b_count[b] + (IF place \in Using THEN 1 ELSE 0)
                                      - (IF c.at \in Using THEN 1 ELSE 0),
             place = "mark" => b_count'[b] = 0,
             ~b_dirt'[b], place # "mark" => ~b_uptodate'[b]
      PROVE  Counted'
  <2>1. OthersStay(p) /\ call'[p].at = place /\ call'[p].bh = b
    BY <1>1, <1>7, PlaceAfter
  <2>2. (InUse(call'[p]) <=> place \in Using) /\ (InUse(c) <=> c.at \in Using)
    BY <1>1, <1>7, <2>1 DEF InUse, Claimers
  <2>3. \A x \in Bufs : b_count'[x] = b_count[x] + Uses(call'[p], x) - Uses(c, x)
    BY <1>2, <1>7, <2>1, <2>2 DEF Uses
  <2>4. CountsAreUsers'
    BY <2>1, <2>3, CountsFollow DEF Counted
  <2>5. UsedKeepsBlock'
    BY <1>7, <2>1 DEF Counted, UsedKeepsBlock, OthersStay, InUse, Claimers
  <2>6. Ready'
    <3> SUFFICES ASSUME NEW q \in Clients, call'[q].at \in Claimers
                 PROVE  /\ call'[q].at \in {"claim", "mark"} => b_count'[call'[q].bh] = 0
                        /\ ~b_dirt'[call'[q].bh]
                        /\ call'[q].at \in {"remove", "insert"} => ~b_uptodate'[call'[q].bh]
                        /\ \A r \in Clients \ {q} : ~(InUse(call'[r]) /\ call'[r].bh = call'[q].bh)
      BY DEF Ready, InUse
    <3>1. q = p
      BY <1>4, <2>1 DEF OthersStay
    <3> QED
      BY <1>3, <1>7, <2>1, <3>1 DEF OthersStay
  <2> QED
    BY <2>4, <2>5, <2>6 DEF Counted
<1>8. CASE GotoAt(p, "mark") /\ Claim(p)
  <2>1. c.at = "claim" /\ UNCHANGED <<b_block_nr, b_count, b_dirt, b_uptodate>>
    BY <1>8 DEF Claim, At, heads
  <2> QED
    BY <1>2, <1>3, <1>7, <1>8, <2>1 DEF Using
<1>9. CASE Mark(p)
  <2>1. /\ c.at = "mark" /\ GotoAt(p, "remove") /\ b_block_nr' = b_block_nr
        /\ b_count' = [b_count EXCEPT ![b] = 1]
        /\ b_dirt' = [b_dirt EXCEPT ![b] = FALSE]
        /\ b_uptodate' = [b_uptodate EXCEPT ![b] = FALSE]
    BY <1>9 DEF Mark, At
  <2>2. b_count'[b] = 1 /\ ~b_dirt'[b] /\ ~b_uptodate'[b] /\ b_count[b] = 0
    BY <1>1, <1>3, <1>5, <2>1
  <2>3. \A x \in Bufs \ {b} : b_count'[x] = b_count[x]
    BY <1>5, <2>1
  <2> QED
    BY <1>7, <2>1, <2>2, <2>3 DEF Using
<1>10. CASE Remove(p)
  <2>1. /\ c.at = "remove" /\ GotoAt(p, "insert")
        /\ UNCHANGED <<b_block_nr, b_count, b_dirt, b_uptodate>>
    BY <1>10 DEF Remove, At, heads
  <2>2. b_count[b] = b_count[b] + 1 - 1
    BY <1>1, <1>2
  <2> QED
    BY <1>1, <1>3, <1>7, <2>1, <2>2 DEF Using
<1>11. CASE Insert(p)
  <2>1. /\ c.at = "insert" /\ GotoAt(p, "got") /\ b_count' = b_count
        /\ b_block_nr' = [b_block_nr EXCEPT ![b] = k]
    BY <1>11 DEF Insert, At
  <2>2. OthersStay(p) /\ call'[p].at = "got" /\ call'[p].bh = b /\ call'[p].block = k
    BY <1>1, <2>1, PlaceAfter
  <2>3. \A x \in Bufs : b_count'[x] = b_count[x] + Uses(call'[p], x) - Uses(c, x)
    BY <1>2, <2>1, <2>2 DEF Uses, InUse, Using
  <2>4. CountsAreUsers'
    BY <2>2, <2>3, CountsFollow DEF Counted
  <2>5. b_block_nr'[b] = k /\ \A x \in Bufs \ {b} : b_block_nr'[x] = b_block_nr[x]
    BY <1>1, <2>1 DEF Types
  <2>6. UsedKeepsBlock'
    <3> SUFFICES ASSUME NEW q \in Clients, InUse(call'[q]), call'[q].at \notin Claimers
                 PROVE  b_block_nr'[call'[q].bh] = call'[q].block
      BY DEF UsedKeepsBlock, InUse
    <3>1. CASE q = p
      BY <2>2, <2>5, <3>1
    <3>2. CASE q # p
      <4>1. call'[q] = call[q] /\ InUse(call[q]) /\ call[q].at \notin Claimers
        BY <2>2, <3>2 DEF OthersStay
      <4>2. call[q].bh \in Bufs /\ b_block_nr[call[q].bh] = call[q].block
        BY <4>1 DEF Kept, Shapes, Shape, WithBuffer, InUse, Counted, UsedKeepsBlock
      <4>3. call[q].bh # b
        BY <1>3, <3>2, <4>1
      <4> QED
        BY <2>5, <4>1, <4>2, <4>3
    <3> QED
      BY <3>1, <3>2
  <2>7. Ready'
    BY <1>4, <2>2 DEF Ready, OthersStay, Claimers
  <2> QED
    BY <2>4, <2>6, <2>7 DEF Counted
<1>12. Claim(p) => Goto(p, [c EXCEPT !.at = "find", !.bh = Nil]) \/ GotoAt(p, "mark")
  BY DEF Claim
<1> QED
  BY <1>6, <1>8, <1>9, <1>10, <1>11, <1>12

\* A release drops one use.
LEMMA ReleaseCounted ==
  ASSUME Kept, Counted, ~Preemptible, NEW p \in Clients, Release(p)
  PROVE  Counted'
<1> DEFINE c == call[p]
<1>1. /\ Types /\ c \in Calls /\ c.at = "release" /\ At(p, c.at) /\ c.bh \in Bufs
  BY DEF Kept, Types, Release, At, Shapes, Shape, WithBuffer, Using
<1>2. /\ b_block_nr' = b_block_nr /\ Goto(p, NoCall)
      /\ b_count' = [b_count EXCEPT ![c.bh] = @ - 1]
  BY DEF Release
<1>3. \A x \in Bufs : b_count[x] \in Nat
  BY FreeHasNoUser DEF Counted
<1>4. b_count \in [Bufs -> Int]
  BY <1>1 DEF Types
<1>5. OthersStay(p) /\ call'[p].at = "idle"
  BY <1>1, <1>2, GotoAfter DEF NoCall
<1>6. \A x \in Bufs : b_count'[x] = b_count[x] + Uses(call'[p], x) - Uses(c, x)
  BY <1>1, <1>2, <1>3, <1>4, <1>5 DEF Uses, InUse, Using
<1> QED
  BY <1>1, <1>2, <1>5, <1>6, CountedFollows DEF InUse, Using, Claimers

\* Every step keeps the second invariant.
LEMMA NextCounted == ~Preemptible /\ Kept /\ Counted /\ [Next]_vars => Counted'
<1> SUFFICES ASSUME ~Preemptible, Kept, Counted, [Next]_vars PROVE Counted'
  OBVIOUS
<1>1. ASSUME NEW p \in Clients, Step(p) PROVE Counted'
  BY <1>1, SearchCounted, ChosenCounted, ClaimCounted, StayCounted, ReleaseCounted DEF Step
<1>2. ASSUME NEW p \in Clients, Use(p) PROVE Counted'
  BY <1>2, StayCounted DEF Use
<1>3. ASSUME NEW b \in Bufs, NEW ok \in BOOLEAN, Complete(b, ok) PROVE Counted'
  <2>1. /\ UNCHANGED <<b_block_nr, b_count, b_dirt, call>>
        /\ b_uptodate' = [b_uptodate EXCEPT ![b] = ok]
    BY <1>3 DEF Complete
  <2>2. CountsAreUsers' /\ UsedKeepsBlock'
    BY <2>1 DEF Counted, CountsAreUsers, UsedKeepsBlock, InUse
  <2>3. \A p \in Clients : call[p].at \in Claimers => call[p].bh \in Bufs \ {b}
    BY <1>3 DEF Complete, Kept, Shapes, Shape, WithBuffer, Claiming, Locks
  <2>4. Ready'
    BY <2>1, <2>3 DEF Kept, Types, Counted, Ready, InUse
  <2> QED
    BY <2>2, <2>4 DEF Counted
<1>4. CASE UNCHANGED vars
  BY <1>4 DEF vars, heads, Counted, CountsAreUsers, UsedKeepsBlock, Ready, InUse
<1> QED
  BY <1>1, <1>2, <1>3, <1>4 DEF Next

\* As long as getblk is not interrupted, b_count is the number of the calls that use the
\* buffer, and each of them finds in it the block that it asked for.
THEOREM CacheCounts == Spec => [](~Preemptible => Counted)
<1> USE DEF Spec
<1>1. CASE Preemptible
  BY <1>1, PTL
<1>2. CASE ~Preemptible
  BY <1>2, InitCounted, NextCounted, CacheInvariant, PTL
<1> QED
  BY <1>1, <1>2

\* The types, with the number of clients as the bound of every count.
THEOREM CacheType == Spec => [](~Preemptible => TypeOK)
<1>1. Kept /\ Counted => TypeOK
  <2> SUFFICES ASSUME Kept, Counted PROVE TypeOK
    OBVIOUS
  <2>1. ASSUME NEW b \in Bufs PROVE b_count[b] \in 0 .. Cardinality(Clients)
    <3>1. b_count[b] = Cardinality(Users(b)) /\ Users(b) \subseteq Clients
      BY DEF Counted, CountsAreUsers, Users
    <3>2. /\ Cardinality(Users(b)) <= Cardinality(Clients)
          /\ Cardinality(Users(b)) \in Nat /\ Cardinality(Clients) \in Nat
      BY <3>1, CacheAssumption, FS_Subset, FS_CardinalityType
    <3> QED
      BY <3>1, <3>2
  <2>2. b_count \in [Bufs -> 0 .. Cardinality(Clients)]
    BY <2>1 DEF Kept, Types
  <2> QED
    BY <2>2 DEF Kept, Types, TypeOK, Calls
<1> QED
  BY <1>1, CacheInvariant, CacheCounts, PTL

\* b_count is the number of users: getblk never takes a buffer from somebody,
\* and no brelse drops a use twice.
THEOREM CountsAreRight == Spec => [](~Preemptible => CountsAreUsers)
<1>1. Counted => CountsAreUsers
  BY DEF Counted
<1> QED
  BY <1>1, CacheCounts, PTL

\* A client that got its buffer finds its block in it as long as it uses it.
THEOREM ClientKeepsBlock == Spec => [](~Preemptible => BufferKeepsBlock)
<1>1. Counted => BufferKeepsBlock
  <2> SUFFICES ASSUME Counted, NEW p \in Clients, HasBlock(call[p])
               PROVE  b_block_nr[call[p].bh] = call[p].block
    BY DEF BufferKeepsBlock
  <2>1. InUse(call[p]) /\ call[p].at \notin Claimers
    BY DEF HasBlock, InUse, Using, Claimers
  <2> QED
    BY <2>1 DEF Counted, UsedKeepsBlock
<1> QED
  BY <1>1, CacheCounts, PTL

---------------------------------------------------------------------------
(* Without failing writes.                                                 *)

\* What the marks of a buffer say about its contents.
Contained ==
  \A b \in Bufs :
    /\ b_uptodate[b] => b_block_nr[b] # Nil
    /\ b_dirt[b] => b_uptodate[b]
    /\ request[b] = "READ" => ~b_uptodate[b]
    /\ request[b] = "WRITE" => b_uptodate[b]
    /\ b_uptodate[b] /\ ~b_dirt[b] /\ request[b] # "WRITE" => b_data[b] = disk[b_block_nr[b]]

\* A client that holds a buffer finds the contents in it.
HeldIsUptodate ==
  \A p \in Clients : call[p].at = "hold" => b_uptodate[call[p].bh]

\* A call that sleeps for a slot is to read a buffer without contents, or to write one
\* with them.
AwaitedFits ==
  \A p \in Clients : call[p].at = "slot" => (b_uptodate[SlotOf(call[p])] <=> call[p].i # 0)

Sound == Contained /\ HeldIsUptodate /\ AwaitedFits

\* At the start no buffer is up to date or dirty.
LEMMA InitSound == Init => Sound
  BY CacheAssumption DEF Init, Sound, Contained, HeldIsUptodate, AwaitedFits, NoCall

\* A call gets to hold a buffer only at the end of getblk or of its wait, where
\* it finds the contents in it; and it sleeps for a slot only to read what is not
\* there or to write what was modified.
LEMMA HoldsUptodate ==
  ASSUME Kept, NEW p \in Clients,
         \/ Step(p) \/ (\E k \in Blocks : bread(p, k)) \/ (\E v \in Vals : Modify(p, v))
  PROVE  /\ OthersStay(p)
         /\ call'[p].at = "hold" =>
              \/ call'[p] = call[p]
              \/ /\ Got(p) \/ Wait(p)
                 /\ call[p].at \in {"got", "wait"} /\ call'[p].bh = call[p].bh
                 /\ call'[p].block = call[p].block /\ b_uptodate[call[p].bh]
         /\ call'[p].at = "slot" =>
              /\ call'[p].bh = call[p].bh /\ call'[p].i = call[p].i
              /\ SlotOf(call[p]) \in Bufs
              /\ call[p].i = 0 => ~b_uptodate[SlotOf(call[p])]
              /\ call[p].i # 0 => b_dirt[SlotOf(call[p])]
<1> DEFINE c == call[p]
<1>1. Types /\ c \in Calls /\ call \in [Clients -> Calls]
  BY DEF Kept, Types
<1>2. ASSUME NEW place, place \notin {"hold", "slot"}, GotoAt(p, place)
      PROVE  OthersStay(p) /\ call'[p].at \notin {"hold", "slot"}
  BY <1>1, <1>2, PlaceAfter
<1>3. ASSUME NEW b, SlotOf(c) = b, AwaitSlot(p, b), c.at \in {"sync", "got"}
      PROVE  /\ OthersStay(p) /\ call'[p].at = "slot"
             /\ call'[p].bh = c.bh /\ call'[p].i = c.i /\ b \in Bufs
  <2>1. c.bh \in Bufs
    BY <1>3 DEF Kept, Shapes, Shape, WithBuffer, Using
  <2> QED
    BY <1>1, <1>3, <2>1, PlaceAfter, VisitedBuffer DEF AwaitSlot, SlotOf
<1>4. ASSUME NEW d, d.at \notin {"hold", "slot"}, Goto(p, d)
      PROVE  OthersStay(p) /\ call'[p].at \notin {"hold", "slot"}
  BY <1>1, <1>4, GotoAfter
<1>5. CASE Find(p)
  <2> DEFINE d == [c EXCEPT !.at = "hashed", !.bh = findBuffer(c.block)]
  <2>1. GotoAt(p, "scan") \/ Goto(p, d)
    BY <1>5 DEF Find
  <2>2. d.at = "hashed"
    BY <1>1 DEF Calls
  <2> QED
    BY <1>2, <1>4, <2>1, <2>2
<1>6. CASE Hashed(p) \/ Claim(p)
  <2> DEFINE d == [c EXCEPT !.at = "find", !.bh = Nil]
  <2>1. (\E place \in {"got", "mark"} : GotoAt(p, place)) \/ Goto(p, d)
    BY <1>6 DEF Hashed, Claim
  <2>2. d.at = "find"
    BY <1>1 DEF Calls
  <2> QED
    BY <1>2, <1>4, <2>1, <2>2
<1>7. CASE Scan(p)
  <2> DEFINE d == [c EXCEPT !.at = "chosen", !.bh = FreeList[Best]]
  <2>1. GotoAt(p, "space") \/ Goto(p, d)
    BY <1>7 DEF Scan
  <2>2. d.at = "chosen"
    BY <1>1 DEF Calls
  <2> QED
    BY <1>2, <1>4, <2>1, <2>2
<1>8. CASE Chosen(p)
  <2> DEFINE d == [c EXCEPT !.at = "find", !.bh = Nil]
             e == [c EXCEPT !.at = "sync", !.i = 1]
  <2>1. GotoAt(p, "claim") \/ Goto(p, d) \/ Goto(p, e)
    BY <1>8 DEF Chosen
  <2>2. d.at = "find" /\ e.at = "sync"
    BY <1>1 DEF Calls
  <2> QED
    BY <1>2, <1>4, <2>1, <2>2
<1>9. CASE Sync(p)
  <2> DEFINE d == [c EXCEPT !.at = "chosen", !.i = 0]
             e == [c EXCEPT !.i = c.i + 1]
             b == Visited(c.i)
  <2>1. c.at = "sync" /\ c.i # 0 /\ SlotOf(c) = b
    <3>1. c.i \in Nat /\ c.at = "sync" /\ c.i >= 1
      BY <1>1, <1>9, Sizes DEF Sync, At, Calls, Kept, Shapes, Shape
    <3> QED
      BY <3>1 DEF SlotOf
  <2>2. d.at = "chosen" /\ e.at = "sync"
    BY <1>1, <2>1 DEF Calls
  <2>3. Goto(p, d) \/ Goto(p, e) \/ (b_dirt[b] /\ AwaitSlot(p, b))
    BY <1>9 DEF Sync
  <2> HIDE DEF d, e, b
  <2>4. CASE Goto(p, d) \/ Goto(p, e)
    BY <1>4, <2>2, <2>4
  <2>5. CASE b_dirt[b] /\ AwaitSlot(p, b)
    BY <1>3, <2>1, <2>5
  <2> QED
    BY <2>3, <2>4, <2>5
<1>10. CASE Got(p) \/ Wait(p)
  <2>1. \/ GotoAt(p, "hold") /\ b_uptodate[c.bh]
        \/ \E place \in {"wait", "release"} : GotoAt(p, place)
        \/ c.at = "got" /\ ~b_uptodate[c.bh] /\ AwaitSlot(p, c.bh)
    BY <1>10 DEF Got, Wait, At
  <2>2. c.at \in {"got", "wait"}
    BY <1>10 DEF Got, Wait, At
  <2>3. CASE GotoAt(p, "hold") /\ b_uptodate[c.bh]
    <3>1. /\ OthersStay(p) /\ call'[p].at = "hold"
          /\ call'[p].bh = c.bh /\ call'[p].block = c.block
      BY <1>1, <2>3, PlaceAfter
    <3> QED
      BY <1>10, <2>2, <2>3, <3>1
  <2>4. CASE \E place \in {"wait", "release"} : GotoAt(p, place)
    BY <1>2, <2>4
  <2>5. CASE c.at = "got" /\ ~b_uptodate[c.bh] /\ AwaitSlot(p, c.bh)
    <3>1. c.i = 0 /\ SlotOf(c) = c.bh
      BY <2>5 DEF Kept, Shapes, Shape, SlotOf
    <3> QED
      BY <1>3, <2>5, <3>1
  <2> QED
    BY <2>1, <2>3, <2>4, <2>5
<1>11. CASE LookAgain(p) \/ Mark(p) \/ Remove(p) \/ Insert(p) \/ brelse(p)
  <2>1. \E place \in {"find", "remove", "insert", "got", "release"} : GotoAt(p, place)
    BY <1>11 DEF LookAgain, Mark, Remove, Insert, brelse
  <2> QED
    BY <1>2, <2>1
<1>12. CASE Release(p)
  BY <1>4, <1>12 DEF Release, NoCall
<1>13. CASE \E k \in Blocks : bread(p, k)
  <2>1. PICK k \in Blocks : bread(p, k)
    BY <1>13
  <2> DEFINE d == [NoCall EXCEPT !.at = "find", !.block = k]
  <2>2. Goto(p, d) /\ d.at = "find"
    BY <2>1 DEF bread, NoCall
  <2> QED
    BY <1>4, <2>2
<1>14. CASE \E v \in Vals : Modify(p, v)
  BY <1>14 DEF Modify, At, OthersStay
<1>15. CASE Slot(p)
  <2> DEFINE e == [c EXCEPT !.at = "sync", !.i = c.i + 1]
  <2>1. GotoAt(p, "wait") \/ Goto(p, e)
    BY <1>15 DEF Slot
  <2>2. e.at = "sync"
    BY <1>1 DEF Calls
  <2> QED
    BY <1>2, <1>4, <2>1, <2>2
<1> QED
  BY <1>5, <1>6, <1>7, <1>8, <1>9, <1>10, <1>11, <1>12, <1>13, <1>14, <1>15 DEF Step

\* Where the marks of the buffers stay, a new holder has found its contents, and a
\* new sleeper what its transfer needs.
LEMMA HeldFollows ==
  ASSUME Kept, Sound, NEW p \in Clients,
         \/ Step(p) \/ (\E k \in Blocks : bread(p, k)) \/ (\E v \in Vals : Modify(p, v)),
         b_uptodate' = b_uptodate
  PROVE  HeldIsUptodate' /\ AwaitedFits'
<1>1. HeldIsUptodate'
  BY HoldsUptodate DEF Sound, HeldIsUptodate, OthersStay
<1>2. ASSUME NEW q \in Clients, call'[q].at = "slot"
      PROVE  b_uptodate[SlotOf(call'[q])] <=> call'[q].i # 0
  <2>1. CASE q # p
    BY <1>2, <2>1, HoldsUptodate DEF Sound, AwaitedFits, OthersStay
  <2>2. CASE q = p
    <3>1. /\ call'[p].bh = call[p].bh /\ call'[p].i = call[p].i
          /\ SlotOf(call[p]) \in Bufs
          /\ call[p].i = 0 => ~b_uptodate[SlotOf(call[p])]
          /\ call[p].i # 0 => b_dirt[SlotOf(call[p])]
      BY <1>2, <2>2, HoldsUptodate
    <3>2. SlotOf(call'[p]) = SlotOf(call[p])
      BY <3>1 DEF SlotOf
    <3> QED
      BY <2>2, <3>1, <3>2 DEF Sound, Contained
  <2> QED
    BY <2>1, <2>2
<1>3. AwaitedFits'
  BY <1>2 DEF AwaitedFits, SlotOf
<1> QED
  BY <1>1, <1>3

\* A step that touches no buffer but for its count.
LEMMA SearchSound ==
  ASSUME Kept, Sound, NEW p \in Clients,
         \/ Find(p) \/ Hashed(p) \/ Scan(p) \/ LookAgain(p) \/ Chosen(p) \/ Claim(p)
         \/ Remove(p) \/ Wait(p) \/ brelse(p) \/ Release(p)
         \/ (\E k \in Blocks : bread(p, k)),
         Step(p) \/ (\E k \in Blocks : bread(p, k))
  PROVE  Sound'
<1>1. UNCHANGED <<b_block_nr, b_dirt, b_uptodate, b_data, request, disk>>
  BY DEF Find, Hashed, Scan, LookAgain, Chosen, Claim, Remove, Wait, brelse, Release, bread,
         heads, device
<1>2. Contained'
  BY <1>1 DEF Sound, Contained
<1>3. HeldIsUptodate' /\ AwaitedFits'
  BY <1>1, HeldFollows
<1> QED
  BY <1>2, <1>3 DEF Sound

\* A transfer to the device writes contents, one from it reads into a buffer
\* that has none.
LEMMA SubmitSound ==
  ASSUME Kept, Sound, NEW p \in Clients, Sync(p) \/ Slot(p) \/ Got(p), Step(p)
  PROVE  Sound'
<1> DEFINE c == call[p]
<1>1. UNCHANGED <<b_block_nr, b_uptodate, b_data, disk>> /\ Types
  BY DEF Sync, Slot, Got, Kept
<1>2. HeldIsUptodate' /\ AwaitedFits'
  BY <1>1, HeldFollows
<1>3. c.at \in {"sync", "slot", "got"} => c.bh \in Bufs /\ SlotOf(c) \in Bufs
  BY <1>1, VisitedBuffer DEF Types, Kept, Shapes, Shape, WithBuffer, Using
<1>4. \/ UNCHANGED <<b_dirt, request>>
      \/ \E b \in Bufs : b_uptodate[b] /\ Submit(b, "WRITE")
      \/ \E b \in Bufs : ~b_uptodate[b] /\ Submit(b, "READ")
  <2>1. CASE Sync(p)
    <3>1. c.at = "sync" /\ c.i \in Nat /\ c.i >= 1
      BY <1>1, <2>1, Sizes DEF Sync, At, Kept, Types, Calls, Shapes, Shape
    <3>2. Visited(c.i) \in Bufs
      BY <3>1, VisitedBuffer
    <3>3. \/ UNCHANGED <<b_dirt, request>>
          \/ b_dirt[Visited(c.i)] /\ Submit(Visited(c.i), "WRITE")
      BY <2>1 DEF Sync, AwaitSlot
    <3> QED
      BY <3>2, <3>3 DEF Sound, Contained
  <2>2. CASE Slot(p)
    <3>1. c.at = "slot"
      BY <2>2 DEF Slot, At
    <3>2. c.i = 0 => Submit(SlotOf(c), "READ")
      BY <2>2 DEF Slot, SlotOf
    <3>3. c.i # 0 => Submit(SlotOf(c), "WRITE")
      BY <2>2 DEF Slot, SlotOf
    <3>4. SlotOf(c) \in Bufs /\ (b_uptodate[SlotOf(c)] <=> c.i # 0)
      BY <1>3, <3>1 DEF Sound, AwaitedFits
    <3> QED
      BY <3>2, <3>3, <3>4
  <2>3. CASE Got(p)
    <3>1. c.bh \in Bufs
      BY <1>3, <2>3 DEF Got, At
    <3> QED
      BY <2>3, <3>1 DEF Got, AwaitSlot
  <2> QED
    BY <2>1, <2>2, <2>3
<1>5. Contained'
  <2>1. CASE UNCHANGED <<b_dirt, request>>
    BY <1>1, <2>1 DEF Sound, Contained
  <2>2. CASE \E b \in Bufs : b_uptodate[b] /\ Submit(b, "WRITE")
    BY <1>1, <2>2 DEF Types, Submit, Sound, Contained
  <2>3. CASE \E b \in Bufs : ~b_uptodate[b] /\ Submit(b, "READ")
    BY <1>1, <2>3 DEF Types, Submit, Sound, Contained
  <2> QED
    BY <1>4, <2>1, <2>2, <2>3
<1> QED
  BY <1>2, <1>5 DEF Sound

\* The buffer that getblk empties is locked by nobody and held by nobody.
LEMMA MarkSound ==
  ASSUME Kept, Counted, Sound, NEW p \in Clients, Mark(p)
  PROVE  Sound'
<1> DEFINE b == call[p].bh
<1>1. /\ UNCHANGED <<b_block_nr, b_data, request, disk>> /\ Types
      /\ call[p].at = "mark" /\ b \in Bufs /\ GotoAt(p, "remove")
      /\ b_dirt' = [b_dirt EXCEPT ![b] = FALSE]
      /\ b_uptodate' = [b_uptodate EXCEPT ![b] = FALSE]
  BY DEF Mark, At, Kept, Shapes, Shape, WithBuffer, Claimers, device
<1>2. /\ request[b] = Nil
      /\ \A q \in Clients \ {p} : ~(InUse(call[q]) /\ call[q].bh = b) /\ ~Holds(call[q], b)
  BY <1>1 DEF Kept, Claiming, Claimers, Locks, Counted, Ready
<1>3. Contained'
  BY <1>1, <1>2, CacheAssumption DEF Types, Sound, Contained
<1>4. OthersStay(p) /\ call'[p].at = "remove"
  BY <1>1, PlaceAfter
<1>5. HeldIsUptodate'
  <2> SUFFICES ASSUME NEW q \in Clients, call'[q].at = "hold"
               PROVE  b_uptodate'[call'[q].bh]
    BY DEF HeldIsUptodate
  <2>1. q # p /\ call'[q] = call[q] /\ call[q].at = "hold"
    BY <1>4 DEF OthersStay
  <2>2. call[q].bh \in Bufs \ {b} /\ b_uptodate[call[q].bh]
    BY <1>2, <2>1 DEF InUse, Using, Kept, Shapes, Shape, WithBuffer, Sound, HeldIsUptodate
  <2> QED
    BY <1>1, <2>1, <2>2 DEF Types
<1>6. AwaitedFits'
  <2> SUFFICES ASSUME NEW q \in Clients, call'[q].at = "slot"
               PROVE  b_uptodate'[SlotOf(call'[q])] <=> call'[q].i # 0
    BY DEF AwaitedFits, SlotOf
  <2>1. q # p /\ call'[q] = call[q] /\ call[q].at = "slot"
    BY <1>4 DEF OthersStay
  <2>2. SlotOf(call[q]) \in Bufs \ {b}
    BY <1>1, <1>2, <2>1, VisitedBuffer DEF Holds, Types, Kept, Shapes, Shape, WithBuffer
  <2> QED
    BY <1>1, <2>1, <2>2 DEF Types, Sound, AwaitedFits
<1> QED
  BY <1>3, <1>5, <1>6 DEF Sound

\* The buffer that gets a new block is empty.
LEMMA InsertSound ==
  ASSUME Kept, Counted, Sound, NEW p \in Clients, Insert(p), Step(p)
  PROVE  Sound'
<1> DEFINE b == call[p].bh
           k == call[p].block
<1>1. /\ UNCHANGED <<b_dirt, b_uptodate, b_data, request, disk>> /\ Types
      /\ call[p].at = "insert" /\ b \in Bufs /\ b_block_nr' = [b_block_nr EXCEPT ![b] = k]
  BY DEF Insert, At, Kept, Shapes, Shape, WithBuffer, Claimers, device
<1>2. request[b] = Nil /\ ~b_uptodate[b] /\ ~b_dirt[b]
  BY <1>1 DEF Kept, Claiming, Claimers, Locks, Counted, Ready
<1>3. Contained'
  BY <1>1, <1>2, CacheAssumption DEF Types, Sound, Contained
<1>4. HeldIsUptodate' /\ AwaitedFits'
  BY <1>1, HeldFollows
<1> QED
  BY <1>3, <1>4 DEF Sound

\* A client changes the contents of a buffer that has them.
LEMMA ModifySound ==
  ASSUME Kept, Sound, NEW p \in Clients, NEW v \in Vals, Modify(p, v)
  PROVE  Sound'
<1> DEFINE b == call[p].bh
<1>1. /\ UNCHANGED <<b_block_nr, b_uptodate, request, disk, call>> /\ Types /\ b \in Bufs
      /\ b_data' = [b_data EXCEPT ![b] = v] /\ b_dirt' = [b_dirt EXCEPT ![b] = TRUE]
      /\ b_uptodate[b]
  BY DEF Modify, At, Kept, Shapes, Shape, WithBuffer, Using, device, Sound, HeldIsUptodate
<1> QED
  BY <1>1 DEF Types, Sound, Contained, HeldIsUptodate, AwaitedFits, SlotOf

\* The end of a transfer that, if it writes, does not fail.
LEMMA CompleteSound ==
  ASSUME Kept, Sound, NEW b \in Bufs, NEW ok \in BOOLEAN, Complete(b, ok),
         "WRITE" \notin Failures
  PROVE  Sound'
<1> DEFINE k == b_block_nr[b]
<1>1. /\ UNCHANGED <<b_block_nr, b_dirt, call>> /\ Types
      /\ b_uptodate' = [b_uptodate EXCEPT ![b] = ok]
      /\ request' = [request EXCEPT ![b] = Nil]
      /\ k \in Blocks /\ request[b] \in {"READ", "WRITE"}
  BY DEF Complete, Kept, Types, Locks
<1>2. \A x \in Bufs \ {b} : b_block_nr[x] # k
  BY <1>1, Sizes DEF Kept, OneBufferPerBlock
<1>3. AwaitedFits'
  <2> SUFFICES ASSUME NEW q \in Clients, call[q].at = "slot"
               PROVE  b_uptodate'[SlotOf(call[q])] <=> call[q].i # 0
    BY <1>1 DEF AwaitedFits, SlotOf
  <2>1. request[b] # Nil
    BY <1>1, CacheAssumption
  <2>2. call[q] \in Calls /\ call[q].bh \in Bufs
    BY DEF Types, Kept, Shapes, Shape, WithBuffer
  <2>3. SlotOf(call[q]) \in Bufs /\ ~Holds(call[q], b)
    BY <2>1, <2>2, VisitedBuffer DEF Kept, Locks
  <2>4. SlotOf(call[q]) # b
    BY <2>3 DEF Holds
  <2> QED
    BY <1>1, <2>3, <2>4 DEF Types, Sound, AwaitedFits
<1>4. CASE request[b] = "READ"
  <2>1. /\ ~b_uptodate[b] /\ ~b_dirt[b] /\ disk' = disk
        /\ b_data' = IF ok THEN [b_data EXCEPT ![b] = disk[k]] ELSE b_data
    BY <1>4 DEF Complete, Sound, Contained
  <2>2. Contained'
    BY <1>1, <2>1, Sizes, CacheAssumption DEF Types, Sound, Contained
  <2>3. HeldIsUptodate'
    BY <1>1, <2>1 DEF Types, Sound, HeldIsUptodate
  <2> QED
    BY <1>3, <2>2, <2>3 DEF Sound
<1>5. CASE request[b] = "WRITE"
  <2>1. /\ ok /\ b_uptodate[b] /\ b_data' = b_data
        /\ disk' = [disk EXCEPT ![k] = b_data[b]]
    BY <1>5 DEF Complete, Sound, Contained
  <2>2. \A x \in Bufs : disk'[b_block_nr[x]] = IF x = b THEN b_data[b] ELSE disk[b_block_nr[x]]
    BY <1>1, <1>2, <2>1 DEF Types
  <2>3. Contained'
    BY <1>1, <2>1, <2>2, Sizes, CacheAssumption DEF Types, Sound, Contained
  <2>4. HeldIsUptodate'
    BY <1>1, <2>1 DEF Types, Sound, HeldIsUptodate
  <2> QED
    BY <1>3, <2>3, <2>4 DEF Sound
<1> QED
  BY <1>1, <1>4, <1>5

\* Every step keeps the third invariant.
LEMMA NextSound ==
  "WRITE" \notin Failures /\ Kept /\ Counted /\ Sound /\ [Next]_vars => Sound'
<1> SUFFICES ASSUME "WRITE" \notin Failures, Kept, Counted, Sound, [Next]_vars PROVE Sound'
  OBVIOUS
<1>1. ASSUME NEW p \in Clients, Step(p) PROVE Sound'
  BY <1>1, SearchSound, SubmitSound, MarkSound, InsertSound DEF Step
<1>2. ASSUME NEW p \in Clients, Use(p) PROVE Sound'
  BY <1>2, SearchSound, ModifySound DEF Use
<1>3. ASSUME NEW b \in Bufs, NEW ok \in BOOLEAN, Complete(b, ok) PROVE Sound'
  BY <1>3, CompleteSound
<1>4. CASE UNCHANGED vars
  BY <1>4 DEF vars, heads, device, Sound, Contained, HeldIsUptodate, AwaitedFits, SlotOf
<1> QED
  BY <1>1, <1>2, <1>3, <1>4 DEF Next

---------------------------------------------------------------------------
(* The store of blocks.                                                    *)

\* The block each client has open, as the mapping to BlockStore has it.
Opened == [p \in Clients |-> IF call[p].at = "hold" THEN call[p].block ELSE Nil]

\* The contents of a block are those of its buffer, if that has any.
StoreIs ==
  /\ Store = [k \in Blocks |-> Store[k]]
  /\ \A k \in Blocks, b \in Bufs : b_block_nr[b] = k /\ b_uptodate[b] => Store[k] = b_data[b]
  /\ \A k \in Blocks :
       (\A b \in Bufs : ~(b_block_nr[b] = k /\ b_uptodate[b])) => Store[k] = disk[k]

\* A block of Store is the one in its buffer, or on the disk, which does not depend on
\* the buffer chosen.
LEMMA StoreOf == Kept => StoreIs
<1> SUFFICES ASSUME Kept PROVE StoreIs
  OBVIOUS
<1> DEFINE cached(k) == {b \in Bufs : b_block_nr[b] = k /\ b_uptodate[b]}
           F(k) == IF cached(k) = {} THEN disk[k] ELSE b_data[CHOOSE b \in cached(k) : TRUE]
<1>1. Store = [k \in Blocks |-> F(k)]
  BY DEF Store
<1>2. Store = [k \in Blocks |-> Store[k]]
  BY <1>1
<1>3. ASSUME NEW k \in Blocks, NEW b \in Bufs, b_block_nr[b] = k /\ b_uptodate[b]
      PROVE  Store[k] = b_data[b]
  <2>1. cached(k) = {b}
    BY <1>3, Sizes DEF Kept, OneBufferPerBlock
  <2> HIDE DEF cached
  <2>2. F(k) = b_data[b]
    BY <2>1
  <2> QED
    BY <1>1, <2>2
<1>4. ASSUME NEW k \in Blocks, \A b \in Bufs : ~(b_block_nr[b] = k /\ b_uptodate[b])
      PROVE  Store[k] = disk[k]
  BY <1>1, <1>4
<1> QED
  BY <1>2, <1>3, <1>4 DEF StoreIs

\* The same after a step.
LEMMA StoreOfNext == Kept' => StoreIs'
  BY StoreOf, PTL

\* Contents that nothing has changed.
LEMMA StoreSame ==
  ASSUME StoreIs, StoreIs', \A k \in Blocks : Store'[k] = Store[k]
  PROVE  Store' = Store
  BY DEF StoreIs

\* A step that touches no buffer with contents and not the device changes no
\* block.
LEMMA StoreStays ==
  ASSUME Kept, Kept', UNCHANGED <<b_block_nr, b_uptodate, b_data, disk>>
  PROVE  Store' = Store
  BY DEF Store

\* The buffer that getblk empties has the contents of the device, or none.
LEMMA StoreMarked ==
  ASSUME Kept, Kept', Counted, Sound, NEW p \in Clients, Mark(p)
  PROVE  Store' = Store
<1> DEFINE b == call[p].bh
<1>1. /\ UNCHANGED <<b_block_nr, b_data, disk>> /\ Types /\ call[p].at = "mark" /\ b \in Bufs
      /\ b_uptodate' = [b_uptodate EXCEPT ![b] = FALSE]
  BY DEF Mark, At, Kept, Shapes, Shape, WithBuffer, Claimers, device
<1>2. request[b] = Nil /\ ~b_dirt[b]
  BY <1>1 DEF Kept, Claiming, Claimers, Locks, Counted, Ready
<1>3. b_uptodate[b] => b_data[b] = disk[b_block_nr[b]]
  BY <1>1, <1>2, CacheAssumption DEF Sound, Contained
<1>4. StoreIs /\ StoreIs'
  BY StoreOf, StoreOfNext
<1>5. ASSUME NEW j \in Blocks PROVE Store'[j] = Store[j]
  <2>1. CASE \E x \in Bufs \ {b} : b_block_nr[x] = j /\ b_uptodate[x]
    <3>1. PICK x \in Bufs \ {b} : b_block_nr[x] = j /\ b_uptodate[x]
      BY <2>1
    <3>2. b_block_nr'[x] = j /\ b_uptodate'[x]
      BY <1>1, <3>1 DEF Types
    <3> QED
      BY <1>1, <1>4, <3>1, <3>2 DEF StoreIs
  <2>2. CASE ~ \E x \in Bufs \ {b} : b_block_nr[x] = j /\ b_uptodate[x]
    <3>1. \A x \in Bufs : ~(b_block_nr'[x] = j /\ b_uptodate'[x])
      BY <1>1, <2>2 DEF Types
    <3>2. Store'[j] = disk[j]
      BY <1>1, <1>4, <3>1 DEF StoreIs
    <3>3. Store[j] = disk[j]
      BY <1>1, <1>3, <1>4, <2>2 DEF StoreIs
    <3> QED
      BY <3>2, <3>3
  <2> QED
    BY <2>1, <2>2
<1> QED
  BY <1>4, <1>5, StoreSame

\* A buffer without contents gets its new block.
LEMMA StoreInserted ==
  ASSUME Kept, Kept', Counted, NEW p \in Clients, Insert(p)
  PROVE  Store' = Store
<1> DEFINE b == call[p].bh
<1>1. /\ UNCHANGED <<b_uptodate, b_data, disk>> /\ Types /\ call[p].at = "insert" /\ b \in Bufs
      /\ \A x \in Bufs \ {b} : b_block_nr'[x] = b_block_nr[x]
  BY DEF Insert, At, Kept, Types, Shapes, Shape, WithBuffer, Claimers, device
<1>2. ~b_uptodate[b]
  BY <1>1 DEF Counted, Ready, Claimers
<1>3. StoreIs /\ StoreIs'
  BY StoreOf, StoreOfNext
<1>4. ASSUME NEW j \in Blocks PROVE Store'[j] = Store[j]
  <2>1. CASE \E x \in Bufs : b_block_nr[x] = j /\ b_uptodate[x]
    BY <1>1, <1>2, <1>3, <2>1 DEF StoreIs
  <2>2. CASE \A x \in Bufs : ~(b_block_nr[x] = j /\ b_uptodate[x])
    <3>1. \A x \in Bufs : ~(b_block_nr'[x] = j /\ b_uptodate'[x])
      BY <1>1, <1>2, <2>2
    <3> QED
      BY <1>1, <1>3, <2>2, <3>1 DEF StoreIs
  <2> QED
    BY <2>1, <2>2
<1> QED
  BY <1>3, <1>4, StoreSame

\* A transfer brings a buffer and the device together.
LEMMA StoreTransferred ==
  ASSUME Kept, Kept', Sound, NEW b \in Bufs, NEW ok \in BOOLEAN, Complete(b, ok),
         "WRITE" \notin Failures
  PROVE  Store' = Store
<1> DEFINE k == b_block_nr[b]
<1>1. /\ b_block_nr' = b_block_nr /\ Types
      /\ b_uptodate' = [b_uptodate EXCEPT ![b] = ok]
      /\ k \in Blocks /\ request[b] \in {"READ", "WRITE"}
  BY DEF Complete, Kept, Types, Locks
<1>2. \A x \in Bufs \ {b} : b_block_nr[x] # k
  BY <1>1, Sizes DEF Kept, OneBufferPerBlock
<1>3. StoreIs /\ StoreIs'
  BY StoreOf, StoreOfNext
<1>4. /\ \A x \in Bufs \ {b} : b_data'[x] = b_data[x] /\ b_uptodate'[x] = b_uptodate[x]
      /\ \A j \in Blocks \ {k} : disk'[j] = disk[j]
  BY <1>1 DEF Complete, Types
<1>5. ASSUME NEW j \in Blocks \ {k} PROVE Store'[j] = Store[j]
  <2>1. CASE \E x \in Bufs : b_block_nr[x] = j /\ b_uptodate[x]
    BY <1>1, <1>3, <1>4, <1>5, <2>1 DEF StoreIs
  <2>2. CASE \A x \in Bufs : ~(b_block_nr[x] = j /\ b_uptodate[x])
    <3>1. \A x \in Bufs : ~(b_block_nr'[x] = j /\ b_uptodate'[x])
      BY <1>1, <1>4, <1>5, <2>2
    <3> QED
      BY <1>3, <1>4, <1>5, <2>2, <3>1 DEF StoreIs
  <2> QED
    BY <2>1, <2>2
<1>6. Store'[k] = Store[k]
  <2>1. CASE request[b] = "READ"
    <3>1. ~b_uptodate[b] /\ disk' = disk
      BY <2>1 DEF Complete, Sound, Contained
    <3>2. Store[k] = disk[k]
      BY <1>1, <1>2, <1>3, <3>1 DEF StoreIs
    <3>3. CASE ok
      <4>1. b_data'[b] = disk[k] /\ b_uptodate'[b]
        BY <1>1, <2>1, <3>3 DEF Complete, Types
      <4> QED
        BY <1>1, <1>3, <3>2, <4>1 DEF StoreIs
    <3>4. CASE ~ok
      <4>1. \A x \in Bufs : ~(b_block_nr'[x] = k /\ b_uptodate'[x])
        BY <1>1, <1>2, <3>4 DEF Types
      <4> QED
        BY <1>1, <1>3, <3>1, <3>2, <4>1 DEF StoreIs
    <3> QED
      BY <3>3, <3>4
  <2>2. CASE request[b] = "WRITE"
    <3>1. ok /\ b_uptodate[b] /\ b_data' = b_data
      BY <2>2 DEF Complete, Sound, Contained
    <3>2. b_uptodate'[b]
      BY <1>1, <3>1 DEF Types
    <3> QED
      BY <1>1, <1>3, <3>1, <3>2 DEF StoreIs
  <2> QED
    BY <1>1, <2>1, <2>2
<1>7. \A j \in Blocks : Store'[j] = Store[j]
  BY <1>5, <1>6
<1> QED
  BY <1>3, <1>7, StoreSame

\* A client that modifies its buffer writes to its block and no other.
LEMMA StoreWritten ==
  ASSUME Kept, Kept', Counted, Sound, NEW p \in Clients, NEW v \in Vals, Modify(p, v)
  PROVE  /\ Opened[p] = call[p].block /\ call[p].block \in Blocks
         /\ Store' = [Store EXCEPT ![call[p].block] = v]
         /\ Opened' = Opened
<1> DEFINE b == call[p].bh
           k == call[p].block
<1>1. /\ UNCHANGED <<b_block_nr, b_uptodate, disk, call>> /\ Types
      /\ call[p].at = "hold" /\ b \in Bufs /\ k \in Blocks
      /\ b_data' = [b_data EXCEPT ![b] = v]
      /\ b_uptodate[b] /\ b_block_nr[b] = k
  BY DEF Modify, At, Kept, Shapes, Shape, WithBuffer, Using, InUse, Claimers, device, Sound,
         HeldIsUptodate, Counted, UsedKeepsBlock
<1>2. StoreIs /\ StoreIs'
  BY StoreOf, StoreOfNext
<1>3. \A x \in Bufs \ {b} : b_block_nr[x] # k /\ b_data'[x] = b_data[x]
  BY <1>1, Sizes DEF Types, Kept, OneBufferPerBlock
<1>4. Store'[k] = v
  BY <1>1, <1>2 DEF Types, StoreIs
<1>5. ASSUME NEW j \in Blocks \ {k} PROVE Store'[j] = Store[j]
  <2>1. CASE \E x \in Bufs : b_block_nr[x] = j /\ b_uptodate[x]
    BY <1>1, <1>2, <1>3, <1>5, <2>1 DEF StoreIs
  <2>2. CASE \A x \in Bufs : ~(b_block_nr[x] = j /\ b_uptodate[x])
    BY <1>1, <1>2, <1>5, <2>2 DEF StoreIs
  <2> QED
    BY <2>1, <2>2
<1>6. Store' = [Store EXCEPT ![k] = v]
  <2>1. Store = [j \in Blocks |-> Store[j]] /\ Store' = [j \in Blocks |-> Store'[j]]
    BY <1>2 DEF StoreIs
  <2> QED
    BY <1>4, <1>5, <2>1
<1>7. Opened[p] = k /\ Opened' = Opened
  BY <1>1 DEF Opened
<1> QED
  BY <1>1, <1>6, <1>7

\* What a step opens and closes: the blocks of the others stay as they are.
LEMMA OpenedAfter ==
  ASSUME Kept, NEW p \in Clients,
         \/ Step(p) \/ (\E k \in Blocks : bread(p, k)) \/ (\E v \in Vals : Modify(p, v))
  PROVE  \/ Opened' = Opened
         \/ Opened[p] = Nil /\ \E k \in Blocks : Opened' = [Opened EXCEPT ![p] = k]
         \/ Opened[p] # Nil /\ Opened' = [Opened EXCEPT ![p] = Nil]
<1>1. \A q \in Clients \ {p} : Opened'[q] = Opened[q]
  BY HoldsUptodate DEF OthersStay, Opened
<1>2. Opened' = [Opened EXCEPT ![p] = Opened'[p]]
  BY <1>1 DEF Opened
<1>3. Opened[p] = (IF call[p].at = "hold" THEN call[p].block ELSE Nil)
      /\ Opened'[p] = (IF call'[p].at = "hold" THEN call'[p].block ELSE Nil)
  BY DEF Opened
<1>4. call[p].at = "hold" => call[p].block \in Blocks
  BY DEF Kept, Shapes, Shape
<1>5. CASE call'[p].at = "hold" /\ call'[p] = call[p]
  BY <1>2, <1>3, <1>5 DEF Opened
<1>6. CASE call'[p].at = "hold" /\ call'[p] # call[p]
  <2>1. call[p].at \in {"got", "wait"} /\ call'[p].block = call[p].block
    BY <1>6, HoldsUptodate
  <2>2. call[p].block \in Blocks
    BY <2>1 DEF Kept, Shapes, Shape
  <2>3. Opened[p] = Nil /\ Opened' = [Opened EXCEPT ![p] = call[p].block]
    BY <1>2, <1>3, <1>6, <2>1
  <2> QED
    BY <2>2, <2>3
<1>7. CASE call'[p].at # "hold" /\ call[p].at = "hold"
  BY <1>2, <1>3, <1>4, <1>7, Sizes
<1>8. CASE call'[p].at # "hold" /\ call[p].at # "hold"
  BY <1>2, <1>3, <1>8 DEF Opened
<1> QED
  BY <1>5, <1>6, <1>7, <1>8

\* The cache starts as the device and all blocks are closed.
LEMMA InitStore == Init => Device!Init
<1> SUFFICES ASSUME Init PROVE Device!Init
  OBVIOUS
<1>1. Kept
  BY InitKept
<1>2. \A k \in Blocks : Store[k] = disk[k]
  BY <1>1, StoreOf DEF StoreIs, Init
<1>3. Store = disk /\ disk = Contents
  <2>1. Store = [k \in Blocks |-> Store[k]]
    BY <1>1, StoreOf DEF StoreIs
  <2>2. disk = Contents /\ Contents \in [Blocks -> Vals]
    BY CacheAssumption DEF Init
  <2> QED
    BY <1>2, <2>1, <2>2
<1> QED
  BY <1>3 DEF Init, Device!Init, NoCall

\* Every step of the cache is a step of the store or changes nothing there.
LEMMA NextStore ==
  ASSUME "WRITE" \notin Failures, Kept, Kept', Counted, Sound, [Next]_vars
  PROVE  [Device!Next]_<<Store, Opened>>
<1>1. ASSUME NEW p \in Clients, Store' = Store,
             \/ Step(p) \/ (\E k \in Blocks : bread(p, k)) \/ (\E v \in Vals : Modify(p, v))
      PROVE  [Device!Next]_<<Store, Opened>>
  <2>1. CASE Opened' = Opened
    BY <1>1, <2>1
  <2>2. CASE Opened[p] = Nil /\ \E k \in Blocks : Opened' = [Opened EXCEPT ![p] = k]
    BY <1>1, <2>2 DEF Device!Next, Device!Open, Opened
  <2>3. CASE Opened[p] # Nil /\ Opened' = [Opened EXCEPT ![p] = Nil]
    BY <1>1, <2>3 DEF Device!Next, Device!Close, Opened
  <2> QED
    BY <1>1, <2>1, <2>2, <2>3, OpenedAfter
<1>2. ASSUME NEW p \in Clients, Step(p) PROVE Store' = Store
  <2>1. CASE Mark(p) \/ Insert(p)
    BY <2>1, StoreMarked, StoreInserted
  <2>2. CASE ~(Mark(p) \/ Insert(p))
    <3>1. UNCHANGED <<b_block_nr, b_uptodate, b_data, disk>>
      BY <1>2, <2>2 DEF Step, Find, Hashed, Scan, LookAgain, Chosen, Sync, Slot, Claim, Remove,
                        Got, Wait, brelse, Release, heads, device
    <3> QED
      BY <3>1, StoreStays
  <2> QED
    BY <2>1, <2>2
<1>3. ASSUME NEW p \in Clients, NEW k \in Blocks, bread(p, k) PROVE Store' = Store
  BY <1>3, StoreStays DEF bread, heads, device
<1>4. ASSUME NEW p \in Clients, NEW v \in Vals, Modify(p, v)
      PROVE  [Device!Next]_<<Store, Opened>>
  <2>1. /\ Opened[p] = call[p].block /\ call[p].block \in Blocks
        /\ Store' = [Store EXCEPT ![call[p].block] = v]
        /\ Opened' = Opened
    BY <1>4, StoreWritten
  <2>2. Opened[p] # Nil /\ Store' = [Store EXCEPT ![Opened[p]] = v] /\ Opened' = Opened
    BY <2>1, Sizes
  <2> QED
    BY <2>2 DEF Device!Next, Device!Write, Opened
<1>5. ASSUME NEW b \in Bufs, NEW ok \in BOOLEAN, Complete(b, ok)
      PROVE  [Device!Next]_<<Store, Opened>>
  BY <1>5, StoreTransferred DEF Complete, Opened
<1>6. CASE UNCHANGED vars
  BY <1>6, StoreStays DEF vars, heads, device, Opened
<1> QED
  BY <1>1, <1>2, <1>3, <1>4, <1>5, <1>6 DEF Next, Use

\* No eviction, write-back or re-read loses or revives the contents of a block:
\* as long as a call keeps the processor until it sleeps and no write fails,
\* bread, brelse and syncDev over the device are one memory of blocks.
THEOREM CacheIsStore ==
  ~Preemptible /\ "WRITE" \notin Failures /\ Spec => ImplementsBlockStore
<1> SUFFICES ASSUME ~Preemptible, "WRITE" \notin Failures PROVE Spec => ImplementsBlockStore
  OBVIOUS
<1>1. Kept /\ Kept' /\ Counted /\ Sound /\ [Next]_vars => [Device!Next]_<<Store, Opened>>
  BY NextStore
<1>2. Kept /\ Counted /\ Sound /\ [Next]_vars => Sound'
  BY NextSound
<1>3. Spec => []Counted
  BY CacheCounts, PTL
<1>4. Spec => []Sound
  BY <1>2, <1>3, InitSound, CacheInvariant, PTL DEF Spec
<1> QED
  BY <1>1, <1>3, <1>4, InitStore, CacheInvariant, PTL
     DEF Spec, ImplementsBlockStore, Device!Spec, Opened
=============================================================================
