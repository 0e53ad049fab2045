-------------------------------- MODULE Cache --------------------------------
(***************************************************************************)
(* The shared memory cache (core/cache.c) as static.c and ssl.c use it: an *)
(* array of slots, hash chains, a stack of unused slots, blocks allocated  *)
(* one per slot or from a bitmap, expiry by a sweeper thread or lazily on  *)
(* lookup, and eviction when full. Writers hold the write lock for a whole *)
(* operation; a reader holds the read lock while it uses the value.        *)
(***************************************************************************)
EXTENDS Integers, Sequences, SequencesExt, FiniteSetsExt

CONSTANTS
    Keys, Hash, HashSize,  \* keys, their hash values, buckets
    MaxItems,              \* uc->max_items; slot 0 is never used
    Blocks, BlockSize,     \* uc->blocks, uc->blocksize
    ByteBits,              \* bits in a byte of the bitmap (8 in the code)
    Payloads, Lens, Ttls,  \* what is stored: contents, sizes, expires
    Procs,                 \* processes that use the cache
    Epoch, MaxTime,        \* bound: the clock runs from Epoch to MaxTime
    Modes                  \* option sets given to upsgi_cache_create(); alone:
                           \* there is one worker, so one reader at a time

Absent == "absent"
NoValue == [key |-> Absent, len |-> 0, first |-> 0]
Slots == 1 .. MaxItems - 1
NoBlock == -1

\* The keys of a --cache2 definition that change what the cache does, and
\* whether one worker uses it.
Options == [bitmap : BOOLEAN, lru : BOOLEAN, lazy : BOOLEAN, sweep : Nat,
            clear : BOOLEAN, alone : BOOLEAN]

\* upsgi_cache_create() refuses what is not consistent.
ASSUME CacheAssumption ==
    /\ MaxItems \in Nat \ {0} /\ Blocks \in Nat \ {0}
    /\ BlockSize \in Nat \ {0} /\ HashSize \in Nat \ {0}
    /\ ByteBits \in Nat \ {0}
    /\ Blocks >= MaxItems
    /\ Hash \in [Keys -> Nat]
    /\ \A t \in Ttls : t < Epoch
    /\ Modes \subseteq Options

VARIABLES
    mode,    \* options of this cache
    uc,      \* struct upsgi_cache with its items and data
    now,     \* upsgi_now()
    held,    \* the value each reader uses under its read lock, or none
    sweeper  \* the slot the sweeper visits next; 0 when it sleeps

vars == <<mode, uc, now, held, sweeper>>

MaxItemSize == IF mode.bitmap THEN BlockSize * Blocks ELSE BlockSize
BitmapBytes == Blocks \div ByteBits + (IF Blocks % ByteBits > 0 THEN 1 ELSE 0)
Bits == 0 .. BitmapBytes * ByteBits - 1

FreeItem == [key |-> Absent, len |-> 0, first |-> 0, exp |-> 0, prev |-> 0,
             next |-> 0, lprev |-> 0, lnext |-> 0]

\* upsgi_cache_init(): the bits past the last block are preset.
InitCache ==
    [ht |-> [b \in 0 .. HashSize - 1 |-> 0],
     item |-> [s \in 0 .. MaxItems - 1 |-> FreeItem],
     stack |-> [i \in Slots |-> i],
     used |-> {b \in Bits : b >= Blocks},
     pos |-> 0, head |-> 0, tail |-> 0, n |-> 0, scan |-> 0,
     data |-> [b \in 0 .. Blocks - 1 |-> <<Absent, 0>>]]

Init ==
    /\ mode \in Modes /\ uc = InitCache /\ now = Epoch
    /\ held = [p \in Procs |-> NoValue] /\ sweeper = 0

-----------------------------------------------------------------------------
Bucket(k) == Hash[k] % HashSize

\* Follows the next links from slot s; more than max_items rounds is a loop.
Chain(c, s) ==
    LET walk[r \in 0 .. MaxItems] ==
          IF r = 0 THEN IF s = 0 THEN <<>> ELSE <<s>>
          ELSE LET w == walk[r - 1]
               IN  IF w = <<>> \/ c.item[Last(w)].next = 0 THEN w
                   ELSE Append(w, c.item[Last(w)].next)
    IN  walk[MaxItems]

\* upsgi_cache_get_index() without the lazy expiry.
Index(c, k) ==
    LET find[r \in 0 .. MaxItems, s \in 0 .. MaxItems - 1] ==
          IF s = 0 \/ c.item[s].key = k THEN s
          ELSE IF r = 0 THEN 0 ELSE find[r - 1, c.item[s].next]
    IN  find[MaxItems, c.ht[Bucket(k)]]

Needed(len) == len \div BlockSize + (IF len % BlockSize > 0 THEN 1 ELSE 0)
BlocksOf(it) == it.first .. it.first + Needed(it.len) - 1

\* The first run of n free bits inside lo .. hi.
FirstFit(c, lo, hi, n) ==
    LET fits == {b \in lo .. hi - n + 1 : (b .. b + n - 1) \cap c.used = {}}
    IN  IF fits = {} THEN NoBlock ELSE Min(fits)

\* upsgi_cache_find_free_blocks(): from the current position to the end, then
\* from the start to the end of the byte that holds the position. A run does
\* not go over the end.
FindFreeBlocks(c, len) ==
    LET byte == c.pos \div ByteBits
        first == FirstFit(c, c.pos, Max(Bits), Needed(len))
        stop == IF c.pos % ByteBits > 0 THEN (byte + 1) * ByteBits - 1
                ELSE byte * ByteBits - 1
    IN  IF first # NoBlock THEN first ELSE FirstFit(c, 0, stop, Needed(len))

\* The masks of cache_mark_blocks() and cache_unmark_blocks(): the bits of the
\* first byte from the first bit on, of the last byte up to the last bit, and
\* the bytes between.
Mask(index, len) ==
    LET last == index + Needed(len) - 1
        B(b) == b \div ByteBits
        bits == {b \in Bits : B(b) = B(index) /\ b % ByteBits >= index % ByteBits}
        tail == {b \in Bits : B(b) = B(last) /\ b % ByteBits <= last % ByteBits}
    IN  IF B(index) = B(last) THEN bits \cap tail
        ELSE bits \cup tail \cup {b \in Bits : B(index) < B(b) /\ B(b) < B(last)}

MarkBlocks(c, index, len) ==
    [c EXCEPT !.used = @ \cup Mask(index, len),
              !.pos = IF index + Needed(len) >= Blocks THEN 0
                      ELSE index + Needed(len)]
UnmarkBlocks(c, index, len) == [c EXCEPT !.used = @ \ Mask(index, len)]

-----------------------------------------------------------------------------
\* lru_remove_item(), lru_add_item()
LruRemove(c, i) ==
    LET it == c.item[i]
        d == IF it.lnext # 0 THEN [c EXCEPT !.item[it.lnext].lprev = it.lprev]
             ELSE [c EXCEPT !.tail = it.lprev]
    IN  IF it.lprev # 0 THEN [d EXCEPT !.item[it.lprev].lnext = it.lnext]
        ELSE [d EXCEPT !.head = it.lnext]

LruAdd(c, i) ==
    LET d == IF c.tail # 0 THEN [c EXCEPT !.item[c.tail].lnext = i]
             ELSE [c EXCEPT !.head = i]
    IN  [d EXCEPT !.item[i].lnext = 0, !.item[i].lprev = c.tail, !.tail = i]

LruTouch(c, i) == IF mode.lru THEN LruAdd(LruRemove(c, i), i) ELSE c

\* The links of a hash chain around the item that leaves.
Unchain(c, i) ==
    LET it == c.item[i]
        d == IF it.prev # 0 THEN [c EXCEPT !.item[it.prev].next = it.next]
             ELSE [c EXCEPT !.ht[Bucket(it.key)] = it.next]
    IN  IF it.next # 0 THEN [d EXCEPT !.item[it.next].prev = it.prev] ELSE d

\* What is left in a free slot and in free blocks is never read: the model
\* forgets it.
Cleared(data, it) ==
    [b \in 0 .. Blocks - 1 |-> IF b \in BlocksOf(it) THEN <<Absent, 0>>
                               ELSE data[b]]

\* upsgi_cache_del2() on a slot; a free slot is only cleared.
Del(c, i) ==
    LET it == c.item[i]
        a == IF mode.bitmap THEN UnmarkBlocks(c, it.first, it.len) ELSE c
        b == Unchain([a EXCEPT !.stack = Append(@, i)], i)
        d == IF mode.lru THEN LruRemove(b, i) ELSE b
        e == IF it.key = Absent THEN c ELSE [d EXCEPT !.n = @ - 1]
    IN  [e EXCEPT !.item[i] = FreeItem, !.data = Cleared(@, it)]

DelAll(c, S) == FoldLeft(Del, c, SetToSortSeq(S, <))

\* cache_full(): the LRU item goes, then the expired ones, then, if none
\* was, all of them, as the options say.
DropOld(c) ==
    LET scan == mode.sweep > 0 /\ c.scan <= now
        old == {s \in Slots : scan /\ c.item[s].exp > 0 /\ c.item[s].exp <= now}
        d == IF scan THEN [c EXCEPT !.scan = now + mode.sweep] ELSE c
    IN  DelAll(DelAll(d, old), IF mode.clear /\ old = {} THEN Slots ELSE {})

CacheFull(c) == DropOld(IF mode.lru /\ c.head # 0 THEN Del(c, c.head) ELSE c)

\* check_lazy()
Lazy(c, i) ==
    IF mode.lazy /\ i # 0 /\ c.item[i].exp > 0 /\ c.item[i].exp <= now
    THEN Del(c, i) ELSE c

\* The expiry a set gives an item: relative to now, except that an LRU cache
\* keeps what it is given.
Expiry(ttl) == IF ~mode.lru /\ ttl > 0 THEN now + ttl ELSE ttl
Stamp(c, i, ttl) ==
    [c EXCEPT !.item[i].exp = Expiry(ttl),
              !.scan = IF ~mode.lru /\ ttl > 0 /\ (@ = 0 \/ @ > now + ttl)
                       THEN now + ttl ELSE @]

\* Mutant: the value is written where the slot's number says.
WriteBySlot(c, old, i, k, v, len) ==
    [c EXCEPT !.item[i].len = len, !.data[i] = <<k, v>>]

Write(c, old, i, k, v, len) ==
    LET it == [c.item[i] EXCEPT !.len = len]
    IN  [c EXCEPT !.item[i].len = len,
                  !.data = [b \in 0 .. Blocks - 1 |->
                              IF b \in BlocksOf(it) THEN <<k, v>>
                              ELSE Cleared(@, old)[b]]]

\* The new item goes to the end of its chain.
Link(c, i, k) ==
    LET chain == Chain(c, c.ht[Bucket(k)])
        d == [c EXCEPT !.item[i].key = k, !.item[i].next = 0,
                       !.item[i].prev = IF chain = <<>> THEN 0 ELSE Last(chain),
                       !.n = @ + 1]
    IN  IF chain = <<>> THEN [d EXCEPT !.ht[Bucket(k)] = i]
        ELSE [d EXCEPT !.item[Last(chain)].next = i]

\* upsgi_cache_set2() on a key that is not there: a slot, its blocks, and
\* without one of them the cache is full.
FillSlot(c, i, first, k, v, len, ttl) ==
    LET b == [c EXCEPT !.stack = Front(@), !.item[i].first = first]
        d == IF mode.bitmap THEN MarkBlocks(b, first, len) ELSE b
        e == Stamp(IF mode.lru THEN LruAdd(d, i) ELSE d, i, ttl)
    IN  Link(Write(e, FreeItem, i, k, v, len), i, k)

TakeSlot(c, k, v, len, ttl) ==
    LET i == Last(c.stack)
        first == IF mode.bitmap THEN FindFreeBlocks(c, len) ELSE i
    IN  IF c.stack = <<>> THEN c
        ELSE IF first = NoBlock THEN CacheFull(c)
        ELSE FillSlot(c, i, first, k, v, len, ttl)

Insert(c, k, v, len, ttl) ==
    TakeSlot(IF c.stack = <<>> THEN CacheFull(c) ELSE c, k, v, len, ttl)

\* ... and on one that is, with UPSGI_CACHE_FLAG_UPDATE: expiry and LRU first,
\* then the blocks; the old blocks are freed once the new ones are taken.
Rewrite(c, i, k, v, len) ==
    LET it == c.item[i]
        first == FindFreeBlocks(c, len)
        d == UnmarkBlocks(MarkBlocks([c EXCEPT !.item[i].first = first],
                                     first, len), it.first, it.len)
    IN  IF ~mode.bitmap THEN Write(c, it, i, k, v, len)
        ELSE IF first = NoBlock THEN CacheFull(c)
        ELSE Write(d, it, i, k, v, len)

Update(c, i, k, v, len, ttl) ==
    Rewrite(Stamp(LruTouch(c, i), i, ttl), i, k, v, len)

-----------------------------------------------------------------------------
Readers == {p \in Procs : held[p] # NoValue}

\* upsgi_wlock(), upsgi_cache_set2(), upsgi_rwunlock(): static.c updates, the
\* SSL session callback does not.
Set(k, v, len, ttl, update) ==
    /\ Readers = {}
    /\ len <= MaxItemSize
    /\ LET c == Lazy(uc, Index(uc, k))
           i == Index(c, k)
       IN  uc' = IF i = 0 THEN Insert(c, k, v, len, ttl)
                 ELSE IF update THEN Update(c, i, k, v, len, ttl) ELSE c
    /\ UNCHANGED <<mode, now, held, sweeper>>

\* upsgi_cache_del2() by key, under the write lock.
Delete(k) ==
    /\ Readers = {}
    /\ LET c == Lazy(uc, Index(uc, k))
           i == Index(c, k)
       IN  uc' = IF i = 0 THEN c ELSE Del(c, i)
    /\ UNCHANGED <<mode, now, held, sweeper>>

\* upsgi_rlock() and upsgi_cache_get2(): the reader now has a pointer into the
\* data, and keeps the lock while it copies from it.
Get(p, k) ==
    /\ held[p] = NoValue /\ (mode.alone => Readers = {})
    /\ LET c == Lazy(uc, Index(uc, k))
           i == Index(c, k)
       IN  /\ uc' = IF i = 0 THEN c ELSE LruTouch(c, i)
           /\ i # 0
           /\ held' = [held EXCEPT ![p] = [key |-> k, len |-> c.item[i].len,
                                           first |-> c.item[i].first]]
    /\ UNCHANGED <<mode, now, sweeper>>

\* A miss: the read lock is left at once.
Miss(p, k) ==
    /\ held[p] = NoValue /\ (mode.alone => Readers = {})
    /\ LET c == Lazy(uc, Index(uc, k))
       IN  uc' = c /\ Index(c, k) = 0
    /\ UNCHANGED <<mode, now, held, sweeper>>

Release(p) ==
    /\ held[p] # NoValue
    /\ held' = [held EXCEPT ![p] = NoValue]
    /\ UNCHANGED <<mode, uc, now, sweeper>>

\* cache_sweeper_free_items(): it looks at next_scan under the read lock with
\* the master's current_time, which trails the clock ...
Sweeps == ~mode.lru /\ ~mode.lazy
SweepStart ==
    /\ Sweeps /\ sweeper = 0
    /\ \E t \in {now - 1, now} : uc.scan # 0 /\ uc.scan <= t
    /\ sweeper' = 1
    /\ UNCHANGED <<mode, uc, now, held>>

\* Mutant: the lock is not taken again for each slot.
SweepSlotUnlocked ==
    /\ sweeper # 0
    /\ \E t \in {now - 1, now} :
         uc' = IF uc.item[sweeper].exp > 0 /\ uc.item[sweeper].exp <= t
               THEN Del(uc, sweeper) ELSE uc
    /\ sweeper' = IF sweeper = MaxItems - 1 THEN 0 ELSE sweeper + 1
    /\ UNCHANGED <<mode, now, held>>

\* ... and then takes the write lock once per slot.
SweepSlot ==
    /\ sweeper # 0 /\ Readers = {}
    /\ \E t \in {now - 1, now} :
         LET i == sweeper
             a == IF i = 1 THEN [uc EXCEPT !.scan = 0] ELSE uc
             e == a.item[i].exp
         IN  uc' = IF e = 0 THEN a
                   ELSE IF e <= t THEN Del(a, i)
                   ELSE [a EXCEPT !.scan = IF @ = 0 \/ @ > e THEN e ELSE @]
    /\ sweeper' = IF sweeper = MaxItems - 1 THEN 0 ELSE sweeper + 1
    /\ UNCHANGED <<mode, now, held>>

Tick ==
    /\ now < MaxTime /\ now' = now + 1
    /\ UNCHANGED <<mode, uc, held, sweeper>>

Next ==
    \/ \E k \in Keys :
         \/ \E v \in Payloads, len \in Lens, ttl \in Ttls, u \in BOOLEAN :
              Set(k, v, len, ttl, u)
         \/ Delete(k)
         \/ \E p \in Procs : Get(p, k) \/ Miss(p, k)
    \/ \E p \in Procs : Release(p)
    \/ SweepStart \/ SweepSlot \/ Tick

Spec == Init /\ [][Next]_vars

-----------------------------------------------------------------------------
Live == {s \in Slots : uc.item[s].key # Absent}

\* The tables of the cache, its clock, its readers and its sweeper keep their
\* types.
TypeOK ==
    /\ mode \in Modes /\ now \in Epoch .. MaxTime
    /\ uc.stack \in Seq(Slots) /\ uc.used \subseteq Bits
    /\ uc.pos \in 0 .. Blocks - 1 /\ uc.n \in 0 .. MaxItems - 1
    /\ sweeper \in 0 .. MaxItems - 1
    /\ \A s \in Slots : uc.item[s].key \in Keys \cup {Absent}

\* A slot is on the stack of unused slots or holds an item, never both, never
\* twice, and n_items counts the items: through every eviction, failed
\* insertion and expiry no slot is lost.
SlotsOwnedOnce ==
    /\ IsInjective(uc.stack)
    /\ Range(uc.stack) = Slots \ Live
    /\ uc.n = Cardinality(Live)

\* In bitmap mode the marked blocks are exactly those of the items, each of
\* one item, inside the data area: an update that moves a value and a failed
\* one leak no block and free none of another item.
BlocksOwnedOnce ==
    mode.bitmap =>
      /\ \A s, t \in Live : s # t => BlocksOf(uc.item[s]) \cap BlocksOf(uc.item[t]) = {}
      /\ uc.used = {b \in Bits : b >= Blocks}
                   \cup UNION {BlocksOf(uc.item[s]) : s \in Live}

\* Every item is found: each bucket's chain ends, links back, and the chains
\* together hold every item once, under its own hash. No key is held twice.
ChainsAreSound ==
    /\ \A b \in 0 .. HashSize - 1 :
         LET w == Chain(uc, uc.ht[b])
         IN  /\ Len(w) < MaxItems /\ IsInjective(w)
             /\ Range(w) = {s \in Live : Bucket(uc.item[s].key) = b}
             /\ \A i \in 1 .. Len(w) :
                  uc.item[w[i]].prev = IF i = 1 THEN 0 ELSE w[i - 1]
    /\ \A s, t \in Live : uc.item[s].key = uc.item[t].key => s = t

\* The slots from head along lru_next.
LruWalk ==
    LET walk[r \in 0 .. MaxItems] ==
          IF r = 0 THEN IF uc.head = 0 THEN <<>> ELSE <<uc.head>>
          ELSE LET w == walk[r - 1]
               IN  IF w = <<>> \/ uc.item[Last(w)].lnext = 0 THEN w
                   ELSE Append(w, uc.item[Last(w)].lnext)
    IN  walk[MaxItems]

\* The LRU list runs from head to tail over exactly the items, linked both
\* ways, so that a full cache always has an item to evict.
LruIsSound ==
    mode.lru =>
      /\ IsInjective(LruWalk) /\ Range(LruWalk) = Live
      /\ uc.tail = IF LruWalk = <<>> THEN 0 ELSE Last(LruWalk)
      /\ \A i \in 1 .. Len(LruWalk) :
           uc.item[LruWalk[i]].lprev = IF i = 1 THEN 0 ELSE LruWalk[i - 1]

\* No item outlives its expiry unnoticed: while the sweeper sleeps, next_scan
\* is set and is not later than any item's expiry (by more than sweep_on_full,
\* which puts the next scan off), whatever was set, updated or evicted while
\* the sweeper was between two slots.
NextScanIsEarly ==
    Sweeps /\ sweeper = 0 =>
      \A s \in Live : uc.item[s].exp > 0 =>
        uc.scan # 0 /\ uc.scan <= uc.item[s].exp + mode.sweep

\* The value a reader points at is not removed, moved or overwritten before
\* it leaves the read lock, by another process or by the sweeper.
HeldValueIsStable ==
    \A p \in Readers :
      LET i == Index(uc, held[p].key)
      IN  /\ i # 0
          /\ uc.item[i].len = held[p].len /\ uc.item[i].first = held[p].first

\* What the cache holds for a key, read through the chains and the blocks.
Content(it) == [len |-> it.len,
                data |-> [b \in 1 .. Needed(it.len) |-> uc.data[it.first + b - 1]]]
NoContent == [len |-> 0, data |-> <<>>]
Contents ==
    [k \in Keys |-> LET i == Index(uc, k)
                    IN  IF i = 0 THEN NoContent ELSE Content(uc.item[i])]
WholeValues ==
    {[len |-> n, data |-> [b \in 1 .. Needed(n) |-> <<k, v>>]] :
       n \in Lens, k \in Keys, v \in Payloads}
Store == INSTANCE KeyValueStore WITH Values <- WholeValues, Absent <- NoContent,
                                     store <- Contents

\* The cache implements a map of keys to whole values: what the hash chains
\* and the blocks give for a key changes only when that key is set or dropped.
ImplementsStore == Store!Spec

\* The shared memory is sound between any two steps of any process: slots,
\* blocks, hash chains and the LRU list agree, no expiry is overlooked, and a
\* value that was handed out stays as it is while it is held.
CacheSound ==
    /\ TypeOK /\ SlotsOwnedOnce /\ BlocksOwnedOnce /\ ChainsAreSound
    /\ LruIsSound /\ NextScanIsEarly /\ HeldValueIsStable
=============================================================================
