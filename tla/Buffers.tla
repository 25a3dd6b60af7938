------------------------------ MODULE Buffers ------------------------------
(***************************************************************************)
(* mem.c under pbuf.c: the heap of the TCP stack, one array in which every *)
(* block carries the links to its neighbours, and the packet buffers that  *)
(* are allocated in it, chained, cut, shared and freed.  A semaphore makes *)
(* each heap operation atomic; a buffer belongs to one thread at a time.   *)
(* The pool buffers of pbuf.c are left out: nothing allocates one.         *)
(***************************************************************************)
EXTENDS Integers, FiniteSets, Sequences, SequencesExt, FiniteSetsExt

CONSTANTS MEM_SIZE,   \* units of the heap
          HEADER,     \* units of struct mem
          MIN_SIZE,   \* smallest rest that mem_realloc splits off
          PBUF,       \* units of struct pbuf
          Roms,       \* number of buffers in the pool MEMP_PBUF
          Offsets,    \* room for headers that pbuf_alloc leaves
          MaxLen,     \* bound: units of data in an allocation
          MaxRef,     \* bound: holders of a buffer
          Leftovers   \* bound: buffers behind the one that pbuf_realloc cuts

NULL == -1
Addr == 0..MEM_SIZE
Junk == [next |-> 0, prev |-> 0, used |-> TRUE]   \* no block: user data

VARIABLES ram,    \* headers: address -> [next, prev, used]
          lfree,  \* where mem_malloc begins to search
          pbuf,   \* buffers in use: id -> [len, tot, next, ref, off, rom]
          held    \* heads of chains that somebody holds

heap == <<ram, lfree>>
vars == <<ram, lfree, pbuf, held>>

\* mem_init, memp_init and pbuf_init
Init ==
    /\ ram = [a \in Addr |-> CASE a = 0 -> [next |-> MEM_SIZE, prev |-> 0, used |-> FALSE]
                               [] a = MEM_SIZE -> [next |-> MEM_SIZE, prev |-> MEM_SIZE, used |-> TRUE]
                               [] OTHER -> Junk]
    /\ lfree = 0
    /\ pbuf = <<>> /\ held = {}

----------------------------------------------------------------------------
\* mem.c: a heap is [ram, lfree]

Heap == [ram |-> ram, lfree |-> lfree]

\* The list of blocks from address a on
Blocks(r) ==
    LET From[a \in Addr] == IF r[a].next <= a THEN {a} ELSE {a} \cup From[r[a].next]
    IN From[0] \ {MEM_SIZE}
Size(r, a) == r[a].next - a - HEADER

\* First the next block, then the one before; the links of the block behind
\* them follow.
Forward(h, m) ==
    LET n == h.ram[m].next
    IN IF n = m \/ h.ram[n].used \/ n = MEM_SIZE THEN h
       ELSE [ram |-> [h.ram EXCEPT ![m].next = h.ram[n].next, ![h.ram[n].next].prev = m, ![n] = Junk],
             lfree |-> IF h.lfree = n THEN m ELSE h.lfree]

Backward(h, m) ==
    LET p == h.ram[m].prev
    IN IF p = m \/ h.ram[p].used THEN h
       ELSE [ram |-> [h.ram EXCEPT ![p].next = h.ram[m].next, ![h.ram[m].next].prev = p, ![m] = Junk],
             lfree |-> IF h.lfree = m THEN p ELSE h.lfree]

PlugHoles(h, m) == Backward(Forward(h, m), m)

\* mem_malloc: the first block at or above lfree that fits is split.
Fits(h, size) == {a \in Blocks(h.ram) : a >= h.lfree /\ ~h.ram[a].used /\ Size(h.ram, a) >= size + HEADER}
Malloc(h, size) ==
    LET a == Min(Fits(h, size))
        a2 == a + HEADER + size
        n == h.ram[a].next
        new == [x \in Addr |->
                  CASE x = a -> [h.ram[a] EXCEPT !.next = a2, !.used = TRUE]
                    [] x = a2 -> [next |-> n, prev |-> a, used |-> FALSE]
                    [] x = n /\ n # MEM_SIZE -> [h.ram[n] EXCEPT !.prev = a2]
                    [] OTHER -> h.ram[x]]
    IN [ram |-> new,
        lfree |-> IF a = h.lfree THEN Min({x \in Blocks(new) : x >= a /\ ~new[x].used}) ELSE h.lfree]

\* mem_free
MemFree(h, a) ==
    PlugHoles([ram |-> [h.ram EXCEPT ![a].used = FALSE],
               lfree |-> IF a < h.lfree THEN a ELSE h.lfree], a)

\* mem_realloc: it shrinks in place; lfree is left where it is.
Realloc(h, a, size) ==
    LET a2 == a + HEADER + size
        n == h.ram[a].next
    IN IF size + HEADER + MIN_SIZE >= Size(h.ram, a) THEN h
       ELSE PlugHoles([h EXCEPT !.ram =
                [x \in Addr |->
                   CASE x = a -> [h.ram[a] EXCEPT !.next = a2]
                     [] x = a2 -> [next |-> n, prev |-> a, used |-> FALSE]
                     [] x = n /\ n # MEM_SIZE -> [h.ram[n] EXCEPT !.prev = a2]
                     [] OTHER -> h.ram[x]]], a2)

----------------------------------------------------------------------------
\* pbuf.c.  The id of a buffer in the heap is the address of its block.

IsRam(p) == p < MEM_SIZE
RomIds == MEM_SIZE+1..MEM_SIZE+Roms

RECURSIVE Chain(_, _)
Chain(pb, p) == IF p = NULL THEN <<>> ELSE <<p>> \o Chain(pb, pb[p].next)
Ids(s) == {s[i] : i \in DOMAIN s}

SumLen(pb, s) == FoldFunction(+, 0, [i \in DOMAIN s |-> pb[s[i]].len])
Without(pb, S) == [p \in DOMAIN pb \ S |-> pb[p]]

Sets(h) == ram' = h.ram /\ lfree' = h.lfree
New(p, len, off) ==
    pbuf' = [q \in DOMAIN pbuf \cup {p} |->
               IF q = p THEN [len |-> len, tot |-> len, next |-> NULL, ref |-> 1, off |-> off] ELSE pbuf[q]]

\* pbuf_alloc: PBUF_RAM and PBUF_ROM
AllocRam(len, offset) ==
    LET size == PBUF + len + offset IN
    /\ Fits(Heap, size) # {}
    /\ Sets(Malloc(Heap, size))
    /\ New(Min(Fits(Heap, size)), len, PBUF + offset)
    /\ held' = held \cup {Min(Fits(Heap, size))}
AllocRom(len) ==
    \E p \in {Min(RomIds \ DOMAIN pbuf)} : New(p, len, 0) /\ held' = held \cup {p} /\ UNCHANGED heap
Alloc ==
    \E len \in 1..MaxLen : (\E o \in Offsets : AllocRam(len, o)) \/ (RomIds \ DOMAIN pbuf # {} /\ AllocRom(len))

\* Mutant: only the head goes back.
MutantMemFreeAll(h, s) == IF s # <<>> /\ IsRam(Head(s)) THEN MemFree(h, Head(s)) ELSE h

\* What pbuf_free does with a chain: the blocks go back one by one, whoever
\* else refers to them.
MemFreeAll(h, s) == FoldLeft(LAMBDA g, p : IF IsRam(p) THEN MemFree(g, p) ELSE g, h, s)

\* pbuf_free
Free(p) ==
    IF pbuf[p].ref > 1 THEN pbuf' = [pbuf EXCEPT ![p].ref = @ - 1] /\ UNCHANGED <<heap, held>>
    ELSE /\ Sets(MemFreeAll(Heap, Chain(pbuf, p)))
         /\ pbuf' = Without(pbuf, Ids(Chain(pbuf, p)))
         /\ held' = held \ {p}

\* pbuf_ref
Ref(p) ==
    /\ pbuf[p].ref < MaxRef
    /\ pbuf' = [pbuf EXCEPT ![p].ref = @ + 1] /\ UNCHANGED <<heap, held>>

\* pbuf_header: room in front of the data, or less data.
PbufHeader(p, n) ==
    /\ IsRam(p) /\ n # 0 /\ pbuf[p].len + n >= 0
    /\ pbuf[p].off - n >= PBUF
    /\ pbuf' = [pbuf EXCEPT ![p].off = @ - n, ![p].len = @ + n, ![p].tot = @ + n]
    /\ UNCHANGED <<heap, held>>

\* pbuf_realloc: the buffers wholly inside the new size stay, one is cut,
\* the rest is freed: pbuf_free, which frees all that follows as well, is
\* called for each, so that the second of the rest is freed twice.  tcp_input.c
\* cuts single buffers only; Leftovers = 1 keeps to what works.
Kept(s, size) == Min({k \in DOMAIN s : SumLen(pbuf, SubSeq(s, 1, k)) >= size})

RestFreed(s) == FlattenSeq([i \in DOMAIN s |-> SubSeq(s, i, Len(s))])

\* Mutant: the buffer that is cut keeps its length.
MutantCut(p, size) == pbuf[p].len
Cut(p, size) == size

PbufRealloc(p, size) ==
    LET s == Chain(pbuf, p)
        k == Kept(s, size)
        q == s[k]
        rsize == size - SumLen(pbuf, SubSeq(s, 1, k - 1))
        rest == SubSeq(s, k + 1, Len(s))
        shrunk == IF IsRam(q) THEN Realloc(Heap, q, pbuf[q].off + rsize) ELSE Heap
    IN /\ size < pbuf[p].tot /\ Len(rest) <= Leftovers
       /\ IF IsRam(p)
          THEN /\ Sets(MemFreeAll(shrunk, RestFreed(rest)))
               /\ pbuf' = [Without(pbuf, Ids(rest)) EXCEPT ![q].len = Cut(q, rsize), ![q].next = NULL,
                                                           ![p].tot = size]
          ELSE /\ pbuf[p].next = NULL /\ UNCHANGED heap
               /\ pbuf' = [pbuf EXCEPT ![p].len = size, ![p].tot = size]
       /\ UNCHANGED held

\* Mutant: the head keeps its total.
MutantJoined(h, t) == [pbuf EXCEPT ![Last(Chain(pbuf, h))].next = t]
Joined(h, t) == [pbuf EXCEPT ![Last(Chain(pbuf, h))].next = t, ![h].tot = @ + pbuf[t].tot]

\* pbuf_chain: the holder of t gives it to h.
PbufChain(h, t) ==
    /\ h # t /\ pbuf[t].ref = 1
    /\ pbuf' = Joined(h, t) /\ held' = held \ {t} /\ UNCHANGED heap

\* pbuf_dechain
PbufDechain(p) ==
    LET q == pbuf[p].next IN
    /\ q # NULL
    /\ pbuf' = [pbuf EXCEPT ![q].tot = pbuf[p].tot - pbuf[p].len, ![p].tot = pbuf[p].len, ![p].next = NULL]
    /\ held' = held \cup {q} /\ UNCHANGED heap

Next ==
    \/ Alloc
    \/ \E p \in held :
         \/ Free(p) \/ Ref(p) \/ PbufDechain(p)
         \/ \E n \in -1..1 : PbufHeader(p, n)
         \/ \E size \in 0..2 * MaxLen : PbufRealloc(p, size)
         \/ \E t \in held : PbufChain(p, t)

Spec == Init /\ [][Next]_vars

----------------------------------------------------------------------------
\* Properties

\* The links of the heap hold together through every order of splits, cuts
\* and merges: the blocks tile the array, each knows the one before, no two
\* free ones touch, the search begins at a free one, and the used
\* blocks are those of the buffers.
HeapSound ==
    LET B == Blocks(ram) IN
    /\ \A a \in B : ram[a].next > a /\ ram[a].next <= MEM_SIZE
    /\ \A a \in B : ram[a].next # MEM_SIZE =>
                      ram[ram[a].next].prev = a /\ (ram[a].used \/ ram[ram[a].next].used)
    /\ lfree \in B /\ ~ram[lfree].used
    /\ {a \in B : ram[a].used} = {p \in DOMAIN pbuf : IsRam(p)}

\* Nothing of a chain that somebody holds lies outside its block, and the
\* head knows how much the chain holds, however it was chained, cut, parted
\* and shared.
ChainsSound ==
    \A p \in held :
        /\ pbuf[p].tot = SumLen(pbuf, Chain(pbuf, p))
        /\ \A q \in Ids(Chain(pbuf, p)) : IsRam(q) => pbuf[q].off + pbuf[q].len <= Size(ram, q)

\* When the last buffer is freed the heap is one free block again.
NothingLeaks == held = {} => Blocks(ram) = {0} /\ lfree = 0 /\ ~ram[0].used /\ pbuf = <<>>

\* The heap and the chains of buffers in it are sound, and end as they began.
BuffersSound == HeapSound /\ ChainsSound /\ NothingLeaks

\* "pointer to the lowest free block" (mem.c:107)
LowestFree == \A a \in Blocks(ram) : ~ram[a].used => lfree <= a
=============================================================================
