--------------------------------- MODULE Tlb ---------------------------------
(***************************************************************************)
(* Address translation of the emulated CPU (tlb.c).  The 32 entries of the *)
(* R4300's TLB are not searched: writing one spreads it over TLB_Map, a    *)
(* table with one translation for each page, from which the pages of the   *)
(* entry that was there before have been removed.                          *)
(*                                                                         *)
(* FastTlb holds nothing but what SetupTLB_Entry computes from an entry as *)
(* soon as the entry is written, so it is a definition here.  Addresses    *)
(* are page numbers; DIRTY and the cache attributes are never read.        *)
(***************************************************************************)
EXTENDS Integers

CONSTANTS
    Entries,        \* the TLB has the entries 0 .. Entries - 1
    Pages,          \* 2^20, the pages of an address space
    DirectFirst,    \* the first and the last page of KSEG0 and KSEG1,
    DirectLast,     \* which are mapped to memory without the TLB
    PhysPages,      \* the pages of physical memory, 0x20000
    Vector,         \* the page of the exception handlers
    MaskWrites,     \* the values of PageMask: pages of half an entry, less one
    HiWrites,       \* the values of EntryHi
    LoWrites,       \* the values of EntryLo0 and EntryLo1
    FileEntries,    \* the entries that save states hold
    WiredWrites,    \* the values of Wired
    Touched         \* the pages that the program jumps to or loads from

Page == 0 .. Pages - 1
Direct == DirectFirst .. DirectLast
Entry == 0 .. Entries - 1
Even == 0
Odd == 1
Halves == {Even, Odd}

Vpn2 == 0 .. Pages \div 2 - 1
EntryHi == [vpn2 : Vpn2, asid : Nat, bit8 : BOOLEAN]
EntryLo == [valid : BOOLEAN, pfn : Nat]
TlbEntry == [defined : BOOLEAN, mask : MaskWrites, hi : EntryHi,
             lo : [Halves -> EntryLo]]

(* The address space is a number of entries of each size.                  *)
ASSUME TlbAssumption ==
    /\ Entries \in Nat \ {0} /\ Pages \in Nat \ {0} /\ PhysPages \in Nat \ {0}
    /\ DirectFirst \in Page /\ DirectLast \in Page /\ Vector \in Direct
    /\ \A m \in MaskWrites : m \in Nat /\ \E k \in 1 .. Pages : Pages = 2 * ((m + 1) * k)
    /\ MaskWrites # {}
    /\ HiWrites \subseteq EntryHi /\ LoWrites \subseteq EntryLo
    /\ FileEntries \subseteq TlbEntry
    /\ WiredWrites \subseteq Entry
    /\ Touched \subseteq Page

Unmapped == -1

VARIABLES
    tlb,        \* the entries
    map,        \* TLB_Map: the physical page of each page, or Unmapped
    pc,         \* the page of PROGRAM_COUNTER
    mask,       \* PAGE_MASK_REGISTER
    hi,         \* ENTRYHI_REGISTER
    lo,         \* ENTRYLO0_REGISTER and ENTRYLO1_REGISTER
    index,      \* INDEX_REGISTER & 0x1F
    random,     \* RANDOM_REGISTER & 0x1F
    wired,      \* WIRED_REGISTER
    endless,    \* the loop over the pages of an entry does not end
    overlapped, \* history: two entries have covered a page at once
    straddled   \* history: half an entry lay across the edge of Direct

registers == <<mask, hi, lo, index, wired>>
vars == <<tlb, map, pc, registers, random, endless, overlapped, straddled>>

-----------------------------------------------------------------------------
(* What SetupTLB_Entry makes of half h of entry t.                         *)

Start(t, h) == (2 * t.hi.vpn2 + h * (t.mask + 1)) % Pages

Last(t, h) == (Start(t, h) + t.mask) % Pages

Covers(t, h, p) == Start(t, h) <= p /\ p <= Last(t, h)

(* Mutant: halves inside KSEG0 and KSEG1 are not left out. *)
InstalledAnywhere(t, h) ==
    /\ t.defined /\ t.lo[h].valid
    /\ Start(t, h) <= Last(t, h)
    /\ t.lo[h].pfn < PhysPages

(* ValidEntry and VALID: the half is spread over TLB_Map.  A half that     *)
(* wraps around the address space is not, nor one inside KSEG0 or KSEG1.   *)
Installed(t, h) ==
    /\ t.defined
    /\ t.lo[h].valid
    /\ Start(t, h) <= Last(t, h)
    /\ ~(DirectFirst <= Start(t, h) /\ Last(t, h) <= DirectLast)
    /\ t.lo[h].pfn < PhysPages

Translation(t, h, p) == t.lo[h].pfn + p - Start(t, h)

(* The loop counts addresses up to VEND, which the 32-bit counter never    *)
(* passes when VEND is 0xFFFFFFFF.                                         *)
NeverEnds(t) ==
    \E h \in Halves : Installed(t, h) /\ Last(t, h) = Pages - 1

Maps(t, p) == \E h \in Halves : Installed(t, h) /\ Covers(t, h, p)

Translate(t, p) ==
    LET h == CHOOSE h \in Halves : Installed(t, h) /\ Covers(t, h, p)
    IN  Translation(t, h, p)

Straddles(t) ==
    \E h \in Halves :
        /\ Installed(t, h)
        /\ \/ Start(t, h) < DirectFirst /\ DirectFirst <= Last(t, h)
           \/ Start(t, h) <= DirectLast /\ DirectLast < Last(t, h)

-----------------------------------------------------------------------------
(* SetupTLB, when the entries have been read from the save state: the      *)
(* direct segments first, then every entry in turn over what is there.     *)

DirectMap(p) == IF p \in Direct THEN p % PhysPages ELSE Unmapped

SetupTLB(t, p) ==
    IF \E e \in Entry : Maps(t[e], p)
    THEN LET e == CHOOSE e \in Entry :
                     /\ Maps(t[e], p)
                     /\ \A f \in Entry : Maps(t[f], p) => f <= e
         IN  Translate(t[e], p)
    ELSE DirectMap(p)

Overlap(t) ==
    \E e, f \in Entry, p \in Page : e # f /\ Maps(t[e], p) /\ Maps(t[f], p)

(* Mutants: the pages of the old entry stay, or go last. *)
SpreadOver(old, new, p) == IF Maps(new, p) THEN Translate(new, p) ELSE map[p]
SpreadFirst(old, new, p) ==
    IF Maps(old, p) THEN Unmapped
    ELSE IF Maps(new, p) THEN Translate(new, p) ELSE map[p]

(* TLB_Map after old has been taken out and new spread. *)
Spread(old, new, p) ==
    IF Maps(new, p) THEN Translate(new, p)
    ELSE IF Maps(old, p) THEN Unmapped ELSE map[p]

(* Mutant: the check that spares the running code is missing. *)
RefusesNothing(e) == FALSE

(* WriteTLBEntry does nothing when the code that runs is in the entry. *)
Refuses(e) == Maps(tlb[e], pc)

Register == [defined |-> TRUE, mask |-> mask, hi |-> hi, lo |-> lo]

WriteTLBEntry(e) ==
    IF Refuses(e) THEN UNCHANGED <<tlb, map, endless, overlapped, straddled>>
    ELSE /\ tlb' = [tlb EXCEPT ![e] = Register]
         /\ map' = [p \in Page |-> Spread(tlb[e], Register, p)]
         /\ endless' = NeverEnds(Register)
         /\ overlapped' = (overlapped \/ Overlap(tlb'))
         /\ straddled' = (straddled \/ Straddles(Register))

-----------------------------------------------------------------------------
(* An instruction is fetched through TLB_Map and RANDOM counts down first. *)

(* Mutants: RANDOM goes down to zero whatever is wired, or for ever. *)
TickedUnwired == IF random - 1 < 0 THEN Entries - 1 ELSE random - 1
TickedForever == random - 1

Ticked == IF random - 1 < wired THEN Entries - 1 ELSE random - 1

Execute ==
    /\ ~endless
    /\ map[pc] # Unmapped
    /\ random' = Ticked

(* TLBWI, TLBWR. *)
WriteIndexed ==
    /\ Execute
    /\ WriteTLBEntry(index)
    /\ UNCHANGED <<registers, pc>>

WriteRandom ==
    /\ Execute
    /\ WriteTLBEntry(random')
    /\ UNCHANGED <<registers, pc>>

(* TLBR. *)
Read ==
    /\ Execute
    /\ mask' = tlb[index].mask
    /\ hi' = [tlb[index].hi EXCEPT !.vpn2 = @ - (@ % (tlb[index].mask + 1))]
    /\ lo' = tlb[index].lo
    /\ UNCHANGED <<tlb, map, pc, index, wired, endless, overlapped, straddled>>

(* Mutant: the mask is not applied. *)
ProbesSameUnmasked(t) ==
    t.hi.vpn2 = hi.vpn2 /\ (t.hi.bit8 \/ t.hi.asid = hi.asid)

(* TLBP takes the first entry whose page number agrees outside of the      *)
(* mask, which is one less than a power of two.  When there is none the    *)
(* low bits of INDEX_REGISTER stay.                                        *)
ProbesSame(t) ==
    /\ t.hi.vpn2 \div (t.mask + 1) = hi.vpn2 \div (t.mask + 1)
    /\ t.hi.bit8 \/ t.hi.asid = hi.asid

Probe ==
    /\ Execute
    /\ LET found == {e \in Entry : ProbesSame(tlb[e])}
       IN  IF found = {} THEN index' = index
           ELSE index' \in found /\ \A e \in found : index' <= e
    /\ UNCHANGED <<tlb, map, pc, mask, hi, lo, wired, endless, overlapped,
                   straddled>>

(* MTC0 to the registers of the TLB. *)
MoveToRegister ==
    /\ Execute
    /\ \/ mask' \in MaskWrites /\ UNCHANGED <<hi, lo, index, wired>>
       \/ hi' \in HiWrites /\ UNCHANGED <<mask, lo, index, wired>>
       \/ /\ \E h \in Halves, v \in LoWrites : lo' = [lo EXCEPT ![h] = v]
          /\ UNCHANGED <<mask, hi, index, wired>>
       \/ index' \in Entry /\ UNCHANGED <<mask, hi, lo, wired>>
       \/ wired' \in WiredWrites /\ UNCHANGED <<mask, hi, lo, index>>
    /\ UNCHANGED <<tlb, map, pc, endless, overlapped, straddled>>

(* DoTLBMiss: EntryHi takes the page and loses its ASID.  Whether the page *)
(* is AddressDefined only chooses between two handlers of the same page.   *)
Miss(p) ==
    /\ hi' = [vpn2 |-> p \div 2, asid |-> 0, bit8 |-> FALSE]
    /\ pc' = Vector
    /\ UNCHANGED <<tlb, map, mask, lo, index, wired, endless, overlapped,
                   straddled>>

LoadMiss ==
    /\ Execute
    /\ \E p \in Touched : map[p] = Unmapped /\ Miss(p)

(* A jump, which is fetched from its target next. *)
Jump ==
    /\ Execute
    /\ pc' \in Touched
    /\ UNCHANGED <<tlb, map, registers, endless, overlapped, straddled>>

FetchMiss ==
    /\ ~endless
    /\ map[pc] = Unmapped
    /\ Miss(pc)
    /\ UNCHANGED random

Halted == endless /\ UNCHANGED vars

(* The entries and registers of a save state. *)
Init ==
    /\ tlb \in [Entry -> FileEntries]
    /\ mask \in MaskWrites /\ hi \in HiWrites /\ lo \in [Halves -> LoWrites]
    /\ map = [p \in Page |-> SetupTLB(tlb, p)]
    /\ pc \in Touched \cup {Vector}
    /\ index = 0 /\ random = Entries - 1 /\ wired = 0
    /\ endless = (\E e \in Entry : NeverEnds(tlb[e]))
    /\ overlapped = Overlap(tlb)
    /\ straddled = (\E e \in Entry : Straddles(tlb[e]))

Next ==
    \/ WriteIndexed \/ WriteRandom \/ Read \/ Probe \/ MoveToRegister
    \/ LoadMiss \/ Jump \/ FetchMiss \/ Halted

Spec == Init /\ [][Next]_vars
-----------------------------------------------------------------------------
TypeOK ==
    /\ tlb \in [Entry -> TlbEntry]
    /\ map \in [Page -> Nat \cup {Unmapped}]
    /\ pc \in Page
    /\ mask \in MaskWrites /\ hi \in EntryHi /\ lo \in [Halves -> EntryLo]
    /\ index \in Entry /\ random \in Entry /\ wired \in WiredWrites \cup {0}
    /\ endless \in BOOLEAN /\ straddled \in BOOLEAN
    /\ overlapped \in BOOLEAN

(* No translation outlives the entry it came from: what TLB_Map holds for  *)
(* a page outside of the direct segments is what a defined, valid entry    *)
(* that covers the page says, however entries overlap and in whatever      *)
(* order they are rewritten (WriteTLBEntry, SetupTLB_Entry).               *)
NoStaleTranslation ==
    \A p \in Page \ Direct :
        map[p] # Unmapped =>
            \E e \in Entry : Maps(tlb[e], p) /\ map[p] = Translate(tlb[e], p)

(* TLB_Map answers as a search of the entries would, as long as no two     *)
(* entries have covered a page at once: then the page may be lost when one *)
(* of them is rewritten.                                                   *)
LooksUpLikeSearch ==
    ~overlapped =>
        \A p \in Page \ Direct, e \in Entry :
            Maps(tlb[e], p) => map[p] = Translate(tlb[e], p)

(* The direct segments stay what they are, unless the program has written  *)
(* an entry of which half lies across their edge.                          *)
DirectSegmentsKept ==
    ~straddled => \A p \in Direct : map[p] = DirectMap(p)

(* The page the CPU is executing is not taken away under it, whichever     *)
(* entry is written.                                                       *)
RunningCodeStaysMapped ==
    [][pc' = pc /\ map[pc] # Unmapped => map'[pc] # Unmapped]_vars

(* A wired entry only changes when the program names it: TLBWR never hits  *)
(* one, though Wired may be raised above RANDOM at any time.               *)
WiredKept ==
    [][\A e \in Entry : e < wired /\ tlb'[e] # tlb[e] => e = index]_vars

(* TLBP finds an entry, of the same address space and with a page number   *)
(* that fits its mask, from every page that the entry maps in TLB_Map.     *)
ProbeFindsMapping ==
    \A e \in Entry, p \in Page :
        /\ Maps(tlb[e], p)
        /\ p \div 2 = hi.vpn2
        /\ tlb[e].hi.vpn2 % (tlb[e].mask + 1) = 0
        /\ tlb[e].hi.asid = hi.asid
        => ProbesSame(tlb[e])
=============================================================================
