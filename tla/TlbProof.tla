------------------------------- MODULE TlbProof ------------------------------
(***************************************************************************)
(* Proofs about the TLB: what TLB_Map holds always comes from the entries, *)
(* the running code keeps its page, and wired entries stay.                *)
(***************************************************************************)
EXTENDS Tlb, TLAPS, WellFoundedInduction

(* Where no two entries overlap it is because they never have. *)
OverlapSeen == Overlap(tlb) => overlapped

TlbInv ==
    TypeOK /\ NoStaleTranslation /\ LooksUpLikeSearch /\ OverlapSeen
    /\ DirectSegmentsKept /\ (\A e \in Entry : Straddles(tlb[e]) => straddled)

(* Remainders. *)
LEMMA Remainder ==
  ASSUME NEW a \in Nat, NEW b \in Nat \ {0}
  PROVE  a % b \in Nat /\ a % b < b /\ a % b <= a
  OBVIOUS

(* The sizes of entries, and of the address space, which is even. *)
LEMMA Sizes ==
  /\ \A m \in MaskWrites : m \in Nat
  /\ \A m \in MaskWrites : \E k \in Nat : Pages = 2 * ((m + 1) * k)
  /\ \E n \in Nat : Pages = 2 * n /\ Vpn2 = 0 .. n - 1
<1>1. \A m \in MaskWrites : m \in Nat /\ \E k \in Nat : Pages = 2 * ((m + 1) * k)
  <2> TAKE m \in MaskWrites
  <2>1. m \in Nat /\ Pages \in Nat
    BY TlbAssumption
  <2>2. PICK k \in 1 .. Pages : Pages = 2 * ((m + 1) * k)
    BY TlbAssumption
  <2> QED
    BY <2>1, <2>2
<1>2. \E n \in Nat : Pages = 2 * n
  <2>1. PICK m \in MaskWrites : m \in Nat
    BY <1>1, TlbAssumption
  <2>2. PICK k \in Nat : Pages = 2 * ((m + 1) * k)
    BY <1>1
  <2>3. (m + 1) * k \in Nat
    BY <2>1, <2>2
  <2> QED
    BY <2>2, <2>3
<1>3. ASSUME NEW n \in Nat, Pages = 2 * n PROVE Vpn2 = 0 .. n - 1
  <2>1. (2 * n) \div 2 = n
    OBVIOUS
  <2> QED
    BY <1>3, <2>1 DEF Vpn2
<1> QED
  BY <1>1, <1>2, <1>3

LEMMA VpnNat == Vpn2 \subseteq Nat
BY Sizes

(* A translation is a physical page. *)
LEMMA TranslateType ==
  ASSUME NEW t \in TlbEntry, NEW p \in Page, Maps(t, p)
  PROVE  Translate(t, p) \in Nat
<1> DEFINE h == CHOOSE h \in Halves : Installed(t, h) /\ Covers(t, h, p)
<1>1. h \in Halves /\ Covers(t, h, p)
  BY DEF Maps
<1>2. h \in Nat /\ t.mask \in Nat /\ t.hi.vpn2 \in Nat /\ t.lo[h].pfn \in Nat
  <2> HIDE DEF h
  <2>1. h \in Nat
    BY <1>1 DEF Halves, Even, Odd
  <2>2. t.mask \in MaskWrites /\ t.hi \in EntryHi /\ t.lo[h] \in EntryLo
    BY <1>1 DEF TlbEntry
  <2> QED
    BY <2>1, <2>2, Sizes, VpnNat DEF EntryHi, EntryLo
<1>3. Start(t, h) \in Nat
  <2>1. 2 * t.hi.vpn2 + h * (t.mask + 1) \in Nat
    <3>1. h = 0 \/ h = 1
      BY <1>1 DEF Halves, Even, Odd
    <3> HIDE DEF h
    <3> QED
      BY <1>2, <3>1
  <2> HIDE DEF h
  <2> QED
    BY <2>1, TlbAssumption, Remainder DEF Start
<1>4. p \in Nat /\ Start(t, h) <= p
  BY <1>1, TlbAssumption DEF Covers, Page
<1>5. Translate(t, p) = t.lo[h].pfn + p - Start(t, h)
  BY DEF Translate, Translation
<1> HIDE DEF h
<1> QED
  BY <1>2, <1>3, <1>4, <1>5

LEMMA DirectMapType ==
  ASSUME NEW p \in Page PROVE DirectMap(p) \in Nat \cup {Unmapped}
<1>1. p \in Nat /\ PhysPages \in Nat \ {0}
  BY TlbAssumption DEF Page
<1> QED
  BY <1>1, Remainder DEF DirectMap, Unmapped

-----------------------------------------------------------------------------
(* SetupTLB gives each page to an entry that maps it, if there is one. *)
LEMMA SetupTLBMaps ==
  ASSUME NEW t \in [Entry -> TlbEntry], NEW p \in Page
  PROVE  \/ /\ \A e \in Entry : ~Maps(t[e], p)
            /\ SetupTLB(t, p) = DirectMap(p)
         \/ \E e \in Entry : Maps(t[e], p) /\ SetupTLB(t, p) = Translate(t[e], p)
<1> DEFINE Top(e) == /\ Maps(t[e], p)
                     /\ \A f \in Entry : Maps(t[f], p) => f <= e
<1>1. CASE \A e \in Entry : ~Maps(t[e], p)
  BY <1>1 DEF SetupTLB
<1>2. CASE \E e \in Entry : Maps(t[e], p)
  <2>1. \E e \in Entry : Top(e)
    <3> DEFINE S == {n \in Nat : \E e \in Entry : n = Entries - e /\ Maps(t[e], p)}
    <3>1. \A e \in Entry : e \in Nat /\ Entries - e \in Nat
      BY TlbAssumption DEF Entry
    <3>2. S \in SUBSET Nat /\ S # {}
      BY <1>2, <3>1
    <3>3. PICK n \in S : \A m \in S : n <= m
      <4> DEFINE R == OpToRel(<, Nat)
      <4>1. IsWellFoundedOn(R, Nat)
        BY NatLessThanWellFounded
      <4>2. \A x \in Nat, y \in Nat : y < x => <<y, x>> \in R
        BY DEF OpToRel
      <4> HIDE DEF R, S
      <4>3. \E x \in S : \A y \in S : <<y, x>> \notin R
        BY <3>2, <4>1, WFMin
      <4>4. PICK x \in S : \A y \in S : <<y, x>> \notin R
        BY <4>3
      <4>5. \A y \in S : y \in Nat /\ x \in Nat /\ ~(y < x)
        BY <3>2, <4>2, <4>4
      <4> QED
        BY <4>4, <4>5
    <3>4. PICK e \in Entry : n = Entries - e /\ Maps(t[e], p)
      BY <3>3
    <3>5. ASSUME NEW f \in Entry, Maps(t[f], p) PROVE f <= e
      <4>1. Entries - f \in S
        BY <3>1, <3>5
      <4>2. Entries - e <= Entries - f
        BY <3>3, <3>4, <4>1
      <4> QED
        BY <3>1, <4>2, TlbAssumption
    <3> QED
      BY <3>4, <3>5
  <2>2. (CHOOSE e \in Entry : Top(e)) \in Entry
        /\ Top(CHOOSE e \in Entry : Top(e))
    BY <2>1
  <2> QED
    BY <1>2, <2>2 DEF SetupTLB
<1> QED
  BY <1>1, <1>2

-----------------------------------------------------------------------------
LEMMA RegisterType == TypeOK => Register \in TlbEntry
  BY DEF TypeOK, Register, TlbEntry

(* Only half an entry that lies across the edge of a direct segment is     *)
(* spread over pages of it.                                                *)
LEMMA OnlyStraddlersReachDirect ==
  ASSUME NEW t \in TlbEntry, NEW p \in Direct, Maps(t, p)
  PROVE  Straddles(t)
<1>1. PICK h \in Halves : Installed(t, h) /\ Covers(t, h, p)
  BY DEF Maps
<1> DEFINE s == Start(t, h)
           l == Last(t, h)
<1>2. s \in Nat /\ l \in Nat
  <2>1. h = 0 \/ h = 1
    BY DEF Halves, Even, Odd
  <2>2. t.mask \in Nat /\ t.hi.vpn2 \in Nat
    BY Sizes, VpnNat DEF TlbEntry, EntryHi
  <2>3. 2 * t.hi.vpn2 + h * (t.mask + 1) \in Nat
    BY <2>1, <2>2
  <2>4. s \in Nat
    BY <2>3, TlbAssumption, Remainder DEF Start
  <2>5. s + t.mask \in Nat
    BY <2>2, <2>4
  <2> QED
    BY <2>4, <2>5, TlbAssumption, Remainder DEF Last
<1>3. s <= p /\ p <= l
  BY <1>1 DEF Covers
<1>4. ~(DirectFirst <= s /\ l <= DirectLast)
  BY <1>1 DEF Installed
<1>5. \/ s < DirectFirst /\ DirectFirst <= l
      \/ s <= DirectLast /\ DirectLast < l
  <2> HIDE DEF s, l
  <2> QED
    BY <1>2, <1>3, <1>4, TlbAssumption DEF Direct, Page
<1> QED
  BY <1>1, <1>5 DEF Straddles

RunningPageKept == map[pc] # Unmapped => map'[pc] # Unmapped

(* What WriteTLBEntry does, when it is not refused. *)
LEMMA WriteInv ==
  ASSUME TlbInv, NEW e \in Entry, WriteTLBEntry(e)
  PROVE  /\ tlb' \in [Entry -> TlbEntry]
         /\ map' \in [Page -> Nat \cup {Unmapped}]
         /\ endless' \in BOOLEAN /\ overlapped' \in BOOLEAN
         /\ straddled' \in BOOLEAN
         /\ NoStaleTranslation' /\ LooksUpLikeSearch' /\ OverlapSeen'
         /\ DirectSegmentsKept' /\ RunningPageKept
         /\ \A f \in Entry : Straddles(tlb'[f]) => straddled'
<1>1. CASE Refuses(e)
  <2>1. UNCHANGED <<tlb, map, endless, overlapped, straddled>>
    BY <1>1 DEF WriteTLBEntry
  <2> QED
    BY <2>1 DEF TlbInv, TypeOK, NoStaleTranslation, LooksUpLikeSearch,
                OverlapSeen, DirectSegmentsKept, RunningPageKept
<1>2. CASE ~Refuses(e)
  <2> DEFINE new == Register
             old == tlb[e]
  <2>1. /\ tlb' = [tlb EXCEPT ![e] = new]
        /\ map' = [p \in Page |-> Spread(old, new, p)]
        /\ endless' = NeverEnds(new)
        /\ overlapped' = (overlapped \/ Overlap(tlb'))
        /\ straddled' = (straddled \/ Straddles(new))
    BY <1>2 DEF WriteTLBEntry
  <2>2. new \in TlbEntry
    BY RegisterType DEF TlbInv
  <2>3. tlb \in [Entry -> TlbEntry]
    BY DEF TlbInv, TypeOK
  <2> HIDE DEF new
  <2>4. /\ tlb' \in [Entry -> TlbEntry] /\ tlb'[e] = new
        /\ \A f \in Entry \ {e} : tlb'[f] = tlb[f]
    BY <2>1, <2>2, <2>3
  <2>5. \A p \in Page : map'[p] = IF Maps(new, p) THEN Translate(new, p)
                                  ELSE IF Maps(old, p) THEN Unmapped ELSE map[p]
    BY <2>1 DEF Spread
  <2> HIDE DEF old
  <2>6. map' \in [Page -> Nat \cup {Unmapped}]
    <3>1. \A p \in Page : Spread(old, new, p) \in Nat \cup {Unmapped}
      BY <2>2, TranslateType DEF Spread, TlbInv, TypeOK
    <3> QED
      BY <2>1, <3>1
  <2>7. endless' \in BOOLEAN /\ overlapped' \in BOOLEAN /\ straddled' \in BOOLEAN
    BY <2>1 DEF TlbInv, TypeOK, NeverEnds, Overlap, Straddles
  <2>8. NoStaleTranslation'
    <3> SUFFICES ASSUME NEW p \in Page \ Direct, map'[p] # Unmapped
                 PROVE  \E f \in Entry : /\ Maps(tlb'[f], p)
                                         /\ map'[p] = Translate(tlb'[f], p)
      BY DEF NoStaleTranslation
    <3>1. CASE Maps(new, p)
      BY <2>4, <2>5, <3>1
    <3>2. CASE ~Maps(new, p)
      <4>1. ~Maps(old, p) /\ map'[p] = map[p]
        BY <2>5, <3>2
      <4>2. PICK f \in Entry : Maps(tlb[f], p) /\ map[p] = Translate(tlb[f], p)
        BY <4>1 DEF TlbInv, NoStaleTranslation
      <4>3. f # e
        BY <4>1, <4>2 DEF old
      <4> QED
        BY <2>4, <4>1, <4>2, <4>3
    <3> QED
      BY <3>1, <3>2
  <2>9. LooksUpLikeSearch'
    <3> SUFFICES ASSUME ~overlapped', NEW p \in Page \ Direct, NEW f \in Entry,
                        Maps(tlb'[f], p)
                 PROVE  map'[p] = Translate(tlb'[f], p)
      BY DEF LooksUpLikeSearch
    <3>1. ~overlapped /\ ~Overlap(tlb')
      BY <2>1
    <3>2. CASE f = e
      BY <2>4, <2>5, <3>2
    <3>3. CASE f # e
      <4>1. tlb'[f] = tlb[f]
        BY <2>4, <3>3
      <4>2. ~Maps(new, p)
        BY <2>4, <3>1, <3>3 DEF Overlap
      <4>3. ~Maps(old, p)
        BY <3>1, <3>3, <4>1 DEF TlbInv, OverlapSeen, Overlap, old
      <4>4. map[p] = Translate(tlb[f], p)
        BY <3>1, <4>1 DEF TlbInv, LooksUpLikeSearch
      <4> QED
        BY <2>5, <4>1, <4>2, <4>3, <4>4
    <3> QED
      BY <3>2, <3>3
  <2>10. OverlapSeen'
    BY <2>1 DEF OverlapSeen
  <2>11. \A f \in Entry : Straddles(tlb'[f]) => straddled'
    BY <2>1, <2>4 DEF TlbInv
  <2>12. DirectSegmentsKept'
    <3> SUFFICES ASSUME ~straddled', NEW p \in Direct
                 PROVE  map'[p] = DirectMap(p)
      BY DEF DirectSegmentsKept
    <3>1. ~straddled /\ ~Straddles(new) /\ ~Straddles(old)
      BY <2>1 DEF TlbInv, old
    <3>2. ~Maps(new, p) /\ ~Maps(old, p)
      BY <2>2, <2>3, <3>1, OnlyStraddlersReachDirect DEF old
    <3>3. p \in Page
      BY TlbAssumption DEF Direct, Page
    <3> QED
      BY <2>5, <3>1, <3>2, <3>3 DEF TlbInv, DirectSegmentsKept
  <2>13. RunningPageKept
    <3>1. pc \in Page /\ ~Maps(old, pc)
      BY <1>2 DEF TlbInv, TypeOK, Refuses, old
    <3>2. Maps(new, pc) => Translate(new, pc) \in Nat
      BY <2>2, <3>1, TranslateType
    <3> QED
      BY <2>5, <3>1, <3>2 DEF RunningPageKept, Unmapped
  <2> QED
    BY <2>4, <2>6, <2>7, <2>8, <2>9, <2>10, <2>11, <2>12, <2>13
<1> QED
  BY <1>1, <1>2

(* RANDOM stays an entry that is not wired. *)
LEMMA TickedType ==
  ASSUME TypeOK
  PROVE  Ticked \in Entry /\ Ticked >= wired
<1>1. wired \in Entry /\ random \in Entry
  BY TlbAssumption DEF TypeOK, Entry
<1> QED
  BY <1>1, TlbAssumption DEF Ticked, Entry

-----------------------------------------------------------------------------
LEMMA InitInv == Init => TlbInv
<1> SUFFICES ASSUME Init PROVE TlbInv
  OBVIOUS
<1>1. tlb \in [Entry -> TlbEntry]
  BY TlbAssumption DEF Init
<1>2. \A p \in Page : map[p] = SetupTLB(tlb, p)
  BY DEF Init
<1>3. TypeOK
  <2>1. mask \in MaskWrites /\ hi \in EntryHi /\ lo \in [Halves -> EntryLo]
    BY TlbAssumption DEF Init
  <2>2. pc \in Page
    BY TlbAssumption DEF Init, Direct, Page
  <2>3. index \in Entry /\ random \in Entry /\ wired \in WiredWrites \cup {0}
    BY TlbAssumption DEF Init, Entry
  <2>4. \A p \in Page : SetupTLB(tlb, p) \in Nat \cup {Unmapped}
    BY <1>1, SetupTLBMaps, DirectMapType, TranslateType
  <2>5. map \in [Page -> Nat \cup {Unmapped}]
    BY <2>4 DEF Init
  <2>6. endless \in BOOLEAN /\ straddled \in BOOLEAN /\ overlapped \in BOOLEAN
    BY DEF Init, Overlap
  <2> QED
    BY <1>1, <2>1, <2>2, <2>3, <2>5, <2>6 DEF TypeOK
<1>4. NoStaleTranslation
  BY <1>1, <1>2, SetupTLBMaps DEF NoStaleTranslation, DirectMap
<1>5. OverlapSeen
  BY DEF Init, OverlapSeen
<1>6. LooksUpLikeSearch
  <2> SUFFICES ASSUME ~overlapped, NEW p \in Page \ Direct, NEW e \in Entry,
                      Maps(tlb[e], p)
               PROVE  map[p] = Translate(tlb[e], p)
    BY DEF LooksUpLikeSearch
  <2>1. PICK f \in Entry : Maps(tlb[f], p) /\ map[p] = Translate(tlb[f], p)
    BY <1>1, <1>2, SetupTLBMaps
  <2>2. f = e
    BY <2>1 DEF Init, Overlap
  <2> QED
    BY <2>1, <2>2
<1>7. \A e \in Entry : Straddles(tlb[e]) => straddled
  BY DEF Init
<1>8. DirectSegmentsKept
  <2> SUFFICES ASSUME ~straddled, NEW p \in Direct PROVE map[p] = DirectMap(p)
    BY DEF DirectSegmentsKept
  <2>1. p \in Page
    BY TlbAssumption DEF Direct, Page
  <2>2. \A e \in Entry : ~Maps(tlb[e], p)
    BY <1>1, <1>7, OnlyStraddlersReachDirect
  <2> QED
    BY <1>1, <1>2, <2>1, <2>2, SetupTLBMaps
<1> QED
  BY <1>3, <1>4, <1>5, <1>6, <1>7, <1>8 DEF TlbInv

(* The invariant says nothing of the registers but their types. *)
Kept == UNCHANGED <<tlb, map, endless, overlapped, straddled>>

RegistersType ==
    /\ pc \in Page /\ mask \in MaskWrites /\ hi \in EntryHi
    /\ lo \in [Halves -> EntryLo]
    /\ index \in Entry /\ random \in Entry /\ wired \in WiredWrites \cup {0}

LEMMA KeptInv == TlbInv /\ Kept /\ RegistersType' => TlbInv'
  BY DEF TlbInv, Kept, RegistersType, TypeOK, NoStaleTranslation,
         LooksUpLikeSearch, OverlapSeen, DirectSegmentsKept

LEMMA MissType ==
  ASSUME TypeOK, NEW p \in Page, Miss(p), random' \in Entry
  PROVE  Kept /\ RegistersType'
<1>1. p \div 2 \in Vpn2
  <2>1. PICK n \in Nat : Pages = 2 * n /\ Vpn2 = 0 .. n - 1
    BY Sizes
  <2> QED
    BY <2>1 DEF Page
<1>2. 0 \in Nat /\ FALSE \in BOOLEAN
  OBVIOUS
<1>3. hi' \in EntryHi
  BY <1>1, <1>2 DEF Miss, EntryHi
<1>4. pc' \in Page
  BY TlbAssumption DEF Miss, Direct, Page
<1> QED
  BY <1>3, <1>4 DEF TypeOK, Miss, Kept, RegistersType

LEMMA NextInv == TlbInv /\ [Next]_vars => TlbInv'
<1> SUFFICES ASSUME TlbInv, [Next]_vars PROVE TlbInv'
  OBVIOUS
<1>1. TypeOK
  BY DEF TlbInv
<1>2. Ticked \in Entry
  BY <1>1, TickedType
<1> USE DEF Kept, RegistersType, registers
<1>3. CASE WriteIndexed
  <2>1. index \in Entry /\ WriteTLBEntry(index)
    BY <1>1, <1>3 DEF WriteIndexed, TypeOK
  <2>2. RegistersType'
    BY <1>1, <1>2, <1>3 DEF WriteIndexed, Execute, TypeOK
  <2> QED
    BY <2>1, <2>2, WriteInv DEF TlbInv, TypeOK, WriteTLBEntry
<1>4. CASE WriteRandom
  <2>1. random' \in Entry /\ WriteTLBEntry(random')
    BY <1>2, <1>4 DEF WriteRandom, Execute
  <2>2. RegistersType'
    BY <1>1, <1>2, <1>4 DEF WriteRandom, Execute, TypeOK
  <2> QED
    BY <2>1, <2>2, WriteInv DEF TlbInv, TypeOK, WriteTLBEntry
<1>5. CASE Read
  <2> DEFINE t == tlb[index]
  <2>1. t \in TlbEntry /\ t.mask \in MaskWrites /\ t.lo \in [Halves -> EntryLo]
    BY <1>1 DEF TypeOK, TlbEntry
  <2>2. t.hi \in EntryHi /\ t.hi.vpn2 \in Nat /\ t.mask + 1 \in Nat \ {0}
    BY <2>1, Sizes, VpnNat DEF TlbEntry, EntryHi
  <2>3. hi' = [t.hi EXCEPT !.vpn2 = t.hi.vpn2 - (t.hi.vpn2 % (t.mask + 1))]
    BY <1>5 DEF Read
  <2>4. t.hi.vpn2 - (t.hi.vpn2 % (t.mask + 1)) \in 0 .. t.hi.vpn2
    <3> DEFINE n == t.hi.vpn2
               m == t.mask + 1
    <3>1. n % m \in Nat /\ n % m <= n
      <4>1. n \in Nat /\ m \in Nat \ {0}
        BY <2>2
      <4> HIDE DEF n, m
      <4> QED
        BY <4>1, Remainder
    <3>2. n \in Nat
      BY <2>2
    <3> HIDE DEF n, m
    <3>3. n - (n % m) \in 0 .. n
      BY <3>1, <3>2
    <3> QED
      BY <3>3 DEF n, m
  <2>5. hi' \in EntryHi
    <3>1. t.hi.vpn2 \in Vpn2
      BY <2>2 DEF EntryHi
    <3>2. \A x \in Vpn2 : \A y \in 0 .. x : y \in Vpn2
      BY Sizes
    <3>3. t.hi.vpn2 - (t.hi.vpn2 % (t.mask + 1)) \in Vpn2
      BY <2>4, <3>1, <3>2
    <3> QED
      BY <2>2, <2>3, <3>3 DEF EntryHi
  <2>6. Kept /\ RegistersType'
    BY <1>1, <1>2, <1>5, <2>1, <2>5 DEF Read, Execute, TypeOK
  <2> QED
    BY <2>6, KeptInv
<1>6. CASE Probe
  <2>1. index' \in Entry
    BY <1>1, <1>6 DEF Probe, TypeOK
  <2>2. Kept /\ RegistersType'
    BY <1>1, <1>2, <1>6, <2>1 DEF Probe, Execute, TypeOK
  <2> QED
    BY <2>2, KeptInv
<1>7. CASE MoveToRegister
  <2>1. /\ mask' \in MaskWrites /\ hi' \in EntryHi
        /\ index' \in Entry /\ wired' \in WiredWrites \cup {0}
    BY <1>1, <1>7, TlbAssumption DEF MoveToRegister, TypeOK
  <2>2. lo' \in [Halves -> EntryLo]
    BY <1>1, <1>7, TlbAssumption DEF MoveToRegister, TypeOK
  <2>3. Kept /\ RegistersType'
    BY <1>1, <1>2, <1>7, <2>1, <2>2 DEF MoveToRegister, Execute, TypeOK
  <2> QED
    BY <2>3, KeptInv
<1>8. CASE LoadMiss
  <2>1. PICK p \in Touched : Miss(p)
    BY <1>8 DEF LoadMiss
  <2>2. p \in Page /\ random' \in Entry
    BY <1>2, <1>8, TlbAssumption DEF LoadMiss, Execute
  <2>3. Kept /\ RegistersType'
    BY <1>1, <2>1, <2>2, MissType DEF Miss
  <2> QED
    BY <2>3, KeptInv
<1>9. CASE Jump
  <2>1. Kept /\ RegistersType'
    BY <1>1, <1>2, <1>9, TlbAssumption DEF Jump, Execute, TypeOK
  <2> QED
    BY <2>1, KeptInv
<1>10. CASE FetchMiss
  <2>1. pc \in Page /\ random' \in Entry /\ Miss(pc)
    BY <1>1, <1>10 DEF FetchMiss, TypeOK
  <2>2. Kept /\ RegistersType'
    BY <1>1, <2>1, MissType DEF Miss
  <2> QED
    BY <2>2, KeptInv
<1>11. CASE Halted \/ UNCHANGED vars
  <2>1. Kept /\ RegistersType'
    BY <1>1, <1>11 DEF Halted, vars, TypeOK
  <2> QED
    BY <2>1, KeptInv
<1> QED
  BY <1>3, <1>4, <1>5, <1>6, <1>7, <1>8, <1>9, <1>10, <1>11 DEF Next

LEMMA Invariant == Spec => []TlbInv
  BY InitInv, NextInv, PTL DEF Spec

-----------------------------------------------------------------------------
(* The TLB keeps its type: every entry is written with registers of the    *)
(* right shape, RANDOM stays an entry and translations are physical pages. *)
THEOREM TlbTypeCorrect == Spec => []TypeOK
<1>1. TlbInv => TypeOK
  BY DEF TlbInv
<1> QED
  BY <1>1, Invariant, PTL

(* No translation outlives its entry, for every number of entries and      *)
(* pages and every sequence of overlapping writes (WriteTLBEntry).         *)
THEOREM NeverStale == Spec => []NoStaleTranslation
<1>1. TlbInv => NoStaleTranslation
  BY DEF TlbInv
<1> QED
  BY <1>1, Invariant, PTL

(* TLB_Map answers as a search of the entries, until two overlap. *)
THEOREM LooksUpCorrectly == Spec => []LooksUpLikeSearch
<1>1. TlbInv => LooksUpLikeSearch
  BY DEF TlbInv
<1> QED
  BY <1>1, Invariant, PTL

(* KSEG0 and KSEG1 stay mapped to memory, until an entry straddles them. *)
THEOREM DirectKept == Spec => []DirectSegmentsKept
<1>1. TlbInv => DirectSegmentsKept
  BY DEF TlbInv
<1> QED
  BY <1>1, Invariant, PTL

(* No step unmaps the page that the CPU executes. *)
THEOREM RunningKept == Spec => RunningCodeStaysMapped
<1>1. TlbInv /\ [Next]_vars =>
        [pc' = pc /\ map[pc] # Unmapped => map'[pc] # Unmapped]_vars
  <2> SUFFICES ASSUME TlbInv, Next, map[pc] # Unmapped, pc' = pc
               PROVE  map'[pc] # Unmapped
    OBVIOUS
  <2>1. CASE WriteIndexed
    <3>1. index \in Entry /\ WriteTLBEntry(index)
      BY <2>1 DEF WriteIndexed, TlbInv, TypeOK
    <3> QED
      BY <3>1, WriteInv DEF RunningPageKept, WriteTLBEntry
  <2>2. CASE WriteRandom
    <3>1. random' \in Entry /\ WriteTLBEntry(random')
      BY <2>2, TickedType DEF WriteRandom, Execute, TlbInv
    <3> QED
      BY <3>1, WriteInv DEF RunningPageKept, WriteTLBEntry
  <2>3. CASE ~WriteIndexed /\ ~WriteRandom
    <3>1. map' = map
      BY <2>3 DEF Next, Read, Probe, MoveToRegister, LoadMiss, Jump, FetchMiss,
                  Halted, Miss, vars
    <3> QED
      BY <3>1
  <2> QED
    BY <2>1, <2>2, <2>3
<1> QED
  BY <1>1, Invariant, PTL DEF Spec, RunningCodeStaysMapped

(* TLBWR never replaces a wired entry, whatever Wired is raised to. *)
THEOREM WiredStay == Spec => WiredKept
<1>1. TlbInv /\ [Next]_vars =>
        [\A e \in Entry : e < wired /\ tlb'[e] # tlb[e] => e = index]_vars
  <2> SUFFICES ASSUME TlbInv, Next, NEW e \in Entry, e < wired,
                      tlb'[e] # tlb[e]
               PROVE  e = index
    OBVIOUS
  <2>1. tlb \in [Entry -> TlbEntry]
    BY DEF TlbInv, TypeOK
  <2>2. CASE WriteIndexed
    <3>1. tlb' = [tlb EXCEPT ![index] = Register]
      BY <2>2 DEF WriteIndexed, WriteTLBEntry
    <3> QED
      BY <2>1, <3>1
  <2>3. CASE WriteRandom
    <3>1. tlb' = [tlb EXCEPT ![random'] = Register]
      BY <2>3 DEF WriteRandom, WriteTLBEntry
    <3>2. e = random'
      BY <2>1, <3>1
    <3>3. random' >= wired /\ wired \in Nat /\ e \in Nat
      <4>1. Ticked >= wired
        BY TickedType DEF TlbInv
      <4> QED
        BY <2>3, <4>1, TlbAssumption DEF WriteRandom, Execute, TlbInv, TypeOK, Entry
    <3> QED
      BY <3>2, <3>3
  <2>4. CASE ~WriteIndexed /\ ~WriteRandom
    <3>1. tlb' = tlb
      BY <2>4 DEF Next, Read, Probe, MoveToRegister, LoadMiss, Jump, FetchMiss,
                  Halted, Miss, vars
    <3> QED
      BY <3>1
  <2> QED
    BY <2>2, <2>3, <2>4
<1> QED
  BY <1>1, Invariant, PTL DEF Spec, WiredKept

-----------------------------------------------------------------------------
(* Quotients, for the size of a page and its number. *)
LEMMA Aligned ==
  ASSUME NEW v \in Nat, NEW m \in Nat \ {0}, v % m = 0
  PROVE  v \div m \in Nat /\ v = m * (v \div m)
<1>1. v \div m \in Nat
  OBVIOUS
<1>2. v = m * (v \div m)
  OBVIOUS
<1> QED BY <1>1, <1>2

LEMMA Within ==
  ASSUME NEW q \in Nat, NEW m \in Nat \ {0}, NEW x \in Nat, m * q <= x, x < m * q + m
  PROVE  x \div m = q
OBVIOUS

LEMMA NextMultiple ==
  ASSUME NEW q \in Nat, NEW m \in Nat \ {0}, NEW k \in Nat, m * q < m * k
  PROVE  m * q + m <= m * k
OBVIOUS

(* The halves of an aligned entry lie side by side, inside the address      *)
(* space.                                                                   *)
LEMMA HalvesInside ==
  ASSUME NEW t \in TlbEntry, t.hi.vpn2 % (t.mask + 1) = 0,
         NEW p \in Page, Maps(t, p)
  PROVE  /\ 2 * t.hi.vpn2 <= p
         /\ p < 2 * (t.hi.vpn2 + t.mask + 1)
<1> DEFINE v == t.hi.vpn2
           m == t.mask + 1
<1>1. v \in Vpn2 /\ v \in Nat /\ m \in Nat \ {0} /\ t.mask = m - 1 /\ t.mask \in MaskWrites
  BY Sizes, VpnNat DEF TlbEntry, EntryHi
<1>2. PICK k \in Nat : Pages = 2 * (m * k)
  BY <1>1, Sizes
<1>3. v % m = 0
  OBVIOUS
<1>4. PICK h \in Halves : Start(t, h) <= p /\ p <= Last(t, h)
  BY DEF Maps, Covers
<1>5. Start(t, h) = (2 * v + h * m) % Pages /\ Last(t, h) = (Start(t, h) + (m - 1)) % Pages
  BY <1>1 DEF Start, Last
<1> HIDE DEF v, m
<1>6. v = m * (v \div m) /\ v \div m \in Nat
  BY <1>1, <1>3, Aligned
<1>7. m * k \in Nat
  BY <1>1, <1>2
<1>8. v < m * k
  <2>1. PICK n \in Nat : Pages = 2 * n /\ Vpn2 = 0 .. n - 1
    BY Sizes
  <2>2. n = m * k
    BY <1>2, <1>7, <2>1
  <2> QED
    BY <1>1, <1>7, <2>1, <2>2
<1>9. v + m <= m * k
  BY <1>1, <1>2, <1>6, <1>8, NextMultiple
<1>10. 2 * v + 2 * m <= Pages
  BY <1>1, <1>2, <1>7, <1>9
<1>11. p \in Nat /\ Pages \in Nat \ {0}
  BY TlbAssumption DEF Page
<1>12. CASE h = 0
  <2>1. Start(t, h) = 2 * v
    <3>1. 2 * v + h * m = 2 * v
      BY <1>1, <1>12
    <3>2. 2 * v \in Nat /\ 2 * v < Pages
      BY <1>1, <1>10, <1>11
    <3> QED
      BY <1>5, <1>11, <3>1, <3>2
  <2>2. Last(t, h) = 2 * v + (m - 1)
    <3>1. 2 * v + (m - 1) \in Nat /\ 2 * v + (m - 1) < Pages
      BY <1>1, <1>10, <1>11
    <3> QED
      BY <1>5, <1>11, <2>1, <3>1
  <2> QED
    BY <1>1, <1>4, <1>11, <2>1, <2>2 DEF v, m
<1>13. CASE h = 1
  <2>1. Start(t, h) = 2 * v + m
    <3>1. 2 * v + h * m = 2 * v + m
      BY <1>1, <1>13
    <3>2. 2 * v + m \in Nat /\ 2 * v + m < Pages
      BY <1>1, <1>10, <1>11
    <3> QED
      BY <1>5, <1>11, <3>1, <3>2
  <2>2. Last(t, h) = 2 * v + m + (m - 1)
    <3>1. 2 * v + m + (m - 1) \in Nat /\ 2 * v + m + (m - 1) < Pages
      BY <1>1, <1>10, <1>11
    <3> QED
      BY <1>5, <1>11, <2>1, <3>1
  <2> QED
    BY <1>1, <1>4, <1>11, <2>1, <2>2 DEF v, m
<1> QED
  BY <1>12, <1>13 DEF Halves, Even, Odd

(* TLBP finds an entry from every page of it, whatever the sizes of entries *)
(* are: both halves of an aligned entry are its page number, outside of the *)
(* mask.                                                                    *)
THEOREM ProbesCorrectly == Spec => []ProbeFindsMapping
<1>1. TypeOK => ProbeFindsMapping
  <2> SUFFICES ASSUME TypeOK, NEW e \in Entry, NEW p \in Page, Maps(tlb[e], p),
                      p \div 2 = hi.vpn2,
                      tlb[e].hi.vpn2 % (tlb[e].mask + 1) = 0,
                      tlb[e].hi.asid = hi.asid
               PROVE  ProbesSame(tlb[e])
    BY DEF ProbeFindsMapping
  <2> DEFINE t == tlb[e]
             v == t.hi.vpn2
             m == t.mask + 1
  <2>1. t \in TlbEntry
    BY DEF TypeOK
  <2>2. v \in Nat /\ m \in Nat \ {0} /\ t.mask \in Nat
    BY <2>1, Sizes, VpnNat DEF TlbEntry, EntryHi
  <2>3. 2 * v <= p /\ p < 2 * (v + m)
    BY <2>1, <2>2, HalvesInside
  <2>4. v % m = 0 /\ hi.vpn2 = p \div 2 /\ hi.asid = t.hi.asid
    OBVIOUS
  <2> HIDE DEF v, m
  <2>5. p \div 2 \in Nat /\ v <= p \div 2 /\ p \div 2 < v + m
    BY <2>2, <2>3, TlbAssumption DEF Page
  <2>6. v = m * (v \div m) /\ v \div m \in Nat
    BY <2>2, <2>4, Aligned
  <2>7. (p \div 2) \div m = v \div m
    BY <2>2, <2>5, <2>6, Within
  <2> QED
    BY <2>4, <2>7 DEF ProbesSame, v, m
<1> QED
  BY <1>1, TlbTypeCorrect, PTL
=============================================================================
