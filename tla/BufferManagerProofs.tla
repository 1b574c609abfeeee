-------------------------- MODULE BufferManagerProofs --------------------------
(****************************************************************************)
(* Proofs about BufferManager, for any number of threads, frames and pages: *)
(* a pinned frame keeps its page, pins and map are exact as long as no      *)
(* system call fails, and, without a concurrent count_pages, pinned pages   *)
(* are the latest and no write is lost, whether calls fail or not.          *)
(****************************************************************************)
EXTENDS BufferManager, FiniteSetTheorems, TLAPS

--------------------------------------------------------------------------------
(****************************************************************************)
(* The inductive invariant.                                                 *)
(****************************************************************************)

\* pages_mutex is held by the thread inside get_page, which has room for another
\* pin and asks for a page that is not in the map.
MutexIsHeld ==
    /\ \A s, t \in mutex : s = t
    /\ \A t \in Threads : pc[t] \in InGetPage <=> t \in mutex
    /\ \A t \in Threads : pc[t] \in InGetPage =>
          /\ wanted[t] \in PageNumber
          /\ page_map[wanted[t]] = NoFrame
          /\ \A f \in Frame : held[t][f] < MaxPins
    /\ ~running => \A t \in Threads : pc[t] = "run" /\ \A f \in Frame : held[t][f] = 0

\* The frame at the clock, from the end of the sweep to the end of get_page.
Victim ==
    \A t \in Threads :
        /\ pc[t] \in {"evict", "flush_seek", "flush_write", "reassign"} =>
              pins[clock] = 0 /\ ~second_chance[clock]
        /\ pc[t] \in {"flush_seek", "flush_write"} => dirty[clock]
        /\ pc[t] \in {"reassign", "read_seek", "read"} => ~dirty[clock]
        /\ pc[t] \in {"flush_seek", "flush_write", "reassign"} /\ page_id[clock] # Unassigned =>
              page_map[page_id[clock]] = NoFrame
        /\ pc[t] \in {"read_seek", "read"} =>
              page_id[clock] = wanted[t] /\ pins[clock] > 0

\* The map leads to frames of the page, pinned frames are in the map, and a frame
\* that is not is a victim still at the clock or one that was pinned for a read.
MapIsSound ==
    /\ \A p \in PageNumber : page_map[p] # NoFrame => page_id[page_map[p]] = p
    /\ \A t \in Threads, f \in Frame : held[t][f] > 0 =>
          page_id[f] # Unassigned /\ page_map[page_id[f]] = f
    /\ \A f \in Frame : dirty[f] => page_id[f] # Unassigned
    /\ \A f \in Frame : page_id[f] # Unassigned /\ page_map[page_id[f]] # f =>
          \/ pins[f] > 0 /\ ~dirty[f]
          \/ /\ f = clock /\ pins[f] = 0 /\ ~second_chance[f]
             /\ page_map[page_id[f]] = NoFrame
             /\ dirty[f] \/ ~running \/ \E t \in Threads : pc[t] = "reassign"

\* Every user of a frame has a pin.
PinsCoverUsers == \A f \in Frame : Cardinality(UsersOf(f)) <= pins[f]

\* As long as no system call fails: no pin is left over, and only the frame that
\* get_page works on is out of the map.
ExactUnlessFailed ==
    ~IOMayFail =>
        /\ PinsCountUsers
        /\ \A f \in Frame : page_id[f] # Unassigned /\ page_map[page_id[f]] # f =>
              f = clock /\ \E t \in Threads :
                  pc[t] \in {"flush_seek", "flush_write", "reassign", "read_seek", "read"}

Structure == MutexIsHeld /\ Victim /\ MapIsSound /\ PinsCoverUsers /\ ExactUnlessFailed

\* Without count_pages the offset stays where get_page has put it.
OffsetIsOwn ==
    \A t \in Threads :
        /\ pc[t] = "flush_write" => offset = page_id[clock]
        /\ pc[t] = "read" => offset = wanted[t] /\ wanted[t] < size

\* A page in the map is current in its frame, and on disk if the frame is clean.
\* A page that is not in the map is current on disk, or still in a dirty victim
\* at the clock.
PagesAreCurrent ==
    \A p \in PageNumber :
        /\ latest[p] # 0 => p < size
        /\ page_map[p] # NoFrame =>
              /\ p < size
              /\ bytes[page_map[p]] = latest[p]
              /\ ~dirty[page_map[p]] => file[p] = latest[p]
        /\ page_map[p] = NoFrame =>
              \/ file[p] = latest[p]
              \/ page_id[clock] = p /\ dirty[clock] /\ bytes[clock] = latest[p]

\* A dirty victim that is out of the map.
VictimIsCurrent ==
    \A f \in Frame : dirty[f] => page_id[f] < size /\ bytes[f] = latest[page_id[f]]

\* A shutdown stops early only because some system call has failed.
ShutdownIsClean == ~IOMayFail /\ ~running => \A f \in Frame : ~dirty[f]

Coherence == OffsetIsOwn /\ PagesAreCurrent /\ VictimIsCurrent /\ ShutdownIsClean

IInv == TypeOK /\ Structure
CInv == Scanners = {} => Coherence

--------------------------------------------------------------------------------
(****************************************************************************)
(* Facts used throughout.                                                   *)
(****************************************************************************)

\* Frames and pages are numbers, apart from "none"; the clock wraps around.
LEMMA PoolFacts ==
    /\ NoFrame \notin Frame /\ Unassigned \notin PageNumber
    /\ \A f \in Frame : f \in Nat /\ (f + 1) % FrameCount \in Frame
    /\ 0 \in Frame
    /\ \A p \in PageNumber : p \in Nat /\ p < MaxFileSize
    /\ MaxFileSize \in Nat /\ MaxStamp \in Nat /\ MaxPins \in Nat
<1>1. FrameCount \in Nat \ {0} /\ PageCount \in Nat /\ MaxFileSize \in Nat
      /\ MaxFileSize >= PageCount
  BY BufferAssumption
<1>2. NoFrame \notin Frame /\ 0 \in Frame /\ \A f \in Frame : f \in Nat
  BY <1>1 DEF NoFrame, Frame
<1>3. \A f \in Frame : (f + 1) % FrameCount \in Frame
  <2>1. \A n \in Nat : n % FrameCount \in 0..(FrameCount - 1)
    BY <1>1
  <2> QED
    BY <1>2, <2>1 DEF Frame
<1>4. Unassigned \notin PageNumber /\ \A p \in PageNumber : p \in Nat /\ p < MaxFileSize
  BY <1>1 DEF Unassigned, PageNumber
<1> QED
  BY <1>2, <1>3, <1>4, BufferAssumption

\* get_page is entered only by a thread that may take another pin.
LEMMA RoomForPin ==
    ASSUME TypeOK, NEW t \in Threads, Cardinality(PinnedBy(t)) < MaxPins
    PROVE  \A f \in Frame : held[t][f] < MaxPins
<1> SUFFICES ASSUME NEW f \in Frame, ~(held[t][f] < MaxPins) PROVE FALSE
  OBVIOUS
<1>0. MaxPins \in Nat \ {0}
  BY BufferAssumption
<1>1. held[t][f] = MaxPins
  BY <1>0 DEF TypeOK
<1>2. IsFiniteSet(Frame) /\ IsFiniteSet(1..MaxPins) /\ Cardinality(1..MaxPins) = MaxPins
  <2>1. 0 \in Int /\ 1 \in Int /\ MaxPins \in Int /\ FrameCount - 1 \in Int
    BY <1>0, BufferAssumption
  <2>2. IsFiniteSet(0..(FrameCount - 1)) /\ IsFiniteSet(1..MaxPins)
        /\ Cardinality(1..MaxPins) = IF 1 > MaxPins THEN 0 ELSE MaxPins - 1 + 1
    BY <2>1, FS_Interval
  <2> QED
    BY <1>0, <2>2 DEF Frame
<1>3. IsFiniteSet(Frame \X (1..MaxPins))
  BY <1>2, FS_Product
<1>4. IsFiniteSet(PinnedBy(t)) /\ Cardinality(PinnedBy(t)) \in Nat
  BY <1>3, FS_Subset, FS_CardinalityType DEF PinnedBy
<1> DEFINE pin == [i \in 1..MaxPins |-> <<f, i>>]
<1>5. pin \in Injection(1..MaxPins, PinnedBy(t))
  <2>1. \A i \in 1..MaxPins : <<f, i>> \in PinnedBy(t)
    BY <1>1 DEF PinnedBy
  <2> QED
    BY <2>1 DEF Injection, IsInjective
<1>6. MaxPins <= Cardinality(PinnedBy(t))
  BY <1>2, <1>4, <1>5, FS_Injection
<1> QED
  BY <1>0, <1>4, <1>6

\* The users of a frame can be counted.
LEMMA UsersAreFinite ==
    ASSUME NEW f \in Frame
    PROVE  /\ IsFiniteSet(UsersOf(f)) /\ Cardinality(UsersOf(f)) \in Nat
           /\ IsFiniteSet(ReadersInto(f)) /\ Cardinality(ReadersInto(f)) \in Nat
<1>1. IsFiniteSet(Threads) /\ IsFiniteSet(1..MaxPins)
  BY BufferAssumption, FS_Interval
<1>2. IsFiniteSet(Threads \X (1..MaxPins))
  BY <1>1, FS_Product
<1> QED
  BY <1>1, <1>2, FS_Subset, FS_CardinalityType DEF UsersOf, ReadersInto

\* How the users of a frame change when a pin is taken or given back.
LEMMA PinTaken ==
    ASSUME TypeOK, NEW t \in Threads, NEW f \in Frame, held[t][f] < MaxPins,
           held' = [held EXCEPT ![t][f] = @ + 1]
    PROVE  /\ Cardinality(UsersOf(f)') = Cardinality(UsersOf(f)) + 1
           /\ \A g \in Frame : g # f => UsersOf(g)' = UsersOf(g)
<1>1. held \in [Threads -> [Frame -> 0..MaxPins]] /\ MaxPins \in Nat
  BY PoolFacts DEF TypeOK
<1>2. \A s \in Threads, g \in Frame :
         held'[s][g] = IF s = t /\ g = f THEN held[t][f] + 1 ELSE held[s][g]
  BY <1>1
<1>3. \A g \in Frame : g # f => UsersOf(g)' = UsersOf(g)
  BY <1>2 DEF UsersOf
<1> DEFINE new == <<t, held[t][f] + 1>>
<1>4. UsersOf(f)' = UsersOf(f) \cup {new}
  <2>1. \A pin \in Threads \X (1..MaxPins) :
           pin[2] <= held'[pin[1]][f] <=> pin[2] <= held[pin[1]][f] \/ pin = new
    <3> SUFFICES ASSUME NEW s \in Threads, NEW i \in 1..MaxPins
                 PROVE  i <= held'[s][f] <=> i <= held[s][f] \/ (s = t /\ i = held[t][f] + 1)
      OBVIOUS
    <3>1. held[s][f] \in Nat /\ held[t][f] \in Nat /\ i \in Nat
      BY <1>1
    <3> QED
      BY <1>2, <3>1
  <2>2. new \in Threads \X (1..MaxPins)
    BY <1>1
  <2> QED
    BY <2>1, <2>2 DEF UsersOf
<1>5. new \notin UsersOf(f)
  BY <1>1 DEF UsersOf
<1> QED
  BY <1>3, <1>4, <1>5, UsersAreFinite, FS_AddElement

\* The same for a pin that is given back: the frame has one user less.
LEMMA PinGivenBack ==
    ASSUME TypeOK, NEW t \in Threads, NEW f \in Frame, held[t][f] > 0,
           held' = [held EXCEPT ![t][f] = @ - 1]
    PROVE  /\ Cardinality(UsersOf(f)') = Cardinality(UsersOf(f)) - 1
           /\ \A g \in Frame : g # f => UsersOf(g)' = UsersOf(g)
<1>1. held \in [Threads -> [Frame -> 0..MaxPins]] /\ MaxPins \in Nat
  BY PoolFacts DEF TypeOK
<1>2. \A s \in Threads, g \in Frame :
         held'[s][g] = IF s = t /\ g = f THEN held[t][f] - 1 ELSE held[s][g]
  BY <1>1
<1>3. \A g \in Frame : g # f => UsersOf(g)' = UsersOf(g)
  BY <1>2 DEF UsersOf
<1> DEFINE old == <<t, held[t][f]>>
<1>4. UsersOf(f)' = UsersOf(f) \ {old}
  <2>1. \A pin \in Threads \X (1..MaxPins) :
           pin[2] <= held'[pin[1]][f] <=> pin[2] <= held[pin[1]][f] /\ pin # old
    <3> SUFFICES ASSUME NEW s \in Threads, NEW i \in 1..MaxPins
                 PROVE  i <= held'[s][f] <=> i <= held[s][f] /\ ~(s = t /\ i = held[t][f])
      OBVIOUS
    <3>1. held[s][f] \in Nat /\ held[t][f] \in Nat /\ i \in Nat
      BY <1>1
    <3> QED
      BY <1>2, <3>1
  <2> QED
    BY <2>1 DEF UsersOf
<1>5. old \in UsersOf(f)
  BY <1>1 DEF UsersOf
<1>6. IsFiniteSet(UsersOf(f))
  BY UsersAreFinite
<1> HIDE DEF old
<1>7. Cardinality(UsersOf(f) \ {old}) = Cardinality(UsersOf(f)) - 1
  BY <1>5, <1>6, FS_RemoveElement
<1> QED
  BY <1>3, <1>4, <1>7

\* A frame that a thread holds is pinned.
LEMMA HeldIsPinned ==
    ASSUME TypeOK, PinsCoverUsers, NEW t \in Threads, NEW f \in Frame, held[t][f] > 0
    PROVE  pins[f] > 0
<1>1. <<t, 1>> \in UsersOf(f)
  BY PoolFacts DEF UsersOf, TypeOK
<1>2. Cardinality(UsersOf(f)) # 0
  BY <1>1, UsersAreFinite, FS_EmptySet
<1> QED
  BY <1>2, UsersAreFinite DEF PinsCoverUsers, TypeOK

\* A frame that is not in the map has no users.
LEMMA UnmappedIsUnused ==
    ASSUME TypeOK, MapIsSound, NEW f \in Frame, page_map[page_id[f]] # f \/ page_id[f] = Unassigned
    PROVE  UsersOf(f) = {} /\ Cardinality(UsersOf(f)) = 0
<1>1. \A t \in Threads : ~(held[t][f] > 0)
  BY DEF MapIsSound
<1>2. UsersOf(f) = {}
  BY <1>1, PoolFacts DEF UsersOf, TypeOK
<1> QED
  BY <1>2, FS_EmptySet

\* One thread at a time is inside get_page.
LEMMA OneInGetPage ==
    ASSUME IInv, NEW t \in Threads, pc[t] \in InGetPage
    PROVE  /\ mutex = {t}
           /\ \A s \in Threads : s # t => pc[s] = "run"
           /\ wanted[t] \in PageNumber /\ page_map[wanted[t]] = NoFrame
           /\ \A f \in Frame : held[t][f] < MaxPins
           /\ running
<1>1. t \in mutex /\ mutex = {t}
  BY DEF IInv, Structure, MutexIsHeld, TypeOK
<1>2. \A s \in Threads : s # t => pc[s] = "run"
  BY <1>1 DEF IInv, Structure, MutexIsHeld, TypeOK
<1>3. "run" \notin InGetPage
  BY DEF InGetPage
<1> QED
  BY <1>1, <1>2, <1>3 DEF IInv, Structure, MutexIsHeld

\* A page is dirty in one frame at most, so that is what a shutdown writes.
LEMMA LastDirtyIsIt ==
    ASSUME IInv, NEW f \in Frame, dirty[f], NEW n, f < n
    PROVE  /\ \A g \in Frame : dirty[g] /\ page_id[g] = page_id[f] => g = f
           /\ LastDirtyFrame(page_id[f], n) = f
<1>1. \A g \in Frame : dirty[g] /\ page_id[g] = page_id[f] => g = f
  BY PoolFacts DEF IInv, Structure, MapIsSound
<1>2. f <= f
  BY PoolFacts
<1> QED
  BY <1>1, <1>2 DEF LastDirtyFrame

\* Every step is of one of these kinds.
LEMMA StepCases ==
    ASSUME Next
    PROVE  \/ \E t \in Threads, p \in PageNumber : GetPageHit(t, p)
           \/ \E t \in Threads, p \in PageNumber : GetPageMiss(t, p)
           \/ \E t \in Threads : Sweep(t)
           \/ \E t \in Threads : Evict(t)
           \/ \E t \in Threads : FlushSeek(t)
           \/ \E t \in Threads : FlushWrite(t)
           \/ \E t \in Threads : FlushFails(t)
           \/ \E t \in Threads : Reassign(t)
           \/ \E t \in Threads : ReadSeek(t)
           \/ \E t \in Threads : ExtendFails(t)
           \/ \E t \in Threads : Read(t)
           \/ \E t \in Threads : ReadFails(t)
           \/ \E t \in Threads, f \in Frame : WritePage(t, f)
           \/ \E t \in Threads, f \in Frame : Unpin(t, f)
           \/ \E t \in Threads : CountPages(t)
           \/ Shutdown
BY DEF Next, GetPageStep

--------------------------------------------------------------------------------
(****************************************************************************)
(* Types.                                                                   *)
(****************************************************************************)

\* The initial state has the types.
LEMMA InitTypeOK == Init => TypeOK
<1> SUFFICES ASSUME Init PROVE TypeOK
  OBVIOUS
<1>1. Cardinality({}) = 0
  BY FS_EmptySet
<1>2. 0 \in Stamp /\ 0 \in 0..MaxFileSize /\ 0 \in 0..MaxPins
  BY PoolFacts DEF Stamp
<1> QED
  BY <1>1, <1>2, PoolFacts DEF Init, TypeOK, InGetPage

\* Every step keeps the types.
LEMMA NextTypeOK ==
    ASSUME IInv, Next
    PROVE  TypeOK'
<1> USE DEF GoTo, frameVars, fileVars, threadVars
<1>0. TypeOK
  BY DEF IInv
<1>c. /\ Cardinality({}) <= 1
      /\ \A t \in Threads : {t} \in SUBSET Threads /\ Cardinality({t}) <= 1
  BY FS_EmptySet, FS_Singleton
<1>d. 0 \in Stamp /\ PoolFacts!1
  BY PoolFacts DEF Stamp
<1>p. /\ "run" \in InGetPage \cup {"run"}
      /\ InGetPage = {"sweep", "evict", "flush_seek", "flush_write", "reassign", "read_seek", "read"}
  BY DEF InGetPage
<1>1. ASSUME NEW t \in Threads, NEW p \in PageNumber, GetPageHit(t, p) PROVE TypeOK'
  <2>1. page_map[p] \in Frame
    BY <1>0, <1>1 DEF GetPageHit, TypeOK
  <2>2. held[t][page_map[p]] + 1 \in 0..MaxPins
    BY <1>0, <1>1, <2>1, RoomForPin, PoolFacts DEF GetPageHit, TypeOK
  <2>3. held' \in [Threads -> [Frame -> 0..MaxPins]] /\ pins' \in [Frame -> Nat]
    BY <1>0, <1>1, <2>1, <2>2 DEF GetPageHit, TypeOK
  <2> QED
    BY <1>0, <1>1, <2>3 DEF GetPageHit, TypeOK
<1>2. ASSUME NEW t \in Threads, NEW p \in PageNumber, GetPageMiss(t, p) PROVE TypeOK'
  BY <1>0, <1>2, <1>c, <1>p DEF GetPageMiss, TypeOK
<1>3. ASSUME NEW t \in Threads, Sweep(t) PROVE TypeOK'
  BY <1>0, <1>3, <1>p, PoolFacts DEF Sweep, TypeOK
<1>4. ASSUME NEW t \in Threads, Evict(t) PROVE TypeOK'
  BY <1>0, <1>4, <1>p DEF Evict, TypeOK
<1>5. ASSUME NEW t \in Threads, FlushSeek(t) PROVE TypeOK'
  <2>1. page_id[clock] \in PageNumber
    BY <1>0, <1>5 DEF FlushSeek, TypeOK, IInv, Structure, Victim, MapIsSound
  <2>2. page_id[clock] \in 0..MaxFileSize
    BY <2>1, PoolFacts
  <2> QED
    BY <1>0, <1>5, <1>p, <2>2 DEF FlushSeek, TypeOK
<1>6. ASSUME NEW t \in Threads, FlushWrite(t) PROVE TypeOK'
  <2>1. /\ offset \in 0..(MaxFileSize - 1) /\ offset + 1 \in 0..MaxFileSize
        /\ (IF offset = size THEN size + 1 ELSE size) \in 0..MaxFileSize
    BY <1>0, <1>6, PoolFacts DEF FlushWrite, TypeOK
  <2> QED
    BY <1>0, <1>6, <1>p, <2>1 DEF FlushWrite, TypeOK
<1>7. ASSUME NEW t \in Threads, FlushFails(t) PROVE TypeOK'
  BY <1>0, <1>7, <1>c, <1>p DEF FlushFails, TypeOK
<1>8. ASSUME NEW t \in Threads, Reassign(t) PROVE TypeOK'
  BY <1>0, <1>8, <1>p DEF Reassign, TypeOK
<1>r. ASSUME NEW t \in Threads, pc[t] \in {"read_seek", "read"}, Return(t)
      PROVE  /\ page_map' \in [PageNumber -> Frame \cup {NoFrame}]
             /\ held' \in [Threads -> [Frame -> 0..MaxPins]]
             /\ mutex' \in SUBSET Threads /\ Cardinality(mutex') <= 1
             /\ wanted' \in [Threads -> PageNumber \cup {Unassigned}]
             /\ pc' \in [Threads -> InGetPage \cup {"run"}]
  <2>1. held[t][clock] + 1 \in 0..MaxPins /\ wanted[t] \in PageNumber
    BY <1>0, <1>r, <1>p, OneInGetPage, PoolFacts DEF TypeOK
  <2> QED
    BY <1>0, <1>r, <1>c, <1>p, <2>1 DEF Return, TypeOK
<1>9. ASSUME NEW t \in Threads, ReadSeek(t) PROVE TypeOK'
  <2>1. wanted[t] \in PageNumber
    BY <1>9, <1>p, OneInGetPage DEF ReadSeek
  <2>2. wanted[t] \in 0..MaxFileSize /\ wanted[t] + 1 \in 0..MaxFileSize
    BY <2>1, PoolFacts
  <2>3. CASE size <= wanted[t]
    BY <1>0, <1>9, <1>d, <1>r, <2>2, <2>3 DEF ReadSeek, TypeOK
  <2>4. CASE ~(size <= wanted[t])
    BY <1>0, <1>9, <1>p, <2>2, <2>4 DEF ReadSeek, TypeOK
  <2> QED
    BY <2>3, <2>4
<1>10. ASSUME NEW t \in Threads, ExtendFails(t) PROVE TypeOK'
  <2>1. wanted[t] \in PageNumber
    BY <1>10, <1>p, OneInGetPage DEF ExtendFails
  <2>2. wanted[t] \in 0..MaxFileSize
    BY <2>1, PoolFacts
  <2> QED
    BY <1>0, <1>10, <1>c, <1>d, <1>p, <2>2 DEF ExtendFails, TypeOK
<1>11. ASSUME NEW t \in Threads, Read(t) PROVE TypeOK'
  <2>1. offset < size => offset \in 0..(MaxFileSize - 1) /\ offset + 1 \in 0..MaxFileSize
    BY <1>0, PoolFacts DEF TypeOK
  <2>2. bytes' \in [Frame -> Stamp] /\ offset' \in 0..MaxFileSize
    BY <1>0, <1>11, <2>1 DEF Read, TypeOK
  <2>3. pc[t] \in {"read_seek", "read"} /\ Return(t)
    BY <1>11 DEF Read
  <2> QED
    BY <1>0, <1>11, <1>r, <2>2, <2>3 DEF Read, TypeOK
<1>12. ASSUME NEW t \in Threads, NEW f \in Frame, WritePage(t, f) PROVE TypeOK'
  <2>1. page_id[f] \in PageNumber
    BY <1>0, <1>12 DEF WritePage, TypeOK, IInv, Structure, MapIsSound
  <2>2. latest[page_id[f]] + 1 \in Stamp
    <3>1. latest[page_id[f]] \in Stamp /\ latest[page_id[f]] < MaxStamp /\ MaxStamp \in Nat
      BY <1>0, <1>12, <2>1, PoolFacts DEF WritePage, TypeOK
    <3> QED
      BY <3>1 DEF Stamp
  <2> QED
    BY <1>0, <1>12, <2>2 DEF WritePage, TypeOK
<1>13. ASSUME NEW t \in Threads, NEW f \in Frame, Unpin(t, f) PROVE TypeOK'
  <2>1. pins[f] - 1 \in Nat /\ held[t][f] - 1 \in 0..MaxPins
    BY <1>0, <1>13, HeldIsPinned, PoolFacts DEF Unpin, TypeOK, IInv, Structure
  <2>2. held' \in [Threads -> [Frame -> 0..MaxPins]] /\ pins' \in [Frame -> Nat]
    BY <1>0, <1>13, <2>1 DEF Unpin, TypeOK
  <2> QED
    BY <1>0, <1>13, <2>2 DEF Unpin, TypeOK
<1>14. ASSUME NEW t \in Threads, CountPages(t) PROVE TypeOK'
  BY <1>0, <1>14 DEF CountPages, TypeOK
<1>15. CASE Shutdown
  <2>1. ASSUME NEW p \in 0..(MaxFileSize - 1), NEW n, NEW g \in Frame, g < n, page_id[g] = p, dirty[g]
        PROVE  bytes[LastDirtyFrame(p, n)] \in Stamp
    BY <1>0, <2>1, LastDirtyIsIt DEF TypeOK
  <2>2. PICK n \in 0..FrameCount :
            /\ file' = [p \in DOMAIN file |->
                           IF \E f \in Frame : f < n /\ page_id[f] = p /\ dirty[f]
                           THEN bytes[LastDirtyFrame(p, n)] ELSE file[p]]
            /\ dirty' = [f \in Frame |-> dirty[f] /\ f >= n]
    BY <1>15 DEF Shutdown
  <2>3. file' \in [0..(MaxFileSize - 1) -> Stamp]
    BY <1>0, <2>1, <2>2 DEF TypeOK
  <2>4. dirty' \in [Frame -> BOOLEAN]
    BY <2>2
  <2>5. /\ running' = FALSE
        /\ UNCHANGED <<page_id, bytes, pins, second_chance, page_map, clock, size, offset, mutex,
                       pc, wanted, held, latest>>
    BY <1>15 DEF Shutdown
  <2> QED
    BY <1>0, <2>3, <2>4, <2>5 DEF TypeOK
<1>16. ASSUME NEW t \in Threads, ReadFails(t) PROVE TypeOK'
  BY <1>0, <1>16, <1>c, <1>d, <1>p DEF ReadFails, TypeOK
<1> QED
  BY <1>1, <1>2, <1>3, <1>4, <1>5, <1>6, <1>7, <1>8, <1>9, <1>10, <1>11, <1>12, <1>13, <1>14,
     <1>15, <1>16, StepCases

--------------------------------------------------------------------------------
(****************************************************************************)
(* The mutex, the victim and the map.                                       *)
(****************************************************************************)

\* get_page gives pages_mutex back on every path, and keeps what it was asked for.
LEMMA NextMutex ==
    ASSUME IInv, Next
    PROVE  MutexIsHeld'
<1> USE DEF GoTo, frameVars, fileVars, threadVars
<1>0. TypeOK /\ MutexIsHeld
  BY DEF IInv, Structure
<1>p. InGetPage = {"sweep", "evict", "flush_seek", "flush_write", "reassign", "read_seek", "read"}
  BY DEF InGetPage
<1>t. /\ pc \in [Threads -> InGetPage \cup {"run"}]
      /\ wanted \in [Threads -> PageNumber \cup {Unassigned}]
      /\ held \in [Threads -> [Frame -> 0..MaxPins]] /\ MaxPins \in Nat
      /\ page_map \in [PageNumber -> Frame \cup {NoFrame}]
  BY <1>0, PoolFacts DEF TypeOK
<1>1. ASSUME NEW t \in Threads, NEW p \in PageNumber, GetPageHit(t, p) PROVE MutexIsHeld'
  BY <1>0, <1>1, <1>p, <1>t DEF GetPageHit, MutexIsHeld
<1>2. ASSUME NEW t \in Threads, NEW p \in PageNumber, GetPageMiss(t, p) PROVE MutexIsHeld'
  <2>1. \A f \in Frame : held[t][f] < MaxPins
    BY <1>0, <1>2, RoomForPin DEF GetPageMiss
  <2> QED
    BY <1>0, <1>2, <1>p, <1>t, <2>1 DEF GetPageMiss, MutexIsHeld
<1>3. ASSUME NEW t \in Threads,
             Sweep(t) \/ FlushSeek(t) \/ FlushWrite(t) \/ Reassign(t) \/ Evict(t)
      PROVE  MutexIsHeld'
  <2>1. /\ pc[t] \in InGetPage /\ pc'[t] \in InGetPage
        /\ \A s \in Threads : s # t => pc'[s] = pc[s]
        /\ UNCHANGED <<mutex, wanted, held, running>>
    BY <1>3, <1>p, <1>t DEF Sweep, FlushSeek, FlushWrite, Reassign, Evict
  <2>2. page_map'[wanted[t]] = NoFrame
    BY <1>3, <1>p, <1>t, OneInGetPage DEF Sweep, FlushSeek, FlushWrite, Reassign, Evict
  <2>3. running /\ \A s \in Threads : s # t => pc[s] \notin InGetPage
    BY <1>p, <2>1, OneInGetPage
  <2> QED
    BY <1>0, <2>1, <2>2, <2>3 DEF MutexIsHeld
<1>4. ASSUME NEW t \in Threads, pc[t] \in InGetPage, pc' = [pc EXCEPT ![t] = "run"],
             mutex' = {}, UNCHANGED running
      PROVE  MutexIsHeld'
  <2>1. running /\ \A s \in Threads : pc'[s] = "run"
    BY <1>4, <1>t, OneInGetPage
  <2> QED
    BY <1>4, <1>p, <2>1 DEF MutexIsHeld
<1>5. ASSUME NEW t \in Threads, FlushFails(t) \/ ExtendFails(t) \/ Read(t) \/ ReadFails(t)
      PROVE  MutexIsHeld'
  BY <1>4, <1>5, <1>p DEF FlushFails, ExtendFails, Read, ReadFails, Return
<1>6. ASSUME NEW t \in Threads, ReadSeek(t) PROVE MutexIsHeld'
  <2>1. CASE size <= wanted[t]
    BY <1>4, <1>6, <1>p, <2>1 DEF ReadSeek, Return
  <2>2. CASE ~(size <= wanted[t])
    BY <1>0, <1>6, <1>p, <1>t, <2>2 DEF ReadSeek, MutexIsHeld
  <2> QED
    BY <2>1, <2>2
<1>7. ASSUME NEW t \in Threads, NEW f \in Frame, WritePage(t, f) PROVE MutexIsHeld'
  BY <1>0, <1>7 DEF WritePage, MutexIsHeld
<1>8. ASSUME NEW t \in Threads, NEW f \in Frame, Unpin(t, f) PROVE MutexIsHeld'
  <2>1. \A s \in Threads, g \in Frame : held'[s][g] <= held[s][g] /\ held'[s][g] \in 0..MaxPins
    BY <1>8, <1>t DEF Unpin
  <2>2. running
    BY <1>0, <1>8 DEF Unpin, MutexIsHeld
  <2> QED
    BY <1>0, <1>8, <1>t, <2>1, <2>2 DEF Unpin, MutexIsHeld
<1>9. ASSUME NEW t \in Threads, CountPages(t) PROVE MutexIsHeld'
  BY <1>0, <1>9 DEF CountPages, MutexIsHeld
<1>10. CASE Shutdown
  <2>1. \A t \in Threads, f \in Frame : held[t][f] = 0
    <3> SUFFICES ASSUME NEW t \in Threads, NEW f \in Frame, held[t][f] # 0 PROVE FALSE
      OBVIOUS
    <3>1. held[t][f] \in 0..MaxPins
      BY <1>t
    <3>2. <<f, 1>> \in PinnedBy(t)
      BY <3>1, <1>t DEF PinnedBy
    <3> QED
      BY <1>10, <3>2 DEF Shutdown
  <2> QED
    BY <1>0, <1>10, <2>1 DEF Shutdown, MutexIsHeld
<1> QED
  BY <1>1, <1>2, <1>3, <1>5, <1>6, <1>7, <1>8, <1>9, <1>10, StepCases

\* The frame that get_page works on is nobody else's.
LEMMA NextVictim ==
    ASSUME IInv, Next
    PROVE  Victim'
<1> USE DEF GoTo, frameVars, fileVars, threadVars
<1>0. TypeOK /\ MutexIsHeld /\ Victim /\ MapIsSound /\ PinsCoverUsers
  BY DEF IInv, Structure
<1>p. InGetPage = {"sweep", "evict", "flush_seek", "flush_write", "reassign", "read_seek", "read"}
  BY DEF InGetPage
<1>t. /\ pc \in [Threads -> InGetPage \cup {"run"}]
      /\ page_map \in [PageNumber -> Frame \cup {NoFrame}]
      /\ page_id \in [Frame -> PageNumber \cup {Unassigned}]
      /\ pins \in [Frame -> Nat] /\ clock \in Frame
      /\ second_chance \in [Frame -> BOOLEAN] /\ dirty \in [Frame -> BOOLEAN]
      /\ NoFrame \notin Frame /\ Unassigned \notin PageNumber
  BY <1>0, PoolFacts DEF TypeOK
<1>1. ASSUME NEW t \in Threads, NEW p \in PageNumber, GetPageHit(t, p) PROVE Victim'
  BY <1>0, <1>1, <1>p, <1>t DEF GetPageHit, MutexIsHeld, Victim
<1>2. ASSUME NEW t \in Threads, NEW p \in PageNumber, GetPageMiss(t, p) PROVE Victim'
  BY <1>0, <1>2, <1>p, <1>t DEF GetPageMiss, MutexIsHeld, Victim
<1>o. ASSUME NEW t \in Threads, pc[t] \in InGetPage
      PROVE  \A s \in Threads : s # t => pc[s] = "run"
  BY <1>o, OneInGetPage
<1>3. ASSUME NEW t \in Threads, Sweep(t) PROVE Victim'
  BY <1>0, <1>3, <1>o, <1>p, <1>t DEF Sweep, Victim
<1>4. ASSUME NEW t \in Threads, Evict(t) PROVE Victim'
  BY <1>0, <1>4, <1>o, <1>p, <1>t DEF Evict, Victim
<1>5. ASSUME NEW t \in Threads, FlushSeek(t) \/ FlushWrite(t) \/ FlushFails(t) PROVE Victim'
  BY <1>0, <1>5, <1>o, <1>p, <1>t DEF FlushSeek, FlushWrite, FlushFails, Victim
<1>6. ASSUME NEW t \in Threads, Reassign(t) PROVE Victim'
  BY <1>0, <1>6, <1>o, <1>p, <1>t DEF Reassign, Victim
<1>7. ASSUME NEW t \in Threads, ReadSeek(t) PROVE Victim'
  BY <1>0, <1>7, <1>o, <1>p, <1>t DEF ReadSeek, Return, Victim
<1>8. ASSUME NEW t \in Threads, ExtendFails(t) \/ Read(t) \/ ReadFails(t) PROVE Victim'
  BY <1>0, <1>8, <1>o, <1>p, <1>t DEF ExtendFails, Read, ReadFails, Return, Victim
<1>9. ASSUME NEW t \in Threads, NEW f \in Frame, WritePage(t, f) PROVE Victim'
  <2>1. pins[f] > 0 /\ page_id[f] # Unassigned /\ page_map[page_id[f]] = f
    BY <1>0, <1>9, HeldIsPinned DEF WritePage, MapIsSound
  <2>2. \A s \in Threads : pc[s] \in {"reassign", "read_seek", "read"} => clock # f
    <3> SUFFICES ASSUME NEW s \in Threads, pc[s] \in {"reassign", "read_seek", "read"}, clock = f
                 PROVE  FALSE
      OBVIOUS
    <3>1. CASE pc[s] = "reassign"
      BY <1>0, <1>t, <2>1, <3>1 DEF Victim
    <3>2. CASE pc[s] \in {"read_seek", "read"}
      BY <1>0, <1>p, <1>t, <2>1, <3>2, OneInGetPage DEF Victim
    <3> QED
      BY <3>1, <3>2
  <2> QED
    BY <1>0, <1>9, <1>t, <2>2 DEF WritePage, Victim
<1>10. ASSUME NEW t \in Threads, NEW f \in Frame, Unpin(t, f) PROVE Victim'
  <2>1. pins[f] > 0 /\ page_id[f] # Unassigned /\ page_map[page_id[f]] = f
    BY <1>0, <1>10, HeldIsPinned DEF Unpin, MapIsSound
  <2>2. \A s \in Threads : pc[s] \in {"read_seek", "read"} => clock # f
    BY <1>0, <1>p, <1>t, <2>1, OneInGetPage DEF Victim
  <2>3. \A g \in Frame : pins'[g] = IF g = f THEN pins[f] - 1 ELSE pins[g]
    BY <1>10, <1>t DEF Unpin
  <2>4. \A s \in Threads : pc[s] \in {"evict", "flush_seek", "flush_write", "reassign"} => clock # f
    BY <1>0, <1>t, <2>1 DEF Victim
  <2> QED
    BY <1>0, <1>10, <1>t, <2>2, <2>3, <2>4 DEF Unpin, Victim
<1>11. ASSUME NEW t \in Threads, CountPages(t) PROVE Victim'
  BY <1>0, <1>11 DEF CountPages, Victim
<1>12. CASE Shutdown
  BY <1>0, <1>12 DEF Shutdown, Victim
<1> QED
  BY <1>1, <1>2, <1>3, <1>4, <1>5, <1>6, <1>7, <1>8, <1>9, <1>10, <1>11, <1>12, StepCases

\* The map stays sound, whichever step of get_page fails.
LEMMA NextMap ==
    ASSUME IInv, Next
    PROVE  MapIsSound'
<1> USE DEF GoTo, frameVars, fileVars, threadVars
<1>0. TypeOK /\ MutexIsHeld /\ Victim /\ MapIsSound /\ PinsCoverUsers
  BY DEF IInv, Structure
<1>p. InGetPage = {"sweep", "evict", "flush_seek", "flush_write", "reassign", "read_seek", "read"}
  BY DEF InGetPage
<1>t. /\ pc \in [Threads -> InGetPage \cup {"run"}]
      /\ page_map \in [PageNumber -> Frame \cup {NoFrame}]
      /\ page_id \in [Frame -> PageNumber \cup {Unassigned}]
      /\ pins \in [Frame -> Nat] /\ clock \in Frame
      /\ held \in [Threads -> [Frame -> 0..MaxPins]] /\ MaxPins \in Nat
      /\ second_chance \in [Frame -> BOOLEAN] /\ dirty \in [Frame -> BOOLEAN]
      /\ NoFrame \notin Frame /\ Unassigned \notin PageNumber
  BY <1>0, PoolFacts DEF TypeOK
<1>h. \A s \in Threads, f \in Frame : held[s][f] > 0 => pins[f] > 0
  BY <1>0, HeldIsPinned
<1>o. ASSUME NEW t \in Threads, pc[t] \in InGetPage
      PROVE  /\ \A s \in Threads : s # t => pc[s] = "run"
             /\ wanted[t] \in PageNumber /\ page_map[wanted[t]] = NoFrame /\ running
  BY <1>o, OneInGetPage
<1>1. ASSUME NEW t \in Threads, NEW p \in PageNumber, GetPageHit(t, p) PROVE MapIsSound'
  <2>1. PICK f \in Frame : f = page_map[p] /\ page_id[f] = p
    BY <1>0, <1>1, <1>t DEF GetPageHit, MapIsSound
  <2>2. \A s \in Threads, g \in Frame : held'[s][g] > 0 => g = f \/ held[s][g] > 0
    BY <1>1, <1>t, <2>1 DEF GetPageHit
  <2>3. \A g \in Frame : g # f => pins'[g] = pins[g] /\ second_chance'[g] = second_chance[g]
    BY <1>1, <1>t, <2>1 DEF GetPageHit
  <2>4. UNCHANGED <<page_id, page_map, dirty, clock, running, pc>>
    BY <1>1 DEF GetPageHit
  <2> QED
    BY <1>0, <1>t, <2>1, <2>2, <2>3, <2>4 DEF MapIsSound
<1>2. ASSUME NEW t \in Threads, NEW p \in PageNumber, GetPageMiss(t, p) PROVE MapIsSound'
  BY <1>0, <1>2, <1>p, <1>t DEF GetPageMiss, MutexIsHeld, MapIsSound
<1>3. ASSUME NEW t \in Threads, Sweep(t) PROVE MapIsSound'
  BY <1>0, <1>3, <1>o, <1>p, <1>t DEF Sweep, MapIsSound
<1>4. ASSUME NEW t \in Threads, Evict(t) PROVE MapIsSound'
  <2>1. /\ pins[clock] = 0 /\ ~second_chance[clock] /\ pc[t] = "evict"
        /\ pc'[t] = IF dirty[clock] THEN "flush_seek" ELSE "reassign"
        /\ UNCHANGED <<page_id, pins, second_chance, dirty, clock, held, running>>
    BY <1>0, <1>4, <1>t DEF Evict, Victim
  <2>2. CASE page_id[clock] = Unassigned
    BY <1>0, <1>4, <1>o, <1>p, <1>t, <2>1, <2>2 DEF Evict, MapIsSound
  <2>3. CASE page_id[clock] # Unassigned
    <3>1. page_map[page_id[clock]] \in {clock, NoFrame}
      BY <1>0, <1>t, <2>1, <2>3 DEF MapIsSound
    <3>2. \A q \in PageNumber :
             page_map'[q] = IF q = page_id[clock] THEN NoFrame ELSE page_map[q]
      BY <1>4, <1>t, <2>3 DEF Evict
    <3>3. \A p \in PageNumber : page_map'[p] # NoFrame => page_id[page_map'[p]] = p
      BY <1>0, <3>2 DEF MapIsSound
    <3>4. \A s \in Threads, f \in Frame : held[s][f] > 0 =>
             page_id[f] # Unassigned /\ page_map'[page_id[f]] = f
      <4> SUFFICES ASSUME NEW s \in Threads, NEW f \in Frame, held[s][f] > 0
                   PROVE  page_id[f] # Unassigned /\ page_map'[page_id[f]] = f
        OBVIOUS
      <4>1. page_id[f] # Unassigned /\ page_map[page_id[f]] = f /\ f # clock
        BY <1>0, <1>h, <2>1 DEF MapIsSound
      <4> QED
        BY <1>t, <3>1, <3>2, <4>1
    <3>5. \A f \in Frame : page_id[f] # Unassigned /\ page_map'[page_id[f]] # f =>
          \/ pins[f] > 0 /\ ~dirty[f]
          \/ /\ f = clock /\ pins[f] = 0 /\ ~second_chance[f]
             /\ page_map'[page_id[f]] = NoFrame
             /\ dirty[f] \/ \E s \in Threads : pc'[s] = "reassign"
      <4> SUFFICES ASSUME NEW f \in Frame, page_id[f] # Unassigned, page_map'[page_id[f]] # f,
                          f # clock
                   PROVE  pins[f] > 0 /\ ~dirty[f]
        BY <1>t, <2>1, <3>2
      <4>1. page_map[page_id[f]] # f
        BY <1>t, <3>1, <3>2
      <4> QED
        BY <1>0, <4>1 DEF MapIsSound
    <3> QED
      BY <1>0, <2>1, <3>3, <3>4, <3>5 DEF MapIsSound
  <2> QED
    BY <2>2, <2>3
<1>5. ASSUME NEW t \in Threads, FlushSeek(t) \/ FlushFails(t) PROVE MapIsSound'
  BY <1>0, <1>5, <1>o, <1>p, <1>t DEF FlushSeek, FlushFails, MapIsSound, Victim
<1>6. ASSUME NEW t \in Threads, FlushWrite(t) PROVE MapIsSound'
  BY <1>0, <1>6, <1>o, <1>p, <1>t DEF FlushWrite, MapIsSound, Victim
<1>7. ASSUME NEW t \in Threads, Reassign(t) PROVE MapIsSound'
  <2>1. /\ pins[clock] = 0 /\ ~dirty[clock] /\ pc[t] = "reassign"
        /\ page_id[clock] # Unassigned => page_map[page_id[clock]] = NoFrame
        /\ UNCHANGED <<page_map, dirty, clock, held, running>>
        /\ wanted[t] \in PageNumber /\ page_map[wanted[t]] = NoFrame
    BY <1>0, <1>7, <1>o, <1>p DEF Reassign, Victim
  <2>2. \A p \in PageNumber : page_map[p] # clock
    BY <1>0, <1>t, <2>1 DEF MapIsSound
  <2>3. \A f \in Frame : /\ page_id'[f] = IF f = clock THEN wanted[t] ELSE page_id[f]
                         /\ pins'[f] = IF f = clock THEN 1 ELSE pins[f]
                         /\ second_chance'[f] = IF f = clock THEN TRUE ELSE second_chance[f]
    BY <1>7, <1>t DEF Reassign
  <2>4. \A s \in Threads, f \in Frame : held[s][f] > 0 => f # clock
    BY <1>h, <2>1
  <2>5. \A p \in PageNumber : page_map[p] # NoFrame => page_map[p] # clock /\ page_map[p] \in Frame
    BY <1>t, <2>2
  <2>6. \A p \in PageNumber : page_map'[p] # NoFrame => page_id'[page_map'[p]] = p
    BY <1>0, <2>1, <2>3, <2>5 DEF MapIsSound
  <2>7. \A s \in Threads, f \in Frame : held'[s][f] > 0 =>
           page_id'[f] # Unassigned /\ page_map'[page_id'[f]] = f
    BY <1>0, <2>1, <2>3, <2>4 DEF MapIsSound
  <2>8. \A f \in Frame : dirty'[f] => page_id'[f] # Unassigned
    BY <1>0, <1>t, <2>1, <2>3 DEF MapIsSound
  <2>9. \A f \in Frame : page_id'[f] # Unassigned /\ page_map'[page_id'[f]] # f =>
           pins'[f] > 0 /\ ~dirty'[f]
    <3> SUFFICES ASSUME NEW f \in Frame, page_id'[f] # Unassigned, page_map[page_id'[f]] # f
                 PROVE  pins'[f] > 0 /\ ~dirty[f]
      BY <2>1
    <3>1. CASE f = clock
      <4>1. pins'[f] = 1
        BY <1>7, <1>t, <3>1 DEF Reassign
      <4>2. ~dirty[f]
        BY <2>1, <3>1
      <4> QED
        BY <4>1, <4>2
    <3>2. CASE f # clock
      <4>1. page_id'[f] = page_id[f] /\ pins'[f] = pins[f]
        BY <2>3, <3>2
      <4> QED
        BY <1>0, <3>2, <4>1 DEF MapIsSound
    <3> QED
      BY <3>1, <3>2
  <2> QED
    BY <2>6, <2>7, <2>8, <2>9 DEF MapIsSound
<1>8. ASSUME NEW t \in Threads, pc[t] \in {"read_seek", "read"}, Return(t),
             UNCHANGED <<page_id, pins, second_chance, dirty, clock, running>>
      PROVE  MapIsSound'
  <2>1. /\ page_id[clock] = wanted[t] /\ wanted[t] \in PageNumber
        /\ page_map[wanted[t]] = NoFrame /\ ~dirty[clock]
    BY <1>0, <1>8, <1>o, <1>p DEF Victim
  <2>2. \A p \in PageNumber : page_map'[p] = IF p = wanted[t] THEN clock ELSE page_map[p]
    BY <1>8, <1>t DEF Return
  <2>3. \A s \in Threads, f \in Frame : held'[s][f] > 0 => f = clock \/ held[s][f] > 0
    BY <1>8, <1>t DEF Return
  <2>4. \A s \in Threads, f \in Frame : held'[s][f] > 0 =>
           page_id[f] # Unassigned /\ page_map'[page_id[f]] = f
    BY <1>0, <1>t, <2>1, <2>2, <2>3 DEF MapIsSound
  <2>5. \A f \in Frame : page_id[f] # Unassigned /\ page_map'[page_id[f]] # f =>
           pins[f] > 0 /\ ~dirty[f]
    <3> SUFFICES ASSUME NEW f \in Frame, page_id[f] # Unassigned, page_map'[page_id[f]] # f
                 PROVE  pins[f] > 0 /\ ~dirty[f]
      OBVIOUS
    <3>1. f # clock /\ page_map[page_id[f]] # f
      BY <1>t, <2>1, <2>2
    <3> QED
      BY <1>0, <3>1 DEF MapIsSound
  <2> QED
    BY <1>0, <1>8, <1>t, <2>1, <2>2, <2>4, <2>5 DEF MapIsSound
<1>9. ASSUME NEW t \in Threads, ReadSeek(t) PROVE MapIsSound'
  <2>1. CASE size <= wanted[t]
    BY <1>8, <1>9, <2>1 DEF ReadSeek
  <2>2. CASE ~(size <= wanted[t])
    BY <1>0, <1>9, <1>o, <1>p, <1>t, <2>2 DEF ReadSeek, MapIsSound
  <2> QED
    BY <2>1, <2>2
<1>10. ASSUME NEW t \in Threads, Read(t) PROVE MapIsSound'
  BY <1>8, <1>10 DEF Read
<1>11. ASSUME NEW t \in Threads, ExtendFails(t) \/ ReadFails(t) PROVE MapIsSound'
  BY <1>0, <1>11, <1>o, <1>p, <1>t DEF ExtendFails, ReadFails, MapIsSound
<1>12. ASSUME NEW t \in Threads, NEW f \in Frame, WritePage(t, f) PROVE MapIsSound'
  <2>1. page_id[f] # Unassigned /\ page_map[page_id[f]] = f
    BY <1>0, <1>12 DEF WritePage, MapIsSound
  <2>2. \A g \in Frame : g # f => dirty'[g] = dirty[g]
    BY <1>12, <1>t DEF WritePage
  <2>3. UNCHANGED <<page_id, page_map, pins, second_chance, clock, held, running, pc>>
    BY <1>12 DEF WritePage
  <2> QED
    BY <1>0, <2>1, <2>2, <2>3 DEF MapIsSound
<1>13. ASSUME NEW t \in Threads, NEW f \in Frame, Unpin(t, f) PROVE MapIsSound'
  <2>1. \A s \in Threads, g \in Frame : held'[s][g] > 0 => held[s][g] > 0
    BY <1>13, <1>t DEF Unpin
  <2>2. page_id[f] # Unassigned /\ page_map[page_id[f]] = f
    BY <1>0, <1>13 DEF Unpin, MapIsSound
  <2>3. \A g \in Frame : g # f => pins'[g] = pins[g]
    BY <1>13, <1>t DEF Unpin
  <2>4. UNCHANGED <<page_id, page_map, dirty, second_chance, clock, running, pc>>
    BY <1>13 DEF Unpin
  <2> QED
    BY <1>0, <2>1, <2>2, <2>3, <2>4 DEF MapIsSound
<1>14. ASSUME NEW t \in Threads, CountPages(t) PROVE MapIsSound'
  BY <1>0, <1>14 DEF CountPages, MapIsSound
<1>15. CASE Shutdown
  BY <1>0, <1>15, <1>t DEF Shutdown, MapIsSound
<1> QED
  BY <1>1, <1>2, <1>3, <1>4, <1>5, <1>6, <1>7, <1>9, <1>10, <1>11, <1>12, <1>13, <1>14,
     <1>15, StepCases

--------------------------------------------------------------------------------
(****************************************************************************)
(* Pins.                                                                    *)
(****************************************************************************)

\* How pins and users change together: nothing happens to either, a mapped frame
\* gets a user, the new frame is pinned before and used after its read, or a user
\* leaves.
LEMMA NextPinsCover ==
    ASSUME IInv, Next
    PROVE  PinsCoverUsers'
<1> USE DEF GoTo, frameVars, fileVars, threadVars
<1>0. TypeOK /\ MutexIsHeld /\ Victim /\ MapIsSound /\ PinsCoverUsers
  BY DEF IInv, Structure
<1>p. InGetPage = {"sweep", "evict", "flush_seek", "flush_write", "reassign", "read_seek", "read"}
  BY DEF InGetPage
<1>t. pins \in [Frame -> Nat] /\ clock \in Frame
  BY <1>0 DEF TypeOK
<1>u. \A f \in Frame : Cardinality(UsersOf(f)) \in Nat
  BY UsersAreFinite
<1>q. ASSUME UNCHANGED <<held, pins>> PROVE PinsCoverUsers'
  BY <1>0, <1>q DEF PinsCoverUsers, UsersOf
<1>1. ASSUME NEW t \in Threads, NEW p \in PageNumber, GetPageHit(t, p) PROVE PinsCoverUsers'
  <2>1. PICK f \in Frame : f = page_map[p]
    BY <1>0, <1>1 DEF GetPageHit, TypeOK
  <2>2. held[t][f] < MaxPins
    BY <1>0, <1>1, RoomForPin DEF GetPageHit
  <2>3. held' = [held EXCEPT ![t][f] = @ + 1] /\ pins' = [pins EXCEPT ![f] = @ + 1]
    BY <1>1, <2>1 DEF GetPageHit
  <2>4. /\ Cardinality(UsersOf(f)') = Cardinality(UsersOf(f)) + 1
        /\ \A g \in Frame : g # f => UsersOf(g)' = UsersOf(g)
    BY <1>0, <2>2, <2>3, PinTaken
  <2> QED
    BY <1>0, <1>t, <1>u, <2>3, <2>4 DEF PinsCoverUsers
<1>2. ASSUME NEW t \in Threads, Reassign(t) PROVE PinsCoverUsers'
  <2>1. pins[clock] = 0 /\ pins' = [pins EXCEPT ![clock] = 1] /\ UNCHANGED held
    BY <1>0, <1>2 DEF Reassign, Victim
  <2>2. \A f \in Frame : UsersOf(f)' = UsersOf(f)
    BY <2>1 DEF UsersOf
  <2>3. \A f \in Frame : pins'[f] >= pins[f] /\ pins'[f] \in Nat
    BY <1>t, <2>1
  <2> QED
    BY <1>0, <1>t, <1>u, <2>2, <2>3 DEF PinsCoverUsers
<1>3. ASSUME NEW t \in Threads, pc[t] \in {"read_seek", "read"}, Return(t), UNCHANGED pins
      PROVE  PinsCoverUsers'
  <2>1. held[t][clock] < MaxPins /\ page_map[page_id[clock]] = NoFrame /\ pins[clock] > 0
    BY <1>0, <1>3, <1>p, <1>t, OneInGetPage DEF Victim
  <2>2. Cardinality(UsersOf(clock)) = 0
    BY <1>0, <1>t, <2>1, UnmappedIsUnused, PoolFacts
  <2>3. PICK c \in Frame : c = clock
    BY <1>t
  <2>4. /\ Cardinality(UsersOf(c)') = Cardinality(UsersOf(c)) + 1
        /\ \A g \in Frame : g # c => UsersOf(g)' = UsersOf(g)
    BY <1>0, <1>3, <2>1, <2>3, PinTaken DEF Return
  <2>5. Cardinality(UsersOf(c)) = 0
    BY <2>2, <2>3
  <2> QED
    BY <1>0, <1>3, <1>t, <1>u, <2>1, <2>3, <2>4, <2>5 DEF PinsCoverUsers
<1>4. ASSUME NEW t \in Threads, NEW f \in Frame, Unpin(t, f) PROVE PinsCoverUsers'
  <2>1. /\ held[t][f] > 0 /\ held' = [held EXCEPT ![t][f] = @ - 1]
        /\ pins' = [pins EXCEPT ![f] = @ - 1]
    BY <1>4 DEF Unpin
  <2>2. /\ Cardinality(UsersOf(f)') = Cardinality(UsersOf(f)) - 1
        /\ \A g \in Frame : g # f => UsersOf(g)' = UsersOf(g)
    BY <1>0, <2>1, PinGivenBack
  <2> QED
    BY <1>0, <1>t, <1>u, <2>1, <2>2 DEF PinsCoverUsers
<1>5. ASSUME NEW t \in Threads, ReadSeek(t) \/ Read(t) PROVE PinsCoverUsers'
  BY <1>3, <1>5, <1>q DEF ReadSeek, Read
<1>6. ASSUME NEW t \in Threads,
             \/ \E p \in PageNumber : GetPageMiss(t, p)
             \/ Sweep(t) \/ Evict(t) \/ FlushSeek(t) \/ FlushWrite(t) \/ FlushFails(t)
             \/ ExtendFails(t) \/ ReadFails(t) \/ CountPages(t)
             \/ \E f \in Frame : WritePage(t, f)
      PROVE  PinsCoverUsers'
  BY <1>6, <1>q DEF GetPageMiss, Sweep, Evict, FlushSeek, FlushWrite, FlushFails, ExtendFails,
     ReadFails, CountPages, WritePage
<1>7. CASE Shutdown
  BY <1>7, <1>q DEF Shutdown
<1> QED
  BY <1>1, <1>2, <1>4, <1>5, <1>6, <1>7, StepCases

\* If no system call can fail, pins and users stay equal: the thread that reads a page in
\* becomes its first user.
LEMMA NextPinsExact ==
    ASSUME IInv, Next, ~IOMayFail
    PROVE  PinsCountUsers'
<1> USE DEF GoTo, frameVars, fileVars, threadVars
<1>0. TypeOK /\ MutexIsHeld /\ Victim /\ MapIsSound /\ PinsCoverUsers /\ PinsCountUsers
  BY DEF IInv, Structure, ExactUnlessFailed
<1>p. InGetPage = {"sweep", "evict", "flush_seek", "flush_write", "reassign", "read_seek", "read"}
  BY DEF InGetPage
<1>t. pins \in [Frame -> Nat] /\ clock \in Frame /\ pc \in [Threads -> InGetPage \cup {"run"}]
  BY <1>0 DEF TypeOK
<1>u. \A f \in Frame : Cardinality(UsersOf(f)) \in Nat /\ Cardinality(ReadersInto(f)) \in Nat
  BY UsersAreFinite
<1>e. Cardinality({}) = 0 /\ \A t : Cardinality({t}) = 1
  BY FS_EmptySet, FS_Singleton
<1>o. ASSUME NEW t \in Threads, pc[t] \in InGetPage
      PROVE  \A s \in Threads : s # t => pc[s] = "run"
  BY <1>o, OneInGetPage
<1>q. ASSUME UNCHANGED <<held, pins>>, \A f \in Frame : ReadersInto(f)' = ReadersInto(f)
      PROVE  PinsCountUsers'
  <2>1. \A f \in Frame : UsersOf(f)' = UsersOf(f)
    BY <1>q DEF UsersOf
  <2> QED
    BY <1>0, <1>q, <2>1 DEF PinsCountUsers
<1>1. ASSUME NEW t \in Threads, NEW p \in PageNumber, GetPageHit(t, p) PROVE PinsCountUsers'
  <2>1. PICK f \in Frame : f = page_map[p]
    BY <1>0, <1>1 DEF GetPageHit, TypeOK
  <2>2. held[t][f] < MaxPins
    BY <1>0, <1>1, RoomForPin DEF GetPageHit
  <2>3. held' = [held EXCEPT ![t][f] = @ + 1] /\ pins' = [pins EXCEPT ![f] = @ + 1]
    BY <1>1, <2>1 DEF GetPageHit
  <2>4. /\ Cardinality(UsersOf(f)') = Cardinality(UsersOf(f)) + 1
        /\ \A g \in Frame : g # f => UsersOf(g)' = UsersOf(g)
    BY <1>0, <2>2, <2>3, PinTaken
  <2>5. \A g \in Frame : ReadersInto(g)' = ReadersInto(g)
    BY <1>1 DEF GetPageHit, ReadersInto
  <2> QED
    BY <1>0, <1>t, <1>u, <2>3, <2>4, <2>5 DEF PinsCountUsers
<1>2. ASSUME NEW t \in Threads, NEW f \in Frame, Unpin(t, f) PROVE PinsCountUsers'
  <2>1. /\ held[t][f] > 0 /\ held' = [held EXCEPT ![t][f] = @ - 1]
        /\ pins' = [pins EXCEPT ![f] = @ - 1]
    BY <1>2 DEF Unpin
  <2>2. /\ Cardinality(UsersOf(f)') = Cardinality(UsersOf(f)) - 1
        /\ \A g \in Frame : g # f => UsersOf(g)' = UsersOf(g)
    BY <1>0, <2>1, PinGivenBack
  <2>3. \A g \in Frame : ReadersInto(g)' = ReadersInto(g)
    BY <1>2 DEF Unpin, ReadersInto
  <2> QED
    BY <1>0, <1>t, <1>u, <2>1, <2>2, <2>3 DEF PinsCountUsers
<1>3. ASSUME NEW t \in Threads, Reassign(t) PROVE PinsCountUsers'
  <2>1. PICK c \in Frame : c = clock
    BY <1>t
  <2>2. /\ pins[c] = 0 /\ pins' = [pins EXCEPT ![c] = 1] /\ UNCHANGED <<held, clock>>
        /\ pc[t] = "reassign" /\ pc' = [pc EXCEPT ![t] = "read_seek"]
    BY <1>0, <1>3, <2>1 DEF Reassign, Victim
  <2>3. \A f \in Frame : UsersOf(f)' = UsersOf(f)
    BY <2>2 DEF UsersOf
  <2>4. \A s \in Threads : s # t => pc[s] = "run"
    BY <1>o, <1>p, <2>2
  <2>5. \A f \in Frame : ReadersInto(f) = {}
    BY <2>2, <2>4 DEF ReadersInto
  <2>6. \A f \in Frame : ReadersInto(f)' = IF f = c THEN {t} ELSE {}
    BY <1>t, <2>1, <2>2, <2>4 DEF ReadersInto
  <2>7. Cardinality(UsersOf(c)) = 0
    BY <1>0, <1>u, <2>2 DEF PinsCoverUsers
  <2>8. \A f \in Frame : f # c => Cardinality(ReadersInto(f)') = 0 /\ Cardinality(ReadersInto(f)) = 0
    BY <1>e, <2>5, <2>6
  <2>9. Cardinality(ReadersInto(c)') = 1
    BY <1>e, <2>6
  <2> QED
    BY <1>0, <1>t, <2>2, <2>3, <2>7, <2>8, <2>9 DEF PinsCountUsers
<1>4. ASSUME NEW t \in Threads, pc[t] \in {"read_seek", "read"}, Return(t), UNCHANGED <<pins, clock>>
      PROVE  PinsCountUsers'
  <2>1. PICK c \in Frame : c = clock
    BY <1>t
  <2>2. held[t][c] < MaxPins
    BY <1>4, <1>p, OneInGetPage
  <2>3. /\ Cardinality(UsersOf(c)') = Cardinality(UsersOf(c)) + 1
        /\ \A g \in Frame : g # c => UsersOf(g)' = UsersOf(g)
    BY <1>0, <1>4, <2>1, <2>2, PinTaken DEF Return
  <2>4. \A s \in Threads : s # t => pc[s] = "run"
    BY <1>4, <1>o, <1>p
  <2>5. \A f \in Frame : ReadersInto(f) = IF f = c THEN {t} ELSE {}
    BY <1>4, <2>1, <2>4 DEF ReadersInto
  <2>6. \A f \in Frame : ReadersInto(f)' = {}
    BY <1>4, <1>t, <2>4 DEF Return, ReadersInto
  <2>7. \A f \in Frame : Cardinality(ReadersInto(f)') = 0
    BY <1>e, <2>6
  <2>8. \A f \in Frame : Cardinality(ReadersInto(f)) = IF f = c THEN 1 ELSE 0
    BY <1>e, <2>5
  <2> QED
    BY <1>0, <1>4, <1>t, <1>u, <2>3, <2>7, <2>8 DEF PinsCountUsers
<1>5. ASSUME NEW t \in Threads, Read(t) PROVE PinsCountUsers'
  BY <1>4, <1>5 DEF Read
<1>6. ASSUME NEW t \in Threads, ReadSeek(t) PROVE PinsCountUsers'
  <2>1. CASE size <= wanted[t]
    BY <1>4, <1>6, <2>1 DEF ReadSeek
  <2>2. CASE ~(size <= wanted[t])
    <3>1. \A f \in Frame : ReadersInto(f)' = ReadersInto(f)
      BY <1>6, <1>t, <2>2 DEF ReadSeek, ReadersInto
    <3> QED
      BY <1>6, <1>q, <2>2, <3>1 DEF ReadSeek
  <2> QED
    BY <2>1, <2>2
<1>7. ASSUME NEW t \in Threads, pc[t] \in InGetPage \ {"read_seek", "read"},
             pc'[t] \notin {"read_seek", "read"},
             \A s \in Threads : s # t => pc'[s] = pc[s], UNCHANGED <<held, pins>>
      PROVE  PinsCountUsers'
  <2>1. \A s \in Threads : pc[s] \notin {"read_seek", "read"} /\ pc'[s] \notin {"read_seek", "read"}
    BY <1>7, <1>o
  <2>2. \A f \in Frame : ReadersInto(f)' = ReadersInto(f)
    BY <2>1 DEF ReadersInto
  <2> QED
    BY <1>7, <1>q, <2>2
<1>8. ASSUME NEW t \in Threads, Sweep(t) \/ Evict(t) \/ FlushSeek(t) \/ FlushWrite(t)
      PROVE  PinsCountUsers'
  BY <1>7, <1>8, <1>p, <1>t DEF Sweep, Evict, FlushSeek, FlushWrite
<1>9. ASSUME NEW t \in Threads, NEW p \in PageNumber, GetPageMiss(t, p) PROVE PinsCountUsers'
  <2>1. \A f \in Frame : ReadersInto(f)' = ReadersInto(f)
    BY <1>9, <1>t DEF GetPageMiss, ReadersInto
  <2> QED
    BY <1>9, <1>q, <2>1 DEF GetPageMiss
<1>10. ASSUME UNCHANGED <<held, pins, pc, clock>> PROVE PinsCountUsers'
  BY <1>10, <1>q DEF ReadersInto
<1>11. ASSUME NEW t \in Threads, CountPages(t) \/ \E f \in Frame : WritePage(t, f)
       PROVE  PinsCountUsers'
  BY <1>10, <1>11 DEF CountPages, WritePage
<1>12. CASE Shutdown
  BY <1>10, <1>12 DEF Shutdown
<1>13. \A t \in Threads : ~FlushFails(t) /\ ~ExtendFails(t) /\ ~ReadFails(t)
  BY DEF FlushFails, ExtendFails, ReadFails
<1> QED
  BY <1>1, <1>2, <1>3, <1>5, <1>6, <1>8, <1>9, <1>11, <1>12, <1>13, StepCases

\* If no system call can fail, only the frame that get_page works on is out of the map.
LEMMA NextMapExact ==
    ASSUME IInv, Next, ~IOMayFail
    PROVE  (\A f \in Frame : page_id[f] # Unassigned /\ page_map[page_id[f]] # f =>
               f = clock /\ \E t \in Threads :
                   pc[t] \in {"flush_seek", "flush_write", "reassign", "read_seek", "read"})'
<1> USE DEF GoTo, frameVars, fileVars, threadVars
<1> DEFINE late == {"flush_seek", "flush_write", "reassign", "read_seek", "read"}
           atWork == \E t \in Threads : pc[t] \in late
           unmapped(f) == page_id[f] # Unassigned /\ page_map[page_id[f]] # f
           Goal == \A f \in Frame : unmapped(f) => f = clock /\ atWork
<1> SUFFICES Goal'
  OBVIOUS
<1>0. TypeOK /\ MutexIsHeld /\ Victim /\ MapIsSound /\ Goal
  BY DEF IInv, Structure, ExactUnlessFailed
<1>p. /\ InGetPage = late \cup {"sweep", "evict"} /\ "run" \notin InGetPage
      /\ "sweep" \notin late /\ "evict" \notin late /\ "run" \notin late
  BY DEF InGetPage
<1>t. /\ pc \in [Threads -> InGetPage \cup {"run"}]
      /\ page_map \in [PageNumber -> Frame \cup {NoFrame}]
      /\ page_id \in [Frame -> PageNumber \cup {Unassigned}]
      /\ clock \in Frame /\ NoFrame \notin Frame /\ Unassigned \notin PageNumber
  BY <1>0, PoolFacts DEF TypeOK
<1>o. ASSUME NEW t \in Threads, pc[t] \in InGetPage
      PROVE  /\ \A s \in Threads : s # t => pc[s] = "run"
             /\ wanted[t] \in PageNumber /\ page_map[wanted[t]] = NoFrame
  BY <1>o, OneInGetPage
<1>1. ASSUME UNCHANGED <<page_id, page_map>>, ~atWork PROVE Goal'
  BY <1>0, <1>1
<1>2. ASSUME UNCHANGED <<page_id, page_map, clock>>, atWork' PROVE Goal'
  BY <1>0, <1>2
<1>3. ASSUME UNCHANGED <<page_id, page_map, clock, pc>> PROVE Goal'
  BY <1>0, <1>3
<1>4. ASSUME NEW t \in Threads, NEW p \in PageNumber, GetPageHit(t, p) PROVE Goal'
  BY <1>3, <1>4 DEF GetPageHit
<1>5. ASSUME NEW t \in Threads, NEW p \in PageNumber, GetPageMiss(t, p) PROVE Goal'
  <2>1. ~atWork
    BY <1>0, <1>5, <1>p DEF GetPageMiss, MutexIsHeld
  <2> QED
    BY <1>1, <1>5, <2>1 DEF GetPageMiss
<1>6. ASSUME NEW t \in Threads, Sweep(t) PROVE Goal'
  <2>1. ~atWork
    BY <1>6, <1>o, <1>p DEF Sweep
  <2> QED
    BY <1>1, <1>6, <2>1 DEF Sweep
<1>7. ASSUME NEW t \in Threads, Evict(t) PROVE Goal'
  <2>1. ~atWork
    BY <1>7, <1>o, <1>p DEF Evict
  <2>2. \A f \in Frame : page_id[f] # Unassigned => page_map[page_id[f]] = f
    BY <1>0, <2>1
  <2>3. pc'[t] \in late
    BY <1>7, <1>t DEF Evict
  <2>4. \A q \in PageNumber : page_id[clock] # q => page_map'[q] = page_map[q]
    BY <1>7, <1>t DEF Evict
  <2>5. \A f \in Frame : f # clock /\ page_id[f] # Unassigned => page_id[f] # page_id[clock]
    BY <1>t, <2>2
  <2>6. UNCHANGED <<page_id, clock>>
    BY <1>7 DEF Evict
  <2> HIDE DEF late
  <2> QED
    BY <1>t, <2>2, <2>3, <2>4, <2>5, <2>6
<1>8. ASSUME NEW t \in Threads, FlushSeek(t) \/ FlushWrite(t) PROVE Goal'
  <2>1. atWork'
    BY <1>8, <1>t DEF FlushSeek, FlushWrite
  <2> QED
    BY <1>2, <1>8, <2>1 DEF FlushSeek, FlushWrite
<1>9. ASSUME NEW t \in Threads, Reassign(t) PROVE Goal'
  <2>1. atWork'
    BY <1>9, <1>t DEF Reassign
  <2>2. UNCHANGED <<page_map, clock>> /\ \A f \in Frame : f # clock => page_id'[f] = page_id[f]
    BY <1>9, <1>t DEF Reassign
  <2> HIDE DEF atWork
  <2> QED
    BY <1>0, <2>1, <2>2
<1>10. ASSUME NEW t \in Threads, pc[t] \in {"read_seek", "read"}, Return(t), UNCHANGED <<page_id, clock>>
       PROVE  Goal'
  <2>1. page_id[clock] = wanted[t] /\ wanted[t] \in PageNumber /\ page_map[wanted[t]] = NoFrame
    BY <1>0, <1>10, <1>o, <1>p DEF Victim
  <2>2. \A q \in PageNumber : page_map'[q] = IF q = wanted[t] THEN clock ELSE page_map[q]
    BY <1>10, <1>t DEF Return
  <2> SUFFICES ASSUME NEW f \in Frame, page_id[f] # Unassigned, page_map'[page_id[f]] # f
               PROVE  FALSE
    BY <1>10
  <2>3. f # clock /\ page_id[f] \in PageNumber
    BY <1>t, <2>1, <2>2
  <2>4. page_map[page_id[f]] = f
    BY <1>0, <2>3
  <2> QED
    BY <1>t, <2>1, <2>2, <2>3, <2>4
<1>11. ASSUME NEW t \in Threads, ReadSeek(t) PROVE Goal'
  <2>1. CASE size <= wanted[t]
    BY <1>10, <1>11, <2>1 DEF ReadSeek
  <2>2. CASE ~(size <= wanted[t])
    <3>1. atWork'
      BY <1>11, <1>t, <2>2 DEF ReadSeek
    <3> QED
      BY <1>2, <1>11, <2>2, <3>1 DEF ReadSeek
  <2> QED
    BY <2>1, <2>2
<1>12. ASSUME NEW t \in Threads, Read(t) PROVE Goal'
  BY <1>10, <1>12 DEF Read
<1>13. ASSUME NEW t \in Threads, CountPages(t) \/ \E f \in Frame : WritePage(t, f) \/ Unpin(t, f)
       PROVE  Goal'
  BY <1>3, <1>13 DEF CountPages, WritePage, Unpin
<1>14. CASE Shutdown
  BY <1>3, <1>14 DEF Shutdown
<1>15. \A t \in Threads : ~FlushFails(t) /\ ~ExtendFails(t) /\ ~ReadFails(t)
  BY DEF FlushFails, ExtendFails, ReadFails
<1> HIDE DEF Goal
<1> QED
  BY <1>4, <1>5, <1>6, <1>7, <1>8, <1>9, <1>11, <1>12, <1>13, <1>14, <1>15, StepCases

--------------------------------------------------------------------------------
(****************************************************************************)
(* Together.                                                                *)
(****************************************************************************)

\* At the start the pool is empty.
LEMMA InitIInv == Init => IInv
<1> SUFFICES ASSUME Init PROVE IInv
  OBVIOUS
<1>1. TypeOK
  BY InitTypeOK
<1>2. "run" \notin InGetPage
  BY DEF InGetPage
<1>3. \A f \in Frame : UsersOf(f) = {} /\ ReadersInto(f) = {}
  BY PoolFacts DEF Init, UsersOf, ReadersInto
<1>4. \A f \in Frame : Cardinality(UsersOf(f)) = 0 /\ Cardinality(ReadersInto(f)) = 0
  BY <1>3, FS_EmptySet
<1>5. \A f \in Frame : pins[f] = 0
  BY DEF Init
<1>6. PinsCoverUsers /\ PinsCountUsers
  BY <1>4, <1>5 DEF PinsCoverUsers, PinsCountUsers
<1>7. MutexIsHeld
  BY <1>2 DEF Init, MutexIsHeld
<1>8. Victim
  BY DEF Init, Victim
<1>9. MapIsSound
  BY PoolFacts DEF Init, MapIsSound
<1>10. \A f \in Frame : page_id[f] = Unassigned
  BY DEF Init
<1> QED
  BY <1>1, <1>6, <1>7, <1>8, <1>9, <1>10 DEF IInv, Structure, ExactUnlessFailed

\* Every step keeps the invariant.
LEMMA NextIInv ==
    ASSUME IInv, [Next]_vars
    PROVE  IInv'
<1>1. CASE Next
  <2>1. ExactUnlessFailed'
    BY <1>1, NextPinsExact, NextMapExact DEF ExactUnlessFailed
  <2> QED
    BY <1>1, <2>1, NextTypeOK, NextMutex, NextVictim, NextMap, NextPinsCover DEF IInv, Structure
<1>2. CASE UNCHANGED vars
  <2>1. TypeOK' /\ MutexIsHeld' /\ Victim' /\ MapIsSound'
    BY <1>2 DEF IInv, Structure, vars, frameVars, fileVars, threadVars, TypeOK, MutexIsHeld,
       Victim, MapIsSound
  <2>2. PinsCoverUsers' /\ ExactUnlessFailed'
    BY <1>2 DEF IInv, Structure, vars, frameVars, fileVars, threadVars, PinsCoverUsers,
       ExactUnlessFailed, PinsCountUsers, UsersOf, ReadersInto
  <2> QED
    BY <2>1, <2>2 DEF IInv, Structure
<1> QED
  BY <1>1, <1>2

\* The buffer pool keeps the invariant, whether writes fail or not.
THEOREM BufferInvariant == Spec => []IInv
<1> QED
  BY InitIInv, NextIInv, PTL DEF Spec

--------------------------------------------------------------------------------
(****************************************************************************)
(* Coherence, without a concurrent count_pages.                             *)
(****************************************************************************)

\* Only the thread in get_page moves the offset, so it writes and reads where it
\* has sought.
LEMMA NextOffset ==
    ASSUME IInv, Coherence, Next, Scanners = {}
    PROVE  OffsetIsOwn'
<1> USE DEF GoTo, frameVars, fileVars, threadVars
<1>0. OffsetIsOwn
  BY DEF Coherence
<1>p. InGetPage = {"sweep", "evict", "flush_seek", "flush_write", "reassign", "read_seek", "read"}
  BY DEF InGetPage
<1>t. pc \in [Threads -> InGetPage \cup {"run"}] /\ size \in Nat
  BY DEF IInv, TypeOK
<1>1. ASSUME UNCHANGED <<pc, page_id, clock, wanted, fileVars>> PROVE OffsetIsOwn'
  BY <1>0, <1>1 DEF OffsetIsOwn
<1>2. ASSUME NEW t \in Threads, NEW p \in PageNumber, GetPageMiss(t, p) PROVE OffsetIsOwn'
  <2>1. \A s \in Threads : pc'[s] \notin {"flush_write", "read"}
    BY <1>2, <1>p, <1>t DEF GetPageMiss, IInv, Structure, MutexIsHeld
  <2> QED
    BY <2>1 DEF OffsetIsOwn
<1>3. ASSUME NEW t \in Threads, pc[t] \in InGetPage, pc'[t] \notin {"flush_write", "read"},
             \A s \in Threads : s # t => pc'[s] = pc[s]
      PROVE  OffsetIsOwn'
  <2>1. \A s \in Threads : pc'[s] \notin {"flush_write", "read"}
    BY <1>3, OneInGetPage
  <2> QED
    BY <2>1 DEF OffsetIsOwn
<1>4. ASSUME NEW t \in Threads,
             \/ Sweep(t) \/ Evict(t) \/ FlushWrite(t) \/ FlushFails(t) \/ Reassign(t)
             \/ ExtendFails(t) \/ ReadFails(t)
      PROVE  OffsetIsOwn'
  BY <1>3, <1>4, <1>p, <1>t DEF Sweep, Evict, FlushWrite, FlushFails, Reassign, ExtendFails, ReadFails
<1>5. ASSUME NEW t \in Threads, Read(t) PROVE OffsetIsOwn'
  BY <1>3, <1>5, <1>p, <1>t DEF Read, Return
<1>6. ASSUME NEW t \in Threads, FlushSeek(t) PROVE OffsetIsOwn'
  <2>1. /\ offset' = page_id[clock] /\ pc'[t] = "flush_write" /\ UNCHANGED <<page_id, clock>>
        /\ \A s \in Threads : s # t => pc'[s] = "run"
    BY <1>6, <1>p, <1>t, OneInGetPage DEF FlushSeek
  <2> QED
    BY <2>1 DEF OffsetIsOwn
<1>7. ASSUME NEW t \in Threads, ReadSeek(t) PROVE OffsetIsOwn'
  <2>1. CASE size <= wanted[t]
    BY <1>3, <1>7, <1>p, <1>t, <2>1 DEF ReadSeek, Return
  <2>2. CASE ~(size <= wanted[t])
    <3>1. /\ offset' = wanted[t] /\ pc'[t] = "read" /\ UNCHANGED <<wanted, size>>
          /\ \A s \in Threads : s # t => pc'[s] = "run"
      BY <1>7, <1>p, <1>t, <2>2, OneInGetPage DEF ReadSeek
    <3>2. wanted[t] < size
      BY <1>7, <1>p, <1>t, <2>2, OneInGetPage, PoolFacts DEF ReadSeek
    <3> QED
      BY <3>1, <3>2 DEF OffsetIsOwn
  <2> QED
    BY <2>1, <2>2
<1>8. ASSUME NEW t \in Threads,
             \/ \E p \in PageNumber : GetPageHit(t, p)
             \/ \E f \in Frame : WritePage(t, f) \/ Unpin(t, f)
      PROVE  OffsetIsOwn'
  BY <1>1, <1>8 DEF GetPageHit, WritePage, Unpin
<1>9. CASE Shutdown
  BY <1>0, <1>9 DEF Shutdown, OffsetIsOwn
<1>10. \A t \in Threads : ~CountPages(t)
  BY DEF CountPages
<1> QED
  BY <1>2, <1>4, <1>5, <1>6, <1>7, <1>8, <1>9, <1>10, StepCases

\* A dirty frame keeps the last write of its page until it is written out.
LEMMA NextDirtyIsCurrent ==
    ASSUME IInv, Coherence, Next, Scanners = {}
    PROVE  VictimIsCurrent' /\ ShutdownIsClean'
<1> USE DEF GoTo, frameVars, fileVars, threadVars
<1> DEFINE Goal == VictimIsCurrent /\ ShutdownIsClean
<1>0. VictimIsCurrent /\ ShutdownIsClean /\ Victim /\ MapIsSound /\ MutexIsHeld /\ OffsetIsOwn
  BY DEF Coherence, IInv, Structure
<1>p. InGetPage = {"sweep", "evict", "flush_seek", "flush_write", "reassign", "read_seek", "read"}
  BY DEF InGetPage
<1>t. /\ size \in Nat /\ clock \in Frame /\ page_id \in [Frame -> PageNumber \cup {Unassigned}]
      /\ dirty \in [Frame -> BOOLEAN] /\ bytes \in [Frame -> Stamp] /\ latest \in [PageNumber -> Stamp]
      /\ Unassigned \notin PageNumber /\ NoFrame \notin Frame
      /\ \A p \in PageNumber : p \in Nat
  BY PoolFacts DEF IInv, TypeOK
<1>1. ASSUME UNCHANGED <<page_id, bytes, dirty, latest, running>>, size' \in Nat, size' >= size
      PROVE  Goal'
  <2>1. \A f \in Frame : dirty[f] => page_id[f] < size'
    BY <1>0, <1>1, <1>t DEF VictimIsCurrent, MapIsSound
  <2> QED
    BY <1>0, <1>1, <2>1 DEF VictimIsCurrent, ShutdownIsClean
<1>2. ASSUME NEW t \in Threads,
             \/ \E p \in PageNumber : GetPageHit(t, p) \/ GetPageMiss(t, p)
             \/ Sweep(t) \/ Evict(t) \/ FlushSeek(t) \/ FlushFails(t)
             \/ \E f \in Frame : Unpin(t, f)
      PROVE  Goal'
  BY <1>1, <1>2, <1>t DEF GetPageHit, GetPageMiss, Sweep, Evict, FlushSeek, FlushFails, Unpin
<1>3. ASSUME UNCHANGED <<dirty, latest, running>>, ~dirty[clock], size' \in Nat, size' >= size,
             \A f \in Frame : f # clock => page_id'[f] = page_id[f] /\ bytes'[f] = bytes[f]
      PROVE  Goal'
  <2>1. \A f \in Frame : dirty[f] => f # clock /\ page_id[f] < size'
    BY <1>0, <1>3, <1>t DEF VictimIsCurrent, MapIsSound
  <2> QED
    BY <1>0, <1>3, <2>1 DEF VictimIsCurrent, ShutdownIsClean
<1>4. ASSUME NEW t \in Threads, Reassign(t) \/ ExtendFails(t) \/ Read(t) \/ ReadFails(t) PROVE Goal'
  <2>1. ~dirty[clock]
    BY <1>0, <1>4 DEF Reassign, ExtendFails, Read, ReadFails, Victim
  <2> QED
    BY <1>3, <1>4, <1>t, <2>1 DEF Reassign, ExtendFails, Read, ReadFails
<1>5. ASSUME NEW t \in Threads, ReadSeek(t) PROVE Goal'
  <2>1. ~dirty[clock] /\ wanted[t] \in Nat
    BY <1>0, <1>5, <1>p, <1>t, OneInGetPage DEF ReadSeek, Victim
  <2>2. size' \in Nat /\ size' >= size
    BY <1>5, <1>t, <2>1 DEF ReadSeek
  <2> QED
    BY <1>3, <1>5, <1>t, <2>1, <2>2 DEF ReadSeek
<1>6. ASSUME NEW t \in Threads, FlushWrite(t) PROVE Goal'
  <2>1. offset = page_id[clock] /\ dirty[clock]
    BY <1>0, <1>6 DEF FlushWrite, Victim, OffsetIsOwn
  <2>2. page_id[clock] < size /\ page_id[clock] \in Nat
    BY <1>0, <1>t, <2>1 DEF VictimIsCurrent, MapIsSound
  <2>3. size' = size
    BY <1>6, <1>t, <2>1, <2>2 DEF FlushWrite
  <2>4. UNCHANGED <<page_id, bytes, latest, running>> /\ \A f \in Frame : dirty'[f] => dirty[f]
    BY <1>6, <1>t DEF FlushWrite
  <2> QED
    BY <1>0, <2>3, <2>4 DEF VictimIsCurrent, ShutdownIsClean
<1>7. ASSUME NEW t \in Threads, NEW f \in Frame, WritePage(t, f) PROVE Goal'
  <2>1. PICK q \in PageNumber : q = page_id[f] /\ page_map[q] = f
    BY <1>0, <1>7, <1>t DEF WritePage, MapIsSound
  <2>2. running
    BY <1>0, <1>7 DEF WritePage, MutexIsHeld
  <2>3. \A g \in Frame : g # f /\ dirty[g] => page_id[g] # q /\ page_id[g] \in PageNumber
    BY <1>0, <1>t, <2>1 DEF MapIsSound
  <2>4. q < size
    BY <2>1, <1>t DEF Coherence, PagesAreCurrent
  <2>5. \A g \in Frame : /\ bytes'[g] = IF g = f THEN latest[q] + 1 ELSE bytes[g]
                         /\ g # f => dirty'[g] = dirty[g]
    BY <1>7, <1>t, <2>1 DEF WritePage
  <2>6. \A p \in PageNumber : latest'[p] = IF p = q THEN latest[q] + 1 ELSE latest[p]
    BY <1>7, <1>t, <2>1 DEF WritePage
  <2>7. UNCHANGED <<page_id, size, running>>
    BY <1>7 DEF WritePage
  <2>8. VictimIsCurrent'
    <3> SUFFICES ASSUME NEW g \in Frame, dirty'[g]
                 PROVE  page_id[g] < size /\ bytes'[g] = latest'[page_id[g]]
      BY <2>7 DEF VictimIsCurrent
    <3>1. CASE g = f
      BY <2>1, <2>4, <2>5, <2>6, <3>1
    <3>2. CASE g # f
      BY <1>0, <2>3, <2>5, <2>6, <3>2 DEF VictimIsCurrent
    <3> QED
      BY <3>1, <3>2
  <2> QED
    BY <2>2, <2>7, <2>8 DEF ShutdownIsClean
<1>8. CASE Shutdown
  <2>1. PICK n \in 0..FrameCount :
            /\ n < FrameCount => pins[n] # 0 \/ (IOMayFail /\ dirty[n])
            /\ dirty' = [f \in Frame |-> dirty[f] /\ f >= n]
    BY <1>8 DEF Shutdown
  <2>2. UNCHANGED <<page_id, bytes, size, latest>>
    BY <1>8 DEF Shutdown
  <2>3. VictimIsCurrent'
    BY <1>0, <2>1, <2>2 DEF VictimIsCurrent
  <2>4. ASSUME ~IOMayFail PROVE \A f \in Frame : pins[f] = 0
    <3> SUFFICES ASSUME NEW f \in Frame PROVE pins[f] = 0
      OBVIOUS
    <3>1. UsersOf(f) = {}
      <4> SUFFICES ASSUME NEW t \in Threads, NEW i \in 1..MaxPins, i <= held[t][f] PROVE FALSE
        BY DEF UsersOf
      <4>1. <<f, i>> \in PinnedBy(t)
        BY DEF PinnedBy
      <4> QED
        BY <1>8, <4>1 DEF Shutdown
    <3>2. ReadersInto(f) = {}
      BY <1>8 DEF Shutdown, ReadersInto
    <3>3. pins[f] = Cardinality({}) + Cardinality({})
      BY <2>4, <3>1, <3>2 DEF IInv, Structure, ExactUnlessFailed, PinsCountUsers
    <3> QED
      BY <3>3, FS_EmptySet
  <2>5. ShutdownIsClean'
    <3>1. FrameCount \in Nat
      BY BufferAssumption
    <3>2. ASSUME ~IOMayFail PROVE n = FrameCount
      BY <2>1, <2>4, <3>1, <3>2 DEF Frame
    <3>3. ASSUME ~IOMayFail, NEW f \in Frame PROVE ~dirty'[f]
      <4>1. ~(f >= n)
        BY <3>1, <3>2, <3>3 DEF Frame
      <4> QED
        BY <2>1, <4>1
    <3> QED
      BY <3>3 DEF ShutdownIsClean
  <2> QED
    BY <2>3, <2>5
<1>9. \A t \in Threads : ~CountPages(t)
  BY DEF CountPages
<1> QED
  BY <1>2, <1>4, <1>5, <1>6, <1>7, <1>8, <1>9, StepCases

\* A page is current in its frame, on disk, or in a dirty victim: it is written out
\* before it leaves the pool, and read back from where it was written.
LEMMA NextPages ==
    ASSUME IInv, Coherence, Next, Scanners = {}
    PROVE  PagesAreCurrent'
<1> USE DEF GoTo, frameVars, fileVars, threadVars
<1>0. /\ PagesAreCurrent /\ VictimIsCurrent /\ OffsetIsOwn
      /\ Victim /\ MapIsSound /\ MutexIsHeld
  BY DEF Coherence, IInv, Structure
<1>p. InGetPage = {"sweep", "evict", "flush_seek", "flush_write", "reassign", "read_seek", "read"}
  BY DEF InGetPage
<1>t. /\ size \in Nat /\ clock \in Frame /\ page_id \in [Frame -> PageNumber \cup {Unassigned}]
      /\ dirty \in [Frame -> BOOLEAN] /\ bytes \in [Frame -> Stamp] /\ latest \in [PageNumber -> Stamp]
      /\ page_map \in [PageNumber -> Frame \cup {NoFrame}]
      /\ file \in [0..(MaxFileSize - 1) -> Stamp]
      /\ Unassigned \notin PageNumber /\ NoFrame \notin Frame
      /\ \A p \in PageNumber : p \in Nat /\ p \in 0..(MaxFileSize - 1)
  BY PoolFacts DEF IInv, TypeOK
<1>1. ASSUME UNCHANGED <<page_id, bytes, dirty, page_map, clock, file, size, latest>>
      PROVE  PagesAreCurrent'
  BY <1>0, <1>1 DEF PagesAreCurrent
<1>2. ASSUME NEW t \in Threads,
             \/ \E p \in PageNumber : GetPageHit(t, p) \/ GetPageMiss(t, p)
             \/ FlushSeek(t) \/ FlushFails(t) \/ \E f \in Frame : Unpin(t, f)
      PROVE  PagesAreCurrent'
  BY <1>1, <1>2 DEF GetPageHit, GetPageMiss, FlushSeek, FlushFails, Unpin
<1>3. ASSUME NEW t \in Threads, Sweep(t) PROVE PagesAreCurrent'
  <2>1. CASE pins[clock] = 0 /\ ~second_chance[clock]
    BY <1>1, <1>3, <2>1 DEF Sweep
  <2>2. CASE ~(pins[clock] = 0 /\ ~second_chance[clock])
    <3>1. \A p \in PageNumber : page_map[p] = NoFrame => ~(page_id[clock] = p /\ dirty[clock])
      BY <1>0, <1>t, <2>2 DEF MapIsSound
    <3>2. UNCHANGED <<bytes, dirty, page_map, file, size, latest>>
      BY <1>3 DEF Sweep
    <3> QED
      BY <1>0, <3>1, <3>2 DEF PagesAreCurrent
  <2> QED
    BY <2>1, <2>2
<1>4. ASSUME NEW t \in Threads, Evict(t) PROVE PagesAreCurrent'
  <2>1. pins[clock] = 0 /\ UNCHANGED <<page_id, bytes, dirty, clock, file, size, latest>>
    BY <1>0, <1>4 DEF Evict, Victim
  <2>2. CASE page_id[clock] = Unassigned
    BY <1>1, <1>4, <2>1, <2>2 DEF Evict
  <2>3. CASE page_id[clock] # Unassigned
    <3>1. PICK q \in PageNumber : q = page_id[clock]
      BY <1>t, <2>3
    <3>2. page_map[q] \in {clock, NoFrame}
      BY <1>0, <1>t, <2>1, <2>3, <3>1 DEF MapIsSound
    <3>3. \A p \in PageNumber : page_map'[p] = IF p = q THEN NoFrame ELSE page_map[p]
      BY <1>4, <1>t, <2>3, <3>1 DEF Evict
    <3>4. file[q] = latest[q] \/ (dirty[clock] /\ bytes[clock] = latest[q])
      BY <1>0, <1>t, <3>1, <3>2 DEF PagesAreCurrent
    <3> QED
      BY <1>0, <1>t, <2>1, <3>1, <3>3, <3>4 DEF PagesAreCurrent
  <2> QED
    BY <2>2, <2>3
<1>5. ASSUME NEW t \in Threads, FlushWrite(t) PROVE PagesAreCurrent'
  <2>1. dirty[clock] /\ offset = page_id[clock]
    BY <1>0, <1>5 DEF FlushWrite, Victim, OffsetIsOwn
  <2>2. PICK q \in PageNumber : q = page_id[clock]
    BY <1>0, <1>t, <2>1 DEF MapIsSound
  <2>3. page_map[q] = NoFrame /\ q < size /\ bytes[clock] = latest[q]
    BY <1>0, <1>5, <1>t, <2>1, <2>2 DEF FlushWrite, Victim, VictimIsCurrent
  <2>4. size' = size /\ UNCHANGED <<page_id, bytes, page_map, clock, latest>>
    BY <1>5, <1>t, <2>1, <2>2, <2>3 DEF FlushWrite
  <2>5. \A p \in PageNumber : file'[p] = IF p = q THEN latest[q] ELSE file[p]
    BY <1>5, <1>t, <2>1, <2>2, <2>3 DEF FlushWrite
  <2>6. \A p \in PageNumber : page_map[p] # NoFrame => page_map[p] # clock /\ p # q
    BY <1>0, <2>2, <2>3 DEF MapIsSound
  <2>7. \A f \in Frame : f # clock => dirty'[f] = dirty[f]
    BY <1>5, <1>t DEF FlushWrite
  <2>8. ASSUME NEW p \in PageNumber, page_map[p] # NoFrame
        PROVE  /\ p < size /\ bytes[page_map[p]] = latest[p]
               /\ ~dirty'[page_map[p]] => file'[p] = latest[p]
    BY <1>0, <1>t, <2>5, <2>6, <2>7, <2>8 DEF PagesAreCurrent
  <2>9. ASSUME NEW p \in PageNumber, page_map[p] = NoFrame
        PROVE  file'[p] = latest[p]
    BY <1>0, <2>2, <2>5, <2>9 DEF PagesAreCurrent
  <2> QED
    BY <1>0, <2>4, <2>8, <2>9 DEF PagesAreCurrent
<1>6. ASSUME NEW t \in Threads, pc[t] \in {"reassign", "read_seek", "read"}
      PROVE  /\ ~dirty[clock] /\ wanted[t] \in PageNumber
             /\ \A p \in PageNumber : page_map[p] # clock
             /\ \A p \in PageNumber : page_map[p] = NoFrame => file[p] = latest[p]
  <2>1. ~dirty[clock] /\ wanted[t] \in PageNumber /\ page_map[wanted[t]] = NoFrame
    BY <1>0, <1>6, <1>p, OneInGetPage DEF Victim
  <2>2. page_id[clock] # Unassigned => page_map[page_id[clock]] = NoFrame
    BY <1>0, <1>6, <2>1 DEF Victim
  <2>3. \A p \in PageNumber : page_map[p] # clock
    BY <1>0, <1>t, <2>2 DEF MapIsSound
  <2> QED
    BY <1>0, <2>1, <2>3 DEF PagesAreCurrent
<1>7. ASSUME NEW t \in Threads, Reassign(t) \/ ExtendFails(t) \/ ReadFails(t) PROVE PagesAreCurrent'
  <2>1. /\ \A p \in PageNumber : page_map[p] # clock
        /\ \A p \in PageNumber : page_map[p] = NoFrame => file[p] = latest[p]
    BY <1>6, <1>7 DEF Reassign, ExtendFails, ReadFails
  <2>2. /\ UNCHANGED <<dirty, page_map, clock, file, size, latest>>
        /\ \A f \in Frame : f # clock => bytes'[f] = bytes[f]
    BY <1>7, <1>t DEF Reassign, ExtendFails, ReadFails
  <2>3. \A p \in PageNumber : page_map[p] # NoFrame => bytes'[page_map[p]] = bytes[page_map[p]]
    BY <1>t, <2>1, <2>2
  <2> QED
    BY <1>0, <2>1, <2>2, <2>3 DEF PagesAreCurrent
<1>8. ASSUME NEW t \in Threads, pc[t] \in {"read_seek", "read"}, Return(t),
             UNCHANGED <<page_id, dirty, clock, file, latest>>,
             \A f \in Frame : f # clock => bytes'[f] = bytes[f],
             bytes'[clock] = latest[wanted[t]], size' \in Nat, size' >= size, wanted[t] < size'
      PROVE  PagesAreCurrent'
  <2>1. PICK q \in PageNumber : q = wanted[t] /\ page_map[q] = NoFrame
    BY <1>8, <1>p, OneInGetPage
  <2>2. /\ \A p \in PageNumber : page_map[p] # clock
        /\ \A p \in PageNumber : page_map[p] = NoFrame => file[p] = latest[p]
    BY <1>6, <1>8
  <2>3. \A p \in PageNumber : page_map'[p] = IF p = q THEN clock ELSE page_map[p]
    BY <1>8, <1>t, <2>1 DEF Return
  <2>4. \A p \in PageNumber : p < size => p < size'
    BY <1>8, <1>t
  <2> SUFFICES ASSUME NEW p \in PageNumber
               PROVE  /\ latest[p] # 0 => p < size'
                      /\ page_map'[p] # NoFrame =>
                            /\ p < size' /\ bytes'[page_map'[p]] = latest[p]
                            /\ ~dirty[page_map'[p]] => file[p] = latest[p]
                      /\ page_map'[p] = NoFrame => file[p] = latest[p]
    BY <1>8 DEF PagesAreCurrent
  <2>5. CASE p = q
    BY <1>8, <1>t, <2>1, <2>2, <2>3, <2>5
  <2>6. CASE p # q /\ page_map[p] # NoFrame
    <3>1. page_map'[p] = page_map[p] /\ page_map[p] \in Frame /\ page_map[p] # clock
      BY <1>t, <2>2, <2>3, <2>6
    <3>2. bytes'[page_map'[p]] = bytes[page_map[p]]
      BY <1>8, <3>1
    <3> QED
      BY <1>0, <2>4, <2>6, <3>1, <3>2 DEF PagesAreCurrent
  <2>7. CASE p # q /\ page_map[p] = NoFrame
    BY <1>0, <2>2, <2>3, <2>4, <2>7 DEF PagesAreCurrent
  <2> QED
    BY <2>5, <2>6, <2>7
<1>9. ASSUME NEW t \in Threads, Read(t) PROVE PagesAreCurrent'
  <2>1. offset = wanted[t] /\ wanted[t] < size /\ pc[t] = "read" /\ Return(t)
    BY <1>0, <1>9 DEF Read, OffsetIsOwn
  <2>2. bytes' = [bytes EXCEPT ![clock] = file[wanted[t]]]
    BY <1>9, <2>1 DEF Read
  <2>3. page_map[wanted[t]] = NoFrame /\ wanted[t] \in PageNumber
    BY <1>p, <2>1, OneInGetPage
  <2>4. file[wanted[t]] = latest[wanted[t]]
    BY <1>6, <2>1, <2>3
  <2>5. bytes'[clock] = latest[wanted[t]] /\ \A f \in Frame : f # clock => bytes'[f] = bytes[f]
    BY <1>t, <2>2, <2>4
  <2>6. UNCHANGED <<page_id, dirty, clock, file, latest, size>>
    BY <1>9 DEF Read
  <2>7. size' \in Nat /\ size' >= size /\ wanted[t] < size'
    BY <1>t, <2>1, <2>6
  <2> QED
    BY <1>8, <2>1, <2>5, <2>6, <2>7
<1>10. ASSUME NEW t \in Threads, ReadSeek(t) PROVE PagesAreCurrent'
  <2>1. pc[t] = "read_seek" /\ wanted[t] \in PageNumber
    BY <1>10, <1>p, OneInGetPage DEF ReadSeek
  <2>2. CASE size <= wanted[t]
    <3>1. latest[wanted[t]] = 0
      BY <1>0, <1>t, <2>1, <2>2 DEF PagesAreCurrent
    <3>2. /\ UNCHANGED <<page_id, dirty, clock, file, latest>> /\ Return(t) /\ size' = wanted[t] + 1
          /\ bytes' = [bytes EXCEPT ![clock] = 0]
      BY <1>10, <2>2 DEF ReadSeek
    <3>3. size' \in Nat /\ size' >= size /\ wanted[t] < size'
      BY <1>t, <2>1, <2>2, <3>2
    <3>4. bytes'[clock] = latest[wanted[t]] /\ \A f \in Frame : f # clock => bytes'[f] = bytes[f]
      BY <1>t, <3>1, <3>2
    <3> QED
      BY <1>8, <2>1, <3>2, <3>3, <3>4
  <2>3. CASE ~(size <= wanted[t])
    BY <1>1, <1>10, <2>3 DEF ReadSeek
  <2> QED
    BY <2>2, <2>3
<1>11. ASSUME NEW t \in Threads, NEW f \in Frame, WritePage(t, f) PROVE PagesAreCurrent'
  <2>1. PICK q \in PageNumber : q = page_id[f] /\ page_map[q] = f
    BY <1>0, <1>11, <1>t DEF WritePage, MapIsSound
  <2>2. UNCHANGED <<page_id, page_map, clock, file, size>>
    BY <1>11 DEF WritePage
  <2>3. \A g \in Frame : /\ bytes'[g] = IF g = f THEN latest[q] + 1 ELSE bytes[g]
                         /\ g # f => dirty'[g] = dirty[g]
    BY <1>11, <1>t, <2>1 DEF WritePage
  <2>4. \A p \in PageNumber : latest'[p] = IF p = q THEN latest[q] + 1 ELSE latest[p]
    BY <1>11, <1>t, <2>1 DEF WritePage
  <2>5. dirty'[f]
    BY <1>11, <1>t DEF WritePage
  <2> SUFFICES ASSUME NEW p \in PageNumber
               PROVE  /\ latest'[p] # 0 => p < size
                      /\ page_map[p] # NoFrame =>
                            /\ p < size /\ bytes'[page_map[p]] = latest'[p]
                            /\ ~dirty'[page_map[p]] => file[p] = latest'[p]
                      /\ page_map[p] = NoFrame =>
                            \/ file[p] = latest'[p]
                            \/ page_id[clock] = p /\ dirty'[clock] /\ bytes'[clock] = latest'[p]
    BY <2>2 DEF PagesAreCurrent
  <2>6. CASE p = q
    BY <1>0, <1>t, <2>1, <2>3, <2>4, <2>5, <2>6 DEF PagesAreCurrent
  <2>7. CASE p # q /\ page_map[p] # NoFrame
    <3>1. page_map[p] \in Frame /\ page_map[p] # f
      BY <1>0, <1>t, <2>1, <2>7 DEF MapIsSound
    <3> QED
      BY <1>0, <2>3, <2>4, <2>7, <3>1 DEF PagesAreCurrent
  <2>8. CASE p # q /\ page_map[p] = NoFrame
    <3>1. page_id[clock] = p => clock # f
      BY <2>1, <2>8
    <3> QED
      BY <1>0, <1>t, <2>3, <2>4, <2>8, <3>1 DEF PagesAreCurrent
  <2> QED
    BY <2>6, <2>7, <2>8
<1>12. CASE Shutdown
  <2>1. UNCHANGED <<page_id, bytes, page_map, clock, size, latest>> /\ DOMAIN file = 0..(MaxFileSize - 1)
    BY <1>12, <1>t DEF Shutdown
  <2>2. PICK n \in 0..FrameCount :
            /\ file' = [p \in DOMAIN file |->
                           IF \E f \in Frame : f < n /\ page_id[f] = p /\ dirty[f]
                           THEN bytes[LastDirtyFrame(p, n)] ELSE file[p]]
            /\ dirty' = [f \in Frame |-> dirty[f] /\ f >= n]
    BY <1>12 DEF Shutdown
  <2>3. ASSUME NEW p \in PageNumber
        PROVE  \/ file'[p] = latest[p]
               \/ file'[p] = file[p] /\ \A f \in Frame : page_id[f] = p => dirty'[f] = dirty[f]
    <3>1. CASE \E f \in Frame : f < n /\ page_id[f] = p /\ dirty[f]
      <4>1. PICK f \in Frame : f < n /\ page_id[f] = p /\ dirty[f]
        BY <3>1
      <4>2. LastDirtyFrame(p, n) = f
        BY <4>1, LastDirtyIsIt
      <4>3. file'[p] = bytes[f]
        BY <1>t, <2>1, <2>2, <4>1, <4>2
      <4> QED
        BY <1>0, <4>1, <4>3 DEF VictimIsCurrent
    <3>2. CASE ~\E f \in Frame : f < n /\ page_id[f] = p /\ dirty[f]
      <4>1. file'[p] = file[p]
        BY <1>t, <2>1, <2>2, <3>2
      <4>2. ASSUME NEW f \in Frame, page_id[f] = p PROVE dirty'[f] = dirty[f]
        <5>1. n \in Int /\ f \in Int
          BY PoolFacts DEF Frame
        <5>2. dirty[f] => f >= n
          BY <3>2, <4>2, <5>1
        <5> QED
          BY <1>t, <2>2, <5>2
      <4> QED
        BY <4>1, <4>2
    <3> QED
      BY <3>1, <3>2
  <2>4. ASSUME NEW p \in PageNumber, page_map[p] # NoFrame
        PROVE  page_map[p] \in Frame /\ page_id[page_map[p]] = p
    BY <1>0, <1>t, <2>4 DEF MapIsSound
  <2>5. ASSUME NEW p \in PageNumber
        PROVE  /\ latest[p] # 0 => p < size
               /\ page_map[p] # NoFrame =>
                     /\ p < size /\ bytes[page_map[p]] = latest[p]
                     /\ ~dirty'[page_map[p]] => file'[p] = latest[p]
               /\ page_map[p] = NoFrame =>
                     \/ file'[p] = latest[p]
                     \/ page_id[clock] = p /\ dirty'[clock] /\ bytes[clock] = latest[p]
    BY <1>0, <1>t, <2>3, <2>4 DEF PagesAreCurrent
  <2> QED
    BY <2>1, <2>5 DEF PagesAreCurrent
<1>13. \A t \in Threads : ~CountPages(t)
  BY DEF CountPages
<1> QED
  BY <1>2, <1>3, <1>4, <1>5, <1>7, <1>9, <1>10, <1>11, <1>12, <1>13, StepCases

\* At the start every page is zero, in the file as well.
LEMMA InitCoherence == Init => Coherence
<1> SUFFICES ASSUME Init PROVE Coherence
  OBVIOUS
<1>1. \A p \in PageNumber : p \in 0..(MaxFileSize - 1)
  BY PoolFacts
<1>2. PagesAreCurrent
  BY <1>1 DEF Init, PagesAreCurrent
<1> QED
  BY <1>2 DEF Init, Coherence, OffsetIsOwn, VictimIsCurrent, ShutdownIsClean

\* Every step keeps it, as long as nobody calls count_pages.
LEMMA NextCInv ==
    ASSUME IInv, CInv, [Next]_vars
    PROVE  CInv'
<1> SUFFICES ASSUME Scanners = {}, Coherence PROVE Coherence'
  BY DEF CInv
<1>1. CASE Next
  BY <1>1, NextOffset, NextPages, NextDirtyIsCurrent DEF Coherence
<1>2. CASE UNCHANGED vars
  BY <1>2 DEF Coherence, OffsetIsOwn, PagesAreCurrent, VictimIsCurrent, ShutdownIsClean, vars,
     frameVars, fileVars, threadVars
<1> QED
  BY <1>1, <1>2

--------------------------------------------------------------------------------
(****************************************************************************)
(* The theorems.                                                            *)
(****************************************************************************)

\* The buffer pool stays within its types: the clock wraps, no pin is negative.
THEOREM BufferTypes == Spec => []TypeOK
<1>1. IInv => TypeOK
  BY DEF IInv
<1> QED
  BY <1>1, BufferInvariant, PTL

\* BufferManager::get_page never gives a frame that a thread has pinned to another
\* page, although pin and unpin take no mutex, and whatever system call fails.
THEOREM HeldFramesStay == Spec => HeldFramesKeepTheirPage
<1> DEFINE Stays == \A t \in Threads, f \in Frame : held[t][f] > 0 => page_id'[f] = page_id[f]
<1>1. IInv /\ [Next]_vars => [Stays]_vars
  <2> SUFFICES ASSUME IInv, Next PROVE Stays
    OBVIOUS
  <2> USE DEF GoTo, frameVars, fileVars, threadVars
  <2>1. ASSUME UNCHANGED page_id PROVE Stays
    BY <2>1
  <2>2. ASSUME NEW t \in Threads, Reassign(t) PROVE Stays
    <3>1. pins[clock] = 0 /\ TypeOK /\ PinsCoverUsers
      BY <2>2 DEF Reassign, IInv, Structure, Victim
    <3>2. \A s \in Threads, f \in Frame : held[s][f] > 0 => f # clock
      BY <3>1, HeldIsPinned
    <3> QED
      BY <2>2, <3>1, <3>2 DEF Reassign, TypeOK
  <2>3. ASSUME NEW t \in Threads,
               \/ \E p \in PageNumber : GetPageHit(t, p) \/ GetPageMiss(t, p)
               \/ Sweep(t) \/ Evict(t) \/ FlushSeek(t) \/ FlushWrite(t) \/ FlushFails(t)
               \/ ReadSeek(t) \/ ExtendFails(t) \/ Read(t) \/ ReadFails(t) \/ CountPages(t)
               \/ \E f \in Frame : WritePage(t, f) \/ Unpin(t, f)
        PROVE  Stays
    BY <2>1, <2>3 DEF GetPageHit, GetPageMiss, Sweep, Evict, FlushSeek, FlushWrite, FlushFails,
       ReadSeek, ExtendFails, Read, ReadFails, CountPages, WritePage, Unpin
  <2>4. CASE Shutdown
    BY <2>1, <2>4 DEF Shutdown
  <2> HIDE DEF Stays
  <2> QED
    BY <2>2, <2>3, <2>4, StepCases
<1> QED
  BY <1>1, BufferInvariant, PTL DEF Spec, HeldFramesKeepTheirPage

\* If no system call fails, Page::pins is the number of users of the page: no pin is lost
\* between get_page and unpin and none is left over.
THEOREM PinsAreExact == ASSUME ~IOMayFail PROVE Spec => []PinsCountUsers
<1>1. IInv => PinsCountUsers
  BY DEF IInv, Structure, ExactUnlessFailed
<1> QED
  BY <1>1, BufferInvariant, PTL

\* If no system call fails, page_map is exact whenever pages_mutex is free, so no page is
\* ever in two frames.
THEOREM MapStaysExact == ASSUME ~IOMayFail PROVE Spec => []MapIsExact
<1>1. IInv => MapIsExact
  <2> SUFFICES ASSUME IInv, mutex = {}, NEW f \in Frame, NEW p \in PageNumber
               PROVE  page_id[f] = p <=> page_map[p] = f
    BY DEF MapIsExact
  <2>1. \A t \in Threads : pc[t] \notin {"flush_seek", "flush_write", "reassign", "read_seek", "read"}
    BY DEF IInv, Structure, MutexIsHeld, InGetPage
  <2>2. page_id[f] # Unassigned => page_map[page_id[f]] = f
    BY <2>1 DEF IInv, Structure, ExactUnlessFailed
  <2>3. page_map[p] = f => page_id[f] = p
    BY PoolFacts DEF IInv, Structure, MapIsSound
  <2> QED
    BY <2>2, <2>3, PoolFacts
<1> QED
  BY <1>1, BufferInvariant, PTL

\* Without a concurrent FileManager::count_pages the pool is coherent.
THEOREM PoolIsCoherent == Spec => []CInv
<1>1. Init => CInv
  BY InitCoherence DEF CInv
<1> QED
  BY <1>1, NextCInv, BufferInvariant, PTL DEF Spec

\* Without a concurrent count_pages a pinned page shows the last write of anybody,
\* also after system calls that failed.
THEOREM CacheIsCoherent == ASSUME Scanners = {} PROVE Spec => []PinnedPageIsLatest
<1>1. IInv /\ CInv => PinnedPageIsLatest
  <2> SUFFICES ASSUME IInv, Coherence, NEW t \in Threads, NEW f \in Frame, held[t][f] > 0
               PROVE  bytes[f] = latest[page_id[f]]
    BY DEF CInv, PinnedPageIsLatest
  <2>1. page_id[f] \in PageNumber /\ page_map[page_id[f]] = f
    BY DEF IInv, TypeOK, Structure, MapIsSound
  <2> QED
    BY <2>1, PoolFacts DEF Coherence, PagesAreCurrent
<1> QED
  BY <1>1, BufferInvariant, PoolIsCoherent, PTL

\* Without a concurrent count_pages no write is lost, whichever flush or read_page
\* throws: what is not in the file is in a dirty frame, also of a BufferManager
\* whose destructor has stopped early.
THEOREM WritesAreNotLost == ASSUME Scanners = {} PROVE Spec => []NoWriteIsLost
<1>1. IInv /\ CInv => NoWriteIsLost
  <2> SUFFICES ASSUME IInv, Coherence, NEW p \in PageNumber, latest[p] # 0
               PROVE  \/ p < size /\ file[p] = latest[p]
                      \/ \E f \in Frame : page_id[f] = p /\ dirty[f] /\ bytes[f] = latest[p]
    BY DEF CInv, NoWriteIsLost
  <2>1. p < size
    BY DEF Coherence, PagesAreCurrent
  <2>2. CASE page_map[p] # NoFrame
    <3>1. page_map[p] \in Frame /\ page_id[page_map[p]] = p
      BY <2>2 DEF IInv, TypeOK, Structure, MapIsSound
    <3> QED
      BY <2>1, <2>2, <3>1 DEF Coherence, PagesAreCurrent
  <2>3. CASE page_map[p] = NoFrame
    BY <2>1, <2>3 DEF IInv, TypeOK, Coherence, PagesAreCurrent
  <2> QED
    BY <2>2, <2>3
<1> QED
  BY <1>1, BufferInvariant, PoolIsCoherent, PTL

\* Every page that was written is in the file as it was written last.
DiskIsCurrent == \A p \in PageNumber : latest[p] # 0 => p < size /\ file[p] = latest[p]

\* ~BufferManager writes everything, if no system call has failed and without a
\* concurrent count_pages: no pin is left over at which its assertion would end the
\* process, so that the destructor comes to the last frame.
THEOREM ShutdownWritesAll ==
    ASSUME Scanners = {}, ~IOMayFail
    PROVE  Spec => [](~running => DiskIsCurrent)
<1>1. CInv /\ NoWriteIsLost => (~running => DiskIsCurrent)
  BY DEF CInv, Coherence, ShutdownIsClean, NoWriteIsLost, DiskIsCurrent
<1> QED
  BY <1>1, PoolIsCoherent, WritesAreNotLost, PTL

--------------------------------------------------------------------------------
(****************************************************************************)
(* The clock does not spin for ever because everyone waits for everyone.    *)
(****************************************************************************)

\* A thread has MaxPins pages pinned at most, and fewer while it asks for another.
PinLimit ==
    \A t \in Threads :
        /\ Cardinality(PinnedBy(t)) <= MaxPins
        /\ pc[t] \in InGetPage => Cardinality(PinnedBy(t)) < MaxPins

\* While get_unused_page turns with pages_mutex held, a frame is free for it, or
\* another thread has all the pins it ever takes: it is not waiting for that mutex
\* and gives one back.
FrameOrReturner ==
    \A t \in Threads : pc[t] = "sweep" =>
        \/ \E f \in Frame : pins[f] = 0
        \/ \E u \in Threads \ {t} : Cardinality(PinnedBy(u)) = MaxPins

\* The pins of a thread can be counted.
LEMMA PinsAreFinite ==
    ASSUME NEW t \in Threads
    PROVE  IsFiniteSet(PinnedBy(t)) /\ Cardinality(PinnedBy(t)) \in Nat
<1>1. IsFiniteSet(Frame) /\ IsFiniteSet(1..MaxPins)
  <2>1. 0 \in Int /\ 1 \in Int /\ MaxPins \in Int /\ FrameCount - 1 \in Int
    BY BufferAssumption
  <2> QED
    BY <2>1, FS_Interval DEF Frame
<1>2. IsFiniteSet(Frame \X (1..MaxPins))
  BY <1>1, FS_Product
<1> QED
  BY <1>2, FS_Subset, FS_CardinalityType DEF PinnedBy

\* A page more, and a page less.
LEMMA OwnPinTaken ==
    ASSUME TypeOK, NEW t \in Threads, NEW f \in Frame, held[t][f] < MaxPins,
           held' = [held EXCEPT ![t][f] = @ + 1]
    PROVE  /\ Cardinality(PinnedBy(t)') = Cardinality(PinnedBy(t)) + 1
           /\ \A s \in Threads : s # t => PinnedBy(s)' = PinnedBy(s)
<1>1. held \in [Threads -> [Frame -> 0..MaxPins]] /\ MaxPins \in Nat
  BY PoolFacts DEF TypeOK
<1>2. \A s \in Threads, g \in Frame :
         held'[s][g] = IF s = t /\ g = f THEN held[t][f] + 1 ELSE held[s][g]
  BY <1>1
<1>3. \A s \in Threads : s # t => PinnedBy(s)' = PinnedBy(s)
  BY <1>2 DEF PinnedBy
<1> DEFINE new == <<f, held[t][f] + 1>>
<1>4. PinnedBy(t)' = PinnedBy(t) \cup {new}
  <2>1. \A pin \in Frame \X (1..MaxPins) :
           pin[2] <= held'[t][pin[1]] <=> pin[2] <= held[t][pin[1]] \/ pin = new
    <3> SUFFICES ASSUME NEW g \in Frame, NEW i \in 1..MaxPins
                 PROVE  i <= held'[t][g] <=> i <= held[t][g] \/ (g = f /\ i = held[t][f] + 1)
      OBVIOUS
    <3>1. held[t][g] \in Nat /\ held[t][f] \in Nat /\ i \in Nat
      BY <1>1
    <3> QED
      BY <1>2, <3>1
  <2>2. new \in Frame \X (1..MaxPins)
    BY <1>1
  <2> QED
    BY <2>1, <2>2 DEF PinnedBy
<1>5. new \notin PinnedBy(t)
  BY <1>1 DEF PinnedBy
<1> QED
  BY <1>3, <1>4, <1>5, PinsAreFinite, FS_AddElement

LEMMA OwnPinGivenBack ==
    ASSUME TypeOK, NEW t \in Threads, NEW f \in Frame,
           held' = [held EXCEPT ![t][f] = @ - 1]
    PROVE  \A s \in Threads : /\ Cardinality(PinnedBy(s)') \in Nat
                              /\ Cardinality(PinnedBy(s)') <= Cardinality(PinnedBy(s))
<1>1. held \in [Threads -> [Frame -> 0..MaxPins]] /\ MaxPins \in Nat
  BY PoolFacts DEF TypeOK
<1>2. \A s \in Threads, g \in Frame : held[s][g] \in Nat /\ held'[s][g] \in Int /\ held'[s][g] <= held[s][g]
  BY <1>1
<1>3. \A s \in Threads : PinnedBy(s)' \in SUBSET PinnedBy(s)
  <2> SUFFICES ASSUME NEW s \in Threads, NEW g \in Frame, NEW i \in 1..MaxPins, i <= held'[s][g]
               PROVE  i <= held[s][g]
    BY DEF PinnedBy
  <2>1. i \in Nat
    BY <1>1
  <2> QED
    BY <1>2, <2>1
<1> QED
  BY <1>3, PinsAreFinite, FS_Subset, FS_CardinalityType

\* The limit is kept.
LEMMA NextPinLimit ==
    ASSUME IInv, PinLimit, [Next]_vars
    PROVE  PinLimit'
<1> USE DEF GoTo, frameVars, fileVars, threadVars
<1>0. TypeOK /\ pc \in [Threads -> InGetPage \cup {"run"}] /\ clock \in Frame /\ MaxPins \in Nat
  BY PoolFacts DEF IInv, TypeOK
<1>p. InGetPage = {"sweep", "evict", "flush_seek", "flush_write", "reassign", "read_seek", "read"}
  BY DEF InGetPage
<1>n. \A s \in Threads : Cardinality(PinnedBy(s)) \in Nat
  BY PinsAreFinite
<1>1. ASSUME UNCHANGED held,
             \A s \in Threads : pc'[s] \in InGetPage =>
                 pc[s] \in InGetPage \/ Cardinality(PinnedBy(s)) < MaxPins
      PROVE  PinLimit'
  <2>1. \A s \in Threads : PinnedBy(s)' = PinnedBy(s)
    BY <1>1 DEF PinnedBy
  <2> QED
    BY <1>1, <2>1 DEF PinLimit
<1>2. ASSUME NEW t \in Threads, NEW f \in Frame, Cardinality(PinnedBy(t)) < MaxPins,
             held' = [held EXCEPT ![t][f] = @ + 1], pc'[t] = "run",
             \A s \in Threads : s # t => pc'[s] = pc[s]
      PROVE  PinLimit'
  <2>1. /\ Cardinality(PinnedBy(t)') = Cardinality(PinnedBy(t)) + 1
        /\ \A s \in Threads : s # t => PinnedBy(s)' = PinnedBy(s)
    BY <1>0, <1>2, RoomForPin, OwnPinTaken
  <2>2. pc'[t] \notin InGetPage
    BY <1>2, <1>p
  <2> QED
    BY <1>0, <1>2, <1>n, <2>1, <2>2 DEF PinLimit
<1>3. ASSUME NEW t \in Threads, NEW p \in PageNumber, GetPageHit(t, p) PROVE PinLimit'
  BY <1>0, <1>2, <1>3 DEF GetPageHit, TypeOK
<1>4. ASSUME NEW t \in Threads, pc[t] \in InGetPage, Return(t) PROVE PinLimit'
  BY <1>0, <1>2, <1>4 DEF Return, PinLimit
<1>5. ASSUME NEW t \in Threads, Read(t) \/ ReadSeek(t) PROVE PinLimit'
  <2>1. pc[t] \in InGetPage
    BY <1>5, <1>p DEF Read, ReadSeek
  <2>2. CASE Return(t)
    BY <1>4, <2>1, <2>2
  <2>3. CASE ~Return(t)
    <3>1. UNCHANGED held /\ \A s \in Threads : s # t => pc'[s] = pc[s]
      BY <1>5, <1>0, <2>3 DEF Read, ReadSeek
    <3> QED
      BY <1>1, <2>1, <3>1
  <2> QED
    BY <2>2, <2>3
<1>6. ASSUME NEW t \in Threads, NEW f \in Frame, Unpin(t, f) PROVE PinLimit'
  <2>1. \A s \in Threads : /\ Cardinality(PinnedBy(s)') \in Nat
                            /\ Cardinality(PinnedBy(s)') <= Cardinality(PinnedBy(s))
                            /\ pc'[s] = pc[s]
    BY <1>0, <1>6, OwnPinGivenBack DEF Unpin
  <2> QED
    BY <1>0, <1>n, <2>1 DEF PinLimit
<1>7. ASSUME NEW t \in Threads, NEW p \in PageNumber, GetPageMiss(t, p) PROVE PinLimit'
  BY <1>0, <1>1, <1>7 DEF GetPageMiss
<1>8. ASSUME NEW t \in Threads,
             \/ Sweep(t) \/ Evict(t) \/ FlushSeek(t) \/ FlushWrite(t) \/ FlushFails(t)
             \/ Reassign(t) \/ ExtendFails(t) \/ ReadFails(t)
      PROVE  PinLimit'
  <2>1. pc[t] \in InGetPage /\ UNCHANGED held /\ \A s \in Threads : s # t => pc'[s] = pc[s]
    BY <1>0, <1>8, <1>p DEF Sweep, Evict, FlushSeek, FlushWrite, FlushFails, Reassign,
       ExtendFails, ReadFails
  <2> QED
    BY <1>1, <2>1
<1>9. ASSUME UNCHANGED <<held, pc>> PROVE PinLimit'
  BY <1>1, <1>9
<1>10. CASE Next
  BY <1>3, <1>5, <1>6, <1>7, <1>8, <1>9, <1>10, StepCases DEF WritePage, CountPages, Shutdown
<1>11. CASE UNCHANGED vars
  BY <1>9, <1>11 DEF vars
<1> QED
  BY <1>10, <1>11

\* The frames of a thread with fewer than MaxPins pins can be listed in MaxPins - 1
\* places.
LEMMA FewFrames ==
    ASSUME TypeOK, NEW t \in Threads, Cardinality(PinnedBy(t)) < MaxPins
    PROVE  \E list \in [1..(MaxPins - 1) -> Frame] :
               \A f \in Frame : held[t][f] > 0 => \E i \in 1..(MaxPins - 1) : list[i] = f
<1> DEFINE n == Cardinality(PinnedBy(t))
<1>1. n \in Nat /\ MaxPins \in Nat /\ n <= MaxPins - 1 /\ 0 \in Frame
  BY PinsAreFinite, PoolFacts
<1>2. ExistsBijection(1..n, PinnedBy(t))
  BY PinsAreFinite, FS_CardinalityType
<1>3. PICK b \in [1..n -> PinnedBy(t)] : \A pin \in PinnedBy(t) : \E i \in 1..n : b[i] = pin
  BY <1>2 DEF ExistsBijection, Bijection, Surjection
<1> DEFINE list == [i \in 1..(MaxPins - 1) |-> IF i <= n THEN b[i][1] ELSE 0]
<1> HIDE DEF n
<1>4. \A i \in 1..n : b[i][1] \in Frame
  BY <1>3 DEF PinnedBy
<1>5. list \in [1..(MaxPins - 1) -> Frame]
  BY <1>1, <1>4
<1>6. ASSUME NEW f \in Frame, held[t][f] > 0 PROVE \E i \in 1..(MaxPins - 1) : list[i] = f
  <2>1. <<f, 1>> \in PinnedBy(t)
    BY <1>6, BufferAssumption DEF PinnedBy, TypeOK
  <2>2. PICK i \in 1..n : b[i] = <<f, 1>>
    BY <1>3, <2>1
  <2>3. i \in 1..(MaxPins - 1) /\ i <= n
    BY <1>1
  <2> QED
    BY <2>2, <2>3
<1> QED
  BY <1>5, <1>6

\* Threads that each have fewer than MaxPins pins do not use all frames.
LEMMA FramesAreLeft ==
    ASSUME TypeOK, FrameCount > Cardinality(Threads) * (MaxPins - 1),
           \A t \in Threads : Cardinality(PinnedBy(t)) < MaxPins
    PROVE  \E f \in Frame : \A t \in Threads : ~(held[t][f] > 0)
<1> SUFFICES ASSUME \A f \in Frame : \E t \in Threads : held[t][f] > 0 PROVE FALSE
  OBVIOUS
<1> DEFINE Places == 1..(MaxPins - 1)
           Listed(t) == CHOOSE list \in [Places -> Frame] :
                            \A f \in Frame : held[t][f] > 0 => \E i \in Places : list[i] = f
           frame == [place \in Threads \X Places |-> Listed(place[1])[place[2]]]
<1>1. \A t \in Threads : /\ Listed(t) \in [Places -> Frame]
                         /\ \A f \in Frame : held[t][f] > 0 => \E i \in Places : Listed(t)[i] = f
  BY FewFrames
<1>2. IsFiniteSet(Threads) /\ Cardinality(Threads) \in Nat
  BY BufferAssumption, FS_CardinalityType
<1>3. IsFiniteSet(Places) /\ Cardinality(Places) = MaxPins - 1
  <2>1. 1 \in Int /\ MaxPins - 1 \in Nat
    BY BufferAssumption
  <2> QED
    BY <2>1, FS_Interval
<1> HIDE DEF Places, Listed
<1>4. /\ IsFiniteSet(Threads \X Places)
      /\ Cardinality(Threads \X Places) = Cardinality(Threads) * (MaxPins - 1)
  BY <1>2, <1>3, FS_Product
<1>5. frame \in Surjection(Threads \X Places, Frame)
  <2>1. frame \in [Threads \X Places -> Frame]
    BY <1>1
  <2>2. ASSUME NEW f \in Frame PROVE \E place \in Threads \X Places : frame[place] = f
    <3>1. PICK t \in Threads : held[t][f] > 0
      OBVIOUS
    <3>2. PICK i \in Places : Listed(t)[i] = f
      BY <1>1, <3>1
    <3>3. <<t, i>> \in Threads \X Places /\ frame[<<t, i>>] = f
      BY <3>2
    <3> QED
      BY <3>3
  <2> QED
    BY <2>1, <2>2 DEF Surjection
<1>6. Cardinality(Frame) <= Cardinality(Threads \X Places)
  BY <1>4, <1>5, FS_Surjection
<1>7. Cardinality(Frame) = FrameCount
  <2>1. 0 \in Int /\ FrameCount - 1 \in Int /\ FrameCount \in Nat \ {0}
    BY BufferAssumption
  <2>2. Cardinality(0..(FrameCount - 1)) = IF 0 > FrameCount - 1 THEN 0 ELSE FrameCount - 1 - 0 + 1
    BY <2>1, FS_Interval
  <2> QED
    BY <2>1, <2>2 DEF Frame
<1>8. Cardinality(Threads) * (MaxPins - 1) \in Nat /\ FrameCount \in Nat
  BY <1>2, BufferAssumption
<1> QED
  BY <1>4, <1>6, <1>7, <1>8

\* The pool does not lock up: if no write fails and there are more frames than
\* threads that want one more page can have pinned, get_unused_page always finds a
\* frame, or waits for a thread that is not waiting.
THEOREM PoolNeverLocksUp ==
    ASSUME ~IOMayFail, FrameCount > Cardinality(Threads) * (MaxPins - 1)
    PROVE  Spec => []FrameOrReturner
<1>1. Init => PinLimit
  <2> SUFFICES ASSUME Init, NEW t \in Threads
               PROVE  Cardinality(PinnedBy(t)) <= MaxPins /\ pc[t] \notin InGetPage
    BY DEF PinLimit
  <2>1. PinnedBy(t) = {}
    BY PoolFacts DEF Init, PinnedBy
  <2> QED
    BY <2>1, FS_EmptySet, PoolFacts DEF Init, InGetPage
<1>2. IInv /\ PinLimit => FrameOrReturner
  <2> SUFFICES ASSUME IInv, PinLimit, NEW t \in Threads, pc[t] = "sweep",
                      \A u \in Threads \ {t} : Cardinality(PinnedBy(u)) # MaxPins
               PROVE  \E f \in Frame : pins[f] = 0
    BY DEF FrameOrReturner
  <2>1. pc[t] \in InGetPage /\ MaxPins \in Nat
    BY PoolFacts DEF InGetPage
  <2>2. \A u \in Threads : Cardinality(PinnedBy(u)) < MaxPins
    BY <2>1, PinsAreFinite DEF PinLimit
  <2>3. PICK f \in Frame : \A u \in Threads : ~(held[u][f] > 0)
    BY <2>2, FramesAreLeft DEF IInv
  <2>4. UsersOf(f) = {}
    BY <2>3, PoolFacts DEF UsersOf, IInv, TypeOK
  <2>5. ReadersInto(f) = {}
    BY <2>1, OneInGetPage DEF ReadersInto
  <2>6. pins[f] = Cardinality(UsersOf(f)) + Cardinality(ReadersInto(f))
    BY DEF IInv, Structure, ExactUnlessFailed, PinsCountUsers
  <2> QED
    BY <2>4, <2>5, <2>6, FS_EmptySet
<1> QED
  BY <1>1, <1>2, NextPinLimit, BufferInvariant, PTL DEF Spec

================================================================================
