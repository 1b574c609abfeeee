----------------------------- MODULE BufferManager -----------------------------
(****************************************************************************)
(* system/buffer_manager.cc, system/file_manager.{h,cc} and storage/page.h: *)
(* the frames of the buffer pool, the clock that chooses a victim, and the  *)
(* one file below them.                                                     *)
(*                                                                          *)
(* get_page runs under pages_mutex, but its system calls are steps of their *)
(* own: count_pages moves the offset of the same file descriptor without    *)
(* taking any mutex, and users of pinned frames write and unpin at any      *)
(* time.                                                                    *)
(*                                                                          *)
(* The bytes of a page are abstracted to a stamp: how many times the page   *)
(* has been written.  latest is the stamp of the last write of each page,   *)
(* that is, what a store without a cache would hold.                        *)
(****************************************************************************)
EXTENDS Integers, FiniteSets

CONSTANTS
    Threads,        \* worker threads that use pages
    Scanners,       \* those that also call count_pages (every scan and VACUUM;
                    \* INSERT does not)
    IOMayFail,      \* whether read, write and ftruncate may report an error
    FrameCount,     \* frames in the pool
    MaxPins,        \* how many pages a thread keeps pinned at a time
    PageCount,      \* bound: the pages that are used
    MaxFileSize,    \* bound: pages in the file, misplaced ones included
    MaxStamp        \* bound: writes of a page

ASSUME BufferAssumption ==
    /\ IsFiniteSet(Threads)
    /\ Scanners \subseteq Threads
    /\ IOMayFail \in BOOLEAN
    /\ FrameCount \in Nat \ {0}
    /\ MaxPins \in Nat \ {0}
    /\ PageCount \in Nat
    /\ MaxFileSize \in Nat /\ MaxFileSize >= PageCount
    /\ MaxStamp \in Nat

Frame == 0..(FrameCount - 1)
PageNumber == 0..(PageCount - 1)
Stamp == 0..MaxStamp
Unassigned == -1        \* FileId::UNASSIGNED
NoFrame == -1

VARIABLES
    page_id,        \* frame |-> its page, or Unassigned
    bytes,          \* frame |-> stamp of the data in memory
    pins, second_chance, dirty,
    page_map,       \* page |-> its frame, or NoFrame
    clock,
    file,           \* the pages on disk
    size,           \* pages in the file
    offset,         \* of the file descriptor, in pages
    mutex,          \* {} or the thread that holds pages_mutex
    pc,
    wanted,         \* the page a thread in get_page asks for
    held,           \* thread |-> frame |-> pins that the thread must give back
    latest,         \* history: the last stamp written to each page
    running         \* FALSE once the server has been shut down

frameVars == <<page_id, bytes, pins, second_chance, dirty>>
fileVars == <<file, size, offset>>
threadVars == <<pc, wanted, held>>
vars == <<frameVars, page_map, clock, fileVars, mutex, threadVars, latest, running>>

InGetPage == {"sweep", "evict", "flush_seek", "flush_write", "reassign",
              "read_seek", "read"}

TypeOK ==
    /\ page_id \in [Frame -> PageNumber \cup {Unassigned}]
    /\ bytes \in [Frame -> Stamp]
    /\ pins \in [Frame -> Nat]
    /\ second_chance \in [Frame -> BOOLEAN]
    /\ dirty \in [Frame -> BOOLEAN]
    /\ page_map \in [PageNumber -> Frame \cup {NoFrame}]
    /\ clock \in Frame
    /\ file \in [0..(MaxFileSize - 1) -> Stamp]
    /\ size \in 0..MaxFileSize
    /\ offset \in 0..MaxFileSize
    /\ mutex \in SUBSET Threads /\ Cardinality(mutex) <= 1
    /\ pc \in [Threads -> InGetPage \cup {"run"}]
    /\ wanted \in [Threads -> PageNumber \cup {Unassigned}]
    /\ held \in [Threads -> [Frame -> 0..MaxPins]]
    /\ latest \in [PageNumber -> Stamp]
    /\ running \in BOOLEAN

Init ==
    /\ page_id = [f \in Frame |-> Unassigned]
    /\ bytes = [f \in Frame |-> 0]
    /\ pins = [f \in Frame |-> 0]
    /\ second_chance = [f \in Frame |-> FALSE]
    /\ dirty = [f \in Frame |-> FALSE]
    /\ page_map = [p \in PageNumber |-> NoFrame]
    /\ clock = 0
    /\ file = [p \in 0..(MaxFileSize - 1) |-> 0]
    /\ size = 0
    /\ offset = 0
    /\ mutex = {}
    /\ pc = [t \in Threads |-> "run"]
    /\ wanted = [t \in Threads |-> Unassigned]
    /\ held = [t \in Threads |-> [f \in Frame |-> 0]]
    /\ latest = [p \in PageNumber |-> 0]
    /\ running = TRUE

GoTo(t, label) == pc' = [pc EXCEPT ![t] = label]

\* How many pages thread t has pinned.
PinnedBy(t) == {pin \in Frame \X (1..MaxPins) : pin[2] <= held[t][pin[1]]}

\* The pins of frame f that threads must give back, and the thread that reads
\* the page of frame f in.
UsersOf(f) == {pin \in Threads \X (1..MaxPins) : pin[2] <= held[pin[1]][f]}
ReadersInto(f) == {t \in Threads : pc[t] \in {"read_seek", "read"} /\ clock = f}

--------------------------------------------------------------------------------
(****************************************************************************)
(* Users of pages.                                                          *)
(****************************************************************************)

\* Page::write of some bytes of a pinned page, under its edit_mutex.
WritePage(t, f) ==
    /\ pc[t] = "run"
    /\ held[t][f] > 0
    /\ latest[page_id[f]] < MaxStamp
    /\ latest' = [latest EXCEPT ![page_id[f]] = @ + 1]
    /\ bytes' = [bytes EXCEPT ![f] = latest[page_id[f]] + 1]
    /\ dirty' = [dirty EXCEPT ![f] = TRUE]
    /\ UNCHANGED <<page_id, pins, second_chance, page_map, clock, fileVars, mutex,
                   threadVars, running>>

\* Page::unpin, from ~HeapFilePage; no mutex.
Unpin(t, f) ==
    /\ pc[t] = "run"
    /\ held[t][f] > 0
    /\ held' = [held EXCEPT ![t][f] = @ - 1]
    /\ pins' = [pins EXCEPT ![f] = @ - 1]
    /\ UNCHANGED <<page_id, bytes, second_chance, dirty, page_map, clock, fileVars,
                   mutex, pc, wanted, latest, running>>

\* FileManager::count_pages: lseek to the end, without a mutex.
CountPages(t) ==
    /\ t \in Scanners
    /\ pc[t] = "run"
    /\ running
    /\ offset' = size
    /\ UNCHANGED <<frameVars, page_map, clock, file, size, mutex, threadVars,
                   latest, running>>

--------------------------------------------------------------------------------
(****************************************************************************)
(* get_page.                                                                *)
(****************************************************************************)

\* The page is in the pool: it is pinned and the mutex given back.
GetPageHit(t, p) ==
    /\ pc[t] = "run" /\ running /\ mutex = {}
    /\ Cardinality(PinnedBy(t)) < MaxPins
    /\ page_map[p] # NoFrame
    /\ pins' = [pins EXCEPT ![page_map[p]] = @ + 1]
    /\ second_chance' = [second_chance EXCEPT ![page_map[p]] = TRUE]
    /\ held' = [held EXCEPT ![t][page_map[p]] = @ + 1]
    /\ UNCHANGED <<page_id, bytes, dirty, page_map, clock, fileVars, mutex, pc,
                   wanted, latest, running>>

GetPageMiss(t, p) ==
    /\ pc[t] = "run" /\ running /\ mutex = {}
    /\ Cardinality(PinnedBy(t)) < MaxPins
    /\ page_map[p] = NoFrame
    /\ mutex' = {t}
    /\ wanted' = [wanted EXCEPT ![t] = p]
    /\ GoTo(t, "sweep")
    /\ UNCHANGED <<frameVars, page_map, clock, fileVars, held, latest, running>>

\* Mutant: the clock does not wrap around.
Sweep_NoWrap(t) ==
    /\ pc[t] = "sweep"
    /\ IF pins[clock] = 0 /\ ~second_chance[clock]
       THEN GoTo(t, "evict") /\ UNCHANGED <<second_chance, clock>>
       ELSE /\ second_chance' = [second_chance EXCEPT ![clock] = FALSE]
            /\ clock' = clock + 1
            /\ UNCHANGED pc
    /\ UNCHANGED <<page_id, bytes, pins, dirty, page_map, fileVars, mutex, wanted,
                   held, latest, running>>

\* Mutant: the second chance is never taken away.
Sweep_ChanceKept(t) ==
    /\ pc[t] = "sweep"
    /\ IF pins[clock] = 0 /\ ~second_chance[clock]
       THEN GoTo(t, "evict") /\ UNCHANGED clock
       ELSE clock' = (clock + 1) % FrameCount /\ UNCHANGED pc
    /\ UNCHANGED <<frameVars, page_map, fileVars, mutex, wanted, held, latest, running>>

\* Mutant: the pins are not looked at.
Sweep_PinsIgnored(t) ==
    /\ pc[t] = "sweep"
    /\ IF ~second_chance[clock]
       THEN GoTo(t, "evict") /\ UNCHANGED <<second_chance, clock>>
       ELSE /\ second_chance' = [second_chance EXCEPT ![clock] = FALSE]
            /\ clock' = (clock + 1) % FrameCount
            /\ UNCHANGED pc
    /\ UNCHANGED <<page_id, bytes, pins, dirty, page_map, fileVars, mutex, wanted,
                   held, latest, running>>

\* get_unused_page, one turn of its loop.
Sweep(t) ==
    /\ pc[t] = "sweep"
    /\ IF pins[clock] = 0 /\ ~second_chance[clock]
       THEN GoTo(t, "evict") /\ UNCHANGED <<second_chance, clock>>
       ELSE /\ second_chance' = IF pins[clock] = 0
                                THEN [second_chance EXCEPT ![clock] = FALSE]
                                ELSE second_chance
            /\ clock' = (clock + 1) % FrameCount
            /\ UNCHANGED pc
    /\ UNCHANGED <<page_id, bytes, pins, dirty, page_map, fileVars, mutex, wanted,
                   held, latest, running>>

\* Mutant: the victim stays in the map.
Evict_MapKept(t) ==
    /\ pc[t] = "evict"
    /\ GoTo(t, IF dirty[clock] THEN "flush_seek" ELSE "reassign")
    /\ UNCHANGED <<frameVars, page_map, clock, fileVars, mutex, wanted, held, latest,
                   running>>

\* The victim leaves the map, before it is written out.
Evict(t) ==
    /\ pc[t] = "evict"
    /\ page_map' = IF page_id[clock] = Unassigned THEN page_map
                   ELSE [page_map EXCEPT ![page_id[clock]] = NoFrame]
    /\ GoTo(t, IF dirty[clock] THEN "flush_seek" ELSE "reassign")
    /\ UNCHANGED <<frameVars, clock, fileVars, mutex, wanted, held, latest, running>>

\* Mutant: the dirty flag is cleared before the write.
FlushSeek_CleanTooEarly(t) ==
    /\ pc[t] = "flush_seek"
    /\ offset' = page_id[clock]
    /\ dirty' = [dirty EXCEPT ![clock] = FALSE]
    /\ GoTo(t, "flush_write")
    /\ UNCHANGED <<page_id, bytes, pins, second_chance, page_map, clock, file, size,
                   mutex, wanted, held, latest, running>>

FlushSeek(t) ==
    /\ pc[t] = "flush_seek"
    /\ offset' = page_id[clock]
    /\ GoTo(t, "flush_write")
    /\ UNCHANGED <<frameVars, page_map, clock, file, size, mutex, wanted, held,
                   latest, running>>

\* write(2) writes at the offset, wherever that is by now.
FlushWrite(t) ==
    /\ pc[t] = "flush_write"
    /\ offset < MaxFileSize
    /\ file' = [file EXCEPT ![offset] = bytes[clock]]
    /\ size' = IF offset = size THEN size + 1 ELSE size
    /\ offset' = offset + 1
    /\ dirty' = [dirty EXCEPT ![clock] = FALSE]
    /\ GoTo(t, "reassign")
    /\ UNCHANGED <<page_id, bytes, pins, second_chance, page_map, clock, mutex,
                   wanted, held, latest, running>>

\* write(2) fails: flush throws, through get_page, which gives the mutex back.
FlushFails(t) ==
    /\ IOMayFail
    /\ pc[t] = "flush_write"
    /\ mutex' = {}
    /\ wanted' = [wanted EXCEPT ![t] = Unassigned]
    /\ GoTo(t, "run")
    /\ UNCHANGED <<frameVars, page_map, clock, fileVars, held, latest, running>>

\* Mutant: the frame is not pinned for the thread that reads it in.
Reassign_NotPinned(t) ==
    /\ pc[t] = "reassign"
    /\ page_id' = [page_id EXCEPT ![clock] = wanted[t]]
    /\ second_chance' = [second_chance EXCEPT ![clock] = TRUE]
    /\ GoTo(t, "read_seek")
    /\ UNCHANGED <<bytes, pins, dirty, page_map, clock, fileVars, mutex, wanted, held,
                   latest, running>>

Reassign(t) ==
    /\ pc[t] = "reassign"
    /\ page_id' = [page_id EXCEPT ![clock] = wanted[t]]
    /\ pins' = [pins EXCEPT ![clock] = 1]
    /\ second_chance' = [second_chance EXCEPT ![clock] = TRUE]
    /\ GoTo(t, "read_seek")
    /\ UNCHANGED <<bytes, dirty, page_map, clock, fileVars, mutex, wanted, held,
                   latest, running>>

\* get_page returns the frame at the clock, pinned, to thread t.
Return(t) ==
    /\ page_map' = [page_map EXCEPT ![wanted[t]] = clock]
    /\ held' = [held EXCEPT ![t][clock] = @ + 1]
    /\ mutex' = {}
    /\ wanted' = [wanted EXCEPT ![t] = Unassigned]
    /\ GoTo(t, "run")

\* Mutant: the last page of the file is taken for one beyond its end.
ReadSeek_OffByOne(t) ==
    /\ pc[t] = "read_seek"
    /\ offset' = wanted[t]
    /\ IF size <= wanted[t] + 1
       THEN /\ bytes' = [bytes EXCEPT ![clock] = 0]
            /\ size' = wanted[t] + 1
            /\ Return(t)
       ELSE /\ GoTo(t, "read")
            /\ UNCHANGED <<bytes, size, page_map, held, mutex, wanted>>
    /\ UNCHANGED <<page_id, pins, second_chance, dirty, clock, file, latest, running>>

\* read_page: a page beyond the end of the file is all zeros and the file is
\* extended with it; otherwise the descriptor is moved to the page.
ReadSeek(t) ==
    /\ pc[t] = "read_seek"
    /\ offset' = wanted[t]
    /\ IF size <= wanted[t]
       THEN /\ bytes' = [bytes EXCEPT ![clock] = 0]
            /\ size' = wanted[t] + 1
            /\ Return(t)
       ELSE /\ GoTo(t, "read")
            /\ UNCHANGED <<bytes, size, page_map, held, mutex, wanted>>
    /\ UNCHANGED <<page_id, pins, second_chance, dirty, clock, file, latest, running>>

\* read_page: ftruncate fails and read_page throws; the frame stays assigned and
\* pinned, and out of the map.
ExtendFails(t) ==
    /\ IOMayFail
    /\ pc[t] = "read_seek"
    /\ size <= wanted[t]
    /\ offset' = wanted[t]
    /\ bytes' = [bytes EXCEPT ![clock] = 0]
    /\ mutex' = {}
    /\ wanted' = [wanted EXCEPT ![t] = Unassigned]
    /\ GoTo(t, "run")
    /\ UNCHANGED <<page_id, pins, second_chance, dirty, page_map, clock, file, size,
                   held, latest, running>>

\* read(2) reads at the offset; at the end of the file it reads nothing, reports
\* no error, and leaves the bytes of the page that was evicted.
Read(t) ==
    /\ pc[t] = "read"
    /\ IF offset < size
       THEN /\ bytes' = [bytes EXCEPT ![clock] = file[offset]]
            /\ offset' = offset + 1
       ELSE UNCHANGED <<bytes, offset>>
    /\ Return(t)
    /\ UNCHANGED <<page_id, pins, second_chance, dirty, clock, file, size, latest,
                   running>>

\* read(2) fails and read_page throws, with the frame as ExtendFails leaves it.
ReadFails(t) ==
    /\ IOMayFail
    /\ pc[t] = "read"
    /\ mutex' = {}
    /\ wanted' = [wanted EXCEPT ![t] = Unassigned]
    /\ GoTo(t, "run")
    /\ UNCHANGED <<frameVars, page_map, clock, fileVars, held, latest, running>>

--------------------------------------------------------------------------------

\* The frame that flush, which goes through the frames in order, writes last to
\* page p before it comes to frame n.
LastDirtyFrame(p, n) ==
    CHOOSE f \in Frame :
        /\ f < n /\ page_id[f] = p /\ dirty[f]
        /\ \A g \in Frame : g < n /\ page_id[g] = p /\ dirty[g] => g <= f

\* ~BufferManager, after the worker threads have been joined: the dirty frames are
\* written to their places, in order, up to frame n.  Frame n ends the process if
\* it is still pinned, as a failed read_page leaves it, and the build has its
\* assertions, or if it cannot be written: flush throws in a destructor.
Shutdown ==
    /\ running
    /\ \A t \in Threads : pc[t] = "run" /\ PinnedBy(t) = {}
    /\ running' = FALSE
    /\ \E n \in 0..FrameCount :
        /\ n < FrameCount => pins[n] # 0 \/ (IOMayFail /\ dirty[n])
        /\ file' = [p \in DOMAIN file |->
                       IF \E f \in Frame : f < n /\ page_id[f] = p /\ dirty[f]
                       THEN bytes[LastDirtyFrame(p, n)]
                       ELSE file[p]]
        /\ dirty' = [f \in Frame |-> dirty[f] /\ f >= n]
    /\ UNCHANGED <<page_id, bytes, pins, second_chance, page_map, clock, size,
                   offset, mutex, threadVars, latest>>

GetPageStep(t) ==
    \/ Sweep(t) \/ Evict(t)
    \/ FlushSeek(t) \/ FlushWrite(t) \/ FlushFails(t)
    \/ Reassign(t) \/ ReadSeek(t) \/ ExtendFails(t) \/ Read(t) \/ ReadFails(t)

Next ==
    \/ \E t \in Threads :
        \/ \E p \in PageNumber : GetPageHit(t, p) \/ GetPageMiss(t, p)
        \/ GetPageStep(t)
        \/ \E f \in Frame : WritePage(t, f) \/ Unpin(t, f)
        \/ CountPages(t)
    \/ Shutdown

\* A thread inside get_page keeps running, and a thread outside it gives back
\* the pages it has pinned: HeapFilePage unpins in its destructor.
Fairness ==
    \A t \in Threads :
        WF_vars(GetPageStep(t)) /\ WF_vars(\E f \in Frame : Unpin(t, f))

Spec == Init /\ [][Next]_vars /\ Fairness

--------------------------------------------------------------------------------
(****************************************************************************)
(* Correctness.                                                             *)
(****************************************************************************)

\* While a thread has a frame pinned, nobody gives the frame to another page,
\* although the clock reads pins while others pin and unpin without the mutex.
HeldFramesKeepTheirPage ==
    [][\A t \in Threads, f \in Frame :
          held[t][f] > 0 => page_id'[f] = page_id[f]]_vars

\* page.h:51: pins counts the users of a page, the thread that is reading it in
\* included, so no pin is lost and none is left over.
PinsCountUsers ==
    \A f \in Frame :
        pins[f] = Cardinality(UsersOf(f)) + Cardinality(ReadersInto(f))

\* The map is exact whenever pages_mutex is free: it leads to the frame of every
\* page in the pool and to nothing else, so no page is in two frames
\* (buffer_manager.h:20).
MapIsExact ==
    mutex = {} =>
        \A f \in Frame, p \in PageNumber : page_id[f] = p <=> page_map[p] = f

\* Cache coherence: a thread that has a page pinned sees the last write of the
\* page by anybody, however often it was evicted and read back in between.  It
\* holds even if flushes fail: the victim has left the map by then, but the clock
\* still points to it, so it is written out before anything is read.
PinnedPageIsLatest ==
    \A t \in Threads, f \in Frame :
        held[t][f] > 0 => bytes[f] = latest[page_id[f]]

\* page.h:57: a frame that is not dirty holds what is on disk, once it has been
\* read in.
CleanMeansOnDisk ==
    \A f \in Frame :
        /\ page_id[f] # Unassigned
        /\ ~dirty[f]
        /\ ReadersInto(f) = {}
        => page_id[f] < size /\ bytes[f] = file[page_id[f]]

\* No write is lost while the server runs, whatever system call fails: the last
\* write of every page is in the file, or in a dirty frame that is still to be
\* written.  So a destructor that goes through all frames leaves every write in
\* the file, and one that stops loses the dirty frames that it has not reached and
\* nothing else.
NoWriteIsLost ==
    \A p \in PageNumber : latest[p] # 0 =>
        \/ p < size /\ file[p] = latest[p]
        \/ \E f \in Frame : page_id[f] = p /\ dirty[f] /\ bytes[f] = latest[p]

\* get_page returns: while it spins with pages_mutex held, somebody gives a frame
\* back.  This needs a frame more than the threads can keep pinned while all of
\* them are inside get_page.
GetPageReturns ==
    \A t \in Threads : pc[t] \in InGetPage ~> pc[t] = "run"
================================================================================
