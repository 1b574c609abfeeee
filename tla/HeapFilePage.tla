----------------------------- MODULE HeapFilePage ------------------------------
(****************************************************************************)
(* storage/heap_file/heap_file_page.cc: how the records of a table lie in   *)
(* its pages, and the loops of heap_file.cc and heap_file_iter.cc that fill,*)
(* scan and VACUUM the pages from several worker threads.                   *)
(*                                                                          *)
(* A page is an array of cells, addressed as the code addresses its bytes:  *)
(* the number of directory entries, the free space, the directory growing   *)
(* upwards, the records growing downwards.  A cell stands for 4 bytes, and  *)
(* a table has one STR column: a record is its header, the length of its    *)
(* string and that many cells of text.  Header and text cells hold the      *)
(* record's tag, so that a record overwritten in part is no longer equal to *)
(* what was inserted.                                                       *)
(*                                                                          *)
(* A step is one critical section of a page's edit_mutex or of the buffer's *)
(* pages_mutex, one access to the atomic last_insert_page, or one read or   *)
(* write of a page's header without a lock: the constructor and             *)
(* HeapFileIter::next take none.  vacuum() has two steps, because it copies *)
(* an uninitialized header over the page's before it writes the right one.  *)
(* What an eviction does to a page is BufferManager's subject; here a page  *)
(* keeps its cells.                                                         *)
(*                                                                          *)
(* Two of these steps can damage a page: an initialization that comes after *)
(* another thread's first INSERT, and VACUUM of an empty page.  The history *)
(* variable defect records them; the properties say what holds before.      *)
(****************************************************************************)
EXTENDS Integers, Sequences, FiniteSets, FiniteSetsExt, Functions

CONSTANTS
    Threads,           \* worker threads
    SIZE,              \* cells of a page
    TUPLE_HEADER_SIZE, \* cells of a record's header
    Lengths,           \* lengths of the strings that are inserted
    MaxPages,          \* bound: pages of the file
    MaxRows,           \* bound: INSERTs of a behaviour
    MaxVacuums,        \* bound: VACUUMs of a behaviour
    MaxScans,          \* bound: scans of a behaviour
    MaxDeletes,        \* bound: physical deletions of a behaviour
    Uninit             \* what 4 bytes of uninitialized memory may hold

HEADER_SIZE == 2
DIR_SIZE == 1

\* Cells of the record that holds a string of n cells.
RecordSize(n) == TUPLE_HEADER_SIZE + 1 + n

ASSUME HeapFilePageAssumption ==
    /\ TUPLE_HEADER_SIZE \in Nat \ {0}
    /\ SIZE \in Nat /\ HEADER_SIZE + DIR_SIZE <= SIZE
    /\ Lengths \subseteq Nat
    /\ \A n \in Lengths : HEADER_SIZE + DIR_SIZE + RecordSize(n) <= SIZE
    /\ MaxPages \in Nat \ {0} /\ MaxRows \in Nat /\ MaxVacuums \in Nat
    /\ MaxScans \in Nat /\ MaxDeletes \in Nat
    /\ Uninit \subseteq Int

Pages == 0..(MaxPages - 1)
Cells == 0..(SIZE - 1)
Tags == 1..MaxRows
RID == Pages \X Cells

VARIABLES
    pages,            \* the cells of every page
    total_pages,      \* FileManager::count_pages
    last_insert_page,
    pc,
    op,               \* the thread's statement: "insert", "scan" or "vacuum"
    page_num,         \* insert_record: the value that the CAS expects
    current_page,     \* the page the thread has open
    slot,             \* scan: current_page_record_pos, -1 before a page's first entry
    last_page,        \* scan and VACUUM: their copy of total_pages
    record,           \* insert_record: the record, [tag, length]
    rows,             \* history: RID |-> the record that was inserted there
    owed,             \* history: the rows a scan found when it began and has not met
    misled,           \* history: the pages whose half-written header a scan has read
    defect,           \* history: how a page was damaged, if one was
    used              \* how many INSERTs, VACUUMs, scans and deletions have begun

vars == <<pages, total_pages, last_insert_page, pc, op, page_num, current_page,
          slot, last_page, record, rows, owed, misled, defect, used>>
localVars == <<op, page_num, current_page, slot, last_page, record>>

Row == [tag : Tags, length : Lengths]
NoRow == [tag |-> 0, length |-> 0]

Labels == {"idle", "load", "get_page", "check", "check_free", "init", "insert", "advance",
           "count", "read", "record", "vacuum", "header", "reset"}

\* The types of the pages and of what lies in them.
PageTypes ==
    /\ pages \in [Pages -> [Cells -> Int]]
    /\ \A p \in Pages : pages[p][0] \in 0..SIZE /\ pages[p][1] \in 0..SIZE
    /\ DOMAIN rows \subseteq RID /\ rows \in [DOMAIN rows -> Row]
    /\ owed \in [Threads -> SUBSET RID]

\* The variables keep their types.  Counts, free space and RIDs stay inside the
\* page until one is damaged; from then on a record can lie behind its end.
TypeOK ==
    /\ total_pages \in 0..MaxPages
    /\ last_insert_page \in Nat
    /\ pc \in [Threads -> Labels]
    /\ op \in [Threads -> {"none", "insert", "scan", "vacuum"}]
    /\ page_num \in [Threads -> Nat]
    /\ current_page \in [Threads -> 0..MaxPages]
    /\ slot \in [Threads -> Nat \cup {-1}]
    /\ last_page \in [Threads -> 0..MaxPages]
    /\ record \in [Threads -> Row \cup {NoRow}]
    /\ misled \in [Threads -> SUBSET Pages]
    /\ defect \in {"none", "reinitialized", "garbage_entry"}
    /\ used \in [{"insert", "vacuum", "scan", "delete"} -> Nat]
    /\ defect = "none" => PageTypes

\* A file of no pages; read_page fills a page it does not find with zeros.
Init ==
    /\ pages = [p \in Pages |-> [c \in Cells |-> 0]]
    /\ total_pages = 0
    /\ last_insert_page = 0
    /\ pc = [t \in Threads |-> "idle"]
    /\ op = [t \in Threads |-> "none"]
    /\ page_num = [t \in Threads |-> 0]
    /\ current_page = [t \in Threads |-> 0]
    /\ slot = [t \in Threads |-> -1]
    /\ last_page = [t \in Threads |-> 0]
    /\ record = [t \in Threads |-> NoRow]
    /\ rows = <<>>
    /\ owed = [t \in Threads |-> {}]
    /\ misled = [t \in Threads |-> {}]
    /\ defect = "none"
    /\ used = [o \in {"insert", "vacuum", "scan", "delete"} |-> 0]

--------------------------------------------------------------------------------
(****************************************************************************)
(* A page.                                                                  *)
(****************************************************************************)

\* A cell of the page.  Behind the end of the page lies another frame's page,
\* which only a damaged page or a scan that was misled makes the code read; what
\* it would find there is 0 here, and what it would write there is left out.
At(pg, c) == IF c \in Cells THEN pg[c] ELSE 0

GetDirCount(pg) == pg[0]
GetFreeSpace(pg) == pg[1]
DirOffset(d) == HEADER_SIZE + DIR_SIZE * d
GetDir(pg, d) == At(pg, DirOffset(d))
Slots(pg) == 0..(GetDirCount(pg) - 1)

Initialized(pg) == [pg EXCEPT ![1] = SIZE - HEADER_SIZE]

\* The length that the record at off says it has, up to the end of the page.
RecordLength(pg, off) == Min({RecordSize(At(pg, off + TUPLE_HEADER_SIZE)), SIZE - off})

\* get_record: the cells of the record at d, none for a deleted one.
GetRecord(pg, d) ==
    LET off == GetDir(pg, d)
    IN  IF off <= 0 THEN <<>> ELSE [c \in 1..RecordLength(pg, off) |-> At(pg, off + c - 1)]

\* The cells that try_insert_record writes for row r.
Encoded(r) ==
    [c \in 1..RecordSize(r.length) |->
        IF c = TUPLE_HEADER_SIZE + 1 THEN r.length ELSE r.tag]

\* The entry that a new record takes: the first one without a record.
FreeSlot(pg) == Min({d \in Slots(pg) : GetDir(pg, d) <= 0} \cup {GetDirCount(pg)})

NeededSpace(pg, r) ==
    RecordSize(r.length) + IF FreeSlot(pg) < GetDirCount(pg) THEN 0 ELSE DIR_SIZE

\* Mutant: off by one.
Fits_OneMore(pg, r) == NeededSpace(pg, r) <= GetFreeSpace(pg) + 1

Fits(pg, r) == NeededSpace(pg, r) <= GetFreeSpace(pg)

\* The page after try_insert_record has stored r in it.
Inserted(pg, r) ==
    LET d == FreeSlot(pg)
        count == Max({GetDirCount(pg), d + 1})
        free == GetFreeSpace(pg) - NeededSpace(pg, r)
        off == HEADER_SIZE + DIR_SIZE * count + free
    IN  [c \in Cells |->
            CASE c \in off..(off + RecordSize(r.length) - 1) -> Encoded(r)[c - off + 1]
              [] c = DirOffset(d) -> off
              [] c = 0 -> count
              [] c = 1 -> free
              [] OTHER -> pg[c]]

\* Mutant: the mark goes where the record is, and not into its entry.
Deleted_MarksRecord(pg, d) == [pg EXCEPT ![GetDir(pg, d)] = -2]

\* Deleted records keep their cells until VACUUM, and their entry for reuse.
Deleted(pg, d) == [pg EXCEPT ![DirOffset(d)] = -2]

--------------------------------------------------------------------------------
(****************************************************************************)
(* VACUUM of a page: entry i keeps its number, its record moves to the end  *)
(* of the free space that the entries up to i leave.                        *)
(****************************************************************************)

Kept(pg) == {d \in Slots(pg) : GetDir(pg, d) >= 0}

KeptSize(pg, d) ==
    IF GetDir(pg, d) <= 0 THEN TUPLE_HEADER_SIZE ELSE RecordLength(pg, GetDir(pg, d))

\* The cells of the records that the entries 0..i keep.
KeptCells(pg, i) ==
    UNION {{d} \X (1..KeptSize(pg, d)) : d \in {k \in Kept(pg) : k <= i}}

\* free_space after the loop has handled the entries 0..i.
FreeAfter(pg, i) ==
    SIZE - HEADER_SIZE - DIR_SIZE * (i + 1) - Cardinality(KeptCells(pg, i))

\* Mutant: the offset counts the whole directory, not the entries so far.
NewOffset_WholeDirectory(pg, i) ==
    HEADER_SIZE + DIR_SIZE * GetDirCount(pg) + FreeAfter(pg, i)

NewOffset(pg, i) == HEADER_SIZE + DIR_SIZE * (i + 1) + FreeAfter(pg, i)

\* The entries after the last record are dropped; one entry always stays.
LastUseful(pg) == Max({0} \cup Kept(pg))

\* Mutant: the entries that are dropped are not given back.
VacuumedFree_Leak(pg) == FreeAfter(pg, GetDirCount(pg) - 1)

VacuumedFree(pg) ==
    FreeAfter(pg, GetDirCount(pg) - 1) + (GetDirCount(pg) - (LastUseful(pg) + 1)) * DIR_SIZE

\* The page after vacuum(); u is what the buffer for the new page, which comes
\* uninitialized, has in entry 0.  The cells between the directory and the
\* records are not read again, and are 0 here.
Vacuumed(pg, u) ==
    LET offset == [d \in Kept(pg) |-> NewOffset(pg, d)]
        entry(d) == IF d \in Kept(pg) THEN offset[d] ELSE IF d \in Slots(pg) THEN -1 ELSE u
        owner(c) == {d \in Kept(pg) : c \in offset[d]..(offset[d] + KeptSize(pg, d) - 1)}
    IN  [c \in Cells |->
            CASE c = 0 -> LastUseful(pg) + 1
              [] c = 1 -> VacuumedFree(pg)
              [] c \in {DirOffset(d) : d \in 0..LastUseful(pg)} -> entry((c - HEADER_SIZE) \div DIR_SIZE)
              [] OTHER -> IF owner(c) = {} THEN 0
                          ELSE LET d == Max(owner(c)) IN At(pg, GetDir(pg, d) + c - offset[d])]

--------------------------------------------------------------------------------
(****************************************************************************)
(* Opening a page: BufferManager::get_page, then the constructor.           *)
(****************************************************************************)

GoTo(t, label) == pc' = [pc EXCEPT ![t] = label]

\* vacuum() holds p's edit_mutex, has copied the new page and not yet its header.
HeaderPending(p) == \E t \in Threads : pc[t] = "header" /\ current_page[t] = p

\* What a thread without the mutex reads of p's header.
SeenDirCount(p) == {GetDirCount(pages[p])} \cup IF HeaderPending(p) THEN Uninit ELSE {}
SeenFreeSpace(p) == {GetFreeSpace(pages[p])} \cup IF HeaderPending(p) THEN Uninit ELSE {}

\* The statement is over: its local variables are gone.
Return(t) ==
    /\ GoTo(t, "idle")
    /\ op' = [op EXCEPT ![t] = "none"]
    /\ page_num' = [page_num EXCEPT ![t] = 0]
    /\ current_page' = [current_page EXCEPT ![t] = 0]
    /\ slot' = [slot EXCEPT ![t] = -1]
    /\ last_page' = [last_page EXCEPT ![t] = 0]
    /\ record' = [record EXCEPT ![t] = NoRow]

\* Where the thread goes on with the open page.  A scan opens a page to begin with
\* it, and once more for every record that it reads.
Opened(t) ==
    CASE op[t] = "insert" -> "insert"
      [] op[t] = "vacuum" -> "vacuum"
      [] op[t] = "scan" -> IF slot[t] >= 0 THEN "record"
                           ELSE IF current_page[t] = 0 THEN "count" ELSE "read"

\* read_page extends a file that does not reach up to the page.  insert_record
\* reads last_insert_page a second time to name the page it opens.
GetPage(t) ==
    /\ pc[t] = "get_page"
    /\ LET p == IF op[t] = "insert" THEN last_insert_page ELSE current_page[t]
       IN  /\ p < MaxPages
           /\ current_page' = [current_page EXCEPT ![t] = p]
           /\ total_pages' = Max({total_pages, p + 1})
    /\ GoTo(t, "check")
    /\ UNCHANGED <<pages, last_insert_page, op, page_num, slot, last_page, record,
                   rows, owed, misled, defect, used>>

\* The constructor's test for a new page, first half: get_dir_count() == 0.
CheckNew(t) ==
    /\ pc[t] = "check"
    /\ \E count \in SeenDirCount(current_page[t]) :
        GoTo(t, IF count = 0 THEN "check_free" ELSE Opened(t))
    /\ UNCHANGED <<pages, total_pages, last_insert_page, localVars, rows, owed, misled, defect, used>>

\* The second half: get_free_space() == 0.
CheckFree(t) ==
    /\ pc[t] = "check_free"
    /\ \E free \in SeenFreeSpace(current_page[t]) :
        GoTo(t, IF free = 0 THEN "init" ELSE Opened(t))
    /\ UNCHANGED <<pages, total_pages, last_insert_page, localVars, rows, owed, misled, defect, used>>

\* Mutant: the header of a new page is not counted.
InitPage_NoHeader(t) ==
    LET p == current_page[t]
    IN  /\ pc[t] = "init"
        /\ pages' = [pages EXCEPT ![p][1] = SIZE]
        /\ defect' = IF GetDirCount(pages[p]) = 0 THEN defect ELSE "reinitialized"
        /\ GoTo(t, Opened(t))
        /\ UNCHANGED <<total_pages, last_insert_page, localVars, rows, owed, misled, used>>

\* The write of the constructor, whatever the page has become since the test.  It
\* does no harm to a page that still has no entry, and none while vacuum() is about
\* to write the header; a page with entries calls all of its cells free after it.
InitPage(t) ==
    LET p == current_page[t]
    IN  /\ pc[t] = "init"
        /\ IF HeaderPending(p) THEN UNCHANGED <<pages, defect>>
           ELSE /\ pages' = [pages EXCEPT ![p] = Initialized(@)]
                /\ defect' = IF GetDirCount(pages[p]) = 0 THEN defect ELSE "reinitialized"
        /\ GoTo(t, Opened(t))
        /\ UNCHANGED <<total_pages, last_insert_page, localVars, rows, owed, misled, used>>

--------------------------------------------------------------------------------
(****************************************************************************)
(* HeapFile::insert_record.                                                 *)
(****************************************************************************)

StartInsert(t) ==
    /\ pc[t] = "idle"
    /\ used["insert"] < MaxRows
    /\ \E n \in Lengths :
        record' = [record EXCEPT ![t] = [tag |-> used["insert"] + 1, length |-> n]]
    /\ op' = [op EXCEPT ![t] = "insert"]
    /\ used' = [used EXCEPT !["insert"] = @ + 1]
    /\ GoTo(t, "load")
    /\ UNCHANGED <<pages, total_pages, last_insert_page, page_num, current_page, slot, last_page,
                   rows, owed, misled, defect>>

Load(t) ==
    /\ pc[t] = "load"
    /\ page_num' = [page_num EXCEPT ![t] = last_insert_page]
    /\ GoTo(t, "get_page")
    /\ UNCHANGED <<pages, total_pages, last_insert_page, op, current_page, slot, last_page, record,
                   rows, owed, misled, defect, used>>

TryInsert(t) ==
    LET p == current_page[t]
        rid == <<p, FreeSlot(pages[p])>>
    IN  /\ pc[t] = "insert"
        /\ ~HeaderPending(p)
        /\ \/ /\ Fits(pages[p], record[t])
              /\ pages' = [pages EXCEPT ![p] = Inserted(@, record[t])]
              /\ rows' = [r \in DOMAIN rows \cup {rid} |-> IF r = rid THEN record[t] ELSE rows[r]]
              /\ Return(t)
           \/ /\ ~Fits(pages[p], record[t])
              /\ GoTo(t, "advance")
              /\ UNCHANGED <<pages, rows, localVars>>
        /\ UNCHANGED <<total_pages, last_insert_page, owed, misled, defect, used>>

\* Mutant: the result of the comparison is that nothing ever advances.
Advance_Never(t) ==
    /\ pc[t] = "advance"
    /\ GoTo(t, "load")
    /\ UNCHANGED <<pages, total_pages, last_insert_page, localVars, rows, owed, misled, defect, used>>

\* The compare_exchange: only if no other thread has moved last_insert_page.
Advance(t) ==
    /\ pc[t] = "advance"
    /\ last_insert_page' = IF last_insert_page = page_num[t] THEN page_num[t] + 1
                           ELSE last_insert_page
    /\ GoTo(t, "load")
    /\ UNCHANGED <<pages, total_pages, localVars, rows, owed, misled, defect, used>>

\* delete_record_physically, under the page's mutex, of any row.  No caller runs
\* today: HeapFile::undo stops before it and nothing calls full_vacuum.
DeleteRecordPhysically(r) ==
    /\ used["delete"] < MaxDeletes
    /\ ~HeaderPending(r[1])
    /\ used' = [used EXCEPT !["delete"] = @ + 1]
    /\ pages' = [pages EXCEPT ![r[1]] = Deleted(@, r[2])]
    /\ rows' = Restrict(rows, DOMAIN rows \ {r})
    /\ owed' = [t \in Threads |-> owed[t] \ {r}]
    /\ UNCHANGED <<total_pages, last_insert_page, pc, localVars, misled, defect>>

--------------------------------------------------------------------------------
(****************************************************************************)
(* HeapFileIter: page by page, up to the pages of the file when it began.   *)
(****************************************************************************)

StartScan(t) ==
    /\ pc[t] = "idle"
    /\ used["scan"] < MaxScans
    /\ op' = [op EXCEPT ![t] = "scan"]
    /\ current_page' = [current_page EXCEPT ![t] = 0]
    /\ slot' = [slot EXCEPT ![t] = -1]
    /\ owed' = [owed EXCEPT ![t] = DOMAIN rows]
    /\ misled' = [misled EXCEPT ![t] = {}]
    /\ used' = [used EXCEPT !["scan"] = @ + 1]
    /\ GoTo(t, "get_page")
    /\ UNCHANGED <<pages, total_pages, last_insert_page, page_num, last_page, record, rows, defect>>

CountPages(t) ==
    /\ pc[t] = "count"
    /\ last_page' = [last_page EXCEPT ![t] = total_pages]
    /\ GoTo(t, "read")
    /\ UNCHANGED <<pages, total_pages, last_insert_page, op, page_num, current_page, slot, record,
                   rows, owed, misled, defect, used>>

\* Mutant: the last page of the file is left out.
NextPage_OneShort(t) ==
    IF current_page[t] + 1 < last_page[t] - 1
    THEN /\ current_page' = [current_page EXCEPT ![t] = @ + 1]
         /\ slot' = [slot EXCEPT ![t] = -1]
         /\ GoTo(t, "get_page")
         /\ UNCHANGED <<op, page_num, last_page, record>>
    ELSE Return(t)

\* next() is at the end of a page.
NextPage(t) ==
    IF current_page[t] + 1 < last_page[t]
    THEN /\ current_page' = [current_page EXCEPT ![t] = @ + 1]
         /\ slot' = [slot EXCEPT ![t] = -1]
         /\ GoTo(t, "get_page")
         /\ UNCHANGED <<op, page_num, last_page, record>>
    ELSE Return(t)

\* next() compares the next slot with get_dir_count(), which takes no lock.  The
\* page of a record is then opened again; the frame is pinned, so that get_page
\* only finds it.
ReadCount(t) ==
    LET p == current_page[t]
    IN  /\ pc[t] = "read"
        /\ \E count \in SeenDirCount(p) :
            /\ misled' = [misled EXCEPT ![t] = IF count = GetDirCount(pages[p]) THEN @ ELSE @ \cup {p}]
            /\ \/ /\ slot[t] + 1 < count
                  /\ slot' = [slot EXCEPT ![t] = @ + 1]
                  /\ GoTo(t, "check")
                  /\ UNCHANGED <<op, page_num, current_page, last_page, record>>
               \/ /\ slot[t] + 1 >= count
                  /\ NextPage(t)
        /\ UNCHANGED <<pages, total_pages, last_insert_page, rows, owed, defect, used>>

\* get_record_header and get_record, under the page's mutex.
ReadRecord(t) ==
    LET p == current_page[t]
    IN  /\ pc[t] = "record"
        /\ ~HeaderPending(p)
        /\ owed' = [owed EXCEPT ![t] =
                        IF GetRecord(pages[p], slot[t]) = <<>> THEN @ ELSE @ \ {<<p, slot[t]>>}]
        /\ GoTo(t, "read")
        /\ UNCHANGED <<pages, total_pages, last_insert_page, localVars, rows, misled, defect, used>>

--------------------------------------------------------------------------------
(****************************************************************************)
(* HeapFile::vacuum.                                                        *)
(****************************************************************************)

StartVacuum(t) ==
    /\ pc[t] = "idle"
    /\ used["vacuum"] < MaxVacuums
    /\ op' = [op EXCEPT ![t] = "vacuum"]
    /\ last_page' = [last_page EXCEPT ![t] = total_pages]
    /\ current_page' = [current_page EXCEPT ![t] = 0]
    /\ used' = [used EXCEPT !["vacuum"] = @ + 1]
    /\ GoTo(t, IF total_pages = 0 THEN "reset" ELSE "get_page")
    /\ UNCHANGED <<pages, total_pages, last_insert_page, page_num, slot, record,
                   rows, owed, misled, defect>>

\* vacuum() up to the copy of the new page over the old one.  The cells of pages[p]
\* are those after the last write; HeaderPending hides the header until then.  An
\* empty page keeps one entry, which nobody has written.
VacuumPage(t) ==
    LET p == current_page[t]
    IN  /\ pc[t] = "vacuum"
        /\ ~HeaderPending(p)
        /\ \E u \in Uninit :
            /\ pages' = [pages EXCEPT ![p] = Vacuumed(@, u)]
            /\ defect' = IF GetDirCount(pages[p]) = 0 /\ u >= 0 THEN "garbage_entry" ELSE defect
        /\ GoTo(t, "header")
        /\ UNCHANGED <<total_pages, last_insert_page, localVars, rows, owed, misled, used>>

\* The two writes of the header, and the end of the lock_guard.
WriteHeader(t) ==
    /\ pc[t] = "header"
    /\ current_page' = [current_page EXCEPT ![t] = @ + 1]
    /\ GoTo(t, IF current_page[t] + 1 < last_page[t] THEN "get_page" ELSE "reset")
    /\ UNCHANGED <<pages, total_pages, last_insert_page, op, page_num, slot, last_page, record,
                   rows, owed, misled, defect, used>>

VacuumEnds(t) ==
    /\ pc[t] = "reset"
    /\ last_insert_page' = 0
    /\ Return(t)
    /\ UNCHANGED <<pages, total_pages, rows, owed, misled, defect, used>>

--------------------------------------------------------------------------------
Starts(t) == StartInsert(t) \/ StartScan(t) \/ StartVacuum(t)

InsertStep(t) ==
    \/ Load(t) \/ GetPage(t) \/ CheckNew(t) \/ CheckFree(t) \/ InitPage(t)
    \/ TryInsert(t) \/ Advance(t)
ScanStep(t) == CountPages(t) \/ ReadCount(t) \/ ReadRecord(t)
VacuumStep(t) == VacuumPage(t) \/ WriteHeader(t) \/ VacuumEnds(t)

Next ==
    \/ \E t \in Threads : Starts(t) \/ InsertStep(t) \/ ScanStep(t) \/ VacuumStep(t)
    \/ \E r \in DOMAIN rows : DeleteRecordPhysically(r)

\* A thread that is inserting, or opening a page, keeps running, and so does one
\* that holds an edit_mutex.  Nothing has to begin, and INSERT needs no more of
\* the scans and VACUUMs next to it.
Spec ==
    /\ Init /\ [][Next]_vars
    /\ \A t \in Threads : WF_vars(InsertStep(t)) /\ WF_vars(WriteHeader(t))

--------------------------------------------------------------------------------
(****************************************************************************)
(* Properties.                                                              *)
(****************************************************************************)

\* Every row that insert_record reported, and that nobody deleted, is read back
\* whole under the same RID, whatever was inserted next to it and however often
\* VACUUM moved it: no record overlaps another, the directory or the header.
RowsReadBack ==
    \A r \in DOMAIN rows :
        /\ r[2] \in Slots(pages[r[1]])
        /\ GetRecord(pages[r[1]], r[2]) = Encoded(rows[r])

\* RowsReadBack holds as long as no page was damaged: a row is lost only by an
\* initialization that arrives late, or after VACUUM of an empty page.
RowsIntact == defect = "none" => RowsReadBack

\* A scan meets no record that nobody inserted: an entry of the directory with
\* an offset belongs to a row, unless a page was damaged.
NoPhantomRow ==
    defect = "none" =>
        \A p \in Pages : \A d \in Slots(pages[p]) :
            GetDir(pages[p], d) > 0 => <<p, d>> \in DOMAIN rows

\* The space that a page calls free lies between its directory and every record,
\* unless a page was damaged.
FreeSpaceIsFree ==
    defect = "none" =>
        \A p \in Pages : LET end == DirOffset(GetDirCount(pages[p])) + GetFreeSpace(pages[p])
                         IN  /\ end <= SIZE
                             /\ \A r \in DOMAIN rows : r[1] = p => end <= GetDir(pages[p], r[2])

\* VACUUM of a page leaves no dead byte: header, directory, free space and the
\* rows fill the page, and the directory ends with a row or is one entry long.
VacuumReclaims ==
    [][\A t \in Threads : VacuumPage(t) /\ defect = "none" =>
        LET p == current_page[t]
            pg == pages'[p]
            live == {r \in DOMAIN rows : r[1] = p}
            cells == UNION {{r} \X (1..RecordSize(rows[r].length)) : r \in live}
        IN  /\ SIZE = DirOffset(GetDirCount(pg)) + GetFreeSpace(pg) + Cardinality(cells)
            /\ GetDirCount(pg) > 1 => <<p, GetDirCount(pg) - 1>> \in live]_vars

\* A scan meets every row that was there when it began and that nobody deletes
\* meanwhile, also while VACUUM moves rows and inserters extend the file.  It
\* misses only rows of a page whose directory count it read between VACUUM's copy
\* of the page and VACUUM's write of the header, or of a damaged file.
ScanMeetsEveryRow ==
    defect = "none" =>
        \A t \in Threads : pc[t] = "idle" => \A r \in owed[t] : r[1] \in misled[t]

\* insert_record's loop ends: a stale compare_exchange or a VACUUM that sends
\* everyone back to page 0 delays an INSERT, and does not keep it for ever.
InsertReturns == \A t \in Threads : pc[t] = "load" ~> (pc[t] = "idle" \/ defect # "none")
================================================================================
