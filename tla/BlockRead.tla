----------------------------- MODULE BlockRead -----------------------------
(***************************************************************************)
(* Reading the blocks of a box, a column or a cell from one published cut: *)
(* into segments of its own, one per section, or into buffers of the       *)
(* caller's, with one entry per run of cells of one section.               *)
(*                                                                         *)
(* A published view is a record of its directory, its section revisions    *)
(* and its world revision; a storage is a function of CellOffset; a        *)
(* refusal is the record Refused.                                          *)
(***************************************************************************)
EXTENDS SectionKeys

CONSTANTS
    MaxCells,   \* MAX_CELLS_PER_READ_REQUEST
    Absent      \* no block, no storage, no section

VARIABLE question   \* what is asked of a view, by its field `query`

NoQuestion == [query |-> "none"]

Refused == [ok |-> FALSE]

(* The presences that come with a storage.                                 *)
Stored == {"Ready", "Unchanged"}

----------------------------------------------------------------------------
(* The read world.                                                         *)

(* A view's directory: sections to [presence, storage].  A Ready section   *)
(* may have been published without a storage, an Unchanged one has none of *)
(* its own.                                                                *)
StorageIn(view, baseline, s) ==
    IF view.directory[s].presence = "Unchanged" THEN baseline[s]
    ELSE view.directory[s].storage

(* from_published_view_with_baseline.                                      *)
HasStorage(view, baseline) ==
    \A s \in DOMAIN view.directory :
        view.directory[s].presence \in Stored => StorageIn(view, baseline, s) # Absent

RevisionIn(view, s) ==
    IF s \in DOMAIN view.revisions THEN view.revisions[s] ELSE view.worldRevision

ReadWorld(view, baseline) ==
    [s \in DOMAIN view.directory |->
        [presence |-> view.directory[s].presence, revision |-> RevisionIn(view, s),
         storage |-> IF view.directory[s].presence \in Stored
                     THEN StorageIn(view, baseline, s) ELSE Absent]]

(* cell_at_section.                                                        *)
CellAt(world, c) ==
    LET s == SectionOf(c) IN
    IF s \notin DOMAIN world
    THEN [section |-> s, presence |-> "Unavailable", revision |-> 0, offset |-> OffsetOf(c),
          block |-> Absent]
    ELSE [section |-> s, presence |-> world[s].presence, revision |-> world[s].revision,
          offset |-> OffsetOf(c),
          block |-> IF world[s].storage = Absent THEN Absent
                    ELSE world[s].storage[OffsetOf(c)]]

----------------------------------------------------------------------------
(* The cells of a request.                                                 *)

Span(lo, hi, i) == hi[i] - lo[i] + 1
BoxCount(lo, hi) == Span(lo, hi, 1) * Span(lo, hi, 2) * Span(lo, hi, 3)

(* box_cell_count and admit_budget; ColumnYRange::inclusive_len for a box  *)
(* of one x and one z, which read_cell reads one cell of.                  *)
Admissible(lo, hi) ==
    /\ \A i \in 1..3 : lo[i] <= hi[i]
    /\ IsWorldY(lo[2]) /\ IsWorldY(hi[2])
    /\ BoxCount(lo, hi) <= MaxCells

(* y outermost, x innermost.                                               *)
CellsIn(lo, hi) ==
    LET row == Span(lo, hi, 1)
        layer == row * Span(lo, hi, 3)
    IN  [i \in 1..BoxCount(lo, hi) |->
            <<lo[1] + ((i - 1) % row), lo[2] + ((i - 1) \div layer),
              lo[3] + (((i - 1) % layer) \div row)>>]

Observed(world, lo, hi) ==
    [i \in 1..BoxCount(lo, hi) |-> CellAt(world, CellsIn(lo, hi)[i])]

----------------------------------------------------------------------------
(* Owned reads.                                                            *)

NewSegment(o) ==
    [section |-> o.section, presence |-> o.presence, revision |-> o.revision,
     resolved |-> o.block # Absent, offsets |-> <<>>, blocks |-> <<>>]

(* SegmentBuilder::push.                                                   *)
Pushed(g, o) ==
    [g EXCEPT !.offsets = Append(@, o.offset),
              !.blocks = IF g.resolved /\ o.block # Absent THEN Append(@, o.block) ELSE @]

(* A cell goes to the segment of its section, a new one the first time.    *)
Collect(segments, o) ==
    LET at == SelectInSeq(segments, LAMBDA g : g.section = o.section) IN
    IF at = 0 THEN Append(segments, Pushed(NewSegment(o), o))
    ELSE [segments EXCEPT ![at] = Pushed(@, o)]

(* read_cells.                                                             *)
Segments(observed) ==
    LET after[n \in 0..Len(observed)] ==
          IF n = 0 THEN <<>> ELSE Collect(after[n - 1], observed[n])
    IN  after[Len(observed)]

(* read_box, read_column, read_cell.                                       *)
ReadBox(world, lo, hi) ==
    IF ~Admissible(lo, hi) THEN Refused
    ELSE [ok |-> TRUE, count |-> BoxCount(lo, hi),
          segments |-> Segments(Observed(world, lo, hi))]

(* RegionPinManager::validate_presence for every segment; `pinned` is the  *)
(* sections of the pins that are ready.                                    *)
GuardPasses(pinned, segments) ==
    \A i \in 1..Len(segments) :
        segments[i].section \in pinned => segments[i].presence = "Ready"

Guarded(pinned, r) == IF r.ok /\ GuardPasses(pinned, r.segments) THEN r ELSE Refused

ReadBoxGuarded(world, lo, hi, pinned) == Guarded(pinned, ReadBox(world, lo, hi))

----------------------------------------------------------------------------
(* Reads into the caller's buffers.                                        *)

RunKey(o) == <<o.section, o.presence, o.revision>>

(* One cell of preflight_cells, then all of them.                          *)
Counted(p, o) ==
    [runs |-> p.runs + IF p.last = <<RunKey(o)>> THEN 0 ELSE 1,
     last |-> <<RunKey(o)>>,
     resolved |-> p.resolved /\ o.block # Absent]

Preflight(observed) ==
    LET after[n \in 0..Len(observed)] ==
          IF n = 0 THEN [runs |-> 0, last |-> <<>>, resolved |-> TRUE]
          ELSE Counted(after[n - 1], observed[n])
    IN  after[Len(observed)]

(* Mutant: the section is not compared.                                    *)
SameRunByRevision(run, o) == run.presence = o.presence /\ run.revision = o.revision

SameRun(run, o) == <<run.section, run.presence, run.revision>> = RunKey(o)

(* One cell of visit_cells_after_preflight: it prolongs the current run,   *)
(* or the run is given out and another one begins.                         *)
Visit(v, o) ==
    LET at == Len(v.blocks) IN
    [blocks |-> Append(v.blocks, o.block),
     done |-> IF v.current = <<>> \/ SameRun(v.current[1], o) THEN v.done
              ELSE v.done \o v.current,
     current |-> IF v.current # <<>> /\ SameRun(v.current[1], o)
                 THEN <<[v.current[1] EXCEPT !.cells = @ + 1]>>
                 ELSE <<[section |-> o.section, presence |-> o.presence,
                         revision |-> o.revision, first |-> at, cells |-> 1]>>]

Visited(observed) ==
    LET after[n \in 0..Len(observed)] ==
          IF n = 0 THEN [blocks |-> <<>>, done |-> <<>>, current |-> <<>>]
          ELSE Visit(after[n - 1], observed[n])
        v == after[Len(observed)]
    IN  [blocks |-> v.blocks, runs |-> v.done \o v.current]

(* Runs are written to the front of the buffer.                            *)
Overlaid(buffer, runs) ==
    [i \in 1..Len(buffer) |-> IF i <= Len(runs) THEN runs[i] ELSE buffer[i]]

(* read_cells_into_buffers, after the guarded variants' own read.  Nothing *)
(* is written unless everything fits; the block buffer must be exact.      *)
ReadInto(world, lo, hi, pinned, blocks, runs) ==
    LET refusal == [result |-> Refused, blocks |-> blocks, runs |-> runs] IN
    IF ~ReadBoxGuarded(world, lo, hi, pinned).ok THEN refusal
    ELSE LET observed == Observed(world, lo, hi)
             p == Preflight(observed)
             v == Visited(observed)
         IN  IF Len(blocks) # BoxCount(lo, hi) \/ Len(runs) < p.runs THEN refusal
             ELSE [result |-> [ok |-> TRUE, count |-> BoxCount(lo, hi), runs |-> p.runs,
                               resolved |-> p.resolved],
                   blocks |-> v.blocks, runs |-> Overlaid(runs, v.runs)]

(* visit_box and visit_column with a guard: the cells and runs are handed  *)
(* to the caller one by one, with no buffer to be too small for them.      *)
VisitBox(world, lo, hi, pinned) ==
    IF ~ReadBoxGuarded(world, lo, hi, pinned).ok THEN Refused
    ELSE [ok |-> TRUE, given |-> Visited(Observed(world, lo, hi)),
          told |-> Preflight(Observed(world, lo, hi)).runs]

----------------------------------------------------------------------------
(* Property.                                                               *)

CellsOf(lo, hi) == (lo[1]..hi[1]) \X (lo[2]..hi[2]) \X (lo[3]..hi[3])

(* A position in a run, and in the blocks of a run's section.              *)
RunCovers(run, i) == i \in run.first + 1 .. run.first + run.cells

RegionAgrees(q, sections) ==
    \A n \in 0..4 :
        /\ RegionAdmitted(q.lo, q.hi, n) =
              (IsWorldY(q.lo[2]) /\ IsWorldY(q.hi[2]) /\ Cardinality(sections) \in 1..n)
        /\ RegionAdmitted(q.lo, q.hi, n) => RegionSections(q.lo, q.hi) = sections

CellsAgree(world, cells, blocks, runs) ==
    \A i \in 1..Len(cells) :
        LET o == CellAt(world, cells[i]) IN
        /\ blocks[i] = o.block
        /\ Cardinality({k \in 1..Len(runs) : RunCovers(runs[k], i)}) = 1
        /\ \E k \in 1..Len(runs) : RunCovers(runs[k], i) /\ SameRun(runs[k], o)
                                   /\ runs[k].section = SectionOf(cells[i])

(* The cell at i is the so-many-th of its section.                         *)
Rank(cells, i) == Cardinality({j \in 1..i : SectionOf(cells[j]) = SectionOf(cells[i])})

SegmentsAgree(segments, cells, blocks, runs) ==
    /\ Cardinality({g.section : g \in ToSet(segments)}) = Len(segments)
    /\ {g.section : g \in ToSet(segments)} = {SectionOf(c) : c \in ToSet(cells)}
    /\ \A g \in ToSet(segments) :
          LET own == {i \in 1..Len(cells) : SectionOf(cells[i]) = g.section} IN
          /\ \A r \in ToSet(runs) : r.section = g.section => SameRun(r, g)
          /\ Len(g.offsets) = Cardinality(own)
          /\ Len(g.blocks) = IF g.resolved THEN Cardinality(own) ELSE 0
          /\ \A i \in own :
                /\ g.offsets[Rank(cells, i)] = OffsetOf(cells[i])
                /\ blocks[i] = IF g.resolved THEN g.blocks[Rank(cells, i)] ELSE Absent

(* The answers of the three ways; `used` are the runs that were written.   *)
AnswersRead(q, world, owned, visit, into, used) ==
    /\ ~into.result.ok => into.blocks = q.blocks /\ into.runs = q.runs
    /\ owned.ok /\ ~into.result.ok =>
          \/ Len(q.blocks) # Cardinality(CellsOf(q.lo, q.hi))
          \/ Len(q.runs) < Len(visit.given.runs)
    /\ visit.ok = owned.ok
    /\ visit.ok => visit.told = Len(visit.given.runs)
    /\ into.result.ok =>
          /\ owned.ok /\ owned.count = into.result.count
          /\ visit.given = [blocks |-> into.blocks, runs |-> used]
          /\ LET cells == CellsIn(q.lo, q.hi) IN
             /\ ToSet(cells) = CellsOf(q.lo, q.hi) /\ Len(cells) = Cardinality(ToSet(cells))
             /\ CellsAgree(world, cells, into.blocks, used)
             /\ SegmentsAgree(owned.segments, cells, into.blocks, used)
          /\ \A k \in 1..Len(used) - 1 : RunKey(used[k]) # RunKey(used[k + 1])
          /\ \A k \in 1..Len(q.runs) : k > Len(used) => into.runs[k] = q.runs[k]
          /\ into.result.resolved = \A g \in ToSet(owned.segments) : g.resolved

(* A box asked for in any way gives the same answer.  Every cell of it is  *)
(* read exactly once; the runs are maximal and cover the block buffer from *)
(* end to end, as many as the preflight counted; there is one owned        *)
(* segment per section, with its cells in the order they were read; both   *)
(* say of every cell what the cut says of its section.  A read that is     *)
(* refused, by its own limits, a buffer or a pin, leaves both buffers as   *)
(* they were, and a pin refuses it just when a pinned section is not Ready.*)
(* A pin on a region is one on the sections that a read of it touches.     *)
ReadAgrees(q) ==
    LET world == ReadWorld(q.view, q.baseline)
        owned == ReadBoxGuarded(world, q.lo, q.hi, q.pinned)
        into == ReadInto(world, q.lo, q.hi, q.pinned, q.blocks, q.runs)
        sections == {SectionOf(c) : c \in CellsOf(q.lo, q.hi)}
    IN  /\ RegionAgrees(q, sections)
        /\ owned.ok =
              /\ Admissible(q.lo, q.hi)
              /\ \A s \in sections \cap q.pinned :
                    s \in DOMAIN q.view.directory /\ q.view.directory[s].presence = "Ready"
        /\ AnswersRead(q, world, owned, VisitBox(world, q.lo, q.hi, q.pinned), into,
                       SubSeq(into.runs, 1, into.result.runs))

----------------------------------------------------------------------------
(* Asking.                                                                 *)

IsSeq(s) == Len(s) \in Nat /\ s = [i \in 1..Len(s) |-> s[i]]

(* A storage has a block for every offset.                                 *)
IsStorage(storage) ==
    storage # Absent => \A o \in CellOffset : storage[o] # Absent

IsRead(q) ==
    /\ q.query = "read"
    /\ q.lo \in Int \X Int \X Int /\ q.hi \in Int \X Int \X Int
    /\ IsSeq(q.blocks) /\ IsSeq(q.runs)
    /\ \A s \in DOMAIN q.view.directory :
          q.view.directory[s].presence \in Stored => IsStorage(StorageIn(q.view, q.baseline, s))

ReadSpec == question = NoQuestion /\ [][question = NoQuestion /\ IsRead(question')]_question

(* ReadAgrees of every read.                                               *)
ReadsAgree == question.query = "read" => ReadAgrees(question)
=============================================================================
