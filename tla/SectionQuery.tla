---------------------------- MODULE SectionQuery ----------------------------
(***************************************************************************)
(* Section queries: a request is planned against one published view and    *)
(* walked over the view it is executed on, which must be of the same cut.  *)
(* A query says of the sections asked for which presence they have, with   *)
(* no block of theirs.                                                     *)
(***************************************************************************)
EXTENDS BlockRead

(* RevisionStamp without its section revisions.                            *)
Stamp(view) ==
    [world |-> view.world, context |-> view.context, generation |-> view.generation,
     worldRevision |-> view.worldRevision]

(* validate_request.                                                       *)
Addressed(request, view) ==
    ~request.cancel /\ request.world = view.world /\ request.context = view.context

(* budget::exceeds.                                                        *)
Exceeds(n, limit) == limit = 0 \/ n > limit

(* canonicalize_sections: each section once, in the order of ids.          *)
Canonicalized(keys) ==
    LET ids == {IdOf(k) : k \in ToSet(keys)}
    IN  CHOOSE s \in [1..Cardinality(ids) -> ids] :
            \A i, j \in 1..Cardinality(ids) : i < j => IdBefore(s[i], s[j])

(* compute_plan_hash: what the hash is of.                                 *)
PlanHash(request, view, sections, limit) ==
    <<request.world, request.context, sections, Stamp(view), view.revisions, limit>>

(* QueryPlanner::plan.  The texts are counted as they come, also those     *)
(* given twice; `granted` says whether the configuration has capabilities. *)
Plan(request, view, limit, granted) ==
    IF \/ limit = 0 \/ ~granted \/ ~Addressed(request, view)
       \/ Exceeds(Len(request.keys), limit)
       \/ \E i \in 1..Len(request.keys) : ~IsSectionKey(request.keys[i])
    THEN Refused
    ELSE LET sections == Canonicalized(request.keys) IN
         [ok |-> TRUE, stamp |-> Stamp(view), budget |-> limit, sections |-> sections,
          hash |-> PlanHash(request, view, sections, limit)]

(* section_access::access; a Ready section has a payload in any view.      *)
Access(view, s) ==
    [section |-> s,
     presence |-> IF s \in DOMAIN view.directory THEN view.directory[s].presence
                  ELSE "Unchanged"]

(* Mutant: a plan is walked on any later cut of its world.                 *)
SameWorld(plan, view) == plan.stamp.world = view.world

(* bind_cut.                                                               *)
SameCut(plan, view) == plan.stamp = Stamp(view)

(* QueryExecutor::walk_with_presence_guard; walk has nothing pinned,       *)
(* execute nothing used.                                                   *)
Walk(plan, view, used, pinned) ==
    LET items == [i \in 1..Len(plan.sections) |-> Access(view, plan.sections[i])] IN
    IF \/ ~SameCut(plan, view)
       \/ Exceeds(used, plan.budget) \/ Exceeds(used + Len(items), plan.budget)
       \/ ~GuardPasses(pinned, items)
    THEN Refused
    ELSE [ok |-> TRUE, items |-> items, stamp |-> plan.stamp, used |-> used + Len(items),
          hash |-> plan.hash, missing |-> {i \in ToSet(items) : i.presence # "Ready"}]

----------------------------------------------------------------------------
(* Property.                                                               *)

(* A text is the key of at most one section or chunk, the one that prints  *)
(* as it, and a section is in the column of its chunk.                     *)
KeysAgree(texts) ==
    \A k \in texts :
        /\ ~(IsSectionKey(k) /\ IsChunkKey(k))
        /\ IsSectionKey(k) =>
              /\ KeyOf(IdOf(k)) = k
              /\ \E n \in 1 .. SectionYMax + 1 : SectionsOf(ChunkOf(IdOf(k)))[n] = IdOf(k)
        /\ IsChunkKey(k) =>
              /\ ChunkKeyOf(ChunkIdOf(k)) = k
              /\ \A s \in ToSet(SectionsOf(ChunkIdOf(k))) :
                    IsSectionKey(KeyOf(s)) /\ ChunkOf(s) = ChunkIdOf(k)

Asked(q) == {KeyOf(s) : s \in Coord \X (0..SectionYMax) \X Coord} \cap ToSet(q.request.keys)

(* An answer r of a query whose texts name the sections ids.               *)
AnswersQuery(q, plan, r, ids) ==
    LET world == ReadWorld(q.view, q.baseline)
        CellIn(s, off) == <<s[1] * Extent + (off % Extent),
                            s[2] * Extent + (off \div (Extent * Extent)),
                            s[3] * Extent + ((off \div Extent) % Extent)>>
    IN
    /\ {i.section : i \in ToSet(r.items)} = ids /\ Len(r.items) = Cardinality(ids)
    /\ \A i, j \in 1..Len(r.items) :
          i < j => IdBefore(r.items[i].section, r.items[j].section)
    /\ r.used = q.used + Cardinality(ids)
    /\ Plan([q.request EXCEPT !.keys = Reverse(@)], q.planned, q.limit, q.granted) = plan
    /\ \A i \in ToSet(r.items) :
          /\ i.presence # "Ready" <=> i \in r.missing
          /\ \A off \in CellOffset :
                LET o == CellAt(world, CellIn(i.section, off)) IN
                /\ o.section = i.section /\ o.offset = off
                /\ IF i.section \in DOMAIN q.view.directory
                   THEN o.presence = i.presence
                   ELSE o.presence = "Unavailable" /\ i.presence = "Unchanged"
                /\ o.block # Absent => i.presence \in Stored

(* A query is answered just when every text in it is the key of a section, *)
(* the texts fit the budget, what is left of it is enough for the sections *)
(* they name, the view is the cut it was planned on, and no section that a *)
(* ready pin covers is missing.  The answer has each of the sections once, *)
(* in the order of ids, charged once each and under the same hash in       *)
(* whichever order they were asked for, with the presence a block read of  *)
(* the same view reports for all of its cells, and as missing what is not  *)
(* Ready.  Where the directory has no slot the two differ: the query       *)
(* says Unchanged, the block read Unavailable.                             *)
QueryAgrees(q) ==
    LET plan == Plan(q.request, q.planned, q.limit, q.granted)
        r == IF plan.ok THEN Walk(plan, q.view, q.used, q.pinned) ELSE Refused
        ids == {s \in Coord \X (0..SectionYMax) \X Coord : KeyOf(s) \in Asked(q)}
    IN  /\ KeysAgree(ToSet(q.request.keys))
        /\ r.ok =
              /\ ToSet(q.request.keys) = Asked(q)
              /\ q.granted /\ q.limit >= 1 /\ Len(q.request.keys) <= q.limit
              /\ q.used + Cardinality(ids) <= q.limit
              /\ ~q.request.cancel
              /\ <<q.request.world, q.request.context>> = <<q.view.world, q.view.context>>
              /\ Stamp(q.planned) = Stamp(q.view)
              /\ \A s \in ids \cap q.pinned :
                    s \in DOMAIN q.view.directory /\ q.view.directory[s].presence = "Ready"
        /\ r.ok => AnswersQuery(q, plan, r, ids)

----------------------------------------------------------------------------
(* Asking.                                                                 *)

IsText(p) == p = Empty \/ p \in [minus : BOOLEAN, zeros : Nat, number : Nat, other : BOOLEAN]

IsQuery(q) ==
    /\ q.query = "query"
    /\ q.limit \in Nat /\ q.used \in Nat /\ q.granted \in BOOLEAN /\ q.request.cancel \in BOOLEAN
    /\ DOMAIN q.request = {"cancel", "context", "keys", "world"}
    /\ IsSeq(q.request.keys)
    /\ \A k \in ToSet(q.request.keys) :
          /\ k = [prefix |-> k.prefix, parts |-> k.parts]
          /\ IsSeq(k.parts) /\ \A i \in DOMAIN k.parts : IsText(k.parts[i])

QuerySpec == question = NoQuestion /\ [][question = NoQuestion /\ IsQuery(question')]_question

(* QueryAgrees of every query.                                             *)
QueriesAgree == question.query = "query" => QueryAgrees(question)
=============================================================================
