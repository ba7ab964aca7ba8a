------------------------------ MODULE Binding ------------------------------
(***************************************************************************)
(* The sparse binding of a section's cells to entities: transactions that  *)
(* stage blocks, references and entities against a cut they were begun     *)
(* from, and the publication that lets one of them replace the cut.        *)
(*                                                                         *)
(* A section is a function of its cells, a reference table and an entity   *)
(* registry are functions with None where they have no entry.  Which of    *)
(* the refusals a caller is told is left out.                              *)
(***************************************************************************)
EXTENDS Naturals, FiniteSets

CONSTANTS
    Cell, Block, EntityId, EntityType,
    TypeFor,     \* BlockEntityTypePolicy: Block -> EntityType or None
    Holder,      \* callers with a transaction each
    CommitId,    \* ids they stage single halves under; place and remove
                 \* begin with 0
    MaxStaged,   \* bound: calls of a holder's transaction
    Offered,     \* bound: records each holder stages
    None, Gone

Record == [type : EntityType, alive : BOOLEAN]
ReferenceTable == [Cell -> EntityId \cup {None}]
BindingState ==
    [section : [Cell -> Block], references : ReferenceTable,
     entities : [EntityId -> Record \cup {None}]]

(* None and Gone stand for no value at all, so they are none of the values; *)
(* what is offered is a record the code can hold.                          *)
ASSUME BindingAssumption ==
    /\ IsFiniteSet(Cell)
    /\ TypeFor \in [Block -> EntityType \cup {None}]
    /\ None # Gone
    /\ {None, Gone} \cap (Block \cup EntityId \cup Record \cup CommitId \cup {0}) = {}
    /\ \A h \in Holder : Offered[h] \subseteq Record

(* Half a transaction's stage is None where it changes nothing and Gone    *)
(* where it removes.  `used` and `calls` are history: the ids it was       *)
(* staged under, and how many calls staged it.                             *)
Transaction ==
    [base : BindingState, blocks : [Cell -> Block \cup {None}],
     references : [Cell -> EntityId \cup {None, Gone}],
     entities : [EntityId -> Record \cup {None, Gone}],
     commit : CommitId \cup {0, None}, split : BOOLEAN,
     used : SUBSET (CommitId \cup {0}), calls : Nat]

VARIABLES
    binding,    \* BindingPublication.current
    staging     \* Holder -> its transaction

bindingVars == <<binding, staging>>

NeedsEntity(b) == TypeFor[b] # None

(* Mutant: entities nobody refers to are kept.                             *)
ReferredAtMostOnce(s, e) ==
    Cardinality({c \in Cell : s.references[c] = e}) <= 1

ReferredOnce(s, e) == Cardinality({c \in Cell : s.references[c] = e}) = 1

(* BindingState::validate, its three loops.                                *)
Valid(s) ==
    /\ \A c \in {d \in Cell : s.references[d] # None} :
          LET e == s.entities[s.references[c]] IN
          /\ NeedsEntity(s.section[c])
          /\ e # None /\ e.alive /\ e.type = TypeFor[s.section[c]]
    /\ \A c \in Cell : NeedsEntity(s.section[c]) <=> s.references[c] # None
    /\ \A e \in {f \in EntityId : s.entities[f] # None} : ReferredOnce(s, e)

BindingInit ==
    /\ \E b \in {x \in Block : ~NeedsEntity(x)} :
          binding = [section |-> [c \in Cell |-> b], references |-> [c \in Cell |-> None],
                     entities |-> [e \in EntityId |-> None]]
    /\ staging = [h \in Holder |-> None]

----------------------------------------------------------------------------
(* Staging.                                                                *)

Fresh(s) ==
    [base |-> s, blocks |-> [c \in Cell |-> None], references |-> [c \in Cell |-> None],
     entities |-> [e \in EntityId |-> None], commit |-> None, split |-> FALSE,
     used |-> {}, calls |-> 0]

(* observe_commit: the first id stays, another one splits for good.        *)
Observe(t, id) ==
    [t EXCEPT !.commit = IF @ = None THEN id ELSE @,
              !.split = @ \/ t.commit \notin {None, id},
              !.used = @ \cup {id}, !.calls = @ + 1]

(* The id place and remove stage under.                                    *)
OwnId(t) == IF t.commit = None THEN 0 ELSE t.commit

(* The entity at a cell as place and remove see it: a staged one, or else  *)
(* the base's, also where the base's was staged to be removed.             *)
EntityAt(t, c) ==
    IF t.references[c] \in EntityId THEN t.references[c] ELSE t.base.references[c]

WithoutEntity(t, e) == IF e = None THEN t ELSE [t EXCEPT !.entities[e] = Gone]

Placed(t, c, b, e, r) ==
    LET staged == [t EXCEPT !.blocks[c] = b, !.references[c] = e, !.entities[e] = r]
    IN  IF EntityAt(t, c) = e THEN staged ELSE WithoutEntity(staged, EntityAt(t, c))

Removed(t, c, b) ==
    WithoutEntity([t EXCEPT !.blocks[c] = b, !.references[c] = Gone], EntityAt(t, c))

Stage(h, id, t) ==
    /\ staging' = [staging EXCEPT ![h] = Observe(t, id)]
    /\ UNCHANGED binding

CanStage(h) == staging[h] # None /\ staging[h].calls < MaxStaged[h]

Begin(h) ==
    /\ staging[h] = None
    /\ staging' = [staging EXCEPT ![h] = Fresh(binding)]
    /\ UNCHANGED binding

Place(h, c, b, e, r) ==
    /\ CanStage(h)
    /\ Stage(h, OwnId(staging[h]), Placed(staging[h], c, b, e, r))

RemoveCell(h, c, b) ==
    /\ CanStage(h)
    /\ Stage(h, OwnId(staging[h]), Removed(staging[h], c, b))

(* The three halves staged by themselves, under an id of the caller's.     *)
StageBlock(h, id, c, b) ==
    /\ CanStage(h) /\ Stage(h, id, [staging[h] EXCEPT !.blocks[c] = b])

StageReference(h, id, c, e) ==
    /\ CanStage(h) /\ Stage(h, id, [staging[h] EXCEPT !.references[c] = e])

StageEntity(h, id, e, r) ==
    /\ CanStage(h) /\ Stage(h, id, [staging[h] EXCEPT !.entities[e] = r])

----------------------------------------------------------------------------
(* Publication.                                                            *)

Over(old, change) == IF change = None THEN old ELSE IF change = Gone THEN None ELSE change

Applied(t) ==
    [section |-> [c \in Cell |-> Over(t.base.section[c], t.blocks[c])],
     references |-> [c \in Cell |-> Over(t.base.references[c], t.references[c])],
     entities |-> [e \in EntityId |-> Over(t.base.entities[e], t.entities[e])]]

(* Mutant: the base is not compared again under the write lock.            *)
OnAnyBase(t) == TRUE

(* The base is compared by its value.                                      *)
OnCurrentBase(t) == t.base = binding

Publishable(t) == OnCurrentBase(t) /\ ~t.split /\ Valid(Applied(t))

Publish(h) ==
    /\ staging[h] # None /\ Publishable(staging[h])
    /\ binding' = Applied(staging[h])
    /\ staging' = [staging EXCEPT ![h] = None]

(* A refused publication consumes the transaction as well, and so does a   *)
(* rollback.                                                               *)
Discard(h) ==
    /\ staging[h] # None
    /\ staging' = [staging EXCEPT ![h] = None]
    /\ UNCHANGED binding

BindingNext ==
    \E h \in Holder :
        \/ Begin(h) \/ Publish(h) \/ Discard(h)
        \/ \E c \in Cell, b \in Block, e \in EntityId, r \in Offered[h] : Place(h, c, b, e, r)
        \/ \E c \in Cell, b \in Block : RemoveCell(h, c, b)
        \/ \E id \in CommitId :
              \/ \E c \in Cell, b \in Block : StageBlock(h, id, c, b)
              \/ \E c \in Cell, e \in EntityId \cup {Gone} : StageReference(h, id, c, e)
              \/ \E e \in EntityId, r \in Offered[h] \cup {Gone} : StageEntity(h, id, e, r)

BindingSpec == BindingInit /\ [][BindingNext]_bindingVars

----------------------------------------------------------------------------
(* Properties.                                                             *)

(* Whatever is staged by whom, in the published cut the cells that need an *)
(* entity and the entities there are correspond one to one, each entity is *)
(* alive and of the type its cell's block asks for.                        *)
PairedOneToOne ==
    LET cells == {c \in Cell : NeedsEntity(binding.section[c])}
        live == {e \in EntityId : binding.entities[e] # None}
        at == binding.references
    IN  /\ {c \in Cell : at[c] # None} = cells
        /\ {at[c] : c \in cells} = live
        /\ Cardinality(cells) = Cardinality(live)
        /\ \A c \in cells : binding.entities[at[c]]
                              = [type |-> TypeFor[binding.section[c]], alive |-> TRUE]

(* A publication changes only what its transaction staged, all under one   *)
(* commit id, and nothing another publication has done since it was begun. *)
OnlyStagedChanges ==
    [][binding' # binding =>
        \E h \in {x \in Holder : staging[x] # None /\ staging'[x] = None} :
            LET t == staging[h] IN
            /\ Cardinality(t.used) = 1
            /\ \A c \in Cell :
                  /\ binding'.section[c] # binding.section[c] => t.blocks[c] # None
                  /\ binding'.references[c] # binding.references[c] => t.references[c] # None
            /\ \A e \in EntityId :
                  binding'.entities[e] # binding.entities[e] => t.entities[e] # None
      ]_bindingVars
=============================================================================
