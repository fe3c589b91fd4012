----------------------------- MODULE MemoryPool -----------------------------
(***************************************************************************)
(* common/MemoryPool.h: a fixed store of blocks.  Allocate hands out the   *)
(* block at nextFreeIndex and then looks, block by block, for the next     *)
(* free one; the order books and the snapshot synthesizer allocate and     *)
(* deallocate from one thread.  The search has no exit for a full pool: it *)
(* is a step per block here, so that not returning can be seen.  (Names    *)
(* that any module has carry the pool's here: a module about one of its    *)
(* callers can extend both.)                                               *)
(***************************************************************************)
EXTENDS Naturals

CONSTANT N      \* the constructor's numElems

ASSUME SizeAssumption == N \in Nat \ {0}

VARIABLES
    isFree,         \* store[i].isFree
    nextFreeIndex,
    pc,             \* "idle", or "searching" inside Allocate
    initial,        \* initialFreeIndex of the search
    warned,         \* "Memory pool is full" was logged in this search
    held            \* the blocks the caller holds, also the one being returned

poolVars == <<isFree, nextFreeIndex, pc, initial, warned, held>>

Blocks == 0 .. N - 1

PoolInit == /\ isFree = [i \in Blocks |-> TRUE]
            /\ nextFreeIndex = 0
            /\ pc = "idle"
            /\ initial = 0
            /\ warned = FALSE
            /\ held = {}

\* CHECK(obj_block->isFree, nullptr, ...), then the block is handed out and the
\* search for the next one begins; a null return changes nothing.
Allocate ==
    /\ pc = "idle" /\ isFree[nextFreeIndex]
    /\ isFree' = [isFree EXCEPT ![nextFreeIndex] = FALSE]
    /\ held' = held \cup {nextFreeIndex}
    /\ pc' = "searching" /\ initial' = nextFreeIndex /\ warned' = FALSE
    /\ UNCHANGED nextFreeIndex

Advance(i) == IF i + 1 = N THEN 0 ELSE i + 1

\* (The ...Slip definitions are plausible mistakes: see "Mutants" in README.md.)
SearchSlip ==
    /\ pc = "searching" /\ ~isFree[nextFreeIndex]
    /\ nextFreeIndex' = Advance(nextFreeIndex)
    /\ warned' = (warned \/ nextFreeIndex' = initial)
    /\ pc' = IF warned' THEN "idle" ELSE "searching"
    /\ UNCHANGED <<isFree, initial, held>>

\* One round of the loop of UpdateNextFreeIndex: coming back to where it began
\* it warns, and goes on.
Search ==
    /\ pc = "searching" /\ ~isFree[nextFreeIndex]
    /\ nextFreeIndex' = Advance(nextFreeIndex)
    /\ warned' = (warned \/ nextFreeIndex' = initial)
    /\ UNCHANGED <<isFree, pc, initial, held>>

Found ==
    /\ pc = "searching" /\ isFree[nextFreeIndex]
    /\ pc' = "idle"
    /\ UNCHANGED <<isFree, nextFreeIndex, initial, warned, held>>

DeallocateSlip(i) ==
    /\ pc = "idle"
    /\ isFree' = [isFree EXCEPT ![Advance(i)] = TRUE]
    /\ held' = held \ {i}
    /\ UNCHANGED <<nextFreeIndex, pc, initial, warned>>

\* The caller returns a block it holds; nextFreeIndex stays where it is.
Deallocate(i) ==
    /\ pc = "idle"
    /\ isFree' = [isFree EXCEPT ![i] = TRUE]
    /\ held' = held \ {i}
    /\ UNCHANGED <<nextFreeIndex, pc, initial, warned>>

PoolNext == Allocate \/ Search \/ Found \/ \E i \in held : Deallocate(i)

PoolSpec == PoolInit /\ [][PoolNext]_poolVars

\* The search is a loop without waiting.
FairPoolSpec == PoolSpec /\ WF_poolVars(Search \/ Found)

-----------------------------------------------------------------------------
PoolTypeOK == /\ isFree \in [Blocks -> BOOLEAN]
              /\ nextFreeIndex \in Blocks
              /\ pc \in {"idle", "searching"}
              /\ initial \in Blocks
              /\ warned \in BOOLEAN
              /\ held \subseteq Blocks

\* Between calls the next block is always a free one that nobody holds: the CHECK of
\* Allocate never fails, and Allocate never returns null or a block in use.
NextIsFree == pc = "idle" => isFree[nextFreeIndex] /\ nextFreeIndex \notin held

\* The warning is given only when every block is in use.
WarnsOnlyWhenFull == pc = "searching" /\ warned => held = Blocks

\* Allocate returns whenever a block is left after it; taking the last one, it
\* never does.
ReturnsIfRoom == pc = "searching" /\ held # Blocks ~> pc = "idle"
LastBlockIsFatal == [][held = Blocks => pc' # "idle"]_poolVars
=============================================================================
