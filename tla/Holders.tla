------------------------------- MODULE Holders -------------------------------
(***************************************************************************)
(* The types that keep an object in storage of their own and say with a    *)
(* flag whether one is there: Optional (optional.hpp), StatusOr            *)
(* (status.hpp), SmallFn (small_fn.hpp) and TypeErasedStorage              *)
(* (type_erasure.hpp).  They are made, copied, moved, assigned and         *)
(* destroyed in any order, also from and to themselves.                    *)
(***************************************************************************)
EXTENDS Integers, FiniteSets

CONSTANTS
  Cells,             \* variables of the holder type
  Small, Big         \* objects; a Big one does not fit in a TypeErasedStorage

VARIABLES
  kind,              \* which type
  mem,               \* what is in the storage, the flag, heap objects, and whether something went wrong
  meant              \* what each variable stands for, as its user sees it

holderVars == <<kind, mem, meant>>

Kinds == {"Optional", "StatusOr", "SmallFn", "Storage"}
Objects == Small \cup Big

-----------------------------------------------------------------------------
\* Placement new, a destructor call, and the ways to use an object; each is
\* wrong on storage in the other state.
In(m, c) == m.cell[c].in
Valid(m, c) == m.cell[c].flag = "ok"
Flag(m, c, f) == [m EXCEPT !.cell[c].flag = f]
Wrong(m, is) == [m EXCEPT !.wrong = @ \/ is]
Construct(m, c, v) == Wrong([m EXCEPT !.cell[c].in = v], In(m, c) # "raw")
Destroy(m, c) == Wrong([m EXCEPT !.cell[c].in = "raw"], In(m, c) = "raw")
Assign(m, c, v) == Wrong([m EXCEPT !.cell[c].in = v], In(m, c) = "raw")
MoveOut(m, d) == Wrong([m EXCEPT !.cell[d].in = "moved"], In(m, d) = "raw")

-----------------------------------------------------------------------------
OptionalPut(m, c, v) == Flag(Construct(m, c, v), c, "ok")
OptionalReset(m, c) == IF Valid(m, c) THEN Destroy(Flag(m, c, "none"), c) ELSE m
OptionalEmplace(m, c, v) == OptionalPut(OptionalReset(m, c), c, v)
OptionalCopy(m, c, d) ==
  IF Valid(m, d) THEN OptionalPut(Wrong(m, In(m, d) = "raw"), c, In(m, d)) ELSE Flag(m, c, "none")
OptionalMove(m, c, d) ==
  IF Valid(m, d) THEN OptionalPut(MoveOut(m, d), c, In(m, d)) ELSE Flag(m, c, "none")
OptionalCopyAssign(m, c, d) == IF c = d THEN m ELSE OptionalCopy(OptionalReset(m, c), c, d)
OptionalMoveAssign(m, c, d) == IF c = d THEN m ELSE OptionalMove(OptionalReset(m, c), c, d)
OptionalDestroy(m, c) == IF Valid(m, c) THEN Destroy(m, c) ELSE m
OptionalEqual(m, c, d) ==
  \/ Valid(m, c) /\ Valid(m, d) /\ In(m, c) = In(m, d)
  \/ ~Valid(m, c) /\ ~Valid(m, d)

-----------------------------------------------------------------------------
StatusOrDestroy(m, c) == IF Valid(m, c) THEN Destroy(m, c) ELSE m
StatusOrPut(m, c, v) == Flag(Construct(m, c, v), c, "ok")
StatusOrAssign(m, c, v) == Construct(Flag(StatusOrDestroy(m, c), c, "ok"), c, v)
StatusOrAssignStatus(m, c) == Flag(StatusOrDestroy(m, c), c, "error")
StatusOrEmplace(m, c, v) == StatusOrPut(StatusOrDestroy(m, c), c, v)
StatusOrEmplaceFrom(m, c, d) ==
  LET n == IF Valid(m, c) THEN Flag(Destroy(m, c), c, "unknown") ELSE m IN
  Flag(IF Valid(n, d) THEN Construct(MoveOut(n, d), c, In(n, d)) ELSE n, c, n.cell[d].flag)
StatusOrCopy(m, c, d) ==
  LET n == Flag(m, c, m.cell[d].flag) IN
  IF Valid(m, d) THEN Construct(Wrong(n, In(m, d) = "raw"), c, In(m, d)) ELSE n
\* The constructor destroys what it has moved; the assignment does not.
StatusOrMove(m, c, d) ==
  IF Valid(m, d) THEN Flag(Destroy(StatusOrPut(MoveOut(m, d), c, In(m, d)), d), d, "unknown")
  ELSE Flag(m, c, m.cell[d].flag)
StatusOrReplace(m, c, d, from) ==
  Flag(IF Valid(m, c)
       THEN IF Valid(m, d) THEN Assign(from, c, In(m, d)) ELSE Destroy(m, c)
       ELSE IF Valid(m, d) THEN Construct(from, c, In(m, d)) ELSE m,
       c, m.cell[d].flag)
StatusOrCopyAssign(m, c, d) ==
  IF c = d THEN m ELSE StatusOrReplace(m, c, d, Wrong(m, In(m, d) = "raw"))
StatusOrMoveAssign(m, c, d) == IF c = d THEN m ELSE StatusOrReplace(m, c, d, MoveOut(m, d))
StatusOrEqual(m, c, d) ==
  \/ Valid(m, c) /\ Valid(m, d) /\ In(m, c) = In(m, d)
  \/ ~Valid(m, c) /\ ~Valid(m, d) /\ m.cell[c].flag = m.cell[d].flag

-----------------------------------------------------------------------------
SmallFnPut(m, c, v) == Flag(Construct(m, c, v), c, "ok")
SmallFnClear(m, c) == IF Valid(m, c) THEN Flag(Destroy(m, c), c, "none") ELSE m
SmallFnAssign(m, c, v) == SmallFnPut(SmallFnClear(m, c), c, v)
SmallFnCopy(m, c, d) ==
  IF Valid(m, d) THEN SmallFnPut(Wrong(m, In(m, d) = "raw"), c, In(m, d)) ELSE Flag(m, c, "none")
SmallFnMove(m, c, d) ==
  SmallFnClear(IF Valid(m, d) THEN SmallFnPut(MoveOut(m, d), c, In(m, d)) ELSE Flag(m, c, "none"), d)
SmallFnCopyAssign(m, c, d) == IF c = d THEN m ELSE SmallFnCopy(SmallFnClear(m, c), c, d)
SmallFnMoveAssign(m, c, d) == IF c = d THEN m ELSE SmallFnMove(SmallFnClear(m, c), c, d)

-----------------------------------------------------------------------------
\* A Big object goes to the heap, and a pointer to it in the storage; a move
\* moves the pointer and leaves a null one.
construct_impl(m, c, v) ==
  [Construct(m, c, v) EXCEPT !.heap = IF v \in Big THEN @ + 1 ELSE @]
StoragePut(m, c, v) == Flag(construct_impl(m, c, v), c, "ok")
StorageClear(m, c) ==
  IF Valid(m, c)
  THEN Flag([Destroy(m, c) EXCEPT !.heap = IF In(m, c) \in Big THEN @ - 1 ELSE @], c, "none")
  ELSE m
StorageEmplace(m, c, v) == StoragePut(StorageClear(m, c), c, v)
copy_to(m, c, d) == StoragePut(Wrong(m, In(m, d) = "raw"), c, In(m, d))
move_to_Shared(m, c, d) ==
  IF In(m, d) \in Big THEN Flag(Construct(m, c, In(m, d)), c, "ok")
  ELSE StoragePut(MoveOut(m, d), c, In(m, d))
move_to(m, c, d) ==
  IF In(m, d) \in Big THEN Flag(Construct([m EXCEPT !.cell[d].in = "null"], c, In(m, d)), c, "ok")
  ELSE StoragePut(MoveOut(m, d), c, In(m, d))
StorageMove(m, c, d) == StorageClear(move_to(m, c, d), d)
StorageCopyAssign(m, c, d) == IF c = d THEN m ELSE copy_to(StorageClear(m, c), c, d)
StorageMoveAssign(m, c, d) == IF c = d THEN m ELSE StorageMove(StorageClear(m, c), c, d)

-----------------------------------------------------------------------------
Alive(c) == mem.cell[c].flag # "dead"

\* The user of a TypeErasedStorage copies and moves only one that holds something.
Usable(d) == Alive(d) /\ (kind = "Storage" => Valid(mem, d))

Become(m, says) == mem' = m /\ meant' = says /\ UNCHANGED kind
Case(k, m, says) == kind = k /\ Become(m, says)

Empties == IF kind = "StatusOr" THEN {"unknown", "error"} ELSE {"none"}
FromNothing(c, f) == ~Alive(c) /\ Become(Flag(mem, c, f), [meant EXCEPT ![c] = f])
FromObject(c, v) ==
  LET says == [meant EXCEPT ![c] = v] IN
  /\ ~Alive(c)
  /\ \/ Case("Optional", OptionalPut(mem, c, v), says) \/ Case("StatusOr", StatusOrPut(mem, c, v), says)
     \/ Case("SmallFn", SmallFnPut(mem, c, v), says) \/ Case("Storage", StoragePut(mem, c, v), says)
CopyConstruct(c, d) ==
  LET says == [meant EXCEPT ![c] = meant[d]] IN
  /\ ~Alive(c) /\ Usable(d)
  /\ \/ Case("Optional", OptionalCopy(mem, c, d), says) \/ Case("StatusOr", StatusOrCopy(mem, c, d), says)
     \/ Case("SmallFn", SmallFnCopy(mem, c, d), says) \/ Case("Storage", copy_to(mem, c, d), says)
MoveConstruct(c, d) ==
  LET says == [meant EXCEPT ![c] = meant[d], ![d] = "any"] IN
  /\ ~Alive(c) /\ Usable(d)
  /\ \/ Case("Optional", OptionalMove(mem, c, d), says) \/ Case("StatusOr", StatusOrMove(mem, c, d), says)
     \/ Case("SmallFn", SmallFnMove(mem, c, d), says) \/ Case("Storage", StorageMove(mem, c, d), says)
CopyAssign(c, d) ==
  LET says == [meant EXCEPT ![c] = meant[d]] IN
  /\ Alive(c) /\ Usable(d)
  /\ \/ Case("Optional", OptionalCopyAssign(mem, c, d), says)
     \/ Case("StatusOr", StatusOrCopyAssign(mem, c, d), says)
     \/ Case("SmallFn", SmallFnCopyAssign(mem, c, d), says)
     \/ Case("Storage", StorageCopyAssign(mem, c, d), says)
MoveAssign(c, d) ==
  LET says == IF c = d THEN meant ELSE [meant EXCEPT ![c] = meant[d], ![d] = "any"] IN
  /\ Alive(c) /\ Usable(d)
  /\ \/ Case("Optional", OptionalMoveAssign(mem, c, d), says)
     \/ Case("StatusOr", StatusOrMoveAssign(mem, c, d), says)
     \/ Case("SmallFn", SmallFnMoveAssign(mem, c, d), says)
     \/ Case("Storage", StorageMoveAssign(mem, c, d), says)
\* A value assigned to an Optional is made into one first, which is then moved.
AssignObject(c, v) ==
  LET says == [meant EXCEPT ![c] = v] IN
  /\ Alive(c)
  /\ \/ Case("Optional", OptionalPut(OptionalReset(mem, c), c, v), says)
     \/ Case("StatusOr", StatusOrAssign(mem, c, v), says)
     \/ Case("SmallFn", SmallFnAssign(mem, c, v), says)
Emplace(c, v) ==
  LET says == [meant EXCEPT ![c] = v] IN
  /\ Alive(c)
  /\ \/ Case("Optional", OptionalEmplace(mem, c, v), says) \/ Case("StatusOr", StatusOrEmplace(mem, c, v), says)
     \/ Case("Storage", StorageEmplace(mem, c, v), says)
EmplaceFrom(c, d) ==
  /\ Alive(c) /\ Alive(d) /\ c # d
  /\ Case("StatusOr", StatusOrEmplaceFrom(mem, c, d), [meant EXCEPT ![c] = meant[d], ![d] = "any"])
Clear(c) ==
  LET says == [meant EXCEPT ![c] = IF kind = "StatusOr" THEN "error" ELSE "none"] IN
  /\ Alive(c)
  /\ \/ Case("Optional", OptionalReset(mem, c), says) \/ Case("StatusOr", StatusOrAssignStatus(mem, c), says)
     \/ Case("SmallFn", SmallFnClear(mem, c), says) \/ Case("Storage", StorageClear(mem, c), says)
Destruct(c) ==
  LET says == [meant EXCEPT ![c] = "dead"]
      after(m) == Flag(m, c, "dead") IN
  /\ Alive(c)
  /\ \/ Case("Optional", after(OptionalDestroy(mem, c)), says)
     \/ Case("StatusOr", after(StatusOrDestroy(mem, c)), says)
     \/ Case("SmallFn", after(SmallFnClear(mem, c)), says)
     \/ Case("Storage", after(StorageClear(mem, c)), says)

HoldersInit ==
  /\ kind \in Kinds
  /\ mem = [cell |-> [c \in Cells |-> [in |-> "raw", flag |-> "dead"]], heap |-> 0, wrong |-> FALSE]
  /\ meant = [c \in Cells |-> "dead"]
HoldersStep ==
  \/ \E c \in Cells : (\E f \in Empties : FromNothing(c, f)) \/ Clear(c) \/ Destruct(c)
  \/ \E c \in Cells, v \in Objects : FromObject(c, v) \/ AssignObject(c, v) \/ Emplace(c, v)
  \/ \E c, d \in Cells :
       \/ CopyConstruct(c, d) \/ MoveConstruct(c, d) \/ CopyAssign(c, d) \/ MoveAssign(c, d)
       \/ EmplaceFrom(c, d)

HoldersSpec == HoldersInit /\ [][HoldersStep]_holderVars

-----------------------------------------------------------------------------
Equal(c, d) == IF kind = "StatusOr" THEN StatusOrEqual(mem, c, d) ELSE OptionalEqual(mem, c, d)

\* Every object is made once and destroyed once, whatever is copied, moved and
\* assigned in whatever order: no object is built over another, none is used or
\* destroyed that is not there, none stays when its holder is gone, on the heap
\* neither; and what a variable holds, and whether two are equal, is what its
\* user put there last.
ObjectsKept ==
  /\ ~mem.wrong
  /\ \A c \in Cells :
       /\ Valid(mem, c) <=> In(mem, c) # "raw"
       /\ meant[c] # "any" =>
            IF meant[c] \in Objects THEN Valid(mem, c) /\ In(mem, c) = meant[c] ELSE mem.cell[c].flag = meant[c]
  /\ kind = "Storage" => mem.heap = Cardinality({c \in Cells : In(mem, c) \in Big})
  /\ \A c, d \in Cells :
       /\ kind \in {"Optional", "StatusOr"} /\ Alive(c) /\ Alive(d)
       /\ meant[c] # "any" /\ meant[d] # "any"
       => (Equal(c, d) <=> meant[c] = meant[d])
=============================================================================
