-------------------------------- MODULE Pins --------------------------------
(***************************************************************************)
(* batt::Pinnable, Pin and PinnablePtr (async/pin.hpp).  One object, the   *)
(* task that owns and at last destroys it, and Pin variables, each used by *)
(* one task.  A task gets its first pin from the owner, which makes it     *)
(* while the object is alive, or copies another task's pin while that task *)
(* keeps it.                                                               *)
(***************************************************************************)
EXTENDS Integers, FiniteSets

CONSTANT Pinners     \* the tasks, with one Pin variable each

VARIABLES
  pinCount,   \* pin_count_
  pinPtr,     \* ptr_ of each Pin: TRUE when it points to the object
  pinDoing,   \* the operation each task is in: "none" or what is left of it
  pinOwner    \* where the owner is: "using", "waiting", "checking", "gone"

pinVars == <<pinCount, pinPtr, pinDoing, pinOwner>>

\* The self-pin.
PinInitialCount_Zero == 0
PinInitialCount == 1

PinInit ==
  /\ pinCount = PinInitialCount
  /\ pinPtr = [p \in Pinners |-> FALSE]
  /\ pinDoing = [p \in Pinners |-> "none"]
  /\ pinOwner = "using"

PinIdle(p) == pinDoing[p] = "none"

-----------------------------------------------------------------------------
\* make_pin(object) by the owner, moved to the task p.  The old pin of p is
\* the temporary that operator= swaps out and releases.
PinMake(p) ==
  /\ pinOwner = "using" /\ PinIdle(p)
  /\ pinCount' = pinCount + 1
  /\ pinPtr' = [pinPtr EXCEPT ![p] = TRUE]
  /\ pinDoing' = [pinDoing EXCEPT ![p] = IF pinPtr[p] THEN "unpin" ELSE "none"]
  /\ UNCHANGED pinOwner

\* operator=(const Pin&): the temporary pins the object of q again (q may be
\* p itself), is swapped in, and releases what p pointed to.
PinnedAgain_NoPin(q) == pinCount
PinnedAgain(q) == IF pinPtr[q] THEN pinCount + 1 ELSE pinCount

PinCopy(p, q) ==
  /\ PinIdle(p) /\ PinIdle(q)
  /\ pinCount' = PinnedAgain(q)
  /\ pinPtr' = [pinPtr EXCEPT ![p] = pinPtr[q]]
  /\ pinDoing' = [pinDoing EXCEPT ![p] = IF pinPtr[p] THEN "unpin" ELSE "none"]
  /\ UNCHANGED pinOwner

\* operator=(Pin&&): q hands its pointer to p and is left null.
PinMove(p, q) ==
  /\ PinIdle(p)
  /\ PinIdle(q)
  /\ p # q
  /\ pinPtr' = [pinPtr EXCEPT ![p] = pinPtr[q], ![q] = FALSE]
  /\ pinDoing' = [pinDoing EXCEPT ![p] = IF pinPtr[p] THEN "unpin" ELSE "none"]
  /\ UNCHANGED <<pinCount, pinOwner>>

PinSwap(p, q) ==
  /\ PinIdle(p)
  /\ PinIdle(q)
  /\ pinPtr' = [pinPtr EXCEPT ![p] = pinPtr[q], ![q] = pinPtr[p]]
  /\ UNCHANGED <<pinCount, pinDoing, pinOwner>>

\* release() and the destructor: unpin, then forget the pointer.
PinRelease(p) ==
  /\ PinIdle(p)
  /\ pinPtr[p]
  /\ pinCount' = pinCount - 1
  /\ pinDoing' = [pinDoing EXCEPT ![p] = "forget"]
  /\ UNCHANGED <<pinPtr, pinOwner>>

PinForget(p) ==
  /\ pinDoing[p] = "forget"
  /\ pinPtr' = [pinPtr EXCEPT ![p] = FALSE]
  /\ pinDoing' = [pinDoing EXCEPT ![p] = "none"]
  /\ UNCHANGED <<pinCount, pinOwner>>

\* The end of an assignment: the temporary's destructor.
PinUnpin(p) ==
  /\ pinDoing[p] = "unpin"
  /\ pinCount' = pinCount - 1
  /\ pinDoing' = [pinDoing EXCEPT ![p] = "none"]
  /\ UNCHANGED <<pinPtr, pinOwner>>

-----------------------------------------------------------------------------
(* ~Pinnable: release the self-pin, yield while there are pins, and check  *)
(* that none came back.                                                    *)

PinDestroy ==
  /\ pinOwner = "using"
  /\ pinCount' = pinCount - 1
  /\ pinOwner' = "waiting"
  /\ UNCHANGED <<pinPtr, pinDoing>>

PinWaited ==
  /\ pinOwner = "waiting"
  /\ pinCount <= 0
  /\ pinOwner' = "checking"
  /\ UNCHANGED <<pinCount, pinPtr, pinDoing>>

PinGone ==
  /\ pinOwner = "checking"
  /\ pinOwner' = IF pinCount = 0 THEN "gone" ELSE "panic"
  /\ UNCHANGED <<pinCount, pinPtr, pinDoing>>

PinTask(p) ==
  \/ PinMake(p) \/ PinRelease(p) \/ PinForget(p) \/ PinUnpin(p)
  \/ \E q \in Pinners : PinCopy(p, q) \/ PinMove(p, q) \/ PinSwap(p, q)

PinStep == (\E p \in Pinners : PinTask(p)) \/ PinDestroy \/ PinWaited \/ PinGone

PinSpec == PinInit /\ [][PinStep]_pinVars

\* The owner's loop runs on, and so does a release() that has begun; nobody has
\* to release a pin.
PinOwnerStep == PinWaited \/ PinGone
PinReleasing(p) == PinForget(p) \/ PinUnpin(p)
PinFairness == WF_pinVars(PinOwnerStep) /\ \A p \in Pinners : WF_pinVars(PinReleasing(p))

-----------------------------------------------------------------------------
\* The pointers that hold a pin: those of tasks in the middle of release()
\* have given theirs up.
PinHeld == {p \in Pinners : pinPtr[p] /\ pinDoing[p] # "forget"}
PinOwed == {p \in Pinners : pinDoing[p] = "unpin"}

\* What the variables hold.
PinType ==
  /\ pinCount \in Int
  /\ pinPtr \in [Pinners -> BOOLEAN]
  /\ pinDoing \in [Pinners -> {"none", "unpin", "forget"}]
  /\ pinOwner \in {"using", "waiting", "checking", "gone", "panic"}

\* The destructor does not get past its wait while a task can still reach
\* the object or has still to unpin it, its final check cannot fail, and the
\* count that it waits for is the number of pins.  It is inductive.
PinProtects ==
  /\ PinType
  /\ pinOwner # "panic"
  /\ pinOwner \in {"checking", "gone"} => PinHeld \cup PinOwed = {}
  /\ pinCount = Cardinality(PinHeld) + Cardinality(PinOwed)
                  + (IF pinOwner = "using" THEN 1 ELSE 0)

\* ~Pinnable returns once nobody holds a pin any more.
PinAwaited == pinOwner = "waiting" /\ PinHeld = {}
PinDestroyed == pinOwner = "gone"
DestructorReturns == PinAwaited ~> PinDestroyed
=============================================================================
