------------------------------ MODULE Handlers ------------------------------
(***************************************************************************)
(* Completion handlers (handler.hpp): HandlerImpl objects owned by a       *)
(* HandlerList or by UniqueHandlers, allocated from one HandlerMemory when *)
(* their function carries its allocator.  A handler that runs may make,    *)
(* move, call and destroy other handlers, to any depth.                    *)
(***************************************************************************)
EXTENDS Naturals, Sequences, FiniteSets

CONSTANTS
  Handlers,          \* the handlers the program makes, each at most once
  Uniques,           \* UniqueHandler objects
  NoHandler          \* nullptr

VARIABLES
  in_use,            \* HandlerMemory::in_use_
  memory,            \* where each handler was allocated: "", "storage", "heap"
  list,              \* a HandlerList
  unique,            \* UniqueHandler::handler_ of each
  calls,             \* the stack: a handler's function, or invoke_all_handlers
  ended              \* how often each was called and destroyed

handlerVars == <<in_use, memory, list, unique, calls, ended>>

-----------------------------------------------------------------------------
\* get_associated_allocator: of a CustomAllocHandler, the HandlerMemory, also
\* through a HandlerBinder; else the default allocator.
Allocators == {"memory", "default"}
\* sizeof(T) * n, against sizeof(storage_)
Sizes == {"less", "more"}

allocate(a, size) == IF a = "memory" /\ ~in_use /\ size = "less" THEN "storage" ELSE "heap"

\* Code outside any handler, or a handler's own code, is running.
UserCode == IF calls = <<>> THEN TRUE ELSE Head(calls) # "invoke_all_handlers"

\* HandlerImpl::make_new; the memory in use afterwards.
make_new(h, a, size) ==
  /\ memory[h] = ""
  /\ memory' = [memory EXCEPT ![h] = allocate(a, size)]
Allocated(h) == in_use \/ memory'[h] = "storage"

\* HandlerImpl::consume_impl: the function is moved out, the object destroyed
\* and its memory given back; only then is the function called, or dropped.
Deallocated(h, used) == IF memory[h] = "storage" THEN FALSE ELSE used

\* Mutant: the memory is given back after the function was called.
consume_impl_Late(h, how) ==
  /\ ended' = [ended EXCEPT ![h] = Append(@, how)]
  /\ calls' = IF how = "called" THEN <<h>> \o calls ELSE calls
  /\ in_use' = IF how = "called" THEN in_use ELSE Deallocated(h, in_use)
consume_impl(h, how) ==
  /\ ended' = [ended EXCEPT ![h] = Append(@, how)]
  /\ calls' = IF how = "called" THEN <<h>> \o calls ELSE calls
  /\ in_use' = Deallocated(h, in_use)

-----------------------------------------------------------------------------
push_handler(h, a, size) ==
  /\ UserCode
  /\ make_new(h, a, size)
  /\ in_use' = Allocated(h)
  /\ list' = Append(list, h)
  /\ UNCHANGED <<unique, calls, ended>>

\* A new UniqueHandler is assigned to u: it is made before the handler u had
\* is destroyed.
Assign(u, h, a, size) ==
  /\ UserCode
  /\ make_new(h, a, size)
  /\ unique' = [unique EXCEPT ![u] = h]
  /\ IF unique[u] = NoHandler
     THEN in_use' = Allocated(h) /\ UNCHANGED ended
     ELSE /\ in_use' = Deallocated(unique[u], Allocated(h))
          /\ ended' = [ended EXCEPT ![unique[u]] = Append(@, "destroyed")]
  /\ UNCHANGED <<list, calls>>

\* The move assignment of UniqueHandler; moving from itself changes nothing.
Move(u, v) ==
  /\ UserCode /\ u # v
  /\ unique' = [unique EXCEPT ![u] = unique[v], ![v] = NoHandler]
  /\ IF unique[u] = NoHandler THEN UNCHANGED <<ended, calls, in_use>>
     ELSE consume_impl(unique[u], "destroyed")
  /\ UNCHANGED <<memory, list>>

\* ~UniqueHandler, and the Deleter; another one then takes its place.
Destroy(u) ==
  /\ UserCode /\ unique[u] # NoHandler
  /\ unique' = [unique EXCEPT ![u] = NoHandler]
  /\ consume_impl(unique[u], "destroyed")
  /\ UNCHANGED <<memory, list>>

\* UniqueHandler::operator(): nothing to call, or release and notify.
Call(u) ==
  /\ UserCode /\ unique[u] # NoHandler
  /\ unique' = [unique EXCEPT ![u] = NoHandler]
  /\ consume_impl(unique[u], "called")
  /\ UNCHANGED <<memory, list>>

\* invoke_all_handlers, from user code, so also from a handler it called: what
\* a handler pushes is called by the innermost one.
InvokeAll ==
  /\ UserCode
  /\ calls' = <<"invoke_all_handlers">> \o calls
  /\ UNCHANGED <<in_use, memory, list, unique, ended>>
InvokeFront ==
  /\ ~UserCode /\ list # <<>>
  /\ list' = Tail(list)
  /\ consume_impl(Head(list), "called")
  /\ UNCHANGED <<memory, unique>>
InvokeDone ==
  /\ ~UserCode /\ list = <<>>
  /\ calls' = Tail(calls)
  /\ UNCHANGED <<in_use, memory, list, unique, ended>>

\* A handler's function returns.
Return ==
  /\ calls # <<>> /\ UserCode
  /\ calls' = Tail(calls)
  /\ UNCHANGED <<in_use, memory, list, unique, ended>>

HandlersInit ==
  /\ in_use = FALSE
  /\ memory = [h \in Handlers |-> ""]
  /\ list = <<>>
  /\ unique = [u \in Uniques |-> NoHandler]
  /\ calls = <<>>
  /\ ended = [h \in Handlers |-> <<>>]
HandlersStep ==
  \/ \E h \in Handlers, a \in Allocators, size \in Sizes :
       push_handler(h, a, size) \/ \E u \in Uniques : Assign(u, h, a, size)
  \/ \E u \in Uniques : Destroy(u) \/ Call(u) \/ \E v \in Uniques : Move(u, v)
  \/ InvokeAll \/ InvokeFront \/ InvokeDone \/ Return

HandlersSpec == HandlersInit /\ [][HandlersStep]_handlerVars

-----------------------------------------------------------------------------
Owners(h) == Cardinality({n \in DOMAIN list : list[n] = h}) + Cardinality({u \in Uniques : unique[u] = h})

\* However handlers make, move, call and destroy each other, each that was made
\* has one owner until it ends, called or destroyed, exactly once; at most one
\* lives in the HandlerMemory's storage, and the storage is in use only while one
\* does, so that a handler that runs finds it free for the handler it makes next.
HandlersEndOnce ==
  /\ \A h \in Handlers : memory[h] # "" <=> Owners(h) + Len(ended[h]) = 1
  /\ Cardinality({h \in Handlers : memory[h] = "storage" /\ Owners(h) = 1}) = IF in_use THEN 1 ELSE 0
=============================================================================
