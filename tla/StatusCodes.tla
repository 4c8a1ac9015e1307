----------------------------- MODULE StatusCodes -----------------------------
(***************************************************************************)
(* batt::Status (status.hpp): enum types registered as groups of codes, a  *)
(* Status made of an enum value, and error codes of registered categories  *)
(* turned into Statuses through a cache per thread and a global one, by    *)
(* several threads at a time.                                              *)
(***************************************************************************)
EXTENDS Integers, Sequences, FiniteSets

CONSTANTS
  Callers,           \* threads
  Categories,        \* the error categories: each has an enum of its own
  CodesOf,           \* of each category: the codes given to register_error_category
  GroupSize,         \* kGroupSize
  Asked,             \* of each category: the code values callers ask about
  MaxCalls           \* bound on to_status, per thread

VARIABLES
  nextIndex,         \* next_group_index
  group,             \* code_group_for_type of each enum; <<>> before it is registered
  registered,        \* registered_groups
  globalMap,         \* global_error_category_status_map
  mutex,             \* who holds its mutex; "free"
  threadMap,         \* of each thread: thread_local_error_category_status_map
  caller             \* of each thread: pc, arguments, answers, and what Update made of them

statusVars == <<nextIndex, group, registered, globalMap, mutex, threadMap, caller>>

-----------------------------------------------------------------------------
\* StatusCode, with the values that matter here, and ErrnoValue.
kOk == 0
kNotFound == 1
kUnknown == 2
kEndOfStream == 4
Builtin == [StatusCode |-> <<kOk, kNotFound, kUnknown, kEndOfStream>>,
            ErrnoValue |-> [i \in 1 .. GroupSize |-> i - 1]]
Enums == {"StatusCode", "ErrnoValue"} \cup Categories

MinOfSeq(s) == CHOOSE v \in {s[i] : i \in DOMAIN s} : \A i \in DOMAIN s : v <= s[i]
MaxOfSeq(s) == CHOOSE v \in {s[i] : i \in DOMAIN s} : \A i \in DOMAIN s : v >= s[i]

\* The codes of a group: the entries in order, and one more for the enum values
\* in between that are not registered.
FirstCode_Dense(index) == index
FirstCode(index) == index * GroupSize
Entries(values, index) ==
  [i \in 1 .. Len(values) + 1 |->
     [code |-> FirstCode(index) + i - 1,
      enum_value |-> IF i <= Len(values) THEN values[i] ELSE MaxOfSeq(values) + 1]]
CodeGroup(values, index) ==
  [index |-> index, entries |-> Entries(values, index),
   enum_value_to_code |->
     [v \in MinOfSeq(values) .. MaxOfSeq(values) |->
        LET at == {i \in DOMAIN values : values[i] = v} IN
        FirstCode(index) + (IF at = {} THEN Len(values) ELSE (CHOOSE i \in at : \A j \in at : j <= i) - 1)]]

get_index_of_group(code) == code \div GroupSize
get_index_within_group(code) == code % GroupSize
ok(code) == get_index_within_group(code) = 0
get_entry_from_code(code) ==
  group[registered[get_index_of_group(code)]].entries[get_index_within_group(code) + 1]

Status(enum, value) == group[enum].enum_value_to_code[value]
OkStatus == Status("StatusCode", kOk)
Unknown == Status("StatusCode", kUnknown)
Equal(l, r) == l = r \/ (ok(l) /\ ok(r))
Update(status, new) == IF ok(status) \/ Equal(status, Unknown) THEN new ELSE status

-----------------------------------------------------------------------------
At(t, pc) == caller[t].pc = pc
Goto(t, pc) == caller' = [caller EXCEPT ![t].pc = pc]

\* register_codes_internal: an index, then the group is put in its place.  Each
\* enum is registered by one thread, for the code runs in the initializer of a
\* static variable.
TakeIndex(t, c) ==
  /\ At(t, "idle")
  /\ group[c] = <<>> /\ ~\E u \in Callers : At(u, "register") /\ caller[u].category = c
  /\ nextIndex' = nextIndex + 1
  /\ caller' = [caller EXCEPT ![t].pc = "register", ![t].category = c, ![t].index = nextIndex]
  /\ UNCHANGED <<group, registered, globalMap, mutex, threadMap>>
Publish(t) ==
  LET c == caller[t].category
      i == caller[t].index IN
  /\ At(t, "register")
  /\ group' = [group EXCEPT ![c] = CodeGroup(CodesOf[c], i)]
  /\ registered' = [registered EXCEPT ![i] = c]
  /\ Goto(t, "emplace")
  /\ UNCHANGED <<nextIndex, globalMap, mutex, threadMap>>
\* register_error_category: the map of the category, under the mutex.
CategoryMap(c) == [v \in {CodesOf[c][i] : i \in DOMAIN CodesOf[c]} |-> Status(c, v)]
RegisterCategory(t) ==
  /\ At(t, "emplace") /\ mutex = "free"
  /\ globalMap' = [globalMap EXCEPT ![caller[t].category] = CategoryMap(caller[t].category)]
  /\ caller' = [caller EXCEPT ![t].pc = "idle", ![t].category = "none", ![t].index = 0]
  /\ UNCHANGED <<nextIndex, group, registered, mutex, threadMap>>

\* The system errors that to_status names.
Listed == {1, GroupSize - 1}
\* to_status of an error code; what it cannot tell by itself it looks up.
Immediate(category, value) ==
  IF value = 0 THEN OkStatus
  ELSE IF category = "misc" /\ value = 2 THEN Status("StatusCode", kEndOfStream)
  ELSE IF category = "misc" /\ value = 3 THEN Status("StatusCode", kNotFound)
  ELSE IF category = "system" /\ value \in Listed THEN Status("ErrnoValue", value)
  ELSE -1
Answer(t, c, v, known, status) ==
  caller' = [caller EXCEPT ![t] = [@ EXCEPT !.pc = "idle", !.category = "none", !.value = 0, !.known = FALSE,
               !.sum = Update(@, status),
               !.answers = Append(@, [category |-> c, value |-> v, known |-> known, status |-> status])]]
ToStatus(t, c, v) ==
  LET known == globalMap[c] # <<>>
      s == Immediate(c, v) IN
  /\ At(t, "idle") /\ Len(caller[t].answers) < MaxCalls
  /\ IF s # -1 THEN Answer(t, c, v, known, s)
     ELSE caller' = [caller EXCEPT ![t] = [@ EXCEPT !.pc = "lookup", !.category = c, !.value = v,
                                                    !.known = known]]
  /\ UNCHANGED <<nextIndex, group, registered, globalMap, mutex, threadMap>>

\* status_from_error_category: first the cache of the thread, then with the
\* mutex the global one, from which the category is copied; then it calls
\* itself, and only the return releases the mutex.
InCache(map, t) == map[caller[t].category] # <<>> /\ caller[t].value \in DOMAIN map[caller[t].category]
Return(t, status) == Answer(t, caller[t].category, caller[t].value, caller[t].known, status)
LookUp(t) ==
  LET map == threadMap[t] IN
  /\ At(t, "lookup")
  /\ IF InCache(map, t)
     THEN /\ Return(t, map[caller[t].category][caller[t].value])
          /\ mutex' = IF mutex = t THEN "free" ELSE mutex
     ELSE /\ Goto(t, "lock")
          /\ UNCHANGED mutex
  /\ UNCHANGED <<nextIndex, group, registered, globalMap, threadMap>>
\* emplace leaves a category that is there alone.
Emplaced_All(map, c) == [d \in DOMAIN map |-> globalMap[c]]
Emplaced(map, c) == IF map[c] = <<>> THEN [map EXCEPT ![c] = globalMap[c]] ELSE map
InGlobal(t) ==
  LET c == caller[t].category IN
  /\ At(t, "lock") /\ mutex = "free"
  /\ IF globalMap[c] # <<>>
     THEN /\ threadMap' = [threadMap EXCEPT ![t] = Emplaced(@, c)]
          /\ Goto(t, "lookup")
          /\ mutex' = t
     ELSE /\ Return(t, Unknown)
          /\ UNCHANGED <<mutex, threadMap>>
  /\ UNCHANGED <<nextIndex, group, registered, globalMap>>

-----------------------------------------------------------------------------
NoMaps == [c \in Categories \cup {"misc", "system"} |-> <<>>]

\* The constructor of StatusBase has registered the enums of the library.
StatusInit ==
  /\ nextIndex = 2
  /\ group = [e \in Enums |-> IF e = "StatusCode" THEN CodeGroup(Builtin.StatusCode, 0)
                              ELSE IF e = "ErrnoValue" THEN CodeGroup(Builtin.ErrnoValue, 1) ELSE <<>>]
  /\ registered = [i \in 0 .. 1 + Cardinality(Categories) |->
                     IF i = 0 THEN "StatusCode" ELSE IF i = 1 THEN "ErrnoValue" ELSE "none"]
  /\ globalMap = NoMaps
  /\ mutex = "free"
  /\ threadMap = [t \in Callers |-> NoMaps]
  /\ caller = [t \in Callers |-> [pc |-> "idle", category |-> "none", value |-> 0, index |-> 0,
                                  known |-> FALSE, answers |-> <<>>, sum |-> 0]]

CallerStep(t) ==
  Publish(t) \/ RegisterCategory(t) \/ LookUp(t) \/ InGlobal(t)
StatusStep ==
  \E t \in Callers :
    \/ \E c \in Categories : TakeIndex(t, c)
    \/ \E c \in Categories \cup {"misc", "system"} : \E v \in Asked[c] : ToStatus(t, c, v)
    \/ CallerStep(t)

StatusSpec ==
  /\ StatusInit /\ [][StatusStep]_statusVars
  /\ \A t \in Callers : WF_statusVars(CallerStep(t))

-----------------------------------------------------------------------------
\* Whatever the order in which threads register their enums, a Status leads back
\* to the enum value it was made of and to no other; a value that was not
\* registered leads to the entry for unknown values; and in every group the first
\* code, alone, is ok.
StatusesTell ==
  \A e \in Enums : group[e] # <<>> =>
    LET values == IF e \in Categories THEN CodesOf[e] ELSE Builtin[e] IN
    \A v \in DOMAIN group[e].enum_value_to_code :
      LET s == Status(e, v)
          known == \E i \in DOMAIN values : values[i] = v IN
      /\ registered[get_index_of_group(s)] = e
      /\ get_entry_from_code(s).code = s
      /\ get_entry_from_code(s).enum_value = IF known THEN v ELSE MaxOfSeq(values) + 1
      /\ ok(s) <=> v = values[1]

\* to_status gives every error code of a category that was registered before the
\* call its own Status, whichever cache it comes from and whatever was asked
\* before; of the others, the Status of that category or kUnknown; and of several
\* answers Update keeps the first error that says something.
AnswersRight ==
  \A t \in Callers :
    LET a == caller[t].answers
        telling == {i \in DOMAIN a : ~ok(a[i].status) /\ a[i].status # Unknown} IN
    /\ \A i \in DOMAIN a :
         a[i].category \in Categories /\ a[i].value # 0 =>
           \/ group[a[i].category] # <<>> /\ a[i].status = Status(a[i].category, a[i].value)
           \/ ~a[i].known /\ a[i].status = Unknown
    /\ telling # {} => caller[t].sum = a[CHOOSE i \in telling : \A j \in telling : i <= j].status

\* "the registered batt::Status value if code is valid; batt::StatusCode::kUnknown
\* otherwise": status_from_error_category returns.
LookupReturns == \A t \in Callers : At(t, "lookup") ~> At(t, "idle")
=============================================================================
