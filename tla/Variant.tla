------------------------------- MODULE Variant --------------------------------
(***************************************************************************)
(* Variant: a type tag and a union that is a number, a pointer to a C      *)
(* string of somebody else's, or a pointer to a heap object the Variant    *)
(* owns.  The model follows the union's bytes and the heap through every   *)
(* constructor, assignment, move and destruction.                          *)
(*                                                                         *)
(* Types that the code treats alike are one type here:                     *)
(*    bool     BOOLEAN: one byte of the union is stored, four are compared *)
(*    byte     BYTE, CHAR: likewise                                        *)
(*    word     INTEGER, UINTEGER, FLOAT, DOUBLE, LONGLONG, ULONGLONG       *)
(*    string   STRING                                                      *)
(*    data     DATA, VARIANTVECTOR, VARIANTMAP, VARIANTMAPINTKEY           *)
(***************************************************************************)
CONSTANTS
    Vars,           \* the Variant objects
    Nodes,          \* heap addresses (bound: one more than there are Vars)
    Payloads,       \* numbers, texts and contents, told apart by identity
    Zero,           \* all bits zero: the number 0, nullptr
    Default,        \* what string(), VariantData(), Date(0) ... hold
    CopiesCStrings, \* does the client copy Variants that hold a C string?
    CopiesDates,    \* does the client copy Variants that hold a Date?
    NarrowsPointers \* does the client assign a bool or a byte to a Variant
                    \* that holds a pointer?

ASSUME PayloadAssumption ==
    Zero \notin Payloads /\ Default \notin Payloads /\ Nodes \intersect Payloads = {}
ASSUME FlagAssumption ==
    {CopiesCStrings, CopiesDates, NarrowsPointers} \subseteq BOOLEAN

VARIABLES
    debug,    \* built with DEBUG, so that _assert aborts: never changes
    alive,    \* the objects that have been constructed and not destroyed
    type,     \* _type
    field,    \* _field: its lowest byte, and the rest of it
    heap,     \* the heap objects
    aborted,  \* an _assert failed
    broken    \* undefined behaviour has happened

vars == <<debug, alive, type, field, heap, aborted, broken>>

Narrow == {"bool", "byte"}
Scalars == {"none", "word"} \union Narrow
HeapTypes == {"string", "data", "date"}
Types == Scalars \union HeapTypes \union {"cstring"}

Bits == Payloads \union Nodes \union {Zero}
Whole(b) == [low |-> b, rest |-> b]
Free == [type |-> "none", content |-> Zero]

TypeOK ==
    /\ debug \in BOOLEAN
    /\ alive \subseteq Vars
    /\ type \in [Vars -> Types]
    /\ field \in [Vars -> [low : Bits, rest : Bits]]
    /\ heap \in [Nodes -> [type : HeapTypes \union {"none"},
                           content : Payloads \union {Zero, Default}]]
    /\ aborted \in BOOLEAN
    /\ broken \in BOOLEAN

Init ==
    /\ debug \in BOOLEAN
    /\ alive = {}
    /\ type = [v \in Vars |-> "none"]
    /\ field = [v \in Vars |-> Whole(Zero)]
    /\ heap = [n \in Nodes |-> Free]
    /\ aborted = FALSE
    /\ broken = FALSE

Running == ~aborted /\ ~broken

-------------------------------------------------------------------------------
(* clear and reset.  Each operator gives one variable's value afterwards.  *)

Owned(v) == {n \in Nodes : type[v] \in HeapTypes /\ field[v] = Whole(n)}

\* clear: numbers are zeroed, heap objects deleted.  SAFE_DELETE sets a copy
\* of the pointer to null, so the union keeps the old bits.
clearedField(v) == IF type[v] \in Scalars THEN Whole(Zero) ELSE field[v]
clearedHeap(v) == [n \in Nodes |-> IF n \in Owned(v) THEN Free ELSE heap[n]]
deletesFreed(v) == type[v] \in HeapTypes /\ \A n \in Owned(v) : heap[n] = Free

\* Mutant: reset does not call clear().
resetHeap_NoClear(v, t) == heap

\* reset, before it allocates: nothing to do when the type stays.
resetField(v, t) == IF type[v] = t THEN field[v] ELSE clearedField(v)
resetHeap(v, t) == IF type[v] = t THEN heap ELSE clearedHeap(v)
resetBreaks(v, t) == type[v] # t /\ deletesFreed(v)

\* reset's _assert(_type <= Type::ULONGLONG, "Memory Error!")
resetAsserts(v) == debug /\ type[v] \notin Scalars

\* The assertion fails and the process is gone.
Abort ==
    /\ aborted' = TRUE
    /\ UNCHANGED <<debug, alive, type, field, heap, broken>>

\* reset's allocation and the store after it: the content goes into the
\* object that v owns already if the type stays, else into a new one.
storeHeap(v, t, content) ==
    LET h == resetHeap(v, t) IN
    \E n \in Nodes :
        /\ IF type[v] = t THEN n \in Owned(v) ELSE h[n] = Free
        /\ heap' = [h EXCEPT ![n] = [type |-> t, content |-> content]]
        /\ field' = [field EXCEPT ![v] = Whole(n)]

-------------------------------------------------------------------------------
(* Construction and destruction.                                           *)

\* Mutant: the default constructor leaves _type uninitialized.
ConstructNull_Uninitialized(v) ==
    /\ Running /\ v \notin alive
    /\ alive' = alive \union {v}
    /\ type' = [type EXCEPT ![v] = "indeterminate"]
    /\ field' = [field EXCEPT ![v] = Whole(Zero)]
    /\ UNCHANGED <<debug, heap, aborted, broken>>

\* Variant(), Variant(nullptr), and Variant(const char *) of a null pointer.
ConstructNull(v) ==
    /\ Running /\ v \notin alive
    /\ alive' = alive \union {v}
    /\ type' = [type EXCEPT ![v] = "none"]
    /\ field' = [field EXCEPT ![v] = Whole(Zero)]
    /\ UNCHANGED <<debug, heap, aborted, broken>>

\* The constructors from numbers and from a C string.
ConstructPlain(v, t, x) ==
    /\ Running /\ v \notin alive
    /\ alive' = alive \union {v}
    /\ type' = [type EXCEPT ![v] = t]
    /\ field' = [field EXCEPT ![v] =
                    IF t \in Narrow THEN [low |-> x, rest |-> Zero] ELSE Whole(x)]
    /\ UNCHANGED <<debug, heap, aborted, broken>>

\* The constructors from string, VariantData, Date and the containers.
ConstructHeap(v, t, x) ==
    /\ Running /\ v \notin alive
    /\ alive' = alive \union {v}
    /\ type' = [type EXCEPT ![v] = t]
    /\ \E n \in Nodes :
          /\ heap[n] = Free
          /\ heap' = [heap EXCEPT ![n] = [type |-> t, content |-> x]]
          /\ field' = [field EXCEPT ![v] = Whole(n)]
    /\ UNCHANGED <<debug, aborted, broken>>

Destroy(v) ==
    /\ Running /\ v \in alive
    /\ alive' = alive \ {v}
    /\ heap' = clearedHeap(v)
    /\ broken' = deletesFreed(v)
    /\ type' = [type EXCEPT ![v] = "none"]
    /\ field' = [field EXCEPT ![v] = Whole(Zero)]
    /\ UNCHANGED <<debug, aborted>>

-------------------------------------------------------------------------------
(* Assignment.                                                             *)

\* operator= for numbers
AssignPlain(v, t, x) ==
    /\ Running /\ v \in alive
    /\ t \in Narrow /\ type[v] \notin Scalars => NarrowsPointers
    /\ IF resetAsserts(v) THEN Abort ELSE
          /\ type' = [type EXCEPT ![v] = t]
          /\ field' = [field EXCEPT ![v] =
                IF t \in Narrow THEN [resetField(v, t) EXCEPT !.low = x] ELSE Whole(x)]
          /\ heap' = resetHeap(v, t)
          /\ broken' = resetBreaks(v, t)
          /\ UNCHANGED <<debug, alive, aborted>>

\* operator= for const char *, string, Date, VariantData and the containers
AssignHeap(v, t, x) ==
    /\ Running /\ v \in alive
    /\ IF resetAsserts(v) THEN Abort ELSE
          /\ type' = [type EXCEPT ![v] = t]
          /\ storeHeap(v, t, x)
          /\ broken' = resetBreaks(v, t)
          /\ UNCHANGED <<debug, alive, aborted>>

\* Mutant: no type but the numbers has a case, as is so for C strings.
copySwitch_NumbersOnly(v, o) ==
    LET t == type[o] IN
    /\ type' = [type EXCEPT ![v] = t]
    /\ broken' = resetBreaks(v, t)
    /\ IF t \in HeapTypes
       THEN storeHeap(v, t, Default)
       ELSE field' = [field EXCEPT ![v] = field[o]] /\ heap' = resetHeap(v, t)

\* operator=(const Variant &) after its assertion, reset and then the switch:
\* numbers are copied as bits, heap objects by content; C strings have no
\* case, and Dates are copied as if they were a VariantData.
copySwitch(v, o) ==
    LET t == type[o] IN
    /\ type' = [type EXCEPT ![v] = t]
    /\ CASE t \in {"none", "cstring"} ->
              /\ field' = [field EXCEPT ![v] = resetField(v, t)]
              /\ heap' = resetHeap(v, t)
              /\ broken' = resetBreaks(v, t)
         [] t \in Narrow \union {"word"} ->
              /\ field' = [field EXCEPT ![v] = field[o]]
              /\ heap' = resetHeap(v, t)
              /\ broken' = resetBreaks(v, t)
         [] t \in {"string", "data"} ->
              /\ \E n \in Owned(o) : storeHeap(v, t, heap[n].content)
              /\ broken' = resetBreaks(v, t)
         [] t = "date" ->
              /\ storeHeap(v, t, Default)
              /\ broken' = TRUE

MayCopy(o) ==
    /\ type[o] = "cstring" => CopiesCStrings
    /\ type[o] = "date" => CopiesDates

\* operator=(const Variant &); nothing happens on self-assignment.
CopyAssign(v, o) ==
    /\ Running /\ v \in alive /\ o \in alive \ {v}
    /\ MayCopy(o)
    /\ IF resetAsserts(v) THEN Abort ELSE
          /\ copySwitch(v, o)
          /\ UNCHANGED <<debug, alive, aborted>>

\* Variant(const Variant &): an empty one, then the assignment.
CopyConstruct(v, o) ==
    /\ Running /\ v \notin alive /\ o \in alive
    /\ MayCopy(o)
    /\ alive' = alive \union {v}
    /\ copySwitch(v, o)
    /\ UNCHANGED <<debug, aborted>>

\* What both kinds of move do.  Mutant: the source keeps its type and bits.
moveFrom_KeepsSource(v, o) ==
    /\ type' = [type EXCEPT ![v] = type[o]]
    /\ field' = [field EXCEPT ![v] = field[o]]
    /\ heap' = clearedHeap(v)
    /\ broken' = deletesFreed(v)

moveFrom(v, o) ==
    /\ type' = [type EXCEPT ![v] = type[o], ![o] = "none"]
    /\ field' = [field EXCEPT ![v] = field[o], ![o] = Whole(Zero)]
    /\ heap' = clearedHeap(v)
    /\ broken' = deletesFreed(v)

\* operator=(Variant &&)
MoveAssign(v, o) ==
    /\ Running /\ v \in alive /\ o \in alive \ {v}
    /\ moveFrom(v, o)
    /\ UNCHANGED <<debug, alive, aborted>>

\* Variant(Variant &&)
MoveConstruct(v, o) ==
    /\ Running /\ v \notin alive /\ o \in alive
    /\ alive' = alive \union {v}
    /\ moveFrom(v, o)
    /\ UNCHANGED <<debug, aborted>>

-------------------------------------------------------------------------------
Stopped == ~Running /\ UNCHANGED vars

Next ==
    \/ \E v \in Vars : ConstructNull(v) \/ Destroy(v)
    \/ \E v \in Vars, x \in Payloads : ConstructPlain(v, "cstring", x)
    \/ \E v \in Vars, t \in Narrow \union {"word"}, x \in Payloads :
          ConstructPlain(v, t, x) \/ AssignPlain(v, t, x)
    \/ \E v \in Vars, t \in HeapTypes, x \in Payloads :
          ConstructHeap(v, t, x) \/ AssignHeap(v, t, x)
    \/ \E v, o \in Vars : CopyAssign(v, o) \/ CopyConstruct(v, o)
    \/ \E v, o \in Vars : MoveAssign(v, o) \/ MoveConstruct(v, o)
    \/ Stopped

Spec == Init /\ [][Next]_vars

-------------------------------------------------------------------------------
(* Properties.                                                             *)

\* Every Variant with a heap type owns one live object of that type, no two
\* own the same, and no object is without an owner: nothing is deleted
\* twice, read after its deletion, or leaked, whatever copies, moves and
\* assignments have been made.
OwnedOnce ==
    Running =>
        /\ \A v \in Vars : type[v] \in HeapTypes =>
              \E n \in Nodes : field[v] = Whole(n) /\ heap[n].type = type[v]
        /\ \A v, o \in Vars : Owned(v) \intersect Owned(o) # {} => v = o
        /\ \A n \in Nodes : heap[n] # Free => \E v \in alive : n \in Owned(v)

\* No operation reads or deletes an object that is gone, or takes one type
\* of object for another (operator=(const Variant &) copies every type).
NoUndefinedBehaviour == ~broken

\* What operator== can see of a Variant: all four bytes of a narrow one.
Nothing == <<"none", Zero>>
Held(v) ==
    CASE type[v] = "none" -> Nothing
      [] type[v] \in Narrow /\ field[v].rest # Zero -> <<"garbage", field[v].low>>
      [] type[v] \in Narrow /\ field[v].rest = Zero -> <<type[v], field[v].low>>
      [] type[v] \in {"word", "cstring"} -> <<type[v], field[v].low>>
      [] OTHER -> <<type[v], heap[CHOOSE n \in Nodes : n \in Owned(v)].content>>

ValuesHeld == {Nothing} \union ((Types \ {"none"}) \X Payloads)
Value == INSTANCE VariantValues
            WITH Values <- ValuesHeld, Empty <- Nothing, value <- [v \in Vars |-> Held(v)]

\* A copy holds what its original holds, and leaves the original alone
\* ("Assignment operator, assign from Variant to Variant", Variant.hpp).
CopiesAreEqual ==
    [][\A v, o \in Vars :
          (CopyAssign(v, o) \/ CopyConstruct(v, o)) /\ ~aborted'
              => Held(v)' = Held(o) /\ Held(o)' = Held(o)]_vars

\* Variants are values: no construction, assignment, move or destruction of
\* one changes what another holds, and what is moved is never held twice.
ValueSemantics == Value!Spec
===============================================================================
