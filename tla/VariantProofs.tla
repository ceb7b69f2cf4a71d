---------------------------- MODULE VariantProofs -----------------------------
(***************************************************************************)
(* Variant, for any objects, addresses and payloads.  Whatever a client    *)
(* does, every heap object has exactly one owner; and for a client that    *)
(* keeps away from the three cases that operator= gets wrong, Variants are *)
(* values.                                                                 *)
(***************************************************************************)
EXTENDS Variant, TLAPS

\* The object at n is v's, in a given state.
Owns(T, F, v, n) == T[v] \in HeapTypes /\ F[v] = Whole(n)

\* Who is not alive is empty, who has a heap type owns an object of it, no two
\* own the same, and every object has a living owner.
Sound(A, T, F, H) ==
    /\ \A v \in Vars : v \notin A => T[v] = "none"
    /\ \A v \in Vars : T[v] \in HeapTypes =>
          \E n \in Nodes : F[v] = Whole(n) /\ H[n].type = T[v]
    /\ \A v, o \in Vars, n \in Nodes : Owns(T, F, v, n) /\ Owns(T, F, o, n) => v = o
    /\ \A n \in Nodes : H[n] # Free => \E v \in A : Owns(T, F, v, n)

\* The inductive invariant.
Inv == TypeOK /\ Sound(alive, type, field, heap)

-------------------------------------------------------------------------------
(* What happens to the heap.                                               *)

\* Two pointers are equal if their bits are.
LEMMA WholeInjective ==
    ASSUME NEW n, NEW m, Whole(n) = Whole(m)
    PROVE  n = m
<1>1. Whole(n).low = n /\ Whole(m).low = m
  BY DEF Whole
<1>2. QED
  BY <1>1

\* The heap after v's objects have been deleted.
Cleared(T, F, H, v) == [n \in Nodes |-> IF Owns(T, F, v, n) THEN Free ELSE H[n]]

\* v stops to own what it owns and gets a type without an object.
LEMMA ClearSound ==
    ASSUME NEW A \in SUBSET Vars, NEW T \in [Vars -> Types], NEW F, NEW H,
           Sound(A, T, F, H), NEW v \in Vars, NEW t, t \notin HeapTypes,
           NEW B \in SUBSET Vars, B \ {v} = A \ {v}, t = "none" \/ v \in B,
           NEW G, \A u \in Vars : u # v => G[u] = F[u]
    PROVE  Sound(B, [T EXCEPT ![v] = t], G, Cleared(T, F, H, v))
<1> DEFINE S == [T EXCEPT ![v] = t]
           K == Cleared(T, F, H, v)
<1>1. S[v] = t /\ \A u \in Vars : u # v => S[u] = T[u]
  OBVIOUS
<1>2. \A n \in Nodes : K[n] = IF Owns(T, F, v, n) THEN Free ELSE H[n]
  BY DEF Cleared
<1> HIDE DEF S, K
<1>3. \A u \in Vars, n \in Nodes : Owns(S, G, u, n) <=> u # v /\ Owns(T, F, u, n)
  BY <1>1 DEF Owns
<1>4. ASSUME NEW u \in Vars, u \notin B
      PROVE  S[u] = "none"
  BY <1>1, <1>4 DEF Sound
<1>5. ASSUME NEW u \in Vars, S[u] \in HeapTypes
      PROVE  \E n \in Nodes : G[u] = Whole(n) /\ K[n].type = S[u]
  <2>1. u # v /\ T[u] \in HeapTypes
    BY <1>1, <1>5
  <2>2. PICK n \in Nodes : F[u] = Whole(n) /\ H[n].type = T[u]
    BY <2>1 DEF Sound
  <2>3. ~Owns(T, F, v, n)
    BY <2>1, <2>2 DEF Sound, Owns
  <2>4. QED
    BY <1>1, <1>2, <2>1, <2>2, <2>3
<1>6. \A u, o \in Vars, n \in Nodes : Owns(S, G, u, n) /\ Owns(S, G, o, n) => u = o
  BY <1>3 DEF Sound
<1>7. ASSUME NEW n \in Nodes, K[n] # Free
      PROVE  \E u \in B : Owns(S, G, u, n)
  <2>1. ~Owns(T, F, v, n) /\ H[n] # Free
    BY <1>2, <1>7
  <2>2. PICK u \in A : Owns(T, F, u, n)
    BY <2>1 DEF Sound
  <2>3. u # v /\ u \in B
    BY <2>1, <2>2
  <2>4. QED
    BY <1>3, <2>2, <2>3
<1>8. QED
  BY <1>4, <1>5, <1>6, <1>7 DEF Sound, S, K

\* A new object for a v that has none.
LEMMA StoreSound ==
    ASSUME NEW A \in SUBSET Vars, NEW T \in [Vars -> Types], NEW F, NEW H,
           DOMAIN F = Vars, DOMAIN H = Nodes,
           Sound(A, T, F, H), NEW v \in Vars, T[v] \notin HeapTypes,
           NEW B \in SUBSET Vars, B \ {v} = A \ {v}, v \in B,
           NEW t \in HeapTypes, NEW x, NEW n \in Nodes, H[n] = Free
    PROVE  Sound(B, [T EXCEPT ![v] = t], [F EXCEPT ![v] = Whole(n)],
                 [H EXCEPT ![n] = [type |-> t, content |-> x]])
<1> DEFINE S == [T EXCEPT ![v] = t]
           G == [F EXCEPT ![v] = Whole(n)]
           K == [H EXCEPT ![n] = [type |-> t, content |-> x]]
<1>1. /\ S[v] = t /\ G[v] = Whole(n) /\ K[n].type = t
      /\ \A u \in Vars : u # v => S[u] = T[u] /\ G[u] = F[u]
      /\ \A m \in Nodes : m # n => K[m] = H[m]
  OBVIOUS
<1> HIDE DEF S, G, K
<1>2. \A u \in Vars : ~Owns(T, F, u, n)
  <2>1. ASSUME NEW u \in Vars, Owns(T, F, u, n)
        PROVE  FALSE
    <3>1. PICK m \in Nodes : F[u] = Whole(m) /\ H[m].type = T[u]
      BY <2>1 DEF Sound, Owns
    <3>2. m = n
      BY <2>1, <3>1, WholeInjective DEF Owns
    <3>3. H[n].type = "none"
      BY DEF Free
    <3>4. QED
      BY <2>1, <3>1, <3>2, <3>3 DEF Owns, HeapTypes
  <2>2. QED
    BY <2>1
<1>3. \A u \in Vars, m \in Nodes : u # v => (Owns(S, G, u, m) <=> Owns(T, F, u, m))
  BY <1>1 DEF Owns
<1>4. \A m \in Nodes : Owns(S, G, v, m) <=> m = n
  BY <1>1, WholeInjective DEF Owns
<1>5. \A u \in Vars : u \notin B => S[u] = "none"
  BY <1>1 DEF Sound
<1>6. ASSUME NEW u \in Vars, S[u] \in HeapTypes
      PROVE  \E m \in Nodes : G[u] = Whole(m) /\ K[m].type = S[u]
  <2>1. CASE u = v
    BY <1>1, <2>1
  <2>2. CASE u # v
    <3>1. PICK m \in Nodes : F[u] = Whole(m) /\ H[m].type = T[u]
      BY <1>1, <1>6, <2>2 DEF Sound
    <3>2. m # n
      BY <1>1, <1>2, <1>6, <2>2, <3>1 DEF Owns
    <3>3. QED
      BY <1>1, <2>2, <3>1, <3>2
  <2>3. QED
    BY <2>1, <2>2
<1>7. ASSUME NEW u \in Vars, NEW o \in Vars, NEW m \in Nodes,
             Owns(S, G, u, m), Owns(S, G, o, m)
      PROVE  u = o
  <2>1. CASE m = n
    BY <1>2, <1>3, <1>7, <2>1
  <2>2. CASE m # n
    <3>1. u # v /\ o # v
      BY <1>4, <1>7, <2>2
    <3>2. QED
      BY <1>3, <1>7, <3>1 DEF Sound
  <2>3. QED
    BY <2>1, <2>2
<1>8. ASSUME NEW m \in Nodes, K[m] # Free
      PROVE  \E u \in B : Owns(S, G, u, m)
  <2>1. CASE m = n
    BY <1>4, <2>1
  <2>2. CASE m # n
    <3>1. PICK u \in A : Owns(T, F, u, m)
      BY <1>1, <1>8, <2>2 DEF Sound
    <3>2. u # v
      BY <3>1 DEF Owns
    <3>3. QED
      BY <1>3, <3>1, <3>2
  <2>3. QED
    BY <2>1, <2>2
<1>9. Sound(B, S, G, K)
  BY <1>5, <1>6, <1>7, <1>8, Zenon DEF Sound
<1>10. QED
  BY <1>9 DEF S, G, K

\* New content in the object that v owns already.
LEMMA OverwriteSound ==
    ASSUME NEW A \in SUBSET Vars, NEW T, NEW F, NEW H, DOMAIN H = Nodes,
           Sound(A, T, F, H), NEW v \in Vars, NEW n \in Nodes, Owns(T, F, v, n), NEW x
    PROVE  Sound(A, T, F, [H EXCEPT ![n] = [type |-> T[v], content |-> x]])
<1> DEFINE K == [H EXCEPT ![n] = [type |-> T[v], content |-> x]]
<1>1. K[n].type = T[v] /\ \A m \in Nodes : m # n => K[m] = H[m]
  OBVIOUS
<1> HIDE DEF K
<1>2. ASSUME NEW u \in Vars, T[u] \in HeapTypes
      PROVE  \E m \in Nodes : F[u] = Whole(m) /\ K[m].type = T[u]
  <2>1. PICK m \in Nodes : F[u] = Whole(m) /\ H[m].type = T[u]
    BY <1>2 DEF Sound
  <2>2. m = n => u = v
    BY <1>2, <2>1 DEF Sound, Owns
  <2>3. QED
    BY <1>1, <2>1, <2>2
<1>3. ASSUME NEW m \in Nodes, K[m] # Free
      PROVE  \E u \in A : Owns(T, F, u, m)
  <2>1. CASE m = n
    <3>1. v \in A
      BY DEF Sound, Owns, HeapTypes
    <3>2. QED
      BY <2>1, <3>1
  <2>2. CASE m # n
    BY <1>1, <1>3, <2>2 DEF Sound
  <2>3. QED
    BY <2>1, <2>2
<1>4. QED
  BY <1>2, <1>3 DEF Sound, K

\* v takes over what o holds, and o is left empty.
LEMMA MoveSound ==
    ASSUME NEW A \in SUBSET Vars, NEW T \in [Vars -> Types], NEW F, NEW H,
           DOMAIN F = Vars, Sound(A, T, F, H),
           NEW v \in Vars, T[v] \notin HeapTypes, NEW o \in A, o # v,
           NEW B \in SUBSET Vars, B \ {v} = A \ {v}, v \in B, NEW b
    PROVE  Sound(B, [T EXCEPT ![v] = T[o], ![o] = "none"],
                 [F EXCEPT ![v] = F[o], ![o] = b], H)
<1> DEFINE S == [T EXCEPT ![v] = T[o], ![o] = "none"]
           G == [F EXCEPT ![v] = F[o], ![o] = b]
<1>1. /\ S[v] = T[o] /\ S[o] = "none" /\ G[v] = F[o]
      /\ \A u \in Vars : u # v /\ u # o => S[u] = T[u] /\ G[u] = F[u]
  OBVIOUS
<1> HIDE DEF S, G
<1>2. "none" \notin HeapTypes
  BY DEF HeapTypes
<1>3. /\ \A n \in Nodes : Owns(S, G, v, n) <=> Owns(T, F, o, n)
      /\ \A n \in Nodes : ~Owns(S, G, o, n) /\ ~Owns(T, F, v, n)
      /\ \A u \in Vars, n \in Nodes : u # v /\ u # o => (Owns(S, G, u, n) <=> Owns(T, F, u, n))
  BY <1>1, <1>2 DEF Owns
<1>4. \A u \in Vars : u \notin B => S[u] = "none"
  BY <1>1 DEF Sound
<1>5. \A u \in Vars : S[u] \in HeapTypes => \E n \in Nodes : G[u] = Whole(n) /\ H[n].type = S[u]
  BY <1>1, <1>2 DEF Sound
<1>6. ASSUME NEW u \in Vars, NEW w \in Vars, NEW n \in Nodes,
             Owns(S, G, u, n), Owns(S, G, w, n)
      PROVE  u = w
  <2>1. u # o /\ w # o
    BY <1>3, <1>6
  <2>2. /\ u = v => Owns(T, F, o, n)
        /\ u # v => Owns(T, F, u, n)
        /\ w = v => Owns(T, F, o, n)
        /\ w # v => Owns(T, F, w, n)
    BY <1>3, <1>6, <2>1
  <2>3. QED
    BY <2>1, <2>2 DEF Sound
<1>7. ASSUME NEW n \in Nodes, H[n] # Free
      PROVE  \E u \in B : Owns(S, G, u, n)
  <2>1. PICK u \in A : Owns(T, F, u, n)
    BY <1>7 DEF Sound
  <2>2. u # v
    BY <1>3, <2>1
  <2>3. QED
    BY <1>3, <2>1, <2>2
<1>8. QED
  BY <1>4, <1>5, <1>6, <1>7 DEF Sound, S, G

-------------------------------------------------------------------------------
(* What the operations' parts do.                                          *)

\* clear() deletes what v owns.
LEMMA ClearedHeap ==
    ASSUME NEW v
    PROVE  clearedHeap(v) = Cleared(type, field, heap, v)
BY DEF clearedHeap, Owned, Owns, Cleared

\* reset() to a type without an object does the same, also when the type
\* stays: then there is nothing to delete.
LEMMA ResetHeap ==
    ASSUME TypeOK, NEW v \in Vars, NEW t, t \notin HeapTypes
    PROVE  resetHeap(v, t) = Cleared(type, field, heap, v)
<1>1. CASE type[v] = t
  <2>1. \A n \in Nodes : ~Owns(type, field, v, n)
    BY <1>1 DEF Owns
  <2>2. heap = [n \in Nodes |-> heap[n]]
    BY DEF TypeOK
  <2>3. QED
    BY <1>1, <2>1, <2>2 DEF resetHeap, Cleared
<1>2. CASE type[v] # t
  BY <1>2, ClearedHeap DEF resetHeap
<1>3. QED
  BY <1>1, <1>2

\* An object is allocated or overwritten: the heap stays sound.
LEMMA StoredSound ==
    ASSUME TypeOK, Sound(alive, type, field, heap), NEW v \in Vars, NEW t \in HeapTypes,
           NEW x, storeHeap(v, t, x),
           NEW B \in SUBSET Vars, B \ {v} = alive \ {v}, v \in B
    PROVE  Sound(B, [type EXCEPT ![v] = t], field', heap')
<1>0. /\ type \in [Vars -> Types] /\ DOMAIN field = Vars /\ DOMAIN heap = Nodes
      /\ alive \in SUBSET Vars /\ "none" \notin HeapTypes
  BY DEF TypeOK, HeapTypes
<1>1. CASE type[v] = t
  <2>1. PICK n \in Nodes : /\ n \in Owned(v)
                           /\ heap' = [heap EXCEPT ![n] = [type |-> t, content |-> x]]
                           /\ field' = [field EXCEPT ![v] = Whole(n)]
    BY <1>1 DEF storeHeap, resetHeap
  <2>2. Owns(type, field, v, n)
    BY <2>1 DEF Owned, Owns
  <2>3. field' = field /\ [type EXCEPT ![v] = t] = type
    <3>1. field \in [Vars -> [low : Bits, rest : Bits]] /\ field[v] = Whole(n)
      BY <2>2 DEF TypeOK, Owns
    <3>2. field' = field
      BY <2>1, <3>1
    <3>3. [type EXCEPT ![v] = t] = type
      BY <1>0, <1>1
    <3>4. QED
      BY <3>2, <3>3
  <2>4. v \in alive /\ B = alive
    <3>1. v \in alive
      BY <1>0, <1>1 DEF Sound
    <3>2. QED
      BY <3>1
  <2>5. heap' = [heap EXCEPT ![n] = [type |-> type[v], content |-> x]]
    BY <1>1, <2>1
  <2>6. Sound(alive, type, field, heap')
    BY <1>0, <2>2, <2>5, OverwriteSound
  <2>7. QED
    BY <2>3, <2>4, <2>6
<1>2. CASE type[v] # t
  <2> DEFINE K == Cleared(type, field, heap, v)
             S == [type EXCEPT ![v] = "none"]
  <2>1. PICK n \in Nodes : /\ K[n] = Free
                           /\ heap' = [K EXCEPT ![n] = [type |-> t, content |-> x]]
                           /\ field' = [field EXCEPT ![v] = Whole(n)]
    BY <1>2, ClearedHeap DEF storeHeap, resetHeap
  <2>2. Sound(alive, S, field, K)
    BY <1>0, ClearSound
  <2>3. DOMAIN K = Nodes /\ S \in [Vars -> Types] /\ S[v] \notin HeapTypes
    BY <1>0 DEF Cleared, Types, Scalars
  <2>4. [S EXCEPT ![v] = t] = [type EXCEPT ![v] = t]
    BY <1>0
  <2> HIDE DEF K, S
  <2>5. Sound(B, [S EXCEPT ![v] = t], field', heap')
    BY <1>0, <2>1, <2>2, <2>3, StoreSound
  <2>6. QED
    BY <2>4, <2>5
<1>3. QED
  BY <1>1, <1>2

\* v takes over what o holds: the heap stays sound.
LEMMA MovedSound ==
    ASSUME TypeOK, Sound(alive, type, field, heap), NEW v \in Vars, NEW o \in alive, o # v,
           moveFrom(v, o), NEW B \in SUBSET Vars, B \ {v} = alive \ {v}, v \in B
    PROVE  Sound(B, type', field', heap')
<1> DEFINE K == Cleared(type, field, heap, v)
           S == [type EXCEPT ![v] = "none"]
<1>0. /\ type \in [Vars -> Types] /\ DOMAIN field = Vars /\ alive \in SUBSET Vars
      /\ "none" \notin HeapTypes /\ o \in Vars
  BY DEF TypeOK, HeapTypes
<1>1. Sound(alive, S, field, K)
  BY <1>0, ClearSound
<1>2. S \in [Vars -> Types] /\ S[v] \notin HeapTypes /\ S[o] = type[o]
  BY <1>0 DEF Types, Scalars
<1>3. /\ type' = [S EXCEPT ![v] = S[o], ![o] = "none"]
      /\ field' = [field EXCEPT ![v] = field[o], ![o] = Whole(Zero)]
      /\ heap' = K
  BY <1>0, ClearedHeap DEF moveFrom
<1> HIDE DEF K, S
<1>4. QED
  BY <1>0, <1>1, <1>2, <1>3, MoveSound

-------------------------------------------------------------------------------
(* Types.                                                                  *)

\* Storing in the heap keeps the types.
LEMMA StoredType ==
    ASSUME TypeOK, NEW v \in Vars, NEW t \in HeapTypes,
           NEW x \in Payloads \union {Zero, Default}, storeHeap(v, t, x)
    PROVE  /\ field' \in [Vars -> [low : Bits, rest : Bits]]
           /\ heap' \in [Nodes -> [type : HeapTypes \union {"none"},
                                   content : Payloads \union {Zero, Default}]]
<1> DEFINE Objects == [type : HeapTypes \union {"none"}, content : Payloads \union {Zero, Default}]
           h == resetHeap(v, t)
<1>1. Free \in Objects /\ heap \in [Nodes -> Objects]
  BY DEF Free, TypeOK
<1>2. h \in [Nodes -> Objects]
  BY <1>1 DEF resetHeap, clearedHeap
<1>3. [type |-> t, content |-> x] \in Objects
  OBVIOUS
<1>4. PICK n \in Nodes : /\ heap' = [h EXCEPT ![n] = [type |-> t, content |-> x]]
                         /\ field' = [field EXCEPT ![v] = Whole(n)]
  BY DEF storeHeap
<1>5. Whole(n) \in [low : Bits, rest : Bits]
  BY DEF Whole, Bits
<1> HIDE DEF h, Objects
<1>6. heap' \in [Nodes -> Objects]
  BY <1>2, <1>3, <1>4
<1>7. field' \in [Vars -> [low : Bits, rest : Bits]]
  BY <1>4, <1>5 DEF TypeOK
<1>8. QED
  BY <1>6, <1>7 DEF Objects

\* Clearing and resetting keep the types.
LEMMA ResetType ==
    ASSUME TypeOK, NEW v \in Vars, NEW t
    PROVE  /\ {resetHeap(v, t), clearedHeap(v)} \subseteq
                  [Nodes -> [type : HeapTypes \union {"none"},
                             content : Payloads \union {Zero, Default}]]
           /\ {resetField(v, t), field[v], Whole(Zero)} \subseteq [low : Bits, rest : Bits]
           /\ resetBreaks(v, t) \in BOOLEAN /\ deletesFreed(v) \in BOOLEAN
<1> DEFINE Objects == [type : HeapTypes \union {"none"}, content : Payloads \union {Zero, Default}]
<1>1. Free \in Objects /\ heap \in [Nodes -> Objects]
  BY DEF Free, TypeOK
<1> HIDE DEF Objects
<1>2. clearedHeap(v) \in [Nodes -> Objects]
  BY <1>1 DEF clearedHeap
<1>3. resetHeap(v, t) \in [Nodes -> Objects]
  BY <1>1, <1>2 DEF resetHeap
<1>4. Whole(Zero) \in [low : Bits, rest : Bits] /\ field[v] \in [low : Bits, rest : Bits]
  BY DEF TypeOK, Whole, Bits
<1>5. resetField(v, t) \in [low : Bits, rest : Bits]
  BY <1>4 DEF resetField, clearedField
<1>6. resetBreaks(v, t) \in BOOLEAN /\ deletesFreed(v) \in BOOLEAN
  BY DEF resetBreaks, deletesFreed
<1>7. QED
  BY <1>2, <1>3, <1>4, <1>5, <1>6 DEF Objects

\* Taking over keeps the types.
LEMMA MovedType ==
    ASSUME TypeOK, NEW v \in Vars, NEW o \in Vars, moveFrom(v, o)
    PROVE  /\ type' \in [Vars -> Types] /\ field' \in [Vars -> [low : Bits, rest : Bits]]
           /\ heap' \in [Nodes -> [type : HeapTypes \union {"none"},
                                   content : Payloads \union {Zero, Default}]]
           /\ broken' \in BOOLEAN
<1> DEFINE F == [low : Bits, rest : Bits]
<1>1. Whole(Zero) \in F /\ field[o] \in F /\ field \in [Vars -> F]
  BY ResetType DEF TypeOK
<1>2. type \in [Vars -> Types] /\ type[o] \in Types /\ "none" \in Types
  BY DEF TypeOK, Types, Scalars
<1> HIDE DEF F
<1>3. field' \in [Vars -> F]
  BY <1>1 DEF moveFrom
<1>4. type' \in [Vars -> Types]
  BY <1>2 DEF moveFrom
<1>5. QED
  BY <1>3, <1>4, ResetType DEF moveFrom, F

\* The switch of operator=(const Variant &) keeps the types.
LEMMA SwitchType ==
    ASSUME TypeOK, NEW v \in Vars, NEW o \in Vars, copySwitch(v, o)
    PROVE  /\ type' \in [Vars -> Types] /\ field' \in [Vars -> [low : Bits, rest : Bits]]
           /\ heap' \in [Nodes -> [type : HeapTypes \union {"none"},
                                   content : Payloads \union {Zero, Default}]]
           /\ broken' \in BOOLEAN
<1> DEFINE t == type[o]
           F == [low : Bits, rest : Bits]
           H == [Nodes -> [type : HeapTypes \union {"none"}, content : Payloads \union {Zero, Default}]]
<1>1. t \in Types /\ field \in [Vars -> F] /\ type \in [Vars -> Types]
  BY DEF TypeOK
<1>2. type' \in [Vars -> Types]
  BY <1>1 DEF copySwitch
<1>3. t \in {"none", "cstring"} \/ t \in Narrow \union {"word"} \/ t \in {"string", "data"} \/ t = "date"
  BY <1>1 DEF Types, Scalars, HeapTypes
<1>4. CASE t \in {"none", "cstring"}
  <2>1. /\ field' = [field EXCEPT ![v] = resetField(v, t)]
        /\ heap' = resetHeap(v, t) /\ broken' = resetBreaks(v, t)
    BY <1>4 DEF copySwitch, Narrow
  <2>2. resetField(v, t) \in F /\ resetHeap(v, t) \in H /\ resetBreaks(v, t) \in BOOLEAN
    BY ResetType
  <2> HIDE DEF F, H
  <2>3. QED
    BY <1>1, <1>2, <2>1, <2>2 DEF F, H
<1>5. CASE t \in Narrow \union {"word"}
  <2>1. /\ field' = [field EXCEPT ![v] = field[o]]
        /\ heap' = resetHeap(v, t) /\ broken' = resetBreaks(v, t)
    BY <1>5 DEF copySwitch, Narrow
  <2>2. field[o] \in F /\ resetHeap(v, t) \in H /\ resetBreaks(v, t) \in BOOLEAN
    BY ResetType
  <2> HIDE DEF F, H
  <2>3. QED
    BY <1>1, <1>2, <2>1, <2>2 DEF F, H
<1>6. CASE t \in {"string", "data"}
  <2>1. (\E n \in Owned(o) : storeHeap(v, t, heap[n].content)) /\ broken' = resetBreaks(v, t)
    BY <1>6 DEF copySwitch, Narrow
  <2>2. PICK n \in Nodes : storeHeap(v, t, heap[n].content)
    BY <2>1 DEF Owned
  <2>3. heap[n].content \in Payloads \union {Zero, Default} /\ t \in HeapTypes
    BY <1>6 DEF TypeOK, HeapTypes
  <2>4. resetBreaks(v, t) \in BOOLEAN
    BY ResetType
  <2>5. QED
    BY <1>2, <2>1, <2>2, <2>3, <2>4, StoredType
<1>7. CASE t = "date"
  <2>1. storeHeap(v, t, Default) /\ broken' = TRUE
    BY <1>7 DEF copySwitch, Narrow
  <2>2. t \in HeapTypes
    BY <1>7 DEF HeapTypes
  <2>3. QED
    BY <1>2, <2>1, <2>2, StoredType
<1>8. QED
  BY <1>3, <1>4, <1>5, <1>6, <1>7

\* Every step keeps the types, of whatever client.
LEMMA TypeStep ==
    ASSUME TypeOK, [Next]_vars
    PROVE  TypeOK'
<1> DEFINE F == [low : Bits, rest : Bits]
           H == [Nodes -> [type : HeapTypes \union {"none"}, content : Payloads \union {Zero, Default}]]
<1>0. /\ type \in [Vars -> Types] /\ field \in [Vars -> F] /\ heap \in H
      /\ alive \in SUBSET Vars /\ debug \in BOOLEAN /\ aborted \in BOOLEAN /\ broken \in BOOLEAN
  BY DEF TypeOK
<1>s. ASSUME type' \in [Vars -> Types], field' \in [Vars -> F], heap' \in H,
             alive' \in SUBSET Vars, debug' = debug, aborted' \in BOOLEAN, broken' \in BOOLEAN
      PROVE  TypeOK'
  BY <1>0, <1>s DEF TypeOK
<1>a. ASSUME Abort PROVE TypeOK'
  BY <1>a DEF Abort, TypeOK
<1>p. \A x \in Payloads : Whole(x) \in F /\ [low |-> x, rest |-> Zero] \in F
  BY DEF Whole, Bits
<1>r. \A v \in Vars, t \in Types :
         /\ resetField(v, t) \in F /\ Whole(Zero) \in F
         /\ resetHeap(v, t) \in H /\ clearedHeap(v) \in H
         /\ resetBreaks(v, t) \in BOOLEAN /\ deletesFreed(v) \in BOOLEAN
  BY ResetType
<1>t. HeapTypes \subseteq Types /\ Narrow \union {"word", "none", "cstring"} \subseteq Types
  BY DEF Types, Scalars
<1>1. ASSUME NEW v \in Vars, ConstructNull(v)
      PROVE  TypeOK'
  <2> HIDE DEF F, H
  <2>1. type' \in [Vars -> Types] /\ field' \in [Vars -> F]
    BY <1>0, <1>1, <1>r, <1>t DEF ConstructNull
  <2>2. QED
    BY <1>0, <1>1, <1>s, <2>1 DEF ConstructNull
<1>2. ASSUME NEW v \in Vars, NEW t \in Narrow \union {"word", "cstring"}, NEW x \in Payloads,
             ConstructPlain(v, t, x)
      PROVE  TypeOK'
  <2> HIDE DEF F, H
  <2>1. type' \in [Vars -> Types] /\ field' \in [Vars -> F]
    BY <1>0, <1>2, <1>p, <1>t DEF ConstructPlain
  <2>2. QED
    BY <1>0, <1>2, <1>s, <2>1 DEF ConstructPlain
<1>3. ASSUME NEW v \in Vars, NEW t \in HeapTypes, NEW x \in Payloads, ConstructHeap(v, t, x)
      PROVE  TypeOK'
  <2>1. PICK n \in Nodes : /\ heap' = [heap EXCEPT ![n] = [type |-> t, content |-> x]]
                           /\ field' = [field EXCEPT ![v] = Whole(n)]
    BY <1>3 DEF ConstructHeap
  <2>2. Whole(n) \in F
    BY DEF Whole, Bits
  <2>3. heap' \in H
    BY <1>0, <2>1
  <2> HIDE DEF F, H
  <2>4. type' \in [Vars -> Types] /\ field' \in [Vars -> F]
    BY <1>0, <1>3, <1>t, <2>1, <2>2 DEF ConstructHeap
  <2>5. QED
    BY <1>0, <1>3, <1>s, <2>3, <2>4 DEF ConstructHeap
<1>4. ASSUME NEW v \in Vars, Destroy(v)
      PROVE  TypeOK'
  <2> HIDE DEF F, H
  <2>1. type' \in [Vars -> Types] /\ field' \in [Vars -> F]
    BY <1>0, <1>4, <1>r, <1>t DEF Destroy
  <2>2. heap' \in H /\ broken' \in BOOLEAN
    BY <1>4, <1>r, <1>t DEF Destroy
  <2>3. QED
    BY <1>0, <1>4, <1>s, <2>1, <2>2 DEF Destroy
<1>5. ASSUME NEW v \in Vars, NEW t \in Narrow \union {"word"}, NEW x \in Payloads,
             AssignPlain(v, t, x)
      PROVE  TypeOK'
  <2> DEFINE new == IF t \in Narrow THEN [resetField(v, t) EXCEPT !.low = x] ELSE Whole(x)
  <2>1. resetField(v, t) \in F /\ x \in Bits
    BY <1>r, <1>t DEF Bits
  <2>2. new \in F
    BY <1>p, <2>1
  <2>3. CASE resetAsserts(v)
    BY <1>5, <1>a, <2>3 DEF AssignPlain
  <2>4. CASE ~resetAsserts(v)
    <3>1. /\ type' = [type EXCEPT ![v] = t] /\ field' = [field EXCEPT ![v] = new]
          /\ heap' = resetHeap(v, t) /\ broken' = resetBreaks(v, t)
          /\ UNCHANGED <<debug, alive, aborted>>
      BY <1>5, <2>4 DEF AssignPlain
    <3> HIDE DEF F, H, new
    <3>2. QED
      BY <1>0, <1>r, <1>s, <1>t, <2>2, <3>1
  <2>5. QED
    BY <2>3, <2>4
<1>6. ASSUME NEW v \in Vars, NEW t \in HeapTypes, NEW x \in Payloads, AssignHeap(v, t, x)
      PROVE  TypeOK'
  <2>1. CASE resetAsserts(v)
    BY <1>6, <1>a, <2>1 DEF AssignHeap
  <2>2. CASE ~resetAsserts(v)
    <3>1. /\ type' = [type EXCEPT ![v] = t] /\ storeHeap(v, t, x)
          /\ broken' = resetBreaks(v, t) /\ UNCHANGED <<debug, alive, aborted>>
      BY <1>6, <2>2 DEF AssignHeap
    <3>2. field' \in [Vars -> F] /\ heap' \in H
      BY <3>1, StoredType
    <3> HIDE DEF F, H
    <3>3. QED
      BY <1>0, <1>r, <1>s, <1>t, <3>1, <3>2
  <2>3. QED
    BY <2>1, <2>2
<1>7. ASSUME NEW v \in Vars, NEW o \in Vars, CopyAssign(v, o) \/ CopyConstruct(v, o)
      PROVE  TypeOK'
  <2>1. CASE Abort
    BY <1>a, <2>1
  <2>2. CASE copySwitch(v, o) /\ alive' \in SUBSET Vars /\ UNCHANGED <<debug, aborted>>
    <3>1. type' \in [Vars -> Types] /\ field' \in [Vars -> F] /\ heap' \in H /\ broken' \in BOOLEAN
      BY <2>2, SwitchType
    <3> HIDE DEF F, H
    <3>2. QED
      BY <1>0, <1>s, <2>2, <3>1
  <2>3. QED
    BY <1>0, <1>7, <2>1, <2>2 DEF CopyAssign, CopyConstruct
<1>8. ASSUME NEW v \in Vars, NEW o \in Vars, MoveAssign(v, o) \/ MoveConstruct(v, o)
      PROVE  TypeOK'
  <2>1. moveFrom(v, o) /\ alive' \in SUBSET Vars /\ UNCHANGED <<debug, aborted>>
    BY <1>0, <1>8 DEF MoveAssign, MoveConstruct
  <2>2. type' \in [Vars -> Types] /\ field' \in [Vars -> F] /\ heap' \in H /\ broken' \in BOOLEAN
    BY <2>1, MovedType
  <2> HIDE DEF F, H
  <2>3. QED
    BY <1>0, <1>s, <2>1, <2>2
<1>9. CASE UNCHANGED vars
  BY <1>9 DEF vars, TypeOK
<1>10. QED
  BY <1>1, <1>2, <1>3, <1>4, <1>5, <1>6, <1>7, <1>8, <1>9 DEF Next, Stopped

-------------------------------------------------------------------------------
(* Every heap object has exactly one owner, whatever the client does.      *)

\* What a v owns is there, so that clear() deletes no object that is gone.
LEMMA DeletesLive ==
    ASSUME Inv, NEW v \in Vars
    PROVE  ~deletesFreed(v) /\ \A t : ~resetBreaks(v, t)
<1>1. ASSUME type[v] \in HeapTypes
      PROVE  \E n \in Owned(v) : heap[n] # Free
  <2>1. PICK n \in Nodes : field[v] = Whole(n) /\ heap[n].type = type[v]
    BY <1>1 DEF Inv, Sound
  <2>2. n \in Owned(v)
    BY <1>1, <2>1 DEF Owned
  <2>3. heap[n] # Free
    BY <1>1, <2>1 DEF Free, HeapTypes
  <2>4. QED
    BY <2>2, <2>3
<1>2. ~deletesFreed(v)
  BY <1>1 DEF deletesFreed
<1>3. QED
  BY <1>2 DEF resetBreaks

\* A C string or a number is assigned, or an empty Variant made: what v owned
\* is deleted.
LEMMA PlainSound ==
    ASSUME Inv, NEW v \in Vars, NEW t, t \notin HeapTypes,
           NEW B \in SUBSET Vars, B \ {v} = alive \ {v}, t = "none" \/ v \in B,
           type' = [type EXCEPT ![v] = t], NEW b, field' = [field EXCEPT ![v] = b],
           heap' \in {resetHeap(v, t), clearedHeap(v)}
    PROVE  Sound(B, type', field', heap')
<1>1. /\ type \in [Vars -> Types] /\ alive \in SUBSET Vars /\ DOMAIN field = Vars /\ TypeOK
      /\ Sound(alive, type, field, heap)
  BY DEF Inv, TypeOK
<1>2. heap' = Cleared(type, field, heap, v)
  BY <1>1, ResetHeap, ClearedHeap
<1>3. \A u \in Vars : u # v => field'[u] = field[u]
  BY <1>1
<1>4. QED
  BY <1>1, <1>2, <1>3, ClearSound

\* A step of copying: from an object, a number, or neither.
LEMMA CopySound ==
    ASSUME Inv, NEW v \in Vars, NEW o \in alive, copySwitch(v, o),
           NEW B \in SUBSET Vars, B \ {v} = alive \ {v}, v \in B
    PROVE  Sound(B, type', field', heap')
<1> DEFINE t == type[o]
<1>1. /\ type' = [type EXCEPT ![v] = t] /\ TypeOK /\ Sound(alive, type, field, heap)
      /\ t \in Types
  BY DEF copySwitch, Inv, TypeOK
<1>2. t \in {"none", "cstring"} \/ t \in Narrow \union {"word"} \/ t \in HeapTypes
  BY <1>1 DEF Types, Scalars
<1>3. CASE t \in {"none", "cstring"} \/ t \in Narrow \union {"word"}
  <2>1. t \notin HeapTypes
    BY <1>3 DEF HeapTypes, Narrow
  <2>2. heap' = resetHeap(v, t) /\ \E b : field' = [field EXCEPT ![v] = b]
    BY <1>3 DEF copySwitch, Narrow
  <2>3. PICK b : field' = [field EXCEPT ![v] = b]
    BY <2>2
  <2> HIDE DEF t
  <2>4. QED
    BY <1>1, <2>1, <2>2, <2>3, PlainSound
<1>4. CASE t \in HeapTypes
  <2>1. \E x : storeHeap(v, t, x)
    BY <1>4 DEF copySwitch, HeapTypes, Narrow
  <2> HIDE DEF t
  <2>2. QED
    BY <1>1, <1>4, <2>1, StoredSound
<1>5. QED
  BY <1>2, <1>3, <1>4

\* Every step keeps the heap sound.
LEMMA SoundStep ==
    ASSUME Inv, [Next]_vars
    PROVE  Inv'
<1>0. /\ TypeOK /\ Sound(alive, type, field, heap) /\ TypeOK'
      /\ type \in [Vars -> Types] /\ alive \in SUBSET Vars /\ DOMAIN field = Vars
      /\ DOMAIN heap = Nodes /\ "none" \notin HeapTypes
  BY TypeStep DEF Inv, TypeOK, HeapTypes
<1>q. SUFFICES Sound(alive', type', field', heap')
  BY <1>0 DEF Inv
<1>e. ASSUME NEW v \in Vars, v \notin alive
      PROVE  /\ type[v] = "none"
             /\ alive \union {v} \in SUBSET Vars
             /\ (alive \union {v}) \ {v} = alive \ {v}
             /\ v \in alive \union {v}
             /\ clearedHeap(v) = heap
  <2>1. type[v] = "none"
    BY <1>0, <1>e DEF Sound
  <2>2. \A n \in Nodes : ~Owns(type, field, v, n)
    BY <1>0, <2>1 DEF Owns
  <2>3. heap = [n \in Nodes |-> heap[n]]
    BY <1>0 DEF TypeOK
  <2>4. clearedHeap(v) = heap
    BY <2>2, <2>3, ClearedHeap DEF Cleared
  <2>5. QED
    BY <1>0, <1>e, <2>1, <2>4
<1>a. ASSUME UNCHANGED <<alive, type, field, heap>>
      PROVE  Sound(alive', type', field', heap')
  BY <1>0, <1>a
<1>1. ASSUME NEW v \in Vars, NEW t, NEW b, t \notin HeapTypes,
             v \notin alive, alive' = alive \union {v},
             type' = [type EXCEPT ![v] = t], field' = [field EXCEPT ![v] = b], heap' = heap
      PROVE  Sound(alive', type', field', heap')
  BY <1>1, <1>e, PlainSound
<1>2. ASSUME NEW v \in Vars, ConstructNull(v)
      PROVE  Sound(alive', type', field', heap')
  BY <1>0, <1>1, <1>2 DEF ConstructNull
<1>3. ASSUME NEW v \in Vars, NEW t \in Narrow \union {"word", "cstring"}, NEW x \in Payloads,
             ConstructPlain(v, t, x)
      PROVE  Sound(alive', type', field', heap')
  <2>1. t \notin HeapTypes
    BY <1>3 DEF HeapTypes, Narrow
  <2>2. QED
    BY <1>1, <1>3, <2>1 DEF ConstructPlain
<1>4. ASSUME NEW v \in Vars, NEW t \in HeapTypes, NEW x \in Payloads, ConstructHeap(v, t, x)
      PROVE  Sound(alive', type', field', heap')
  <2>1. PICK n \in Nodes : /\ heap[n] = Free
                           /\ heap' = [heap EXCEPT ![n] = [type |-> t, content |-> x]]
                           /\ field' = [field EXCEPT ![v] = Whole(n)]
    BY <1>4 DEF ConstructHeap
  <2>2. v \notin alive /\ alive' = alive \union {v} /\ type' = [type EXCEPT ![v] = t]
    BY <1>4 DEF ConstructHeap
  <2>3. type[v] \notin HeapTypes
    BY <1>0, <1>e, <2>2
  <2>4. QED
    BY <1>0, <1>e, <2>1, <2>2, <2>3, StoreSound
<1>5. ASSUME NEW v \in Vars, Destroy(v)
      PROVE  Sound(alive', type', field', heap')
  <2>1. /\ alive' = alive \ {v} /\ heap' = clearedHeap(v)
        /\ type' = [type EXCEPT ![v] = "none"] /\ field' = [field EXCEPT ![v] = Whole(Zero)]
    BY <1>5 DEF Destroy
  <2>2. alive' \in SUBSET Vars /\ alive' \ {v} = alive \ {v}
    BY <1>0, <2>1
  <2>3. QED
    BY <1>0, <2>1, <2>2, PlainSound DEF Inv
<1>6. ASSUME NEW v \in Vars, NEW t \in Narrow \union {"word"}, NEW x \in Payloads,
             AssignPlain(v, t, x)
      PROVE  Sound(alive', type', field', heap')
  <2>1. CASE resetAsserts(v)
    BY <1>6, <1>a, <2>1 DEF AssignPlain, Abort
  <2>2. CASE ~resetAsserts(v)
    <3>1. /\ type' = [type EXCEPT ![v] = t] /\ heap' = resetHeap(v, t)
          /\ alive' = alive /\ v \in alive
          /\ \E b : field' = [field EXCEPT ![v] = b]
      BY <1>6, <2>2 DEF AssignPlain
    <3>2. PICK b : field' = [field EXCEPT ![v] = b]
      BY <3>1
    <3>3. t \notin HeapTypes
      BY <1>6 DEF HeapTypes, Narrow
    <3>4. QED
      BY <1>0, <3>1, <3>2, <3>3, PlainSound
  <2>3. QED
    BY <2>1, <2>2
<1>7. ASSUME NEW v \in Vars, NEW t \in HeapTypes, NEW x \in Payloads, AssignHeap(v, t, x)
      PROVE  Sound(alive', type', field', heap')
  <2>1. CASE resetAsserts(v)
    BY <1>7, <1>a, <2>1 DEF AssignHeap, Abort
  <2>2. CASE ~resetAsserts(v)
    <3>1. /\ type' = [type EXCEPT ![v] = t] /\ storeHeap(v, t, x) /\ alive' = alive /\ v \in alive
      BY <1>7, <2>2 DEF AssignHeap
    <3>2. QED
      BY <1>0, <3>1, StoredSound
  <2>3. QED
    BY <2>1, <2>2
<1>8. ASSUME NEW v \in Vars, NEW o \in Vars, CopyAssign(v, o)
      PROVE  Sound(alive', type', field', heap')
  <2>1. CASE resetAsserts(v)
    BY <1>8, <1>a, <2>1 DEF CopyAssign, Abort
  <2>2. CASE ~resetAsserts(v)
    <3>1. copySwitch(v, o) /\ alive' = alive /\ v \in alive /\ o \in alive
      BY <1>8, <2>2 DEF CopyAssign
    <3>2. QED
      BY <1>0, <3>1, CopySound
  <2>3. QED
    BY <2>1, <2>2
<1>9. ASSUME NEW v \in Vars, NEW o \in Vars, CopyConstruct(v, o)
      PROVE  Sound(alive', type', field', heap')
  <2>1. copySwitch(v, o) /\ alive' = alive \union {v} /\ v \notin alive /\ o \in alive
    BY <1>9 DEF CopyConstruct
  <2>2. QED
    BY <1>e, <2>1, CopySound
<1>10. ASSUME NEW v \in Vars, NEW o \in Vars, MoveAssign(v, o) \/ MoveConstruct(v, o)
       PROVE  Sound(alive', type', field', heap')
  <2>1. /\ moveFrom(v, o) /\ alive' = alive \union {v} /\ o \in alive /\ o # v
        /\ alive' \in SUBSET Vars /\ alive' \ {v} = alive \ {v} /\ v \in alive'
    BY <1>0, <1>10 DEF MoveAssign, MoveConstruct
  <2>2. QED
    BY <1>0, <2>1, MovedSound
<1>11. CASE UNCHANGED vars
  BY <1>11, <1>a DEF vars
<1>12. QED
  BY <1>2, <1>3, <1>4, <1>5, <1>6, <1>7, <1>8, <1>9, <1>10, <1>11 DEF Next, Stopped

\* The invariant holds in every reachable state.
THEOREM Safety == Spec => []Inv
<1>1. Init => Inv
  <2> SUFFICES ASSUME Init PROVE Inv
    OBVIOUS
  <2>1. /\ \A v \in Vars : type[v] = "none" /\ field[v] = Whole(Zero)
        /\ \A n \in Nodes : heap[n] = Free
    BY DEF Init
  <2>2. Whole(Zero) \in [low : Bits, rest : Bits]
    BY DEF Whole, Bits
  <2>3. TypeOK
    BY <2>2 DEF Init, TypeOK, Types, Scalars, Free
  <2>4. "none" \notin HeapTypes
    BY DEF HeapTypes
  <2>5. QED
    BY <2>1, <2>3, <2>4 DEF Inv, Sound, Owns
<1>2. Inv /\ [Next]_vars => Inv'
  BY SoundStep
<1>3. QED
  BY <1>1, <1>2, PTL DEF Spec

\* Every object's tag is a type, its bits a number, a pointer or neither, and
\* the heap holds nothing but strings, containers and dates.
THEOREM TypeSafety == Spec => []TypeOK
<1>1. Inv => TypeOK
  BY DEF Inv
<1>2. QED
  BY <1>1, Safety, PTL

\* Every string, container or Date that a Variant points to is there, has the
\* type of its tag and no other owner, and none is left without an owner: no
\* construction, copy, move, assignment or destruction of any client's deletes
\* twice or leaks.
THEOREM OwnershipSafety == Spec => []OwnedOnce
<1>1. Inv => OwnedOnce
  <2> SUFFICES ASSUME Inv PROVE OwnedOnce
    OBVIOUS
  <2>1. Sound(alive, type, field, heap)
    BY DEF Inv
  <2>2. \A v \in Vars, n \in Nodes : n \in Owned(v) <=> Owns(type, field, v, n)
    BY DEF Owned, Owns
  <2>3. \A v, o \in Vars : Owned(v) \intersect Owned(o) # {} => v = o
    <3>1. ASSUME NEW v \in Vars, NEW o \in Vars, NEW n \in Owned(v) \intersect Owned(o)
          PROVE  v = o
      <4>1. n \in Nodes /\ Owns(type, field, v, n) /\ Owns(type, field, o, n)
        BY DEF Owned, Owns
      <4>2. QED
        BY <2>1, <4>1 DEF Sound
    <3>2. QED
      BY <3>1
  <2>4. alive \subseteq Vars
    BY DEF Inv, TypeOK
  <2>5. QED
    BY <2>1, <2>2, <2>3, <2>4 DEF Sound, OwnedOnce
<1>2. QED
  BY <1>1, Safety, PTL

-------------------------------------------------------------------------------
(* What the Variants hold.                                                 *)

\* No Date is copied: nothing undefined happens.
THEOREM NoUndefinedSafety ==
    ASSUME ~CopiesDates
    PROVE  Spec => []NoUndefinedBehaviour
<1>1. Init => NoUndefinedBehaviour
  BY DEF Init, NoUndefinedBehaviour
<1>2. ASSUME Inv, ~broken, [Next]_vars
      PROVE  ~broken'
  <2>0. \A v \in Vars : ~deletesFreed(v) /\ \A t : ~resetBreaks(v, t)
    BY <1>2, DeletesLive
  <2>1. ASSUME NEW v \in Vars, NEW o \in Vars, copySwitch(v, o), MayCopy(o)
        PROVE  ~broken'
    <3>1. type[o] \in Types /\ type[o] # "date"
      BY <1>2, <2>1 DEF Inv, TypeOK, MayCopy
    <3>2. \/ type[o] \in {"none", "cstring"} \/ type[o] \in Narrow \union {"word"}
          \/ type[o] \in {"string", "data"}
      BY <3>1 DEF Types, Scalars, HeapTypes
    <3>3. broken' = resetBreaks(v, type[o])
      BY <2>1, <3>1, <3>2 DEF copySwitch, Narrow
    <3>4. QED
      BY <2>0, <3>3
  <2>2. ASSUME NEW v \in Vars, NEW o \in Vars, CopyAssign(v, o) \/ CopyConstruct(v, o)
        PROVE  ~broken'
    <3>1. Abort \/ (copySwitch(v, o) /\ MayCopy(o))
      BY <2>2 DEF CopyAssign, CopyConstruct
    <3>2. QED
      BY <1>2, <2>1, <3>1 DEF Abort
  <2>3. ASSUME NEW v \in Vars, NEW o \in Vars, MoveAssign(v, o) \/ MoveConstruct(v, o)
        PROVE  ~broken'
    BY <2>0, <2>3 DEF MoveAssign, MoveConstruct, moveFrom
  <2>4. ASSUME NEW v \in Vars, NEW t, NEW x, AssignPlain(v, t, x) \/ AssignHeap(v, t, x)
        PROVE  ~broken'
    BY <1>2, <2>0, <2>4 DEF AssignPlain, AssignHeap, Abort
  <2>5. ASSUME NEW v \in Vars, NEW t, NEW x,
               ConstructNull(v) \/ Destroy(v) \/ ConstructPlain(v, t, x) \/ ConstructHeap(v, t, x)
        PROVE  ~broken'
    BY <1>2, <2>0, <2>5 DEF ConstructNull, Destroy, ConstructPlain, ConstructHeap
  <2>6. CASE UNCHANGED vars
    BY <1>2, <2>6 DEF vars
  <2>7. QED
    BY <1>2, <2>2, <2>3, <2>4, <2>5, <2>6 DEF Next, Stopped
<1>3. Inv /\ NoUndefinedBehaviour /\ [Next]_vars => NoUndefinedBehaviour'
  BY <1>2 DEF NoUndefinedBehaviour
<1>4. QED
  BY <1>1, <1>3, Safety, PTL DEF Spec

\* Held as a function of a tag, a union and a heap.
HeldAs(t, f, H) ==
    CASE t = "none" -> Nothing
      [] t \in Narrow /\ f.rest # Zero -> <<"garbage", f.low>>
      [] t \in Narrow /\ f.rest = Zero -> <<t, f.low>>
      [] t \in {"word", "cstring"} -> <<t, f.low>>
      [] OTHER -> <<t, H[CHOOSE n \in Nodes : n \in {m \in Nodes : t \in HeapTypes /\ f = Whole(m)}].content>>

LEMMA HeldIs ==
    ASSUME NEW v
    PROVE  Held(v) = HeldAs(type[v], field[v], heap) /\ Held(v)' = HeldAs(type'[v], field'[v], heap')
BY DEF Held, HeldAs, Owned

\* Who has an object holds its content.
LEMMA HeldObject ==
    ASSUME NEW t \in HeapTypes, NEW n \in Nodes, NEW H
    PROVE  HeldAs(t, Whole(n), H) = <<t, H[n].content>>
<1> DEFINE S == {m \in Nodes : t \in HeapTypes /\ Whole(n) = Whole(m)}
<1>1. t # "none" /\ t \notin Narrow \union {"word"} /\ t # "cstring"
  BY DEF HeapTypes, Narrow
<1>2. n \in S /\ \A m \in S : m = n
  BY WholeInjective
<1>3. (CHOOSE m \in Nodes : m \in S) = n
  <2> HIDE DEF S
  <2>1. (CHOOSE m \in Nodes : m \in S) \in S
    BY <1>2
  <2>2. QED
    BY <1>2, <2>1
<1>4. HeldAs(t, Whole(n), H) = <<t, H[CHOOSE m \in Nodes : m \in S].content>>
  BY <1>1 DEF HeldAs
<1>5. QED
  BY <1>3, <1>4

\* Who has none holds what its bits say.
LEMMA HeldBits ==
    ASSUME NEW t, t \in {"none", "word", "cstring"} \union Narrow, NEW f, NEW H, NEW K
    PROVE  /\ HeldAs(t, f, H) = HeldAs(t, f, K)
           /\ t = "none" => HeldAs(t, f, H) = Nothing
           /\ t \in {"word", "cstring"} => HeldAs(t, f, H) = <<t, f.low>>
           /\ t \in Narrow /\ f.rest = Zero => HeldAs(t, f, H) = <<t, f.low>>
BY DEF HeldAs, Narrow

\* A step leaves alone who is not v, and what it owns.
SparesOthers(S) ==
    \A u \in Vars \ S : /\ type'[u] = type[u] /\ field'[u] = field[u]
                        /\ \A n \in Nodes : Owns(type, field, u, n) => heap'[n] = heap[n]

\* Then the others hold what they held.
LEMMA OthersHold ==
    ASSUME Inv, NEW S, SparesOthers(S), NEW u \in Vars \ S
    PROVE  Held(u)' = Held(u)
<1>1. type[u] \in Types /\ type'[u] = type[u] /\ field'[u] = field[u]
  BY DEF SparesOthers, Inv, TypeOK
<1>2. CASE type[u] \in HeapTypes
  <2>1. PICK n \in Nodes : field[u] = Whole(n)
    BY <1>2 DEF Inv, Sound
  <2>2. heap'[n] = heap[n]
    BY <1>2, <2>1 DEF SparesOthers, Owns
  <2>3. QED
    BY <1>1, <1>2, <2>1, <2>2, HeldIs, HeldObject
<1>3. CASE type[u] \notin HeapTypes
  <2>1. type[u] \in {"none", "word", "cstring"} \union Narrow
    BY <1>1, <1>3 DEF Types, Scalars
  <2>2. HeldAs(type[u], field[u], heap) = HeldAs(type[u], field[u], heap')
    BY <2>1, HeldBits
  <2>3. QED
    BY <1>1, <2>2, HeldIs
<1>4. QED
  BY <1>2, <1>3

\* Clearing v spares what the others own.
LEMMA ClearSpares ==
    ASSUME Inv, NEW v \in Vars, NEW u \in Vars, u # v, NEW n \in Nodes, Owns(type, field, u, n)
    PROVE  clearedHeap(v)[n] = heap[n] /\ \A t : resetHeap(v, t)[n] = heap[n]
<1>1. ~Owns(type, field, v, n)
  BY DEF Inv, Sound
<1>2. clearedHeap(v)[n] = heap[n]
  BY <1>1, ClearedHeap DEF Cleared
<1>3. QED
  BY <1>2 DEF resetHeap

\* Storing for v spares what the others own, and v has what was stored.
LEMMA StoreSpares ==
    ASSUME Inv, NEW v \in Vars, NEW t \in HeapTypes, NEW x, storeHeap(v, t, x),
           type' = [type EXCEPT ![v] = t]
    PROVE  SparesOthers({v}) /\ Held(v)' = <<t, x>>
<1> DEFINE h == resetHeap(v, t)
<1>0. /\ type \in [Vars -> Types] /\ DOMAIN field = Vars /\ DOMAIN heap = Nodes
      /\ Sound(alive, type, field, heap)
  BY DEF Inv, TypeOK
<1>1. PICK n \in Nodes : /\ IF type[v] = t THEN n \in Owned(v) ELSE h[n] = Free
                         /\ heap' = [h EXCEPT ![n] = [type |-> t, content |-> x]]
                         /\ field' = [field EXCEPT ![v] = Whole(n)]
  BY DEF storeHeap
<1>2. DOMAIN h = Nodes
  BY <1>0 DEF resetHeap, clearedHeap
<1>3. ASSUME NEW u \in Vars, u # v, NEW m \in Nodes, Owns(type, field, u, m)
      PROVE  heap'[m] = heap[m]
  <2>1. h[m] = heap[m]
    BY <1>3, ClearSpares
  <2>2. heap[m] # Free
    BY <1>0, <1>3, WholeInjective DEF Sound, Owns, Free, HeapTypes
  <2>3. m # n
    <3>1. CASE type[v] = t
      <4>1. Owns(type, field, v, n)
        BY <1>1, <3>1 DEF Owned, Owns
      <4>2. QED
        BY <1>0, <1>3, <4>1 DEF Sound
    <3>2. CASE type[v] # t
      BY <1>1, <2>1, <2>2, <3>2
    <3>3. QED
      BY <3>1, <3>2
  <2> HIDE DEF h
  <2>4. QED
    BY <1>1, <1>2, <2>1, <2>3
<1>4. SparesOthers({v})
  BY <1>0, <1>1, <1>3 DEF SparesOthers
<1>5. type'[v] = t /\ field'[v] = Whole(n)
  BY <1>0, <1>1
<1> HIDE DEF h
<1>6. heap'[n].content = x
  BY <1>1, <1>2
<1>7. QED
  BY <1>4, <1>5, <1>6, HeldIs, HeldObject

\* So does everything that does not store.
LEMMA PlainSpares ==
    ASSUME Inv, NEW v \in Vars, NEW t, NEW b,
           type' = [type EXCEPT ![v] = t], field' = [field EXCEPT ![v] = b],
           heap' \in {heap, clearedHeap(v), resetHeap(v, t)}
    PROVE  SparesOthers({v}) /\ Held(v)' = HeldAs(t, b, heap')
<1>1. type \in [Vars -> Types] /\ DOMAIN field = Vars
  BY DEF Inv, TypeOK
<1>2. ASSUME NEW u \in Vars \ {v}, NEW n \in Nodes, Owns(type, field, u, n)
      PROVE  heap'[n] = heap[n]
  BY <1>2, ClearSpares
<1>3. type'[v] = t /\ field'[v] = b
  BY <1>1
<1>4. \A u \in Vars \ {v} : type'[u] = type[u] /\ field'[u] = field[u]
  BY <1>1
<1>5. SparesOthers({v})
  BY <1>2, <1>4 DEF SparesOthers
<1>6. QED
  BY <1>3, <1>5, HeldIs

\* The switch of operator=(const Variant &) gives v what o holds and spares
\* the others, if o is neither a C string nor a Date.
LEMMA SwitchHolds ==
    ASSUME Inv, ~CopiesCStrings, ~CopiesDates, NEW v \in Vars, NEW o \in Vars,
           MayCopy(o), copySwitch(v, o)
    PROVE  SparesOthers({v}) /\ Held(v)' = Held(o)
<1> DEFINE t == type[o]
<1>1. /\ type' = [type EXCEPT ![v] = t] /\ t \in Types
      /\ t # "cstring" /\ t # "date"
  BY DEF copySwitch, MayCopy, Inv, TypeOK
<1>2. t = "none" \/ t \in Narrow \union {"word"} \/ t \in {"string", "data"}
  BY <1>1 DEF Types, Scalars, HeapTypes
<1>3. CASE t = "none"
  <2>1. field' = [field EXCEPT ![v] = resetField(v, t)] /\ heap' = resetHeap(v, t)
    BY <1>3 DEF copySwitch, Narrow
  <2>2. Held(v)' = HeldAs("none", resetField(v, t), heap') /\ SparesOthers({v})
    BY <1>1, <1>3, <2>1, PlainSpares
  <2>3. QED
    BY <1>3, <2>2, HeldBits, HeldIs
<1>4. CASE t \in Narrow \union {"word"}
  <2>1. field' = [field EXCEPT ![v] = field[o]] /\ heap' = resetHeap(v, t)
    BY <1>4 DEF copySwitch, Narrow
  <2>2. Held(v)' = HeldAs(t, field[o], heap') /\ SparesOthers({v})
    BY <1>1, <2>1, PlainSpares
  <2>3. HeldAs(t, field[o], heap') = HeldAs(t, field[o], heap)
    BY <1>4, HeldBits
  <2>4. QED
    BY <2>2, <2>3, HeldIs
<1>5. CASE t \in {"string", "data"}
  <2>1. \E n \in Owned(o) : storeHeap(v, t, heap[n].content)
    BY <1>5 DEF copySwitch, Narrow
  <2>2. PICK n \in Nodes : field[o] = Whole(n) /\ storeHeap(v, t, heap[n].content)
    BY <2>1 DEF Owned
  <2>3. PICK s \in HeapTypes : s = t
    BY <1>5 DEF HeapTypes
  <2>4. PICK x : x = heap[n].content
    OBVIOUS
  <2>5. type' = [type EXCEPT ![v] = s] /\ storeHeap(v, s, x)
    BY <1>1, <2>2, <2>3, <2>4
  <2>6. Held(v)' = <<s, x>> /\ SparesOthers({v})
    BY <2>5, StoreSpares
  <2>7. Held(o) = <<s, x>>
    BY <2>2, <2>3, <2>4, HeldObject, HeldIs
  <2>8. QED
    BY <2>6, <2>7
<1>6. QED
  BY <1>2, <1>3, <1>4, <1>5

\* A copy holds what its original holds and leaves the original alone, for
\* every client that copies neither C strings nor Dates.
THEOREM CopySafety ==
    ASSUME ~CopiesCStrings, ~CopiesDates
    PROVE  Spec => CopiesAreEqual
<1>1. ASSUME Inv, NEW v \in Vars, NEW o \in Vars,
             CopyAssign(v, o) \/ CopyConstruct(v, o), ~aborted'
      PROVE  Held(v)' = Held(o) /\ Held(o)' = Held(o)
  <2>1. copySwitch(v, o) /\ MayCopy(o) /\ o # v
    BY <1>1 DEF CopyAssign, CopyConstruct, Abort
  <2>2. SparesOthers({v}) /\ Held(v)' = Held(o)
    BY <1>1, <2>1, SwitchHolds
  <2>3. o \in Vars \ {v}
    BY <2>1
  <2>4. Held(o)' = Held(o)
    BY <1>1, <2>2, <2>3, OthersHold
  <2>5. QED
    BY <2>2, <2>4
<1> DEFINE Equal == \A v, o \in Vars :
                       (CopyAssign(v, o) \/ CopyConstruct(v, o)) /\ ~aborted'
                           => Held(v)' = Held(o) /\ Held(o)' = Held(o)
<1>2. Inv /\ [Next]_vars => [Equal]_vars
  BY <1>1
<1>3. Spec => [][Equal]_vars
  BY <1>2, Safety, PTL DEF Spec
<1>4. QED
  BY <1>3 DEF CopiesAreEqual

-------------------------------------------------------------------------------
(* Variants are values.                                                    *)

\* The client of which this is proved: it copies neither a C string nor a
\* Date, and assigns no bool or byte where a pointer was.
Careful == ~CopiesCStrings /\ ~CopiesDates /\ ~NarrowsPointers

\* Every Variant can be read: it holds a payload of its type or nothing.
Readable == \A v \in Vars : Held(v) \in ValuesHeld

\* A step that gives v the value x and leaves the others alone.
Gives(v, x) == x \in ValuesHeld /\ SparesOthers({v}) /\ Held(v)' = x

\* Taking over: v gets what o held, o is left empty.
LEMMA MoveHolds ==
    ASSUME Inv, NEW v \in Vars, NEW o \in Vars, o # v, moveFrom(v, o)
    PROVE  SparesOthers({v, o}) /\ Held(v)' = Held(o) /\ Held(o)' = Nothing
<1>1. /\ type \in [Vars -> Types] /\ DOMAIN field = Vars /\ heap' = clearedHeap(v)
      /\ Sound(alive, type, field, heap)
  BY DEF Inv, TypeOK, moveFrom
<1>2. /\ type'[v] = type[o] /\ field'[v] = field[o] /\ type'[o] = "none"
      /\ \A u \in Vars \ {v, o} : type'[u] = type[u] /\ field'[u] = field[u]
  BY <1>1 DEF moveFrom
<1>3. SparesOthers({v, o})
  BY <1>1, <1>2, ClearSpares DEF SparesOthers
<1>4. Held(o)' = Nothing
  BY <1>2, HeldIs, HeldBits
<1>5. HeldAs(type[o], field[o], heap') = HeldAs(type[o], field[o], heap)
  <2>1. CASE type[o] \in HeapTypes
    <3>1. PICK n \in Nodes : field[o] = Whole(n)
      BY <1>1, <2>1 DEF Sound
    <3>2. heap'[n] = heap[n]
      BY <1>1, <2>1, <3>1, ClearSpares DEF Owns
    <3>3. QED
      BY <2>1, <3>1, <3>2, HeldObject
  <2>2. CASE type[o] \notin HeapTypes
    <3>1. type[o] \in {"none", "word", "cstring"} \union Narrow
      BY <1>1, <2>2 DEF Types, Scalars
    <3>2. QED
      BY <3>1, HeldBits
  <2>3. QED
    BY <2>1, <2>2
<1>6. Held(v)' = Held(o)
  BY <1>2, <1>5, HeldIs
<1>7. QED
  BY <1>3, <1>4, <1>6

\* Construction and destruction.
LEMMA ConstructGives ==
    ASSUME Inv, NEW v \in Vars
    PROVE  /\ ConstructNull(v) \/ Destroy(v) => Gives(v, Nothing)
           /\ \A t \in Narrow \union {"word", "cstring"}, x \in Payloads :
                 ConstructPlain(v, t, x) => Gives(v, <<t, x>>)
           /\ \A t \in HeapTypes, x \in Payloads : ConstructHeap(v, t, x) => Gives(v, <<t, x>>)
<1>1. ASSUME ConstructNull(v) \/ Destroy(v)
      PROVE  Gives(v, Nothing)
  <2>1. /\ type' = [type EXCEPT ![v] = "none"] /\ field' = [field EXCEPT ![v] = Whole(Zero)]
        /\ heap' \in {heap, clearedHeap(v)}
    BY <1>1 DEF ConstructNull, Destroy
  <2>2. SparesOthers({v}) /\ Held(v)' = HeldAs("none", Whole(Zero), heap')
    BY <2>1, PlainSpares
  <2>3. QED
    BY <2>2, HeldBits DEF Gives, ValuesHeld
<1>2. ASSUME NEW t \in Narrow \union {"word", "cstring"}, NEW x \in Payloads,
             ConstructPlain(v, t, x)
      PROVE  Gives(v, <<t, x>>)
  <2> DEFINE b == IF t \in Narrow THEN [low |-> x, rest |-> Zero] ELSE Whole(x)
  <2>1. type' = [type EXCEPT ![v] = t] /\ field' = [field EXCEPT ![v] = b] /\ heap' = heap
    BY <1>2 DEF ConstructPlain
  <2>2. b.low = x /\ (t \in Narrow => b.rest = Zero)
    BY DEF Whole
  <2> HIDE DEF b
  <2>3. SparesOthers({v}) /\ Held(v)' = HeldAs(t, b, heap')
    BY <2>1, PlainSpares
  <2>4. HeldAs(t, b, heap') = <<t, x>>
    BY <2>2, HeldBits
  <2>5. t \in Types \ {"none"}
    BY DEF Types, Scalars, Narrow
  <2>6. QED
    BY <2>3, <2>4, <2>5 DEF Gives, ValuesHeld
<1>3. ASSUME NEW t \in HeapTypes, NEW x \in Payloads, ConstructHeap(v, t, x)
      PROVE  Gives(v, <<t, x>>)
  <2>1. PICK n \in Nodes : /\ heap[n] = Free
                           /\ heap' = [heap EXCEPT ![n] = [type |-> t, content |-> x]]
                           /\ field' = [field EXCEPT ![v] = Whole(n)]
    BY <1>3 DEF ConstructHeap
  <2>2. /\ type' = [type EXCEPT ![v] = t] /\ type \in [Vars -> Types] /\ DOMAIN field = Vars
        /\ DOMAIN heap = Nodes /\ Sound(alive, type, field, heap)
    BY <1>3 DEF ConstructHeap, Inv, TypeOK
  <2>3. ASSUME NEW u \in Vars, NEW m \in Nodes, Owns(type, field, u, m)
        PROVE  heap'[m] = heap[m]
    <3>1. heap[m] # Free
      BY <2>2, <2>3, WholeInjective DEF Sound, Owns, Free, HeapTypes
    <3>2. QED
      BY <2>1, <2>2, <3>1
  <2>4. SparesOthers({v})
    BY <2>1, <2>2, <2>3 DEF SparesOthers
  <2>5. type'[v] = t /\ field'[v] = Whole(n) /\ heap'[n].content = x
    BY <2>1, <2>2
  <2>6. Held(v)' = <<t, x>>
    BY <2>5, HeldIs, HeldObject
  <2>7. t \in Types \ {"none"}
    BY DEF Types, HeapTypes
  <2>8. QED
    BY <2>4, <2>6, <2>7 DEF Gives, ValuesHeld
<1>4. QED
  BY <1>1, <1>2, <1>3

\* A bool or a byte that can be read has its other bytes clear.
LEMMA NarrowIsClean ==
    ASSUME Readable, NEW v \in Vars, type[v] \in Narrow
    PROVE  field[v].rest = Zero
<1>1. ASSUME field[v].rest # Zero
      PROVE  FALSE
  <2>1. Held(v) = <<"garbage", field[v].low>>
    BY <1>1 DEF Held, Narrow
  <2>2. Held(v) \in ValuesHeld
    BY DEF Readable
  <2>3. "garbage" \notin Types
    BY DEF Types, Scalars, Narrow, HeapTypes
  <2>4. QED
    BY <2>1, <2>2, <2>3 DEF ValuesHeld, Nothing
<1>2. QED
  BY <1>1

\* The assignments of plain values.
LEMMA AssignGives ==
    ASSUME Inv, Readable, ~NarrowsPointers, NEW v \in Vars, ~resetAsserts(v), NEW x \in Payloads
    PROVE  /\ \A t \in Narrow \union {"word"} : AssignPlain(v, t, x) => Gives(v, <<t, x>>)
           /\ \A t \in HeapTypes : AssignHeap(v, t, x) => Gives(v, <<t, x>>)
<1>1. ASSUME NEW t \in Narrow \union {"word"}, AssignPlain(v, t, x)
      PROVE  Gives(v, <<t, x>>)
  <2> DEFINE b == IF t \in Narrow THEN [resetField(v, t) EXCEPT !.low = x] ELSE Whole(x)
  <2>1. /\ type' = [type EXCEPT ![v] = t] /\ field' = [field EXCEPT ![v] = b]
        /\ heap' = resetHeap(v, t)
    BY <1>1 DEF AssignPlain
  <2>2. resetField(v, t) \in [low : Bits, rest : Bits]
    BY ResetType DEF Inv
  <2>3. t \in Narrow => resetField(v, t).rest = Zero
    <3>1. ASSUME t \in Narrow, type[v] # t
          PROVE  resetField(v, t).rest = Zero
      <4>1. type[v] \in Scalars
        BY <1>1, <3>1 DEF AssignPlain
      <4>2. QED
        BY <3>1, <4>1 DEF resetField, clearedField, Whole
    <3>2. QED
      BY <3>1, NarrowIsClean DEF resetField
  <2>4. b.low = x /\ (t \in Narrow => b.rest = Zero)
    BY <2>2, <2>3 DEF Whole
  <2> HIDE DEF b
  <2>5. SparesOthers({v}) /\ Held(v)' = HeldAs(t, b, heap')
    BY <2>1, PlainSpares
  <2>6. HeldAs(t, b, heap') = <<t, x>>
    BY <2>4, HeldBits
  <2>7. t \in Types \ {"none"}
    BY DEF Types, Scalars, Narrow
  <2>8. QED
    BY <2>5, <2>6, <2>7 DEF Gives, ValuesHeld
<1>2. ASSUME NEW t \in HeapTypes, AssignHeap(v, t, x)
      PROVE  Gives(v, <<t, x>>)
  <2>1. type' = [type EXCEPT ![v] = t] /\ storeHeap(v, t, x)
    BY <1>2 DEF AssignHeap
  <2>2. SparesOthers({v}) /\ Held(v)' = <<t, x>>
    BY <2>1, StoreSpares
  <2>3. t \in Types \ {"none"}
    BY DEF Types, HeapTypes
  <2>4. QED
    BY <2>2, <2>3 DEF Gives, ValuesHeld
<1>3. QED
  BY <1>1, <1>2

\* What a step does to the values: it gives one Variant a value, moves one,
\* or does nothing that operator== could see.
StepKinds ==
    \/ \E v \in Vars, x \in ValuesHeld : Gives(v, x)
    \/ \E v, o \in Vars : /\ o # v /\ SparesOthers({v, o})
                          /\ Held(v)' = Held(o) /\ Held(o)' = Nothing
    \/ UNCHANGED <<type, field, heap>>

\* Every step is of one of these kinds.
LEMMA StepIsOfAKind ==
    ASSUME Careful, Inv, Readable, [Next]_vars
    PROVE  StepKinds
<1>0. ASSUME NEW v \in Vars, \E x : Gives(v, x)
      PROVE  StepKinds
  BY <1>0 DEF StepKinds, Gives
<1>a. Abort => StepKinds
  BY DEF Abort, StepKinds
<1>1. ASSUME NEW v \in Vars, ConstructNull(v) \/ Destroy(v)
      PROVE  StepKinds
  BY <1>0, <1>1, ConstructGives
<1>2. ASSUME NEW v \in Vars, NEW t \in Narrow \union {"word", "cstring"}, NEW x \in Payloads,
             ConstructPlain(v, t, x)
      PROVE  StepKinds
  BY <1>0, <1>2, ConstructGives
<1>3. ASSUME NEW v \in Vars, NEW t \in HeapTypes, NEW x \in Payloads, ConstructHeap(v, t, x)
      PROVE  StepKinds
  BY <1>0, <1>3, ConstructGives
<1>4. ASSUME NEW v \in Vars, NEW t \in Narrow \union {"word"}, NEW x \in Payloads,
             AssignPlain(v, t, x)
      PROVE  StepKinds
  <2>1. CASE resetAsserts(v)
    BY <1>4, <1>a, <2>1 DEF AssignPlain
  <2>2. CASE ~resetAsserts(v)
    BY <1>0, <1>4, <2>2, AssignGives DEF Careful
  <2>3. QED
    BY <2>1, <2>2
<1>5. ASSUME NEW v \in Vars, NEW t \in HeapTypes, NEW x \in Payloads, AssignHeap(v, t, x)
      PROVE  StepKinds
  <2>1. CASE resetAsserts(v)
    BY <1>5, <1>a, <2>1 DEF AssignHeap
  <2>2. CASE ~resetAsserts(v)
    BY <1>0, <1>5, <2>2, AssignGives DEF Careful
  <2>3. QED
    BY <2>1, <2>2
<1>6. ASSUME NEW v \in Vars, NEW o \in Vars, CopyAssign(v, o) \/ CopyConstruct(v, o)
      PROVE  StepKinds
  <2>1. Abort \/ (copySwitch(v, o) /\ MayCopy(o))
    BY <1>6 DEF CopyAssign, CopyConstruct
  <2>2. ASSUME copySwitch(v, o), MayCopy(o)
        PROVE  StepKinds
    <3>1. SparesOthers({v}) /\ Held(v)' = Held(o)
      BY <2>2, SwitchHolds DEF Careful
    <3>2. Held(o) \in ValuesHeld
      BY DEF Readable
    <3>3. Gives(v, Held(o))
      BY <3>1, <3>2 DEF Gives
    <3>4. QED
      BY <1>0, <3>3
  <2>3. QED
    BY <1>a, <2>1, <2>2
<1>7. ASSUME NEW v \in Vars, NEW o \in Vars, MoveAssign(v, o) \/ MoveConstruct(v, o)
      PROVE  StepKinds
  <2>1. moveFrom(v, o) /\ o # v
    BY <1>7 DEF MoveAssign, MoveConstruct
  <2>2. SparesOthers({v, o}) /\ Held(v)' = Held(o) /\ Held(o)' = Nothing
    BY <2>1, MoveHolds
  <2>3. QED
    BY <2>1, <2>2 DEF StepKinds
<1>8. CASE UNCHANGED vars
  BY <1>8 DEF vars, StepKinds
<1>9. QED
  BY <1>1, <1>2, <1>3, <1>4, <1>5, <1>6, <1>7, <1>8 DEF Next, Stopped

\* The values stay readable.
LEMMA ReadableStep ==
    ASSUME Inv, Readable, StepKinds
    PROVE  Readable'
<1>1. ASSUME NEW v \in Vars, NEW x \in ValuesHeld, Gives(v, x)
      PROVE  Readable'
  <2>1. ASSUME NEW u \in Vars PROVE Held(u)' \in ValuesHeld
    <3>1. CASE u = v
      BY <1>1, <3>1 DEF Gives
    <3>2. CASE u # v
      <4>1. u \in Vars \ {v} /\ SparesOthers({v})
        BY <1>1, <3>2 DEF Gives
      <4>2. Held(u)' = Held(u)
        BY <4>1, OthersHold
      <4>3. QED
        BY <4>2 DEF Readable
    <3>3. QED
      BY <3>1, <3>2
  <2>2. QED
    BY <2>1 DEF Readable, ValuesHeld, Nothing
<1>2. ASSUME NEW v \in Vars, NEW o \in Vars, SparesOthers({v, o}),
             Held(v)' = Held(o), Held(o)' = Nothing
      PROVE  Readable'
  <2>1. ASSUME NEW u \in Vars PROVE Held(u)' \in ValuesHeld
    <3>1. CASE u = v
      BY <1>2, <3>1 DEF Readable
    <3>2. CASE u = o
      BY <1>2, <3>2 DEF ValuesHeld
    <3>3. CASE u \notin {v, o}
      <4>1. u \in Vars \ {v, o}
        BY <3>3
      <4>2. Held(u)' = Held(u)
        BY <1>2, <4>1, OthersHold
      <4>3. QED
        BY <4>2 DEF Readable
    <3>4. QED
      BY <3>1, <3>2, <3>3
  <2>2. QED
    BY <2>1 DEF Readable, ValuesHeld, Nothing
<1>3. CASE UNCHANGED <<type, field, heap>>
  <2>1. ASSUME NEW u \in Vars PROVE Held(u)' = Held(u)
    BY <1>3, HeldIs
  <2>2. QED
    BY <2>1 DEF Readable, ValuesHeld, Nothing
<1>4. QED
  BY <1>1, <1>2, <1>3 DEF StepKinds

\* A step of one of these kinds is a step of the abstract specification.
LEMMA ValueStep ==
    ASSUME Inv, StepKinds
    PROVE  [Value!Next]_[v \in Vars |-> Held(v)]
<1> DEFINE value == [v \in Vars |-> Held(v)]
           next == [v \in Vars |-> Held(v)']
<1>n. value' = next
  OBVIOUS
<1>1. ASSUME NEW v \in Vars, NEW x \in ValuesHeld, Gives(v, x)
      PROVE  Value!Next
  <2>1. \A u \in Vars \ {v} : Held(u)' = Held(u)
    BY <1>1, OthersHold DEF Gives
  <2>2. Held(v)' = x
    BY <1>1 DEF Gives
  <2>3. next = [value EXCEPT ![v] = x]
    BY <2>1, <2>2
  <2>4. Value!Set(v, x)
    BY <1>n, <2>3 DEF Value!Set
  <2>5. QED
    BY <2>4 DEF Value!Next
<1>2. ASSUME NEW v \in Vars, NEW o \in Vars, o # v, SparesOthers({v, o}),
             Held(v)' = Held(o), Held(o)' = Nothing
      PROVE  Value!Next
  <2>1. \A u \in Vars \ {v, o} : Held(u)' = Held(u)
    BY <1>2, OthersHold
  <2>2. next = [value EXCEPT ![v] = value[o], ![o] = Nothing]
    BY <1>2, <2>1
  <2>3. Value!Move(v, o)
    BY <1>2, <1>n, <2>2 DEF Value!Move
  <2>4. QED
    BY <2>3 DEF Value!Next
<1>3. CASE UNCHANGED <<type, field, heap>>
  <2>1. \A u \in Vars : Held(u)' = Held(u)
    BY <1>3, HeldIs
  <2>2. next = value
    BY <2>1
  <2>3. QED
    BY <1>n, <2>2
<1>4. QED
  BY <1>1, <1>2, <1>3 DEF StepKinds

\* Variants are values: the union, the heap and the operations on them
\* implement a map from objects to values, in which constructing, assigning,
\* copying, moving and destroying one Variant changes no other, and what is
\* moved is held once.  For every client that copies neither C strings nor
\* Dates and assigns no bool or byte over a pointer.
THEOREM ValueSafety ==
    ASSUME Careful
    PROVE  Spec => ValueSemantics
<1>1. Init => Readable /\ Value!Init
  <2> SUFFICES ASSUME Init PROVE Readable /\ Value!Init
    OBVIOUS
  <2>1. ASSUME NEW v \in Vars PROVE Held(v) = Nothing
    <3>1. type[v] = "none"
      BY DEF Init
    <3>2. QED
      BY <3>1, HeldIs, HeldBits
  <2>2. Readable
    BY <2>1 DEF Readable, ValuesHeld
  <2>3. Value!Init
    BY <2>1 DEF Value!Init
  <2>4. QED
    BY <2>2, <2>3
<1>2. Inv /\ Readable /\ [Next]_vars => Readable' /\ StepKinds
  BY StepIsOfAKind, ReadableStep
<1>3. Inv /\ Readable /\ [Next]_vars => Readable'
  BY <1>2
<1>4. Inv /\ Readable /\ [Next]_vars => [Value!Next]_[v \in Vars |-> Held(v)]
  BY <1>2, ValueStep
<1>5. Spec => Value!Spec
  BY <1>1, <1>3, <1>4, Safety, PTL DEF Spec, Value!Spec
<1>6. QED
  BY <1>5 DEF ValueSemantics
===============================================================================
