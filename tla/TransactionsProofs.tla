-------------------------- MODULE TransactionsProofs ---------------------------
(***************************************************************************)
(* What holds of Transactions whatever fails: for any rows, any names, any *)
(* depth of nesting and any set of faults, _inTransaction never denies a   *)
(* transaction, and inSavePoint never lies about what it has done.         *)
(***************************************************************************)
EXTENDS Transactions, SequenceTheorems, TLAPS

\* The types of what the tasks change.
Typed == eng \in Engine /\ inTransaction \in BOOLEAN /\ calls \in Seq(Call)

Inv == Typed /\ FlagNeverDenies /\ SavepointsMatchCalls

-------------------------------------------------------------------------------
(* What the statements do to the engine.                                   *)

\* No savepoint is added: the stack is cut back, or stays.
Shrinks(e, f) ==
    /\ f \in Engine
    /\ Len(f.saves) <= Len(e.saves)
    /\ \A i \in 1..Len(f.saves) : f.saves[i] = e.saves[i]

\* A transaction that begin opened.
Begun(e) == ~e.auto /\ ~e.implicit

\* The engine's stack and its elements have their types.
LEMMA SavesType ==
    ASSUME NEW e \in Engine
    PROVE  /\ e.saves \in Seq(Savepoint)
           /\ Len(e.saves) \in Nat
           /\ DOMAIN e.saves = 1..Len(e.saves)
           /\ \A i \in 1..Len(e.saves) : e.saves[i] \in Savepoint
<1>1. e.saves \in Seq(Savepoint)
  BY DEF Engine
<1>2. QED
  BY <1>1, LenProperties, ElementOfSeq

\* A statement that does nothing adds no savepoint.
LEMMA ShrinksRefl ==
    ASSUME NEW e \in Engine
    PROVE  Shrinks(e, e)
BY SavesType DEF Shrinks

\* Statements executed one after the other.
LEMMA ShrinksTrans ==
    ASSUME NEW e \in Engine, NEW f, NEW g, Shrinks(e, f), Shrinks(f, g)
    PROVE  Shrinks(e, g)
<1>1. f \in Engine /\ g \in Engine
  BY DEF Shrinks
<1>2. Len(e.saves) \in Nat /\ Len(f.saves) \in Nat /\ Len(g.saves) \in Nat
  BY <1>1, SavesType
<1>3. QED
  BY <1>1, <1>2 DEF Shrinks

\* An ended transaction has no savepoints left.
LEMMA EndedShrinks ==
    ASSUME NEW e \in Engine, NEW rows \in SUBSET Rows
    PROVE  Shrinks(e, Ended(rows)) /\ ~Begun(Ended(rows)) /\ Ended(rows).saves = <<>>
<1>1. <<>> \in Seq(Savepoint) /\ Len(<<>>) = 0
  BY EmptySeq
<1>2. Ended(rows) \in Engine /\ Ended(rows).saves = <<>> /\ Ended(rows).auto
  BY <1>1 DEF Ended, Engine
<1>3. QED
  BY <1>1, <1>2, SavesType DEF Shrinks, Begun

\* What the code gets to see of a statement.
LEMMA OutcomeFields ==
    ASSUME NEW ok \in BOOLEAN, NEW e
    PROVE  Outcome(ok, e).ok = ok /\ Outcome(ok, e).eng = e
BY DEF Outcome

\* beginTransaction adds no savepoint, and opens nothing when it fails.
LEMMA BeginEffect ==
    ASSUME NEW e \in Engine, NEW d \in BOOLEAN, NEW o \in beginTransaction(e, d)
    PROVE  Shrinks(e, o.eng) /\ o.ok \in BOOLEAN /\ (Begun(o.eng) => Begun(e) \/ o.ok)
<1>1. CASE o = Outcome(TRUE, [e EXCEPT !.auto = FALSE])
  <2>1. o.ok = TRUE /\ o.eng = [e EXCEPT !.auto = FALSE]
    BY <1>1, OutcomeFields
  <2>2. o.eng \in Engine /\ o.eng.saves = e.saves
    BY <2>1 DEF Engine
  <2>3. Shrinks(e, o.eng)
    BY <2>2, SavesType DEF Shrinks
  <2>4. QED
    BY <2>1, <2>3
<1>2. CASE o = Outcome(FALSE, e)
  <2>1. o.ok = FALSE /\ o.eng = e
    BY <1>2, OutcomeFields
  <2>2. QED
    BY <2>1, ShrinksRefl
<1>3. QED
  BY <1>1, <1>2 DEF beginTransaction, MayFail

\* commit and rollback keep the transaction or end it.
LEMMA EndEffect ==
    ASSUME NEW e \in Engine, NEW o \in commit(e) \union rollback(e)
    PROVE  /\ Shrinks(e, o.eng)
           /\ o.ok \in BOOLEAN
           /\ o.ok => ~Begun(o.eng)
           /\ Begun(o.eng) => Begun(e)
<1>0. e.now \in SUBSET Rows /\ e.disk \in SUBSET Rows
  BY DEF Engine
<1>1. CASE \E rows \in SUBSET Rows : o = Outcome(TRUE, Ended(rows))
  <2>1. PICK rows \in SUBSET Rows : o = Outcome(TRUE, Ended(rows))
    BY <1>1
  <2>2. o.ok = TRUE /\ o.eng = Ended(rows)
    BY <2>1, OutcomeFields
  <2>3. QED
    BY <2>2, EndedShrinks
<1>2. CASE o = Outcome(FALSE, e)
  <2>1. o.ok = FALSE /\ o.eng = e
    BY <1>2, OutcomeFields
  <2>2. QED
    BY <2>1, ShrinksRefl
<1>3. QED
  BY <1>0, <1>1, <1>2 DEF commit, rollback, MayFail

\* No name is on the engine's stack twice.
Distinct(e) ==
    \A i, j \in DOMAIN e.saves : e.saves[i].name = e.saves[j].name => i = j

\* Cutting the stack back makes no name appear twice.
LEMMA DistinctShrinks ==
    ASSUME NEW e \in Engine, NEW f, Shrinks(e, f), Distinct(e)
    PROVE  Distinct(f)
<1>1. DOMAIN f.saves = 1..Len(f.saves) /\ DOMAIN e.saves = 1..Len(e.saves)
  BY SavesType DEF Shrinks
<1>2. Len(f.saves) \in Nat /\ Len(e.saves) \in Nat /\ Len(f.saves) <= Len(e.saves)
  BY SavesType DEF Shrinks
<1>3. QED
  BY <1>1, <1>2 DEF Shrinks, Distinct

\* Find returns where the name is, if it is there.
LEMMA FindSpec ==
    ASSUME NEW e \in Engine, Distinct(e), NEW n
    PROVE  \/ /\ Find(e, n) = 0
              /\ \A i \in 1..Len(e.saves) : e.saves[i].name # n
           \/ /\ Find(e, n) \in 1..Len(e.saves)
              /\ e.saves[Find(e, n)].name = n
<1>0. DOMAIN e.saves = 1..Len(e.saves) /\ Len(e.saves) \in Nat
  BY SavesType
<1>1. CASE \E i \in DOMAIN e.saves : e.saves[i].name = n
  <2> DEFINE Last(i) == /\ e.saves[i].name = n
                        /\ \A j \in DOMAIN e.saves : j > i => e.saves[j].name # n
  <2>1. PICK i \in DOMAIN e.saves : e.saves[i].name = n
    BY <1>1
  <2>2. Last(i)
    <3>1. ASSUME NEW j \in DOMAIN e.saves, j > i, e.saves[j].name = n
          PROVE  FALSE
      <4>1. i = j
        BY <2>1, <3>1 DEF Distinct
      <4>2. QED
        BY <1>0, <3>1, <4>1
    <3>2. QED
      BY <2>1, <3>1
  <2>3. Find(e, n) = CHOOSE k \in DOMAIN e.saves : Last(k)
    BY <1>1 DEF Find
  <2>4. Find(e, n) \in DOMAIN e.saves /\ Last(Find(e, n))
    <3> HIDE DEF Last
    <3>1. QED
      BY <2>2, <2>3
  <2>5. QED
    BY <1>0, <2>4
<1>2. CASE ~\E i \in DOMAIN e.saves : e.saves[i].name = n
  BY <1>0, <1>2 DEF Find
<1>3. QED
  BY <1>1, <1>2

\* Cutting the stack back to its first k savepoints.
LEMMA CutBack ==
    ASSUME NEW e \in Engine, NEW k \in 0..Len(e.saves), NEW f \in Engine,
           f.saves = SubSeq(e.saves, 1, k)
    PROVE  Shrinks(e, f) /\ Len(f.saves) = k
<1>1. e.saves \in Seq(Savepoint) /\ Len(e.saves) \in Nat
  BY SavesType
<1>2. \A i \in 1..k : e.saves[i] \in Savepoint
  BY <1>1, SavesType
<1>3. Len(f.saves) = k /\ \A i \in 1..k : f.saves[i] = e.saves[i]
  BY <1>1, <1>2, SubSeqProperties
<1>4. QED
  BY <1>1, <1>3 DEF Shrinks

\* The first k savepoints are a stack of savepoints.
LEMMA CutBackType ==
    ASSUME NEW e \in Engine, NEW k \in 0..Len(e.saves)
    PROVE  SubSeq(e.saves, 1, k) \in Seq(Savepoint)
<1>1. Len(e.saves) \in Nat
  BY SavesType
<1>2. \A i \in 1..k : e.saves[i] \in Savepoint
  BY <1>1, SavesType
<1>3. QED
  BY <1>1, <1>2, SubSeqProperties

\* "release savepoint": when it succeeds, the savepoint is gone and the data
\* stays.
LEMMA ReleaseEffect ==
    ASSUME NEW e \in Engine, Distinct(e), NEW n, NEW o \in releaseSavePointWithName(e, n)
    PROVE  /\ Shrinks(e, o.eng)
           /\ o.ok \in BOOLEAN
           /\ Begun(o.eng) => Begun(e)
           /\ o.ok => /\ o.eng.now = e.now
                      /\ \A i \in DOMAIN o.eng.saves : o.eng.saves[i].name # n
<1> DEFINE i == Find(e, n)
<1>0. e.now \in SUBSET Rows
  BY DEF Engine
<1>1. CASE o = Outcome(FALSE, e)
  <2>1. o.ok = FALSE /\ o.eng = e
    BY <1>1, OutcomeFields
  <2>2. QED
    BY <2>1, ShrinksRefl
<1>2. CASE o = Outcome(TRUE, Ended(e.now))
  <2>1. o.ok = TRUE /\ o.eng = Ended(e.now)
    BY <1>2, OutcomeFields
  <2>2. o.eng.saves = <<>> /\ o.eng.now = e.now
    BY <2>1 DEF Ended
  <2>3. DOMAIN o.eng.saves = {}
    BY <2>2
  <2>4. QED
    BY <1>0, <2>1, <2>2, <2>3, EndedShrinks
<1>3. CASE i # 0 /\ o = Outcome(TRUE, [e EXCEPT !.saves = SubSeq(@, 1, i - 1)])
  <2>1. i \in 1..Len(e.saves) /\ e.saves[i].name = n
    BY <1>3, FindSpec
  <2>2. Len(e.saves) \in Nat /\ DOMAIN e.saves = 1..Len(e.saves)
    BY SavesType
  <2>3. i - 1 \in 0..Len(e.saves)
    BY <2>1, <2>2
  <2>4. SubSeq(e.saves, 1, i - 1) \in Seq(Savepoint)
    BY <2>3, CutBackType
  <2> HIDE DEF i
  <2>5. /\ o.ok = TRUE
        /\ o.eng \in Engine
        /\ o.eng.saves = SubSeq(e.saves, 1, i - 1)
        /\ o.eng.now = e.now
        /\ o.eng.auto = e.auto /\ o.eng.implicit = e.implicit
    BY <1>3, <2>4 DEF Outcome, Engine
  <2>6. Shrinks(e, o.eng) /\ Len(o.eng.saves) = i - 1
    BY <2>3, <2>5, CutBack
  <2>7. ASSUME NEW j \in DOMAIN o.eng.saves, o.eng.saves[j].name = n
        PROVE  FALSE
    <3>1. j \in 1..(i - 1)
      BY <2>5, <2>6, <2>7, SavesType
    <3>2. j \in DOMAIN e.saves /\ j # i /\ i \in DOMAIN e.saves
      BY <2>1, <2>2, <3>1
    <3>3. e.saves[j].name = n
      BY <2>6, <2>7, <3>1 DEF Shrinks
    <3>4. QED
      BY <2>1, <3>2, <3>3 DEF Distinct
  <2>8. QED
    BY <2>5, <2>6, <2>7 DEF Begun
<1>4. QED
  BY <1>1, <1>2, <1>3 DEF releaseSavePointWithName, MayFail

\* "rollback to savepoint": when it succeeds, the data is the savepoint's,
\* which stays.
LEMMA RollbackToEffect ==
    ASSUME NEW e \in Engine, Distinct(e), NEW n, NEW o \in rollbackToSavePointWithName(e, n)
    PROVE  /\ Shrinks(e, o.eng)
           /\ o.ok \in BOOLEAN
           /\ Begun(o.eng) => Begun(e)
           /\ o.ok => \E i \in 1..Len(e.saves) :
                          e.saves[i].name = n /\ o.eng.now = e.saves[i].snap
<1> DEFINE i == Find(e, n)
<1>1. CASE o = Outcome(FALSE, e)
  <2>1. o.ok = FALSE /\ o.eng = e
    BY <1>1, OutcomeFields
  <2>2. QED
    BY <2>1, ShrinksRefl
<1>2. CASE i # 0 /\ o = Outcome(TRUE, [e EXCEPT !.now = e.saves[i].snap,
                                                !.saves = SubSeq(@, 1, i)])
  <2>1. i \in 1..Len(e.saves) /\ e.saves[i].name = n
    BY <1>2, FindSpec
  <2>2. Len(e.saves) \in Nat /\ e.saves[i] \in Savepoint
    BY <2>1, SavesType
  <2>3. i \in 0..Len(e.saves)
    BY <2>1, <2>2
  <2>4. SubSeq(e.saves, 1, i) \in Seq(Savepoint) /\ e.saves[i].snap \in SUBSET Rows
    BY <2>2, <2>3, CutBackType DEF Savepoint
  <2> HIDE DEF i
  <2>5. /\ o.ok = TRUE
        /\ o.eng \in Engine
        /\ o.eng.saves = SubSeq(e.saves, 1, i)
        /\ o.eng.now = e.saves[i].snap
        /\ o.eng.auto = e.auto /\ o.eng.implicit = e.implicit
    BY <1>2, <2>4 DEF Outcome, Engine
  <2>6. QED
    BY <2>1, <2>3, <2>5, CutBack DEF Begun
<1>3. QED
  BY <1>1, <1>2 DEF rollbackToSavePointWithName, MayFail

\* An insert adds no savepoint.
LEMMA InsertEffect ==
    ASSUME NEW e \in Engine, NEW w \in Rows, NEW o \in insert(e, w)
    PROVE  Shrinks(e, o.eng) /\ o.ok \in BOOLEAN /\ (Begun(o.eng) => Begun(e))
<1> DEFINE inTr == [e EXCEPT !.now = @ \union {w}]
           onDisk == [e EXCEPT !.now = @ \union {w}, !.disk = @ \union {w}]
<1>0. e.disk \in SUBSET Rows
  BY DEF Engine
<1>1. ASSUME NEW f \in {inTr, onDisk}
      PROVE  Shrinks(e, f) /\ (Begun(f) => Begun(e))
  <2>1. CASE f = inTr
    <3>1. f.saves = e.saves /\ f.auto = e.auto /\ f.implicit = e.implicit
      BY <2>1 DEF Engine
    <3>2. f \in Engine
      BY <2>1 DEF Engine
    <3>3. QED
      BY <3>1, <3>2, SavesType DEF Shrinks, Begun
  <2>2. CASE f = onDisk
    <3>1. f.saves = e.saves /\ f.auto = e.auto /\ f.implicit = e.implicit
      BY <2>2 DEF Engine
    <3>2. f \in Engine
      BY <2>2 DEF Engine
    <3>3. QED
      BY <3>1, <3>2, SavesType DEF Shrinks, Begun
  <2>3. QED
    BY <1>1, <2>1, <2>2
<1>2. Shrinks(e, Ended(e.disk)) /\ ~Begun(Ended(e.disk)) /\ Shrinks(e, e)
  BY <1>0, ShrinksRefl, EndedShrinks
<1>3. \/ o = Outcome(TRUE, inTr)
      \/ o = Outcome(TRUE, onDisk)
      \/ o = Outcome(FALSE, e)
      \/ o = Outcome(FALSE, Ended(e.disk))
  BY DEF insert, MayFail
<1> HIDE DEF inTr, onDisk
<1>4. o.ok \in BOOLEAN /\ o.eng \in {inTr, onDisk, e, Ended(e.disk)}
  BY <1>3, OutcomeFields
<1>5. QED
  BY <1>1, <1>2, <1>4

\* "savepoint": a failure changes nothing, success puts one on the stack.
LEMMA StartEffect ==
    ASSUME NEW e \in Engine, NEW n \in Names, NEW o \in startSavePointWithName(e, n)
    PROVE  /\ o.ok \in BOOLEAN
           /\ ~o.ok => o.eng = e
           /\ o.ok => /\ o.eng \in Engine
                      /\ o.eng.saves = Append(e.saves, [name |-> n, snap |-> e.now])
           /\ Begun(o.eng) => Begun(e)
<1>1. CASE o = Outcome(FALSE, e)
  BY <1>1, OutcomeFields
<1>2. CASE o = Outcome(TRUE, [e EXCEPT !.auto = FALSE,
                                       !.implicit = @ \/ e.auto,
                                       !.saves = Append(@, [name |-> n, snap |-> e.now])])
  <2>1. [name |-> n, snap |-> e.now] \in Savepoint /\ e.saves \in Seq(Savepoint)
    BY DEF Savepoint, Engine
  <2>2. Append(e.saves, [name |-> n, snap |-> e.now]) \in Seq(Savepoint)
    BY <2>1
  <2> DEFINE longer == Append(e.saves, [name |-> n, snap |-> e.now])
             opened == e.implicit \/ e.auto
  <2>3. opened \in BOOLEAN
    OBVIOUS
  <2>4. o.ok = TRUE /\ o.eng = [e EXCEPT !.auto = FALSE, !.implicit = opened, !.saves = longer]
    BY <1>2, OutcomeFields
  <2> HIDE DEF longer, opened
  <2>5. /\ o.eng \in Engine
        /\ o.eng.saves = longer
        /\ o.eng.implicit = opened
    BY <2>2, <2>3, <2>4 DEF Engine, longer
  <2>6. QED
    BY <2>4, <2>5 DEF Begun, opened, longer
<1>3. QED
  BY <1>1, <1>2 DEF startSavePointWithName, MayFail

-------------------------------------------------------------------------------
(* What entering and leaving do to the stack of calls.                     *)

Kinds == {"inDatabase", "inTransaction", "queueSavePoint", "inSavePoint", "client"}

\* No call is added, and those that stay keep their names and snapshots.
KeepsCalls(c, d) ==
    /\ d \in Seq(Call)
    /\ Len(d) <= Len(c)
    /\ \A i \in 1..Len(d) : d[i].name = c[i].name /\ d[i].start = c[i].start

\* The stack of calls and its elements have their types.
LEMMA CallsType ==
    ASSUME NEW c \in Seq(Call)
    PROVE  /\ Len(c) \in Nat
           /\ DOMAIN c = 1..Len(c)
           /\ \A i \in 1..Len(c) : c[i] \in Call
           /\ c # <<>> => Len(c) \in 1..Len(c)
<1>1. Len(c) \in Nat /\ DOMAIN c = 1..Len(c)
  BY LenProperties
<1>2. c # <<>> => Len(c) \in Nat \ {0}
  BY EmptySeq
<1>3. QED
  BY <1>1, <1>2, ElementOfSeq

\* A step that leaves the calls alone.
LEMMA SameCalls ==
    ASSUME NEW c \in Seq(Call)
    PROVE  KeepsCalls(c, c)
BY CallsType DEF KeepsCalls

\* Recording what a call wrote changes neither its name nor its snapshot.
LEMMA WroteKeeps ==
    ASSUME NEW c \in Seq(Call), NEW i \in 1..Len(c), NEW W \in SUBSET Rows
    PROVE  KeepsCalls(c, [c EXCEPT ![i].wrote = W])
<1> DEFINE new == [c[i] EXCEPT !.wrote = W]
<1>1. Len(c) \in Nat /\ c[i] \in Call /\ c \in [1..Len(c) -> Call]
  BY CallsType, LenProperties
<1>2. new \in Call /\ new.name = c[i].name /\ new.start = c[i].start
  BY <1>1 DEF Call
<1>3. [c EXCEPT ![i].wrote = W] = [c EXCEPT ![i] = new]
  OBVIOUS
<1> HIDE DEF new
<1>4. /\ [c EXCEPT ![i] = new] \in Seq(Call)
      /\ Len([c EXCEPT ![i] = new]) = Len(c)
      /\ \A j \in 1..Len(c) : [c EXCEPT ![i] = new][j] = IF j = i THEN new ELSE c[j]
  BY <1>2, ExceptSeq
<1>5. QED
  BY <1>1, <1>2, <1>3, <1>4 DEF KeepsCalls

\* Two changes to the calls, one after the other.
LEMMA KeepsCallsTrans ==
    ASSUME NEW c \in Seq(Call), NEW d, NEW f, KeepsCalls(c, d), KeepsCalls(d, f)
    PROVE  KeepsCalls(c, f)
<1>1. Len(c) \in Nat /\ Len(d) \in Nat /\ Len(f) \in Nat
  BY CallsType DEF KeepsCalls
<1>2. QED
  BY <1>1 DEF KeepsCalls

\* A call that returns leaves the others as they are.
LEMMA LeaveKeeps ==
    ASSUME calls \in Seq(Call), calls # <<>>, NEW kept \in BOOLEAN, Leave(kept)
    PROVE  KeepsCalls(calls, calls')
<1> DEFINE n == Len(calls)
           rest == SubSeq(calls, 1, n - 1)
           W == rest[n - 1].wrote \union (IF kept THEN Top.wrote ELSE {})
<1>1. n \in Nat /\ n \in 1..n /\ calls[n] \in Call
  BY CallsType
<1>2. CASE n = 1
  <2>1. calls' = <<>>
    BY <1>2 DEF Leave
  <2>2. QED
    BY <1>1, <2>1, EmptySeq DEF KeepsCalls
<1>3. CASE n # 1
  <2>1. \A i \in 1..(n - 1) : calls[i] \in Call
    BY <1>1, CallsType
  <2>2. /\ rest \in Seq(Call)
        /\ Len(rest) = n - 1
        /\ \A i \in 1..(n - 1) : rest[i] = calls[i]
    <3>1. PICK k \in Nat : k = n - 1
      BY <1>1
    <3>2. \A i \in 1..k : calls[i] \in Call
      BY <2>1, <3>1
    <3>3. /\ SubSeq(calls, 1, k) \in Seq(Call)
          /\ Len(SubSeq(calls, 1, k)) = k
          /\ \A i \in 1..k : SubSeq(calls, 1, k)[i] = calls[i]
      BY <3>1, <3>2, SubSeqProperties
    <3>4. QED
      BY <3>1, <3>3
  <2>3. KeepsCalls(calls, rest)
    BY <1>1, <2>2 DEF KeepsCalls
  <2>4. n - 1 \in 1..Len(rest)
    BY <1>1, <1>3, <2>2
  <2>5. calls' = [rest EXCEPT ![n - 1].wrote = W]
    BY <1>3, <2>4 DEF Leave
  <2>6. W \in SUBSET Rows
    BY <1>1, <2>1, <2>2, <2>4 DEF Top, Call
  <2> HIDE DEF rest, W
  <2>7. KeepsCalls(rest, calls')
    BY <2>2, <2>4, <2>5, <2>6, WroteKeeps
  <2>8. QED
    BY <2>3, <2>7, KeepsCallsTrans
<1>4. QED
  BY <1>2, <1>3

\* A call that starts is put on top, with what it finds in the database.
LEMMA EnterPushes ==
    ASSUME eng \in Engine, calls \in Seq(Call), NEW k \in Kinds,
           NEW n \in Names \union {NoName}, Enter(k, n)
    PROVE  /\ calls' \in Seq(Call)
           /\ Len(calls') = Len(calls) + 1
           /\ \A i \in 1..Len(calls) : calls'[i] = calls[i]
           /\ calls'[Len(calls) + 1].kind = k
           /\ calls'[Len(calls) + 1].name = n
           /\ calls'[Len(calls) + 1].start = eng.now
           /\ calls'[Len(calls) + 1].wrote = {}
<1> DEFINE c == [kind |-> k, name |-> n, start |-> eng.now, wrote |-> {}]
<1>1. c \in Call /\ c.kind = k /\ c.name = n /\ c.start = eng.now /\ c.wrote = {}
  BY DEF Call, Engine, Kinds
<1>2. calls' = Append(calls, c)
  BY DEF Enter
<1> HIDE DEF c
<1>3. QED
  BY <1>1, <1>2

-------------------------------------------------------------------------------
(* The three ways in which a step touches savepoints and calls.            *)

\* Nothing is added to either stack.
LEMMA MatchWhenShrinking ==
    ASSUME Typed, SavepointsMatchCalls, Shrinks(eng, eng'), KeepsCalls(calls, calls')
    PROVE  SavepointsMatchCalls'
<1>1. eng \in Engine /\ eng' \in Engine /\ calls \in Seq(Call) /\ calls' \in Seq(Call)
  BY DEF Typed, Shrinks, KeepsCalls
<1>2. /\ DOMAIN eng.saves = 1..Len(eng.saves) /\ DOMAIN eng'.saves = 1..Len(eng'.saves)
      /\ DOMAIN calls = 1..Len(calls) /\ DOMAIN calls' = 1..Len(calls')
      /\ Len(eng.saves) \in Nat /\ Len(eng'.saves) \in Nat
      /\ Len(calls) \in Nat /\ Len(calls') \in Nat
  BY <1>1, SavesType, CallsType
<1>3. /\ \A i \in DOMAIN eng'.saves : i \in DOMAIN eng.saves /\ eng'.saves[i] = eng.saves[i]
      /\ \A j \in DOMAIN calls' : /\ j \in DOMAIN calls
                                  /\ calls'[j].name = calls[j].name
                                  /\ calls'[j].start = calls[j].start
  BY <1>2 DEF Shrinks, KeepsCalls
<1>4. QED
  BY <1>3 DEF SavepointsMatchCalls

\* A call without a name is added.
LEMMA MatchWhenEntering ==
    ASSUME Typed, SavepointsMatchCalls, Shrinks(eng, eng'),
           NEW k \in Kinds, Enter(k, NoName)
    PROVE  calls' \in Seq(Call) /\ SavepointsMatchCalls'
<1>1. eng \in Engine /\ eng' \in Engine /\ calls \in Seq(Call)
  BY DEF Typed, Shrinks
<1>2. /\ calls' \in Seq(Call)
      /\ Len(calls') = Len(calls) + 1
      /\ \A i \in 1..Len(calls) : calls'[i] = calls[i]
      /\ calls'[Len(calls) + 1].name = NoName
  BY <1>1, EnterPushes
<1>3. /\ DOMAIN eng.saves = 1..Len(eng.saves) /\ DOMAIN eng'.saves = 1..Len(eng'.saves)
      /\ DOMAIN calls = 1..Len(calls) /\ DOMAIN calls' = 1..Len(calls')
      /\ Len(eng.saves) \in Nat /\ Len(eng'.saves) \in Nat /\ Len(calls) \in Nat
  BY <1>1, <1>2, SavesType, CallsType
<1>4. \A i \in 1..Len(eng'.saves) : eng'.saves[i].name # NoName
  BY <1>1, SavesType, NamesAssumption DEF Savepoint
<1>5. \A j \in DOMAIN calls' : j \in DOMAIN calls \/ j = Len(calls) + 1
  BY <1>2, <1>3
<1>6. \A i \in DOMAIN eng'.saves : i \in DOMAIN eng.saves /\ eng'.saves[i] = eng.saves[i]
  BY <1>3 DEF Shrinks
<1>7. \A i \in DOMAIN eng'.saves, j \in DOMAIN calls' :
          eng'.saves[i].name = calls'[j].name => j \in DOMAIN calls /\ calls'[j] = calls[j]
  BY <1>2, <1>3, <1>4, <1>5
<1>8. QED
  BY <1>2, <1>6, <1>7 DEF SavepointsMatchCalls

\* A savepoint and the call that started it are added.
LEMMA MatchWhenStarting ==
    ASSUME Typed, SavepointsMatchCalls, NEW n \in Names, FreshName(n), eng' \in Engine,
           eng'.saves = Append(eng.saves, [name |-> n, snap |-> eng.now]),
           NEW k \in Kinds, Enter(k, n)
    PROVE  calls' \in Seq(Call) /\ SavepointsMatchCalls'
<1> DEFINE m == Len(eng.saves)
           c == Len(calls)
<1>1. eng \in Engine /\ calls \in Seq(Call)
  BY DEF Typed
<1>2. /\ calls' \in Seq(Call)
      /\ Len(calls') = c + 1
      /\ \A i \in 1..c : calls'[i] = calls[i]
      /\ calls'[c + 1].name = n /\ calls'[c + 1].start = eng.now
  BY <1>1, EnterPushes
<1>3. /\ Len(eng'.saves) = m + 1
      /\ \A i \in 1..m : eng'.saves[i] = eng.saves[i]
      /\ eng'.saves[m + 1].name = n /\ eng'.saves[m + 1].snap = eng.now
  BY <1>1, SavesType
<1>4. /\ DOMAIN eng.saves = 1..m /\ DOMAIN eng'.saves = 1..(m + 1)
      /\ DOMAIN calls = 1..c /\ DOMAIN calls' = 1..(c + 1)
      /\ m \in Nat /\ c \in Nat
  BY <1>1, <1>2, <1>3, SavesType, CallsType
<1>5. /\ \A i \in 1..m : eng.saves[i].name # n
      /\ \A i \in 1..c : calls[i].name # n
  BY <1>4 DEF FreshName
<1>6. /\ \A i \in DOMAIN eng'.saves : i \in 1..m \/ i = m + 1
      /\ \A j \in DOMAIN calls' : j \in 1..c \/ j = c + 1
  BY <1>4
<1> HIDE DEF m, c
<1>7. ASSUME NEW i \in DOMAIN eng'.saves, NEW j \in DOMAIN eng'.saves,
             eng'.saves[i].name = eng'.saves[j].name
      PROVE  i = j
  <2>1. CASE i \in 1..m /\ j \in 1..m
    <3>1. eng.saves[i].name = eng.saves[j].name
      BY <1>3, <1>7, <2>1
    <3>2. QED
      BY <1>4, <2>1, <3>1 DEF SavepointsMatchCalls
  <2>2. CASE i = m + 1 \/ j = m + 1
    BY <1>3, <1>5, <1>6, <1>7, <2>2
  <2>3. QED
    BY <1>6, <2>1, <2>2
<1>8. ASSUME NEW i \in DOMAIN eng'.saves, NEW j \in DOMAIN calls',
             eng'.saves[i].name = calls'[j].name
      PROVE  eng'.saves[i].snap = calls'[j].start
  <2>1. CASE i \in 1..m /\ j \in 1..c
    <3>1. eng'.saves[i] = eng.saves[i] /\ calls'[j] = calls[j]
      BY <1>2, <1>3, <2>1
    <3>2. QED
      BY <1>4, <1>8, <2>1, <3>1 DEF SavepointsMatchCalls
  <2>2. CASE i = m + 1 \/ j = c + 1
    BY <1>2, <1>3, <1>5, <1>6, <1>8, <2>2
  <2>3. QED
    BY <1>6, <2>1, <2>2
<1>9. QED
  BY <1>2, <1>7, <1>8 DEF SavepointsMatchCalls

-------------------------------------------------------------------------------
(* One lemma per action.                                                   *)

\* The parts of a step's proof that are the same for all actions.
LEMMA InvParts ==
    ASSUME Inv
    PROVE  /\ eng \in Engine /\ inTransaction \in BOOLEAN /\ calls \in Seq(Call)
           /\ Distinct(eng)
           /\ Begun(eng) => inTransaction
BY DEF Inv, Typed, FlagNeverDenies, SavepointsMatchCalls, Distinct, Begun

\* What a step has to show.
LEMMA InvFromParts ==
    ASSUME eng' \in Engine, inTransaction' \in BOOLEAN, calls' \in Seq(Call),
           Begun(eng') => inTransaction', SavepointsMatchCalls'
    PROVE  Inv'
BY DEF Inv, Typed, FlagNeverDenies, Begun

\* A step that adds neither a savepoint nor a call.
LEMMA ShrinkingStep ==
    ASSUME Inv, Shrinks(eng, eng'), KeepsCalls(calls, calls'),
           inTransaction' \in BOOLEAN, Begun(eng') => inTransaction'
    PROVE  Inv'
<1>1. eng' \in Engine /\ calls' \in Seq(Call)
  BY DEF Shrinks, KeepsCalls
<1>2. SavepointsMatchCalls'
  BY MatchWhenShrinking DEF Inv
<1>3. QED
  BY <1>1, <1>2, InvFromParts

\* A step that adds a call without a name, and no savepoint.
LEMMA EnteringStep ==
    ASSUME Inv, Shrinks(eng, eng'), NEW k \in Kinds, Enter(k, NoName),
           inTransaction' \in BOOLEAN, Begun(eng') => inTransaction'
    PROVE  Inv'
<1>1. calls' \in Seq(Call) /\ SavepointsMatchCalls'
  BY MatchWhenEntering DEF Inv
<1>2. eng' \in Engine
  BY DEF Shrinks
<1>3. QED
  BY <1>1, <1>2, InvFromParts

\* FMDatabaseQueue::inDatabase, before and after its block.
LEMMA InDatabaseStep ==
    ASSUME Inv, InDatabase \/ InDatabaseEnds
    PROVE  Inv'
<1>0. eng' = eng /\ inTransaction' = inTransaction
  BY DEF InDatabase, InDatabaseEnds
<1>1. Shrinks(eng, eng') /\ inTransaction' \in BOOLEAN /\ (Begun(eng') => inTransaction')
  BY <1>0, InvParts, ShrinksRefl
<1>2. CASE InDatabase
  <2>1. Enter("inDatabase", NoName) /\ "inDatabase" \in Kinds
    BY <1>2 DEF InDatabase, Kinds
  <2>2. QED
    BY <1>1, <2>1, EnteringStep
<1>3. CASE InDatabaseEnds
  <2>1. KeepsCalls(calls, calls')
    BY <1>3, InvParts, LeaveKeeps DEF InDatabaseEnds, TopIs
  <2>2. QED
    BY <1>1, <2>1, ShrinkingStep
<1>4. QED
  BY <1>2, <1>3

\* FMDatabaseQueue::inTransaction up to its block.
LEMMA InTransactionStep ==
    ASSUME Inv, NEW deferred \in BOOLEAN, InTransaction(deferred)
    PROVE  Inv'
<1>1. PICK o \in beginTransaction(eng, deferred) :
          eng' = o.eng /\ inTransaction' = (inTransaction \/ o.ok)
  BY DEF InTransaction
<1>2. Shrinks(eng, eng') /\ inTransaction' \in BOOLEAN /\ (Begun(eng') => inTransaction')
  BY <1>1, InvParts, BeginEffect
<1>3. Enter("inTransaction", NoName) /\ "inTransaction" \in Kinds
  BY DEF InTransaction, Kinds
<1>4. QED
  BY <1>2, <1>3, EnteringStep

\* FMDatabaseQueue::inTransaction after its block.
LEMMA InTransactionEndsStep ==
    ASSUME Inv, NEW shouldRollback \in BOOLEAN, InTransactionEnds(shouldRollback)
    PROVE  Inv'
<1>1. PICK o \in commit(eng) \union rollback(eng) :
          eng' = o.eng /\ inTransaction' = (inTransaction /\ ~o.ok)
  BY DEF InTransactionEnds
<1>2. Shrinks(eng, eng') /\ inTransaction' \in BOOLEAN /\ (Begun(eng') => inTransaction')
  BY <1>1, InvParts, EndEffect
<1>3. KeepsCalls(calls, calls')
  BY InvParts, LeaveKeeps DEF InTransactionEnds, TopIs
<1>4. QED
  BY <1>2, <1>3, ShrinkingStep

\* Both calls that start a savepoint and then run a block.
LEMMA StartingStep ==
    ASSUME Inv, NEW n \in Names, FreshName(n), NEW k \in Kinds,
           NEW o \in startSavePointWithName(eng, n), eng' = o.eng,
           IF o.ok THEN Enter(k, n) ELSE UNCHANGED calls,
           UNCHANGED inTransaction
    PROVE  Inv'
<1>0. eng \in Engine /\ calls \in Seq(Call) /\ inTransaction' \in BOOLEAN
  BY InvParts
<1>1. Begun(eng') => inTransaction'
  BY <1>0, InvParts, StartEffect
<1>2. CASE o.ok
  <2>1. eng' \in Engine /\ eng'.saves = Append(eng.saves, [name |-> n, snap |-> eng.now])
    BY <1>0, <1>2, StartEffect
  <2>2. calls' \in Seq(Call) /\ SavepointsMatchCalls'
    BY <1>2, <2>1, MatchWhenStarting DEF Inv
  <2>3. QED
    BY <1>0, <1>1, <2>1, <2>2, InvFromParts
<1>3. CASE ~o.ok
  <2>1. eng' = eng /\ calls' = calls
    BY <1>0, <1>3, StartEffect
  <2>2. QED
    BY <1>0, <1>1, <2>1, ShrinksRefl, SameCalls, ShrinkingStep
<1>4. QED
  BY <1>2, <1>3

\* FMDatabaseQueue::inSavePoint up to its block.
LEMMA QueueSavePointStep ==
    ASSUME Inv, NEW n \in Names, QueueSavePoint(n)
    PROVE  Inv'
<1>1. "queueSavePoint" \in Kinds
  BY DEF Kinds
<1>2. PICK o \in startSavePointWithName(eng, n) :
          eng' = o.eng /\ IF o.ok THEN Enter("queueSavePoint", n) ELSE UNCHANGED calls
  BY DEF QueueSavePoint
<1>3. FreshName(n) /\ UNCHANGED inTransaction
  BY DEF QueueSavePoint
<1>4. QED
  BY <1>1, <1>2, <1>3, StartingStep

\* FMDatabase::inSavePoint up to its block.
LEMMA InSavePointStep ==
    ASSUME Inv, NEW n \in Names, InSavePoint(n)
    PROVE  Inv'
<1>1. "inSavePoint" \in Kinds
  BY DEF Kinds
<1>2. PICK o \in startSavePointWithName(eng, n) :
          eng' = o.eng /\ IF o.ok THEN Enter("inSavePoint", n) ELSE UNCHANGED calls
  BY DEF InSavePoint
<1>3. FreshName(n) /\ UNCHANGED inTransaction
  BY DEF InSavePoint
<1>4. QED
  BY <1>1, <1>2, <1>3, StartingStep

\* A rollback to a savepoint, if asked for.
LEMMA MaybeRollbackTo ==
    ASSUME Inv, NEW shouldRollback \in BOOLEAN, NEW n,
           NEW o \in IF shouldRollback THEN rollbackToSavePointWithName(eng, n)
                                       ELSE {Outcome(TRUE, eng)}
    PROVE  /\ Shrinks(eng, o.eng) /\ o.eng \in Engine /\ Distinct(o.eng)
           /\ o.ok \in BOOLEAN
           /\ Begun(o.eng) => Begun(eng)
<1>1. Shrinks(eng, o.eng) /\ o.ok \in BOOLEAN /\ (Begun(o.eng) => Begun(eng))
  <2>1. CASE shouldRollback
    BY <2>1, InvParts, RollbackToEffect
  <2>2. CASE ~shouldRollback
    <3>1. o = Outcome(TRUE, eng)
      BY <2>2
    <3>2. o.ok = TRUE /\ o.eng = eng
      BY <3>1, OutcomeFields
    <3>3. QED
      BY <3>2, InvParts, ShrinksRefl
  <2>3. QED
    BY <2>1, <2>2
<1>2. QED
  BY <1>1, InvParts, DistinctShrinks DEF Shrinks

\* FMDatabaseQueue::inSavePoint after its block.
LEMMA QueueSavePointEndsStep ==
    ASSUME Inv, NEW shouldRollback \in BOOLEAN, QueueSavePointEnds(shouldRollback)
    PROVE  Inv'
<1>1. PICK o \in IF shouldRollback THEN rollbackToSavePointWithName(eng, Top.name)
                                   ELSE {Outcome(TRUE, eng)} :
          \E p \in releaseSavePointWithName(o.eng, Top.name) : eng' = p.eng
  BY DEF QueueSavePointEnds
<1>2. PICK p \in releaseSavePointWithName(o.eng, Top.name) : eng' = p.eng
  BY <1>1
<1>3. /\ Shrinks(eng, o.eng) /\ o.eng \in Engine /\ Distinct(o.eng)
      /\ Begun(o.eng) => Begun(eng)
  BY MaybeRollbackTo
<1>4. Shrinks(o.eng, eng') /\ (Begun(eng') => Begun(o.eng))
  BY <1>2, <1>3, ReleaseEffect
<1>5. Shrinks(eng, eng')
  BY <1>3, <1>4, InvParts, ShrinksTrans
<1>6. KeepsCalls(calls, calls')
  BY InvParts, LeaveKeeps DEF QueueSavePointEnds, TopIs
<1>7. inTransaction' = inTransaction
  BY DEF QueueSavePointEnds
<1>8. QED
  BY <1>3, <1>4, <1>5, <1>6, <1>7, InvParts, ShrinkingStep

\* FMDatabase::inSavePoint after its block.
LEMMA InSavePointEndsStep ==
    ASSUME Inv, NEW shouldRollback \in BOOLEAN, NEW returned \in BOOLEAN,
           InSavePointEnds(shouldRollback, returned)
    PROVE  Inv'
<1>1. PICK o \in IF shouldRollback THEN rollbackToSavePointWithName(eng, Top.name)
                                   ELSE {Outcome(TRUE, eng)} :
          \E p \in (IF o.ok THEN releaseSavePointWithName(o.eng, Top.name) ELSE {o}) :
             eng' = p.eng
  BY DEF InSavePointEnds
<1>2. PICK p \in (IF o.ok THEN releaseSavePointWithName(o.eng, Top.name) ELSE {o}) :
          eng' = p.eng
  BY <1>1
<1>3. /\ Shrinks(eng, o.eng) /\ o.eng \in Engine /\ Distinct(o.eng)
      /\ Begun(o.eng) => Begun(eng)
  BY MaybeRollbackTo
<1>4. Shrinks(o.eng, eng') /\ (Begun(eng') => Begun(o.eng))
  BY <1>2, <1>3, ReleaseEffect, ShrinksRefl
<1>5. Shrinks(eng, eng')
  BY <1>3, <1>4, InvParts, ShrinksTrans
<1>6. KeepsCalls(calls, calls')
  BY InvParts, LeaveKeeps DEF InSavePointEnds, TopIs
<1>7. inTransaction' = inTransaction
  BY DEF InSavePointEnds
<1>8. QED
  BY <1>3, <1>4, <1>5, <1>6, <1>7, InvParts, ShrinkingStep

\* executeUpdate, whether the engine accepts it, fails it or rolls back.
LEMMA InsertStep ==
    ASSUME Inv, NEW w \in Rows, Insert(w)
    PROVE  Inv'
<1> DEFINE n == Len(calls)
<1>1. PICK o \in insert(eng, w) :
          /\ eng' = o.eng
          /\ calls' = [calls EXCEPT ![n].wrote = IF o.ok THEN @ \union {w} ELSE @]
  BY DEF Insert
<1>2. Shrinks(eng, eng') /\ (Begun(eng') => Begun(eng))
  BY <1>1, InvParts, InsertEffect
<1>3. n \in 1..Len(calls) /\ calls[n] \in Call
  BY InvParts, CallsType DEF Insert
<1> DEFINE W == IF o.ok THEN calls[n].wrote \union {w} ELSE calls[n].wrote
<1>4. W \in SUBSET Rows /\ calls' = [calls EXCEPT ![n].wrote = W]
  BY <1>1, <1>3 DEF Call
<1> HIDE DEF W, n
<1>5. KeepsCalls(calls, calls')
  BY <1>3, <1>4, InvParts, WroteKeeps
<1>6. inTransaction' = inTransaction
  BY DEF Insert
<1>7. QED
  BY <1>2, <1>5, <1>6, InvParts, ShrinkingStep

\* The client's own beginTransaction, commit and rollback.
LEMMA ClientStep ==
    ASSUME Inv, (\E deferred \in BOOLEAN : BeginTransaction(deferred)) \/ Commit \/ Rollback
    PROVE  Inv'
<1>1. ASSUME NEW deferred \in BOOLEAN, BeginTransaction(deferred)
      PROVE  Inv'
  <2>1. PICK o \in beginTransaction(eng, deferred) :
            /\ eng' = o.eng /\ inTransaction' = (inTransaction \/ o.ok)
            /\ IF o.ok THEN Enter("client", NoName) ELSE UNCHANGED calls
    BY <1>1 DEF BeginTransaction
  <2>2. Shrinks(eng, eng') /\ inTransaction' \in BOOLEAN /\ (Begun(eng') => inTransaction')
    BY <2>1, InvParts, BeginEffect
  <2>3. CASE Enter("client", NoName)
    <3>1. "client" \in Kinds
      BY DEF Kinds
    <3>2. QED
      BY <2>2, <2>3, <3>1, EnteringStep
  <2>4. CASE UNCHANGED calls
    BY <2>2, <2>4, InvParts, SameCalls, ShrinkingStep
  <2>5. QED
    BY <2>1, <2>3, <2>4
<1>2. CASE Commit \/ Rollback
  <2>1. PICK o \in commit(eng) \union rollback(eng) :
            eng' = o.eng /\ inTransaction' = (inTransaction /\ ~o.ok)
    BY <1>2 DEF Commit, Rollback
  <2>2. Shrinks(eng, eng') /\ inTransaction' \in BOOLEAN /\ (Begun(eng') => inTransaction')
    BY <2>1, InvParts, EndEffect
  <2>3. calls # <<>> /\ (Leave(TRUE) \/ Leave(FALSE) \/ calls' = calls)
    BY <1>2 DEF Commit, Rollback, TopIs
  <2>4. KeepsCalls(calls, calls')
    BY <2>3, InvParts, LeaveKeeps, SameCalls
  <2>5. QED
    BY <2>2, <2>4, ShrinkingStep
<1>3. QED
  BY <1>1, <1>2

\* close() and open() while calls are running.
LEMMA ReopenStep ==
    ASSUME Inv, Reopen
    PROVE  Inv'
<1>1. eng.disk \in SUBSET Rows
  BY InvParts DEF Engine
<1>2. Shrinks(eng, eng') /\ ~Begun(eng')
  BY <1>1, InvParts, EndedShrinks DEF Reopen
<1>3. calls' = calls /\ inTransaction' = inTransaction
  BY DEF Reopen
<1>4. QED
  BY <1>2, <1>3, InvParts, SameCalls, ShrinkingStep

-------------------------------------------------------------------------------
(* The theorems.                                                           *)

\* A database that has just been opened: no transaction, no savepoint.
LEMMA InitHolds == Init => Inv
<1> SUFFICES ASSUME Init PROVE Inv
  OBVIOUS
<1>1. {} \in SUBSET Rows /\ <<>> \in Seq(Savepoint) /\ <<>> \in Seq(Call)
  BY EmptySeq
<1>2. eng \in Engine /\ eng.auto = TRUE /\ eng.saves = <<>>
  BY <1>1 DEF Init, Ended, Engine
<1>3. DOMAIN eng.saves = {}
  BY <1>2
<1>4. QED
  BY <1>1, <1>2, <1>3 DEF Init, Inv, Typed, FlagNeverDenies, SavepointsMatchCalls

\* Inv is an invariant: whatever statements fail, _inTransaction denies no
\* transaction that beginTransaction opened, and the savepoints on SQLite's
\* stack are those of the calls with their names.
THEOREM Safety == Spec => []Inv
<1>1. Init => Inv
  BY InitHolds
<1>2. Inv /\ [Next]_vars => Inv'
  <2> SUFFICES ASSUME Inv, [Next]_vars PROVE Inv'
    OBVIOUS
  <2>1. CASE Next
    BY <2>1, InDatabaseStep, InTransactionStep, InTransactionEndsStep, QueueSavePointStep,
       QueueSavePointEndsStep, InsertStep, InSavePointStep, InSavePointEndsStep, ClientStep,
       ReopenStep DEF Next, Step
  <2>2. CASE UNCHANGED vars
    BY <2>2 DEF vars, Inv, Typed, FlagNeverDenies, SavepointsMatchCalls
  <2>3. QED
    BY <2>1, <2>2
<1>3. QED
  BY <1>1, <1>2, PTL DEF Spec

\* Every variable keeps its type: the engine's state is one SQLite can be in,
\* and every running call of inSavePoint has a name.
THEOREM TypeSafety == Spec => []TypeOK
<1>1. Init => TypeOK
  BY InitHolds DEF Init, Inv, Typed, TypeOK
<1>2. TypeOK /\ Inv' /\ [Next]_vars => TypeOK'
  BY DEF Inv, Typed, TypeOK, Next, vars
<1>3. QED
  BY <1>1, <1>2, Safety, PTL DEF Spec

\* FMDatabase::inTransaction() never denies a transaction.
THEOREM FlagSafety == Spec => []FlagNeverDenies
<1>1. Inv => FlagNeverDenies
  BY DEF Inv
<1>2. QED
  BY <1>1, Safety, PTL

\* A savepoint on SQLite's stack that has a running call's name was started
\* by that call and restores what it found: no failure of FMDatabase's or the
\* queue's inSavePoint makes two calls share one.
THEOREM SavepointSafety == Spec => []SavepointsMatchCalls
<1>1. Inv => SavepointsMatchCalls
  BY DEF Inv
<1>2. QED
  BY <1>1, Safety, PTL

\* FMDatabase::inSavePoint never returns true for what it has not done: its
\* savepoint is gone and, after a rollback, the data is what it found.
THEOREM HonestSavePoints == Spec => SavePointCallHonest
<1>1. ASSUME Inv, NEW shouldRollback \in BOOLEAN, InSavePointEnds(shouldRollback, TRUE)
      PROVE  /\ \A i \in DOMAIN eng'.saves : eng'.saves[i].name # Top.name
             /\ shouldRollback => eng'.now = Top.start
  <2>1. PICK o \in IF shouldRollback THEN rollbackToSavePointWithName(eng, Top.name)
                                     ELSE {Outcome(TRUE, eng)} :
            \E p \in (IF o.ok THEN releaseSavePointWithName(o.eng, Top.name) ELSE {o}) :
               eng' = p.eng /\ TRUE = p.ok
    BY <1>1 DEF InSavePointEnds
  <2>2. PICK p \in (IF o.ok THEN releaseSavePointWithName(o.eng, Top.name) ELSE {o}) :
            eng' = p.eng /\ TRUE = p.ok
    BY <2>1
  <2>3. o.eng \in Engine /\ Distinct(o.eng) /\ o.ok \in BOOLEAN
    BY <1>1, MaybeRollbackTo
  <2>4. o.ok /\ p \in releaseSavePointWithName(o.eng, Top.name)
    BY <2>2, <2>3
  <2>5. /\ eng'.now = o.eng.now
        /\ \A i \in DOMAIN eng'.saves : eng'.saves[i].name # Top.name
    BY <2>2, <2>3, <2>4, ReleaseEffect
  <2>6. ASSUME shouldRollback
        PROVE  eng'.now = Top.start
    <3>1. o \in rollbackToSavePointWithName(eng, Top.name)
      BY <2>1, <2>6
    <3>2. PICK i \in 1..Len(eng.saves) :
              eng.saves[i].name = Top.name /\ o.eng.now = eng.saves[i].snap
      BY <1>1, <2>4, <3>1, InvParts, RollbackToEffect
    <3>3. i \in DOMAIN eng.saves /\ Len(calls) \in DOMAIN calls
      BY <1>1, InvParts, SavesType, CallsType DEF InSavePointEnds, TopIs
    <3>4. eng.saves[i].snap = Top.start
      BY <1>1, <3>2, <3>3 DEF Inv, SavepointsMatchCalls, Top
    <3>5. QED
      BY <2>5, <3>2, <3>4
  <2>7. QED
    BY <2>5, <2>6
<1>2. Inv => [\A shouldRollback \in BOOLEAN : InSavePointEnds(shouldRollback, TRUE) =>
                 /\ \A i \in DOMAIN eng'.saves : eng'.saves[i].name # Top.name
                 /\ shouldRollback => eng'.now = Top.start]_vars
  BY <1>1
<1>3. QED
  BY <1>2, Safety, PTL DEF SavePointCallHonest
================================================================================
