------------------------ MODULE TransactionsMildProofs ------------------------
(***************************************************************************)
(* What holds of Transactions when a failing statement undoes no more than *)
(* itself: for any rows, any names and any depth of nesting, a rollback    *)
(* restores exactly what the call found, a commit keeps exactly what was   *)
(* inserted and not undone, and nothing is durable before the task ends.   *)
(***************************************************************************)
EXTENDS TransactionsProofs

\* The calls at the bottom of the stack that started no savepoint are b: none,
\* a task that runs its block bare or in a transaction, or inDatabase and the
\* transaction its block began.  Every call above them started one.
Bare(b, c) ==
    /\ b <= Len(c)
    /\ \A i \in 1..Len(c) :
          i > b => c[i].kind = IF i = 1 THEN "queueSavePoint" ELSE "inSavePoint"
    /\ b = 1 => c[1].kind \in {"inDatabase", "inTransaction"}
    /\ b = 2 => c[1].kind = "inDatabase" /\ c[2].kind = "client"

\* One of those calls began a transaction: the topmost.
Begins(b, c) == b = 2 \/ (b = 1 /\ c[1].kind = "inTransaction")

\* The engine's savepoints are those of the other calls, in their order.
Stacked(b, e, c) ==
    /\ Len(e.saves) = Len(c) - b
    /\ \A i \in 1..Len(e.saves) :
          e.saves[i].name = c[b + i].name /\ e.saves[i].snap = c[b + i].start

\* A transaction is open if a call began one or started a savepoint, and
\* _inTransaction knows the first kind.
Moded(b, e, c, flag) ==
    /\ e.auto <=> ~Begins(b, c) /\ Len(c) = b
    /\ e.implicit <=> ~Begins(b, c) /\ Len(c) > b
    /\ flag <=> Begins(b, c)

\* What is on disk: everything outside a transaction, and in one that begin
\* opened, what it found.
Durable(b, e, c) ==
    /\ e.auto => e.now = e.disk
    /\ Begins(b, c) => e.disk = c[b].start

\* Each call found what its caller had found and written, and the connection
\* sees what the topmost has.
Chained(e, c) ==
    /\ c # <<>> => e.now = c[Len(c)].start \union c[Len(c)].wrote
    /\ \A i \in 1..(Len(c) - 1) : c[i + 1].start = c[i].start \union c[i].wrote

Nest(b, e, c, flag) ==
    Bare(b, c) /\ Stacked(b, e, c) /\ Moded(b, e, c, flag) /\ Durable(b, e, c) /\ Chained(e, c)

\* The inductive invariant, on top of Inv.
MildInv == Mild => \E b \in 0..2 : Nest(b, eng, calls, inTransaction)

\* What every step of a mild behaviour has to show.
MildStep ==
    /\ \E b \in 0..2 : Nest(b, eng', calls', inTransaction')
    /\ calls # <<>> /\ calls[1].kind # "inDatabase" /\ calls' # <<>> => eng'.disk = eng.disk

-------------------------------------------------------------------------------
(* The stack of calls.                                                     *)

\* Which call is running says how many calls are below it without savepoint.
LEMMA TopKind ==
    ASSUME NEW c \in Seq(Call), c # <<>>, NEW b \in 0..2, Bare(b, c)
    PROVE  LET k == c[Len(c)].kind IN
           /\ k \in {"inDatabase", "inTransaction"} => b = 1 /\ Len(c) = 1
           /\ k = "queueSavePoint" => b = 0 /\ Len(c) = 1
           /\ k = "inSavePoint" => b < Len(c) /\ Len(c) > 1
           /\ k = "client" => b = 2 /\ Len(c) = 2 /\ c[1].kind = "inDatabase"
<1>1. Len(c) \in Nat /\ Len(c) \in 1..Len(c) /\ b \in Nat
  BY CallsType
<1>2. CASE b < Len(c)
  <2>1. Len(c) > b
    BY <1>1, <1>2
  <2>2. c[Len(c)].kind = IF Len(c) = 1 THEN "queueSavePoint" ELSE "inSavePoint"
    BY <1>1, <2>1 DEF Bare
  <2>3. CASE Len(c) = 1
    BY <1>1, <1>2, <2>2, <2>3
  <2>4. CASE Len(c) # 1
    <3>1. c[Len(c)].kind = "inSavePoint"
      BY <2>2, <2>4
    <3>2. PICK n \in Nat : n = Len(c)
      BY <1>1
    <3>3. n > 1
      BY <1>1, <1>2, <2>4, <3>2
    <3>4. QED
      BY <1>2, <3>1, <3>2, <3>3
  <2>5. QED
    BY <2>3, <2>4
<1>3. CASE b = Len(c)
  <2>1. b = 1 \/ b = 2
    BY <1>1, <1>3
  <2>2. QED
    BY <1>3, <2>1 DEF Bare
<1>4. QED
  BY <1>1, <1>2, <1>3 DEF Bare

\* The call on top has returned; kept says whether what it wrote counts as
\* its caller's.
Popped(c, d, kept) ==
    /\ d \in Seq(Call)
    /\ Len(d) = Len(c) - 1
    /\ \A i \in 1..Len(d) :
          d[i].kind = c[i].kind /\ d[i].name = c[i].name /\ d[i].start = c[i].start
    /\ \A i \in 1..(Len(d) - 1) : d[i].wrote = c[i].wrote
    /\ d # <<>> => d[Len(d)].wrote =
                      c[Len(d)].wrote \union (IF kept THEN c[Len(c)].wrote ELSE {})

\* Leave returns from the call on top.
LEMMA LeavePops ==
    ASSUME calls \in Seq(Call), calls # <<>>, NEW kept \in BOOLEAN, Leave(kept)
    PROVE  Popped(calls, calls', kept)
<1> DEFINE n == Len(calls)
           rest == SubSeq(calls, 1, n - 1)
           W == rest[n - 1].wrote \union (IF kept THEN Top.wrote ELSE {})
           new == [rest[n - 1] EXCEPT !.wrote = W]
<1>1. n \in Nat /\ n \in 1..n /\ calls[n] \in Call
  BY CallsType
<1>2. CASE n = 1
  <2>1. calls' = <<>> /\ calls' \in Seq(Call) /\ Len(calls') = 0
    BY <1>2, EmptySeq DEF Leave
  <2>2. QED
    BY <1>2, <2>1 DEF Popped
<1>3. CASE n # 1
  <2>1. PICK k \in Nat : k = n - 1
    BY <1>1
  <2>2. \A i \in 1..k : calls[i] \in Call
    BY <1>1, <2>1, CallsType
  <2>3. /\ rest \in Seq(Call)
        /\ Len(rest) = k
        /\ \A i \in 1..k : rest[i] = calls[i]
    <3>1. /\ SubSeq(calls, 1, k) \in Seq(Call)
          /\ Len(SubSeq(calls, 1, k)) = k
          /\ \A i \in 1..k : SubSeq(calls, 1, k)[i] = calls[i]
      BY <2>2, SubSeqProperties
    <3>2. QED
      BY <2>1, <3>1
  <2>4. k \in 1..Len(rest)
    BY <1>1, <1>3, <2>1, <2>3
  <2>5. calls' = [rest EXCEPT ![k] = new]
    BY <1>3, <2>1 DEF Leave
  <2>6. rest[k] = calls[k] /\ rest[k] \in Call /\ calls[n] = Top
    BY <2>2, <2>3, <2>4 DEF Top
  <2>7. /\ new \in Call /\ new.kind = calls[k].kind
        /\ new.name = calls[k].name /\ new.start = calls[k].start
        /\ new.wrote = calls[k].wrote \union (IF kept THEN calls[n].wrote ELSE {})
    BY <1>1, <2>1, <2>6 DEF Call
  <2> HIDE DEF rest, new, n
  <2>8. /\ calls' \in Seq(Call)
        /\ Len(calls') = k
        /\ \A i \in 1..k : calls'[i] = IF i = k THEN new ELSE rest[i]
    BY <2>3, <2>4, <2>5, <2>7, ExceptSeq
  <2>9. \A i \in 1..k : i # k => calls'[i] = calls[i]
    BY <2>3, <2>8
  <2>10. calls'[k] = new
    BY <2>3, <2>4, <2>8
  <2>11. \A i \in 1..k : /\ calls'[i].kind = calls[i].kind /\ calls'[i].name = calls[i].name
                         /\ calls'[i].start = calls[i].start
    BY <2>7, <2>9, <2>10
  <2>12. \A i \in 1..(k - 1) : calls'[i].wrote = calls[i].wrote
    BY <2>1, <2>9
  <2>13. calls'[k].wrote = calls[k].wrote \union (IF kept THEN calls[n].wrote ELSE {})
    BY <2>7, <2>10
  <2>14. QED
    BY <2>1, <2>8, <2>11, <2>12, <2>13 DEF Popped, n
<1>4. QED
  BY <1>2, <1>3

\* A call's return leaves the others chained, if the data is what it wrote
\* when that is kept and what it found when it is not.
LEMMA PopChains ==
    ASSUME NEW e, NEW f, NEW c \in Seq(Call), NEW d, NEW kept \in BOOLEAN, c # <<>>,
           Chained(e, c), Popped(c, d, kept),
           f.now = IF kept THEN e.now ELSE c[Len(c)].start
    PROVE  Chained(f, d)
<1> DEFINE n == Len(c)
           k == Len(d)
<1>1. n \in Nat /\ n >= 1 /\ k \in Nat /\ k = n - 1 /\ (d # <<>> => k >= 1)
  BY CallsType DEF Popped
<1>2. ASSUME d # <<>>
      PROVE  f.now = d[k].start \union d[k].wrote
  <2>1. k \in 1..k /\ k \in 1..(n - 1) /\ k + 1 = n
    BY <1>1, <1>2
  <2>2. c[n].start = c[k].start \union c[k].wrote
    BY <2>1 DEF Chained
  <2>3. d[k].start = c[k].start
    BY <2>1 DEF Popped
  <2>4. d[k].wrote = c[k].wrote \union (IF kept THEN c[n].wrote ELSE {})
    BY <1>2 DEF Popped
  <2>5. e.now = c[n].start \union c[n].wrote
    BY DEF Chained
  <2> HIDE DEF n, k
  <2>6. CASE kept
    BY <2>2, <2>3, <2>4, <2>5, <2>6 DEF n
  <2>7. CASE ~kept
    BY <2>2, <2>3, <2>4, <2>7 DEF n
  <2>8. QED
    BY <2>6, <2>7
<1>3. ASSUME NEW i \in 1..(k - 1)
      PROVE  d[i + 1].start = d[i].start \union d[i].wrote
  <2>1. i \in 1..k /\ i + 1 \in 1..k /\ i \in 1..(n - 1)
    BY <1>1
  <2>2. d[i].start = c[i].start /\ d[i + 1].start = c[i + 1].start
    BY <2>1 DEF Popped
  <2>3. d[i].wrote = c[i].wrote
    BY DEF Popped
  <2>4. c[i + 1].start = c[i].start \union c[i].wrote
    BY <2>1 DEF Chained
  <2>5. QED
    BY <2>2, <2>3, <2>4
<1>4. QED
  BY <1>2, <1>3 DEF Chained

\* A call that started a savepoint returns: the calls below it that did not
\* are the same, and the engine's stack matches again once its top is gone.
LEMMA PopSaved ==
    ASSUME NEW e \in Engine, NEW f \in Engine, NEW c \in Seq(Call), NEW d,
           NEW kept \in BOOLEAN, NEW b \in 0..2, b < Len(c),
           Bare(b, c), Stacked(b, e, c), Popped(c, d, kept),
           Len(f.saves) = Len(e.saves) - 1,
           \A i \in 1..Len(f.saves) : f.saves[i] = e.saves[i]
    PROVE  /\ Bare(b, d) /\ Stacked(b, f, d) /\ (Begins(b, d) <=> Begins(b, c))
           /\ b >= 1 => d[b].start = c[b].start
           /\ Len(d) = Len(c) - 1 /\ b <= Len(d)
<1> DEFINE n == Len(c)
           k == Len(d)
           m == Len(f.saves)
<1>1. /\ n \in Nat /\ k \in Nat /\ k = n - 1 /\ b \in Nat /\ b <= k
      /\ m \in Nat /\ Len(e.saves) = n - b /\ m = k - b
  BY CallsType, SavesType DEF Popped, Stacked
<1>2. \A i \in 1..k : i \in 1..n /\ d[i].kind = c[i].kind
                      /\ d[i].name = c[i].name /\ d[i].start = c[i].start
  BY <1>1 DEF Popped
<1>3. (b = 1 => 1 \in 1..k) /\ (b = 2 => 1 \in 1..k /\ 2 \in 1..k)
  BY <1>1
<1>4. \A i \in 1..m : i \in 1..Len(e.saves) /\ b + i \in 1..k
  BY <1>1
<1> HIDE DEF n, k, m
<1>5. Bare(b, d)
  <2>1. \A i \in 1..k : i > b => d[i].kind = IF i = 1 THEN "queueSavePoint" ELSE "inSavePoint"
    BY <1>2 DEF Bare, n
  <2>2. /\ b = 1 => d[1].kind \in {"inDatabase", "inTransaction"}
        /\ b = 2 => d[1].kind = "inDatabase" /\ d[2].kind = "client"
    BY <1>2, <1>3 DEF Bare
  <2>3. QED
    BY <1>1, <2>1, <2>2 DEF Bare, k
<1>6. Stacked(b, f, d)
  <2>1. \A i \in 1..m : f.saves[i].name = d[b + i].name /\ f.saves[i].snap = d[b + i].start
    BY <1>2, <1>4 DEF Stacked, m
  <2>2. QED
    BY <1>1, <2>1 DEF Stacked, m, k
<1>7. Begins(b, d) <=> Begins(b, c)
  BY <1>2, <1>3 DEF Begins
<1>8. b >= 1 => d[b].start = c[b].start
  BY <1>1, <1>2
<1>9. QED
  BY <1>1, <1>5, <1>6, <1>7, <1>8 DEF n, k

-------------------------------------------------------------------------------
(* The statements, when none of the graver faults happens.                 *)

\* A mild behaviour's faults are an insert's and a savepoint's.
LEMMA MildFaults ==
    ASSUME Mild
    PROVE  /\ "reopen" \notin faults
           /\ \A e : /\ MayFail("begin", e) = {} /\ MayFail("commit", e) = {}
                    /\ MayFail("rollbackTo", e) = {} /\ MayFail("auto", e) = {}
BY DEF Mild, StatementErrors, MayFail

\* Find finds a name where it is.
LEMMA FindsAt ==
    ASSUME NEW e \in Engine, Distinct(e), NEW m \in 1..Len(e.saves)
    PROVE  Find(e, e.saves[m].name) = m
<1> DEFINE n == e.saves[m].name
<1>1. DOMAIN e.saves = 1..Len(e.saves)
  BY SavesType
<1>2. Find(e, n) \in 1..Len(e.saves) /\ e.saves[Find(e, n)].name = n
  BY FindSpec
<1>3. QED
  BY <1>1, <1>2 DEF Distinct

\* The savepoint on top of the engine's stack is gone: with it goes the
\* transaction if it had opened it, and then everything is on disk.
Released(e, f) ==
    /\ f \in Engine
    /\ Len(f.saves) = Len(e.saves) - 1
    /\ \A i \in 1..Len(f.saves) : f.saves[i] = e.saves[i]
    /\ Len(e.saves) = 1 /\ e.implicit => f.auto /\ ~f.implicit /\ f.disk = f.now
    /\ ~(Len(e.saves) = 1 /\ e.implicit) =>
           f.auto = e.auto /\ f.implicit = e.implicit /\ f.disk = e.disk

\* "release savepoint" of the topmost savepoint.
LEMMA ReleaseTop ==
    ASSUME Mild, NEW e \in Engine, Distinct(e), Len(e.saves) >= 1, NEW n,
           n = e.saves[Len(e.saves)].name, NEW o \in releaseSavePointWithName(e, n)
    PROVE  o.ok /\ Released(e, o.eng) /\ o.eng.now = e.now
<1> DEFINE m == Len(e.saves)
<1>1. m \in Nat /\ m \in 1..Len(e.saves) /\ m - 1 \in 0..Len(e.saves) /\ m # 0
  BY SavesType
<1>2. Find(e, n) = m
  BY <1>1, FindsAt
<1>3. CASE m = 1 /\ e.implicit
  <2>1. o = Outcome(TRUE, Ended(e.now))
    BY <1>1, <1>2, <1>3, MildFaults DEF releaseSavePointWithName
  <2>2. o.ok = TRUE /\ o.eng = Ended(e.now)
    BY <2>1, OutcomeFields
  <2>3. o.eng \in Engine
    <3>1. e.now \in SUBSET Rows
      BY DEF Engine
    <3>2. QED
      BY <2>2, <3>1, EndedShrinks DEF Shrinks
  <2>4. /\ o.eng.saves = <<>> /\ o.eng.now = e.now /\ o.eng.disk = e.now
        /\ o.eng.auto = TRUE /\ o.eng.implicit = FALSE
    BY <2>2 DEF Ended
  <2>5. QED
    BY <1>3, <2>2, <2>3, <2>4, EmptySeq DEF Released
<1>4. CASE ~(m = 1 /\ e.implicit)
  <2>1. o = Outcome(TRUE, [e EXCEPT !.saves = SubSeq(@, 1, m - 1)])
    BY <1>1, <1>2, <1>4 DEF releaseSavePointWithName
  <2>2. SubSeq(e.saves, 1, m - 1) \in Seq(Savepoint)
    BY <1>1, CutBackType
  <2> HIDE DEF m
  <2>3. /\ o.ok = TRUE
        /\ o.eng \in Engine
        /\ o.eng.saves = SubSeq(e.saves, 1, m - 1)
        /\ o.eng.now = e.now /\ o.eng.disk = e.disk
        /\ o.eng.auto = e.auto /\ o.eng.implicit = e.implicit
    BY <2>1, <2>2 DEF Outcome, Engine
  <2>4. Shrinks(e, o.eng) /\ Len(o.eng.saves) = m - 1
    BY <1>1, <2>3, CutBack
  <2>5. QED
    BY <1>4, <2>3, <2>4 DEF Released, Shrinks, m
<1>5. QED
  BY <1>3, <1>4

\* "rollback to savepoint" of the topmost savepoint.
LEMMA RollbackToTop ==
    ASSUME Mild, NEW e \in Engine, Distinct(e), Len(e.saves) >= 1, NEW n,
           n = e.saves[Len(e.saves)].name, NEW o \in rollbackToSavePointWithName(e, n)
    PROVE  /\ o.ok
           /\ Shrinks(e, o.eng) /\ Len(o.eng.saves) = Len(e.saves)
           /\ o.eng.auto = e.auto /\ o.eng.implicit = e.implicit /\ o.eng.disk = e.disk
           /\ o.eng.now = e.saves[Len(e.saves)].snap
<1> DEFINE m == Len(e.saves)
<1>1. m \in Nat /\ m \in 1..Len(e.saves) /\ m \in 0..Len(e.saves) /\ m # 0
  BY SavesType
<1>2. Find(e, n) = m
  BY <1>1, FindsAt
<1>3. o = Outcome(TRUE, [e EXCEPT !.now = e.saves[m].snap, !.saves = SubSeq(@, 1, m)])
  BY <1>1, <1>2, MildFaults DEF rollbackToSavePointWithName
<1>4. SubSeq(e.saves, 1, m) \in Seq(Savepoint) /\ e.saves[m].snap \in SUBSET Rows
  BY <1>1, CutBackType, SavesType DEF Savepoint
<1> HIDE DEF m
<1>5. /\ o.ok = TRUE
      /\ o.eng \in Engine
      /\ o.eng.saves = SubSeq(e.saves, 1, m)
      /\ o.eng.now = e.saves[m].snap /\ o.eng.disk = e.disk
      /\ o.eng.auto = e.auto /\ o.eng.implicit = e.implicit
  BY <1>3, <1>4 DEF Outcome, Engine
<1>6. Shrinks(e, o.eng) /\ Len(o.eng.saves) = m
  BY <1>1, <1>5, CutBack
<1>7. QED
  BY <1>5, <1>6 DEF m

-------------------------------------------------------------------------------
(* One lemma per action: the stacks stay nested, and what the call leaves. *)

\* What a mild behaviour's invariants say of the calls and their savepoints.
LEMMA NestParts ==
    ASSUME NEW b \in 0..2, Nest(b, eng, calls, inTransaction)
    PROVE  /\ Bare(b, calls) /\ Stacked(b, eng, calls)
           /\ Moded(b, eng, calls, inTransaction)
           /\ Durable(b, eng, calls) /\ Chained(eng, calls)
BY DEF Nest

\* While a call that started a savepoint runs, a transaction is open.
LEMMA SavedMode ==
    ASSUME calls \in Seq(Call), NEW b \in 0..2, Nest(b, eng, calls, inTransaction),
           b < Len(calls)
    PROVE  /\ ~eng.auto
           /\ eng.implicit <=> ~Begins(b, calls)
           /\ inTransaction <=> Begins(b, calls)
<1>1. Len(calls) # b /\ Len(calls) > b
  BY CallsType
<1>2. Moded(b, eng, calls, inTransaction)
  BY NestParts
<1>3. QED
  BY <1>1, <1>2, Zenon DEF Moded

\* The savepoint on top of the engine's stack is the running call's.
LEMMA TopSavePoint ==
    ASSUME Inv, NEW b \in 0..2, Nest(b, eng, calls, inTransaction), b < Len(calls)
    PROVE  /\ calls # <<>> /\ Len(eng.saves) = Len(calls) - b /\ Len(eng.saves) >= 1
           /\ eng.saves[Len(eng.saves)].name = Top.name
           /\ eng.saves[Len(eng.saves)].snap = Top.start
<1>1. Len(calls) \in Nat /\ Len(eng.saves) = Len(calls) - b /\ b \in Nat
  BY InvParts, NestParts, CallsType DEF Stacked
<1>2. /\ Len(eng.saves) \in 1..Len(eng.saves) /\ b + Len(eng.saves) = Len(calls)
      /\ Len(eng.saves) >= 1
  BY <1>1
<1>3. calls # <<>>
  BY <1>1, EmptySeq
<1> DEFINE m == Len(eng.saves)
<1>4. eng.saves[m].name = calls[b + m].name /\ eng.saves[m].snap = calls[b + m].start
  BY <1>2, NestParts DEF Stacked
<1>5. eng.saves[m].name = Top.name /\ eng.saves[m].snap = Top.start
  BY <1>2, <1>4 DEF Top
<1>6. QED
  BY <1>1, <1>2, <1>3, <1>5

\* The end of a call that started a savepoint, with or without a rollback.
LEMMA SavePointEndsEffect ==
    ASSUME Mild, Inv, NEW b \in 0..2, Nest(b, eng, calls, inTransaction), b < Len(calls),
           NEW shouldRollback \in BOOLEAN,
           NEW o \in IF shouldRollback THEN rollbackToSavePointWithName(eng, Top.name)
                                       ELSE {Outcome(TRUE, eng)},
           NEW p, o.ok => p \in releaseSavePointWithName(o.eng, Top.name)
    PROVE  /\ o.ok /\ p.ok /\ Released(eng, p.eng)
           /\ p.eng.now = IF shouldRollback THEN Top.start ELSE eng.now
<1>1. eng \in Engine /\ Distinct(eng) /\ Len(eng.saves) \in Nat
  BY InvParts, SavesType
<1>2. /\ o.ok /\ Shrinks(eng, o.eng) /\ Len(o.eng.saves) = Len(eng.saves)
      /\ o.eng.auto = eng.auto /\ o.eng.implicit = eng.implicit /\ o.eng.disk = eng.disk
      /\ o.eng.now = IF shouldRollback THEN Top.start ELSE eng.now
  <2>1. CASE shouldRollback
    BY <1>1, <2>1, TopSavePoint, RollbackToTop
  <2>2. CASE ~shouldRollback
    <3>1. o.ok = TRUE /\ o.eng = eng
      BY <2>2, OutcomeFields
    <3>2. QED
      BY <1>1, <2>2, <3>1, ShrinksRefl
  <2>3. QED
    BY <2>1, <2>2
<1>3. o.eng \in Engine /\ Distinct(o.eng)
  BY <1>1, <1>2, DistinctShrinks DEF Shrinks
<1>4. Len(o.eng.saves) \in 1..Len(o.eng.saves) /\ Len(o.eng.saves) >= 1
  BY <1>1, <1>2, TopSavePoint
<1>5. Top.name = o.eng.saves[Len(o.eng.saves)].name
  BY <1>2, <1>4, TopSavePoint DEF Shrinks
<1>6. p.ok /\ Released(o.eng, p.eng) /\ p.eng.now = o.eng.now
  BY <1>2, <1>3, <1>4, <1>5, ReleaseTop
<1>7. Released(eng, p.eng)
  <2>1. p.eng \in Engine /\ Len(p.eng.saves) \in Nat /\ Len(p.eng.saves) = Len(o.eng.saves) - 1
    BY <1>6, SavesType DEF Released
  <2>2. \A i \in 1..Len(p.eng.saves) : p.eng.saves[i] = eng.saves[i]
    BY <1>1, <1>2, <1>6, <2>1 DEF Released, Shrinks
  <2>3. QED
    BY <1>2, <1>6, <2>1, <2>2 DEF Released
<1>8. QED
  BY <1>2, <1>6, <1>7

\* Such an end keeps the stacks nested.
LEMMA SavePointEndsNest ==
    ASSUME Mild, Inv, NEW b \in 0..2, Nest(b, eng, calls, inTransaction), b < Len(calls),
           NEW kept \in BOOLEAN, Leave(kept), Released(eng, eng'),
           eng'.now = IF kept THEN eng.now ELSE Top.start, UNCHANGED inTransaction
    PROVE  MildStep
<1> DEFINE n == Len(calls)
<1>1. /\ eng \in Engine /\ eng' \in Engine /\ calls \in Seq(Call) /\ calls # <<>>
      /\ n \in Nat /\ b \in Nat /\ Len(eng.saves) = n - b
  BY InvParts, CallsType, TopSavePoint DEF Released
<1>2. Popped(calls, calls', kept)
  BY <1>1, LeavePops
<1>3. /\ Bare(b, calls') /\ Stacked(b, eng', calls')
      /\ Begins(b, calls') <=> Begins(b, calls)
      /\ b >= 1 => calls'[b].start = calls[b].start
      /\ Len(calls') = n - 1 /\ b <= Len(calls')
  <2>1. /\ Len(eng'.saves) = Len(eng.saves) - 1
        /\ \A i \in 1..Len(eng'.saves) : eng'.saves[i] = eng.saves[i]
    BY DEF Released
  <2>2. Bare(b, calls) /\ Stacked(b, eng, calls)
    BY NestParts
  <2>3. QED
    BY <1>1, <1>2, <2>1, <2>2, PopSaved
<1>4. Chained(eng', calls')
  BY <1>1, <1>2, NestParts, PopChains DEF Top
<1>5. CASE n - b = 1 /\ eng.implicit
  <2>1. eng'.auto /\ ~eng'.implicit /\ eng'.disk = eng'.now
    BY <1>1, <1>5 DEF Released
  <2>2. ~Begins(b, calls) /\ ~inTransaction /\ Len(calls') = b
    BY <1>1, <1>3, <1>5, NestParts DEF Moded
  <2>3. Moded(b, eng', calls', inTransaction') /\ Durable(b, eng', calls')
    BY <1>3, <2>1, <2>2 DEF Moded, Durable
  <2>4. calls[1].kind # "inDatabase" => calls' = <<>>
    <3>1. b # 2
      BY <2>2 DEF Begins
    <3>2. b = 1 => calls[1].kind = "inDatabase"
      BY <2>2, NestParts DEF Begins, Bare
    <3>3. b = 0 => Len(calls') = 0 /\ calls' \in Seq(Call)
      BY <1>2, <2>2 DEF Popped
    <3>4. QED
      BY <3>1, <3>2, <3>3, EmptySeq
  <2>5. QED
    BY <1>3, <1>4, <2>3, <2>4 DEF MildStep, Nest
<1>6. CASE ~(n - b = 1 /\ eng.implicit)
  <2>1. eng'.auto = eng.auto /\ eng'.implicit = eng.implicit /\ eng'.disk = eng.disk
    BY <1>1, <1>6 DEF Released
  <2>2. Moded(b, eng', calls', inTransaction')
    <3>1. /\ eng.implicit <=> ~Begins(b, calls)
          /\ ~eng.auto
          /\ inTransaction <=> Begins(b, calls)
      BY <1>1, SavedMode
    <3>2. eng.implicit => n - 1 > b
      BY <1>1, <1>6
    <3>3. CASE Begins(b, calls)
      BY <1>3, <2>1, <3>1, <3>3 DEF Moded
    <3>4. CASE ~Begins(b, calls)
      <4>1. Len(calls') > b /\ Len(calls') # b
        BY <1>1, <1>3, <3>1, <3>2, <3>4
      <4>2. QED
        BY <1>3, <2>1, <3>1, <3>4, <4>1 DEF Moded
    <3>5. QED
      BY <3>3, <3>4
  <2>3. Durable(b, eng', calls')
    <3>1. ~eng.auto
      BY <1>1, SavedMode
    <3>2. Begins(b, calls) => b >= 1
      BY DEF Begins
    <3>3. QED
      BY <1>3, <2>1, <3>1, <3>2, NestParts DEF Durable
  <2>4. QED
    BY <1>3, <1>4, <2>1, <2>2, <2>3 DEF MildStep, Nest
<1>7. QED
  BY <1>5, <1>6

\* A step that changes nothing: a failed statement.
LEMMA SameStep ==
    ASSUME NEW b \in 0..2, Nest(b, eng, calls, inTransaction),
           UNCHANGED <<eng, calls, inTransaction>>
    PROVE  MildStep
BY DEF MildStep

\* Between tasks.
LEMMA Idle ==
    ASSUME NEW b \in 0..2, Nest(b, eng, calls, inTransaction), calls = <<>>
    PROVE  /\ b = 0 /\ ~inTransaction /\ eng.auto /\ ~eng.implicit
           /\ eng.now = eng.disk /\ Len(eng.saves) = 0
<1>1. Len(calls) = 0
  BY EmptySeq
<1>2. b = 0 /\ Len(eng.saves) = 0
  BY <1>1, NestParts DEF Bare, Stacked
<1>3. ~Begins(b, calls) /\ Len(calls) = b /\ ~(Len(calls) > b)
  BY <1>1, <1>2 DEF Begins
<1>4. Moded(b, eng, calls, inTransaction) /\ Durable(b, eng, calls)
  BY NestParts
<1>5. ~inTransaction /\ eng.auto /\ ~eng.implicit
  BY <1>3, <1>4, Zenon DEF Moded
<1>6. QED
  BY <1>2, <1>4, <1>5 DEF Durable

\* A call that starts finds what the connection sees and has written nothing.
LEMMA PushChains ==
    ASSUME eng \in Engine, calls \in Seq(Call), Chained(eng, calls),
           NEW k \in Kinds, NEW n \in Names \union {NoName}, Enter(k, n), eng'.now = eng.now
    PROVE  Chained(eng', calls')
<1> DEFINE m == Len(calls)
<1>1. /\ calls' \in Seq(Call) /\ Len(calls') = m + 1
      /\ \A i \in 1..m : calls'[i] = calls[i]
      /\ calls'[m + 1].start = eng.now /\ calls'[m + 1].wrote = {}
  BY EnterPushes
<1>2. m \in Nat /\ (calls # <<>> => m \in 1..m)
  BY CallsType
<1>3. eng'.now = calls'[Len(calls')].start \union calls'[Len(calls')].wrote
  BY <1>1
<1>4. ASSUME NEW i \in 1..(Len(calls') - 1)
      PROVE  calls'[i + 1].start = calls'[i].start \union calls'[i].wrote
  <2>1. i \in 1..m /\ calls'[i] = calls[i] /\ calls # <<>>
    BY <1>1, <1>2, EmptySeq
  <2>2. CASE i = m
    BY <1>1, <2>1, <2>2 DEF Chained
  <2>3. CASE i # m
    <3>1. i \in 1..(m - 1) /\ i + 1 \in 1..m
      BY <1>2, <2>1, <2>3
    <3>2. calls'[i + 1] = calls[i + 1]
      BY <1>1, <3>1
    <3>3. QED
      BY <2>1, <3>1, <3>2 DEF Chained
  <2>4. QED
    BY <2>2, <2>3
<1>5. QED
  BY <1>3, <1>4 DEF Chained

\* A call that starts no savepoint is put on calls that started none.
LEMMA PushBare ==
    ASSUME eng \in Engine, calls \in Seq(Call), NEW b \in 0..1, Len(calls) = b,
           Bare(b, calls), Stacked(b, eng, calls), NEW k \in Kinds, Enter(k, NoName),
           eng'.saves = eng.saves,
           b = 0 => k \in {"inDatabase", "inTransaction"},
           b = 1 => k = "client" /\ calls[1].kind = "inDatabase"
    PROVE  /\ Bare(b + 1, calls') /\ Stacked(b + 1, eng', calls') /\ Len(calls') = b + 1
           /\ Begins(b + 1, calls') <=> k # "inDatabase"
           /\ calls'[b + 1].start = eng.now
<1>1. /\ calls' \in Seq(Call) /\ Len(calls') = b + 1
      /\ \A i \in 1..b : calls'[i] = calls[i]
      /\ calls'[b + 1].kind = k /\ calls'[b + 1].start = eng.now
  BY EnterPushes
<1>2. Len(eng.saves) = 0
  BY DEF Stacked
<1>3. Bare(b + 1, calls')
  BY <1>1 DEF Bare
<1>4. Stacked(b + 1, eng', calls')
  BY <1>1, <1>2 DEF Stacked
<1>5. Begins(b + 1, calls') <=> k # "inDatabase"
  <2>1. CASE b = 0
    BY <1>1, <2>1 DEF Begins
  <2>2. CASE b = 1
    BY <1>1, <2>2 DEF Begins
  <2>3. QED
    BY <2>1, <2>2
<1>6. QED
  BY <1>1, <1>3, <1>4, <1>5

\* FMDatabaseQueue::inDatabase up to its block.
LEMMA InDatabaseMild ==
    ASSUME Inv, NEW b \in 0..2, Nest(b, eng, calls, inTransaction), InDatabase
    PROVE  MildStep
<1>0. /\ calls = <<>> /\ Enter("inDatabase", NoName) /\ eng' = eng
      /\ inTransaction' = inTransaction /\ "inDatabase" \in Kinds
  BY DEF InDatabase, Kinds
<1>1. /\ b = 0 /\ ~inTransaction /\ eng.auto /\ ~eng.implicit /\ eng.now = eng.disk
      /\ Len(calls) = 0 /\ eng \in Engine /\ calls \in Seq(Call)
  BY <1>0, Idle, EmptySeq, InvParts
<1>2. /\ Bare(1, calls') /\ Stacked(1, eng', calls') /\ Len(calls') = 1
      /\ ~Begins(1, calls')
  BY <1>0, <1>1, NestParts, PushBare
<1>3. Chained(eng', calls')
  BY <1>0, <1>1, NestParts, PushChains
<1>4. Moded(1, eng', calls', inTransaction') /\ Durable(1, eng', calls')
  BY <1>0, <1>1, <1>2 DEF Moded, Durable
<1>5. QED
  BY <1>0, <1>2, <1>3, <1>4 DEF MildStep, Nest

\* What beginTransaction does in a mild behaviour: it fails in a transaction
\* and only there.
LEMMA BeginMild ==
    ASSUME Mild, NEW e \in Engine, NEW d \in BOOLEAN, NEW o \in beginTransaction(e, d)
    PROVE  /\ o.ok \in BOOLEAN /\ (o.ok <=> e.auto)
           /\ ~o.ok => o.eng = e
           /\ o.ok => /\ o.eng \in Engine /\ o.eng.saves = e.saves
                      /\ o.eng.now = e.now /\ o.eng.disk = e.disk
                      /\ ~o.eng.auto /\ o.eng.implicit = e.implicit
<1>1. CASE e.auto
  <2>1. o = Outcome(TRUE, [e EXCEPT !.auto = FALSE])
    BY <1>1, MildFaults DEF beginTransaction
  <2>2. o.ok = TRUE /\ o.eng = [e EXCEPT !.auto = FALSE]
    BY <2>1, OutcomeFields
  <2>3. QED
    BY <1>1, <2>2 DEF Engine
<1>2. CASE ~e.auto
  <2>1. o = Outcome(FALSE, e)
    BY <1>2 DEF beginTransaction
  <2>2. QED
    BY <1>2, <2>1, OutcomeFields
<1>3. QED
  BY <1>1, <1>2

\* FMDatabaseQueue::inTransaction up to its block.
LEMMA InTransactionMild ==
    ASSUME Mild, Inv, NEW b \in 0..2, Nest(b, eng, calls, inTransaction),
           NEW deferred \in BOOLEAN, InTransaction(deferred)
    PROVE  MildStep
<1>0. calls = <<>> /\ Enter("inTransaction", NoName) /\ "inTransaction" \in Kinds
  BY DEF InTransaction, Kinds
<1>1. PICK o \in beginTransaction(eng, deferred) :
          eng' = o.eng /\ inTransaction' = (inTransaction \/ o.ok)
  BY DEF InTransaction
<1>2. /\ b = 0 /\ ~inTransaction /\ eng.auto /\ ~eng.implicit /\ eng.now = eng.disk
      /\ Len(calls) = 0 /\ eng \in Engine /\ calls \in Seq(Call)
  BY <1>0, Idle, EmptySeq, InvParts
<1>3. /\ inTransaction' /\ eng'.saves = eng.saves /\ eng'.now = eng.now
      /\ eng'.disk = eng.disk /\ ~eng'.auto /\ ~eng'.implicit
  BY <1>1, <1>2, BeginMild
<1>4. /\ Bare(1, calls') /\ Stacked(1, eng', calls') /\ Len(calls') = 1
      /\ Begins(1, calls') /\ calls'[1].start = eng.now
  BY <1>0, <1>2, <1>3, NestParts, PushBare
<1>5. Chained(eng', calls')
  BY <1>0, <1>2, <1>3, NestParts, PushChains
<1>6. Moded(1, eng', calls', inTransaction') /\ Durable(1, eng', calls')
  BY <1>2, <1>3, <1>4 DEF Moded, Durable
<1>7. QED
  BY <1>0, <1>4, <1>5, <1>6 DEF MildStep, Nest

\* The client's beginTransaction: it opens one only in inDatabase's block and
\* outside any savepoint.
LEMMA BeginTransactionMild ==
    ASSUME Mild, Inv, NEW b \in 0..2, Nest(b, eng, calls, inTransaction),
           NEW deferred \in BOOLEAN, BeginTransaction(deferred)
    PROVE  MildStep
<1>0. /\ calls # <<>> /\ "client" \in Kinds
      /\ eng \in Engine /\ calls \in Seq(Call) /\ inTransaction \in BOOLEAN
  BY InvParts DEF BeginTransaction, Kinds
<1>1. PICK o \in beginTransaction(eng, deferred) :
          /\ eng' = o.eng /\ inTransaction' = (inTransaction \/ o.ok)
          /\ IF o.ok THEN Enter("client", NoName) ELSE UNCHANGED calls
  BY DEF BeginTransaction
<1>2. o.ok \in BOOLEAN /\ (o.ok <=> eng.auto)
  BY <1>0, BeginMild
<1>3. CASE ~o.ok
  <2>1. eng' = eng /\ calls' = calls /\ inTransaction' = inTransaction
    BY <1>0, <1>1, <1>3, BeginMild
  <2>2. QED
    BY <2>1, SameStep
<1>4. CASE o.ok
  <2>1. ~Begins(b, calls) /\ Len(calls) = b
    <3>1. Moded(b, eng, calls, inTransaction)
      BY NestParts
    <3>2. QED
      BY <1>2, <1>4, <3>1, Zenon DEF Moded
  <2>2. b = 1 /\ calls[1].kind = "inDatabase"
    <3>1. b # 0 /\ b # 2
      BY <1>0, <2>1, EmptySeq DEF Begins
    <3>2. QED
      BY <2>1, <3>1, NestParts DEF Begins, Bare
  <2>3. Enter("client", NoName) /\ inTransaction'
    BY <1>1, <1>4
  <2>4. /\ eng'.saves = eng.saves /\ eng'.now = eng.now
        /\ eng'.disk = eng.disk /\ ~eng'.auto /\ eng'.implicit = eng.implicit
    BY <1>0, <1>1, <1>4, BeginMild
  <2>5. ~eng.implicit /\ eng.now = eng.disk
    <3>1. Moded(b, eng, calls, inTransaction) /\ Durable(b, eng, calls)
      BY NestParts
    <3>2. ~(Len(calls) > b)
      BY <2>1
    <3>3. ~eng.implicit
      BY <3>1, <3>2, Zenon DEF Moded
    <3>4. QED
      BY <1>2, <1>4, <3>1, <3>3 DEF Durable
  <2>6. /\ Bare(2, calls') /\ Stacked(2, eng', calls') /\ Len(calls') = 2
        /\ Begins(2, calls') /\ calls'[2].start = eng.now
    BY <1>0, <2>1, <2>2, <2>3, <2>4, NestParts, PushBare
  <2>7. Chained(eng', calls')
    BY <1>0, <2>3, <2>4, NestParts, PushChains
  <2>8. Moded(2, eng', calls', inTransaction') /\ Durable(2, eng', calls')
    BY <2>3, <2>4, <2>5, <2>6 DEF Moded, Durable
  <2>9. QED
    BY <2>2, <2>6, <2>7, <2>8 DEF MildStep, Nest
<1>5. QED
  BY <1>2, <1>3, <1>4

\* "savepoint", when it succeeds: it opens a transaction if there is none.
LEMMA StartFields ==
    ASSUME NEW e \in Engine, NEW n \in Names, NEW o \in startSavePointWithName(e, n), o.ok
    PROVE  /\ ~o.eng.auto /\ (o.eng.implicit <=> e.implicit \/ e.auto)
           /\ o.eng.now = e.now /\ o.eng.disk = e.disk
<1> DEFINE longer == Append(e.saves, [name |-> n, snap |-> e.now])
           opened == e.implicit \/ e.auto
<1>1. o \in {Outcome(TRUE, [e EXCEPT !.auto = FALSE, !.implicit = opened, !.saves = longer])}
              \union MayFail("savepoint", e)
  BY DEF startSavePointWithName
<1>2. \A f \in MayFail("savepoint", e) : ~f.ok
  BY DEF MayFail, Outcome
<1> HIDE DEF longer, opened
<1>3. o = Outcome(TRUE, [e EXCEPT !.auto = FALSE, !.implicit = opened, !.saves = longer])
  BY <1>1, <1>2
<1>4. o.eng = [e EXCEPT !.auto = FALSE, !.implicit = opened, !.saves = longer]
  BY <1>3, OutcomeFields
<1>5. /\ o.eng.auto = FALSE /\ o.eng.implicit = opened
      /\ o.eng.now = e.now /\ o.eng.disk = e.disk
  BY <1>4 DEF Engine
<1>6. QED
  BY <1>5 DEF opened

\* A call and the savepoint it started are put on top of both stacks.
LEMMA PushSaved ==
    ASSUME eng \in Engine, calls \in Seq(Call), NEW b \in 0..2,
           Bare(b, calls), Stacked(b, eng, calls), NEW k \in Kinds, NEW n \in Names,
           Enter(k, n), k = IF calls = <<>> THEN "queueSavePoint" ELSE "inSavePoint",
           eng'.saves = Append(eng.saves, [name |-> n, snap |-> eng.now])
    PROVE  /\ Bare(b, calls') /\ Stacked(b, eng', calls') /\ Len(calls') > b
           /\ Begins(b, calls') <=> Begins(b, calls)
           /\ b >= 1 => calls'[b].start = calls[b].start
<1> DEFINE c == Len(calls)
           m == Len(eng.saves)
<1>1. /\ calls' \in Seq(Call) /\ Len(calls') = c + 1
      /\ \A i \in 1..c : calls'[i] = calls[i]
      /\ calls'[c + 1].kind = k
      /\ calls'[c + 1].name = n /\ calls'[c + 1].start = eng.now
  BY EnterPushes
<1>2. c \in Nat /\ m \in Nat /\ b \in Nat /\ b <= c /\ m = c - b
  BY CallsType, SavesType DEF Bare, Stacked
<1>3. /\ Len(eng'.saves) = m + 1
      /\ \A i \in 1..m : eng'.saves[i] = eng.saves[i]
      /\ eng'.saves[m + 1].name = n /\ eng'.saves[m + 1].snap = eng.now
  BY SavesType
<1>4. (b = 1 => 1 \in 1..c) /\ (b = 2 => 1 \in 1..c /\ 2 \in 1..c) /\ (b >= 1 => b \in 1..c)
  BY <1>2
<1>5. Bare(b, calls')
  <2>1. ASSUME NEW i \in 1..Len(calls'), i > b
        PROVE  calls'[i].kind = IF i = 1 THEN "queueSavePoint" ELSE "inSavePoint"
    <3>1. CASE i \in 1..c
      <4>1. calls'[i] = calls[i]
        BY <1>1, <3>1
      <4>2. QED
        BY <2>1, <3>1, <4>1 DEF Bare
    <3>2. CASE i = c + 1
      <4>1. (i = 1) <=> (calls = <<>>)
        BY <1>2, <3>2, EmptySeq
      <4>2. QED
        BY <1>1, <3>2, <4>1
    <3>3. QED
      BY <1>1, <1>2, <3>1, <3>2
  <2>2. /\ b = 1 => calls'[1].kind \in {"inDatabase", "inTransaction"}
        /\ b = 2 => calls'[1].kind = "inDatabase" /\ calls'[2].kind = "client"
    BY <1>1, <1>4 DEF Bare
  <2>3. b <= Len(calls')
    BY <1>1, <1>2
  <2>4. QED
    BY <2>1, <2>2, <2>3 DEF Bare
<1>6. Stacked(b, eng', calls')
  <2>1. ASSUME NEW i \in 1..Len(eng'.saves)
        PROVE  eng'.saves[i].name = calls'[b + i].name /\ eng'.saves[i].snap = calls'[b + i].start
    <3>1. CASE i \in 1..m
      <4>1. b + i \in 1..c /\ eng'.saves[i] = eng.saves[i]
        BY <1>2, <1>3, <3>1
      <4>2. calls'[b + i] = calls[b + i]
        BY <1>1, <4>1
      <4>3. QED
        BY <3>1, <4>1, <4>2 DEF Stacked
    <3>2. CASE i = m + 1
      <4>1. b + i = c + 1
        BY <1>2, <3>2
      <4>2. QED
        BY <1>1, <1>3, <3>2, <4>1
    <3>3. QED
      BY <1>2, <1>3, <3>1, <3>2
  <2>2. Len(eng'.saves) = Len(calls') - b
    BY <1>1, <1>2, <1>3
  <2>3. QED
    BY <2>1, <2>2 DEF Stacked
<1>7. Begins(b, calls') <=> Begins(b, calls)
  BY <1>1, <1>4 DEF Begins
<1>8. b >= 1 => calls'[b].start = calls[b].start
  BY <1>1, <1>4
<1>9. Len(calls') > b
  BY <1>1, <1>2
<1>10. QED
  BY <1>5, <1>6, <1>7, <1>8, <1>9

\* Both calls that start a savepoint and then run a block.
LEMMA StartingMild ==
    ASSUME Inv, NEW b \in 0..2, Nest(b, eng, calls, inTransaction),
           NEW k \in Kinds, NEW n \in Names,
           k = IF calls = <<>> THEN "queueSavePoint" ELSE "inSavePoint",
           NEW o \in startSavePointWithName(eng, n), eng' = o.eng,
           IF o.ok THEN Enter(k, n) ELSE UNCHANGED calls,
           UNCHANGED inTransaction
    PROVE  MildStep
<1>0. eng \in Engine /\ calls \in Seq(Call)
  BY InvParts
<1>1. CASE ~o.ok
  <2>1. eng' = eng /\ calls' = calls
    BY <1>0, <1>1, StartEffect
  <2>2. QED
    BY <2>1, SameStep
<1>2. CASE o.ok
  <2>1. eng'.saves = Append(eng.saves, [name |-> n, snap |-> eng.now]) /\ Enter(k, n)
    BY <1>0, <1>2, StartEffect
  <2>2. /\ ~eng'.auto /\ (eng'.implicit <=> eng.implicit \/ eng.auto)
        /\ eng'.now = eng.now /\ eng'.disk = eng.disk
    BY <1>0, <1>2, StartFields
  <2>3. /\ Bare(b, calls') /\ Stacked(b, eng', calls') /\ Len(calls') > b
        /\ Begins(b, calls') <=> Begins(b, calls)
        /\ b >= 1 => calls'[b].start = calls[b].start
    BY <1>0, <2>1, NestParts, PushSaved
  <2>4. Chained(eng', calls')
    BY <1>0, <2>1, <2>2, NestParts, PushChains
  <2>5. Len(calls') # b /\ (Len(calls) = b \/ Len(calls) > b)
    BY <1>0, <2>3, NestParts, CallsType DEF Bare
  <2>6. Moded(b, eng, calls, inTransaction) /\ Durable(b, eng, calls)
    BY NestParts
  <2>7. Moded(b, eng', calls', inTransaction')
    <3>1. eng'.implicit <=> ~Begins(b, calls)
      BY <2>2, <2>5, <2>6, Zenon DEF Moded
    <3>2. inTransaction' <=> Begins(b, calls)
      BY <2>6 DEF Moded
    <3>3. QED
      BY <2>2, <2>3, <2>5, <3>1, <3>2, Zenon DEF Moded
  <2>8. Durable(b, eng', calls')
    <3>1. Begins(b, calls) => b >= 1
      BY DEF Begins
    <3>2. QED
      BY <2>2, <2>3, <2>6, <3>1 DEF Durable
  <2>9. QED
    BY <2>2, <2>3, <2>4, <2>7, <2>8 DEF MildStep, Nest
<1>3. QED
  BY <1>1, <1>2

\* A task's call has returned and left no transaction.
LEMMA TaskEnds ==
    ASSUME calls' = <<>>, Len(eng'.saves) = 0, eng'.auto, ~eng'.implicit,
           eng'.now = eng'.disk, ~inTransaction'
    PROVE  MildStep
<1>1. Len(calls') = 0
  BY EmptySeq
<1>2. Bare(0, calls') /\ Stacked(0, eng', calls') /\ ~Begins(0, calls')
  BY <1>1 DEF Bare, Stacked, Begins
<1>3. Moded(0, eng', calls', inTransaction')
  BY <1>1, <1>2 DEF Moded
<1>4. Durable(0, eng', calls') /\ Chained(eng', calls')
  BY <1>1, <1>2 DEF Durable, Chained
<1>5. QED
  BY <1>2, <1>3, <1>4 DEF MildStep, Nest

\* FMDatabaseQueue::inDatabase after its block.
LEMMA InDatabaseEndsMild ==
    ASSUME Inv, NEW b \in 0..2, Nest(b, eng, calls, inTransaction), InDatabaseEnds
    PROVE  MildStep /\ eng'.now = Top.start \union Top.wrote
<1>0. /\ calls # <<>> /\ calls[Len(calls)].kind = "inDatabase" /\ Leave(TRUE)
      /\ eng' = eng /\ inTransaction' = inTransaction /\ calls \in Seq(Call)
  BY InvParts DEF InDatabaseEnds, TopIs, Top
<1>1. b = 1 /\ Len(calls) = 1
  BY <1>0, NestParts, TopKind
<1>2. ~Begins(b, calls) /\ ~(Len(calls) > b) /\ Len(calls) = b
  BY <1>0, <1>1 DEF Begins
<1>3. /\ Moded(b, eng, calls, inTransaction) /\ Durable(b, eng, calls)
      /\ Chained(eng, calls) /\ Stacked(b, eng, calls)
  BY NestParts
<1>4. eng.auto /\ ~eng.implicit /\ ~inTransaction
  BY <1>2, <1>3, Zenon DEF Moded
<1>5. Len(eng.saves) = 0 /\ eng.now = eng.disk /\ eng.now = Top.start \union Top.wrote
  BY <1>0, <1>1, <1>3, <1>4 DEF Stacked, Durable, Chained, Top
<1>6. calls' = <<>>
  BY <1>0, <1>1 DEF Leave
<1>7. QED
  BY <1>0, <1>4, <1>5, <1>6, TaskEnds

\* commit and rollback in a mild behaviour: they fail outside a transaction
\* and only there.
LEMMA EndMild ==
    ASSUME Mild, NEW e \in Engine, ~e.auto, NEW r \in BOOLEAN,
           NEW o \in IF r THEN rollback(e) ELSE commit(e)
    PROVE  /\ o.ok /\ o.eng.auto /\ ~o.eng.implicit /\ Len(o.eng.saves) = 0
           /\ o.eng.disk = o.eng.now
           /\ o.eng.now = IF r THEN e.disk ELSE e.now
<1> DEFINE rows == IF r THEN e.disk ELSE e.now
<1>1. o = Outcome(TRUE, Ended(rows))
  BY MildFaults DEF rollback, commit
<1> HIDE DEF rows
<1>2. o.ok = TRUE /\ o.eng = Ended(rows)
  BY <1>1, OutcomeFields
<1>3. /\ o.eng.auto = TRUE /\ o.eng.implicit = FALSE /\ o.eng.saves = <<>>
      /\ o.eng.disk = rows /\ o.eng.now = rows
  BY <1>2 DEF Ended
<1>4. QED
  BY <1>2, <1>3, EmptySeq DEF rows

\* FMDatabaseQueue::inTransaction after its block.
LEMMA InTransactionEndsMild ==
    ASSUME Mild, Inv, NEW b \in 0..2, Nest(b, eng, calls, inTransaction),
           NEW shouldRollback \in BOOLEAN, InTransactionEnds(shouldRollback)
    PROVE  /\ MildStep
           /\ eng'.now = IF shouldRollback THEN Top.start ELSE Top.start \union Top.wrote
<1>0. /\ calls # <<>> /\ calls[Len(calls)].kind = "inTransaction"
      /\ Leave(~shouldRollback)
      /\ eng \in Engine /\ calls \in Seq(Call)
  BY InvParts DEF InTransactionEnds, TopIs, Top
<1>1. b = 1 /\ Len(calls) = 1
  BY <1>0, NestParts, TopKind
<1>2. Begins(b, calls)
  BY <1>0, <1>1 DEF Begins
<1>3. /\ Moded(b, eng, calls, inTransaction) /\ Durable(b, eng, calls)
      /\ Chained(eng, calls)
  BY NestParts
<1>4. ~eng.auto
  BY <1>2, <1>3, Zenon DEF Moded
<1>5. eng.disk = Top.start /\ eng.now = Top.start \union Top.wrote
  BY <1>0, <1>1, <1>2, <1>3 DEF Durable, Chained, Top
<1>6. PICK o \in IF shouldRollback THEN rollback(eng) ELSE commit(eng) :
          eng' = o.eng /\ inTransaction' = (inTransaction /\ ~o.ok)
  BY DEF InTransactionEnds
<1>7. /\ o.ok /\ eng'.auto /\ ~eng'.implicit /\ Len(eng'.saves) = 0
      /\ eng'.disk = eng'.now /\ eng'.now = IF shouldRollback THEN eng.disk ELSE eng.now
  BY <1>0, <1>4, <1>6, EndMild
<1>8. calls' = <<>> /\ ~inTransaction'
  BY <1>0, <1>1, <1>6, <1>7 DEF Leave
<1>9. QED
  BY <1>5, <1>7, <1>8, TaskEnds

\* The client's commit and rollback, in the block of inDatabase.
LEMMA ClientEndsMild ==
    ASSUME Mild, Inv, NEW b \in 0..2, Nest(b, eng, calls, inTransaction), Commit \/ Rollback
    PROVE  MildStep
<1> DEFINE r == ~Commit
<1>0. /\ calls # <<>> /\ calls[Len(calls)].kind = "client"
      /\ eng \in Engine /\ calls \in Seq(Call)
  BY InvParts DEF Commit, Rollback, TopIs, Top
<1>1. b = 2 /\ Len(calls) = 2 /\ calls[1].kind = "inDatabase"
  BY <1>0, NestParts, TopKind
<1>2. Begins(b, calls)
  BY <1>1 DEF Begins
<1>3. /\ Moded(b, eng, calls, inTransaction) /\ Durable(b, eng, calls)
      /\ Chained(eng, calls)
  BY NestParts
<1>4. ~eng.auto
  BY <1>2, <1>3, Zenon DEF Moded
<1>5. eng.disk = Top.start
  BY <1>1, <1>2, <1>3 DEF Durable, Top
<1>6. PICK o \in IF r THEN rollback(eng) ELSE commit(eng) :
          eng' = o.eng /\ inTransaction' = (inTransaction /\ ~o.ok) /\ (o.ok => Leave(~r))
  <2>1. CASE Commit
    BY <2>1 DEF Commit
  <2>2. CASE ~Commit
    <3>1. Rollback
      BY <2>2
    <3>2. QED
      BY <2>2, <3>1 DEF Rollback
  <2>3. QED
    BY <2>1, <2>2
<1>7. r \in BOOLEAN
  OBVIOUS
<1> HIDE DEF r
<1>8. /\ o.ok /\ eng'.auto /\ ~eng'.implicit /\ Len(eng'.saves) = 0
      /\ eng'.disk = eng'.now /\ eng'.now = IF r THEN eng.disk ELSE eng.now
  BY <1>0, <1>4, <1>6, <1>7, EndMild
<1>9. Popped(calls, calls', ~r) /\ ~inTransaction'
  BY <1>0, <1>6, <1>7, <1>8, LeavePops
<1>10. Chained(eng', calls')
  <2>1. eng'.now = IF ~r THEN eng.now ELSE calls[Len(calls)].start
    BY <1>5, <1>7, <1>8 DEF Top
  <2>2. (~r) \in BOOLEAN
    BY <1>7
  <2>3. QED
    BY <1>0, <1>3, <1>9, <2>1, <2>2, PopChains
<1>11. Len(calls') = 1 /\ calls'[1].kind = "inDatabase"
  BY <1>1, <1>9 DEF Popped
<1>12. Bare(1, calls') /\ Stacked(1, eng', calls') /\ ~Begins(1, calls')
  BY <1>8, <1>11 DEF Bare, Stacked, Begins
<1>13. Moded(1, eng', calls', inTransaction') /\ Durable(1, eng', calls')
  BY <1>8, <1>9, <1>11, <1>12 DEF Moded, Durable
<1>14. QED
  BY <1>1, <1>10, <1>12, <1>13 DEF MildStep, Nest

\* FMDatabaseQueue::inSavePoint after its block.
LEMMA QueueSavePointEndsMild ==
    ASSUME Mild, Inv, NEW b \in 0..2, Nest(b, eng, calls, inTransaction),
           NEW shouldRollback \in BOOLEAN, QueueSavePointEnds(shouldRollback)
    PROVE  /\ MildStep
           /\ eng'.now = IF shouldRollback THEN Top.start ELSE Top.start \union Top.wrote
<1>0. /\ calls # <<>> /\ calls[Len(calls)].kind = "queueSavePoint"
      /\ Leave(~shouldRollback) /\ UNCHANGED inTransaction /\ calls \in Seq(Call)
  BY InvParts DEF QueueSavePointEnds, TopIs, Top
<1>1. b = 0 /\ Len(calls) = 1
  BY <1>0, NestParts, TopKind
<1>2. b < Len(calls)
  BY <1>1
<1>3. PICK o \in IF shouldRollback THEN rollbackToSavePointWithName(eng, Top.name)
                                   ELSE {Outcome(TRUE, eng)} :
          \E p \in releaseSavePointWithName(o.eng, Top.name) : eng' = p.eng
  BY DEF QueueSavePointEnds
<1>4. PICK p \in releaseSavePointWithName(o.eng, Top.name) : eng' = p.eng
  BY <1>3
<1>5. /\ Released(eng, eng')
      /\ eng'.now = IF shouldRollback THEN Top.start ELSE eng.now
  BY <1>2, <1>4, SavePointEndsEffect
<1>6. eng.now = Top.start \union Top.wrote
  BY <1>0, NestParts DEF Chained, Top
<1>7. MildStep
  <2>1. (~shouldRollback) \in BOOLEAN /\ eng'.now = IF ~shouldRollback THEN eng.now ELSE Top.start
    BY <1>5
  <2>2. QED
    BY <1>0, <1>2, <1>5, <2>1, SavePointEndsNest
<1>8. QED
  BY <1>5, <1>6, <1>7

\* FMDatabase::inSavePoint after its block.
LEMMA InSavePointEndsMild ==
    ASSUME Mild, Inv, NEW b \in 0..2, Nest(b, eng, calls, inTransaction),
           NEW shouldRollback \in BOOLEAN, NEW returned \in BOOLEAN,
           InSavePointEnds(shouldRollback, returned)
    PROVE  /\ MildStep
           /\ eng'.now = IF shouldRollback THEN Top.start ELSE Top.start \union Top.wrote
<1>0. /\ calls # <<>> /\ calls[Len(calls)].kind = "inSavePoint"
      /\ Leave(~shouldRollback) /\ UNCHANGED inTransaction /\ calls \in Seq(Call)
  BY InvParts DEF InSavePointEnds, TopIs, Top
<1>1. b < Len(calls)
  BY <1>0, NestParts, TopKind
<1>2. PICK o \in IF shouldRollback THEN rollbackToSavePointWithName(eng, Top.name)
                                   ELSE {Outcome(TRUE, eng)} :
          \E p \in (IF o.ok THEN releaseSavePointWithName(o.eng, Top.name) ELSE {o}) :
             eng' = p.eng
  BY DEF InSavePointEnds
<1>3. PICK p \in (IF o.ok THEN releaseSavePointWithName(o.eng, Top.name) ELSE {o}) :
          eng' = p.eng
  BY <1>2
<1>4. /\ Released(eng, eng')
      /\ eng'.now = IF shouldRollback THEN Top.start ELSE eng.now
  BY <1>1, <1>3, SavePointEndsEffect
<1>5. eng.now = Top.start \union Top.wrote
  BY <1>0, NestParts DEF Chained, Top
<1>6. MildStep
  <2>1. (~shouldRollback) \in BOOLEAN /\ eng'.now = IF ~shouldRollback THEN eng.now ELSE Top.start
    BY <1>4
  <2>2. QED
    BY <1>0, <1>1, <1>4, <2>1, SavePointEndsNest
<1>7. QED
  BY <1>4, <1>5, <1>6

\* An insert in a mild behaviour: its row is there, and on disk only outside
\* a transaction; or nothing has changed.
LEMMA InsertEffectMild ==
    ASSUME Mild, NEW e \in Engine, NEW w \in Rows, NEW o \in insert(e, w)
    PROVE  /\ o.ok \in BOOLEAN
           /\ ~o.ok => o.eng = e
           /\ o.ok => /\ o.eng.saves = e.saves
                      /\ o.eng.auto = e.auto /\ o.eng.implicit = e.implicit
                      /\ o.eng.now = e.now \union {w}
                      /\ o.eng.disk = IF e.auto THEN e.disk \union {w} ELSE e.disk
<1> DEFINE inTr == [e EXCEPT !.now = @ \union {w}]
           onDisk == [e EXCEPT !.now = @ \union {w}, !.disk = @ \union {w}]
<1>1. \/ o = Outcome(TRUE, IF e.auto THEN onDisk ELSE inTr)
      \/ o = Outcome(FALSE, e)
  BY MildFaults DEF insert, MayFail
<1>2. CASE o = Outcome(FALSE, e)
  BY <1>2, OutcomeFields
<1>3. CASE o = Outcome(TRUE, IF e.auto THEN onDisk ELSE inTr)
  <2>1. o.ok = TRUE /\ o.eng = IF e.auto THEN onDisk ELSE inTr
    BY <1>3, OutcomeFields
  <2>2. CASE e.auto
    BY <2>1, <2>2 DEF Engine
  <2>3. CASE ~e.auto
    BY <2>1, <2>3 DEF Engine
  <2>4. QED
    BY <2>1, <2>2, <2>3
<1>4. QED
  BY <1>1, <1>2, <1>3

\* Recording what the call on top wrote changes no other call.
LEMMA WroteOnTop ==
    ASSUME NEW c \in Seq(Call), c # <<>>, NEW W \in SUBSET Rows
    PROVE  LET d == [c EXCEPT ![Len(c)].wrote = W] IN
           /\ d \in Seq(Call) /\ Len(d) = Len(c)
           /\ \A i \in 1..Len(c) : /\ d[i].kind = c[i].kind /\ d[i].name = c[i].name
                                   /\ d[i].start = c[i].start
                                   /\ d[i].wrote = IF i = Len(c) THEN W ELSE c[i].wrote
<1> DEFINE d == [c EXCEPT ![Len(c)].wrote = W]
           n == Len(c)
           new == [c[n] EXCEPT !.wrote = W]
<1>1. n \in Nat /\ n \in 1..Len(c) /\ c[n] \in Call
  BY CallsType
<1>2. /\ new \in Call /\ new.kind = c[n].kind /\ new.name = c[n].name
      /\ new.start = c[n].start /\ new.wrote = W
  BY <1>1 DEF Call
<1>3. d = [c EXCEPT ![n] = new]
  OBVIOUS
<1> HIDE DEF new, n, d
<1>4. /\ d \in Seq(Call) /\ Len(d) = Len(c)
      /\ \A i \in 1..Len(c) : d[i] = IF i = n THEN new ELSE c[i]
  BY <1>1, <1>2, <1>3, ExceptSeq
<1>5. \A i \in 1..Len(c) : i # n => d[i] = c[i]
  BY <1>4
<1>6. d[n] = new
  BY <1>1, <1>4
<1>7. QED
  BY <1>1, <1>2, <1>4, <1>5, <1>6 DEF n, d

\* executeUpdate.
LEMMA InsertMild ==
    ASSUME Mild, Inv, NEW b \in 0..2, Nest(b, eng, calls, inTransaction),
           NEW w \in Rows, Insert(w)
    PROVE  MildStep
<1> DEFINE n == Len(calls)
<1>0. /\ calls # <<>> /\ eng \in Engine /\ calls \in Seq(Call) /\ UNCHANGED inTransaction
  BY InvParts DEF Insert
<1>1. PICK o \in insert(eng, w) :
          /\ eng' = o.eng
          /\ calls' = [calls EXCEPT ![n].wrote = IF o.ok THEN @ \union {w} ELSE @]
  BY DEF Insert
<1> DEFINE W == IF o.ok THEN calls[n].wrote \union {w} ELSE calls[n].wrote
<1>2. n \in Nat /\ n \in 1..n /\ calls[n] \in Call
  BY <1>0, CallsType
<1>3. W \in SUBSET Rows /\ calls' = [calls EXCEPT ![n].wrote = W]
  BY <1>1, <1>2 DEF Call
<1>4. o.ok \in BOOLEAN /\ (o.ok => W = calls[n].wrote \union {w}) /\ (~o.ok => W = calls[n].wrote)
  BY <1>0, <1>1, InsertEffectMild
<1> HIDE DEF W
<1>5. /\ calls' \in Seq(Call) /\ Len(calls') = n
      /\ \A i \in 1..n : /\ calls'[i].kind = calls[i].kind /\ calls'[i].name = calls[i].name
                         /\ calls'[i].start = calls[i].start
                         /\ calls'[i].wrote = IF i = n THEN W ELSE calls[i].wrote
  <2> DEFINE d == [calls EXCEPT ![Len(calls)].wrote = W]
  <2>1. /\ d \in Seq(Call) /\ Len(d) = n
        /\ \A i \in 1..n : /\ d[i].kind = calls[i].kind /\ d[i].name = calls[i].name
                           /\ d[i].start = calls[i].start
                           /\ d[i].wrote = IF i = n THEN W ELSE calls[i].wrote
    BY <1>0, <1>3, WroteOnTop
  <2>2. calls' = d
    BY <1>3
  <2> HIDE DEF d, n
  <2>3. QED
    BY <2>1, <2>2
<1> HIDE DEF n
<1>6. /\ eng'.saves = eng.saves
      /\ eng'.auto = eng.auto /\ eng'.implicit = eng.implicit
      /\ eng'.now = IF o.ok THEN eng.now \union {w} ELSE eng.now
      /\ eng'.disk = IF o.ok /\ eng.auto THEN eng.disk \union {w} ELSE eng.disk
  BY <1>0, <1>1, <1>4, InsertEffectMild
<1>7. /\ Bare(b, calls) /\ Stacked(b, eng, calls) /\ Moded(b, eng, calls, inTransaction)
      /\ Durable(b, eng, calls) /\ Chained(eng, calls) /\ b <= n /\ b \in Nat
  BY NestParts DEF Bare, n
<1>8. (b = 1 => 1 \in 1..n) /\ (b = 2 => 1 \in 1..n /\ 2 \in 1..n) /\ (b >= 1 => b \in 1..n)
  BY <1>2, <1>7
<1>9. Bare(b, calls') /\ (Begins(b, calls') <=> Begins(b, calls))
  <2>1. \A i \in 1..n : i > b => calls'[i].kind = IF i = 1 THEN "queueSavePoint" ELSE "inSavePoint"
    BY <1>5, <1>7 DEF Bare, n
  <2>2. /\ b = 1 => calls'[1].kind \in {"inDatabase", "inTransaction"}
        /\ b = 2 => calls'[1].kind = "inDatabase" /\ calls'[2].kind = "client"
    BY <1>5, <1>7, <1>8 DEF Bare
  <2>3. Begins(b, calls') <=> Begins(b, calls)
    BY <1>5, <1>8 DEF Begins
  <2>4. QED
    BY <1>5, <1>7, <2>1, <2>2, <2>3 DEF Bare
<1>10. Stacked(b, eng', calls')
  <2>1. \A i \in 1..Len(eng.saves) : b + i \in 1..n
    BY <1>2, <1>7 DEF Stacked, n
  <2>2. QED
    BY <1>5, <1>6, <1>7, <2>1 DEF Stacked, n
<1>11. Moded(b, eng', calls', inTransaction')
  <2>1. Len(calls') = Len(calls) /\ inTransaction' = inTransaction
    BY <1>0, <1>5 DEF n
  <2>2. QED
    BY <1>6, <1>7, <1>9, <2>1, Zenon DEF Moded
<1>12. Durable(b, eng', calls') /\ (~eng.auto => eng'.disk = eng.disk)
  <2>1. Begins(b, calls) => ~eng.auto /\ b >= 1
    <3>1. Begins(b, calls) => ~eng.auto
      BY <1>7, Zenon DEF Moded
    <3>2. QED
      BY <3>1 DEF Begins
  <2>2. QED
    BY <1>5, <1>6, <1>7, <1>8, <1>9, <2>1 DEF Durable
<1>13. Chained(eng', calls')
  <2>1. eng'.now = calls'[n].start \union calls'[n].wrote
    <3>1. eng.now = calls[n].start \union calls[n].wrote
      BY <1>0, <1>7 DEF Chained, n
    <3>2. calls'[n].start = calls[n].start /\ calls'[n].wrote = W
      BY <1>2, <1>5
    <3>3. QED
      BY <1>4, <1>6, <3>1, <3>2
  <2>2. ASSUME NEW i \in 1..(n - 1)
        PROVE  calls'[i + 1].start = calls'[i].start \union calls'[i].wrote
    <3>1. i \in 1..n /\ i + 1 \in 1..n /\ i # n
      BY <1>2
    <3>2. calls[i + 1].start = calls[i].start \union calls[i].wrote
      BY <1>7 DEF Chained, n
    <3>3. QED
      BY <1>5, <3>1, <3>2
  <2>3. QED
    BY <1>5, <2>1, <2>2 DEF Chained
<1>14. calls[1].kind # "inDatabase" => ~eng.auto
  <2>1. ASSUME calls[1].kind # "inDatabase", eng.auto
        PROVE  FALSE
    <3>1. ~Begins(b, calls) /\ Len(calls) = b
      BY <1>7, <2>1, Zenon DEF Moded
    <3>2. b # 0
      BY <1>2, <3>1 DEF n
    <3>3. QED
      BY <1>7, <2>1, <3>1, <3>2 DEF Begins, Bare
  <2>2. QED
    BY <2>1
<1>15. QED
  BY <1>9, <1>10, <1>11, <1>12, <1>13, <1>14 DEF MildStep, Nest

-------------------------------------------------------------------------------
(* The theorems.                                                           *)

\* Every step of a mild behaviour, from a state where the stacks are nested.
LEMMA StepIsMild ==
    ASSUME Mild, Inv, NEW b \in 0..2, Nest(b, eng, calls, inTransaction), Next
    PROVE  MildStep
<1>1. CASE InDatabase \/ InDatabaseEnds
  BY <1>1, InDatabaseMild, InDatabaseEndsMild
<1>2. CASE \E deferred \in BOOLEAN : InTransaction(deferred) \/ BeginTransaction(deferred)
  BY <1>2, InTransactionMild, BeginTransactionMild
<1>3. CASE \E shouldRollback \in BOOLEAN :
               InTransactionEnds(shouldRollback) \/ QueueSavePointEnds(shouldRollback)
  BY <1>3, InTransactionEndsMild, QueueSavePointEndsMild
<1>4. CASE \E shouldRollback, returned \in BOOLEAN : InSavePointEnds(shouldRollback, returned)
  BY <1>4, InSavePointEndsMild
<1>5. ASSUME NEW n \in Names, QueueSavePoint(n)
      PROVE  MildStep
  <2>1. "queueSavePoint" \in Kinds /\ calls = <<>> /\ UNCHANGED inTransaction
    BY <1>5 DEF QueueSavePoint, Kinds
  <2>2. PICK o \in startSavePointWithName(eng, n) :
            eng' = o.eng /\ IF o.ok THEN Enter("queueSavePoint", n) ELSE UNCHANGED calls
    BY <1>5 DEF QueueSavePoint
  <2>3. QED
    BY <2>1, <2>2, StartingMild
<1>6. ASSUME NEW n \in Names, InSavePoint(n)
      PROVE  MildStep
  <2>1. "inSavePoint" \in Kinds /\ calls # <<>> /\ UNCHANGED inTransaction
    BY <1>6 DEF InSavePoint, Kinds
  <2>2. PICK o \in startSavePointWithName(eng, n) :
            eng' = o.eng /\ IF o.ok THEN Enter("inSavePoint", n) ELSE UNCHANGED calls
    BY <1>6 DEF InSavePoint
  <2>3. QED
    BY <2>1, <2>2, StartingMild
<1>7. CASE \E w \in Rows : Insert(w)
  BY <1>7, InsertMild
<1>8. CASE Commit \/ Rollback
  BY <1>8, ClientEndsMild
<1>9. CASE Reopen
  BY <1>9, MildFaults DEF Reopen
<1>10. QED
  BY <1>1, <1>2, <1>3, <1>4, <1>5, <1>6, <1>7, <1>8, <1>9 DEF Next, Step

\* In a mild behaviour the engine's savepoints, its transaction, _inTransaction
\* and the data are what the nesting of the running calls says they are.
THEOREM Nesting == Spec => []MildInv
<1>1. Init => MildInv
  <2> SUFFICES ASSUME Init PROVE Nest(0, eng, calls, inTransaction)
    BY DEF MildInv
  <2>1. calls = <<>> /\ Len(calls) = 0 /\ Len(eng.saves) = 0
    BY EmptySeq DEF Init, Ended
  <2>2. eng.auto /\ ~eng.implicit /\ eng.now = eng.disk /\ ~inTransaction
    BY DEF Init, Ended
  <2>3. Bare(0, calls) /\ Stacked(0, eng, calls) /\ ~Begins(0, calls)
    BY <2>1 DEF Bare, Stacked, Begins
  <2>4. Moded(0, eng, calls, inTransaction) /\ Durable(0, eng, calls) /\ Chained(eng, calls)
    BY <2>1, <2>2, <2>3 DEF Moded, Durable, Chained
  <2>5. QED
    BY <2>3, <2>4 DEF Nest
<1>2. Inv /\ MildInv /\ [Next]_vars => MildInv'
  <2> SUFFICES ASSUME Inv, MildInv, [Next]_vars, Mild' PROVE MildInv'
    BY DEF MildInv
  <2>1. faults' = faults /\ Mild
    BY DEF Next, vars, Mild
  <2>2. PICK b \in 0..2 : Nest(b, eng, calls, inTransaction)
    BY <2>1 DEF MildInv
  <2>3. CASE Next
    BY <2>1, <2>2, <2>3, StepIsMild DEF MildStep, MildInv
  <2>4. CASE UNCHANGED vars
    BY <2>2, <2>4 DEF vars, MildInv
  <2>5. QED
    BY <2>3, <2>4
<1>3. QED
  BY <1>1, <1>2, Safety, PTL DEF Spec

\* No task of the queue runs in what another one left open: between tasks
\* there is neither a transaction nor a savepoint, and everything is on disk.
THEOREM TasksStartCleanSafety == Spec => []TasksStartClean
<1>1. Inv /\ MildInv => TasksStartClean
  <2> SUFFICES ASSUME Inv, MildInv, Mild, calls = <<>>
               PROVE  eng = Ended(eng.disk) /\ ~inTransaction
    BY DEF TasksStartClean
  <2>1. PICK b \in 0..2 : Nest(b, eng, calls, inTransaction)
    BY DEF MildInv
  <2>2. ~inTransaction /\ eng.auto /\ ~eng.implicit /\ eng.now = eng.disk /\ Len(eng.saves) = 0
    BY <2>1, Idle
  <2>3. eng \in Engine /\ eng.saves = <<>>
    BY <2>2, InvParts, SavesType, EmptySeq
  <2>4. QED
    BY <2>2, <2>3 DEF Engine, Ended
<1>2. QED
  BY <1>1, Safety, Nesting, PTL

\* FMDatabase::inTransaction() is true exactly while a transaction that
\* beginTransaction opened is open.
THEOREM FlagMatchesSafety == Spec => []FlagMatches
<1>1. Inv /\ MildInv => FlagMatches
  <2> SUFFICES ASSUME Inv, MildInv, Mild PROVE inTransaction <=> ~eng.auto /\ ~eng.implicit
    BY DEF FlagMatches
  <2>1. PICK b \in 0..2 : Nest(b, eng, calls, inTransaction)
    BY DEF MildInv
  <2>2. Len(calls) = b \/ Len(calls) > b
    BY <2>1, NestParts, InvParts, CallsType DEF Bare
  <2>3. Moded(b, eng, calls, inTransaction)
    BY <2>1, NestParts
  <2>4. QED
    BY <2>2, <2>3, Zenon DEF Moded
<1>2. QED
  BY <1>1, Safety, Nesting, PTL

\* FMDatabaseQueue::inTransaction, the queue's inSavePoint and the database's
\* inSavePoint: a rollback leaves the data as the call found it, whatever its
\* block did and however deep it nested savepoints.
THEOREM RollbackSafety == Spec => RollbackUndoes
<1>1. ASSUME Inv, MildInv,
             Mild, InTransactionEnds(TRUE) \/ QueueSavePointEnds(TRUE) \/ InSavePointEnds(TRUE, TRUE)
      PROVE  eng'.now = Top.start
  <2>1. PICK b \in 0..2 : Nest(b, eng, calls, inTransaction)
    BY <1>1 DEF MildInv
  <2>2. QED
    BY <1>1, <2>1, InTransactionEndsMild, QueueSavePointEndsMild, InSavePointEndsMild
<1>2. Inv /\ MildInv =>
        [Mild /\ (InTransactionEnds(TRUE) \/ QueueSavePointEnds(TRUE) \/ InSavePointEnds(TRUE, TRUE))
            => eng'.now = Top.start]_vars
  BY <1>1
<1>3. QED
  BY <1>2, Safety, Nesting, PTL DEF RollbackUndoes

\* Every other end leaves exactly what the call found and what was inserted in
\* it and not undone inside: no nested rollback takes an outer block's rows.
THEOREM CommitSafety == Spec => CommitKeeps
<1>1. ASSUME Inv, MildInv,
             Mild, \/ InDatabaseEnds \/ InTransactionEnds(FALSE)
                   \/ QueueSavePointEnds(FALSE) \/ InSavePointEnds(FALSE, TRUE)
      PROVE  eng'.now = Top.start \union Top.wrote
  <2>1. PICK b \in 0..2 : Nest(b, eng, calls, inTransaction)
    BY <1>1 DEF MildInv
  <2>2. QED
    BY <1>1, <2>1, InDatabaseEndsMild, InTransactionEndsMild, QueueSavePointEndsMild,
       InSavePointEndsMild
<1>2. Inv /\ MildInv =>
        [Mild /\ (\/ InDatabaseEnds \/ InTransactionEnds(FALSE)
                  \/ QueueSavePointEnds(FALSE) \/ InSavePointEnds(FALSE, TRUE))
            => eng'.now = Top.start \union Top.wrote]_vars
  BY <1>1
<1>3. QED
  BY <1>2, Safety, Nesting, PTL DEF CommitKeeps

\* While the block of the queue's inTransaction or inSavePoint runs, no step
\* writes to the disk: a crash there leaves no part of the task.
THEOREM AtomicTasks == Spec => NothingDurableBeforeTheEnd
<1>1. ASSUME Inv, MildInv, Next,
             Mild, calls # <<>>, calls[1].kind # "inDatabase", calls' # <<>>
      PROVE  eng'.disk = eng.disk
  <2>1. PICK b \in 0..2 : Nest(b, eng, calls, inTransaction)
    BY <1>1 DEF MildInv
  <2>2. QED
    BY <1>1, <2>1, StepIsMild DEF MildStep
<1>2. Inv /\ MildInv /\ [Next]_vars =>
        [(Mild /\ calls # <<>> /\ calls[1].kind # "inDatabase" /\ calls' # <<>>)
            => eng'.disk = eng.disk]_vars
  BY <1>1
<1>3. QED
  BY <1>2, Safety, Nesting, PTL DEF Spec, NothingDurableBeforeTheEnd
===============================================================================
