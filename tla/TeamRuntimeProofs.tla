------------------------- MODULE TeamRuntimeProofs --------------------------
(***************************************************************************)
(* The store tells the truth, for any number of processes, runs, clients   *)
(* and store faults.  The state predicates of TeamRuntime are not          *)
(* inductive: they speak of the file, but what a commit makes durable is   *)
(* the whole open transaction, left over from operations that raised.      *)
(* Inv therefore says the same of the rows in the transaction: which rows  *)
(* may be in it, and that none of them belongs to a run with an outcome.   *)
(***************************************************************************)
EXTENDS TeamRuntime, TLAPS

Values == {"run.created", "run.started", "run.completed", "run.failed", "artifact",
           "succeeded", "failed"}

RowSet ==
  {x \in [table : {"runs", "events", "artifacts"}, run : Runs, value : Values] :
     x.table = "runs" => x.value \in {"succeeded", "failed"}}

OneRowEach(rows) ==
  \A x, y \in rows : x.table = "runs" /\ y.table = "runs" /\ x.run = y.run => x = y

(* The transaction adds to the file, and replaces at most run rows. *)
RowsOK ==
  /\ file \subseteq RowSet /\ draft \subseteq RowSet
  /\ OneRowEach(file) /\ OneRowEach(draft)
  /\ \A x \in file : x.table # "runs" => x \in draft

Begun == {"working", "finishing", "saving", "handling", "failing", "returned", "failed"}

(* What each phase of a run has had acknowledged by the store. *)
Recorded(r) ==
  /\ phase[r] \in Begun \cup {"created"} => Event(r, "run.created") \in file
  /\ phase[r] \in Begun => Event(r, "run.started") \in file
  /\ phase[r] \in {"finishing", "saving", "returned"} => Row("artifacts", r, "artifact") \in file
  /\ phase[r] \in {"saving", "returned"} => Event(r, "run.completed") \in file
  /\ phase[r] \in {"failing", "failed"} => Event(r, "run.failed") \in file
  /\ phase[r] = "returned" => Row("runs", r, "succeeded") \in file
  /\ phase[r] = "failed" => Row("runs", r, "failed") \in file

(* Nothing of a failure lies in the transaction of a run on its good way. *)
Untainted(r) ==
  phase[r] \in {"new", "created", "working", "finishing", "saving", "returned"} =>
    Event(r, "run.failed") \notin draft

(* A commit to come has nothing to say about a run with an outcome. *)
Settled(r) ==
  phase[r] \in {"returned", "failed"} => Log!History(draft, r) = Log!History(file, r)

(* A row, even one that is not durable yet, has its reasons on file. *)
Backed(r) ==
  /\ Row("runs", r, "succeeded") \in file \cup draft =>
       {Event(r, "run.created"), Event(r, "run.started"), Event(r, "run.completed"),
        Row("artifacts", r, "artifact")} \subseteq file
  /\ Row("runs", r, "failed") \in file \cup draft =>
       {Event(r, "run.created"), Event(r, "run.started"), Event(r, "run.failed")} \subseteq file

RunInv(r) == Recorded(r) /\ Untainted(r) /\ Settled(r) /\ Backed(r)

Inv == RuntimeTypeOK /\ RowsOK /\ \A r \in Runs : RunInv(r)

-----------------------------------------------------------------------------
(* What insert or replace does to a set of rows. *)
LEMMA PutRow ==
  ASSUME NEW rows \in SUBSET RowSet, OneRowEach(rows), NEW row \in RowSet
  PROVE  /\ Put(rows, row) \subseteq RowSet
         /\ OneRowEach(Put(rows, row))
         /\ row \in Put(rows, row)
         /\ \A x \in rows : x.table # "runs" => x \in Put(rows, row)
         /\ \A x \in Put(rows, row) : x \in rows \/ x = row
         /\ \A q : q # row.run => Log!History(Put(rows, row), q) = Log!History(rows, q)
<1>1. Put(rows, row) \subseteq RowSet /\ row \in Put(rows, row)
  BY DEF Put
<1>2. \A x \in Put(rows, row) : x \in rows \/ x = row
  BY DEF Put
<1>3. OneRowEach(Put(rows, row))
  <2>1. ASSUME NEW x \in Put(rows, row), NEW y \in Put(rows, row),
               x.table = "runs", y.table = "runs", x.run = y.run
        PROVE  x = y
    BY <2>1 DEF Put, SameKey, OneRowEach
  <2> QED BY <2>1 DEF OneRowEach
<1>4. ASSUME NEW x \in rows, x.table # "runs"
      PROVE  x \in Put(rows, row)
  <2>1. SameKey(row, x) => x = row
    BY <1>4 DEF SameKey, RowSet
  <2> QED BY <2>1 DEF Put
<1>5. ASSUME NEW q, q # row.run
      PROVE  Log!History(Put(rows, row), q) = Log!History(rows, q)
  BY <1>5 DEF Put, SameKey, Log!History
<1> QED BY <1>1, <1>2, <1>3, <1>4, <1>5

(* How the rows can change in one step: a commit, a statement whose commit *)
(* raised, a rollback, or not at all.                                      *)
Committed(row) == file' = Put(draft, row) /\ draft' = file'
Pending(row) == file' = file /\ draft' \in {draft, file, Put(draft, row)}

LEMMA RowsMove ==
  ASSUME RowsOK, NEW row \in RowSet, Committed(row) \/ Pending(row)
  PROVE  /\ RowsOK'
         /\ \A x \in file : x.table # "runs" => x \in file'
         /\ \A x \in file' \cup draft' : x \in file \cup draft \/ x = row
         /\ \A x \in draft' : x.table # "runs" => x \in draft \/ x = row
         /\ \A q : q # row.run /\ Log!History(draft, q) = Log!History(file, q) =>
              /\ Log!History(draft', q) = Log!History(file, q)
              /\ Log!History(file', q) = Log!History(file, q)
<1> USE DEF RowsOK
<1>1. /\ Put(draft, row) \subseteq RowSet
      /\ OneRowEach(Put(draft, row))
      /\ \A x \in draft : x.table # "runs" => x \in Put(draft, row)
      /\ \A x \in Put(draft, row) : x \in draft \/ x = row
      /\ \A q : q # row.run => Log!History(Put(draft, row), q) = Log!History(draft, q)
  BY PutRow
<1>2. CASE Committed(row)
  BY <1>1, <1>2, Zenon DEF Committed, OneRowEach
<1>3. CASE Pending(row)
  <2>1. CASE draft' = draft BY <2>1, <1>3 DEF Pending, OneRowEach
  <2>2. CASE draft' = file BY <2>2, <1>3 DEF Pending, OneRowEach
  <2>3. CASE draft' = Put(draft, row) BY <2>3, <1>3, <1>1 DEF Pending, OneRowEach
  <2> QED BY <2>1, <2>2, <2>3, <1>3 DEF Pending
<1> QED BY <1>2, <1>3

(* A store operation of one run leaves the other runs as they are.         *)
LEMMA OthersUndisturbed ==
  ASSUME RowsOK, NEW row \in RowSet, Committed(row) \/ Pending(row),
         NEW q \in Runs, q # row.run, phase'[q] = phase[q], RunInv(q)
  PROVE  RunInv(q)'
<1>1. /\ \A x \in file : x.table # "runs" => x \in file'
      /\ \A x \in file' \cup draft' : x \in file \cup draft \/ x = row
      /\ \A x \in draft' : x.table # "runs" => x \in draft \/ x = row
      /\ Log!History(draft, q) = Log!History(file, q) =>
           /\ Log!History(draft', q) = Log!History(file, q)
           /\ Log!History(file', q) = Log!History(file, q)
  BY RowsMove
<1>2. \A table, value : Row(table, q, value) # row
  BY DEF Row
<1>3. Settled(q)'
  BY <1>1 DEF RunInv, Settled
<1>4. Recorded(q)'
  <2>1. /\ phase[q] = "returned" => Row("runs", q, "succeeded") \in Log!History(file, q)
        /\ phase[q] = "failed" => Row("runs", q, "failed") \in Log!History(file, q)
    BY DEF RunInv, Recorded, Log!History, Row
  <2>2. /\ phase[q] = "returned" => Row("runs", q, "succeeded") \in file'
        /\ phase[q] = "failed" => Row("runs", q, "failed") \in file'
    BY <1>1, <2>1 DEF RunInv, Settled, Log!History
  <2> QED BY <1>1, <2>2 DEF RunInv, Recorded, Event, Row
<1>5. Untainted(q)'
  BY <1>1, <1>2 DEF RunInv, Untainted, Event, Row
<1>6. Backed(q)'
  BY <1>1, <1>2 DEF RunInv, Backed, Event, Row
<1> QED BY <1>3, <1>4, <1>5, <1>6 DEF RunInv

(* One awaited store call: it commits, or it raises.                       *)
LEMMA StoreCall ==
  ASSUME Inv, NEW p \in Connections, NEW r \in Runs, NEW row \in RowSet, row.run = r,
         NEW next \in Phases, NEW error \in Phases, StoreOn(p, r, row, next, error)
  PROVE  /\ StoreTypeOK' /\ struck' \subseteq Runs /\ phase' \in [Runs -> Phases]
         /\ UNCHANGED <<runtime, clients, inspection>>
         /\ RowsOK'
         /\ \A q \in Runs \ {r} : RunInv(q)'
         /\ \A x \in file : x.table # "runs" => x \in file'
         /\ \A x \in file' \cup draft' : x \in file \cup draft \/ x = row
         /\ \A x \in draft' : x.table # "runs" => x \in draft \/ x = row
         /\ \/ phase'[r] = next /\ row \in file' /\ draft' = file'
            \/ phase'[r] = error
<1> USE ConnectionsAssumption, ClientsAssumption DEF Inv, RuntimeTypeOK, StoreTypeOK
<1>1. UNCHANGED <<runtime, clients, inspection>>
  BY DEF StoreOn, runtimeVars
<1>2. \/ Committed(row) /\ phase' = [phase EXCEPT ![r] = next]
      \/ Pending(row) /\ phase' = [phase EXCEPT ![r] = error]
  BY DEF StoreOn, Raises, Commit, CommitBusy, CommitRollsBack, storeVars, Committed, Pending
<1>3. StoreTypeOK'
  BY DEF StoreOn, Raises, Usable, Commit, CommitBusy, CommitRollsBack, storeVars
<1>4. struck' \subseteq Runs
  BY DEF StoreOn, Raises, storeVars
<1>5. /\ RowsOK'
      /\ \A x \in file : x.table # "runs" => x \in file'
      /\ \A x \in file' \cup draft' : x \in file \cup draft \/ x = row
      /\ \A x \in draft' : x.table # "runs" => x \in draft \/ x = row
  BY <1>2, RowsMove
<1>6. phase' \in [Runs -> Phases] /\ \A q \in Runs \ {r} : phase'[q] = phase[q]
  BY <1>2
<1>7. \A q \in Runs \ {r} : RunInv(q)'
  BY <1>2, <1>6, OthersUndisturbed
<1>8. \/ phase'[r] = next /\ row \in file' /\ draft' = file'
      \/ phase'[r] = error
  BY <1>2, PutRow DEF Committed, RowsOK
<1> QED BY <1>1, <1>3, <1>4, <1>5, <1>6, <1>7, <1>8

(* A transaction that is dropped, and steps that leave the store alone.    *)
LEMMA RowsDropped ==
  ASSUME RowsOK, file' = file, draft' \in {draft, file}
  PROVE  /\ RowsOK'
         /\ \A q \in Runs : RunInv(q) /\ phase'[q] = phase[q] => RunInv(q)'
<1>1. RowsOK' /\ (\A x \in draft' : x \in draft \/ x \in file)
  BY DEF RowsOK, OneRowEach
<1>2. ASSUME NEW q \in Runs, RunInv(q), phase'[q] = phase[q]
      PROVE  RunInv(q)'
  <2>1. Recorded(q)' BY <1>2 DEF RunInv, Recorded
  <2>2. Event(q, "run.failed") \in draft' => Event(q, "run.failed") \in draft
    BY <1>1 DEF RowsOK, Event, Row
  <2>3. Untainted(q)' BY <1>2, <2>2 DEF RunInv, Untainted
  <2>4. Settled(q)' BY <1>2 DEF RunInv, Settled
  <2>5. Backed(q)' BY <1>1, <1>2 DEF RunInv, Backed
  <2> QED BY <2>1, <2>3, <2>4, <2>5 DEF RunInv
<1> QED BY <1>1, <1>2

-----------------------------------------------------------------------------
(* The rows a run writes. *)
LEMMA RowsOfRun ==
  ASSUME NEW r \in Runs
  PROVE  /\ \A type \in {"run.created", "run.started", "run.completed", "run.failed"} :
              Event(r, type) \in RowSet /\ Event(r, type).run = r
         /\ Row("artifacts", r, "artifact") \in RowSet
         /\ Row("artifacts", r, "artifact").run = r
         /\ \A status \in {"succeeded", "failed"} :
              Row("runs", r, status) \in RowSet /\ Row("runs", r, status).run = r
BY DEF RowSet, Values, Event, Row

LEMMA CreateRunKeepsInv ==
  ASSUME Inv, NEW r \in Runs, NEW p \in Connections, CreateRun(r, p)
  PROVE  Inv'
<1>1. StoreOn(p, r, Event(r, "run.created"), "created", "lost") /\ phase[r] = "new"
  BY DEF CreateRun
<1>2. /\ StoreTypeOK' /\ struck' \subseteq Runs /\ phase' \in [Runs -> Phases]
      /\ UNCHANGED <<runtime, clients>>
      /\ RowsOK'
      /\ \A q \in Runs \ {r} : RunInv(q)'
      /\ \A x \in file : x.table # "runs" => x \in file'
      /\ \A x \in file' \cup draft' : x \in file \cup draft \/ x = Event(r, "run.created")
      /\ \A x \in draft' : x.table # "runs" => x \in draft \/ x = Event(r, "run.created")
      /\ \/ phase'[r] = "created" /\ Event(r, "run.created") \in file'
         \/ phase'[r] = "lost"
  BY <1>1, RowsOfRun, StoreCall DEF Phases
<1>3. RunInv(r)'
  BY <1>1, <1>2 DEF Inv, RunInv, Recorded, Untainted, Settled, Backed, Begun, Event, Row
<1>4. host' \in [Runs -> Connections \cup {NoConnection}]
  BY DEF CreateRun, Inv, RuntimeTypeOK
<1> QED BY <1>2, <1>3, <1>4 DEF Inv, RuntimeTypeOK

(* A run that is under way keeps Inv when its next store call does right   *)
(* by the run itself.                                                      *)
LEMMA StoreKeepsInv ==
  ASSUME Inv, NEW r \in Runs, NEW row \in RowSet, row.run = r,
         NEW next \in Phases, NEW error \in Phases, Store(r, row, next, error)
  PROVE  /\ RunInv(r)' => Inv'
         /\ \A x \in file : x.table # "runs" => x \in file'
         /\ \A x \in file' \cup draft' : x \in file \cup draft \/ x = row
         /\ \A x \in draft' : x.table # "runs" => x \in draft \/ x = row
         /\ \/ phase'[r] = next /\ row \in file' /\ draft' = file'
            \/ phase'[r] = error
<1>1. host[r] \in Connections /\ StoreOn(host[r], r, row, next, error) /\ host' = host
  BY DEF Store, Alive
<1>2. /\ StoreTypeOK' /\ struck' \subseteq Runs /\ phase' \in [Runs -> Phases]
      /\ UNCHANGED <<runtime, clients>>
      /\ RowsOK'
      /\ \A q \in Runs \ {r} : RunInv(q)'
      /\ \A x \in file : x.table # "runs" => x \in file'
      /\ \A x \in file' \cup draft' : x \in file \cup draft \/ x = row
      /\ \A x \in draft' : x.table # "runs" => x \in draft \/ x = row
      /\ \/ phase'[r] = next /\ row \in file' /\ draft' = file'
         \/ phase'[r] = error
  BY <1>1, StoreCall
<1> QED BY <1>1, <1>2 DEF Inv, RuntimeTypeOK

LEMMA StartRunKeepsInv ==
  ASSUME Inv, NEW r \in Runs, StartRun(r)
  PROVE  Inv'
<1>1. phase[r] = "created" /\ Store(r, Event(r, "run.started"), "working", "lost")
  BY DEF StartRun
<1>2. /\ RunInv(r)' => Inv'
      /\ \A x \in file : x.table # "runs" => x \in file'
      /\ \A x \in file' \cup draft' : x \in file \cup draft \/ x = Event(r, "run.started")
      /\ \A x \in draft' : x.table # "runs" => x \in draft \/ x = Event(r, "run.started")
      /\ \/ phase'[r] = "working" /\ Event(r, "run.started") \in file'
         \/ phase'[r] = "lost"
  BY <1>1, RowsOfRun, StoreKeepsInv DEF Phases
<1>3. RunInv(r)'
  BY <1>1, <1>2 DEF Inv, RunInv, Recorded, Untainted, Settled, Backed, Begun, Event, Row
<1> QED BY <1>2, <1>3

LEMMA SaveArtifactKeepsInv ==
  ASSUME Inv, NEW r \in Runs, SaveArtifact(r)
  PROVE  Inv'
<1> DEFINE row == Row("artifacts", r, "artifact")
<1>1. phase[r] = "working" /\ Store(r, row, "finishing", "handling")
  BY DEF SaveArtifact
<1>2. /\ RunInv(r)' => Inv'
      /\ \A x \in file : x.table # "runs" => x \in file'
      /\ \A x \in file' \cup draft' : x \in file \cup draft \/ x = row
      /\ \A x \in draft' : x.table # "runs" => x \in draft \/ x = row
      /\ \/ phase'[r] = "finishing" /\ row \in file'
         \/ phase'[r] = "handling"
  BY <1>1, RowsOfRun, StoreKeepsInv DEF Phases
<1>3. RunInv(r)'
  BY <1>1, <1>2 DEF Inv, RunInv, Recorded, Untainted, Settled, Backed, Begun, Event, Row
<1> QED BY <1>2, <1>3

LEMMA CompleteRunKeepsInv ==
  ASSUME Inv, NEW r \in Runs, CompleteRun(r)
  PROVE  Inv'
<1>1. phase[r] = "finishing" /\ Store(r, Event(r, "run.completed"), "saving", "handling")
  BY DEF CompleteRun
<1>2. /\ RunInv(r)' => Inv'
      /\ \A x \in file : x.table # "runs" => x \in file'
      /\ \A x \in file' \cup draft' : x \in file \cup draft \/ x = Event(r, "run.completed")
      /\ \A x \in draft' : x.table # "runs" => x \in draft \/ x = Event(r, "run.completed")
      /\ \/ phase'[r] = "saving" /\ Event(r, "run.completed") \in file'
         \/ phase'[r] = "handling"
  BY <1>1, RowsOfRun, StoreKeepsInv DEF Phases
<1>3. RunInv(r)'
  BY <1>1, <1>2 DEF Inv, RunInv, Recorded, Untainted, Settled, Backed, Begun, Event, Row
<1> QED BY <1>2, <1>3

LEMMA SaveSucceededKeepsInv ==
  ASSUME Inv, NEW r \in Runs, SaveSucceeded(r)
  PROVE  Inv'
<1> DEFINE row == Row("runs", r, "succeeded")
<1>1. phase[r] = "saving" /\ Store(r, row, "returned", "handling")
  BY DEF SaveSucceeded
<1>2. /\ RunInv(r)' => Inv'
      /\ \A x \in file : x.table # "runs" => x \in file'
      /\ \A x \in file' \cup draft' : x \in file \cup draft \/ x = row
      /\ \A x \in draft' : x.table # "runs" => x \in draft \/ x = row
      /\ \/ phase'[r] = "returned" /\ row \in file' /\ draft' = file'
         \/ phase'[r] = "handling"
  BY <1>1, RowsOfRun, StoreKeepsInv DEF Phases
<1>3. RunInv(r)'
  BY <1>1, <1>2 DEF Inv, RunInv, Recorded, Untainted, Settled, Backed, Begun, Event, Row
<1> QED BY <1>2, <1>3

LEMMA FailRunKeepsInv ==
  ASSUME Inv, NEW r \in Runs, FailRun(r)
  PROVE  Inv'
<1>1. phase[r] = "handling" /\ Store(r, Event(r, "run.failed"), "failing", "lost")
  BY DEF FailRun
<1>2. /\ RunInv(r)' => Inv'
      /\ \A x \in file : x.table # "runs" => x \in file'
      /\ \A x \in file' \cup draft' : x \in file \cup draft \/ x = Event(r, "run.failed")
      /\ \/ phase'[r] = "failing" /\ Event(r, "run.failed") \in file'
         \/ phase'[r] = "lost"
  BY <1>1, RowsOfRun, StoreKeepsInv DEF Phases
<1>3. RunInv(r)'
  BY <1>1, <1>2 DEF Inv, RunInv, Recorded, Untainted, Settled, Backed, Begun, Event, Row
<1> QED BY <1>2, <1>3

LEMMA SaveFailedKeepsInv ==
  ASSUME Inv, NEW r \in Runs, SaveFailed(r)
  PROVE  Inv'
<1> DEFINE row == Row("runs", r, "failed")
<1>1. phase[r] = "failing" /\ Store(r, row, "failed", "lost")
  BY DEF SaveFailed
<1>2. /\ RunInv(r)' => Inv'
      /\ \A x \in file : x.table # "runs" => x \in file'
      /\ \A x \in file' \cup draft' : x \in file \cup draft \/ x = row
      /\ \/ phase'[r] = "failed" /\ row \in file' /\ draft' = file'
         \/ phase'[r] = "lost"
  BY <1>1, RowsOfRun, StoreKeepsInv DEF Phases
<1>3. RunInv(r)'
  BY <1>1, <1>2 DEF Inv, RunInv, Recorded, Untainted, Settled, Backed, Begun, Event, Row
<1> QED BY <1>2, <1>3

-----------------------------------------------------------------------------
(* Steps of a run that do not touch the store. *)
LEMMA GotoKeepsInv ==
  ASSUME Inv, NEW r \in Runs, NEW next \in {"refused", "handling", "cancelled"}, Goto(r, next),
         next = "handling" => phase[r] \in {"working", "finishing"}
  PROVE  Inv'
<1>1. /\ phase' = [phase EXCEPT ![r] = next]
      /\ UNCHANGED <<file, draft, writer, open, runtime, clients, host, struck>>
  BY DEF Goto, storeVars, runtimeVars
<1>2. RuntimeTypeOK'
  BY <1>1 DEF Inv, RuntimeTypeOK, StoreTypeOK, Phases
<1>3. RowsOK' /\ \A q \in Runs : q # r => RunInv(q)'
  BY <1>1, RowsDropped DEF Inv, RuntimeTypeOK
<1>4. RunInv(r)'
  BY <1>1 DEF Inv, RuntimeTypeOK, RunInv, Recorded, Untainted, Settled, Backed, Begun
<1> QED BY <1>2, <1>3, <1>4 DEF Inv

(* Steps of a runtime. *)
LEMMA RuntimeKeepsInv ==
  ASSUME Inv, NEW p \in Connections,
         Enter(p) \/ CloseClient(p) \/ ClientRaises(p) \/ Leave(p) \/ Kill(p)
  PROVE  Inv'
<1>1. file' = file /\ draft' \in {draft, file} /\ UNCHANGED <<host, phase, struck>>
  BY DEF Enter, CloseClient, ClientRaises, Leave, Kill, OpenStore, CloseStore, storeVars
<1>2. RowsOK' /\ \A q \in Runs : RunInv(q)'
  BY <1>1, RowsDropped DEF Inv
<1>3. StoreTypeOK'
  BY ConnectionsAssumption
     DEF Enter, CloseClient, ClientRaises, Leave, Kill, OpenStore, CloseStore, storeVars,
         Inv, RuntimeTypeOK, StoreTypeOK
<1>4. /\ runtime' \in [Connections -> {"new", "entered", "left", "killed"}]
      /\ clients' \in [Connections -> 0..Clients]
  BY ClientsAssumption
     DEF Enter, CloseClient, ClientRaises, Leave, Kill, Inv, RuntimeTypeOK
<1> QED BY <1>1, <1>2, <1>3, <1>4 DEF Inv, RuntimeTypeOK

(* Steps of a reader. *)
LEMMA ReadingKeepsInv ==
  ASSUME Inv, UNCHANGED <<storeVars, runtimeVars, host, phase, struck>>
  PROVE  Inv'
<1>1. RuntimeTypeOK'
  BY DEF Inv, RuntimeTypeOK, StoreTypeOK, storeVars, runtimeVars
<1>2. RowsOK' /\ \A q \in Runs : RunInv(q)'
  BY RowsDropped DEF Inv, storeVars
<1> QED BY <1>1, <1>2 DEF Inv

LEMMA InvInitially == Init => Inv
BY ClientsAssumption
   DEF Init, StoreInit, Inv, RuntimeTypeOK, StoreTypeOK, Phases, RowsOK, OneRowEach, RunInv,
       Recorded, Untainted, Settled, Backed, Begun

LEMMA NextKeepsInv == Inv /\ [Next]_vars => Inv'
<1> SUFFICES ASSUME Inv, [Next]_vars PROVE Inv'
  OBVIOUS
<1>1. ASSUME NEW p \in Connections,
             Enter(p) \/ CloseClient(p) \/ ClientRaises(p) \/ Leave(p) \/ Kill(p)
      PROVE  Inv'
  BY <1>1, RuntimeKeepsInv
<1>2. ASSUME NEW r \in Runs, NEW p \in Connections, RunUnentered(r, p) PROVE Inv'
  BY <1>2, GotoKeepsInv DEF RunUnentered
<1>3. ASSUME NEW r \in Runs, NEW p \in Connections, CreateRun(r, p) PROVE Inv'
  BY <1>3, CreateRunKeepsInv
<1>4. ASSUME NEW r \in Runs, CancelRun(r) PROVE Inv'
  BY <1>4, GotoKeepsInv DEF CancelRun
<1>5. ASSUME NEW r \in Runs, RunStep(r) PROVE Inv'
  <2>1. CASE StartRun(r) BY <2>1, StartRunKeepsInv
  <2>2. CASE SaveArtifact(r) BY <2>2, SaveArtifactKeepsInv
  <2>3. CASE WorkflowRaises(r) BY <2>3, GotoKeepsInv DEF WorkflowRaises, Working
  <2>4. CASE CompleteRun(r) BY <2>4, CompleteRunKeepsInv
  <2>5. CASE SaveSucceeded(r) BY <2>5, SaveSucceededKeepsInv
  <2>6. CASE FailRun(r) BY <2>6, FailRunKeepsInv
  <2>7. CASE SaveFailed(r) BY <2>7, SaveFailedKeepsInv
  <2> QED BY <1>5, <2>1, <2>2, <2>3, <2>4, <2>5, <2>6, <2>7 DEF RunStep
<1>6. CASE InspectRun \/ InspectEvents \/ InspectArtifacts
  BY <1>6, ReadingKeepsInv DEF InspectRun, InspectEvents, InspectArtifacts
<1>7. CASE UNCHANGED vars
  BY <1>7, ReadingKeepsInv DEF vars, runtimeVars
<1> QED BY <1>1, <1>2, <1>3, <1>4, <1>5, <1>6, <1>7 DEF Next

THEOREM InvAlways == Spec => []Inv
<1> QED BY InvInitially, NextKeepsInv, PTL DEF Spec

-----------------------------------------------------------------------------
(* Type correctness: in particular, the transaction of the connection that *)
(* holds the write lock is the only difference between what is on file and *)
(* what any connection sees.                                               *)
THEOREM RuntimeTypeCorrect == Spec => []RuntimeTypeOK
<1>1. Inv => RuntimeTypeOK
  BY DEF Inv
<1> QED BY <1>1, InvAlways, PTL

(* Whatever other runs, processes, faults and kills do to the shared       *)
(* store, the result of Conductor.run is durable once it is returned.      *)
THEOREM ReturnedRunsStayDurable == Spec => []ReturnedRunsDurable
<1>1. Inv => ReturnedRunsDurable
  BY DEF Inv, RowsOK, RunInv, Recorded, Untainted, Begun, ReturnedRunsDurable, Event, Row
<1> QED BY <1>1, InvAlways, PTL

-----------------------------------------------------------------------------
(* The store implements AuditLog. *)

Outcomes == {r \in Runs : phase[r] \in {"returned", "failed"}}

HistoriesComplete == \A r \in Outcomes : Log!Complete(file, r)

(* A run with an outcome has a complete history. *)
LEMMA OutcomesComplete == Inv => HistoriesComplete
<1> SUFFICES ASSUME Inv, NEW r \in Outcomes PROVE Log!Complete(file, r)
  BY DEF HistoriesComplete
<1> USE DEF Outcomes
<1>1. r \in Runs /\ RunInv(r) /\ RowsOK
  BY DEF Inv
<1>2. \A table, value : Row(table, r, value) \in file => Log!Has(file, r, table, value)
  BY DEF Log!Has, Log!History, Row
<1>3. \A x, y \in Log!History(file, r) : x.table = "runs" /\ y.table = "runs" => x = y
  BY <1>1 DEF RowsOK, OneRowEach, Log!History
<1>4. Log!Has(file, r, "events", "run.created") /\ Log!Has(file, r, "events", "run.started")
  BY <1>1, <1>2 DEF RunInv, Recorded, Begun, Event
<1>5. CASE phase[r] = "returned"
  <2>1. /\ Log!Has(file, r, "runs", "succeeded") /\ Log!Has(file, r, "artifacts", "artifact")
        /\ Log!Has(file, r, "events", "run.completed")
    BY <1>1, <1>2, <1>5 DEF RunInv, Recorded, Event
  <2>2. Row("events", r, "run.failed") \notin file
    BY <1>1, <1>5 DEF RunInv, Untainted, RowsOK, Event, Row
  <2>3. ~Log!Has(file, r, "events", "run.failed")
    <3>1. ASSUME NEW x \in file, x.run = r, x.table = "events", x.value = "run.failed"
          PROVE  x = Row("events", r, "run.failed")
      BY <1>1, <3>1 DEF RowsOK, RowSet, Row
    <3> QED BY <2>2, <3>1 DEF Log!Has, Log!History
  <2> QED BY <1>3, <1>4, <2>1, <2>3 DEF Log!Complete
<1>6. CASE phase[r] = "failed"
  <2>1. Log!Has(file, r, "runs", "failed") /\ Log!Has(file, r, "events", "run.failed")
    BY <1>1, <1>2, <1>6 DEF RunInv, Recorded, Event
  <2> QED BY <1>3, <1>4, <2>1 DEF Log!Complete
<1> QED BY <1>5, <1>6

(* A store operation forgets nothing and leaves settled runs alone.        *)
LEMMA StoreOpKeepsLog ==
  ASSUME Inv, HistoriesComplete', NEW p \in Connections, NEW r \in Runs \ Outcomes,
         NEW row \in RowSet, row.run = r, NEW next, NEW error, StoreOn(p, r, row, next, error)
  PROVE  Log!LogStep
<1>1. Committed(row) \/ Pending(row)
  BY DEF StoreOn, Raises, Commit, CommitBusy, CommitRollsBack, storeVars, Committed, Pending
<1>2. \A q \in Runs \ {r} : phase'[q] = phase[q]
  BY DEF StoreOn, Inv, RuntimeTypeOK
<1>3. \A x \in file : x.table # "runs" => x \in file'
  BY <1>1, RowsMove DEF Inv
<1>4. \A q \in Outcomes : Log!History(file', q) = Log!History(file, q)
  BY <1>1, RowsMove DEF Inv, RunInv, Settled, Outcomes
<1>5. Outcomes \subseteq Outcomes'
  BY <1>2 DEF Outcomes
<1> QED BY <1>3, <1>4, <1>5 DEF Log!LogStep, Outcomes, HistoriesComplete

(* Every other step stutters in the log, for it neither commits nor ends a *)
(* run with an outcome.                                                    *)
LEMMA OtherStepsKeepLog ==
  ASSUME file' = file, Outcomes' = Outcomes
  PROVE  UNCHANGED Log!logVars
BY DEF Log!logVars, Outcomes

LEMMA StepsKeepLog ==
  ASSUME Inv, HistoriesComplete', [Next]_vars
  PROVE  [Log!LogStep]_(Log!logVars)
<1>1. ASSUME NEW p \in Connections,
             Enter(p) \/ CloseClient(p) \/ ClientRaises(p) \/ Leave(p) \/ Kill(p)
      PROVE  file' = file /\ phase' = phase
  BY <1>1 DEF Enter, CloseClient, ClientRaises, Leave, Kill, OpenStore, CloseStore, storeVars
<1>2. ASSUME NEW r \in Runs, NEW next \in {"refused", "handling", "cancelled"},
             phase[r] \in {"new", "working", "finishing"}, Goto(r, next)
      PROVE  file' = file /\ Outcomes' = Outcomes
  BY <1>2 DEF Goto, storeVars, Outcomes, Inv, RuntimeTypeOK
<1>3. ASSUME NEW r \in Runs, NEW p \in Connections, CreateRun(r, p)
      PROVE  Log!LogStep
  BY <1>3, RowsOfRun, StoreOpKeepsLog DEF CreateRun, Outcomes
<1>4. ASSUME NEW r \in Runs, NEW row \in RowSet, row.run = r, NEW next, NEW error,
             Store(r, row, next, error), phase[r] \notin {"returned", "failed"}
      PROVE  Log!LogStep
  BY <1>4, StoreOpKeepsLog DEF Store, Alive, Outcomes
<1>5. ASSUME NEW r \in Runs, RunStep(r)
      PROVE  Log!LogStep \/ (file' = file /\ Outcomes' = Outcomes)
  <2>1. CASE StartRun(r) BY <2>1, <1>4, RowsOfRun DEF StartRun
  <2>2. CASE SaveArtifact(r) BY <2>2, <1>4, RowsOfRun DEF SaveArtifact
  <2>3. CASE WorkflowRaises(r) BY <2>3, <1>2 DEF WorkflowRaises, Working
  <2>4. CASE CompleteRun(r) BY <2>4, <1>4, RowsOfRun DEF CompleteRun
  <2>5. CASE SaveSucceeded(r) BY <2>5, <1>4, RowsOfRun DEF SaveSucceeded
  <2>6. CASE FailRun(r) BY <2>6, <1>4, RowsOfRun DEF FailRun
  <2>7. CASE SaveFailed(r) BY <2>7, <1>4, RowsOfRun DEF SaveFailed
  <2> QED BY <1>5, <2>1, <2>2, <2>3, <2>4, <2>5, <2>6, <2>7 DEF RunStep
<1>6. ASSUME NEW r \in Runs, CancelRun(r) \/ \E p \in Connections : RunUnentered(r, p)
      PROVE  file' = file /\ Outcomes' = Outcomes
  BY <1>2, <1>6 DEF RunUnentered, CancelRun, Working
<1>7. ASSUME InspectRun \/ InspectEvents \/ InspectArtifacts \/ UNCHANGED vars
      PROVE  file' = file /\ phase' = phase
  BY <1>7, Zenon DEF InspectRun, InspectEvents, InspectArtifacts, storeVars, vars
<1>8. phase' = phase => Outcomes' = Outcomes
  BY DEF Outcomes
<1>9. CASE Log!LogStep
  BY <1>9
<1>10. CASE file' = file /\ Outcomes' = Outcomes
  BY <1>10, OtherStepsKeepLog
<1>11. Log!LogStep \/ (file' = file /\ Outcomes' = Outcomes)
  BY <1>1, <1>3, <1>5, <1>6, <1>7, <1>8 DEF Next
<1> QED BY <1>9, <1>10, <1>11

(* The file is an AuditLog: nothing recorded is forgotten, and what a      *)
(* caller was told about its run stays on file, complete and unchanged.    *)
THEOREM StoreImplementsAuditLog == Spec => KeepsAuditLog
<1>1. Init => Log!LogInit
  BY DEF Init, StoreInit, Log!LogInit
<1>2. Inv /\ HistoriesComplete' /\ [Next]_vars => [Log!LogStep]_(Log!logVars)
  BY StepsKeepLog
<1>3. KeepsAuditLog <=> Log!LogInit /\ [][Log!LogStep]_(Log!logVars)
  BY DEF KeepsAuditLog, Log!LogSpec
<1> QED BY <1>1, <1>2, <1>3, InvAlways, OutcomesComplete, PTL DEF Spec

-----------------------------------------------------------------------------
(* A reader sees rows that are on file; what it has read stays on file, so *)
(* what it reads later includes what the row it read first was based on.   *)

ShownBacked ==
  \A r \in Runs :
    /\ inspection.run = r /\ inspection.status = "succeeded" =>
         {Event(r, "run.created"), Event(r, "run.started"), Event(r, "run.completed"),
          Row("artifacts", r, "artifact")} \subseteq file
    /\ inspection.run = r /\ inspection.status = "failed" =>
         {Event(r, "run.created"), Event(r, "run.started"), Event(r, "run.failed")} \subseteq file

EventsShown ==
  /\ {"run.created", "run.started"} \subseteq inspection.events
  /\ inspection.status = "succeeded" => "run.completed" \in inspection.events
  /\ inspection.status = "failed" => "run.failed" \in inspection.events

Inspections ==
  [read : SUBSET {"run", "events", "artifacts"}, run : Runs \cup {"none"},
   status : {"none", "succeeded", "failed"}, events : SUBSET Values, artifacts : SUBSET Values]

InspectionInv ==
  /\ inspection \in Inspections
  /\ inspection.read # {} => inspection.run \in Runs /\ inspection.status # "none"
  /\ inspection.read = {} => inspection.status = "none"
  /\ ShownBacked
  /\ "events" \in inspection.read => EventsShown
  /\ "artifacts" \in inspection.read =>
       /\ "events" \in inspection.read
       /\ inspection.status = "succeeded" => inspection.artifacts # {}

LEMMA InspectRunKeepsInspection ==
  ASSUME Inv, InspectionInv, InspectRun
  PROVE  InspectionInv'
<1>1. PICK x \in SavedRuns :
        inspection' = [inspection EXCEPT !.read = {"run"}, !.run = x.run, !.status = x.value]
  BY DEF InspectRun
<1>2. x \in file /\ x.run \in Runs /\ x.value \in {"succeeded", "failed"}
  BY <1>1 DEF SavedRuns, Inv, RowsOK, RowSet
<1>3. x = Row("runs", x.run, x.value)
  BY <1>1 DEF SavedRuns, Inv, RowsOK, RowSet, Row
<1>4. Backed(x.run)
  BY <1>2 DEF Inv, RunInv
<1>5. file' = file
  BY DEF InspectRun, storeVars
<1>6. /\ inspection'.read = {"run"} /\ inspection'.run = x.run /\ inspection'.status = x.value
      /\ inspection' \in Inspections
  BY <1>1, <1>2 DEF InspectionInv, Inspections
<1>7. ShownBacked'
  BY <1>2, <1>3, <1>4, <1>5, <1>6 DEF ShownBacked, Backed, Event, Row
<1> QED BY <1>2, <1>6, <1>7 DEF InspectionInv

LEMMA InspectEventsKeepsInspection ==
  ASSUME Inv, InspectionInv, InspectEvents
  PROVE  InspectionInv'
<1> DEFINE r == inspection.run
<1>1. /\ inspection.read = {"run"} /\ file' = file
      /\ inspection' = [inspection EXCEPT !.read = @ \cup {"events"}, !.events = Rows("events", r)]
  BY DEF InspectEvents, storeVars
<1>2. r \in Runs /\ inspection.status \in {"succeeded", "failed"}
  BY <1>1 DEF InspectionInv, Inspections
<1>3. Rows("events", r) \subseteq Values
  BY DEF Rows, Inv, RowsOK, RowSet
<1>4. \A type : Event(r, type) \in file => type \in Rows("events", r)
  BY DEF Rows, Event, Row
<1>5. /\ inspection'.read = {"run", "events"} /\ inspection'.run = r
      /\ inspection'.status = inspection.status /\ inspection'.events = Rows("events", r)
      /\ inspection' \in Inspections
  BY <1>1, <1>3 DEF InspectionInv, Inspections
<1>6. ShownBacked'
  BY <1>1, <1>5 DEF InspectionInv, ShownBacked, Event, Row
<1>7. EventsShown'
  BY <1>2, <1>4, <1>5 DEF InspectionInv, ShownBacked, EventsShown
<1> QED BY <1>2, <1>5, <1>6, <1>7 DEF InspectionInv

LEMMA InspectArtifactsKeepsInspection ==
  ASSUME Inv, InspectionInv, InspectArtifacts
  PROVE  InspectionInv'
<1> DEFINE r == inspection.run
<1>1. /\ inspection.read = {"run", "events"} /\ file' = file
      /\ inspection' = [inspection EXCEPT !.read = @ \cup {"artifacts"},
                                         !.artifacts = Rows("artifacts", r)]
  BY DEF InspectArtifacts, storeVars
<1>2. r \in Runs
  BY <1>1 DEF InspectionInv, Inspections
<1>3. Rows("artifacts", r) \subseteq Values
  BY DEF Rows, Inv, RowsOK, RowSet
<1>4. Row("artifacts", r, "artifact") \in file => "artifact" \in Rows("artifacts", r)
  BY DEF Rows, Row
<1>5. /\ inspection'.read = {"run", "events", "artifacts"} /\ inspection'.run = r
      /\ inspection'.status = inspection.status /\ inspection'.events = inspection.events
      /\ inspection'.artifacts = Rows("artifacts", r)
      /\ inspection' \in Inspections
  BY <1>1, <1>3 DEF InspectionInv, Inspections
<1>6. ShownBacked' /\ EventsShown'
  BY <1>1, <1>5 DEF InspectionInv, ShownBacked, EventsShown, Event, Row
<1>7. inspection.status = "succeeded" => Rows("artifacts", r) # {}
  BY <1>2, <1>4 DEF InspectionInv, ShownBacked
<1> QED BY <1>1, <1>2, <1>5, <1>6, <1>7 DEF InspectionInv

(* Every other step leaves the reader alone and forgets no event.          *)
LEMMA InspectionUndisturbed ==
  ASSUME InspectionInv, inspection' = inspection,
         \A x \in file : x.table # "runs" => x \in file'
  PROVE  InspectionInv'
<1>1. \A r, type : Event(r, type) \in file => Event(r, type) \in file'
  BY DEF Event, Row
<1>2. \A r : Row("artifacts", r, "artifact") \in file => Row("artifacts", r, "artifact") \in file'
  BY DEF Row
<1>3. ShownBacked'
  BY <1>1, <1>2 DEF InspectionInv, ShownBacked
<1> QED BY <1>3 DEF InspectionInv, EventsShown

LEMMA NextKeepsInspection ==
  Inv /\ HistoriesComplete' /\ InspectionInv /\ [Next]_vars => InspectionInv'
<1> SUFFICES ASSUME Inv, HistoriesComplete', InspectionInv, [Next]_vars PROVE InspectionInv'
  OBVIOUS
<1>1. \A x \in file : x.table # "runs" => x \in file'
  BY StepsKeepLog DEF Log!LogStep, Log!logVars
<1>2. CASE InspectRun BY <1>2, InspectRunKeepsInspection
<1>3. CASE InspectEvents BY <1>3, InspectEventsKeepsInspection
<1>4. CASE InspectArtifacts BY <1>4, InspectArtifactsKeepsInspection
<1>5. CASE \E p \in Connections :
             Enter(p) \/ CloseClient(p) \/ ClientRaises(p) \/ Leave(p) \/ Kill(p)
  BY <1>1, <1>5, InspectionUndisturbed DEF Enter, CloseClient, ClientRaises, Leave, Kill
<1>6. CASE \E r \in Runs, p \in Connections : RunUnentered(r, p) \/ CreateRun(r, p)
  BY <1>1, <1>6, InspectionUndisturbed DEF RunUnentered, CreateRun, Goto, StoreOn
<1>7. CASE \E r \in Runs : CancelRun(r) \/ RunStep(r)
  BY <1>1, <1>7, InspectionUndisturbed
     DEF CancelRun, RunStep, StartRun, SaveArtifact, WorkflowRaises, CompleteRun, SaveSucceeded,
         FailRun, SaveFailed, Goto, Store, StoreOn
<1>8. CASE UNCHANGED vars
  BY <1>1, <1>8, InspectionUndisturbed DEF vars
<1> QED BY <1>2, <1>3, <1>4, <1>5, <1>6, <1>7, <1>8 DEF Next

(* An inspection is never torn: whoever is shown a status is also shown    *)
(* the events and artifacts that led to it, although each of the three     *)
(* queries sees the file as it is by then.                                 *)
THEOREM InspectionsAreComplete == Spec => []InspectedRunComplete
<1>1. Init => InspectionInv
  BY DEF Init, NoInspection, InspectionInv, Inspections, ShownBacked
<1>2. InspectionInv => InspectedRunComplete
  BY DEF InspectionInv, EventsShown, InspectedRunComplete
<1> QED BY <1>1, <1>2, InvAlways, OutcomesComplete, NextKeepsInspection, PTL DEF Spec

-----------------------------------------------------------------------------
(* Whoever left a transaction open had a store operation that raised, so a *)
(* store refuses a run only if it is closed or after another connection's. *)
LostByCause ==
  \A r \in Runs : phase[r] = "lost" =>
    r \in struck \/ host[r] \notin open \/ \E s \in struck : host[s] # host[r]

CauseInv ==
  /\ \A p \in Connections : runtime[p] = "new" => p \notin open
  /\ \A r \in Runs : phase[r] \notin {"new", "refused"} =>
       host[r] \in Connections /\ runtime[host[r]] # "new"
  /\ \A s \in struck : phase[s] # "new"
  /\ writer # NoConnection => \E s \in struck : host[s] = writer
  /\ LostByCause

LEMMA StoreOnKeepsCause ==
  ASSUME Inv, CauseInv, NEW r \in Runs, NEW p \in Connections, NEW row, row.run = r,
         NEW next \in Phases, NEW error \in Phases, next # "lost", {next, error} \cap {"new"} = {},
         StoreOn(p, r, row, next, error), runtime[p] # "new", phase[r] # "lost",
         \/ phase[r] = "new" /\ host' = [host EXCEPT ![r] = p]
         \/ host' = host /\ host[r] = p
  PROVE  CauseInv'
<1> USE ConnectionsAssumption DEF Inv, RuntimeTypeOK, StoreTypeOK
<1>1. /\ runtime' = runtime /\ open' = open /\ struck' \in {struck, struck \cup {r}}
      /\ phase' = [phase EXCEPT ![r] = next] \/ phase' = [phase EXCEPT ![r] = error]
  BY DEF StoreOn, Raises, Commit, CommitBusy, CommitRollsBack, storeVars, runtimeVars
<1>2. /\ host'[r] = p
      /\ \A q \in Runs \ {r} : host'[q] = host[q] /\ phase'[q] = phase[q]
      /\ phase'[r] # "new" /\ phase'[r] \in {next, error}
  BY <1>1
<1>3. \A s \in struck : host'[s] = host[s]
  BY <1>2 DEF CauseInv
<1>4. writer' # NoConnection => \E s \in struck' : host'[s] = writer'
  <2>1. \/ writer' = writer \/ writer' = NoConnection
        \/ writer' = p /\ r \in struck'
    BY DEF StoreOn, Raises, Commit, CommitBusy, CommitRollsBack, storeVars
  <2> QED BY <1>1, <1>2, <1>3, <2>1 DEF CauseInv
<1>5. phase'[r] = "lost" =>
        r \in struck' \/ p \notin open \/ \E s \in struck : host[s] # p
  <2>1. ASSUME phase'[r] = "lost"
        PROVE  Raises(p, row)
    BY <2>1 DEF StoreOn
  <2>2. ASSUME ~Usable(p)
        PROVE  p \notin open \/ \E s \in struck : host[s] # p
    BY <2>2 DEF Usable, CauseInv
  <2>3. ASSUME Raises(p, row), Usable(p)
        PROVE  r \in struck'
    BY <2>3 DEF Raises
  <2> QED BY <2>1, <2>2, <2>3
<1>6. LostByCause'
  <2> SUFFICES ASSUME NEW q \in Runs, phase'[q] = "lost"
               PROVE  q \in struck' \/ host'[q] \notin open' \/ \E s \in struck' : host'[s] # host'[q]
    BY DEF LostByCause
  <2>1. CASE q = r BY <1>1, <1>2, <1>3, <1>5, <2>1
  <2>2. CASE q # r
    <3>1. q \in struck \/ host[q] \notin open \/ \E s \in struck : host[s] # host[q]
      BY <1>2, <2>2 DEF CauseInv, LostByCause
    <3> QED BY <1>1, <1>2, <1>3, <2>2, <3>1
  <2> QED BY <2>1, <2>2
<1>7. \A s \in struck' : phase'[s] # "new"
  BY <1>1, <1>2 DEF CauseInv
<1>8. \A q \in Runs : phase'[q] \notin {"new", "refused"} =>
        host'[q] \in Connections /\ runtime'[host'[q]] # "new"
  BY <1>1, <1>2 DEF CauseInv
<1> QED BY <1>1, <1>4, <1>6, <1>7, <1>8 DEF CauseInv

LEMMA RuntimeKeepsCause ==
  ASSUME Inv, CauseInv, NEW p \in Connections,
         Enter(p) \/ CloseClient(p) \/ ClientRaises(p) \/ Leave(p) \/ Kill(p)
  PROVE  CauseInv'
<1> USE ConnectionsAssumption DEF Inv, RuntimeTypeOK, StoreTypeOK
<1>1. UNCHANGED <<host, phase, struck>>
  BY DEF Enter, CloseClient, ClientRaises, Leave, Kill
<1>2. \/ runtime' = runtime /\ open' = open /\ writer' = writer
      \/ /\ runtime[p] = "new" /\ runtime' = [runtime EXCEPT ![p] = "entered"]
         /\ open' = open \cup {p} /\ writer' = writer
      \/ /\ runtime[p] # "new"
         /\ \/ runtime' = [runtime EXCEPT ![p] = "left"]
            \/ runtime' = [runtime EXCEPT ![p] = "killed"]
         /\ open' \in {open, open \ {p}} /\ writer' \in {writer, NoConnection}
  BY DEF Enter, CloseClient, ClientRaises, Leave, Kill, OpenStore, CloseStore, storeVars
<1>3. \A q \in Connections :
        /\ runtime'[q] = "new" => q \notin open'
        /\ runtime[q] # "new" => runtime'[q] # "new"
        /\ runtime[q] # "new" /\ q \notin open => q \notin open'
  BY <1>2 DEF CauseInv
<1>4. \A r \in Runs : phase[r] = "lost" => host[r] \in Connections /\ runtime[host[r]] # "new"
  BY DEF CauseInv
<1>5. LostByCause'
  BY <1>1, <1>3, <1>4 DEF CauseInv, LostByCause
<1>6. writer' # NoConnection => \E s \in struck' : host'[s] = writer'
  BY <1>1, <1>2 DEF CauseInv
<1> QED BY <1>1, <1>3, <1>5, <1>6 DEF CauseInv

LEMMA NextKeepsCause == Inv /\ CauseInv /\ [Next]_vars => CauseInv'
<1> SUFFICES ASSUME Inv, CauseInv, [Next]_vars PROVE CauseInv'
  OBVIOUS
<1>1. CASE \E p \in Connections :
             Enter(p) \/ CloseClient(p) \/ ClientRaises(p) \/ Leave(p) \/ Kill(p)
  BY <1>1, RuntimeKeepsCause
<1>2. ASSUME NEW r \in Runs, NEW p \in Connections, CreateRun(r, p) PROVE CauseInv'
  BY <1>2, RowsOfRun, StoreOnKeepsCause DEF CreateRun, Phases
<1>3. ASSUME NEW r \in Runs, NEW row, row.run = r, NEW next \in Phases, NEW error \in Phases,
             next # "lost", {next, error} \cap {"new"} = {},
             phase[r] \notin {"new", "refused", "lost"}, Store(r, row, next, error)
      PROVE  CauseInv'
  BY <1>3, StoreOnKeepsCause DEF Store, Alive, CauseInv
<1>4. ASSUME NEW r \in Runs, NEW next \in {"refused", "handling", "cancelled"}, Goto(r, next),
             next = "refused" \/ phase[r] \notin {"new", "refused"}
      PROVE  CauseInv'
  <2>1. /\ phase' = [phase EXCEPT ![r] = next]
        /\ UNCHANGED <<open, writer, runtime, host, struck>>
    BY <1>4 DEF Goto, storeVars, runtimeVars
  <2> QED BY <1>4, <2>1 DEF CauseInv, LostByCause, Inv, RuntimeTypeOK
<1>5. ASSUME NEW r \in Runs, RunStep(r) PROVE CauseInv'
  <2>1. CASE StartRun(r) BY <2>1, <1>3, RowsOfRun DEF StartRun, Phases
  <2>2. CASE SaveArtifact(r) BY <2>2, <1>3, RowsOfRun DEF SaveArtifact, Phases
  <2>3. CASE WorkflowRaises(r) BY <2>3, <1>4 DEF WorkflowRaises, Working
  <2>4. CASE CompleteRun(r) BY <2>4, <1>3, RowsOfRun DEF CompleteRun, Phases
  <2>5. CASE SaveSucceeded(r) BY <2>5, <1>3, RowsOfRun DEF SaveSucceeded, Phases
  <2>6. CASE FailRun(r) BY <2>6, <1>3, RowsOfRun DEF FailRun, Phases
  <2>7. CASE SaveFailed(r) BY <2>7, <1>3, RowsOfRun DEF SaveFailed, Phases
  <2> QED BY <1>5, <2>1, <2>2, <2>3, <2>4, <2>5, <2>6, <2>7 DEF RunStep
<1>6. ASSUME NEW r \in Runs, CancelRun(r) \/ \E p \in Connections : RunUnentered(r, p)
      PROVE  CauseInv'
  BY <1>4, <1>6 DEF CancelRun, RunUnentered, Working
<1>7. CASE InspectRun \/ InspectEvents \/ InspectArtifacts \/ UNCHANGED vars
  <2>1. UNCHANGED <<open, writer, runtime, host, phase, struck>>
    BY <1>7 DEF InspectRun, InspectEvents, InspectArtifacts, vars, storeVars, runtimeVars
  <2> QED BY <2>1 DEF CauseInv, LostByCause
<1> QED BY <1>1, <1>2, <1>5, <1>6, <1>7 DEF Next

(* Runs that share a connection do not disturb each other: a run that is   *)
(* over has its row and its terminal event on file, unless it was          *)
(* cancelled, was hit by a store fault itself, lost its store, or met what *)
(* a fault of another connection left behind.                              *)
THEOREM OutcomesRecordedUnlessCause == Spec => []UnrecordedOnlyByCause
<1>1. Init => CauseInv
  BY DEF Init, StoreInit, CauseInv, LostByCause
<1>2. Inv /\ CauseInv => UnrecordedOnlyByCause
  <2>1. ASSUME Inv, NEW r \in Runs, phase[r] \in {"returned", "failed"}
        PROVE  OutcomeOnFile(r)
    BY <2>1 DEF Inv, RunInv, Recorded, OutcomeOnFile, Begun
  <2> QED BY <2>1 DEF CauseInv, LostByCause, UnrecordedOnlyByCause, Over
<1> QED BY <1>1, <1>2, InvAlways, NextKeepsCause, PTL DEF Spec

=============================================================================
