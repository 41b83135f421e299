--------------------------- MODULE SnapshotProofs ---------------------------
(***************************************************************************)
(* Proofs about Dictionary and Snapshot, for any blocks, heights, reorgs,  *)
(* dictionaries and any training threshold.  What is said of dictionaries  *)
(* is proved for a store that one thread writes to; MCDictionaryRace shows *)
(* that it does not hold for two.                                          *)
(***************************************************************************)
EXTENDS Snapshot, SequenceTheorems, TLAPS

-----------------------------------------------------------------------------
(***************************************************************************)
(* The types of the dictionary state.                                      *)
(***************************************************************************)
PCs == {"idle", "write", "trained", "meta", "count", "train", "sample", "persist",
        "install", "load"}
Works == [pc : PCs, block : Blocks \cup {NoRow}, enc : Encodings \cup {NoRow},
          dict : Dicts \cup {NoDict}]

LEMMA RestingWork == Resting \in Works /\ Resting.pc = "idle"
BY DEF Resting, Works, PCs

\* One thread's step, with all that it can do to the locals of the thread.
LEMMA WorkStep ==
  ASSUME DictTypeOK, NEW t \in Threads, NEW w \in Works, work' = [work EXCEPT ![t] = w],
         w.pc = "write" => w.block \in Blocks /\ w.enc \in Encodings
  PROVE  /\ work' \in [Threads -> Works]
         /\ work'[t] = w /\ \A u \in Threads : u # t => work'[u] = work[u]
         /\ \A u \in Threads :
              work'[u].pc = "write" => work'[u].block \in Blocks /\ work'[u].enc \in Encodings
<1>1. work \in [Threads -> Works] BY DEF DictTypeOK, Works, PCs
<1>2. /\ work' \in [Threads -> Works]
      /\ work'[t] = w /\ \A u \in Threads : u # t => work'[u] = work[u]
  BY <1>1
<1> QED BY <1>2 DEF DictTypeOK

\* The shape of every step of a thread: it replaces its locals by w.
ThreadStep(t) ==
  (\E b \in Blocks : Put(t, b)) \/ Write(t) \/ TrainStep(t) \/ InitDictionary(t)

LEMMA ThreadShape ==
  ASSUME DictTypeOK, NEW t \in Threads, ThreadStep(t)
  PROVE  \E w \in Works : /\ work' = [work EXCEPT ![t] = w]
                          /\ w.pc = "write" => w.block \in Blocks /\ w.enc \in Encodings
<1>1. work \in [Threads -> Works] BY DEF DictTypeOK, Works, PCs
<1>2. /\ metaDict \in Dicts \cup {NoDict} /\ live \in Dicts \cup {NoDict}
      /\ Encoding \in Encodings
  BY DEF DictTypeOK, Encoding, Encodings
<1>3. ASSUME NEW pc \in PCs \ {"write"}, Goto(t, pc) PROVE
        \E w \in Works : /\ work' = [work EXCEPT ![t] = w]
                         /\ w.pc = "write" => w.block \in Blocks /\ w.enc \in Encodings
  <2> DEFINE w == [work[t] EXCEPT !.pc = pc]
  <2>1. w \in Works /\ w.pc = pc BY <1>1 DEF Works
  <2>2. work' = [work EXCEPT ![t] = w] BY <1>3 DEF Goto
  <2> HIDE DEF w
  <2> QED BY <1>3, <2>1, <2>2
<1>4. ASSUME NEW pc \in PCs \ {"write"}, NEW d \in Dicts \cup {NoDict},
             work' = [work EXCEPT ![t].pc = pc, ![t].dict = d]
      PROVE  \E w \in Works : /\ work' = [work EXCEPT ![t] = w]
                              /\ w.pc = "write" => w.block \in Blocks /\ w.enc \in Encodings
  <2> DEFINE w == [work[t] EXCEPT !.pc = pc, !.dict = d]
  <2>1. w \in Works /\ w.pc = pc BY <1>1 DEF Works
  <2>2. work' = [work EXCEPT ![t] = w]
    <3>1. work' = [work EXCEPT ![t] = [[work[t] EXCEPT !.pc = pc] EXCEPT !.dict = d]]
      BY <1>1, <1>4
    <3> QED BY <3>1
  <2> HIDE DEF w
  <2> QED BY <1>4, <2>1, <2>2
<1>5. ASSUME Finish(t) PROVE
        \E w \in Works : /\ work' = [work EXCEPT ![t] = w]
                         /\ w.pc = "write" => w.block \in Blocks /\ w.enc \in Encodings
  BY <1>5, RestingWork DEF Finish
<1>6. ASSUME NEW b \in Blocks, Put(t, b) PROVE
        \E w \in Works : /\ work' = [work EXCEPT ![t] = w]
                         /\ w.pc = "write" => w.block \in Blocks /\ w.enc \in Encodings
  <2> DEFINE w == [Resting EXCEPT !.pc = "write", !.block = b, !.enc = Encoding]
  <2>1. w \in Works /\ w.block = b /\ w.enc = Encoding
    BY <1>2, RestingWork DEF Works, PCs, Resting
  <2>2. work' = [work EXCEPT ![t] = w] BY <1>6 DEF Put
  <2> HIDE DEF w
  <2> QED BY <1>2, <2>1, <2>2
<1>7. CASE Write(t) BY <1>3, <1>7 DEF Write, PCs
<1>8. CASE TrainStep(t)
  <2>1. \A x \in {"trained", "meta", "count", "train", "sample", "persist", "install", "load"} :
          x \in PCs \ {"write"}
    BY DEF PCs
  <2>2. Loaded(useDict) \in Dicts \cup {NoDict} BY <1>2 DEF Loaded
  <2>3. CASE CheckLive(t) BY <1>3, <1>5, <2>1, <2>3 DEF CheckLive
  <2>4. CASE CheckMeta(t) BY <1>3, <2>1, <2>4 DEF CheckMeta
  <2>5. CASE CheckCount(t) BY <1>3, <1>5, <2>1, <2>5 DEF CheckCount
  <2>6. CASE Train(t) BY <1>2, <1>3, <1>4, <2>1, <2>6 DEF Train
  <2>7. CASE Sample(t) BY <1>4, <1>5, <2>1, <2>7 DEF Sample
  <2>8. CASE SampleFails(t) BY <1>5, <2>8 DEF SampleFails
  <2>9. CASE Persist(t) BY <1>3, <2>1, <2>9 DEF Persist
  <2>10. CASE Install(t) BY <1>5, <2>10 DEF Install
  <2>11. CASE Load(t) BY <1>4, <2>1, <2>2, <2>11 DEF Load
  <2> QED BY <1>8, <2>3, <2>4, <2>5, <2>6, <2>7, <2>8, <2>9, <2>10, <2>11 DEF TrainStep
<1>9. CASE InitDictionary(t) BY <1>3, <1>9 DEF InitDictionary, PCs
<1> QED BY <1>6, <1>7, <1>8, <1>9 DEF ThreadStep

\* What a step of a thread can do to the shared state.
LEMMA ThreadEffect ==
  ASSUME NEW t \in Threads, ThreadStep(t)
  PROVE  /\ UNCHANGED useDict
         /\ \/ UNCHANGED <<rows, metaDict, live>>
            \/ Write(t) /\ UNCHANGED <<metaDict, live>>
            \/ Persist(t) /\ UNCHANGED <<rows, live>>
            \/ Install(t) /\ UNCHANGED <<rows, metaDict>>
<1>1. ASSUME NEW b \in Blocks, Put(t, b) PROVE UNCHANGED <<rows, metaDict, live, useDict>>
  BY <1>1 DEF Put
<1>2. CASE Write(t) BY <1>2 DEF Write
<1>3. CASE InitDictionary(t) BY <1>3 DEF InitDictionary
<1>4. CASE Persist(t) BY <1>4 DEF Persist
<1>5. CASE Install(t) BY <1>5 DEF Install
<1>6. CASE CheckLive(t) \/ CheckMeta(t) \/ CheckCount(t) \/ Train(t) \/ Sample(t)
           \/ SampleFails(t) \/ Load(t)
  BY <1>6 DEF CheckLive, CheckMeta, CheckCount, Train, Sample, SampleFails, Load
<1> QED BY <1>1, <1>2, <1>3, <1>4, <1>5, <1>6 DEF ThreadStep, TrainStep

DictTypes(r, m, l) ==
  /\ r \in [Blocks -> Encodings \cup {NoRow}]
  /\ m \in Dicts \cup {NoDict} /\ l \in Dicts \cup {NoDict}

LEMMA DictTypeForm ==
  /\ DictTypeOK <=>
       /\ DictTypes(rows, metaDict, live) /\ useDict \in BOOLEAN
       /\ work \in [Threads -> Works]
       /\ \A t \in Threads :
            work[t].pc = "write" => work[t].block \in Blocks /\ work[t].enc \in Encodings
  /\ DictTypeOK' <=>
       /\ DictTypes(rows', metaDict', live') /\ useDict' \in BOOLEAN
       /\ work' \in [Threads -> Works]
       /\ \A t \in Threads :
            work'[t].pc = "write" => work'[t].block \in Blocks /\ work'[t].enc \in Encodings
BY DEF DictTypeOK, DictTypes, Works, PCs

LEMMA ThreadTypes ==
  ASSUME DictTypeOK, NEW t \in Threads, ThreadStep(t)
  PROVE  DictTypeOK'
<1>1. PICK w \in Works : /\ work' = [work EXCEPT ![t] = w]
                         /\ w.pc = "write" => w.block \in Blocks /\ w.enc \in Encodings
  BY ThreadShape
<1>2. /\ work' \in [Threads -> Works]
      /\ \A u \in Threads :
           work'[u].pc = "write" => work'[u].block \in Blocks /\ work'[u].enc \in Encodings
  BY <1>1, WorkStep
<1>3. DictTypes(rows, metaDict, live) /\ useDict \in BOOLEAN /\ work[t] \in Works
  BY DictTypeForm
<1>4. useDict' \in BOOLEAN BY <1>3, ThreadEffect
<1>5. DictTypes(rows', metaDict', live')
  <2>1. CASE UNCHANGED <<rows, metaDict, live>> BY <1>3, <2>1
  <2>2. CASE Write(t) /\ UNCHANGED <<metaDict, live>>
    <3>1. rows' = [rows EXCEPT ![work[t].block] = work[t].enc] BY <2>2 DEF Write
    <3> QED BY <1>3, <2>2, <3>1 DEF DictTypes, Works
  <2>3. CASE Persist(t) /\ UNCHANGED <<rows, live>>
    BY <1>3, <2>3 DEF Persist, DictTypes, Works
  <2>4. CASE Install(t) /\ UNCHANGED <<rows, metaDict>>
    BY <1>3, <2>4 DEF Install, DictTypes, Works
  <2> QED BY <2>1, <2>2, <2>3, <2>4, ThreadEffect
<1> QED BY <1>2, <1>4, <1>5, DictTypeForm

LEMMA ReopenTypes ==
  ASSUME DictTypeOK, NEW use \in UseDict, Reopen(use)
  PROVE  DictTypeOK'
<1>1. DictTypes(rows, metaDict, live) BY DictTypeForm
<1>2. DictTypes(rows', metaDict', live') BY <1>1 DEF DictTypes, Reopen, Loaded
<1>3. useDict' \in BOOLEAN BY UseDictAssumption DEF Reopen
<1>4. \A t \in Threads : work'[t] = Resting BY DEF Reopen
<1>5. work' \in [Threads -> Works] BY RestingWork DEF Reopen
<1> QED BY <1>2, <1>3, <1>4, <1>5, RestingWork, DictTypeForm

\* Rows only go: a deletion by pruning, or a step that does not touch the store.
LEMMA ShrinkTypes ==
  ASSUME DictTypeOK, UNCHANGED <<metaDict, live, useDict, work>>,
         rows' \in [Blocks -> Encodings \cup {NoRow}]
  PROVE  DictTypeOK'
BY DictTypeForm DEF DictTypes

-----------------------------------------------------------------------------
(***************************************************************************)
(* Rows and dictionaries, with one thread in the store.                    *)
(***************************************************************************)
OneThread == \A t, u \in Threads : t = u

\* TrainingInv for the locals w of a thread.
Agrees(w, m, l, use) ==
  /\ w.pc = "write" => Decodes(w.enc, use, l)
  /\ w.pc \in {"meta", "count", "train", "sample", "persist"} => use
  /\ w.pc \in {"sample", "persist"} => m = NoDict
  /\ w.pc = "install" => w.dict = IF use THEN m ELSE NoDict

\* The dictionary in memory against the rows.
InMemory(r, m, l, use) ==
  IF use THEN l = m \/ (l = NoDict /\ \A b \in Blocks : r[b] \in {NoRow, Plain})
         ELSE l = NoDict

Recovers(r, m) == \A b \in Blocks : r[b] \in {NoRow, Plain, m}

LEMMA TrainingForm ==
  ASSUME DictTypeOK
  PROVE  /\ TrainingInv <=> /\ InMemory(rows, metaDict, live, useDict)
                            /\ \A t \in Threads : Agrees(work[t], metaDict, live, useDict)
         /\ RowsRecoverable <=> Recovers(rows, metaDict)
BY DEF TrainingInv, InMemory, Agrees, RowsRecoverable, Recovers, Stored, Decodes, Loaded

LEMMA TrainingFormNext ==
  ASSUME DictTypeOK'
  PROVE  /\ TrainingInv' <=>
              /\ InMemory(rows', metaDict', live', useDict')
              /\ \A t \in Threads : Agrees(work'[t], metaDict', live', useDict')
         /\ RowsRecoverable' <=> Recovers(rows', metaDict')
BY DEF TrainingInv, InMemory, Agrees, RowsRecoverable, Recovers, Stored, Decodes, Loaded

\* The locals after each step of the thread.
LEMMA ThreadAgrees ==
  ASSUME DictTypeOK, TrainingInv, RowsRecoverable, NEW t \in Threads, ThreadStep(t)
  PROVE  Agrees(work'[t], metaDict', live', useDict')
<1>1. work \in [Threads -> Works] /\ work[t] \in Works BY DictTypeForm
<1>2. Agrees(work[t], metaDict, live, useDict) BY TrainingForm
<1>3. UNCHANGED useDict BY ThreadEffect
<1>4. ASSUME Finish(t) PROVE Agrees(work'[t], metaDict', live', useDict')
  <2>1. work'[t] = Resting BY <1>1, <1>4 DEF Finish
  <2> QED BY <2>1, RestingWork DEF Agrees
<1>5. ASSUME NEW pc, Goto(t, pc) PROVE work'[t] = [work[t] EXCEPT !.pc = pc]
  BY <1>1, <1>5 DEF Goto
<1>6. ASSUME NEW pc, NEW d, work' = [work EXCEPT ![t].pc = pc, ![t].dict = d]
      PROVE  work'[t].pc = pc /\ work'[t].dict = d
  BY <1>1, <1>6 DEF Works
<1>7. ASSUME NEW pc, Goto(t, pc) PROVE work'[t].pc = pc /\ work'[t].dict = work[t].dict
  BY <1>1, <1>5, <1>7 DEF Works
<1>8. ASSUME NEW b \in Blocks, Put(t, b) PROVE Agrees(work'[t], metaDict', live', useDict')
  <2>1. work'[t].pc = "write" /\ work'[t].enc = Encoding
    BY <1>1, <1>8 DEF Put, Resting
  <2>2. Decodes(Encoding, useDict, live) BY DEF Encoding, Decodes
  <2> QED BY <1>8, <2>1, <2>2 DEF Put, Agrees
<1>9. CASE Write(t) BY <1>7, <1>9 DEF Write, Agrees
<1>10. CASE InitDictionary(t) BY <1>7, <1>10 DEF InitDictionary, Agrees
<1>11. CASE CheckLive(t) BY <1>3, <1>4, <1>7, <1>11 DEF CheckLive, Agrees
<1>12. CASE CheckMeta(t)
  <2>1. useDict BY <1>2, <1>12 DEF CheckMeta, Agrees
  <2>2. work'[t].pc \in {"load", "count"} BY <1>7, <1>12 DEF CheckMeta
  <2> QED BY <1>3, <2>1, <2>2 DEF Agrees
<1>13. CASE CheckCount(t)
  <2>1. useDict BY <1>2, <1>13 DEF CheckCount, Agrees
  <2>2. Finish(t) \/ work'[t].pc = "train" BY <1>7, <1>13 DEF CheckCount
  <2>3. ASSUME work'[t].pc = "train" PROVE Agrees(work'[t], metaDict', live', useDict')
    BY <1>3, <2>1, <2>3 DEF Agrees
  <2> QED BY <1>4, <2>2, <2>3
<1>14. CASE Train(t)
  <2>1. useDict BY <1>2, <1>14 DEF Train, Agrees
  <2>2. CASE metaDict # NoDict
    <3>1. work'[t].pc = "install" /\ work'[t].dict = metaDict BY <1>6, <1>14, <2>2 DEF Train
    <3> QED BY <1>3, <1>14, <2>1, <3>1 DEF Train, Agrees
  <2>3. CASE metaDict = NoDict
    <3>1. work'[t].pc = "sample" BY <1>7, <1>14, <2>3 DEF Train
    <3> QED BY <1>3, <1>14, <2>1, <2>3, <3>1 DEF Train, Agrees
  <2> QED BY <2>2, <2>3
<1>15. CASE Sample(t)
  <2>1. useDict /\ metaDict = NoDict BY <1>2, <1>15 DEF Sample, Agrees
  <2>2. Finish(t) \/ work'[t].pc = "persist" BY <1>6, <1>15 DEF Sample
  <2> QED BY <1>3, <1>4, <1>15, <2>1, <2>2 DEF Sample, Agrees
<1>16. CASE SampleFails(t) BY <1>4, <1>16 DEF SampleFails
<1>17. CASE Persist(t)
  <2>1. useDict BY <1>2, <1>17 DEF Persist, Agrees
  <2>2. work'[t].pc = "install" /\ work'[t].dict = metaDict' BY <1>7, <1>17 DEF Persist
  <2> QED BY <1>3, <2>1, <2>2 DEF Agrees
<1>18. CASE Install(t) BY <1>4, <1>18 DEF Install
<1>19. CASE Load(t)
  <2>1. work'[t].pc = "install" /\ work'[t].dict = Loaded(useDict) BY <1>6, <1>19 DEF Load
  <2> QED BY <1>3, <1>19, <2>1 DEF Load, Loaded, Agrees
<1> QED BY <1>8, <1>9, <1>10, <1>11, <1>12, <1>13, <1>14, <1>15, <1>16, <1>17, <1>18, <1>19
        DEF ThreadStep, TrainStep

\* The one thread of the store steps.
LEMMA ThreadTraining ==
  ASSUME OneThread, DictTypeOK, TrainingInv, RowsRecoverable, NEW t \in Threads, ThreadStep(t)
  PROVE  TrainingInv' /\ RowsRecoverable'
<1>1. DictTypeOK' BY ThreadTypes
<1>2. \A u \in Threads : Agrees(work'[u], metaDict', live', useDict')
  BY ThreadAgrees DEF OneThread
<1>3. /\ InMemory(rows, metaDict, live, useDict) /\ Recovers(rows, metaDict)
      /\ Agrees(work[t], metaDict, live, useDict)
  BY TrainingForm
<1>4. rows \in [Blocks -> Encodings \cup {NoRow}] /\ work[t] \in Works
  BY DictTypeForm DEF DictTypes
<1>5. NoDict \notin Encodings BY MarkersAssumption DEF Encodings
<1>6. UNCHANGED useDict BY ThreadEffect
<1>7. InMemory(rows', metaDict', live', useDict') /\ Recovers(rows', metaDict')
  <2>1. CASE UNCHANGED <<rows, metaDict, live>> BY <1>3, <1>6, <2>1
  <2>2. CASE Write(t) /\ UNCHANGED <<metaDict, live>>
    <3>1. rows' = [rows EXCEPT ![work[t].block] = work[t].enc] BY <2>2 DEF Write
    <3>2. \A b \in Blocks : rows'[b] = rows[b] \/ rows'[b] = work[t].enc
      BY <1>4, <3>1
    <3>3. work[t].enc = Plain \/ (useDict /\ work[t].enc = live)
      BY <1>3, <2>2 DEF Write, Agrees, Decodes
    <3>4. work[t].enc \in Encodings BY <2>2, DictTypeForm DEF Write
    <3>5. work[t].enc = Plain \/ work[t].enc = metaDict
      BY <1>3, <1>5, <3>3, <3>4 DEF InMemory
    <3>6. Recovers(rows', metaDict') BY <1>3, <2>2, <3>2, <3>5 DEF Recovers
    <3>7. InMemory(rows', metaDict', live', useDict')
      BY <1>3, <1>5, <1>6, <2>2, <3>2, <3>3, <3>4 DEF InMemory
    <3> QED BY <3>6, <3>7
  <2>3. CASE Persist(t) /\ UNCHANGED <<rows, live>>
    <3>1. useDict /\ metaDict = NoDict BY <1>3, <2>3 DEF Persist, Agrees
    <3>2. \A b \in Blocks : rows[b] \in {NoRow, Plain}
      BY <1>3, <1>4, <1>5, <3>1 DEF Recovers
    <3>3. live = NoDict BY <1>3, <3>1 DEF InMemory
    <3> QED BY <1>6, <2>3, <3>2, <3>3 DEF InMemory, Recovers
  <2>4. CASE Install(t) /\ UNCHANGED <<rows, metaDict>>
    <3>1. live' = IF useDict THEN metaDict ELSE NoDict BY <1>3, <2>4 DEF Install, Agrees
    <3> QED BY <1>3, <1>6, <2>4, <3>1 DEF InMemory, Recovers
  <2> QED BY <2>1, <2>2, <2>3, <2>4, ThreadEffect
<1> QED BY <1>1, <1>2, <1>7, TrainingFormNext

LEMMA ReopenTraining ==
  ASSUME DictTypeOK, TrainingInv, RowsRecoverable, NEW use \in UseDict, Reopen(use)
  PROVE  TrainingInv' /\ RowsRecoverable'
<1>1. DictTypeOK' BY ReopenTypes
<1>2. Recovers(rows', metaDict') BY TrainingForm DEF Reopen
<1>3. InMemory(rows', metaDict', live', useDict') BY DEF Reopen, Loaded, InMemory
<1>4. \A t \in Threads : work'[t] = Resting BY DEF Reopen
<1>5. \A t \in Threads : Agrees(work'[t], metaDict', live', useDict')
  BY <1>4, RestingWork DEF Agrees
<1> QED BY <1>1, <1>2, <1>3, <1>5, TrainingFormNext

LEMMA ShrinkTraining ==
  ASSUME DictTypeOK, TrainingInv, RowsRecoverable, UNCHANGED <<metaDict, live, useDict, work>>,
         rows' \in [Blocks -> Encodings \cup {NoRow}],
         \A b \in Blocks : rows'[b] \in {NoRow, rows[b]}
  PROVE  TrainingInv' /\ RowsRecoverable'
<1>1. DictTypeOK' BY ShrinkTypes
<1>2. Recovers(rows', metaDict') BY TrainingForm DEF Recovers
<1>3. InMemory(rows', metaDict', live', useDict') BY TrainingForm DEF InMemory
<1>4. \A t \in Threads : Agrees(work'[t], metaDict', live', useDict') BY TrainingForm
<1> QED BY <1>1, <1>2, <1>3, <1>4, TrainingFormNext

LEMMA TrainingReadable == ASSUME TrainingInv, RowsRecoverable PROVE RowsReadable
BY DEF TrainingInv, RowsRecoverable, RowsReadable, Decodes

LEMMA DictInitial == ASSUME DictInit PROVE DictTypeOK /\ TrainingInv /\ RowsRecoverable
<1>1. DictTypeOK
  <2>1. DictTypes(rows, metaDict, live) /\ useDict \in BOOLEAN
    BY UseDictAssumption DEF DictInit, DictTypes
  <2>2. work \in [Threads -> Works] /\ \A t \in Threads : work[t].pc = "idle"
    BY RestingWork DEF DictInit
  <2> QED BY <2>1, <2>2, DictTypeForm
<1>2. InMemory(rows, metaDict, live, useDict) /\ Recovers(rows, metaDict)
  BY DEF DictInit, InMemory, Recovers
<1>3. \A t \in Threads : Agrees(work[t], metaDict, live, useDict)
  BY RestingWork DEF DictInit, Agrees
<1> QED BY <1>1, <1>2, <1>3, TrainingForm

\* A store that one thread writes to decodes its rows after any restart, and
\* while it is open with dictionaries.
THEOREM DictionaryRowsReadable ==
  ASSUME OneThread
  PROVE  DictSpec => [](RowsReadable /\ RowsRecoverable)
<1> DEFINE Inv == DictTypeOK /\ TrainingInv /\ RowsRecoverable
<1>1. DictInit => Inv BY DictInitial
<1>2. Inv /\ [DictNext]_dictVars => Inv'
  <2> SUFFICES ASSUME Inv, [DictNext]_dictVars PROVE Inv'
    OBVIOUS
  <2>1. ASSUME NEW t \in Threads, ThreadStep(t) PROVE Inv'
    BY <2>1, ThreadTypes, ThreadTraining
  <2>2. ASSUME NEW b \in Blocks, DeleteRow(b) PROVE Inv'
    <3>1. rows \in [Blocks -> Encodings \cup {NoRow}] BY DictTypeForm DEF DictTypes
    <3>2. /\ rows' \in [Blocks -> Encodings \cup {NoRow}]
          /\ \A x \in Blocks : rows'[x] \in {NoRow, rows[x]}
      BY <2>2, <3>1 DEF DeleteRow
    <3> QED BY <2>2, <3>2, ShrinkTypes, ShrinkTraining DEF DeleteRow
  <2>3. ASSUME NEW use \in UseDict, Reopen(use) PROVE Inv'
    BY <2>3, ReopenTypes, ReopenTraining
  <2>4. ASSUME UNCHANGED dictVars PROVE Inv'
    <3>1. rows \in [Blocks -> Encodings \cup {NoRow}] BY DictTypeForm DEF DictTypes
    <3> QED BY <2>4, <3>1, ShrinkTypes, ShrinkTraining DEF dictVars
  <2> QED BY <2>1, <2>2, <2>3, <2>4 DEF DictNext, ThreadStep
<1>3. Inv => RowsReadable /\ RowsRecoverable BY TrainingReadable
<1> QED BY <1>1, <1>2, <1>3, PTL DEF DictSpec

-----------------------------------------------------------------------------
(***************************************************************************)
(* Export and import: the invariant, part by part.                         *)
(***************************************************************************)
ChainOK(c) ==
  /\ c \in [Heights -> Blocks \cup {NoBlock}]
  /\ \A h \in Heights : c[h] # NoBlock => Height[c[h]] = h

ExpOK(e) ==
  e \in [pc : {"idle", "lookup", "read", "over"}, h : Heights, hash : Blocks \cup {NoBlock}]

ImpOK(i) ==
  i \in [pc : {"idle", "item", "sum", "ok", "err", "stopped"},
         pos : 1..(MaxHeight + 2), prev : Blocks \cup {NoBlock}, off : SUBSET Blocks]

FileOK(f) ==
  /\ f = [lo |-> f.lo, hi |-> f.hi, root |-> f.root, items |-> f.items, sum |-> f.sum]
  /\ f.lo \in Heights /\ f.hi \in Heights /\ f.items \in Seq(Items)

\* The export loop.
ExportAt(e, f, d, ipc) ==
  /\ e.pc = "read" => e.hash # NoBlock /\ Height[e.hash] = e.h
  /\ e.pc # "over" => ~d /\ f.sum = NoSum /\ ipc = "idle"
  /\ e.pc \in {"lookup", "read"} =>
       f.lo <= e.h /\ e.h <= f.hi /\ Len(f.items) = e.h - f.lo

\* The file against its checksum and, when undamaged, against its manifest.
FileSound(f, d) ==
  /\ f.sum = NoSum \/ (f.sum = Hashed(f) <=> ~d)
  /\ ~d => /\ \A i \in DOMAIN f.items :
                 f.items[i] # Garbled /\ Height[f.items[i].block] = f.lo + i - 1
           /\ f.sum # NoSum => Len(f.items) = f.hi - f.lo + 1
           /\ f.lo <= f.hi /\ Len(f.items) <= f.hi - f.lo + 1

\* Block b is canonical in c, or was found stored and not canonical.
CanonIn(m, c, b) == b \in m.off \/ c[Height[b]] = b

\* The import loop.
ImportAt(m, f, r, c) ==
  /\ m.pc = "idle" => m.pos = 1
  /\ m.pc = "item" => f.lo + m.pos - 1 <= f.hi
  /\ m.pc \in {"sum", "ok"} => f.lo + m.pos - 1 > f.hi
  /\ m.prev = IF m.pos = 1 THEN NoBlock ELSE f.items[m.pos - 1].block
  /\ \A i \in 1..(m.pos - 1) :
       /\ i <= Len(f.items)
       /\ f.items[i].block \in r
       /\ Height[f.items[i].block] = f.lo + i - 1
       /\ i > 1 => Parent[f.items[i].block] = f.items[i - 1].block
       /\ CanonIn(m, c, f.items[i].block)
  /\ m.pc = "item" => \A b \in r : Height[b] >= f.lo + m.pos - 1 => CanonIn(m, c, b)

\* DamageRejected and SoundFileImports.
Verdict(m, f, d, dict) ==
  /\ m.pc = "ok" => ~d /\ f.sum # NoSum
  /\ m.pc = "err" /\ ~d /\ f.sum # NoSum
       /\ (\A i \in 2..Len(f.items) : Parent[f.items[i].block] = f.items[i - 1].block)
     => \E i \in DOMAIN f.items : f.items[i].enc \notin {Plain, dict}

SnapInv == SnapTypeOK /\ ExportInv /\ ImportInv /\ DamageRejected /\ SoundFileImports

SnapForm ==
  /\ DictTypeOK
  /\ ChainOK(canonical) /\ ExpOK(exp) /\ ImpOK(imp) /\ FileOK(file)
  /\ impRows \subseteq Blocks /\ impDict \in Dicts \cup {NoDict} /\ damaged \in BOOLEAN
  /\ impCanonical \in [Heights -> Blocks \cup {NoBlock}]
  /\ ExportAt(exp, file, damaged, imp.pc) /\ FileSound(file, damaged)
  /\ ImportAt(imp, file, impRows, impCanonical)
  /\ Verdict(imp, file, damaged, impDict)

LEMMA SnapForms == SnapInv <=> SnapForm
<1>1. SnapTypeOK /\ ExportInv <=>
        /\ DictTypeOK
        /\ ChainOK(canonical) /\ ExpOK(exp) /\ ImpOK(imp) /\ FileOK(file)
        /\ impRows \subseteq Blocks /\ impDict \in Dicts \cup {NoDict} /\ damaged \in BOOLEAN
        /\ impCanonical \in [Heights -> Blocks \cup {NoBlock}]
        /\ ExportAt(exp, file, damaged, imp.pc) /\ FileSound(file, damaged)
  BY DEF SnapTypeOK, ExportInv, ChainOK, ExpOK, ImpOK, FileOK, ExportAt, FileSound
<1>2. ImportInv <=> ImportAt(imp, file, impRows, impCanonical)
  BY DEF ImportInv, ImportAt, Canonicalised, CanonIn
<1>3. DamageRejected /\ SoundFileImports <=> Verdict(imp, file, damaged, impDict)
  BY DEF DamageRejected, SoundFileImports, Sound, Verdict
<1> QED BY <1>1, <1>2, <1>3 DEF SnapInv, SnapForm

LEMMA SnapFormNext ==
  ASSUME DictTypeOK',
         ChainOK(canonical'), ExpOK(exp'), ImpOK(imp'), FileOK(file'),
         impRows' \subseteq Blocks, impDict' \in Dicts \cup {NoDict}, damaged' \in BOOLEAN,
         impCanonical' \in [Heights -> Blocks \cup {NoBlock}],
         ExportAt(exp', file', damaged', imp'.pc), FileSound(file', damaged'),
         ImportAt(imp', file', impRows', impCanonical'), Verdict(imp', file', damaged', impDict')
  PROVE  SnapInv'
<1>1. SnapForm'
  BY DEF SnapForm, ChainOK, ExpOK, ImpOK, FileOK, ExportAt, FileSound, ImportAt, CanonIn, Verdict,
         Hashed, Items, Garbled
<1>2. SnapInv' <=> SnapForm' BY SnapForms, PTL
<1> QED BY <1>1, <1>2

LEMMA NoFileSound == FileSound(NoFile, FALSE)
<1>1. /\ NoFile.lo = 0 /\ NoFile.hi = 0 /\ NoFile.items = << >> /\ NoFile.sum = NoSum
  BY DEF NoFile
<1>2. Len(<< >>) = 0 /\ DOMAIN << >> = {} OBVIOUS
<1> QED BY <1>1, <1>2 DEF FileSound

\* An import that is not under way has read nothing.
LEMMA ImportRestsFacts ==
  ASSUME NEW pc \in {"idle", "err", "stopped"}, NEW f, NEW r, NEW c, NEW d, NEW dict
  PROVE  /\ ImpOK(ImportRests(pc)) /\ ImportRests(pc).pc = pc
         /\ ImportAt(ImportRests(pc), f, r, c)
         /\ pc # "err" => Verdict(ImportRests(pc), f, d, dict)
<1>1. 1 \in 1..(MaxHeight + 2) BY SnapHeightAssumption
<1>2. ImpOK(ImportRests(pc)) BY <1>1 DEF ImpOK, ImportRests
<1>3. /\ ImportRests(pc).pc = pc /\ ImportRests(pc).pos = 1 /\ ImportRests(pc).prev = NoBlock
  BY DEF ImportRests
<1>4. 1..(1 - 1) = {} OBVIOUS
<1>5. ImportAt(ImportRests(pc), f, r, c) BY <1>3, <1>4 DEF ImportAt
<1> QED BY <1>2, <1>3, <1>5 DEF Verdict

\* Nor has an export.
LEMMA ExportRestsFacts ==
  ASSUME NEW pc \in {"idle", "over"}
  PROVE  ExpOK(ExportRests(pc)) /\ ExportRests(pc).pc = pc
BY SnapHeightAssumption DEF ExpOK, ExportRests, Heights

\* The checksum of a file is neither the absent nor a wrong one, and tells
\* manifests and items apart.
LEMMA HashedFacts ==
  ASSUME NEW f, NEW g
  PROVE  /\ Hashed(f) # NoSum /\ Hashed(f) # OtherSum
         /\ Hashed(f) = Hashed(g) =>
              f.lo = g.lo /\ f.hi = g.hi /\ f.root = g.root /\ f.items = g.items
<1>1. /\ Hashed(f)[1] = f.lo /\ Hashed(f)[2] = f.hi /\ Hashed(f)[3] = f.root
      /\ Hashed(f)[4] = f.items
      /\ Hashed(g)[1] = g.lo /\ Hashed(g)[2] = g.hi /\ Hashed(g)[3] = g.root
      /\ Hashed(g)[4] = g.items
  BY DEF Hashed
<1>2. Len(Hashed(f)) = 4 /\ Len(NoSum) = 0 /\ Len(OtherSum) = 1 BY DEF Hashed, NoSum, OtherSum
<1> QED BY <1>1, <1>2

-----------------------------------------------------------------------------
(***************************************************************************)
(* The steps.                                                              *)
(***************************************************************************)

\* The exporter's store changes under the export, or ends it.
LEMMA StoreKeeps ==
  ASSUME SnapInv, DictTypeOK', ChainOK(canonical'), UNCHANGED <<file, damaged, importer>>,
         exp' = exp \/ exp' = ExportRests("over")
  PROVE  SnapInv'
<1> SnapForm BY SnapForms
<1> USE DEF SnapForm
<1>1. UNCHANGED <<impRows, impCanonical, impDict, imp>> BY DEF importer
<1>2. ExpOK(exp') /\ ExportAt(exp', file, damaged, imp.pc)
  BY ExportRestsFacts DEF ExportAt
<1> QED BY <1>1, <1>2, SnapFormNext

LEMMA StoreStep == ASSUME SnapInv, Store PROVE SnapInv'
<1> SnapForm BY SnapForms
<1> USE DEF SnapForm
<1>1. ASSUME NEW t \in Threads, ThreadStep(t), UNCHANGED <<exporter, file, damaged, importer>>
      PROVE  SnapInv'
  BY <1>1, ThreadTypes, StoreKeeps DEF exporter
<1>2. ASSUME NEW t \in Threads, Write(t), UNCHANGED <<exp, file, damaged, importer>>,
             canonical' \in {canonical, [canonical EXCEPT ![Height[work[t].block]] = work[t].block]}
      PROVE  SnapInv'
  <2>1. work[t].block \in Blocks BY <1>2, DictTypeForm DEF Write
  <2>2. Height[work[t].block] \in Heights BY <2>1, SnapHeightAssumption
  <2>3. ChainOK(canonical') BY <1>2, <2>1, <2>2 DEF ChainOK
  <2>4. DictTypeOK' BY <1>2, ThreadTypes DEF ThreadStep
  <2> QED BY <1>2, <2>3, <2>4, StoreKeeps
<1> QED BY <1>1, <1>2 DEF Store, ThreadStep

LEMMA ReorgStep == ASSUME SnapInv, NEW bs \in Chains, Reorg(bs) PROVE SnapInv'
<1> SnapForm BY SnapForms
<1> USE DEF SnapForm
<1> DEFINE at(h) == {bs[i] : i \in {j \in DOMAIN bs : Height[bs[j]] = h}}
<1>1. /\ \A i \in DOMAIN bs : bs[i] \in Stored
      /\ canonical' = [h \in Heights |->
           IF h < Height[bs[1]] THEN canonical[h]
           ELSE IF at(h) = {} THEN NoBlock ELSE CHOOSE b \in at(h) : TRUE]
      /\ UNCHANGED <<dictVars, exp, file, damaged, importer>>
  BY DEF Reorg
<1>2. \A h \in Heights : at(h) # {} => (CHOOSE b \in at(h) : TRUE) \in at(h) OBVIOUS
<1>3. \A h : \A b \in at(h) : b \in Blocks /\ Height[b] = h BY <1>1 DEF Stored
<1> HIDE DEF at
<1>4. \A h \in Heights :
        \/ canonical'[h] = canonical[h] \/ canonical'[h] = NoBlock
        \/ canonical'[h] \in Blocks /\ Height[canonical'[h]] = h
  BY <1>1, <1>2, <1>3
<1>5. ChainOK(canonical')
  <2>1. canonical' \in [Heights -> Blocks \cup {NoBlock}]
    <3>1. canonical' = [h \in Heights |-> canonical'[h]] BY <1>1
    <3>2. \A h \in Heights : canonical'[h] \in Blocks \cup {NoBlock} BY <1>4 DEF ChainOK
    <3> QED BY <3>1, <3>2
  <2> QED BY <1>4, <2>1 DEF ChainOK
<1>6. DictTypeOK'
  <2>1. rows \in [Blocks -> Encodings \cup {NoRow}] BY DictTypeForm DEF DictTypes
  <2> QED BY <1>1, <2>1, ShrinkTypes DEF dictVars
<1> QED BY <1>1, <1>5, <1>6, StoreKeeps

LEMMA PruneStep == ASSUME SnapInv, NEW h \in 1..MaxHeight, PruneBefore(h) PROVE SnapInv'
<1> SnapForm BY SnapForms
<1> USE DEF SnapForm
<1>1. rows \in [Blocks -> Encodings \cup {NoRow}] BY DictTypeForm DEF DictTypes
<1>2. rows' \in [Blocks -> Encodings \cup {NoRow}] BY <1>1 DEF PruneBefore
<1>3. DictTypeOK' BY <1>2, ShrinkTypes DEF PruneBefore
<1>4. ChainOK(canonical') BY DEF ChainOK, PruneBefore
<1> QED BY <1>3, <1>4, StoreKeeps DEF PruneBefore

LEMMA RestartStep == ASSUME SnapInv, NEW use \in UseDict, Restart(use) PROVE SnapInv'
<1> SnapForm BY SnapForms
<1> USE DEF SnapForm
<1>1. DictTypeOK' BY ReopenTypes DEF Restart
<1>2. exp' = exp \/ exp' = ExportRests("over") BY DEF Restart
<1> QED BY <1>1, <1>2, StoreKeeps DEF Restart

\* The export and the import leave the exporter's store alone.
LEMMA SameStore ==
  ASSUME SnapInv, UNCHANGED <<dictVars, canonical>>
  PROVE  DictTypeOK' /\ ChainOK(canonical')
<1>1. SnapForm BY SnapForms
<1>2. rows \in [Blocks -> Encodings \cup {NoRow}] BY <1>1, DictTypeForm DEF DictTypes, SnapForm
<1> QED BY <1>1, <1>2, ShrinkTypes DEF dictVars, SnapForm

LEMMA ExportStartStep ==
  ASSUME SnapInv, NEW lo \in Heights, NEW hi \in Heights, ExportStart(lo, hi)
  PROVE  SnapInv'
<1> SnapForm BY SnapForms
<1> USE DEF SnapForm
<1>1. /\ lo <= hi /\ exp.pc = "idle"
      /\ file' = [NoFile EXCEPT !.lo = lo, !.hi = hi, !.root = canonical[hi]]
      /\ exp' = [pc |-> "lookup", h |-> lo, hash |-> NoBlock]
      /\ UNCHANGED <<dictVars, canonical, damaged, impRows, impCanonical, impDict, imp>>
  BY DEF ExportStart, importer
<1>2. DictTypeOK' /\ ChainOK(canonical') BY <1>1, SameStore
<1>3. lo \in Int /\ hi \in Int BY SnapHeightAssumption DEF Heights
<1>4. /\ file'.lo = lo /\ file'.hi = hi /\ file'.items = << >> /\ file'.sum = NoSum
      /\ file' = [lo |-> file'.lo, hi |-> file'.hi, root |-> file'.root,
                  items |-> file'.items, sum |-> file'.sum]
  BY <1>1 DEF NoFile
<1>5. << >> \in Seq(Items) /\ Len(<< >>) = 0 /\ DOMAIN << >> = {} OBVIOUS
<1>6. FileOK(file')
  <2>3. file'.items \in Seq(Items) BY <1>4, <1>5
  <2>4. file'.lo \in Heights /\ file'.hi \in Heights BY <1>1, <1>4
  <2> QED BY <1>4, <2>3, <2>4 DEF FileOK
<1>7. ExpOK(exp') BY <1>1 DEF ExpOK
<1>8. ~damaged /\ imp.pc = "idle" /\ imp.pos = 1 BY <1>1 DEF ExportAt, ImportAt
<1>9. ExportAt(exp', file', damaged', imp'.pc)
  BY <1>1, <1>3, <1>4, <1>5, <1>8 DEF ExportAt
<1>10. FileSound(file', damaged')
  <2>1. 0 <= hi - lo + 1 BY <1>1, <1>3
  <2>2. file'.lo <= file'.hi /\ Len(file'.items) <= file'.hi - file'.lo + 1
    BY <1>1, <1>4, <1>5, <2>1
  <2> QED BY <1>4, <1>5, <2>2 DEF FileSound
<1>11. ImportAt(imp', file', impRows', impCanonical') BY <1>1, <1>8 DEF ImportAt
<1>12. Verdict(imp', file', damaged', impDict') BY <1>1, <1>8 DEF Verdict
<1> QED BY <1>1, <1>2, <1>6, <1>7, <1>9, <1>10, <1>11, <1>12, SnapFormNext

LEMMA ExportLookupStep == ASSUME SnapInv, ExportLookup PROVE SnapInv'
<1> SnapForm BY SnapForms
<1> USE DEF SnapForm
<1>1. /\ exp.pc = "lookup"
      /\ exp' = IF canonical[exp.h] = NoBlock THEN ExportRests("over")
                ELSE [exp EXCEPT !.hash = canonical[exp.h], !.pc = "read"]
      /\ UNCHANGED <<dictVars, canonical, file, damaged, impRows, impCanonical, impDict, imp>>
  BY DEF ExportLookup, importer
<1>2. DictTypeOK' /\ ChainOK(canonical') BY <1>1, SameStore
<1>3. /\ exp.h \in Heights
      /\ canonical[exp.h] \in Blocks \cup {NoBlock}
      /\ canonical[exp.h] # NoBlock => Height[canonical[exp.h]] = exp.h
  BY DEF ExpOK, ChainOK
<1>4. /\ ExpOK(exp')
      /\ \/ exp'.pc = "over"
         \/ /\ exp'.pc = "read" /\ exp'.h = exp.h
            /\ exp'.hash = canonical[exp.h] /\ exp'.hash # NoBlock
  BY <1>1, <1>3, ExportRestsFacts DEF ExpOK
<1>5. ExportAt(exp', file', damaged', imp'.pc) BY <1>1, <1>3, <1>4 DEF ExportAt
<1> QED BY <1>1, <1>2, <1>4, <1>5, SnapFormNext

LEMMA ExportReadStep == ASSUME SnapInv, ExportRead PROVE SnapInv'
<1> SnapForm BY SnapForms
<1> USE DEF SnapForm
<1> DEFINE x == [block |-> exp.hash, enc |-> rows[exp.hash]]
           n == Len(file.items)
<1>1. exp.pc = "read" /\ UNCHANGED <<dictVars, canonical, damaged, impRows, impCanonical, impDict, imp>>
  BY DEF ExportRead, importer
<1>2. DictTypeOK' /\ ChainOK(canonical') BY <1>1, SameStore
<1>3. /\ exp.hash \in Blocks /\ Height[exp.hash] = exp.h /\ exp.h \in Heights
      /\ ~damaged /\ file.sum = NoSum /\ imp.pc = "idle" /\ imp.pos = 1
      /\ file.lo <= exp.h /\ exp.h <= file.hi /\ n = exp.h - file.lo
  BY <1>1 DEF ExpOK, ExportAt, ImportAt
<1>4. exp.h \in Int /\ file.lo \in Int /\ file.hi \in Int /\ n \in Nat
      /\ file.items \in Seq(Items) /\ DOMAIN file.items = 1..n
  BY <1>3, LenProperties, SnapHeightAssumption DEF FileOK, Heights
<1>5. CASE rows[exp.hash] = NoRow
  <2>1. exp' = ExportRests("over") /\ file' = file BY <1>5 DEF ExportRead
  <2>2. ExpOK(exp') /\ exp'.pc = "over" BY <2>1, ExportRestsFacts
  <2>3. ExportAt(exp', file', damaged', imp'.pc) BY <2>2 DEF ExportAt
  <2> QED BY <1>1, <1>2, <2>1, <2>2, <2>3, SnapFormNext
<1>6. CASE rows[exp.hash] # NoRow
  <2>1. x \in Items /\ x # Garbled /\ x.block = exp.hash
    <3>1. rows[exp.hash] \in Encodings BY <1>3, <1>6, DictTypeForm DEF DictTypes
    <3>2. exp.hash # NoBlock BY <1>3, SnapNoBlockAssumption
    <3> QED BY <1>3, <3>1, <3>2 DEF Items, Garbled
  <2> DEFINE items == Append(file.items, x)
             with == [file EXCEPT !.items = items]
  <2>2. /\ file' = IF LastHeight THEN [with EXCEPT !.sum = Hashed(with)] ELSE with
        /\ exp' = IF LastHeight THEN ExportRests("over")
                  ELSE [exp EXCEPT !.pc = "lookup", !.h = exp.h + 1, !.hash = NoBlock]
    BY <1>6 DEF ExportRead
  <2>3. /\ items \in Seq(Items) /\ Len(items) = n + 1 /\ DOMAIN items = 1..(n + 1)
        /\ items[n + 1] = x /\ \A i \in 1..n : items[i] = file.items[i]
    BY <1>4, <2>1, AppendProperties
  <2> HIDE DEF items, n, x
  <2>4. /\ file = [lo |-> file.lo, hi |-> file.hi, root |-> file.root,
                   items |-> file.items, sum |-> file.sum]
    BY DEF FileOK
  <2>5. with = [lo |-> file.lo, hi |-> file.hi, root |-> file.root,
                items |-> items, sum |-> NoSum]
    BY <1>3, <2>4
  <2> HIDE DEF with
  <2>6. /\ file'.lo = file.lo /\ file'.hi = file.hi /\ file'.root = file.root
        /\ file'.items = items
        /\ file'.sum = IF LastHeight THEN Hashed(with) ELSE NoSum
        /\ file' = [lo |-> file'.lo, hi |-> file'.hi, root |-> file'.root,
                    items |-> file'.items, sum |-> file'.sum]
    BY <2>2, <2>5
  <2>7. Hashed(file') = Hashed(with) BY <2>5, <2>6 DEF Hashed
  <2>8. FileOK(file') BY <1>3, <1>4, <2>3, <2>6 DEF FileOK
  <2>9. FileSound(file', damaged')
    <3>1. \A i \in DOMAIN items : i \in 1..n \/ i = n + 1 BY <1>4, <2>3
    <3>2. \A i \in DOMAIN items :
            items[i] # Garbled /\ Height[items[i].block] = file.lo + i - 1
      <4>1. \A i \in 1..n : file.items[i] # Garbled
                             /\ Height[file.items[i].block] = file.lo + i - 1
        BY <1>3, <1>4 DEF FileSound
      <4>2. file.lo + (n + 1) - 1 = exp.h BY <1>3, <1>4
      <4> QED BY <1>3, <2>1, <2>3, <3>1, <4>1, <4>2
    <3>3. LastHeight => Len(items) = file.hi - file.lo + 1
      BY <1>3, <1>4, <2>3 DEF LastHeight
    <3>4. file.lo <= file.hi /\ Len(items) <= file.hi - file.lo + 1 BY <1>3, <1>4, <2>3
    <3> QED BY <1>1, <1>3, <2>6, <2>7, <3>2, <3>3, <3>4 DEF FileSound
  <2>10. ExpOK(exp') /\ ExportAt(exp', file', damaged', imp'.pc)
    <3>1. CASE LastHeight
      BY <2>2, <3>1, ExportRestsFacts DEF ExportAt
    <3>2. CASE ~LastHeight
      <4>1. exp.h # file.hi BY <3>2 DEF LastHeight
      <4>2. exp.h + 1 \in Heights /\ exp.h + 1 <= file.hi
        BY <1>3, <1>4, <4>1, SnapHeightAssumption DEF Heights, FileOK
      <4>3. ExpOK(exp') /\ exp'.pc = "lookup" /\ exp'.h = exp.h + 1
        BY <2>2, <3>2, <4>2 DEF ExpOK
      <4>4. Len(items) = exp.h + 1 - file.lo /\ file.lo <= exp.h + 1 BY <1>3, <1>4, <2>3
      <4>5. file'.sum = NoSum /\ file'.lo = file.lo /\ file'.hi = file.hi /\ file'.items = items
        BY <2>6, <3>2
      <4>6. ~damaged' /\ imp'.pc = "idle" BY <1>1, <1>3
      <4>7. file'.lo <= exp'.h /\ exp'.h <= file'.hi /\ Len(file'.items) = exp'.h - file'.lo
        BY <1>4, <4>2, <4>3, <4>4, <4>5
      <4> QED BY <4>3, <4>5, <4>6, <4>7 DEF ExportAt
    <3> QED BY <3>1, <3>2
  <2>11. ImportAt(imp', file', impRows', impCanonical') /\ Verdict(imp', file', damaged', impDict')
    BY <1>1, <1>3 DEF ImportAt, Verdict
  <2> QED BY <1>1, <1>2, <2>8, <2>9, <2>10, <2>11, SnapFormNext
<1> QED BY <1>5, <1>6

LEMMA ExportAgainStep == ASSUME SnapInv, ExportAgain PROVE SnapInv'
<1> SnapForm BY SnapForms
<1> USE DEF SnapForm
<1>1. /\ exp' = ExportRests("idle") /\ imp' = ImportRests("idle")
      /\ file' = NoFile /\ damaged' = FALSE
      /\ UNCHANGED <<dictVars, canonical, impRows, impCanonical, impDict>>
  BY DEF ExportAgain
<1>2. DictTypeOK' /\ ChainOK(canonical') BY <1>1, SameStore
<1>3. 0 \in Heights /\ MaxHeight \in Nat BY SnapHeightAssumption DEF Heights
<1>4. ExpOK(exp') /\ exp'.pc = "idle" /\ ImpOK(imp') /\ imp'.pc = "idle"
  BY <1>1, ExportRestsFacts, ImportRestsFacts
<1>5. FileOK(NoFile) BY <1>3 DEF FileOK, NoFile
<1>6. FileSound(NoFile, FALSE) BY NoFileSound
<1>7. ExportAt(exp', NoFile, FALSE, "idle") BY <1>4 DEF ExportAt, NoFile
<1>8. ImportAt(imp', NoFile, impRows, impCanonical) /\ Verdict(imp', NoFile, FALSE, impDict)
  BY <1>1, ImportRestsFacts
<1> QED BY <1>1, <1>2, <1>4, <1>5, <1>6, <1>7, <1>8, SnapFormNext

\* The file is changed or cut: its checksum is gone, or no longer the one of its
\* manifest and items.
LEMMA DamageStep == ASSUME SnapInv, Damage PROVE SnapInv'
<1> SnapForm BY SnapForms
<1> USE DEF SnapForm
<1>1. /\ exp.pc = "over" /\ imp.pc = "idle" /\ ~damaged /\ damaged' = TRUE
      /\ UNCHANGED <<dictVars, canonical, exp, impRows, impCanonical, impDict, imp>>
  BY DEF Damage, exporter, importer
<1>2. DictTypeOK' /\ ChainOK(canonical') BY <1>1, SameStore
<1>3. imp.pos = 1 BY <1>1 DEF ImportAt
<1>4. /\ file = [lo |-> file.lo, hi |-> file.hi, root |-> file.root,
                 items |-> file.items, sum |-> file.sum]
      /\ file.items \in Seq(Items) /\ Len(file.items) \in Nat
      /\ DOMAIN file.items = 1..Len(file.items)
      /\ file.lo \in Heights /\ file.hi \in Heights
  BY LenProperties DEF FileOK
<1>5. FileOK(file') /\ FileSound(file', TRUE)
  <2>1. ASSUME NEW lo \in Heights, NEW hi \in Heights, NEW root, NEW items \in Seq(Items),
               file' = [lo |-> lo, hi |-> hi, root |-> root, items |-> items, sum |-> file.sum],
               file' # file
        PROVE  FileOK(file') /\ FileSound(file', TRUE)
    <3>1. /\ file'.lo = lo /\ file'.hi = hi /\ file'.root = root
          /\ file'.items = items /\ file'.sum = file.sum
      BY <2>1
    <3>2. FileOK(file') BY <2>1, <3>1 DEF FileOK
    <3>3. ~(lo = file.lo /\ hi = file.hi /\ root = file.root /\ items = file.items)
      BY <1>4, <2>1
    <3>4. Hashed(file') # Hashed(file) BY <3>1, <3>3, HashedFacts
    <3>5. file.sum = NoSum \/ file.sum = Hashed(file) BY <1>1 DEF FileSound
    <3>6. file'.sum = NoSum \/ file'.sum # Hashed(file') BY <3>1, <3>4, <3>5
    <3> QED BY <3>2, <3>6 DEF FileSound
  <2>2. ASSUME NEW items \in Seq(Items), NEW sum \in {NoSum, OtherSum},
               file' = [lo |-> file.lo, hi |-> file.hi, root |-> file.root,
                        items |-> items, sum |-> sum]
        PROVE  FileOK(file') /\ FileSound(file', TRUE)
    <3>1. file'.lo = file.lo /\ file'.hi = file.hi /\ file'.items = items /\ file'.sum = sum
      BY <2>2
    <3>2. FileOK(file') BY <1>4, <2>2, <3>1 DEF FileOK
    <3>3. Hashed(file') # OtherSum BY HashedFacts
    <3> QED BY <3>1, <3>2, <3>3 DEF FileSound
  <2>3. ASSUME NEW i \in DOMAIN file.items,
               NEW x \in {Garbled} \cup {[block |-> b, enc |-> Plain] : b \in Blocks},
               file' = [file EXCEPT !.items[i] = x], file' # file
        PROVE  FileOK(file') /\ FileSound(file', TRUE)
    <3> DEFINE items == [file.items EXCEPT ![i] = x]
    <3>1. x \in Items BY DEF Items, Encodings
    <3>2. items \in Seq(Items) BY <1>4, <3>1, ExceptSeq
    <3>3. file' = [lo |-> file.lo, hi |-> file.hi, root |-> file.root,
                   items |-> items, sum |-> file.sum]
      BY <1>4, <2>3
    <3> HIDE DEF items
    <3> QED BY <1>4, <2>1, <2>3, <3>2, <3>3
  <2>4. ASSUME NEW n \in 0..(Len(file.items) - 1),
               file' = [file EXCEPT !.items = SubSeq(file.items, 1, n), !.sum = NoSum]
        PROVE  FileOK(file') /\ FileSound(file', TRUE)
    <3>1. SubSeq(file.items, 1, n) \in Seq(Items) BY <1>4, SubSeqProperties
    <3>2. file' = [lo |-> file.lo, hi |-> file.hi, root |-> file.root,
                   items |-> SubSeq(file.items, 1, n), sum |-> NoSum]
      BY <1>4, <2>4
    <3> QED BY <2>2, <3>1, <3>2
  <2>5. ASSUME NEW h \in Heights,
               file' \in {[file EXCEPT !.lo = h], [file EXCEPT !.hi = h]}, file' # file
        PROVE  FileOK(file') /\ FileSound(file', TRUE)
    <3>1. \/ file' = [lo |-> h, hi |-> file.hi, root |-> file.root,
                      items |-> file.items, sum |-> file.sum]
          \/ file' = [lo |-> file.lo, hi |-> h, root |-> file.root,
                      items |-> file.items, sum |-> file.sum]
      BY <1>4, <2>5
    <3> QED BY <1>4, <2>1, <2>5, <3>1
  <2>6. ASSUME file' = [file EXCEPT !.root = NoBlock], file' # file
        PROVE  FileOK(file') /\ FileSound(file', TRUE)
    <3>1. file' = [lo |-> file.lo, hi |-> file.hi, root |-> NoBlock,
                   items |-> file.items, sum |-> file.sum]
      BY <1>4, <2>6
    <3> QED BY <1>4, <2>1, <2>6, <3>1
  <2>7. ASSUME file' = [file EXCEPT !.sum = OtherSum]
        PROVE  FileOK(file') /\ FileSound(file', TRUE)
    <3>1. file' = [lo |-> file.lo, hi |-> file.hi, root |-> file.root,
                   items |-> file.items, sum |-> OtherSum]
      BY <1>4, <2>7
    <3> QED BY <1>4, <2>2, <3>1
  <2> QED BY <2>3, <2>4, <2>5, <2>6, <2>7 DEF Damage
<1>6. ExportAt(exp', file', damaged', imp'.pc) BY <1>1 DEF ExportAt
<1>7. ImportAt(imp', file', impRows', impCanonical') /\ Verdict(imp', file', damaged', impDict')
  <2>1. 1..(1 - 1) = {} OBVIOUS
  <2> QED BY <1>1, <1>3, <2>1 DEF ImportAt, Verdict
<1> QED BY <1>1, <1>2, <1>5, <1>6, <1>7, SnapFormNext

\* The import starts, stops, is retried, or compares the checksum.
LEMMA ImportControlStep ==
  ASSUME SnapInv, ImportStart \/ ImportStops \/ Retry \/ Verify
  PROVE  SnapInv'
<1> SnapForm BY SnapForms
<1> USE DEF SnapForm
<1>1. UNCHANGED <<dictVars, canonical, exp, file, damaged, impRows, impCanonical, impDict>>
  BY DEF ImportStart, ImportStops, Retry, Verify, exporter
<1>2. DictTypeOK' /\ ChainOK(canonical') BY <1>1, SameStore
<1>3. /\ MaxHeight \in Nat /\ file.lo \in Int /\ file.hi \in Int /\ imp.pos \in Int
      /\ Len(file.items) \in Nat
  BY LenProperties, SnapHeightAssumption DEF FileOK, Heights, ImpOK
<1>4. ASSUME ImpOK(imp'), ImportAt(imp', file, impRows, impCanonical),
             Verdict(imp', file, damaged, impDict), exp.pc = "over"
      PROVE  SnapInv'
  <2>1. ExportAt(exp, file, damaged, imp'.pc) BY <1>4 DEF ExportAt
  <2> QED BY <1>1, <1>2, <1>4, <2>1, SnapFormNext
<1>5. imp.pc # "idle" => exp.pc = "over" BY DEF ExportAt
<1>6. CASE ImportStart
  <2> DEFINE off == {b \in impRows : impCanonical[Height[b]] # b}
             pc == IF file.lo > file.hi THEN "sum" ELSE "item"
  <2>1. /\ imp' = [imp EXCEPT !.pc = pc, !.off = off]
        /\ imp.pc = "idle" /\ imp.pos = 1 /\ exp.pc = "over"
    BY <1>6 DEF ImportStart, ImportAt
  <2>2. off \in SUBSET Blocks /\ \A b \in impRows : b \in off \/ impCanonical[Height[b]] = b
    OBVIOUS
  <2>3. pc \in {"sum", "item"} OBVIOUS
  <2> HIDE DEF off, pc
  <2>4. /\ ImpOK(imp') /\ imp'.pc = pc /\ imp'.pos = 1 /\ imp'.prev = imp.prev /\ imp'.off = off
    BY <2>1, <2>2, <2>3 DEF ImpOK
  <2>5. /\ pc = "item" => file.lo + 1 - 1 <= file.hi
        /\ pc = "sum" => file.lo + 1 - 1 > file.hi
    BY <1>3 DEF pc
  <2>6. 1..(1 - 1) = {} OBVIOUS
  <2>7. ImportAt(imp', file, impRows, impCanonical)
    BY <2>1, <2>2, <2>3, <2>4, <2>5, <2>6 DEF ImportAt, CanonIn
  <2> QED BY <1>4, <2>1, <2>3, <2>4, <2>7 DEF Verdict
<1>7. CASE ImportStops
  <2>1. imp' = ImportRests("stopped") /\ exp.pc = "over" BY <1>5, <1>7 DEF ImportStops
  <2> QED BY <1>4, <2>1, ImportRestsFacts
<1>8. CASE Retry
  <2>1. imp' = ImportRests("idle") /\ exp.pc = "over" BY <1>5, <1>8 DEF Retry
  <2> QED BY <1>4, <2>1, ImportRestsFacts
<1>9. CASE Verify
  <2> DEFINE fits == imp.pos > Len(file.items) /\ file.sum = Hashed(file)
  <2>1. /\ imp' = IF fits THEN [imp EXCEPT !.pc = "ok"] ELSE ImportRests("err")
        /\ imp.pc = "sum" /\ exp.pc = "over"
    BY <1>5, <1>9 DEF Verify
  <2>2. CASE fits
    <3>1. ~damaged /\ file.sum # NoSum BY <2>2, HashedFacts DEF FileSound
    <3>2. /\ ImpOK(imp') /\ imp'.pc = "ok" /\ imp'.pos = imp.pos /\ imp'.prev = imp.prev
          /\ imp'.off = imp.off
      BY <2>1, <2>2 DEF ImpOK
    <3>3. ImportAt(imp', file, impRows, impCanonical) BY <2>1, <3>2 DEF ImportAt, CanonIn
    <3> QED BY <1>4, <2>1, <3>1, <3>2, <3>3 DEF Verdict
  <2>3. CASE ~fits
    <3>1. damaged \/ file.sum = NoSum
      <4> SUFFICES ASSUME ~damaged, file.sum # NoSum PROVE fits
        BY <2>3
      <4>1. file.sum = Hashed(file) /\ Len(file.items) = file.hi - file.lo + 1 BY DEF FileSound
      <4>2. file.lo + imp.pos - 1 > file.hi BY <2>1 DEF ImportAt
      <4> QED BY <1>3, <4>1, <4>2
    <3>2. /\ ImpOK(imp') /\ imp'.pc = "err"
          /\ ImportAt(imp', file, impRows, impCanonical)
      BY <2>1, <2>3, ImportRestsFacts
    <3> QED BY <1>4, <2>1, <3>1, <3>2 DEF Verdict
  <2> QED BY <2>2, <2>3
<1> QED BY <1>6, <1>7, <1>8, <1>9

\* One item is stored, or refused.
LEMMA ImportItemStep == ASSUME SnapInv, ImportItem PROVE SnapInv'
<1> SnapForm BY SnapForms
<1> USE DEF SnapForm
<1> DEFINE x == file.items[imp.pos]
           p == imp.pos
           n == Len(file.items)
<1>1. imp.pc = "item" /\ UNCHANGED <<dictVars, canonical, exp, file, damaged>>
  BY DEF ImportItem, exporter
<1>2. DictTypeOK' /\ ChainOK(canonical') BY <1>1, SameStore
<1>3. /\ MaxHeight \in Nat /\ file.lo \in Nat /\ file.hi \in Nat
      /\ file.hi <= MaxHeight
      /\ p \in Nat /\ p >= 1 /\ n \in Nat /\ file.items \in Seq(Items)
      /\ DOMAIN file.items = 1..n /\ \A i \in 1..n : file.items[i] \in Items
  BY LenProperties, SnapHeightAssumption DEF FileOK, Heights, ImpOK
<1>4. exp.pc = "over" /\ file.lo + p - 1 <= file.hi BY <1>1 DEF ExportAt, ImportAt
<1>5. ASSUME ImpOK(imp'), ImportAt(imp', file, impRows', impCanonical'), Verdict(imp', file, damaged, impDict'),
             impRows' \subseteq Blocks, impDict' \in Dicts \cup {NoDict},
             impCanonical' \in [Heights -> Blocks \cup {NoBlock}]
      PROVE  SnapInv'
  <2>1. ExportAt(exp, file, damaged, imp'.pc) BY <1>4 DEF ExportAt
  <2> QED BY <1>1, <1>2, <1>5, <2>1, SnapFormNext
<1>6. CASE p <= n /\ Acceptable(x)
  <2>1. /\ ImportPut(x.block)
        /\ imp' = [imp EXCEPT !.pc = IF file.lo + p > file.hi THEN "sum" ELSE "item",
                              !.pos = p + 1, !.prev = x.block]
    BY <1>6 DEF ImportItem
  <2>2. /\ x \in Items /\ x # Garbled /\ Height[x.block] = file.lo + p - 1
        /\ imp.prev # NoBlock => Parent[x.block] = imp.prev
    BY <1>3, <1>6 DEF Acceptable
  <2>3. x.block \in Blocks BY <2>2 DEF Items
  <2> DEFINE hx == Height[x.block]
  <2>4. /\ impRows' = impRows \cup {x.block} /\ impRows' \subseteq Blocks
        /\ impDict' \in Dicts \cup {NoDict}
        /\ \/ x.block \in impRows /\ impCanonical' = impCanonical
           \/ impCanonical' = [impCanonical EXCEPT ![hx] = x.block]
    BY <2>1, <2>3 DEF ImportPut
  <2>5. /\ ImpOK(imp') /\ imp'.pos = p + 1 /\ imp'.prev = x.block /\ imp'.off = imp.off
        /\ imp'.pc = IF file.lo + p > file.hi THEN "sum" ELSE "item"
    <3>1. p + 1 \in 1..(MaxHeight + 2) BY <1>3, <1>4
    <3> QED BY <2>1, <2>3, <3>1 DEF ImpOK
  <2>6. Verdict(imp', file, damaged, impDict') BY <2>5 DEF Verdict
  <2>9. hx \in Heights BY <2>3, SnapHeightAssumption
  <2>10. /\ impCanonical' \in [Heights -> Blocks \cup {NoBlock}]
         /\ \A h \in Heights : h # hx => impCanonical'[h] = impCanonical[h]
    BY <2>3, <2>4, <2>9
  <2>11. CanonIn(imp', impCanonical', x.block)
    <3>1. CASE x.block \in impRows /\ impCanonical' = impCanonical
      <4>1. hx >= file.lo + p - 1 BY <1>3, <2>2
      <4> QED BY <1>1, <2>5, <3>1, <4>1 DEF ImportAt, CanonIn
    <3>2. CASE impCanonical' = [impCanonical EXCEPT ![hx] = x.block]
      BY <2>9, <3>2 DEF CanonIn
    <3> QED BY <2>4, <3>1, <3>2
  <2>12. ASSUME NEW b \in Blocks, Height[b] # hx, CanonIn(imp, impCanonical, b)
         PROVE  CanonIn(imp', impCanonical', b)
    <3>1. Height[b] \in Heights BY SnapHeightAssumption
    <3> QED BY <2>5, <2>10, <2>12, <3>1 DEF CanonIn
  <2>7. p > 1 => Parent[x.block] = file.items[p - 1].block
    <3> SUFFICES ASSUME p > 1 PROVE Parent[x.block] = file.items[p - 1].block
      OBVIOUS
    <3>1. imp.prev = file.items[p - 1].block BY <1>3 DEF ImportAt
    <3>2. p - 1 \in 1..(p - 1) BY <1>3
    <3>3. file.items[p - 1].block \in Blocks BY <3>2 DEF ImportAt
    <3>4. imp.prev # NoBlock BY <3>1, <3>3, SnapNoBlockAssumption
    <3> QED BY <2>2, <3>1, <3>4
  <2>8. ImportAt(imp', file, impRows', impCanonical')
    <3>1. imp'.pos = p + 1 /\ imp'.prev = x.block
          /\ imp'.pc = IF file.lo + p > file.hi THEN "sum" ELSE "item"
      BY <2>5
    <3>2. p + 1 # 1 /\ (p + 1) - 1 = p /\ file.lo + (p + 1) - 1 = file.lo + p BY <1>3
    <3>3. imp'.prev = IF imp'.pos = 1 THEN NoBlock ELSE file.items[imp'.pos - 1].block
      BY <3>1, <3>2
    <3>4. ASSUME NEW i \in 1..p
          PROVE  /\ i <= n /\ file.items[i].block \in impRows'
                 /\ Height[file.items[i].block] = file.lo + i - 1
                 /\ i > 1 => Parent[file.items[i].block] = file.items[i - 1].block
                 /\ CanonIn(imp', impCanonical', file.items[i].block)
      <4>1. CASE i = p BY <1>6, <2>2, <2>4, <2>7, <2>11, <4>1
      <4>2. CASE i # p
        <5>1. i \in 1..(p - 1) BY <1>3, <4>2
        <5>2. /\ i <= n /\ file.items[i].block \in impRows
              /\ Height[file.items[i].block] = file.lo + i - 1
              /\ i > 1 => Parent[file.items[i].block] = file.items[i - 1].block
              /\ CanonIn(imp, impCanonical, file.items[i].block)
          BY <5>1 DEF ImportAt
        <5>3. file.lo + i - 1 # file.lo + p - 1 BY <1>3, <4>2
        <5>4. CanonIn(imp', impCanonical', file.items[i].block)
          BY <2>2, <2>12, <5>2, <5>3
        <5> QED BY <2>4, <5>2, <5>4
      <4> QED BY <4>1, <4>2
    <3>5. /\ imp'.pc = "item" => file.lo + imp'.pos - 1 <= file.hi
          /\ imp'.pc \in {"sum", "ok"} => file.lo + imp'.pos - 1 > file.hi
          /\ imp'.pc # "idle"
      BY <1>3, <3>1, <3>2
    <3>6. \A i \in 1..(imp'.pos - 1) : i \in 1..p BY <3>1, <3>2
    <3>7. ASSUME NEW b \in impRows', Height[b] >= file.lo + imp'.pos - 1
          PROVE  CanonIn(imp', impCanonical', b)
      <4>1. b \in Blocks /\ Height[b] \in Int
        BY <2>4, SnapHeightAssumption DEF Heights
      <4>2. Height[b] # hx /\ Height[b] >= file.lo + p - 1
        BY <1>3, <2>2, <3>1, <3>7, <4>1
      <4>3. b \in impRows BY <2>4, <4>2
      <4>4. CanonIn(imp, impCanonical, b) BY <1>1, <4>2, <4>3 DEF ImportAt
      <4> QED BY <2>12, <4>1, <4>2, <4>4
    <3> QED BY <3>3, <3>4, <3>5, <3>6, <3>7 DEF ImportAt
  <2> QED BY <1>5, <2>4, <2>5, <2>6, <2>8, <2>10
<1>7. CASE ~(p <= n /\ Acceptable(x))
  <2>1. imp' = ImportRests("err") /\ UNCHANGED <<impRows, impCanonical, impDict>>
    BY <1>7 DEF ImportItem
  <2>2. ImpOK(imp') /\ imp'.pc = "err" BY <2>1, ImportRestsFacts
  <2>3. ImportAt(imp', file, impRows', impCanonical') BY <2>1, ImportRestsFacts
  <2>4. Verdict(imp', file, damaged, impDict')
    <3> SUFFICES ASSUME ~damaged, file.sum # NoSum,
                        \A i \in 2..n : Parent[file.items[i].block] = file.items[i - 1].block
                 PROVE  \E i \in DOMAIN file.items : file.items[i].enc \notin {Plain, impDict}
      BY <2>1, <2>2 DEF Verdict
    <3>1. n = file.hi - file.lo + 1 BY DEF FileSound
    <3>2. p \in 1..n /\ p <= n BY <1>3, <1>4, <3>1
    <3>3. x # Garbled /\ Height[x.block] = file.lo + p - 1 BY <1>3, <3>2 DEF FileSound
    <3>4. imp.prev # NoBlock => Parent[x.block] = imp.prev
      <4> SUFFICES ASSUME imp.prev # NoBlock PROVE Parent[x.block] = imp.prev
        OBVIOUS
      <4>1. p # 1 /\ imp.prev = file.items[p - 1].block BY DEF ImportAt
      <4>2. p \in 2..n BY <1>3, <3>2, <4>1
      <4> QED BY <4>1, <4>2
    <3>5. ~Decodes(x.enc, TRUE, impDict) BY <1>7, <3>2, <3>3, <3>4 DEF Acceptable
    <3> QED BY <1>3, <3>2, <3>5 DEF Decodes
  <2> QED BY <1>5, <2>1, <2>2, <2>3, <2>4
<1> QED BY <1>6, <1>7

-----------------------------------------------------------------------------
(***************************************************************************)
(* The theorems.                                                           *)
(***************************************************************************)

LEMMA SnapInitial == ASSUME SnapInit PROVE SnapInv
<1> USE DEF SnapInit
<1>1. DictTypeOK BY DictInitial
<1>2. 0 \in Heights /\ MaxHeight \in Nat BY SnapHeightAssumption DEF Heights
<1>3. ChainOK(canonical) BY DEF ChainOK, NoIndex
<1>4. ExpOK(exp) BY ExportRestsFacts
<1>6. ImpOK(imp) BY ImportRestsFacts
<1>7. FileOK(NoFile) BY <1>2 DEF FileOK, NoFile
<1>8. FileSound(NoFile, FALSE) BY NoFileSound
<1>9. ExportAt(exp, NoFile, FALSE, "idle") /\ imp.pc = "idle"
  BY ExportRestsFacts, ImportRestsFacts DEF ExportAt, NoFile
<1>10. ImportAt(imp, NoFile, impRows, impCanonical) /\ Verdict(imp, NoFile, FALSE, impDict)
  BY ImportRestsFacts
<1>11. /\ impRows \subseteq Blocks /\ impDict \in Dicts \cup {NoDict}
       /\ impCanonical \in [Heights -> Blocks \cup {NoBlock}]
  BY SnapHeldAssumption DEF NoIndex
<1> QED BY <1>1, <1>3, <1>4, <1>6, <1>7, <1>8, <1>9, <1>10, <1>11, SnapForms DEF SnapForm

LEMMA SnapStep == ASSUME SnapInv, [SnapNext]_snapVars PROVE SnapInv'
<1>1. CASE ExporterNext
  BY <1>1, StoreStep, ReorgStep, PruneStep, RestartStep DEF ExporterNext
<1>2. CASE ExportNext
  BY <1>2, ExportStartStep, ExportLookupStep, ExportReadStep, ExportAgainStep DEF ExportNext
<1>3. CASE Damage BY <1>3, DamageStep
<1>4. CASE ImportNext BY <1>4, ImportControlStep, ImportItemStep DEF ImportNext
<1>5. CASE UNCHANGED snapVars
  <2>1. SnapForm BY SnapForms
  <2>2. DictTypeOK' /\ ChainOK(canonical') BY <1>5, SameStore DEF snapVars, dictVars
  <2> QED BY <1>5, <2>1, <2>2, StoreKeeps DEF snapVars, importer
<1> QED BY <1>1, <1>2, <1>3, <1>4, <1>5 DEF SnapNext

\* The inductive invariant of export and import.
THEOREM SnapshotInvariant == SnapSpec => []SnapInv
<1>1. SnapInit => SnapInv BY SnapInitial
<1>2. SnapInv /\ [SnapNext]_snapVars => SnapInv' BY SnapStep
<1> QED BY <1>1, <1>2, PTL DEF SnapSpec

\* Both stores, the file and the loops of export_snapshot and import_snapshot
\* keep their types, and an export writes no more blocks than its manifest says.
THEOREM SnapshotTypeCorrect == SnapSpec => []SnapTypeOK
<1>1. SnapInv => SnapTypeOK BY DEF SnapInv
<1> QED BY <1>1, SnapshotInvariant, PTL

\* export_snapshot writes one canonical block per height, whatever is stored,
\* reorganised or pruned between its reads, and its checksum fits that file only.
THEOREM ExportSound == SnapSpec => []ExportInv
<1>1. SnapInv => ExportInv BY DEF SnapInv
<1> QED BY <1>1, SnapshotInvariant, PTL

\* What import_snapshot has accepted is stored, parent-linked and, unless it was
\* held as a block of a fork, canonical.
THEOREM ImportSound == SnapSpec => []ImportInv
<1>1. SnapInv => ImportInv BY DEF SnapInv
<1> QED BY <1>1, SnapshotInvariant, PTL

\* import_snapshot never reports success for a file that was damaged, in its
\* items, its manifest or its checksum, or cut, or whose export stopped half-way.
THEOREM DamageAlwaysRejected == SnapSpec => []DamageRejected
<1>1. SnapInv => DamageRejected BY DEF SnapInv
<1> QED BY <1>1, SnapshotInvariant, PTL

\* import_snapshot refuses a sound file only for a dictionary it does not have.
THEOREM SoundFileAlwaysImports == SnapSpec => []SoundFileImports
<1>1. SnapInv => SoundFileImports BY DEF SnapInv
<1> QED BY <1>1, SnapshotInvariant, PTL

\* After import_snapshot succeeds, the importer has one block for each height of
\* the manifest, each the child of the one below, and canonical unless it was held
\* as a block of a fork.
THEOREM ImportedAlwaysLinked == SnapSpec => []ImportedChainLinked
<1>1. ASSUME SnapInv PROVE ImportedChainLinked
  <2> SUFFICES ASSUME imp.pc = "ok", NEW i \in DOMAIN file.items
               PROVE  /\ file.items[i].block \in impRows
                      /\ Height[file.items[i].block] = file.lo + i - 1
                      /\ i > 1 => Parent[file.items[i].block] = file.items[i - 1].block
                      /\ CanonIn(imp, impCanonical, file.items[i].block)
    BY DEF ImportedChainLinked, Canonicalised, CanonIn
  <2> SnapForm BY <1>1, SnapForms
  <2>1. file.lo + imp.pos - 1 > file.hi BY DEF SnapForm, ImportAt
  <2>2. /\ DOMAIN file.items = 1..Len(file.items) /\ Len(file.items) \in Nat
        /\ Len(file.items) <= file.hi - file.lo + 1
        /\ file.lo \in Int /\ file.hi \in Int /\ imp.pos \in Int
    BY LenProperties, SnapHeightAssumption DEF SnapForm, FileOK, FileSound, Verdict, ImpOK, Heights
  <2>3. i \in 1..(imp.pos - 1) BY <2>1, <2>2
  <2> QED BY <2>3 DEF SnapForm, ImportAt
<1> QED BY <1>1, SnapshotInvariant, PTL

\* The exporter's rows stay readable while it trains a dictionary, prunes,
\* restarts and exports, when one thread writes to it.
THEOREM ExporterRowsReadable ==
  ASSUME OneThread
  PROVE  SnapSpec => [](RowsReadable /\ RowsRecoverable /\ TrainingInv)
<1> DEFINE Inv == SnapInv /\ TrainingInv /\ RowsRecoverable
<1>1. SnapInit => Inv BY SnapInitial, DictInitial DEF SnapInit
<1>2. Inv /\ [SnapNext]_snapVars => Inv'
  <2> SUFFICES ASSUME Inv, [SnapNext]_snapVars PROVE TrainingInv' /\ RowsRecoverable'
    BY SnapStep
  <2>1. DictTypeOK BY SnapForms DEF SnapForm
  <2>2. rows \in [Blocks -> Encodings \cup {NoRow}] BY <2>1, DictTypeForm DEF DictTypes
  <2>3. ASSUME NEW t \in Threads, ThreadStep(t) PROVE TrainingInv' /\ RowsRecoverable'
    BY <2>1, <2>3, ThreadTraining
  <2>4. ASSUME NEW h \in 1..MaxHeight, PruneBefore(h) PROVE TrainingInv' /\ RowsRecoverable'
    <3>1. /\ rows' \in [Blocks -> Encodings \cup {NoRow}]
          /\ \A b \in Blocks : rows'[b] \in {NoRow, rows[b]}
      BY <2>2, <2>4 DEF PruneBefore
    <3> QED BY <2>1, <2>4, <3>1, ShrinkTraining DEF PruneBefore
  <2>5. ASSUME NEW use \in UseDict, Restart(use) PROVE TrainingInv' /\ RowsRecoverable'
    BY <2>1, <2>5, ReopenTraining DEF Restart
  <2>6. ASSUME UNCHANGED dictVars PROVE TrainingInv' /\ RowsRecoverable'
    BY <2>1, <2>2, <2>6, ShrinkTraining DEF dictVars
  <2>7. CASE ExporterNext
    <3>1. CASE Store BY <2>3, <3>1 DEF Store, ThreadStep
    <3>2. ASSUME NEW bs \in Chains, Reorg(bs) PROVE UNCHANGED dictVars BY <3>2 DEF Reorg
    <3> QED BY <2>4, <2>5, <2>6, <2>7, <3>1, <3>2 DEF ExporterNext
  <2>8. CASE ExportNext \/ Damage \/ ImportNext \/ UNCHANGED snapVars
    <3>1. UNCHANGED dictVars
      BY <2>8 DEF ExportNext, ExportStart, ExportLookup, ExportRead, ExportAgain, Damage,
         ImportNext, ImportStart, ImportItem, ImportStops, Retry, Verify, snapVars, dictVars
    <3> QED BY <2>6, <3>1
  <2> QED BY <2>7, <2>8 DEF SnapNext
<1>3. Inv => RowsReadable /\ RowsRecoverable /\ TrainingInv BY TrainingReadable
<1> QED BY <1>1, <1>2, <1>3, PTL DEF SnapSpec

\* The invariants of training, export and import hold together.
THEOREM ExporterInvariant ==
  ASSUME OneThread
  PROVE  SnapSpec => []SnapshotInv
<1>1. SnapTypeOK /\ ExportInv /\ ImportInv /\ TrainingInv => SnapshotInv BY DEF SnapshotInv
<1> QED BY <1>1, ExportSound, ImportSound, SnapshotTypeCorrect, ExporterRowsReadable, PTL

=============================================================================
