----------------------------- MODULE Dictionary -----------------------------
(***************************************************************************)
(* The encoding of CF_BLOCKS values and the zstd dictionary: serialize and *)
(* write in put_block and in a pipeline flush, then maybe_train_dictionary, *)
(* in the steps between which other threads run.  A row is known by the    *)
(* encoding it was written with: a plain zstd frame, or one that needs a   *)
(* dictionary.  config.zstd_dictionary_override, with which a store may    *)
(* open with any dictionary, is left out.                                  *)
(***************************************************************************)
EXTENDS Integers, FiniteSets

CONSTANTS
  Blocks,
  Threads,
  Dicts,            \* dictionaries that zstd may train: samples are shuffled
  Plain,            \* a frame without dictionary
  NoDict,           \* an absent or empty META_ZSTD_DICT, an empty zstd_dict
  NoRow,
  Threshold,        \* DICT_TRAINING_THRESHOLD
  UseDict,          \* bound: values of config.use_compression_dict at an open
  CanFail           \* bound: sampling or training may return an error

ASSUME MarkersAssumption ==
  {Plain, NoDict, NoRow} \cap Dicts = {} /\ Plain # NoRow /\ Plain # NoDict
ASSUME ThresholdAssumption == Threshold \in Nat \ {0}
ASSUME UseDictAssumption == UseDict \subseteq BOOLEAN /\ UseDict # {}
ASSUME CanFailAssumption == CanFail \in BOOLEAN

VARIABLES
  rows,             \* the encoding of each row of CF_BLOCKS
  metaDict,         \* META_ZSTD_DICT
  live,             \* zstd_dict in memory
  useDict,          \* use_compression_dict of the open store
  work              \* what each thread is doing

dictVars == <<rows, metaDict, live, useDict, work>>

Encodings == Dicts \cup {Plain}
Stored == {b \in Blocks : rows[b] # NoRow}

\* enc is the encoded payload of put_block, dict the dictionary to install.
Resting == [pc |-> "idle", block |-> NoRow, enc |-> NoRow, dict |-> NoDict]
Goto(t, pc) == work' = [work EXCEPT ![t].pc = pc]
Finish(t) == work' = [work EXCEPT ![t] = Resting]

\* load_zstd_dict_from_db.
Loaded(use) == IF use THEN metaDict ELSE NoDict

DictInit ==
  /\ rows = [b \in Blocks |-> NoRow]
  /\ metaDict = NoDict /\ live = NoDict
  /\ useDict \in UseDict
  /\ work = [t \in Threads |-> Resting]

-----------------------------------------------------------------------------
(***************************************************************************)
(* Encoding and decoding.                                                  *)
(***************************************************************************)

\* serialize_block.
Encoding == IF useDict /\ live # NoDict THEN live ELSE Plain

\* Mutant: with a dictionary at hand, nothing else is tried.
DecodesNoFallback(enc, use, dict) == IF use /\ dict # NoDict THEN enc = dict ELSE enc = Plain

\* decompress_block_payload: with the dictionary, then as a plain frame.  A
\* frame made with one dictionary needs that dictionary (zstd).
Decodes(enc, use, dict) == enc = Plain \/ (use /\ enc = dict)

-----------------------------------------------------------------------------
(***************************************************************************)
(* put_block, or one job of flush_pipeline_batch.                          *)
(***************************************************************************)
Put(t, b) ==
  /\ work[t].pc = "idle"
  /\ rows[b] = NoRow
  /\ work' = [work EXCEPT ![t] = [Resting EXCEPT !.pc = "write", !.block = b, !.enc = Encoding]]
  /\ UNCHANGED <<rows, metaDict, live, useDict>>

Write(t) ==
  /\ work[t].pc = "write"
  /\ rows' = [rows EXCEPT ![work[t].block] = work[t].enc]
  /\ Goto(t, "trained")
  /\ UNCHANGED <<metaDict, live, useDict>>

-----------------------------------------------------------------------------
(***************************************************************************)
(* maybe_train_dictionary.                                                 *)
(***************************************************************************)

\* Nothing to do without dictionaries or with one in memory.
CheckLive(t) ==
  /\ work[t].pc = "trained"
  /\ IF ~useDict \/ live # NoDict THEN Finish(t) ELSE Goto(t, "meta")
  /\ UNCHANGED <<rows, metaDict, live, useDict>>

CheckMeta(t) ==
  /\ work[t].pc = "meta"
  /\ Goto(t, IF metaDict # NoDict THEN "load" ELSE "count")
  /\ UNCHANGED <<rows, metaDict, live, useDict>>

\* block_count against the threshold.
CheckCount(t) ==
  /\ work[t].pc = "count"
  /\ IF Cardinality(Stored) < Threshold THEN Finish(t) ELSE Goto(t, "train")
  /\ UNCHANGED <<rows, metaDict, live, useDict>>

\* train_dictionary: a dictionary that is there already is the answer.
Train(t) ==
  /\ work[t].pc = "train"
  /\ IF metaDict # NoDict
       THEN work' = [work EXCEPT ![t].pc = "install", ![t].dict = metaDict]
       ELSE Goto(t, "sample")
  /\ UNCHANGED <<rows, metaDict, live, useDict>>

\* sample_block_bodies and from_samples: a scan of CF_BLOCKS and Threshold of
\* its rows, shuffled; an error when there are too few by now or one of them
\* does not decode, else a dictionary.
Sample(t) ==
  LET Samples == {S \in SUBSET Stored : Cardinality(S) = Threshold}
      Readable(S) == \A b \in S : Decodes(rows[b], useDict, live)
  IN  /\ work[t].pc = "sample"
      /\ \/ /\ \E S \in Samples : Readable(S)
            /\ \E d \in Dicts : work' = [work EXCEPT ![t].pc = "persist", ![t].dict = d]
         \/ /\ Samples = {} \/ \E S \in Samples : ~Readable(S)
            /\ Finish(t)
      /\ UNCHANGED <<rows, metaDict, live, useDict>>

SampleFails(t) ==
  /\ CanFail
  /\ work[t].pc = "sample"
  /\ Finish(t)
  /\ UNCHANGED <<rows, metaDict, live, useDict>>

\* Mutant: the dictionary is only kept in memory.
PersistSkipped(t) ==
  /\ work[t].pc = "persist"
  /\ Goto(t, "install")
  /\ UNCHANGED <<rows, metaDict, live, useDict>>

Persist(t) ==
  /\ work[t].pc = "persist"
  /\ metaDict' = work[t].dict
  /\ Goto(t, "install")
  /\ UNCHANGED <<rows, live, useDict>>

Install(t) ==
  /\ work[t].pc = "install"
  /\ live' = work[t].dict
  /\ Finish(t)
  /\ UNCHANGED <<rows, metaDict, useDict>>

-----------------------------------------------------------------------------
(***************************************************************************)
(* init_dictionary, called by maybe_train_dictionary or on its own: it     *)
(* reads META_ZSTD_DICT and then installs what it has read.                *)
(***************************************************************************)
InitDictionary(t) ==
  /\ work[t].pc = "idle"
  /\ Goto(t, "load")
  /\ UNCHANGED <<rows, metaDict, live, useDict>>

Load(t) ==
  /\ work[t].pc = "load"
  /\ work' = [work EXCEPT ![t].pc = "install", ![t].dict = Loaded(useDict)]
  /\ UNCHANGED <<rows, metaDict, live, useDict>>

-----------------------------------------------------------------------------
\* prune_before_height deletes the row.
DeleteRow(b) ==
  /\ rows[b] # NoRow
  /\ rows' = [rows EXCEPT ![b] = NoRow]
  /\ UNCHANGED <<metaDict, live, useDict, work>>

\* The process ends, in the middle of any call, and opens the store again.
Reopen(use) ==
  /\ useDict' = use
  /\ live' = Loaded(use)
  /\ work' = [t \in Threads |-> Resting]
  /\ UNCHANGED <<rows, metaDict>>

TrainStep(t) ==
  CheckLive(t) \/ CheckMeta(t) \/ CheckCount(t) \/ Train(t) \/ Sample(t) \/ SampleFails(t)
  \/ Persist(t) \/ Install(t) \/ Load(t)

DictNext ==
  \/ \E t \in Threads : (\E b \in Blocks : Put(t, b)) \/ Write(t) \/ TrainStep(t)
                        \/ InitDictionary(t)
  \/ \E b \in Blocks : DeleteRow(b)
  \/ \E use \in UseDict : Reopen(use)

DictSpec == DictInit /\ [][DictNext]_dictVars

-----------------------------------------------------------------------------
(***************************************************************************)
(* Properties.                                                             *)
(***************************************************************************)

\* The types of the dictionary state and of each thread's locals.
DictTypeOK ==
  /\ rows \in [Blocks -> Encodings \cup {NoRow}]
  /\ metaDict \in Dicts \cup {NoDict}
  /\ live \in Dicts \cup {NoDict}
  /\ useDict \in BOOLEAN
  /\ work \in [Threads -> [pc : {"idle", "write", "trained", "meta", "count", "train",
                                 "sample", "persist", "install", "load"},
                           block : Blocks \cup {NoRow},
                           enc : Encodings \cup {NoRow},
                           dict : Dicts \cup {NoDict}]]
  /\ \A t \in Threads :
       work[t].pc = "write" => work[t].block \in Blocks /\ work[t].enc \in Encodings

\* "All historical blocks remain readable after dictionary training": a store
\* opened with dictionaries decodes every row it holds, those from before the
\* training, those encoded while it ran, those from before a crash in the middle
\* of it and those of an open without dictionaries.
RowsReadable == useDict => \A b \in Stored : Decodes(rows[b], useDict, live)

\* Every row decodes after a restart: a dictionary is persisted before a row
\* needs it, and stays the persisted one.
RowsRecoverable == \A b \in Stored : Decodes(rows[b], TRUE, metaDict)

\* What keeps the rows readable, with one thread in the store: the dictionary
\* in memory is the persisted one, or none and then all rows are plain; a
\* trainer that samples or is about to persist has found none; and what a
\* thread is about to write or to install still agrees with both.
TrainingInv ==
  /\ IF useDict THEN live = metaDict \/ (live = NoDict /\ \A b \in Stored : rows[b] = Plain)
                ELSE live = NoDict
  /\ \A t \in Threads :
       /\ work[t].pc = "write" => Decodes(work[t].enc, useDict, live)
       /\ work[t].pc \in {"meta", "count", "train", "sample", "persist"} => useDict
       /\ work[t].pc \in {"sample", "persist"} => metaDict = NoDict
       /\ work[t].pc = "install" => work[t].dict = Loaded(useDict)

=============================================================================
