----------------------------- MODULE BoardProofs ------------------------------
(***************************************************************************)
(* The parts of the boards that talk to other chips, one after the other:  *)
(* the parameters and their EEPROM, the oil pump behind its LIN bus and    *)
(* the gate drivers on their chain, proved for every number of parameters  *)
(* and values, every order of writes, SAVEs, LOADs, resets and power cuts, *)
(* every timing and every disturbed frame.                                 *)
(***************************************************************************)
EXTENDS ParamStorage, OilPump, GateDriver, SequenceTheorems, TLAPS

-------------------------------------------------------------------------------
(* Parameter storage: what the saved block can and cannot do to the        *)
(* parameters.                                                             *)

(* An amplitude that main is about to use was asked for, or is zero.       *)
FetchedAsked == ~asked => \A f \in fetched : f[1] = Amp => f[2] = Zero

(* While SAVE writes, nobody else changes the database: the image is it,   *)
(* and the cells up to the word are the image's.                           *)
ImageWritten ==
  power = "saving" =>
    /\ image = values
    /\ \A p \in Indices : p < word => cells[p] = image[p]

(* The checksum is that of a block that was saved as a whole, and within   *)
(* the limits unless the first block was not.                              *)
CrcOfSaved ==
  crc # Junk =>
    /\ crc \in snapshots
    /\ ~foreign => \A p \in Indices : crc[p] \in Allowed \cup {Blank}

StorageInv ==
  /\ StorageTypeOK /\ FetchedAsked /\ ImageWritten /\ CrcOfSaved
  /\ SaveDurable /\ InLimits /\ AmplitudeAsked
USE DEF StorageInv

(* The constants, one by one.                                              *)
LEMMA Constants ==
  /\ ParamCount \in Nat /\ Amp \in Indices /\ Slip \in Indices /\ Amp # Slip
  /\ Indices \subseteq Nat /\ Bulk \subseteq Indices /\ Amp \notin Bulk
  /\ Allowed \subseteq Words /\ Zero \in Allowed
  /\ Default \in [Indices -> Allowed] /\ Default[Amp] = Zero
  /\ Blank \notin Words /\ Junk \notin Words /\ Blank # Junk
  /\ Junk \notin [Indices -> Words \cup {Blank, Junk}]
  BY StorageAssumption DEF Indices, Bulk

(* A valid block is one that was saved.                                    *)
LEMMA ValidIsSaved ==
  ASSUME StorageTypeOK, CrcOfSaved, Valid
  PROVE  /\ crc # Junk
         /\ cells \in [Indices -> Words \cup {Blank}]
         /\ cells \in snapshots
         /\ ~foreign => \A p \in Indices : cells[p] \in Allowed \cup {Blank}
  BY Constants DEF StorageTypeOK, CrcOfSaved, Valid

(* What loading does to the parameters: they keep their type and their     *)
(* limits, and the amplitude is not touched.                               *)
LEMMA LoadKeeps ==
  ASSUME StorageTypeOK, CrcOfSaved, NEW v \in [Indices -> Words]
  PROVE  /\ parm_load(v) \in [Indices -> Words]
         /\ parm_load(v)[Amp] = v[Amp]
         /\ ~foreign /\ (\A p \in Indices : v[p] \in Allowed) =>
               \A p \in Indices : parm_load(v)[p] \in Allowed
<1>1. CASE Valid
  <2>1. parm_load(v) = Merge(v, cells)
    BY <1>1 DEF parm_load
  <2>2. Merge(v, cells) \in [Indices -> Words]
    BY <1>1, ValidIsSaved DEF Merge
  <2>3. Merge(v, cells)[Amp] = v[Amp]
    BY Constants DEF Merge
  <2>4. ~foreign /\ (\A p \in Indices : v[p] \in Allowed) =>
           \A p \in Indices : Merge(v, cells)[p] \in Allowed
    BY <1>1, ValidIsSaved DEF Merge
  <2> QED
    BY <2>1, <2>2, <2>3, <2>4
<1>2. CASE ~Valid
  BY <1>2 DEF parm_load
<1> QED
  BY <1>1, <1>2

LEMMA DefaultsKeep ==
  ASSUME NEW v \in [Indices -> Words]
  PROVE  /\ LoadDefaults(v) \in [Indices -> Words]
         /\ LoadDefaults(v)[Amp] = v[Amp]
         /\ (\A p \in Indices : v[p] \in Allowed) =>
               \A p \in Indices : LoadDefaults(v)[p] \in Allowed
  BY Constants DEF LoadDefaults

LEMMA ChangeKeeps ==
  ASSUME NEW p \in Indices, NEW v \in [Indices -> Words], NEW used \in [Indices -> Words]
  PROVE  /\ Change(p, v, used) \in [Indices -> Words]
         /\ p # Amp => Change(p, v, used)[Amp] = used[Amp]
  BY Constants DEF Change

LEMMA StorageInitInv == StorageInit => StorageInv
<1> SUFFICES ASSUME StorageInit PROVE StorageInv
  OBVIOUS
<1> USE Constants
<1>1. values \in [Indices -> Words] /\ values[Amp] = Zero
      /\ (\A p \in Indices : values[p] \in Allowed) /\ inUse = [p \in Indices |-> Zero]
  BY DEF StorageInit
<1>2. \/ cells = Nothing /\ crc = Junk /\ durable = Junk
      \/ /\ cells \in [Indices -> Words \cup {Blank}] /\ crc = cells /\ durable = cells
         /\ snapshots = {cells}
         /\ foreign = (\E p \in Indices : cells[p] \notin Allowed \cup {Blank})
  BY StorageAssumption DEF StorageInit
<1>3. StorageTypeOK
  BY <1>1, <1>2 DEF StorageInit, StorageTypeOK, Nothing
<1>4. FetchedAsked /\ ImageWritten
  BY DEF StorageInit, FetchedAsked, ImageWritten
<1>5. CrcOfSaved /\ SaveDurable
  BY <1>2 DEF CrcOfSaved, SaveDurable, Valid
<1>6. InLimits /\ AmplitudeAsked
  BY <1>1 DEF InLimits, AmplitudeAsked
<1> QED
  BY <1>3, <1>4, <1>5, <1>6
(* Steps that leave the EEPROM alone.                                      *)
LEMMA StartInv ==
  ASSUME StorageInv, Start
  PROVE  StorageInv'
<1> USE Constants
<1> DEFINE loaded == parm_load(LoadDefaults(values))
<1>1. values \in [Indices -> Words] /\ inUse \in [Indices -> Words]
  BY DEF StorageTypeOK
<1>2. LoadDefaults(values) \in [Indices -> Words]
  BY <1>1, DefaultsKeep
<1>3. loaded \in [Indices -> Words]
  BY <1>2, LoadKeeps
<1>4. ~foreign => \A p \in Indices : loaded[p] \in Allowed
  BY <1>1, <1>2, DefaultsKeep, LoadKeeps DEF InLimits
<1> HIDE DEF loaded
<1>5. values' = Standstill(loaded)
  BY DEF Start, loaded
<1>6. /\ values' \in [Indices -> Words] /\ values'[Amp] = Zero
      /\ ~foreign => \A p \in Indices : values'[p] \in Allowed
  BY <1>3, <1>4, <1>5 DEF Standstill
<1>7. inUse' \in [Indices -> Words] /\ inUse'[Amp] = Zero
  BY <1>1, <1>6 DEF Start
<1>8. StorageTypeOK'
  BY <1>6, <1>7 DEF Start, StorageTypeOK, eeprom
<1>9. FetchedAsked' /\ ImageWritten' /\ CrcOfSaved'
  BY DEF Start, FetchedAsked, ImageWritten, CrcOfSaved, eeprom, storageHistory, sinceStart
<1>10. SaveDurable' /\ InLimits' /\ AmplitudeAsked'
  BY <1>6, <1>7 DEF Start, SaveDurable, Valid, InLimits, AmplitudeAsked, eeprom,
                    storageHistory, sinceStart
<1> QED
  BY <1>8, <1>9, <1>10

LEMMA SetInv ==
  ASSUME StorageInv, NEW p \in Indices, NEW v \in Words, Set(p, v)
  PROVE  StorageInv'
<1> USE Constants
<1>1. values \in [Indices -> Words] /\ inUse \in [Indices -> Words]
  BY DEF StorageTypeOK
<1>2. /\ values' \in [Indices -> Words] /\ inUse' \in [Indices -> Words]
      /\ (\A q \in Indices : values[q] \in Allowed) => \A q \in Indices : values'[q] \in Allowed
      /\ ~asked' => values'[Amp] = values[Amp] /\ inUse'[Amp] = inUse[Amp]
      /\ asked => asked'
  <2>1. CASE v \in Allowed
    <3>1. /\ values' = [values EXCEPT ![p] = v] /\ inUse' = Change(p, values', inUse)
          /\ asked' = (asked \/ p = Amp)
      BY <2>1 DEF Set
    <3>2. values' \in [Indices -> Words]
      BY <1>1, <3>1
    <3>3. /\ Change(p, values', inUse) \in [Indices -> Words]
          /\ p # Amp => Change(p, values', inUse)[Amp] = inUse[Amp]
      BY <1>1, <3>2, ChangeKeeps
    <3> QED
      BY <1>1, <2>1, <3>1, <3>2, <3>3
  <2>2. CASE v \notin Allowed
    BY <1>1, <2>2 DEF Set, sinceStart
  <2> QED
    BY <2>1, <2>2
<1>3. StorageTypeOK'
  BY <1>2 DEF Set, StorageTypeOK, eeprom
<1>4. FetchedAsked' /\ ImageWritten' /\ CrcOfSaved'
  BY <1>2 DEF Set, FetchedAsked, ImageWritten, CrcOfSaved, eeprom
<1>5. SaveDurable' /\ InLimits' /\ AmplitudeAsked'
  BY <1>2 DEF Set, SaveDurable, Valid, InLimits, AmplitudeAsked, eeprom
<1> QED
  BY <1>3, <1>4, <1>5

LEMMA ReloadInv ==
  ASSUME StorageInv, Load \/ Defaults
  PROVE  StorageInv'
<1> USE Constants
<1>1. values \in [Indices -> Words]
  BY DEF StorageTypeOK
<1>2. values' = parm_load(values) \/ values' = LoadDefaults(values)
  BY DEF Load, Defaults
<1>3. /\ values' \in [Indices -> Words] /\ values'[Amp] = values[Amp]
      /\ ~foreign => \A p \in Indices : values'[p] \in Allowed
  BY <1>1, <1>2, LoadKeeps, DefaultsKeep DEF InLimits
<1>4. /\ power = "loop" /\ refresh = {} /\ refresh' = Bulk
      /\ UNCHANGED <<power, inUse, fetched, eeprom, storageHistory>>
  BY DEF Load, Defaults, Idle, DerivedTogether
<1>5. StorageTypeOK'
  BY <1>3, <1>4 DEF StorageTypeOK, eeprom
<1>6. FetchedAsked' /\ ImageWritten' /\ CrcOfSaved'
  BY <1>4 DEF FetchedAsked, ImageWritten, CrcOfSaved, eeprom, storageHistory, sinceStart
<1>7. SaveDurable' /\ InLimits' /\ AmplitudeAsked'
  BY <1>3, <1>4 DEF SaveDurable, Valid, InLimits, AmplitudeAsked, eeprom, storageHistory,
                    sinceStart
<1> QED
  BY <1>5, <1>6, <1>7

LEMMA SettingInv ==
  ASSUME StorageInv, Pass \/ Fetch \/ Derive
  PROVE  StorageInv'
<1> USE Constants
<1>1. UNCHANGED <<power, values, eeprom, snapshots, durable, foreign, asked>>
  BY DEF Pass, Fetch, Derive, storageHistory, sinceStart
<1>2. ImageWritten' /\ CrcOfSaved' /\ SaveDurable' /\ InLimits'
  BY <1>1 DEF ImageWritten, CrcOfSaved, SaveDurable, Valid, InLimits, eeprom
<1>3. CASE Pass
  <2>1. fetched' = fetched /\ inUse' = inUse /\ refresh = {} /\ refresh' = {Amp, Slip}
    BY <1>3 DEF Pass, Idle
  <2>2. StorageTypeOK' /\ FetchedAsked' /\ AmplitudeAsked'
    BY <1>1, <2>1 DEF StorageTypeOK, FetchedAsked, AmplitudeAsked, eeprom
  <2> QED
    BY <1>2, <2>2
<1>4. CASE Fetch
  <2>1. /\ inUse' = inUse /\ refresh' = refresh
        /\ \E p \in refresh : fetched' = {<<p, values[p]>>}
    BY <1>4 DEF Fetch
  <2>2. StorageTypeOK'
    BY <1>1, <2>1 DEF StorageTypeOK, eeprom
  <2>3. FetchedAsked' /\ AmplitudeAsked'
    BY <1>1, <2>1 DEF FetchedAsked, AmplitudeAsked
  <2> QED
    BY <1>2, <2>2, <2>3
<1>5. CASE Derive
  <2>1. PICK f \in fetched : inUse' = [inUse EXCEPT ![f[1]] = f[2]] /\ refresh' = refresh \ {f[1]}
    BY <1>5 DEF Derive
  <2>2. f[1] \in Indices /\ f[2] \in Words /\ fetched' = {}
    BY <1>5 DEF Derive, StorageTypeOK
  <2>3. StorageTypeOK'
    BY <1>1, <2>1, <2>2 DEF StorageTypeOK, eeprom
  <2>4. FetchedAsked'
    BY <2>2 DEF FetchedAsked
  <2>5. AmplitudeAsked'
    BY <1>1, <2>1, <2>2 DEF FetchedAsked, AmplitudeAsked, StorageTypeOK
  <2> QED
    BY <1>2, <2>3, <2>4, <2>5
<1> QED
  BY <1>3, <1>4, <1>5
(* Steps that write the EEPROM or lose the memory.                         *)
LEMMA SaveInv ==
  ASSUME StorageInv, Save
  PROVE  StorageInv'
<1> USE Constants
<1>1. StorageTypeOK'
  BY DEF Save, Idle, StorageTypeOK, ram
<1>2. FetchedAsked' /\ ImageWritten' /\ CrcOfSaved'
  BY DEF Save, Idle, FetchedAsked, ImageWritten, CrcOfSaved, Indices, ram, sinceStart
<1>3. SaveDurable' /\ InLimits' /\ AmplitudeAsked'
  BY DEF Save, SaveDurable, InLimits, AmplitudeAsked, ram, sinceStart
<1> QED
  BY <1>1, <1>2, <1>3

LEMMA WriteEntryInv ==
  ASSUME StorageInv, WriteEntry
  PROVE  StorageInv'
<1> USE Constants
<1>1. UNCHANGED <<power, ram, crc, image, storageHistory>> /\ power = "saving"
  BY DEF WriteEntry
<1>2. cells' = [cells EXCEPT ![word] = image[word]] /\ word' = word + 1 /\ word \in Indices
  BY DEF WriteEntry
<1>3. StorageTypeOK'
  BY <1>1, <1>2 DEF StorageTypeOK, ram, Indices
<1>4. ImageWritten'
  BY <1>1, <1>2 DEF ImageWritten, StorageTypeOK, ram, Indices
<1>5. FetchedAsked' /\ CrcOfSaved' /\ SaveDurable' /\ InLimits' /\ AmplitudeAsked'
  BY <1>1 DEF FetchedAsked, CrcOfSaved, SaveDurable, InLimits, AmplitudeAsked, ram,
              storageHistory, sinceStart
<1> QED
  BY <1>3, <1>4, <1>5

LEMMA WriteChecksumInv ==
  ASSUME StorageInv, WriteChecksum
  PROVE  StorageInv'
<1> USE Constants
<1>1. /\ power = "saving" /\ word = ParamCount + 1 /\ crc' = image /\ power' = "loop"
      /\ image' = Nothing /\ word' = 0 /\ snapshots' = {image} /\ durable' = image
      /\ foreign' = (foreign /\ \E p \in Indices : image[p] \notin Allowed)
      /\ UNCHANGED <<ram, cells, sinceStart>>
  BY DEF WriteChecksum
<1>2. image = values /\ image \in [Indices -> Words]
  BY <1>1 DEF ImageWritten, StorageTypeOK
<1>3. cells = image
  <2>1. \A p \in Indices : p < ParamCount + 1
    BY DEF Indices
  <2>2. \A p \in Indices : cells[p] = image[p]
    BY <1>1, <2>1 DEF ImageWritten
  <2>3. image = [p \in Indices |-> image[p]] /\ cells = [p \in Indices |-> cells[p]]
    BY <1>2 DEF StorageTypeOK
  <2> QED
    BY <2>2, <2>3, ZenonT(30)
<1>4. StorageTypeOK'
  BY <1>1, <1>2 DEF StorageTypeOK, ram
<1>5. FetchedAsked' /\ ImageWritten'
  BY <1>1 DEF FetchedAsked, ImageWritten, ram, sinceStart
<1>6. ~foreign' => \A p \in Indices : image[p] \in Allowed
  BY <1>1, <1>2 DEF InLimits
<1>7. CrcOfSaved' /\ SaveDurable'
  BY <1>1, <1>3, <1>6 DEF CrcOfSaved, SaveDurable, Valid
<1>8. InLimits' /\ AmplitudeAsked'
  BY <1>1, <1>2, <1>6 DEF InLimits, AmplitudeAsked, ram, sinceStart
<1> QED
  BY <1>4, <1>5, <1>7, <1>8

LEMMA LoseRamInv ==
  ASSUME StorageInv, Reset \/ PowerCut
  PROVE  StorageInv'
<1> USE Constants
<1>1. /\ power' = "off" /\ values' = Default /\ inUse' = [p \in Indices |-> Zero]
      /\ refresh' = {} /\ fetched' = {} /\ image' = Nothing /\ word' = 0
      /\ UNCHANGED <<snapshots, foreign>>
  BY DEF Reset, PowerCut, LoseRam
<1>2. crc' = crc \/ crc' = Junk
  BY DEF Reset, PowerCut
<1>3. UNCHANGED cells \/ (word \in Indices /\ cells' = [cells EXCEPT ![word] = Junk])
  BY DEF Reset, PowerCut
<1>4. durable' = Junk \/ (power # "saving" /\ UNCHANGED <<cells, crc, durable>>)
  BY DEF Reset, PowerCut, Idle
<1>5. StorageTypeOK'
  BY <1>1, <1>2, <1>3 DEF StorageTypeOK
<1>6. FetchedAsked' /\ ImageWritten' /\ CrcOfSaved'
  BY <1>1, <1>2 DEF FetchedAsked, ImageWritten, CrcOfSaved
<1>7. SaveDurable' /\ InLimits' /\ AmplitudeAsked'
  BY <1>1, <1>4 DEF SaveDurable, Valid, InLimits, AmplitudeAsked
<1> QED
  BY <1>5, <1>6, <1>7

LEMMA StorageNextInv == StorageInv /\ [StorageNext]_storageVars => StorageInv'
<1> SUFFICES ASSUME StorageInv, [StorageNext]_storageVars PROVE StorageInv'
  OBVIOUS
<1>1. CASE StorageNext
  BY <1>1, StartInv, SetInv, ReloadInv, SettingInv, SaveInv, WriteEntryInv, WriteChecksumInv,
     LoseRamInv DEF StorageNext
<1>2. CASE UNCHANGED storageVars
  BY <1>2 DEF storageVars, ram, eeprom, storageHistory, sinceStart, StorageTypeOK, FetchedAsked,
     ImageWritten, CrcOfSaved, SaveDurable, Valid, InLimits, AmplitudeAsked
<1> QED
  BY <1>1, <1>2
(* What the EEPROM gives back is what a whole SAVE left, it takes no       *)
(* parameter out of its limits, and no amplitude comes from it             *)
(* (param_save.cpp, inverter_main.cpp:272).                                *)
THEOREM StorageInvariant ==
  StorageSpec => [](StorageTypeOK /\ StorageSafe)
<1>1. StorageInv => StorageTypeOK /\ StorageSafe
  BY DEF StorageSafe
<1> HIDE DEF StorageInv
<1> QED
  BY <1>1, StorageInitInv, StorageNextInv, PTL DEF StorageSpec

(* Wherever a SAVE was cut short, a start or a LOAD takes over one saved   *)
(* state as a whole or none (param_save.cpp:120-125).                      *)
LEMMA LoadTakesWhole ==
  ASSUME StorageInv, NEW v \in [Indices -> Words]
  PROVE  parm_load(v) = v \/ \E s \in snapshots : parm_load(v) = Merge(v, s)
  BY ValidIsSaved DEF parm_load

(* Whatever word the supply fails at, a start or a LOAD takes over one     *)
(* saved state as a whole, or nothing of the block (param_save.cpp).       *)
THEOREM LoadsAreWhole == StorageSpec => RestoredWhole
<1> DEFINE Whole ==
      \/ power' = "off"
      \/ \E p \in Indices : \A q \in Indices \ {p} : values'[q] = values[q]
      \/ values' = Standstill(LoadDefaults(values))
      \/ values' = LoadDefaults(values)
      \/ \E s \in snapshots :
            values' \in {Merge(values, s), Standstill(Merge(LoadDefaults(values), s))}
<1>1. StorageInv /\ [StorageNext]_storageVars => [Whole]_values
  <2> SUFFICES ASSUME StorageInv, StorageNext, values' # values PROVE Whole
    BY DEF storageVars, ram
  <2>1. values \in [Indices -> Words] /\ LoadDefaults(values) \in [Indices -> Words]
    BY DefaultsKeep DEF StorageTypeOK
  <2>2. CASE Start
    <3>1. values' = Standstill(parm_load(LoadDefaults(values)))
      BY <2>2 DEF Start
    <3> QED
      BY <2>1, <3>1, LoadTakesWhole
  <2>3. CASE \E p \in Indices, v \in Words : Set(p, v)
    BY <2>1, <2>3 DEF Set
  <2>4. CASE Load
    <3>1. values' = parm_load(values)
      BY <2>4 DEF Load
    <3> QED
      BY <2>1, <3>1, LoadTakesWhole
  <2>5. CASE Defaults
    BY <2>5 DEF Defaults
  <2>6. CASE Pass \/ Fetch \/ Derive \/ Save \/ WriteEntry \/ WriteChecksum
    BY <2>6 DEF Pass, Fetch, Derive, Save, WriteEntry, WriteChecksum, ram
  <2>7. CASE Reset \/ PowerCut
    BY <2>7 DEF Reset, PowerCut, LoseRam
  <2> QED
    BY <2>2, <2>3, <2>4, <2>5, <2>6, <2>7 DEF StorageNext
<1>2. RestoredWhole <=> [][Whole]_values
  BY DEF RestoredWhole
<1> HIDE DEF StorageInv, Whole
<1> QED
  BY <1>1, <1>2, StorageInitInv, StorageNextInv, PTL DEF StorageSpec
(* While Param::Change is at work: a value main has fetched is still the   *)
(* database's, and what it has derived already follows it.                 *)
Following ==
  /\ power = "off" => refresh = {} /\ fetched = {} /\ ~derived
  /\ power # "off" /\ ~overtaken =>
        /\ \A f \in fetched : f[2] = values[f[1]]
        /\ \A p \in Bulk \ refresh :
              derived \/ p \in AtStart \/ refresh \cap Bulk # {} => inUse[p] = values[p]

(* An SDO write derives all settings of the default case anew.             *)
LEMMA SetFollows ==
  ASSUME StorageTypeOK, Following, NEW p \in Indices, NEW v \in Words, Set(p, v)
  PROVE  Following'
<1> USE Constants
<1>1. values \in [Indices -> Words] /\ inUse \in [Indices -> Words]
  BY DEF StorageTypeOK
<1>2. CASE v \in Allowed
  <2>1. /\ power = "loop" /\ UNCHANGED <<power, refresh, fetched>>
        /\ values' = [values EXCEPT ![p] = v] /\ inUse' = Change(p, values', inUse)
        /\ derived' = (derived \/ p \in Bulk) /\ overtaken' = (overtaken \/ fetched # {})
    BY <1>2 DEF Set
  <2>2. CASE p \in Bulk
    <3>1. \A q \in Bulk : inUse'[q] = values'[q]
      BY <1>1, <2>1, <2>2 DEF Change
    <3> QED
      BY <2>1, <3>1 DEF Following
  <2>3. CASE p \notin Bulk
    <3>1. \A q \in Bulk : inUse'[q] = inUse[q] /\ values'[q] = values[q]
      BY <1>1, <2>1, <2>3 DEF Change
    <3> QED
      BY <2>1, <2>3, <3>1 DEF Following
  <2> QED
    BY <2>2, <2>3
<1>3. CASE v \notin Allowed
  BY <1>3 DEF Set, Following, sinceStart
<1> QED
  BY <1>2, <1>3

(* What is derived when a parameter changes is derived from it.            *)
LEMMA DeriveFollows ==
  ASSUME StorageTypeOK, Following, Derive
  PROVE  Following'
<1> USE Constants
<1>1. inUse \in [Indices -> Words] /\ fetched \subseteq refresh \X Words /\ refresh \subseteq Indices
  BY DEF StorageTypeOK
<1>2. PICK f \in fetched : /\ inUse' = [inUse EXCEPT ![f[1]] = f[2]] /\ refresh' = refresh \ {f[1]}
                           /\ derived' = (derived \/ (f[1] \in Bulk /\ refresh' = {}))
  BY DEF Derive
<1>3. fetched' = {} /\ UNCHANGED <<power, values, overtaken>>
  BY DEF Derive
<1>4. f[1] \in refresh /\ power # "off"
  BY <1>1, <1>2 DEF Following
<1>5. ASSUME ~overtaken, NEW p \in Bulk, p \notin refresh',
             derived' \/ p \in AtStart \/ refresh' \cap Bulk # {}
      PROVE  inUse'[p] = values[p]
  <2>1. f[2] = values[f[1]]
    BY <1>2, <1>4, <1>5 DEF Following
  <2>2. CASE p = f[1]
    BY <1>1, <1>2, <1>4, <2>1, <2>2
  <2>3. CASE p # f[1]
    <3>1. p \notin refresh /\ (derived \/ p \in AtStart \/ refresh \cap Bulk # {})
      BY <1>2, <1>4, <1>5, <2>3
    <3>2. inUse[p] = values[p]
      BY <1>4, <1>5, <3>1 DEF Following
    <3> QED
      BY <1>1, <1>2, <2>3, <3>2
  <2> QED
    BY <2>2, <2>3
<1> QED
  BY <1>3, <1>4, <1>5 DEF Following

(* Every step keeps settings and parameters together.                      *)
LEMMA NextFollows ==
  ASSUME StorageTypeOK, Following, [StorageNext]_storageVars
  PROVE  Following'
<1> USE Constants
<1>1. CASE Start
  <2>2. /\ inUse' = [p \in Indices |->
                       IF p \in AtStart \cup {Amp, Slip} THEN values'[p] ELSE inUse[p]]
        /\ power = "off" /\ power' = "loop" /\ UNCHANGED <<refresh, fetched, storageHistory>>
    BY <1>1 DEF Start
  <2>3. refresh = {} /\ fetched = {} /\ ~derived
    BY <2>2 DEF Following
  <2> QED
    BY <2>2, <2>3 DEF Following, storageHistory, sinceStart
<1>2. CASE \E p \in Indices, v \in Words : Set(p, v)
  BY <1>2, SetFollows
<1>3. CASE Load \/ Defaults
  <2>1. /\ power = "loop" /\ refresh' = Bulk /\ fetched' = fetched
        /\ UNCHANGED <<power, storageHistory>> /\ refresh = {}
    BY <1>3 DEF Load, Defaults, Idle, DerivedTogether
  <2>2. fetched = {}
    BY <2>1 DEF StorageTypeOK
  <2> QED
    BY <2>1, <2>2 DEF Following
<1>4. CASE Pass
  <2>1. /\ power = "loop" /\ refresh = {} /\ refresh' = {Amp, Slip}
        /\ UNCHANGED <<power, values, inUse, fetched, storageHistory>>
    BY <1>4 DEF Pass, Idle
  <2>2. refresh' \cap Bulk = {} /\ \A p \in Bulk : p \notin refresh'
    BY <2>1 DEF Bulk
  <2> QED
    BY <2>1, <2>2 DEF Following, storageHistory, sinceStart
<1>5. CASE Fetch
  <2>1. /\ \E p \in refresh : fetched' = {<<p, values[p]>>}
        /\ UNCHANGED <<power, values, inUse, refresh, storageHistory>>
    BY <1>5 DEF Fetch
  <2> QED
    BY <2>1 DEF Following, storageHistory, sinceStart
<1>6. CASE Derive
  BY <1>6, DeriveFollows
<1>7. CASE Save \/ WriteEntry \/ WriteChecksum
  <2>1. /\ UNCHANGED <<values, inUse, refresh, fetched, derived, overtaken>>
        /\ power # "off" /\ power' # "off"
    BY <1>7 DEF Save, Idle, WriteEntry, WriteChecksum, ram, storageHistory, sinceStart
  <2> QED
    BY <2>1 DEF Following
<1>8. CASE Reset \/ PowerCut
  BY <1>8 DEF Reset, PowerCut, LoseRam, Following
<1>9. CASE UNCHANGED storageVars
  BY <1>9 DEF storageVars, ram, storageHistory, sinceStart, Following
<1> QED
  BY <1>1, <1>2, <1>3, <1>4, <1>5, <1>6, <1>7, <1>8, <1>9 DEF StorageNext

(* After Param::Change the settings in use are the database's, wherever an *)
(* SDO write came, unless it came between a read and its use               *)
(* (inverter_main.cpp:89-205).                                             *)
THEOREM SettingsFollowParameters == StorageSpec => []SettingsFollow
<1>1. StorageInit => Following
  BY DEF StorageInit, Following
<1>2. StorageInv => StorageTypeOK
  OBVIOUS
<1>3. Following => SettingsFollow
  BY DEF Following, SettingsFollow
<1> HIDE DEF StorageInv
<1> QED
  BY <1>1, <1>2, <1>3, StorageInitInv, StorageNextInv, NextFollows, PTL DEF StorageSpec

HIDE DEF StorageInv

-------------------------------------------------------------------------------
(* The oil pump: whose answer its status is, and who notices that it is    *)
(* silent or hot.                                                          *)

USE DEF MaxPumpSpeed, Flow, Extra, SpeedId, StatusIds

(* Every frame on the bus, by its kind.                                    *)
Headers == {Header(id): id \in 0..Extra}
Frames == Headers \cup Answers \cup {Garbled}
Shows == Answers \cup {Fallback(id): id \in StatusIds}

(* The kinds of frames tell them apart.                                    *)
LEMMA Kinds ==
    /\ \A a \in Answers : a.what = "answer" /\ a.id \in StatusIds /\ a.temp \in Int
    /\ \A h \in Headers : h.what = "header"
    /\ Garbled.what = "garbled" /\ Garbled \in Frames
    /\ \A f \in Frames : f.what = "answer" => f \in Answers
    /\ \A i, j \in 0..Extra : Header(i) = Header(j) => i = j
    /\ \A i \in 0..Extra : Header(i) \in Headers
<1>1. ASSUME NEW a \in Answers PROVE a.what = "answer" /\ a.id \in StatusIds /\ a.temp \in Int
  <2>1. CASE \E t \in Temps : a = Answer(Flow, t)
    BY <2>1, OilAssumption DEF Answer
  <2>2. CASE \E id \in StatusIds \ {Flow} : a = Answer(id, 0)
    BY <2>2 DEF Answer
  <2> QED
    BY <2>1, <2>2 DEF Answers
<1>2. \A h \in Headers : h.what = "header"
  BY DEF Headers, Header
<1>3. Garbled.what = "garbled" /\ Garbled \in Frames
  BY DEF Garbled, Frames
<1>4. \A f \in Frames : f.what = "answer" => f \in Answers
  BY <1>2, <1>3 DEF Frames
<1>5. \A i, j \in 0..Extra : Header(i) = Header(j) => i = j
  BY DEF Header
<1>6. \A i \in 0..Extra : Header(i) \in Headers
  BY DEF Headers
<1> QED
  BY <1>1, <1>2, <1>3, <1>4, <1>5, <1>6

(* What a spot value shows.                                                *)
LEMMA Fallbacks ==
    /\ \A s \in Shows : s.id \in StatusIds /\ s.temp \in Int /\ s # NoPid
    /\ \A id \in StatusIds : Fallback(id) \in Shows /\ Fallback(id).id = id
<1>1. ASSUME NEW s \in {Fallback(id): id \in StatusIds} PROVE s.id \in StatusIds /\ s.temp \in Int
  BY OilAssumption DEF Fallback, Answer
<1>2. \A s \in Shows : s # NoPid
  BY NoPidAssumption DEF Shows
<1>3. \A id \in StatusIds : Fallback(id).id = id
  BY DEF Fallback, Answer
<1> QED
  BY <1>1, <1>2, <1>3, Kinds DEF Shows

(* Within its range the controller's speed grows with the temperature.     *)
LEMMA Portion ==
    ASSUME NEW a \in Nat, NEW b \in Nat, NEW k \in Nat, a <= b, b > 0
    PROVE  (a * k) \div b \in 0..k
<1>1. a * k \in Nat /\ b * k \in Nat /\ a * k <= b * k
  OBVIOUS
<1> DEFINE n == a * k
           q == n \div b
<1>2. n \in Nat /\ n <= b * k
  BY <1>1
<1> HIDE DEF n
<1>3. q \in Int /\ q >= 0 /\ b * q <= n
  BY <1>2
<1>4. b * q <= b * k
  BY <1>1, <1>2, <1>3
<1>5. q <= k
  <2> HIDE DEF q
  <2> QED
    BY <1>3, <1>4
<1> QED
  BY <1>3, <1>5 DEF n

(* Above the range the speed is the greatest.                              *)
LEMMA SpeedInRange ==
    ASSUME NEW t \in Int, NEW low \in Int, low <= tmpoilhigh
    PROVE  /\ ComputePumpSpeed(t, low) \in 0..MaxPumpSpeed
           /\ t >= tmpoilhigh => ComputePumpSpeed(t, low) = MaxPumpSpeed
<1>1. tmpoilhigh \in Int /\ pumpspeed \in 0..MaxPumpSpeed
  BY OilAssumption
<1>2. CASE t >= tmpoilhigh \/ t <= low
  BY <1>1, <1>2 DEF ComputePumpSpeed
<1>3. CASE ~(t >= tmpoilhigh \/ t <= low)
  <2> DEFINE a == t - low
             b == tmpoilhigh - low
             k == MaxPumpSpeed - pumpspeed
  <2>1. a \in Nat /\ b \in Nat /\ k \in Nat /\ a <= b /\ b > 0
    BY <1>1, <1>3
  <2>2. ComputePumpSpeed(t, low) = pumpspeed + (a * k) \div b
    BY <1>1, <1>3 DEF ComputePumpSpeed
  <2> HIDE DEF a, b
  <2>3. (a * k) \div b \in 0..k
    BY <2>1, Portion
  <2> QED
    BY <1>1, <1>3, <2>1, <2>2, <2>3
<1> QED
  BY <1>2, <1>3

(* An answer is second in the buffer, whatever was asked.                  *)
Holds == Len(buffer) >= 2 /\ buffer[2] \in Answers

(* Ticks since the last header was sent; ticks of hot oil until the next   *)
(* speed request is to ask for full speed.                                 *)
SinceHeader == IF tickCount = 0 THEN MaxLoopTicks - 5
               ELSE IF tickCount <= 5 THEN 0 ELSE tickCount - 5
HotTicks == IF tickCount = 0 THEN MaxLoopTicks + 10 ELSE tickCount + 10

OilRanges ==
    /\ tickCount \in 0..(MaxLoopTicks - 1) /\ count \in 0..9
    /\ ticksSinceLastResponse \in 0..(StatusTimeout + 1)
    /\ shown \in [StatusIds -> Shows \cup {NoPid}]
    /\ m_currentSpeed \in 0..MaxPumpSpeed /\ sentSpeed \in 0..MaxPumpSpeed
    /\ posted \in BOOLEAN
    /\ awaited \in StatusIds \cup {SpeedId, NoPid} /\ late \in Answers \cup {NoPid}
    /\ silence \in Nat /\ quiet \in Nat /\ hot \in Nat

(* What is on the bus: while a request is awaited, its header only.        *)
OnTheBus ==
    /\ buffer \in Seq(Frames)
    /\ awaited # NoPid => buffer = <<Header(awaited)>>

(* An answer stays in the buffer until the next header; the ticks that     *)
(* are counted without one keep up with the pump's silence.                *)
SilenceCounted ==
    /\ Holds => silence <= SinceHeader
    /\ ticksSinceLastResponse <= StatusTimeout =>
         silence <= ticksSinceLastResponse + MaxLoopTicks - 5
    /\ ticksSinceLastResponse = StatusTimeout + 1 =>
         posted /\ \A id \in StatusIds: shown[id] = Fallback(id)

(* They do not run ahead of the ticks since the pump answered in time.     *)
QuietCounted == Received = {} => ticksSinceLastResponse <= quiet

(* Hot oil: in the buffer, then in the spot value, the speed, the request. *)
HotFollowed ==
    /\ late # NoPid => hot = 0
    /\ hot > 0 /\ Flow \in Received => buffer[2].temp >= tmpoilhigh
    /\ hot = 1 => Flow \in Received
    /\ hot > 1 => shown[Flow] # NoPid /\ shown[Flow].temp >= tmpoilhigh
    /\ hot > 0 /\ m_currentSpeed # MaxPumpSpeed => count + 1 >= hot
    /\ hot > 0 /\ m_currentSpeed = MaxPumpSpeed /\ sentSpeed # MaxPumpSpeed
         => hot <= HotTicks

Pumped == OilRanges /\ OnTheBus /\ OwnAnswers /\ SilenceCounted /\ QuietCounted /\ HotFollowed

(* The constants, one by one.                                              *)
LEMMA Sizes ==
    /\ MaxLoopTicks \in Nat /\ MaxLoopTicks >= 10 /\ StatusTimeout \in Nat
    /\ tmpoillow \in Int /\ tmpoilhigh \in Int /\ NoPid \notin Int
    /\ Smaller(tmpoillow, tmpoilhigh) \in Int /\ Smaller(tmpoillow, tmpoilhigh) <= tmpoilhigh
<1>1. /\ MaxLoopTicks \in Nat /\ MaxLoopTicks >= 10 /\ StatusTimeout \in Nat
      /\ tmpoillow \in Int /\ tmpoilhigh \in Int /\ NoPid \notin Int
  BY OilAssumption
<1> QED
  BY <1>1 DEF Smaller

(* What is received is an answer to its own request.                       *)
LEMMA ReceivedIs ==
    ASSUME buffer \in Seq(Frames)
    PROVE  /\ \A id \in Received : Len(buffer) >= 2 /\ buffer[1] = Header(id) /\ buffer[2].id = id
           /\ Received # {} => Holds
           /\ \A i, j \in Received : i = j
<1>1. ASSUME NEW id \in Received
      PROVE  Len(buffer) >= 2 /\ buffer[1] = Header(id) /\ buffer[2].id = id
             /\ buffer[2].what = "answer" /\ id \in StatusIds
  BY DEF Received, HasReceived, ChecksumFits
<1>2. Received # {} => Holds
  <2> SUFFICES ASSUME NEW id \in Received PROVE Holds
    OBVIOUS
  <2>1. Len(buffer) >= 2 /\ buffer[2].what = "answer"
    BY <1>1
  <2>2. buffer[2] \in Frames
    BY <2>1
  <2> QED
    BY <2>1, <2>2, Kinds DEF Holds
<1> QED
  BY <1>1, <1>2, Kinds

(* At first nothing was asked.                                             *)
LEMMA OilInitPumped == OilInit => Pumped
<1> SUFFICES ASSUME OilInit PROVE Pumped
  OBVIOUS
<1>1. OilRanges
  <2>1. 0 \in 0..(MaxLoopTicks - 1) /\ 0 \in 0..(StatusTimeout + 1)
    BY Sizes
  <2>2. shown \in [StatusIds -> Shows \cup {NoPid}]
    BY DEF OilInit
  <2>3. /\ tickCount = 0 /\ count = 0 /\ ticksSinceLastResponse = 0
        /\ m_currentSpeed = 0 /\ sentSpeed = 0 /\ posted = FALSE
        /\ awaited = NoPid /\ late = NoPid
        /\ silence = 0 /\ quiet = 0 /\ hot = 0
    BY DEF OilInit
  <2>4. posted \in BOOLEAN
    BY <2>3
  <2>5. /\ tickCount \in 0..(MaxLoopTicks - 1) /\ count \in 0..9
        /\ ticksSinceLastResponse \in 0..(StatusTimeout + 1)
        /\ m_currentSpeed \in 0..MaxPumpSpeed /\ sentSpeed \in 0..MaxPumpSpeed
        /\ silence \in Nat /\ quiet \in Nat /\ hot \in Nat
    BY <2>1, <2>3
  <2>6. awaited \in StatusIds \cup {SpeedId, NoPid} /\ late \in Answers \cup {NoPid}
    BY <2>3
  <2> QED
    BY <2>2, <2>4, <2>5, <2>6, Zenon DEF OilRanges
<1>2. Len(buffer) = 0 /\ buffer \in Seq(Frames)
  BY DEF OilInit
<1>3. Received = {} /\ ~Holds
  BY <1>2 DEF Received, HasReceived, Holds
<1>4. OnTheBus /\ OwnAnswers
  BY <1>2 DEF OilInit, OnTheBus, OwnAnswers
<1>5. SilenceCounted
  <2>1. ticksSinceLastResponse = 0 /\ silence = 0
    BY DEF OilInit
  <2> QED
    BY <1>3, <2>1, Sizes DEF SilenceCounted
<1>6. QuietCounted /\ HotFollowed
  BY DEF OilInit, QuietCounted, HotFollowed
<1> QED
  BY <1>1, <1>4, <1>5, <1>6 DEF Pumped

(* A tick of the task, with the report it may make.                        *)
LEMMA TickPumped ==
    ASSUME Pumped, Tick
    PROVE  Pumped' /\ (posted' /\ ~posted => quiet >= StatusTimeout)
<1> DEFINE ticks == IF Received = {} THEN ticksSinceLastResponse ELSE 0
           spot == ProcessStatusResponse(shown)
           L == MaxLoopTicks
           S == StatusTimeout
           low == Smaller(tmpoillow, tmpoilhigh)
<1>1. /\ awaited = NoPid
      /\ IF tickCount \in 0..4 THEN buffer' = <<Header(tickCount)>> /\ awaited' = tickCount
         ELSE UNCHANGED <<buffer, awaited>>
      /\ sentSpeed' = IF tickCount = 0 THEN m_currentSpeed ELSE sentSpeed
      /\ tickCount' = (tickCount + 1) % L
      /\ ticksSinceLastResponse' = Elapsed(ticks)
      /\ IF ticks = S
         THEN shown' = [id \in StatusIds |-> Fallback(id)] /\ posted' = TRUE
         ELSE shown' = spot /\ UNCHANGED posted
      /\ count' = (count + 1) % 10
      /\ m_currentSpeed' = IF count + 1 = 10 THEN ComputePumpSpeed(tmpoil(shown'), low)
                           ELSE m_currentSpeed
      /\ silence' = Smaller(silence + 1, S + 2 * L)
      /\ quiet' = Smaller(quiet + 1, S + 2 * L)
      /\ hot' = IF ticks = S \/ hot = 0 THEN 0 ELSE Smaller(hot + 1, 3 * L)
      /\ late' = late
  <2>1. \A k \in Nat : k \in {SpeedId} \cup StatusIds <=> k \in 0..4
    OBVIOUS
  <2>2. tickCount \in Nat
    BY Sizes DEF Pumped, OilRanges
  <2> QED
    BY <2>1, <2>2 DEF Tick, Request
<1>2. OilRanges /\ OnTheBus /\ OwnAnswers
  BY DEF Pumped
<1>3. /\ tickCount' \in 0..(L - 1) /\ count' \in 0..9
      /\ tickCount' = IF tickCount = L - 1 THEN 0 ELSE tickCount + 1
      /\ count' = IF count = 9 THEN 0 ELSE count + 1
  BY <1>1, <1>2, Sizes DEF OilRanges
<1>4. /\ \A id \in Received : buffer[2] \in Answers /\ buffer[2].id = id
      /\ Received # {} => Holds
  BY <1>2, ReceivedIs DEF OnTheBus, Holds
<1>5. /\ spot \in [StatusIds -> Shows \cup {NoPid}]
      /\ \A id \in StatusIds : spot[id] = IF id \in Received THEN buffer[2] ELSE shown[id]
  BY <1>2, <1>4 DEF ProcessStatusResponse, OilRanges, Shows
<1>6. shown' \in [StatusIds -> Shows \cup {NoPid}]
  BY <1>1, <1>5, Fallbacks
<1>7. ticks \in 0..(S + 1) /\ ticksSinceLastResponse' \in 0..(S + 1)
      /\ ticksSinceLastResponse' = IF ticks <= S THEN ticks + 1 ELSE ticks
  BY <1>1, <1>2, Sizes DEF OilRanges, Elapsed
<1>8. tmpoil(shown') \in Int
  BY <1>6, Fallbacks DEF tmpoil
<1>9. m_currentSpeed' \in 0..MaxPumpSpeed /\ sentSpeed' \in 0..MaxPumpSpeed
  BY <1>1, <1>2, <1>8, SpeedInRange, Sizes DEF OilRanges
<1>10. /\ silence' \in Nat /\ quiet' \in Nat /\ hot' \in Nat
       /\ silence' <= silence + 1 /\ hot' <= hot + 1 /\ quiet' >= 1
       /\ quiet' = quiet + 1 \/ quiet' >= S + 1
       /\ hot' > 0 => hot > 0 /\ hot' > 1 /\ ticks # S
  BY <1>1, <1>2, Sizes DEF OilRanges, Smaller
<1>11. awaited' \in StatusIds \cup {SpeedId, NoPid} /\ late' \in Answers \cup {NoPid}
  BY <1>1, <1>2 DEF OilRanges
<1>12. posted' \in BOOLEAN
  BY <1>1, <1>2 DEF OilRanges
<1>13. OilRanges'
  BY <1>3, <1>6, <1>7, <1>9, <1>10, <1>11, <1>12 DEF OilRanges
<1>14. /\ tickCount \in 0..4 => buffer' = <<Header(tickCount)>> /\ Len(buffer') = 1
       /\ tickCount \notin 0..4 => UNCHANGED <<buffer, awaited>>
  BY <1>1
<1>15. OnTheBus'
  <2>1. CASE tickCount \in 0..4
    <3>1. Header(tickCount) \in Frames
      BY <2>1, Kinds DEF Frames
    <3>2. buffer' = <<Header(tickCount)>> /\ awaited' = tickCount
      BY <1>1, <2>1
    <3>3. buffer' \in Seq(Frames)
      BY <3>1, <3>2
    <3> QED
      BY <3>2, <3>3 DEF OnTheBus
  <2>2. CASE tickCount \notin 0..4
    BY <1>2, <1>14, <2>2 DEF OnTheBus
  <2> QED
    BY <2>1, <2>2
<1>16. OwnAnswers'
  <2>1. CASE ticks = S
    BY <1>1, <2>1, Fallbacks DEF OwnAnswers
  <2>2. CASE ticks # S
    BY <1>1, <1>2, <1>4, <1>5, <2>2 DEF OwnAnswers
  <2> QED
    BY <2>1, <2>2
<1>17. Holds' => Holds /\ tickCount > 4 /\ buffer' = buffer
  BY <1>2, <1>14 DEF Holds, OilRanges
<1>18. Received' \subseteq Received
  <2>1. CASE tickCount \in 0..4
    <3>1. Len(buffer') = 1
      BY <1>14, <2>1
    <3>2. Received' = {}
      BY <3>1 DEF Received, HasReceived
    <3> QED
      BY <3>2
  <2>2. CASE tickCount \notin 0..4
    <3>1. buffer' = buffer
      BY <1>14, <2>2
    <3> QED
      BY <3>1 DEF Received, HasReceived
  <2> QED
    BY <2>1, <2>2
<1> HIDE DEF spot
<1>19. SilenceCounted'
  <2>1. Holds' => silence' <= SinceHeader'
    <3>1. Holds' => silence <= SinceHeader /\ tickCount > 4
      BY <1>17 DEF Pumped, SilenceCounted
    <3>2. tickCount > 4 => SinceHeader' = SinceHeader + 1
      BY <1>2, <1>3, Sizes DEF SinceHeader, OilRanges
    <3>3. SinceHeader \in Int /\ silence \in Nat
      BY <1>2, Sizes DEF SinceHeader, OilRanges
    <3> QED
      BY <1>10, <3>1, <3>2, <3>3
  <2>2. ASSUME ticksSinceLastResponse' <= S
        PROVE  silence' <= ticksSinceLastResponse' + L - 5
    <3>1. ticks <= S /\ ticksSinceLastResponse' = ticks + 1
      BY <1>7, <2>2, Sizes
    <3>2. CASE Received = {}
      <4>1. silence <= ticksSinceLastResponse + L - 5 /\ ticks = ticksSinceLastResponse
        BY <3>1, <3>2 DEF Pumped, SilenceCounted
      <4> QED
        BY <1>2, <1>10, <3>1, <4>1, Sizes DEF OilRanges
    <3>3. CASE Received # {}
      <4>1. silence <= SinceHeader /\ ticks = 0
        BY <1>4, <3>3 DEF Pumped, SilenceCounted
      <4>2. SinceHeader <= L - 5 /\ SinceHeader \in Int
        BY <1>2, Sizes DEF SinceHeader, OilRanges
      <4> QED
        BY <1>2, <1>10, <3>1, <4>1, <4>2, Sizes DEF OilRanges
    <3> QED
      BY <3>2, <3>3
  <2>3. ASSUME ticksSinceLastResponse' = S + 1
        PROVE  posted' /\ \A id \in StatusIds: shown'[id] = Fallback(id)
    <3>1. ticks = S \/ ticks = S + 1
      BY <1>7, <2>3, Sizes
    <3>2. CASE ticks = S
      BY <1>1, <3>2
    <3>3. CASE ticks = S + 1
      <4>1. Received = {} /\ ticksSinceLastResponse = S + 1 /\ ticks # S
        BY <3>3, Sizes
      <4>2. posted /\ \A id \in StatusIds: shown[id] = Fallback(id)
        BY <4>1 DEF Pumped, SilenceCounted
      <4> QED
        BY <1>1, <1>5, <4>1, <4>2
    <3> QED
      BY <3>1, <3>2, <3>3
  <2> QED
    BY <2>1, <2>2, <2>3 DEF SilenceCounted
<1>20. QuietCounted'
  <2>1. CASE Received = {}
    <3>1. ticksSinceLastResponse <= quiet /\ ticks = ticksSinceLastResponse
      BY <2>1 DEF Pumped, QuietCounted
    <3> QED
      BY <1>2, <1>7, <1>10, <3>1, Sizes DEF QuietCounted, OilRanges
  <2>2. CASE Received # {}
    <3>1. ticks = 0 /\ ticksSinceLastResponse' = 1
      BY <1>7, <2>2, Sizes
    <3> QED
      BY <1>10, <3>1 DEF QuietCounted
  <2> QED
    BY <2>1, <2>2
<1>21. posted' /\ ~posted => quiet >= S
  <2> SUFFICES ASSUME posted', ~posted PROVE quiet >= S
    OBVIOUS
  <2>1. ticks = S
    BY <1>1
  <2>2. CASE Received = {}
    BY <1>2, <2>1, <2>2, Sizes DEF Pumped, QuietCounted, OilRanges
  <2>3. CASE Received # {}
    BY <1>2, <2>1, <2>3, Sizes DEF OilRanges
  <2> QED
    BY <2>2, <2>3
<1>22. HotFollowed'
  <2>1. /\ late # NoPid => hot = 0
        /\ hot > 0 /\ Flow \in Received => buffer[2].temp >= tmpoilhigh
        /\ hot = 1 => Flow \in Received
        /\ hot > 1 => shown[Flow] # NoPid /\ shown[Flow].temp >= tmpoilhigh
        /\ hot > 0 /\ m_currentSpeed # MaxPumpSpeed => count + 1 >= hot
        /\ hot > 0 /\ m_currentSpeed = MaxPumpSpeed /\ sentSpeed # MaxPumpSpeed
             => hot <= HotTicks
    BY DEF Pumped, HotFollowed
  <2>2. CASE ~(hot' > 0)
    BY <1>10, <2>2 DEF HotFollowed
  <2>3. CASE hot' > 0
    <3>1. hot > 0 /\ hot' > 1 /\ ticks # S /\ late' = NoPid /\ hot \in Nat
      BY <1>1, <1>2, <1>10, <2>1, <2>3 DEF OilRanges
    <3>2. shown'[Flow] # NoPid /\ shown'[Flow].temp >= tmpoilhigh
      <4>1. shown'[Flow] = IF Flow \in Received THEN buffer[2] ELSE shown[Flow]
        BY <1>1, <1>5, <3>1
      <4>2. CASE Flow \in Received
        <5>1. buffer[2] \in Answers /\ buffer[2] \in Shows
          BY <1>4, <4>2 DEF Shows
        <5> QED
          BY <2>1, <3>1, <4>1, <4>2, <5>1, Fallbacks
      <4>3. CASE Flow \notin Received
        <5>1. hot > 1
          BY <2>1, <3>1, <4>3
        <5> QED
          BY <2>1, <4>1, <4>3, <5>1
      <4> QED
        BY <4>2, <4>3
    <3>3. count = 9 => m_currentSpeed' = MaxPumpSpeed
      <4>1. tmpoil(shown') = shown'[Flow].temp
        BY <3>2 DEF tmpoil
      <4> QED
        BY <1>1, <1>8, <3>2, <4>1, SpeedInRange, Sizes
    <3>4. Flow \in Received' => buffer'[2].temp >= tmpoilhigh
      <4> SUFFICES ASSUME Flow \in Received' PROVE buffer'[2].temp >= tmpoilhigh
        OBVIOUS
      <4>1. Flow \in Received
        BY <1>18
      <4>2. buffer' = buffer
        <5>1. Len(buffer') # 1
          BY DEF Received, HasReceived
        <5> QED
          BY <1>14, <5>1
      <4> QED
        BY <2>1, <3>1, <4>1, <4>2
    <3>7. hot' \in Nat /\ hot \in Nat /\ hot' <= hot + 1
      BY <1>10, <3>1
    <3>5. m_currentSpeed' # MaxPumpSpeed => count' + 1 >= hot'
      <4> SUFFICES ASSUME m_currentSpeed' # MaxPumpSpeed PROVE count' + 1 >= hot'
        OBVIOUS
      <4> HIDE DEF L, S, ticks
      <4>1. count # 9 /\ m_currentSpeed # MaxPumpSpeed
        <5>1. count # 9
          BY <3>3
        <5> QED
          BY <1>1, <1>2, <5>1 DEF OilRanges
      <4>2. count + 1 >= hot /\ count' = count + 1 /\ count \in Nat
        BY <1>2, <1>3, <2>1, <3>1, <4>1 DEF OilRanges
      <4> QED
        BY <3>7, <4>2
    <3>6. m_currentSpeed' = MaxPumpSpeed /\ sentSpeed' # MaxPumpSpeed => hot' <= HotTicks'
      <4> HIDE DEF L, S, ticks
      <4> SUFFICES ASSUME m_currentSpeed' = MaxPumpSpeed, sentSpeed' # MaxPumpSpeed
                   PROVE  hot' <= HotTicks'
        OBVIOUS
      <4>1. HotTicks' \in Nat /\ HotTicks' >= 11 /\ HotTicks \in Nat
        BY <1>2, <1>3, Sizes DEF HotTicks, OilRanges
      <4>2. CASE m_currentSpeed # MaxPumpSpeed
        <5>1. count + 1 >= hot /\ count <= 9 /\ count \in Nat
          BY <1>2, <2>1, <3>1, <4>2 DEF OilRanges
        <5>2. hot' <= 11
          BY <3>7, <5>1
        <5> QED
          BY <3>7, <4>1, <5>2
      <4>3. CASE m_currentSpeed = MaxPumpSpeed
        <5>1. tickCount # 0 /\ sentSpeed # MaxPumpSpeed
          BY <1>1, <4>3
        <5>2. hot <= HotTicks
          BY <2>1, <3>1, <4>3, <5>1
        <5>3. HotTicks' = HotTicks + 1
          <6>1. tickCount \in 0..(MaxLoopTicks - 1)
            BY <1>2 DEF OilRanges
          <6>2. tickCount' = IF tickCount = MaxLoopTicks - 1 THEN 0 ELSE tickCount + 1
            BY <1>3 DEF L
          <6>3. CASE tickCount = MaxLoopTicks - 1
            BY <5>1, <6>1, <6>2, <6>3, Sizes DEF HotTicks
          <6>4. CASE tickCount # MaxLoopTicks - 1
            BY <5>1, <6>1, <6>2, <6>4, Sizes DEF HotTicks
          <6> QED
            BY <6>3, <6>4
        <5> QED
          BY <3>7, <3>1, <4>1, <5>2, <5>3
      <4> QED
        BY <4>2, <4>3
    <3> QED
      BY <3>1, <3>2, <3>4, <3>5, <3>6 DEF HotFollowed
  <2> QED
    BY <1>10, <2>2, <2>3
<1> QED
  BY <1>13, <1>15, <1>16, <1>19, <1>20, <1>21, <1>22 DEF Pumped

(* Short buffers.                                                          *)
LEMMA Singles ==
    ASSUME NEW x, NEW y
    PROVE  <<x>> \o <<>> = <<x>> /\ <<x>> \o <<y>> = <<x, y>>
<1>1. <<x>> \in Seq({x, y}) /\ <<y>> \in Seq({x, y}) /\ <<x, y>> \in Seq({x, y})
  OBVIOUS
<1>2. Len(<<x>> \o <<y>>) = 2 /\ (<<x>> \o <<y>>)[1] = x /\ (<<x>> \o <<y>>)[2] = y
      /\ <<x>> \o <<y>> \in Seq({x, y})
  BY <1>1, ConcatProperties
<1>3. <<x>> \o <<y>> = <<x, y>>
  <2> DEFINE s == <<x>> \o <<y>>
             t == <<x, y>>
  <2>1. s \in Seq({x, y}) /\ t \in Seq({x, y}) /\ Len(s) = 2 /\ Len(t) = 2
        /\ s[1] = x /\ s[2] = y /\ t[1] = x /\ t[2] = y
    BY <1>1, <1>2
  <2> HIDE DEF s, t
  <2>2. \A i \in 1 .. Len(s) : s[i] = t[i]
    BY <2>1
  <2>3. s = t
    BY <2>1, <2>2, SeqEqual
  <2> QED
    BY <2>3 DEF s, t
<1> QED
  BY <1>1, <1>3, ConcatEmptySeq

(* What comes later does not change what was received first.               *)
Longer(s, t) == Len(s) >= 2 => Len(t) >= 2 /\ t[1] = s[1] /\ t[2] = s[2]

LEMMA Prefixed ==
    ASSUME NEW S, NEW s \in Seq(S), NEW t \in Seq(S)
    PROVE  s \o t \in Seq(S) /\ Longer(s, s \o t)
  BY ConcatProperties, LenProperties DEF Longer

(* What a step of the pump may do to all that is counted.                  *)
LEMMA PumpEffects ==
    ASSUME Pumped, Pump
    PROVE  /\ awaited' = NoPid /\ UNCHANGED <<pump, sentSpeed>>
           /\ buffer' \in Seq(Frames) /\ late' \in Answers \cup {NoPid}
           /\ silence' \in Nat /\ quiet' \in Nat /\ hot' \in Nat
           /\ silence' = 0 \/ (silence' = silence /\ (Holds' => Holds))
           /\ Received' # {} \/ (quiet' = quiet /\ Received = {})
           /\ late' # NoPid => hot' = 0
           /\ hot' > 0 /\ Flow \in Received' => buffer'[2].temp >= tmpoilhigh
           /\ hot' = 1 => Flow \in Received'
           /\ hot' > 1 => hot' = hot
<1> USE Kinds, Sizes
<1>1. /\ awaited \in StatusIds \cup {SpeedId, NoPid} /\ late \in Answers \cup {NoPid}
      /\ silence \in Nat /\ quiet \in Nat /\ hot \in Nat
      /\ buffer \in Seq(Frames)
      /\ awaited # NoPid => buffer = <<Header(awaited)>>
      /\ late # NoPid => hot = 0
      /\ hot = 1 => Flow \in Received
  BY DEF Pumped, OilRanges, OnTheBus, HotFollowed
<1>2. awaited' = NoPid /\ UNCHANGED <<pump, sentSpeed>>
  BY DEF Pump
<1>3. Delayed \in Seq(Frames)
  <2>1. late # NoPid => late \in Frames
    BY <1>1 DEF Frames
  <2>2. <<>> \in Seq(Frames) /\ (late # NoPid => <<late>> \in Seq(Frames))
    BY <2>1
  <2> QED
    BY <2>2 DEF Delayed
<1>4. awaited # NoPid => Len(buffer) = 1 /\ Received = {} /\ ~Holds /\ hot # 1
  <2>1. awaited # NoPid => Len(buffer) = 1
    BY <1>1
  <2>2. Len(buffer) = 1 => Received = {}
    BY DEF Received, HasReceived
  <2>3. Len(buffer) = 1 => ~Holds
    BY DEF Holds
  <2> QED
    BY <1>1, <2>1, <2>2, <2>3
<1>5. ASSUME NEW a \in Answers, AnswerInTime(a), late = NoPid
      PROVE  /\ buffer' \in Seq(Frames) /\ late' = NoPid
             /\ silence' = 0 /\ quiet' = 0 /\ hot' \in Nat
             /\ Received' = {a.id} /\ buffer'[2] = a
             /\ a.id # Flow => hot' = hot /\ hot # 1
             /\ a.id = Flow /\ hot' > 0 => a.temp >= tmpoilhigh
             /\ hot' > 1 => hot' = hot
  <2>1. awaited \in StatusIds /\ a.id = awaited /\ buffer = <<Header(awaited)>> /\ Delayed = <<>>
    BY <1>1, <1>5, OilAssumption DEF AnswerInTime, Delayed
  <2>2. buffer' = <<Header(awaited), a>>
    <3>1. buffer' = buffer \o Delayed \o <<a>>
      BY <1>5 DEF AnswerInTime
    <3> QED
      BY <2>1, <3>1, Singles
  <2>3. buffer' \in Seq(Frames)
    BY <2>1, <2>2 DEF Frames
  <2>4. Len(buffer') = 2 /\ buffer'[1] = Header(a.id) /\ buffer'[2] = a
    BY <2>1, <2>2
  <2>5. Received' = {a.id}
    <3>1. \A id \in StatusIds : HasReceived(id)' <=> id = a.id
      BY <2>1, <2>4 DEF HasReceived, ChecksumFits
    <3> QED
      BY <2>1, <3>1 DEF Received
  <2>6. /\ late' = NoPid /\ silence' = 0 /\ quiet' = 0
        /\ hot' = IF a.id # Flow THEN hot
                  ELSE IF a.temp >= tmpoilhigh THEN IF hot = 0 THEN 1 ELSE hot ELSE 0
    BY <1>5 DEF AnswerInTime
  <2>7. hot # 1
    BY <1>4, <2>1, OilAssumption
  <2> QED
    BY <1>1, <2>3, <2>4, <2>5, <2>6, <2>7
<1>6. ASSUME NEW a \in Answers, \/ AnswerInTime(a) /\ late # NoPid
                                \/ AnswerLate(a)
      PROVE  /\ buffer' \in Seq(Frames) /\ late' \in Answers \cup {NoPid}
             /\ silence' = 0 /\ quiet' = quiet /\ hot' = 0 /\ Received = {}
  <2>1. awaited # NoPid
    BY <1>6, OilAssumption DEF AnswerInTime, AnswerLate
  <2>2. a \in Frames /\ <<a>> \in Seq(Frames)
    BY DEF Frames
  <2>3. buffer' = buffer \o Delayed \o <<a>> \/ buffer' = buffer \o Delayed
    BY <1>6 DEF AnswerInTime, AnswerLate
  <2>4. buffer' \in Seq(Frames)
    <3>1. buffer \o Delayed \in Seq(Frames)
      BY <1>1, <1>3, ConcatProperties
    <3>2. buffer \o Delayed \o <<a>> \in Seq(Frames)
      BY <2>2, <3>1, ConcatProperties
    <3> QED
      BY <2>3, <3>1, <3>2
  <2>5. late' \in Answers \cup {NoPid} /\ silence' = 0
    BY <1>6 DEF AnswerInTime, AnswerLate
  <2>6. quiet' = quiet
    BY <1>6 DEF AnswerInTime, AnswerLate
  <2>7. hot' = 0
    BY <1>1, <1>6 DEF AnswerInTime, AnswerLate
  <2> QED
    BY <1>4, <2>1, <2>4, <2>5, <2>6, <2>7
<1>7. ASSUME NoAnswer, late = NoPid
      PROVE  /\ buffer' \in Seq(Frames) /\ late' = NoPid
             /\ UNCHANGED <<silence, quiet, hot>> /\ Received = {} /\ Received' = {}
             /\ ~Holds' /\ hot # 1
  <2>1. awaited # NoPid
    BY <1>7 DEF Pump
  <2>2. Delayed = <<>>
    BY <1>7 DEF Delayed
  <2>3. buffer' = <<Header(awaited)>> \/ buffer' = <<Header(awaited), Garbled>>
    <3>1. buffer = <<Header(awaited)>> /\ buffer \o <<>> = buffer
      BY <1>1, <2>1, ConcatEmptySeq
    <3>2. buffer' = buffer \o <<>> \/ buffer' = buffer \o <<>> \o <<Garbled>>
      BY <1>7, <2>2 DEF NoAnswer
    <3> QED
      BY <3>1, <3>2, Singles
  <2>4. Header(awaited) \in Frames /\ Garbled \in Frames
    BY <1>1, <2>1 DEF Frames
  <2>5. buffer' \in Seq(Frames)
    <3>1. <<Header(awaited)>> \in Seq(Frames) /\ <<Header(awaited), Garbled>> \in Seq(Frames)
      BY <2>4
    <3> QED
      BY <2>3, <3>1
  <2>6. Len(buffer') = 1 \/ (Len(buffer') = 2 /\ buffer'[2] = Garbled)
    BY <2>3
  <2>7. Received' = {}
    BY <2>6 DEF Received, HasReceived, ChecksumFits
  <2>8. ~Holds'
    BY <2>6 DEF Holds
  <2>9. late' = NoPid /\ UNCHANGED <<silence, quiet, hot>>
    BY <1>7 DEF NoAnswer
  <2> QED
    BY <1>4, <2>1, <2>5, <2>7, <2>8, <2>9
<1>8. ASSUME NoAnswer, late # NoPid
      PROVE  /\ buffer' \in Seq(Frames) /\ late' = NoPid
             /\ silence' = 0 /\ quiet' = quiet /\ hot' = 0
             /\ Received # {} => Received' # {}
  <2>1. <<Garbled>> \in Seq(Frames)
    OBVIOUS
  <2>2. /\ buffer \o Delayed \in Seq(Frames)
        /\ Longer(buffer, buffer \o Delayed)
    BY <1>1, <1>3, Prefixed
  <2>3. /\ buffer \o Delayed \o <<Garbled>> \in Seq(Frames)
        /\ Longer(buffer \o Delayed, buffer \o Delayed \o <<Garbled>>)
    BY <2>1, <2>2, Prefixed
  <2>4. buffer' \in Seq(Frames) /\ Longer(buffer, buffer')
    <3>1. buffer' = buffer \o Delayed \/ buffer' = buffer \o Delayed \o <<Garbled>>
      BY <1>8 DEF NoAnswer
    <3> QED
      BY <2>2, <2>3, <3>1 DEF Longer
  <2>5. Received # {} => Received' # {}
    <3> SUFFICES ASSUME NEW id \in Received PROVE id \in Received'
      OBVIOUS
    <3> QED
      BY <2>4 DEF Received, HasReceived, ChecksumFits, Longer
  <2>6. late' = NoPid /\ silence' = 0 /\ hot' = 0 /\ quiet' = quiet
    BY <1>8 DEF NoAnswer
  <2> QED
    BY <2>4, <2>5, <2>6
<1>9. (\E a \in Answers: AnswerInTime(a) \/ AnswerLate(a)) \/ NoAnswer
  BY DEF Pump
<1> HIDE Kinds, Sizes
<1>10. CASE \E a \in Answers: AnswerInTime(a) /\ late = NoPid
  <2> PICK a \in Answers: AnswerInTime(a) /\ late = NoPid
    BY <1>10
  <2>1. /\ buffer' \in Seq(Frames) /\ late' = NoPid
        /\ silence' = 0 /\ quiet' = 0 /\ hot' \in Nat
        /\ Received' = {a.id} /\ buffer'[2] = a
        /\ a.id # Flow => hot' = hot /\ hot # 1
        /\ a.id = Flow /\ hot' > 0 => a.temp >= tmpoilhigh
        /\ hot' > 1 => hot' = hot
    BY <1>5
  <2> QED
    BY <1>2, <2>1
<1>11. CASE \E a \in Answers: (AnswerInTime(a) /\ late # NoPid) \/ AnswerLate(a)
  <2>1. /\ buffer' \in Seq(Frames) /\ late' \in Answers \cup {NoPid}
        /\ silence' = 0 /\ quiet' = quiet /\ hot' = 0 /\ Received = {}
    BY <1>6, <1>11
  <2> QED
    BY <1>1, <1>2, <2>1
<1>12. CASE NoAnswer /\ late = NoPid
  <2>1. /\ buffer' \in Seq(Frames) /\ late' = NoPid
        /\ UNCHANGED <<silence, quiet, hot>> /\ Received = {} /\ Received' = {}
        /\ ~Holds' /\ hot # 1
    BY <1>7, <1>12
  <2> QED
    BY <1>1, <1>2, <2>1
<1>13. CASE NoAnswer /\ late # NoPid
  <2>1. /\ buffer' \in Seq(Frames) /\ late' = NoPid
        /\ silence' = 0 /\ quiet' = quiet /\ hot' = 0
        /\ Received # {} => Received' # {}
    BY <1>8, <1>13
  <2> QED
    BY <1>1, <1>2, <2>1
<1> QED
  BY <1>9, <1>10, <1>11, <1>12, <1>13

(* So it keeps the invariant and reports nothing.                          *)
LEMMA PumpPumped ==
    ASSUME Pumped, Pump
    PROVE  Pumped' /\ posted' = posted
<1>1. /\ awaited' = NoPid
      /\ UNCHANGED <<tickCount, count, ticksSinceLastResponse, shown, m_currentSpeed, posted, sentSpeed>>
      /\ buffer' \in Seq(Frames) /\ late' \in Answers \cup {NoPid}
      /\ silence' \in Nat /\ quiet' \in Nat /\ hot' \in Nat
      /\ silence' = 0 \/ (silence' = silence /\ (Holds' => Holds))
      /\ Received' # {} \/ (quiet' = quiet /\ Received = {})
      /\ late' # NoPid => hot' = 0
      /\ hot' > 0 /\ Flow \in Received' => buffer'[2].temp >= tmpoilhigh
      /\ hot' = 1 => Flow \in Received'
      /\ hot' > 1 => hot' = hot
  BY PumpEffects DEF pump
<1>2. OilRanges' /\ OnTheBus' /\ OwnAnswers'
  BY <1>1 DEF Pumped, OilRanges, OnTheBus, OwnAnswers
<1>3. SilenceCounted'
  <2>1. SinceHeader' = SinceHeader /\ SinceHeader \in Nat
    BY <1>1, Sizes DEF SinceHeader, Pumped, OilRanges
  <2>2. Holds' => silence' <= SinceHeader'
    BY <1>1, <2>1 DEF Pumped, SilenceCounted
  <2>3. ticksSinceLastResponse' <= StatusTimeout =>
          silence' <= ticksSinceLastResponse' + MaxLoopTicks - 5
    BY <1>1, Sizes DEF Pumped, SilenceCounted, OilRanges
  <2>4. ticksSinceLastResponse' = StatusTimeout + 1 =>
         posted' /\ \A id \in StatusIds: shown'[id] = Fallback(id)
    BY <1>1 DEF Pumped, SilenceCounted
  <2> QED
    BY <2>2, <2>3, <2>4 DEF SilenceCounted
<1>4. QuietCounted'
  BY <1>1 DEF Pumped, QuietCounted
<1>5. HotFollowed'
  <2>1. hot' > 0 /\ m_currentSpeed' # MaxPumpSpeed => count' + 1 >= hot'
    BY <1>1 DEF Pumped, HotFollowed, OilRanges
  <2>2. HotTicks' = HotTicks /\ HotTicks \in Nat /\ HotTicks >= 1
    BY <1>1, Sizes DEF HotTicks, Pumped, OilRanges
  <2>3. hot' > 0 /\ m_currentSpeed' = MaxPumpSpeed /\ sentSpeed' # MaxPumpSpeed
          => hot' <= HotTicks'
    BY <1>1, <2>2 DEF Pumped, HotFollowed, OilRanges
  <2>4. hot' > 1 => shown'[Flow] # NoPid /\ shown'[Flow].temp >= tmpoilhigh
    BY <1>1 DEF Pumped, HotFollowed
  <2> QED
    BY <1>1, <2>1, <2>3, <2>4 DEF HotFollowed
<1> QED
  BY <1>1, <1>2, <1>3, <1>4, <1>5 DEF Pumped

(* Every step keeps the invariant.                                         *)
LEMMA OilNextPumped ==
    ASSUME Pumped, [OilNext]_oilVars
    PROVE  Pumped' /\ (posted' /\ ~posted => quiet >= StatusTimeout)
<1>1. CASE Tick
  BY <1>1, TickPumped
<1>2. CASE Pump
  BY <1>2, PumpPumped
<1>3. CASE UNCHANGED oilVars
  <2>1. UNCHANGED <<tickCount, count, ticksSinceLastResponse, shown, m_currentSpeed, posted,
                    buffer, sentSpeed, awaited, late, silence, quiet, hot>>
    BY <1>3 DEF oilVars, pump
  <2>2. Received' = Received /\ Holds' = Holds /\ SinceHeader' = SinceHeader /\ HotTicks' = HotTicks
    BY <2>1 DEF Received, HasReceived, ChecksumFits, Holds, SinceHeader, HotTicks
  <2> QED
    BY <2>1, <2>2 DEF Pumped, OilRanges, OnTheBus, OwnAnswers, SilenceCounted, QuietCounted,
                      HotFollowed
<1> QED
  BY <1>1, <1>2, <1>3 DEF OilNext

(* The invariant is strong enough.                                         *)
LEMMA PumpedHolds == Pumped => OilTypeOK /\ OwnAnswers /\ SilenceNoticed /\ HotOilPumped
<1> SUFFICES ASSUME Pumped PROVE OilTypeOK /\ OwnAnswers /\ SilenceNoticed /\ HotOilPumped
  OBVIOUS
<1>1. OilRanges /\ SilenceCounted /\ HotFollowed /\ OwnAnswers
  BY DEF Pumped
<1>2. OilTypeOK
  <2>1. {m_currentSpeed, sentSpeed} \subseteq 0..MaxPumpSpeed
    BY <1>1 DEF OilRanges
  <2> QED
    BY <1>1, <2>1, Zenon DEF OilRanges, OilTypeOK, Shows
<1>3. SilenceNoticed
  <2> SUFFICES ASSUME silence > StatusTimeout + MaxLoopTicks
               PROVE  ticksSinceLastResponse = StatusTimeout + 1
    BY <1>1 DEF SilenceNoticed, SilenceCounted
  <2>1. ticksSinceLastResponse \in 0..(StatusTimeout + 1) /\ silence \in Nat
    BY <1>1 DEF OilRanges
  <2>2. ticksSinceLastResponse <= StatusTimeout =>
         silence <= ticksSinceLastResponse + MaxLoopTicks - 5
    BY <1>1 DEF SilenceCounted
  <2> QED
    BY <2>1, <2>2, Sizes
<1>4. HotOilPumped
  <2> SUFFICES ASSUME hot > 2 * MaxLoopTicks, sentSpeed # MaxPumpSpeed PROVE FALSE
    BY DEF HotOilPumped
  <2>1. HotTicks \in Nat /\ HotTicks <= 10 + MaxLoopTicks /\ hot \in Nat /\ count \in 0..9
    BY <1>1, Sizes DEF HotTicks, OilRanges
  <2>2. m_currentSpeed # MaxPumpSpeed => count + 1 >= hot
    BY <2>1, Sizes, <1>1 DEF HotFollowed
  <2>3. m_currentSpeed = MaxPumpSpeed
    BY <2>1, <2>2, Sizes
  <2>4. hot <= HotTicks
    BY <1>1, <2>1, <2>3, Sizes DEF HotFollowed
  <2> QED
    BY <2>1, <2>4, Sizes
<1> QED
  BY <1>1, <1>2, <1>3, <1>4

(* Spot values are set from answers to their own request, whatever is      *)
(* garbled or lost on the bus and also when an answer comes after the next *)
(* header (c2000_lin.cpp, teslam3oilpump.cpp:188-207).                     *)
THEOREM PumpOwnAnswers == OilSpec => []OwnAnswers
<1>1. OilSpec => []Pumped
  BY OilInitPumped, OilNextPumped, PTL DEF OilSpec
<1> QED
  BY <1>1, PumpedHolds, PTL

(* The counters of the pump's task stay below their bounds, its speed in   *)
(* its range, and every spot value is an answer, a fallback or nothing.    *)
THEOREM OilTyped == OilSpec => []OilTypeOK
<1>1. OilSpec => []Pumped
  BY OilInitPumped, OilNextPumped, PTL DEF OilSpec
<1> QED
  BY <1>1, PumpedHolds, PTL

(* A silent pump is reported, and no pump that answers is; hot oil is      *)
(* pumped at full speed in time: for every length of the round from ten    *)
(* ticks on and every timeout (teslam3oilpump.cpp, oiltempcontroller.cpp). *)
THEOREM PumpIsWatched == OilSpec => PumpWatched
<1>1. Pumped /\ [OilNext]_oilVars => [posted' /\ ~posted => quiet >= StatusTimeout]_oilVars
  BY OilNextPumped
<1>2. OilSpec => []Pumped
  BY OilInitPumped, OilNextPumped, PTL DEF OilSpec
<1>3. Pumped => SilenceNoticed /\ HotOilPumped
  BY PumpedHolds
<1> QED
  BY <1>1, <1>2, <1>3, PTL DEF OilSpec, PumpWatched, NoFalseAlarm

HIDE DEF MaxPumpSpeed, Flow, Extra, SpeedId, StatusIds

-------------------------------------------------------------------------------
(* The gate drivers: that they run only when they are set up, and are      *)
(* given up only when the SPI was disturbed.                               *)

(* The lengths of the two tables.                                          *)
N == Len(Setup)
M == Len(StatusRegs)

(* Frames by what they are for. *)
Writes(i) == [cmd |-> "WRITE", to |-> Setup[i]]
Data(i) == [cmd |-> "DATA", to |-> Setup[i]]
Reads(i) == [cmd |-> "READ", reg |-> Setup[i].reg]
Asks(i) == [cmd |-> "NOP", value |-> Setup[i].value, chips |-> Setup[i].chips]
ReadsStatus(j) == [cmd |-> "READ", reg |-> StatusRegs[j]]
AsksStatus == [cmd |-> "NOP", value |-> 0, chips |-> Chips]

(* What is known of them.                                                  *)
LEMMA Tables ==
  /\ N \in Nat /\ N > 0 /\ M \in Nat /\ M > 0
  /\ DOMAIN Setup = 1..N /\ DOMAIN StatusRegs = 1..M
  /\ \A i \in 1..N : /\ Setup[i] \in [reg: STRING, value: Nat, chips: SUBSET Chips]
                     /\ Setup[i].reg \in Regs /\ Setup[i].value \in Nat /\ Setup[i].chips \subseteq Chips
  /\ \A j \in 1..M : StatusRegs[j] \notin Regs
  /\ \A i, j \in 1..N : Setup[i].reg = Setup[j].reg /\ Setup[i].chips \cap Setup[j].chips # {}
              => Setup[i].value = Setup[j].value
<1>1. /\ Setup \in Seq([reg: STRING, value: Nat, chips: SUBSET Chips]) /\ Len(Setup) > 0
      /\ StatusRegs \in Seq(STRING) /\ Len(StatusRegs) > 0
  BY GateAssumption
<1>2. /\ N \in Nat /\ N > 0 /\ DOMAIN Setup = 1..N
      /\ \A i \in 1..N : Setup[i] \in [reg: STRING, value: Nat, chips: SUBSET Chips]
  <2>1. ASSUME NEW S, NEW s \in Seq(S)
        PROVE  Len(s) \in Nat /\ DOMAIN s = 1..Len(s) /\ \A i \in 1..Len(s) : s[i] \in S
    OBVIOUS
  <2> QED
    BY <1>1, <2>1, Zenon DEF N
<1>3. M \in Nat /\ M > 0 /\ DOMAIN StatusRegs = 1..M
  BY <1>1 DEF M
<1>4. \A i \in 1..N : Setup[i].reg \in Regs /\ Setup[i].value \in Nat /\ Setup[i].chips \subseteq Chips
  BY <1>2 DEF Regs
<1>5. \A j \in 1..M : StatusRegs[j] \notin Regs
  <2>1. \A i \in DOMAIN Setup: \A j \in DOMAIN StatusRegs: Setup[i].reg # StatusRegs[j]
    BY GateAssumption
  <2> QED
    BY <1>3, <2>1 DEF Regs
<1>6. \A i, j \in DOMAIN Setup : Setup[i].reg = Setup[j].reg /\ Setup[i].chips \cap Setup[j].chips # {}
              => Setup[i].value = Setup[j].value
  BY GateAssumption
<1> QED
  BY <1>2, <1>3, <1>4, <1>5, <1>6

(* The frames of one entry stand one behind the other. *)
LEMMA Halves ==
  \A i \in Nat : i >= 1 => /\ (2 * i) \div 2 = i /\ (2 * i + 1) \div 2 = i
                           /\ (2 * i - 1) % 2 = 1 /\ (2 * i) % 2 = 0
<1>1. \A i \in Nat : (2 * i) \div 2 = i
  OBVIOUS
<1>2. \A i \in Nat : (2 * i + 1) \div 2 = i
  OBVIOUS
<1>3. \A i \in Nat : (2 * i) % 2 = 0
  OBVIOUS
<1>4. \A i \in Nat : i >= 1 => (2 * i - 1) % 2 = 1
  OBVIOUS
<1> QED
  BY <1>1, <1>2, <1>3, <1>4

(* Two frames of each entry, and where they stand.                         *)
Interleaved(n, p, f) == \A k \in 1..(2 * n) : f[k] = p[(k + 1) \div 2][2 - (k % 2)]
InPairs(n, p, f) == \A i \in 1..n : f[2 * i - 1] = p[i][1] /\ f[2 * i] = p[i][2]

(* The frames of an entry stand one behind the other.                      *)
LEMMA Pairs ==
  ASSUME NEW n \in Nat, NEW p, NEW f, Interleaved(n, p, f)
  PROVE  InPairs(n, p, f)
<1>2. ASSUME NEW i \in 1..n PROVE f[2 * i - 1] = p[i][1] /\ f[2 * i] = p[i][2]
  <2>1. 2 * i - 1 \in 1..(2 * n) /\ 2 * i \in 1..(2 * n) /\ (2 * i - 1) + 1 = 2 * i /\ i \in Nat /\ i >= 1
    OBVIOUS
  <2>2. (2 * i) \div 2 = i /\ (2 * i + 1) \div 2 = i /\ (2 * i - 1) % 2 = 1 /\ (2 * i) % 2 = 0
    BY <2>1, Halves
  <2>3. f[2 * i - 1] = p[((2 * i - 1) + 1) \div 2][2 - ((2 * i - 1) % 2)]
    BY <2>1 DEF Interleaved
  <2>4. f[2 * i] = p[(2 * i + 1) \div 2][2 - ((2 * i) % 2)]
    BY <2>1 DEF Interleaved
  <2>5. ((2 * i - 1) + 1) \div 2 = i
    BY <2>1, <2>2
  <2>6. 2 - ((2 * i - 1) % 2) = 1 /\ 2 - ((2 * i) % 2) = 2
    BY <2>2
  <2> QED
    BY <2>2, <2>3, <2>4, <2>5, <2>6, Zenon
<1> QED
  BY <1>2 DEF InPairs

(* The frames of the set-up table.                                         *)
WriteFrames == Each(WriteRegister, Setup)
VerifyFrames == Each(VerifySetup, Setup)

(* Each belongs to an entry.                                               *)
LEMMA HalfOf ==
  ASSUME NEW n \in Nat, NEW k \in 1..(2 * n) PROVE (k + 1) \div 2 \in 1..n
OBVIOUS

(* Which frame is where: when registers are written,                       *)
LEMMA WriteFramesAre ==
  /\ WriteFrames = [k \in 1..(2 * N) |-> WriteFrames[k]]
  /\ \A i \in 1..N : WriteFrames[2 * i - 1] = Writes(i) /\ WriteFrames[2 * i] = Data(i)
<1> DEFINE p == [i \in 1..N |-> WriteRegister(Setup[i])]
<1>1. N \in Nat
  BY Tables
<1>2. WriteFrames = [k \in 1..(2 * N) |-> WriteRegister(Setup[(k + 1) \div 2])[2 - (k % 2)]]
  BY DEF WriteFrames, Each, N
<1>3. WriteFrames = [k \in 1..(2 * N) |-> p[(k + 1) \div 2][2 - (k % 2)]]
  BY <1>1, <1>2, HalfOf
<1>4. \A i \in 1..N : p[i][1] = Writes(i) /\ p[i][2] = Data(i)
  BY DEF WriteRegister, Writes, Data
<1> HIDE DEF p
<1>5. \A i \in 1..N : WriteFrames[2 * i - 1] = p[i][1] /\ WriteFrames[2 * i] = p[i][2]
  <2>1. Interleaved(N, p, WriteFrames)
    BY <1>3 DEF Interleaved
  <2>2. InPairs(N, p, WriteFrames)
    BY <1>1, <2>1, Pairs, Zenon
  <2> QED
    BY <2>2 DEF InPairs
<1> QED
  BY <1>2, <1>4, <1>5

(* when they are read back,                                                *)
LEMMA VerifyFramesAre ==
  /\ VerifyFrames = [k \in 1..(2 * N) |-> VerifyFrames[k]]
  /\ \A i \in 1..N : VerifyFrames[2 * i - 1] = Reads(i) /\ VerifyFrames[2 * i] = Asks(i)
<1> DEFINE p == [i \in 1..N |-> VerifySetup(Setup[i])]
<1>1. N \in Nat
  BY Tables
<1>2. VerifyFrames = [k \in 1..(2 * N) |-> VerifySetup(Setup[(k + 1) \div 2])[2 - (k % 2)]]
  BY DEF VerifyFrames, Each, N
<1>3. VerifyFrames = [k \in 1..(2 * N) |-> p[(k + 1) \div 2][2 - (k % 2)]]
  BY <1>1, <1>2, HalfOf
<1>4. \A i \in 1..N : p[i][1] = Reads(i) /\ p[i][2] = Asks(i)
  BY DEF VerifySetup, Reads, Asks
<1> HIDE DEF p
<1>5. \A i \in 1..N : VerifyFrames[2 * i - 1] = p[i][1] /\ VerifyFrames[2 * i] = p[i][2]
  <2>1. Interleaved(N, p, VerifyFrames)
    BY <1>3 DEF Interleaved
  <2>2. InPairs(N, p, VerifyFrames)
    BY <1>1, <2>1, Pairs, Zenon
  <2> QED
    BY <2>2 DEF InPairs
<1> QED
  BY <1>2, <1>4, <1>5

(* and when the status is read.                                            *)
LEMMA StatusFramesAre ==
  /\ StatusFrames = [k \in 1..(2 * M) |-> StatusFrames[k]]
  /\ \A j \in 1..M : StatusFrames[2 * j - 1] = ReadsStatus(j) /\ StatusFrames[2 * j] = AsksStatus
<1> DEFINE p == [j \in 1..M |-> VerifyStatus(StatusRegs[j])]
<1>1. M \in Nat
  BY Tables
<1>2. StatusFrames = [k \in 1..(2 * M) |-> VerifyStatus(StatusRegs[(k + 1) \div 2])[2 - (k % 2)]]
  BY DEF StatusFrames, Each, M
<1>3. StatusFrames = [k \in 1..(2 * M) |-> p[(k + 1) \div 2][2 - (k % 2)]]
  BY <1>1, <1>2, HalfOf
<1>4. \A j \in 1..M : p[j][1] = ReadsStatus(j) /\ p[j][2] = AsksStatus
  BY DEF VerifyStatus, ReadsStatus, AsksStatus
<1> HIDE DEF p
<1>5. \A j \in 1..M : StatusFrames[2 * j - 1] = p[j][1] /\ StatusFrames[2 * j] = p[j][2]
  <2>1. Interleaved(M, p, StatusFrames)
    BY <1>3 DEF Interleaved
  <2>2. InPairs(M, p, StatusFrames)
    BY <1>1, <2>1, Pairs, Zenon
  <2> QED
    BY <2>2 DEF InPairs
<1> QED
  BY <1>2, <1>4, <1>5

(* Two sequences joined, place by place.                                   *)
LEMMA Joined ==
  ASSUME NEW m \in Nat, NEW n \in Nat, NEW f, NEW g,
         f = [k \in 1..m |-> f[k]], g = [k \in 1..n |-> g[k]]
  PROVE  f \o g = [k \in 1..(m + n) |-> IF k <= m THEN f[k] ELSE g[k - m]]
<1>1. Len(f) = m /\ Len(g) = n
  OBVIOUS
<1> QED
  BY <1>1

(* A round of Init, frame by frame. *)
LEMMA RoundIs ==
  /\ Round = [k \in 1..(4 * N + 3) |-> Round[k]]
  /\ Round[1] = [cmd |-> "RESET_STATUS"] /\ Round[2] = [cmd |-> "START_CONFIG"]
  /\ \A i \in 1..N : /\ Round[2 * i + 1] = Writes(i) /\ Round[2 * i + 2] = Data(i)
                     /\ Round[2 * N + 2 * i + 1] = Reads(i) /\ Round[2 * N + 2 * i + 2] = Asks(i)
  /\ Round[4 * N + 3] = [cmd |-> "STOP_CONFIG"]
<1>0. N \in Nat
  BY Tables
<1> DEFINE w == WriteFrames
           v == VerifyFrames
           a == [cmd |-> "RESET_STATUS"]
           b == [cmd |-> "START_CONFIG"]
           z == [cmd |-> "STOP_CONFIG"]
<1>1. Round = (((<<a>> \o <<b>>) \o w) \o v) \o <<z>>
  BY DEF Round, SetupGateDrivers, VerifyGateDriverConfig, Command, WriteFrames, VerifyFrames
<1>2. w = [k \in 1..(2 * N) |-> w[k]] /\ v = [k \in 1..(2 * N) |-> v[k]]
  BY WriteFramesAre, VerifyFramesAre
<1>3. \A i \in 1..N : w[2 * i - 1] = Writes(i) /\ w[2 * i] = Data(i) /\ v[2 * i - 1] = Reads(i) /\ v[2 * i] = Asks(i)
  BY WriteFramesAre, VerifyFramesAre
<1> HIDE DEF w, v, a, b, z
<1>4. <<a>> \o <<b>> = <<a, b>>
  BY Singles
<1>5. <<a, b>> \o w = [k \in 1..(2 * N + 2) |-> IF k <= 2 THEN (<<a, b>>)[k] ELSE w[k - 2]]
  <2>1. <<a, b>> = [k \in 1..2 |-> (<<a, b>>)[k]]
    OBVIOUS
  <2>2. 2 \in Nat /\ 2 * N \in Nat /\ 2 + 2 * N = 2 * N + 2
    BY <1>0
  <2> QED
    BY <1>2, <2>1, <2>2, Joined
<1> DEFINE c == <<a, b>> \o w
<1> HIDE DEF c
<1>6. c \o v = [k \in 1..(4 * N + 2) |-> IF k <= 2 * N + 2 THEN c[k] ELSE v[k - (2 * N + 2)]]
  <2>1. c = [k \in 1..(2 * N + 2) |-> c[k]]
    BY <1>5 DEF c
  <2>2. 2 * N \in Nat /\ 2 * N + 2 \in Nat /\ (2 * N + 2) + 2 * N = 4 * N + 2
    BY <1>0
  <2> QED
    BY <1>2, <2>1, <2>2, Joined
<1> DEFINE d == c \o v
<1> HIDE DEF d
<1>7. d \o <<z>> = [k \in 1..(4 * N + 3) |-> IF k <= 4 * N + 2 THEN d[k] ELSE (<<z>>)[k - (4 * N + 2)]]
  <2>1. d = [k \in 1..(4 * N + 2) |-> d[k]]
    BY <1>6 DEF d
  <2>2. <<z>> = [k \in 1..1 |-> (<<z>>)[k]]
    OBVIOUS
  <2>3. 4 * N + 2 \in Nat /\ 1 \in Nat /\ (4 * N + 2) + 1 = 4 * N + 3
    BY <1>0
  <2> QED
    BY <2>1, <2>2, <2>3, Joined
<1>8. Round = [k \in 1..(4 * N + 3) |-> IF k <= 4 * N + 2 THEN d[k] ELSE (<<z>>)[k - (4 * N + 2)]]
  BY <1>1, <1>4, <1>7, Zenon DEF c, d
<1>9. \A k \in 1..(4 * N + 2) : d[k] = IF k <= 2 * N + 2 THEN c[k] ELSE v[k - (2 * N + 2)]
  BY <1>6 DEF d
<1>10. \A k \in 1..(2 * N + 2) : c[k] = IF k <= 2 THEN (<<a, b>>)[k] ELSE w[k - 2]
  BY <1>5, Zenon DEF c
<1>11. Round[1] = a /\ Round[2] = b /\ Round[4 * N + 3] = z
  <2>1. 1 \in 1..(2 * N + 2) /\ 2 \in 1..(2 * N + 2) /\ 4 * N + 3 \in 1..(4 * N + 3)
        /\ ~(4 * N + 3 <= 4 * N + 2) /\ 1 <= 4 * N + 2 /\ 2 <= 4 * N + 2
        /\ (4 * N + 3) - (4 * N + 2) = 1
    BY <1>0
  <2>2. c[1] = a /\ c[2] = b
    BY <1>10, <2>1
  <2>3. d[1] = a /\ d[2] = b
    BY <1>0, <1>9, <2>2
  <2> QED
    BY <1>0, <1>8, <2>1, <2>3
<1>12. ASSUME NEW i \in 1..N
       PROVE  Round[2 * i + 1] = Writes(i) /\ Round[2 * i + 2] = Data(i)
  <2>1. /\ 2 * i + 1 \in 1..(2 * N + 2) /\ 2 * i + 1 > 2 /\ (2 * i + 1) - 2 = 2 * i - 1
        /\ 2 * i + 2 \in 1..(2 * N + 2) /\ 2 * i + 2 > 2 /\ (2 * i + 2) - 2 = 2 * i
    BY <1>0
  <2>2. c[2 * i + 1] = Writes(i) /\ c[2 * i + 2] = Data(i)
    BY <1>3, <1>10, <2>1
  <2>3. \A k \in 1..(2 * N + 2) : k \in 1..(4 * N + 2) /\ k \in 1..(4 * N + 3) /\ k <= 4 * N + 2 /\ k <= 2 * N + 2
    BY <1>0
  <2>4. \A k \in 1..(2 * N + 2) : Round[k] = c[k]
    BY <1>8, <1>9, <2>3
  <2> QED
    BY <2>1, <2>2, <2>4
<1>13. ASSUME NEW i \in 1..N
       PROVE  Round[2 * N + 2 * i + 1] = Reads(i) /\ Round[2 * N + 2 * i + 2] = Asks(i)
  <2>1. /\ (2 * N + 2 * i + 1) - (2 * N + 2) = 2 * i - 1 /\ (2 * N + 2 * i + 2) - (2 * N + 2) = 2 * i
        /\ 2 * N + 2 * i + 1 \in (2 * N + 3)..(4 * N + 2) /\ 2 * N + 2 * i + 2 \in (2 * N + 3)..(4 * N + 2)
    BY <1>0
  <2>2. \A k \in (2 * N + 3)..(4 * N + 2) : k \in 1..(4 * N + 2) /\ k \in 1..(4 * N + 3) /\ k <= 4 * N + 2 /\ ~(k <= 2 * N + 2)
    BY <1>0
  <2>3. \A k \in (2 * N + 3)..(4 * N + 2) : Round[k] = v[k - (2 * N + 2)]
    BY <1>8, <1>9, <2>2
  <2> QED
    BY <1>3, <2>1, <2>3
<1> QED
  BY <1>8, <1>11, <1>12, <1>13 DEF a, b, z
(* The chips, by their parts.                                              *)
Faults == {NoFault} \cup {StatusRegs[j]: j \in 1..M}
Values == Nat \cup {PowerUpValue, NoFrame}
Chip == [reg: [Regs -> Values], config: BOOLEAN, want: BOOLEAN, fault: Faults, answer: Values]

(* What a disturbed frame does to a chip. *)
LEMMA IgnoreDoes ==
  ASSUME NEW ch \in Chip
  PROVE  /\ Ignore(ch) \in Chip /\ Ignore(ch).reg = ch.reg /\ Ignore(ch).config = ch.config
         /\ Ignore(ch).fault = ch.fault /\ Ignore(ch).answer = NoFrame
BY DEF Ignore, Chip, Values

(* What a chip makes of each frame: it waits for the data,                 *)
LEMMA WritesDo ==
  ASSUME NEW c, NEW ch \in Chip, NEW i \in 1..N, NEW x, x = Obey(c, ch, Writes(i))
  PROVE  /\ x \in Chip /\ x.reg = ch.reg /\ x.config = ch.config
         /\ c \in Setup[i].chips => x.want = TRUE
BY DEF Obey, Chip, Writes

(* takes them if it is in configuration mode,                              *)
Loaded(i, c, ch, x) ==
  /\ x \in Chip /\ x.config = ch.config
  /\ \A r \in Regs : \/ x.reg[r] = ch.reg[r]
                     \/ c \in Setup[i].chips /\ r = Setup[i].reg /\ x.reg[r] = Setup[i].value
  /\ c \in Setup[i].chips /\ ch.want = TRUE /\ ch.config = TRUE => x.reg[Setup[i].reg] = Setup[i].value

LEMMA DataDo ==
  ASSUME NEW c, NEW ch \in Chip, NEW i \in 1..N, NEW x, x = Obey(c, ch, Data(i))
  PROVE  Loaded(i, c, ch, x)
<1>1. Setup[i].reg \in Regs /\ Setup[i].value \in Values
  BY Tables DEF Values
<1>2. ch \in [reg: [Regs -> Values], config: BOOLEAN, want: BOOLEAN, fault: Faults, answer: Values]
  BY DEF Chip
<1>3. Data(i).cmd = "DATA" /\ Data(i).to = Setup[i]
  BY DEF Data
<1>4. CASE c \in Setup[i].chips /\ ch.want /\ ch.config
  <2> DEFINE g == [ch.reg EXCEPT ![Setup[i].reg] = Setup[i].value]
  <2>1. x = [ch EXCEPT !.reg[Setup[i].reg] = Setup[i].value, !.want = FALSE]
    BY <1>3, <1>4 DEF Obey
  <2>2. x = [ch EXCEPT !.reg = g, !.want = FALSE]
    BY <1>2, <2>1
  <2>3. ch.reg \in [Regs -> Values]
    BY <1>2
  <2>4. g \in [Regs -> Values] /\ g[Setup[i].reg] = Setup[i].value
        /\ \A r \in Regs : g[r] = ch.reg[r] \/ (r = Setup[i].reg /\ g[r] = Setup[i].value)
    BY <1>1, <2>3
  <2> HIDE DEF g
  <2>5. x \in Chip /\ x.reg = g /\ x.config = ch.config
    BY <1>2, <2>2, <2>4 DEF Chip
  <2> QED
    BY <1>4, <2>4, <2>5 DEF Loaded
<1>5. CASE c \in Setup[i].chips /\ ~(ch.want /\ ch.config)
  <2>1. x = [ch EXCEPT !.want = FALSE]
    BY <1>3, <1>5 DEF Obey
  <2> QED
    BY <1>1, <1>2, <1>5, <2>1 DEF Chip, Loaded
<1>6. CASE c \notin Setup[i].chips
  <2>1. x = ch
    BY <1>3, <1>6 DEF Obey
  <2> QED
    BY <1>1, <1>2, <1>6, <2>1 DEF Chip, Loaded
<1> QED
  BY <1>4, <1>5, <1>6

(* reads a register in that mode only,                                     *)
LEMMA ReadsDo ==
  ASSUME NEW c, NEW ch \in Chip, NEW i \in 1..N, NEW x, x = Obey(c, ch, Reads(i))
  PROVE  /\ x \in Chip /\ x.reg = ch.reg /\ x.config = ch.config
         /\ x.answer = IF ch.config THEN ch.reg[Setup[i].reg] ELSE NoFrame
<1>1. Setup[i].reg \in Regs
  BY Tables
<1>2. x = [ch EXCEPT !.answer = ReadOf(ch, Setup[i].reg)]
  BY DEF Obey, Reads
<1>3. ReadOf(ch, Setup[i].reg) = IF ch.config THEN ch.reg[Setup[i].reg] ELSE NoFrame
  BY <1>1 DEF ReadOf
<1>4. ReadOf(ch, Setup[i].reg) \in Values
  BY <1>1, <1>3 DEF Chip, Values
<1> QED
  BY <1>2, <1>3, <1>4 DEF Chip

(* sends it,                                                               *)
LEMMA AsksDo ==
  ASSUME NEW c, NEW ch \in Chip, NEW i \in 1..N, NEW x, x = Obey(c, ch, Asks(i))
  PROVE  x \in Chip /\ x.reg = ch.reg /\ x.config = ch.config
BY DEF Obey, Chip, Asks, Values

(* and reads what fault it latched in any mode.                            *)
ReadBack(j, ch, x) ==
  /\ x \in Chip /\ x.reg = ch.reg /\ x.config = ch.config /\ x.fault = ch.fault
  /\ ch.fault = StatusRegs[j] => x.answer = 1

LEMMA ReadsStatusDo ==
  ASSUME NEW c, NEW ch \in Chip, NEW j \in 1..M, NEW x, x = Obey(c, ch, ReadsStatus(j))
  PROVE  ReadBack(j, ch, x)
<1>1. StatusRegs[j] \notin Regs
  BY Tables
<1>2. x = [ch EXCEPT !.answer = ReadOf(ch, StatusRegs[j])]
  BY DEF Obey, ReadsStatus
<1>3. ReadOf(ch, StatusRegs[j]) = IF ch.fault = StatusRegs[j] THEN 1 ELSE 0
  BY <1>1 DEF ReadOf
<1> QED
  BY <1>2, <1>3 DEF Chip, Values, ReadBack

LEMMA AsksStatusDo ==
  ASSUME NEW c, NEW ch \in Chip, NEW x, x = Obey(c, ch, AsksStatus)
  PROVE  x \in Chip /\ x.reg = ch.reg /\ x.config = ch.config /\ x.fault = ch.fault
BY DEF Obey, AsksStatus, Chip, Values

(* What frame k of the round makes of a chip, disturbed or not. *)
Effect(k, c, ch, x, bad) ==
  /\ x \in Chip
  /\ (\A i \in 1..N : k # 2 * i + 2) => x.reg = ch.reg
  /\ k # 4 * N + 3 /\ ch.config = TRUE => x.config = TRUE
  /\ k # 2 /\ x.config = TRUE => ch.config = TRUE
  /\ k = 2 /\ c \notin bad => x.config = TRUE
  /\ \A i \in 1..N : k = 2 * i + 1 /\ c \notin bad /\ c \in Setup[i].chips => x.want = TRUE
  /\ \A i \in 1..N : k = 2 * i + 2 =>
        /\ \A r \in Regs : \/ x.reg[r] = ch.reg[r]
                           \/ c \in Setup[i].chips /\ r = Setup[i].reg /\ x.reg[r] = Setup[i].value
        /\ c \notin bad /\ c \in Setup[i].chips /\ ch.want = TRUE /\ ch.config = TRUE
              => x.reg[Setup[i].reg] = Setup[i].value
  /\ \A i \in 1..N : k = 2 * N + 2 * i + 1 =>
        /\ x.answer \in {NoFrame, ch.reg[Setup[i].reg]}
        /\ c \notin bad /\ ch.config = TRUE => x.answer = ch.reg[Setup[i].reg]

(* Every frame of a round is one of these.                                 *)
LEMMA Positions ==
  ASSUME NEW k \in 1..(4 * N + 3)
  PROVE  \/ k = 1 \/ k = 2 \/ k = 4 * N + 3
         \/ \E i \in 1..N : \/ k = 2 * i + 1 \/ k = 2 * i + 2
                            \/ k = 2 * N + 2 * i + 1 \/ k = 2 * N + 2 * i + 2
<1>0. N \in Nat
  BY Tables
<1>1. PICK h \in Nat : k = 2 * h \/ k = 2 * h + 1
  <2>1. k \div 2 \in Nat /\ (k = 2 * (k \div 2) \/ k = 2 * (k \div 2) + 1)
    BY <1>0
  <2> QED
    BY <2>1
<1>2. CASE k = 2 * h
  <2>1. h = 1 \/ h - 1 \in 1..N \/ h - (N + 1) \in 1..N
    BY <1>0, <1>2
  <2>2. k = 2 * (h - 1) + 2 /\ k = 2 * N + 2 * (h - (N + 1)) + 2
    BY <1>0, <1>2
  <2> QED
    BY <1>2, <2>1, <2>2
<1>3. CASE k = 2 * h + 1
  <2>1. h = 0 \/ h \in 1..N \/ h - N \in 1..N \/ h = 2 * N + 1
    BY <1>0, <1>3
  <2>2. k = 2 * N + 2 * (h - N) + 1
    BY <1>0, <1>3
  <2> QED
    BY <1>0, <1>3, <2>1, <2>2
<1> QED
  BY <1>1, <1>2, <1>3

(* So that is what it makes of a chip.                                     *)
LEMMA RoundDoes ==
  ASSUME NEW k \in 1..(4 * N + 3), NEW c \in Chips, NEW ch \in Chip, NEW bad, NEW x,
         x = IF c \in bad THEN Ignore(ch) ELSE Obey(c, ch, Round[k])
  PROVE  Effect(k, c, ch, x, bad)
<1>0. N \in Nat
  BY Tables
<1>1. CASE c \in bad
  <2>1. x = Ignore(ch)
    BY <1>1
  <2>2. x \in Chip /\ x.reg = ch.reg /\ x.config = ch.config /\ x.answer = NoFrame
    BY <2>1, IgnoreDoes
  <2> QED
    BY <1>1, <2>2 DEF Effect
<1>2. ASSUME c \notin bad PROVE x = Obey(c, ch, Round[k])
  BY <1>2
<1>3. ASSUME c \notin bad, k \in {1, 2, 4 * N + 3} PROVE Effect(k, c, ch, x, bad)
  <2>1. PICK name \in {"RESET_STATUS", "START_CONFIG", "STOP_CONFIG"} :
          /\ Round[k] = [cmd |-> name]
          /\ k = 1 => name = "RESET_STATUS"
          /\ k = 2 => name = "START_CONFIG"
          /\ k = 4 * N + 3 => name = "STOP_CONFIG"
    <3>1. N > 0 /\ 1 # 4 * N + 3 /\ 2 # 4 * N + 3
      BY <1>0, Tables
    <3> QED
      BY <1>3, <3>1, RoundIs
  <2>2. x = Obey(c, ch, [cmd |-> name])
    BY <1>2, <1>3, <2>1
  <2>3. /\ x \in Chip /\ x.reg = ch.reg
        /\ name = "RESET_STATUS" => x.config = ch.config
        /\ name = "START_CONFIG" => x.config = TRUE
        /\ name = "STOP_CONFIG" => x.config = FALSE
    BY <2>2 DEF Obey, Chip, Faults
  <2>4. \A i \in 1..N : k # 2 * i + 2 /\ k # 2 * i + 1 /\ k # 2 * N + 2 * i + 1
    BY <1>0, <1>3
  <2>5. N > 0 /\ 4 * N + 3 # 1 /\ 4 * N + 3 # 2
    BY <1>0, Tables
  <2> QED
    BY <1>3, <2>1, <2>3, <2>4, <2>5 DEF Effect
<1>4. ASSUME c \notin bad, NEW i \in 1..N, k = 2 * i + 1 PROVE Effect(k, c, ch, x, bad)
  <2>1. x = Obey(c, ch, Writes(i))
    BY <1>2, <1>4, RoundIs
  <2>2. x \in Chip /\ x.reg = ch.reg /\ x.config = ch.config /\ (c \in Setup[i].chips => x.want = TRUE)
    BY <2>1, WritesDo
  <2>3. /\ \A j \in 1..N : k # 2 * j + 2 /\ k # 2 * N + 2 * j + 1 /\ (k = 2 * j + 1 => j = i)
        /\ k # 2 /\ k # 4 * N + 3
    BY <1>0, <1>4
  <2> QED
    BY <2>2, <2>3 DEF Effect
<1>5. ASSUME c \notin bad, NEW i \in 1..N, k = 2 * i + 2 PROVE Effect(k, c, ch, x, bad)
  <2>1. x = Obey(c, ch, Data(i))
    BY <1>2, <1>5, RoundIs
  <2>2. Loaded(i, c, ch, x)
    BY <2>1, DataDo
  <2>3. /\ \A j \in 1..N : k # 2 * j + 1 /\ k # 2 * N + 2 * j + 1 /\ (k = 2 * j + 2 => j = i)
        /\ k # 2 /\ k # 4 * N + 3
    BY <1>0, <1>5
  <2> QED
    BY <1>5, <2>2, <2>3 DEF Effect, Loaded
<1>6. ASSUME c \notin bad, NEW i \in 1..N, k = 2 * N + 2 * i + 1 PROVE Effect(k, c, ch, x, bad)
  <2>1. x = Obey(c, ch, Reads(i))
    BY <1>2, <1>6, RoundIs
  <2>2. /\ x \in Chip /\ x.reg = ch.reg /\ x.config = ch.config
        /\ x.answer = IF ch.config THEN ch.reg[Setup[i].reg] ELSE NoFrame
    BY <2>1, ReadsDo
  <2>3. /\ \A j \in 1..N : k # 2 * j + 1 /\ k # 2 * j + 2 /\ (k = 2 * N + 2 * j + 1 => j = i)
        /\ k # 2 /\ k # 4 * N + 3
    BY <1>0, <1>6
  <2> QED
    BY <2>2, <2>3 DEF Effect
<1>7. ASSUME c \notin bad, NEW i \in 1..N, k = 2 * N + 2 * i + 2 PROVE Effect(k, c, ch, x, bad)
  <2>1. x = Obey(c, ch, Asks(i))
    BY <1>2, <1>7, RoundIs
  <2>2. x \in Chip /\ x.reg = ch.reg /\ x.config = ch.config
    BY <2>1, AsksDo
  <2>3. /\ \A j \in 1..N : k # 2 * j + 1 /\ k # 2 * j + 2 /\ k # 2 * N + 2 * j + 1
        /\ k # 2 /\ k # 4 * N + 3
    BY <1>0, <1>7
  <2> QED
    BY <2>2, <2>3 DEF Effect
<1> QED
  BY <1>1, <1>3, <1>4, <1>5, <1>6, <1>7, Positions
(* The frames of f from k on. *)
From(f, n, k) == [j \in 1..(n + 1 - k) |-> f[(k - 1) + j]]

(* With the last of them nothing is left, before it the first is sent.     *)
Leaves(f, n, k, s) ==
  /\ s = <<>> => k = n + 1
  /\ s # <<>> => k \in 1..n /\ Head(s) = f[k] /\ Tail(s) = From(f, n, k + 1)

LEMMA Leaving ==
  ASSUME NEW n \in Nat, NEW k \in 1..(n + 1), NEW f, NEW s, s = From(f, n, k)
  PROVE  Leaves(f, n, k, s)
<1>1. Len(s) = n + 1 - k
  BY DEF From
<1>2. ASSUME s = <<>> PROVE k = n + 1
  BY <1>1, <1>2
<1>3. ASSUME s # <<>> PROVE k \in 1..n /\ Head(s) = f[k] /\ Tail(s) = From(f, n, k + 1)
  <2>1. k # n + 1
    <3>1. ASSUME k = n + 1 PROVE FALSE
      <4>1. s = [j \in 1..0 |-> f[(k - 1) + j]]
        BY <3>1 DEF From
      <4>2. s = <<>>
        BY <4>1
      <4> QED
        BY <1>3, <4>2
    <3> QED
      BY <3>1
  <2>2. k \in 1..n
    BY <2>1
  <2>3. s = [j \in 1..(n + 1 - k) |-> f[(k - 1) + j]]
    BY DEF From
  <2>4. Head(s) = f[(k - 1) + 1] /\ (k - 1) + 1 = k
    BY <2>2, <2>3
  <2>5. Tail(s) = [j \in 1..(n + 1 - (k + 1)) |-> s[j + 1]]
    BY <1>1, <2>2, <2>3
  <2>6. \A j \in 1..(n + 1 - (k + 1)) : s[j + 1] = f[((k + 1) - 1) + j]
    BY <2>2, <2>3
  <2> QED
    BY <2>2, <2>4, <2>5, <2>6 DEF From
<1> QED
  BY <1>2, <1>3 DEF Leaves

(* What is known when frame k of the round is next.  Of the last line: a   *)
(* round that was not disturbed so far is sound so far.                    *)
Right(i) == \A c \in Setup[i].chips : chip[c].reg[Setup[i].reg] = Setup[i].value
Verified(k) == \A i \in 1..N : 2 * N + 2 * i + 2 < k => Right(i)
Echoed(k) == \A i \in 1..N : k = 2 * N + 2 * i + 2 =>
                \A c \in Setup[i].chips : chip[c].answer \in {NoFrame, chip[c].reg[Setup[i].reg]}
InConfig(k) == k \in 3..(4 * N + 3) => \A c \in Chips : chip[c].config = TRUE
WriteWanted(k) == \A i \in 1..N : k = 2 * i + 2 => \A c \in Setup[i].chips : chip[c].want = TRUE
Written(k) == \A i \in 1..N : 2 * i + 2 < k => Right(i)
Answered(k) == \A i \in 1..N : k = 2 * N + 2 * i + 2 =>
                  \A c \in Setup[i].chips : chip[c].answer = Setup[i].value
Sound(k) == fine = TRUE /\ InConfig(k) /\ WriteWanted(k) /\ Written(k) /\ Answered(k)

SettingUp(k) ==
  /\ Echoed(k)
  /\ fine = TRUE => Verified(k)
  /\ attempt \notin troubled => Sound(k)

(* What the driver wants of the answers in a round.                        *)
LEMMA Accepting ==
  ASSUME NEW k \in 1..(4 * N + 3), NEW bad
  PROVE  Accepts(Round[k], bad) <=>
           \A i \in 1..N : k = 2 * N + 2 * i + 2 =>
              \A c \in Setup[i].chips : c \notin bad /\ chip[c].answer = Setup[i].value
<1>0. N \in Nat /\ N > 0
  BY Tables
<1>1. CASE k \in {1, 2, 4 * N + 3}
  <2>1. Round[k].cmd # "NOP"
    BY <1>1, RoundIs
  <2>2. \A i \in 1..N : k # 2 * N + 2 * i + 2
    BY <1>0, <1>1
  <2> QED
    BY <2>1, <2>2 DEF Accepts
<1>2. ASSUME NEW i \in 1..N, k = 2 * i + 1 \/ k = 2 * i + 2 \/ k = 2 * N + 2 * i + 1
      PROVE  Round[k].cmd # "NOP" /\ \A j \in 1..N : k # 2 * N + 2 * j + 2
  <2>1. Round[k] = Writes(i) \/ Round[k] = Data(i) \/ Round[k] = Reads(i)
    BY <1>2, RoundIs
  <2>2. Round[k].cmd # "NOP"
    BY <2>1 DEF Writes, Data, Reads
  <2>3. \A j \in 1..N : k # 2 * N + 2 * j + 2
    BY <1>0, <1>2
  <2> QED
    BY <2>2, <2>3
<1>3. ASSUME NEW i \in 1..N, k = 2 * N + 2 * i + 2
      PROVE  /\ Round[k] = Asks(i)
             /\ \A j \in 1..N : k = 2 * N + 2 * j + 2 => j = i
  <2>1. Round[k] = Asks(i)
    BY <1>3, RoundIs
  <2>2. \A j \in 1..N : k = 2 * N + 2 * j + 2 => j = i
    BY <1>0, <1>3
  <2> QED
    BY <2>1, <2>2
<1>4. ASSUME NEW i \in 1..N, k = 2 * N + 2 * i + 2
      PROVE  Accepts(Round[k], bad) <=>
               \A c \in Setup[i].chips : c \notin bad /\ chip[c].answer = Setup[i].value
  <2>1. Accepts(Asks(i), bad) <=>
               \A c \in Setup[i].chips : c \notin bad /\ chip[c].answer = Setup[i].value
    BY DEF Accepts, Asks, Matches
  <2> QED
    BY <1>3, <1>4, <2>1
<1>5. CASE \E i \in 1..N : k = 2 * i + 1 \/ k = 2 * i + 2 \/ k = 2 * N + 2 * i + 1
  BY <1>2, <1>5 DEF Accepts
<1>6. CASE \E i \in 1..N : k = 2 * N + 2 * i + 2
  BY <1>3, <1>4, <1>6
<1> QED
  BY <1>1, <1>5, <1>6, Positions

(* One frame of the round keeps what is known of the round. *)
SetupSend(k, bad) ==
  /\ chip' = [c \in Chips |-> IF c \in bad THEN Ignore(chip[c]) ELSE Obey(c, chip[c], Round[k])]
  /\ fine' = (fine /\ Accepts(Round[k], bad))
  /\ troubled' = IF bad = {} \/ ~starting THEN troubled ELSE troubled \cup {attempt}
  /\ attempt' = attempt

LEMMA SetupStep ==
  ASSUME NEW k \in 1..(4 * N + 3), NEW bad, SetupSend(k, bad), chip \in [Chips -> Chip],
         fine \in BOOLEAN, starting = TRUE, SettingUp(k)
  PROVE  /\ chip' \in [Chips -> Chip] /\ fine' \in BOOLEAN
         /\ SettingUp(k + 1)'
<1>0. N \in Nat /\ N > 0
  BY Tables
<1>1. \A c \in Chips : Effect(k, c, chip[c], chip'[c], bad)
  <2>1. ASSUME NEW c \in Chips PROVE Effect(k, c, chip[c], chip'[c], bad)
    <3>1. chip[c] \in Chip
      OBVIOUS
    <3>2. chip'[c] = IF c \in bad THEN Ignore(chip[c]) ELSE Obey(c, chip[c], Round[k])
      BY DEF SetupSend
    <3> QED
      BY <3>1, <3>2, RoundDoes, Zenon
  <2> QED
    BY <2>1
<1>2. chip' \in [Chips -> Chip]
  <2>1. \A c \in Chips : chip'[c] \in Chip
    BY <1>1 DEF Effect
  <2>2. chip' = [c \in Chips |-> chip'[c]]
    BY DEF SetupSend
  <2> QED
    BY <2>1, <2>2
<1>3. \A i \in 1..N : Setup[i].chips \subseteq Chips /\ Setup[i].reg \in Regs /\ Setup[i].value \in Nat
  BY Tables
<1>4. fine' \in BOOLEAN /\ (fine' = TRUE <=> fine = TRUE /\ Accepts(Round[k], bad))
  BY Zenon DEF SetupSend
<1>5. ASSUME \A i \in 1..N : k # 2 * i + 2
      PROVE  /\ \A c \in Chips : chip'[c].reg = chip[c].reg
             /\ \A i \in 1..N : Right(i) => Right(i)'
  <2>1. \A c \in Chips : chip'[c].reg = chip[c].reg
    BY <1>1, <1>5 DEF Effect
  <2> QED
    BY <1>3, <2>1 DEF Right
<1>6. Echoed(k + 1)'
  <2> SUFFICES ASSUME NEW i \in 1..N, k + 1 = 2 * N + 2 * i + 2, NEW c \in Setup[i].chips
               PROVE  chip'[c].answer \in {NoFrame, chip'[c].reg[Setup[i].reg]}
    BY DEF Echoed
  <2>1. k = 2 * N + 2 * i + 1 /\ \A j \in 1..N : k # 2 * j + 2
    BY <1>0
  <2>2. c \in Chips
    BY <1>3
  <2>3. chip'[c].answer \in {NoFrame, chip[c].reg[Setup[i].reg]}
    BY <1>1, <2>1, <2>2 DEF Effect
  <2> QED
    BY <1>5, <2>1, <2>2, <2>3
<1>7. ASSUME fine' = TRUE PROVE Verified(k + 1)'
  <2> SUFFICES ASSUME NEW i \in 1..N, 2 * N + 2 * i + 2 < k + 1
               PROVE  Right(i)'
    BY DEF Verified
  <2>1. \A j \in 1..N : k # 2 * j + 2
    BY <1>0
  <2>2. fine = TRUE /\ Accepts(Round[k], bad)
    BY <1>4, <1>7
  <2>3. CASE 2 * N + 2 * i + 2 < k
    BY <1>5, <2>1, <2>2, <2>3 DEF SettingUp, Verified
  <2>4. CASE k = 2 * N + 2 * i + 2
    <3>1. \A c \in Setup[i].chips : chip[c].answer = Setup[i].value
      <4>1. \A j \in 1..N : k = 2 * N + 2 * j + 2 =>
              \A c \in Setup[j].chips : c \notin bad /\ chip[c].answer = Setup[j].value
        BY <2>2, Accepting, Zenon
      <4> QED
        BY <2>4, <4>1
    <3>2. \A c \in Setup[i].chips : chip[c].answer \in {NoFrame, chip[c].reg[Setup[i].reg]}
      BY <2>4 DEF SettingUp, Echoed
    <3>3. Right(i)
      BY <1>3, <3>1, <3>2 DEF Right, NoFrame
    <3> QED
      BY <1>5, <2>1, <3>3
  <2>5. 2 * N + 2 * i + 2 < k \/ k = 2 * N + 2 * i + 2
    BY <1>0
  <2> QED
    BY <2>3, <2>4, <2>5
<1>8. ASSUME attempt' \notin troubled' PROVE Sound(k + 1)'
  <2>1. bad = {} /\ attempt \notin troubled
    BY <1>8 DEF SetupSend
  <2>2. fine = TRUE /\ InConfig(k) /\ WriteWanted(k) /\ Written(k) /\ Answered(k)
    BY <2>1 DEF SettingUp, Sound
  <2>3. \A c : c \notin bad
    BY <2>1
  <2>4. fine' = TRUE
    <3>1. Accepts(Round[k], bad)
      BY <2>2, <2>3, Accepting DEF Answered
    <3> QED
      BY <1>4, <2>2, <3>1
  <2>5. InConfig(k + 1)'
    <3> SUFFICES ASSUME k + 1 \in 3..(4 * N + 3), NEW c \in Chips PROVE chip'[c].config = TRUE
      BY DEF InConfig
    <3>1. k # 4 * N + 3 /\ (k = 2 \/ k \in 3..(4 * N + 3))
      BY <1>0
    <3> QED
      BY <1>1, <2>2, <2>3, <3>1 DEF Effect, InConfig
  <2>6. WriteWanted(k + 1)'
    <3> SUFFICES ASSUME NEW i \in 1..N, k + 1 = 2 * i + 2, NEW c \in Setup[i].chips
                 PROVE  chip'[c].want = TRUE
      BY DEF WriteWanted
    <3>1. k = 2 * i + 1 /\ c \in Chips
      BY <1>0, <1>3
    <3> QED
      BY <1>1, <2>3, <3>1 DEF Effect
  <2>7. Written(k + 1)'
    <3> SUFFICES ASSUME NEW i \in 1..N, 2 * i + 2 < k + 1, NEW c \in Setup[i].chips
                 PROVE  chip'[c].reg[Setup[i].reg] = Setup[i].value
      BY DEF Written, Right
    <3>1. c \in Chips /\ Setup[i].reg \in Regs
      BY <1>3
    <3>2. Effect(k, c, chip[c], chip'[c], bad)
      BY <1>1, <3>1
    <3>3. CASE k = 2 * i + 2
      <4>1. chip[c].want = TRUE
        BY <2>2, <3>3 DEF WriteWanted
      <4>2. chip[c].config = TRUE
        <5>1. k \in 3..(4 * N + 3)
          BY <1>0, <3>3
        <5> QED
          BY <2>2, <3>1, <5>1 DEF InConfig
      <4> QED
        BY <2>3, <3>2, <3>3, <4>1, <4>2 DEF Effect
    <3>4. CASE 2 * i + 2 < k
      <4>1. chip[c].reg[Setup[i].reg] = Setup[i].value
        BY <2>2, <3>4 DEF Written, Right
      <4>2. CASE \A j \in 1..N : k # 2 * j + 2
        BY <1>5, <3>1, <4>1, <4>2
      <4>3. ASSUME NEW j \in 1..N, k = 2 * j + 2
            PROVE  chip'[c].reg[Setup[i].reg] = Setup[i].value
        <5>1. \/ chip'[c].reg[Setup[i].reg] = chip[c].reg[Setup[i].reg]
              \/ /\ c \in Setup[j].chips /\ Setup[i].reg = Setup[j].reg
                 /\ chip'[c].reg[Setup[i].reg] = Setup[j].value
          BY <3>1, <3>2, <4>3 DEF Effect
        <5>2. c \in Setup[j].chips /\ Setup[i].reg = Setup[j].reg => Setup[j].value = Setup[i].value
          <6>1. c \in Setup[j].chips => Setup[j].chips \cap Setup[i].chips # {}
            OBVIOUS
          <6> QED
            BY <6>1, Tables
        <5> QED
          BY <4>1, <5>1, <5>2
      <4> QED
        BY <4>2, <4>3
    <3> QED
      BY <1>0, <3>3, <3>4
  <2>8. Answered(k + 1)'
    <3> SUFFICES ASSUME NEW i \in 1..N, k + 1 = 2 * N + 2 * i + 2, NEW c \in Setup[i].chips
                 PROVE  chip'[c].answer = Setup[i].value
      BY DEF Answered
    <3>1. k = 2 * N + 2 * i + 1 /\ c \in Chips /\ k \in 3..(4 * N + 3) /\ 2 * i + 2 < k
      BY <1>0, <1>3
    <3>2. chip[c].config = TRUE
      BY <2>2, <3>1 DEF InConfig
    <3>3. chip[c].reg[Setup[i].reg] = Setup[i].value
      BY <2>2, <3>1 DEF Written, Right
    <3>4. chip'[c].answer = chip[c].reg[Setup[i].reg]
      BY <1>1, <2>3, <3>1, <3>2 DEF Effect
    <3> QED
      BY <3>3, <3>4
  <2> QED
    BY <2>4, <2>5, <2>6, <2>7, <2>8 DEF Sound
<1> QED
  BY <1>2, <1>4, <1>6, <1>7, <1>8 DEF SettingUp
(* A latched fault that counts is still to be read, or has been answered.  *)
Watching(k) ==
  \A c \in Chips :
     \/ chip[c].fault = NoFault
     \/ c \in unseen
     \/ \E j \in 1..M : /\ chip[c].fault = StatusRegs[j]
                        /\ k <= 2 * j - 1 \/ (k = 2 * j /\ chip[c].answer \in {NoFrame, 1})

(* Every frame of the status is one of these.                              *)
LEMMA StatusPositions ==
  ASSUME NEW k \in 1..(2 * M)
  PROVE  \E j \in 1..M : \/ k = 2 * j - 1 /\ StatusFrames[k] = ReadsStatus(j)
                         \/ k = 2 * j /\ StatusFrames[k] = AsksStatus
<1>0. M \in Nat
  BY Tables
<1>1. (k + 1) \div 2 \in 1..M /\ (k = 2 * ((k + 1) \div 2) - 1 \/ k = 2 * ((k + 1) \div 2))
  BY <1>0
<1>2. PICK j \in 1..M : k = 2 * j - 1 \/ k = 2 * j
  BY <1>1
<1> QED
  BY <1>2, StatusFramesAre

(* One of them keeps watch.                                                *)
StatusSend(k, bad) ==
  /\ chip' = [c \in Chips |-> IF c \in bad THEN Ignore(chip[c]) ELSE Obey(c, chip[c], StatusFrames[k])]
  /\ fine' = (fine /\ Accepts(StatusFrames[k], bad))
  /\ unseen' = unseen

LEMMA StatusStep ==
  ASSUME NEW k \in 1..(2 * M), NEW bad, StatusSend(k, bad), chip \in [Chips -> Chip],
         fine \in BOOLEAN
  PROVE  /\ chip' \in [Chips -> Chip] /\ fine' \in BOOLEAN
         /\ \A c \in Chips : chip'[c].reg = chip[c].reg /\ chip'[c].config = chip[c].config
         /\ (fine = TRUE => Watching(k)) => (fine' = TRUE => Watching(k + 1)')
<1>0. M \in Nat
  BY Tables
<1>1. PICK j \in 1..M : \/ k = 2 * j - 1 /\ StatusFrames[k] = ReadsStatus(j)
                        \/ k = 2 * j /\ StatusFrames[k] = AsksStatus
  BY StatusPositions
<1>2. ASSUME NEW c \in Chips
      PROVE  /\ chip'[c] \in Chip /\ chip'[c].reg = chip[c].reg /\ chip'[c].config = chip[c].config
             /\ chip'[c].fault = chip[c].fault
             /\ c \in bad => chip'[c].answer = NoFrame
             /\ c \notin bad /\ k = 2 * j - 1 /\ chip[c].fault = StatusRegs[j] => chip'[c].answer = 1
  <2>1. chip[c] \in Chip
    OBVIOUS
  <2>2. chip'[c] = IF c \in bad THEN Ignore(chip[c]) ELSE Obey(c, chip[c], StatusFrames[k])
    BY DEF StatusSend
  <2>3. CASE c \in bad
    <3>1. chip'[c] = Ignore(chip[c])
      BY <2>2, <2>3
    <3> QED
      BY <2>1, <2>3, <3>1, IgnoreDoes
  <2>4. CASE c \notin bad /\ k = 2 * j - 1
    <3>1. StatusFrames[k] = ReadsStatus(j)
      BY <1>0, <1>1, <2>4
    <3>2. chip'[c] = Obey(c, chip[c], ReadsStatus(j))
      BY <2>2, <2>4, <3>1
    <3>3. ReadBack(j, chip[c], chip'[c])
      BY <2>1, <3>2, ReadsStatusDo
    <3> QED
      BY <2>4, <3>3 DEF ReadBack
  <2>5. CASE c \notin bad /\ k # 2 * j - 1
    <3>1. chip'[c] = Obey(c, chip[c], AsksStatus)
      BY <1>1, <2>2, <2>5
    <3> QED
      BY <2>1, <2>5, <3>1, AsksStatusDo
  <2> QED
    BY <2>3, <2>4, <2>5
<1>3. chip' \in [Chips -> Chip]
  <2>1. chip' = [c \in Chips |-> chip'[c]]
    BY DEF StatusSend
  <2> QED
    BY <1>2, <2>1
<1>4. fine' \in BOOLEAN /\ (fine' = TRUE <=> fine = TRUE /\ Accepts(StatusFrames[k], bad))
  BY Zenon DEF StatusSend
<1>5. ASSUME fine = TRUE => Watching(k), fine' = TRUE PROVE Watching(k + 1)'
  <2>1. Watching(k) /\ Accepts(StatusFrames[k], bad)
    BY <1>4, <1>5
  <2> SUFFICES ASSUME NEW c \in Chips, chip'[c].fault # NoFault, c \notin unseen'
               PROVE  \E i \in 1..M :
                        /\ chip'[c].fault = StatusRegs[i]
                        /\ k + 1 <= 2 * i - 1 \/ (k + 1 = 2 * i /\ chip'[c].answer \in {NoFrame, 1})
    BY DEF Watching
  <2>2. chip[c].fault = chip'[c].fault /\ c \notin unseen
    BY <1>2 DEF StatusSend
  <2>3. PICK i \in 1..M : /\ chip[c].fault = StatusRegs[i]
                          /\ k <= 2 * i - 1 \/ (k = 2 * i /\ chip[c].answer \in {NoFrame, 1})
    BY <2>1, <2>2, Zenon DEF Watching
  <2>4. CASE k < 2 * i - 1
    <3>1. k + 1 <= 2 * i - 1
      BY <1>0, <2>4
    <3> QED
      BY <2>2, <2>3, <3>1
  <2>5. CASE k = 2 * i - 1
    <3>1. j = i /\ k = 2 * j - 1 /\ k + 1 = 2 * i
      BY <1>0, <1>1, <2>5
    <3>2. chip'[c].answer \in {NoFrame, 1}
      BY <1>2, <2>3, <3>1
    <3> QED
      BY <2>2, <2>3, <3>1, <3>2
  <2>6. CASE k = 2 * i /\ chip[c].answer \in {NoFrame, 1}
    <3>1. StatusFrames[k] = AsksStatus
      BY <1>0, <1>1, <2>6
    <3>2. Accepts(AsksStatus, bad)
      BY <2>1, <3>1
    <3>3. chip[c].answer = 0
      BY <3>2 DEF Accepts, AsksStatus, Matches
    <3> QED
      BY <2>6, <3>3 DEF NoFrame
  <2> QED
    BY <1>0, <2>3, <2>4, <2>5, <2>6
<1> QED
  BY <1>2, <1>3, <1>4, <1>5
(* Every register of every chip as set up, and the invariant.              *)
Configured == \A i \in 1..N : Right(i)

GateTyped ==
  /\ chip \in [Chips -> Chip]
  /\ fine \in BOOLEAN /\ starting \in BOOLEAN /\ enabled \in BOOLEAN
  /\ stage \in {"boot", "setup", "status", "enable", "loop"}
  /\ attempt \in 0..(Attempts + 1)

InRound ==
  stage = "setup" =>
    /\ starting = TRUE /\ enabled = FALSE
    /\ attempt \in 1..Attempts /\ 1..(attempt - 1) \subseteq troubled
    /\ \E k \in 1..(4 * N + 4) : frames = From(Round, 4 * N + 3, k) /\ SettingUp(k)

InStatus ==
  stage = "status" =>
    /\ starting = TRUE => Configured
    /\ \E k \in 1..(2 * M + 1) : /\ frames = From(StatusFrames, 2 * M, k)
                                 /\ (starting = TRUE /\ fine = TRUE => Watching(k))

GateInv ==
  /\ GateTyped /\ InRound /\ InStatus
  /\ stage \notin {"setup", "status"} => starting = FALSE /\ frames = <<>>
  /\ stage = "enable" => Configured /\ \A c \in Chips: chip[c].fault # NoFault => c \in unseen
  /\ enabled = TRUE => Configured
  /\ stage # "setup" /\ attempt > Attempts => 1..Attempts \subseteq troubled

(* At first the chips are off and the drivers, too.                        *)
LEMMA GateInvInit == GateInit => GateInv
<1> SUFFICES ASSUME GateInit PROVE GateInv
  OBVIOUS
<1>1. PoweredUp \in Chip
  BY DEF PoweredUp, Chip, Values, Faults, NoFrame
<1>2. chip \in [Chips -> Chip]
  BY <1>1 DEF GateInit
<1>3. Attempts \in Nat /\ Attempts > 0
  BY GateAssumption
<1>4. GateTyped
  <2>1. fine \in BOOLEAN /\ starting \in BOOLEAN /\ enabled \in BOOLEAN
    BY Zenon DEF GateInit
  <2>2. stage = "boot" /\ attempt \in 0..(Attempts + 1)
    BY <1>3 DEF GateInit
  <2> QED
    BY <1>2, <2>1, <2>2 DEF GateTyped
<1>5. stage = "boot" /\ starting = FALSE /\ enabled = FALSE /\ frames = <<>> /\ ~(attempt > Attempts)
  BY <1>3 DEF GateInit
<1>6. InRound /\ InStatus
  BY <1>5 DEF InRound, InStatus
<1> QED
  BY <1>4, <1>5, <1>6 DEF GateInv

(* A frame keeps it, and no frame touches a chip whose driver runs.        *)
Still == \A c \in Chips: chip'[c].reg = chip[c].reg /\ chip'[c].config = chip[c].config

LEMMA SendKeeps == GateInv /\ SendData => GateInv' /\ (enabled = TRUE => Still)
<1> SUFFICES ASSUME GateInv, SendData
             PROVE  GateInv' /\ (enabled = TRUE => Still)
  OBVIOUS
<1>0. N \in Nat /\ M \in Nat /\ Attempts \in Nat /\ \A i \in 1..N : Setup[i].chips \subseteq Chips
  BY Tables, GateAssumption
<1>1. PICK bad \in {{}} \cup {{c}: c \in Chips} :
        /\ chip' = [c \in Chips |-> IF c \in bad THEN Ignore(chip[c]) ELSE Obey(c, chip[c], Head(frames))]
        /\ fine' = (fine /\ Accepts(Head(frames), bad))
        /\ troubled' = IF bad = {} \/ ~starting THEN troubled ELSE troubled \cup {attempt}
  BY Zenon DEF SendData
<1>2. /\ stage \in {"setup", "status"} /\ frames # <<>> /\ frames' = Tail(frames)
      /\ stage' = stage /\ attempt' = attempt /\ starting' = starting /\ enabled' = enabled /\ unseen' = unseen
  BY DEF SendData
<1>3. troubled \subseteq troubled'
  BY <1>1
<1>4. GateTyped /\ InRound /\ InStatus
  BY DEF GateInv
<1>5. CASE stage = "setup"
  <2>1. PICK k \in 1..(4 * N + 4) : frames = From(Round, 4 * N + 3, k) /\ SettingUp(k)
    BY <1>4, <1>5 DEF InRound
  <2>2. /\ k \in 1..(4 * N + 3) /\ Head(frames) = Round[k] /\ Tail(frames) = From(Round, 4 * N + 3, k + 1)
    <3>1. 4 * N + 3 \in Nat /\ k \in 1..((4 * N + 3) + 1)
      BY <1>0
    <3>2. Leaves(Round, 4 * N + 3, k, frames)
      BY <2>1, <3>1, Leaving, Zenon
    <3> QED
      BY <1>2, <3>2 DEF Leaves
  <2>3. SetupSend(k, bad)
    BY <1>1, <1>2, <2>2, Zenon DEF SetupSend
  <2>4. starting = TRUE /\ enabled = FALSE
    BY <1>4, <1>5 DEF InRound
  <2>5. /\ chip' \in [Chips -> Chip] /\ fine' \in BOOLEAN /\ SettingUp(k + 1)'
    BY <1>4, <2>1, <2>2, <2>3, <2>4, SetupStep, Zenon DEF GateTyped
  <2>6. GateTyped'
    BY <1>2, <1>4, <2>5 DEF GateTyped
  <2>7. InRound'
    <3>1. k + 1 \in 1..(4 * N + 4)
      BY <1>0, <2>2
    <3>2. \E l \in 1..(4 * N + 4) : frames' = From(Round, 4 * N + 3, l) /\ SettingUp(l)'
      BY <1>2, <2>2, <2>5, <3>1
    <3>3. attempt' \in 1..Attempts /\ 1..(attempt' - 1) \subseteq troubled'
      BY <1>2, <1>3, <1>4, <1>5 DEF InRound
    <3> QED
      BY <1>2, <2>4, <3>2, <3>3 DEF InRound
  <2> QED
    BY <1>2, <1>5, <2>4, <2>6, <2>7 DEF GateInv, InStatus
<1>6. CASE stage = "status"
  <2>1. PICK k \in 1..(2 * M + 1) : /\ frames = From(StatusFrames, 2 * M, k)
                                    /\ (starting = TRUE /\ fine = TRUE => Watching(k))
    BY <1>4, <1>6, Zenon DEF InStatus
  <2>2. /\ k \in 1..(2 * M) /\ Head(frames) = StatusFrames[k] /\ Tail(frames) = From(StatusFrames, 2 * M, k + 1)
    <3>1. 2 * M \in Nat /\ k \in 1..((2 * M) + 1)
      BY <1>0
    <3>2. Leaves(StatusFrames, 2 * M, k, frames)
      BY <2>1, <3>1, Leaving, Zenon
    <3> QED
      BY <1>2, <3>2 DEF Leaves
  <2>3. StatusSend(k, bad)
    BY <1>1, <1>2, <2>2, Zenon DEF StatusSend
  <2>4. /\ chip' \in [Chips -> Chip] /\ fine' \in BOOLEAN
        /\ \A c \in Chips : chip'[c].reg = chip[c].reg /\ chip'[c].config = chip[c].config
        /\ (fine = TRUE => Watching(k)) => (fine' = TRUE => Watching(k + 1)')
    BY <1>4, <2>2, <2>3, StatusStep, Zenon DEF GateTyped
  <2>5. Configured => Configured'
    BY <1>0, <2>4 DEF Configured, Right
  <2>6. GateTyped'
    BY <1>2, <1>4, <2>4 DEF GateTyped
  <2>7. InStatus'
    <3>1. k + 1 \in 1..(2 * M + 1)
      BY <1>0, <2>2
    <3>2. starting' = TRUE /\ fine' = TRUE => Watching(k + 1)'
      BY <1>2, <2>1, <2>4
    <3>3. \E l \in 1..(2 * M + 1) : /\ frames' = From(StatusFrames, 2 * M, l)
                                    /\ starting' = TRUE /\ fine' = TRUE => Watching(l)'
      BY <1>2, <2>2, <3>1, <3>2
    <3>4. starting' = TRUE => Configured'
      BY <1>2, <1>4, <1>6, <2>5 DEF InStatus
    <3> QED
      BY <3>3, <3>4 DEF InStatus
  <2>8. stage' # "setup" /\ attempt' > Attempts => 1..Attempts \subseteq troubled'
    BY <1>2, <1>3, <1>6 DEF GateInv
  <2>9. enabled' = TRUE => Configured'
    BY <1>2, <2>5 DEF GateInv
  <2> QED
    BY <1>2, <1>6, <2>4, <2>6, <2>7, <2>8, <2>9 DEF GateInv, InRound, Still
<1> QED
  BY <1>2, <1>5, <1>6

(* The frames from the first on are all.                                   *)
LEMMA Beginning ==
  /\ Round = From(Round, 4 * N + 3, 1)
  /\ StatusFrames = From(StatusFrames, 2 * M, 1)
<1>0. N \in Nat /\ M \in Nat
  BY Tables
<1>1. ASSUME NEW n \in Nat, NEW f, f = [k \in 1..n |-> f[k]]
      PROVE  f = From(f, n, 1)
  <2>1. n + 1 - 1 = n /\ \A j \in 1..n : (1 - 1) + j = j
    OBVIOUS
  <2>2. From(f, n, 1) = [j \in 1..n |-> f[j]]
    BY <2>1 DEF From
  <2> QED
    BY <1>1, <2>2
<1>2. Round = From(Round, 4 * N + 3, 1)
  <2>1. 4 * N + 3 \in Nat
    BY <1>0
  <2> QED
    BY <1>1, <2>1, RoundIs, Zenon
<1>3. StatusFrames = From(StatusFrames, 2 * M, 1)
  <2>1. 2 * M \in Nat
    BY <1>0
  <2> QED
    BY <1>1, <2>1, StatusFramesAre, Zenon
<1> QED
  BY <1>2, <1>3

(* Init shuts the drivers down and begins its first round.                 *)
LEMMA InitKeeps == GateInv /\ GateDriverInit => GateInv'
<1> SUFFICES ASSUME GateInv, GateDriverInit PROVE GateInv'
  OBVIOUS
<1>0. N \in Nat /\ N > 0 /\ Attempts \in Nat /\ Attempts > 0
  BY Tables, GateAssumption
<1>1. /\ stage' = "setup" /\ frames' = Round /\ attempt' = 1 /\ fine' = TRUE
      /\ starting' = TRUE /\ enabled' = FALSE /\ chip' = chip
  BY DEF GateDriverInit
<1>2. GateTyped'
  <2>1. fine' \in BOOLEAN /\ starting' \in BOOLEAN /\ enabled' \in BOOLEAN
    BY <1>1, Zenon
  <2> QED
    BY <1>0, <1>1, <2>1 DEF GateInv, GateTyped
<1>3. SettingUp(1)'
  <2>1. \A i \in 1..N : /\ ~(2 * N + 2 * i + 2 < 1) /\ 1 # 2 * N + 2 * i + 2
                        /\ 1 # 2 * i + 2 /\ ~(2 * i + 2 < 1)
    BY <1>0
  <2>2. 1 \notin 3..(4 * N + 3)
    OBVIOUS
  <2> QED
    BY <1>1, <2>1, <2>2 DEF SettingUp, Echoed, Verified, Sound, InConfig, WriteWanted, Written, Answered
<1>4. InRound'
  <2>1. 1 \in 1..(4 * N + 4)
    BY <1>0
  <2>2. \E k \in 1..(4 * N + 4) : frames' = From(Round, 4 * N + 3, k) /\ SettingUp(k)'
    BY <1>1, <1>3, <2>1, Beginning
  <2>3. attempt' \in 1..Attempts /\ 1..(attempt' - 1) \subseteq troubled'
    BY <1>0, <1>1
  <2> QED
    BY <1>1, <2>2, <2>3 DEF InRound
<1> QED
  BY <1>1, <1>2, <1>4 DEF GateInv, InStatus

(* A round that is fine has verified everything, one that is not was       *)
(* disturbed.                                                              *)
LEMMA RoundDoneKeeps == GateInv /\ RoundDone => GateInv'
<1> SUFFICES ASSUME GateInv, RoundDone PROVE GateInv'
  OBVIOUS
<1>0. N \in Nat /\ N > 0 /\ M \in Nat /\ Attempts \in Nat /\ \A i \in 1..N : Setup[i].chips \subseteq Chips
  BY Tables, GateAssumption
<1>1. /\ stage = "setup" /\ frames = <<>> /\ fine' = TRUE
      /\ chip' = chip /\ enabled' = enabled /\ troubled' = troubled /\ unseen' = unseen
  BY DEF RoundDone
<1>2. GateTyped /\ starting = TRUE /\ enabled = FALSE /\ attempt \in 1..Attempts
      /\ 1..(attempt - 1) \subseteq troubled
  BY <1>1 DEF GateInv, InRound
<1>3. PICK k \in 1..(4 * N + 4) : frames = From(Round, 4 * N + 3, k) /\ SettingUp(k)
  BY <1>1, Zenon DEF GateInv, InRound
<1>4. k = 4 * N + 4
  <2>1. 4 * N + 3 \in Nat /\ k \in 1..((4 * N + 3) + 1)
    BY <1>0
  <2>2. Leaves(Round, 4 * N + 3, k, frames)
    BY <1>3, <2>1, Leaving, Zenon
  <2> QED
    BY <1>0, <1>1, <2>2 DEF Leaves
<1>5. fine' \in BOOLEAN /\ enabled' \in BOOLEAN /\ chip' \in [Chips -> Chip] /\ enabled' = FALSE
  BY <1>1, <1>2, Zenon DEF GateTyped
<1>6. CASE fine = TRUE
  <2>1. stage' = "status" /\ frames' = StatusFrames /\ attempt' = attempt /\ starting' = starting
    BY <1>6 DEF RoundDone
  <2>2. Configured
    <3>1. Verified(k)
      BY <1>3, <1>6 DEF SettingUp
    <3>2. \A i \in 1..N : 2 * N + 2 * i + 2 < k
      BY <1>0, <1>4
    <3> QED
      BY <3>1, <3>2 DEF Verified, Configured
  <2>3. Configured'
    BY <1>1, <2>2 DEF Configured, Right
  <2>4. Watching(1)'
    <3> SUFFICES ASSUME NEW c \in Chips, chip[c].fault # NoFault
                 PROVE  \E j \in 1..M : chip[c].fault = StatusRegs[j] /\ 1 <= 2 * j - 1
      BY <1>1 DEF Watching
    <3>1. chip[c].fault \in Faults
      BY <1>2 DEF GateTyped, Chip
    <3>2. PICK j \in 1..M : chip[c].fault = StatusRegs[j]
      BY <3>1 DEF Faults
    <3> QED
      BY <1>0, <3>2
  <2>5. InStatus'
    <3>1. 1 \in 1..(2 * M + 1)
      BY <1>0
    <3> QED
      BY <2>1, <2>3, <2>4, <3>1, Beginning DEF InStatus
  <2>6. GateTyped'
    BY <1>0, <1>2, <1>5, <2>1 DEF GateTyped
  <2>7. ~(attempt' > Attempts)
    BY <1>0, <1>2, <2>1
  <2> QED
    BY <1>5, <2>1, <2>5, <2>6, <2>7 DEF GateInv, InRound
<1>7. ASSUME fine # TRUE PROVE attempt \in troubled /\ 1..attempt \subseteq troubled
  <2>1. attempt \in troubled
    BY <1>3, <1>7 DEF SettingUp, Sound
  <2> QED
    BY <1>0, <1>2, <2>1
<1>8. CASE fine # TRUE /\ MoreRounds
  <2>1. ~fine
    BY <1>2, <1>8, Zenon DEF GateTyped
  <2>2. attempt' = attempt + 1 /\ frames' = Round /\ stage' = stage /\ starting' = starting
    BY <1>8, <2>1 DEF RoundDone
  <2>3. attempt' \in 1..Attempts /\ 1..(attempt' - 1) \subseteq troubled'
    BY <1>0, <1>1, <1>2, <1>7, <1>8, <2>2 DEF MoreRounds
  <2>4. SettingUp(1)'
    <3>1. \A i \in 1..N : /\ ~(2 * N + 2 * i + 2 < 1) /\ 1 # 2 * N + 2 * i + 2
                          /\ 1 # 2 * i + 2 /\ ~(2 * i + 2 < 1)
      BY <1>0
    <3>2. 1 \notin 3..(4 * N + 3)
      OBVIOUS
    <3> QED
      BY <1>1, <3>1, <3>2 DEF SettingUp, Echoed, Verified, Sound, InConfig, WriteWanted, Written, Answered
  <2>5. InRound'
    <3>1. 1 \in 1..(4 * N + 4)
      BY <1>0
    <3>2. \E l \in 1..(4 * N + 4) : frames' = From(Round, 4 * N + 3, l) /\ SettingUp(l)'
      BY <2>2, <2>4, <3>1, Beginning
    <3> QED
      BY <1>1, <1>2, <1>5, <2>2, <2>3, <3>2 DEF InRound
  <2>6. GateTyped'
    BY <1>0, <1>1, <1>2, <1>5, <2>2, <2>3 DEF GateTyped
  <2> QED
    BY <1>1, <1>5, <2>2, <2>5, <2>6 DEF GateInv, InStatus
<1>9. CASE fine # TRUE /\ ~MoreRounds
  <2>1. ~fine
    BY <1>2, <1>9, Zenon DEF GateTyped
  <2>2. attempt' = attempt + 1 /\ frames' = frames /\ stage' = "loop" /\ starting' = FALSE
    BY <1>9, <2>1 DEF RoundDone
  <2>3. attempt = Attempts
    BY <1>0, <1>2, <1>9 DEF MoreRounds
  <2>4. 1..Attempts \subseteq troubled'
    BY <1>1, <1>7, <1>9, <2>3
  <2>5. GateTyped'
    <3>1. starting' \in BOOLEAN
      BY <2>2, Zenon
    <3> QED
      BY <1>0, <1>2, <1>5, <2>2, <2>3, <3>1 DEF GateTyped
  <2> QED
    BY <1>1, <1>5, <2>2, <2>4, <2>5 DEF GateInv, InRound, InStatus
<1> QED
  BY <1>6, <1>8, <1>9

(* When the status was fine no latched fault is left unread.               *)
LEMMA StatusDoneKeeps == GateInv /\ StatusDone => GateInv'
<1> SUFFICES ASSUME GateInv, StatusDone PROVE GateInv'
  OBVIOUS
<1>0. M \in Nat
  BY Tables
<1>1. /\ stage = "status" /\ frames = <<>> /\ starting' = FALSE /\ frames' = frames /\ chip' = chip
      /\ attempt' = attempt /\ fine' = fine /\ enabled' = enabled
      /\ troubled' = troubled /\ unseen' = unseen
      /\ stage' = (IF starting /\ fine THEN "enable" ELSE "loop")
  BY Zenon DEF StatusDone
<1>2. PICK k \in 1..(2 * M + 1) : /\ frames = From(StatusFrames, 2 * M, k)
                                  /\ (starting = TRUE /\ fine = TRUE => Watching(k))
  BY <1>1, Zenon DEF GateInv, InStatus
<1>3. k = 2 * M + 1
  <2>1. 2 * M \in Nat /\ k \in 1..(2 * M + 1)
    BY <1>0
  <2>2. Leaves(StatusFrames, 2 * M, k, frames)
    BY <1>2, <2>1, Leaving, Zenon
  <2> QED
    BY <1>0, <1>1, <2>2 DEF Leaves
<1>4. Configured => Configured'
  BY <1>1 DEF Configured, Right
<1>5. stage' \in {"enable", "loop"} /\ (stage' = "enable" => starting = TRUE /\ fine = TRUE)
  <2>1. starting \in BOOLEAN /\ fine \in BOOLEAN
    BY DEF GateInv, GateTyped
  <2> QED
    BY <1>1, <2>1, Zenon
<1>6. ASSUME stage' = "enable"
      PROVE  Configured' /\ \A c \in Chips: chip'[c].fault # NoFault => c \in unseen'
  <2>1. Watching(k) /\ Configured
    BY <1>1, <1>2, <1>5, <1>6, Zenon DEF GateInv, InStatus
  <2>2. \A j \in 1..M : ~(k <= 2 * j - 1) /\ k # 2 * j
    BY <1>0, <1>3
  <2> QED
    BY <1>1, <1>4, <2>1, <2>2 DEF Watching
<1>7. GateTyped'
  <2>1. starting' \in BOOLEAN
    BY <1>1, Zenon
  <2> QED
    BY <1>1, <1>5, <2>1 DEF GateInv, GateTyped
<1>8. enabled' = TRUE => Configured'
  BY <1>1, <1>4, Zenon DEF GateInv
<1>9. attempt' > Attempts => 1..Attempts \subseteq troubled'
  BY <1>1 DEF GateInv
<1> QED
  BY <1>1, <1>5, <1>6, <1>7, <1>8, <1>9 DEF GateInv, InRound, InStatus

(* The steps that send nothing.                                            *)
LEMMA QuietKeeps ==
  GateInv /\ (Enable \/ Dump \/ SoftReset \/ UNCHANGED gateVars) => GateInv'
<1> SUFFICES ASSUME GateInv, Enable \/ Dump \/ SoftReset \/ UNCHANGED gateVars PROVE GateInv'
  OBVIOUS
<1>0. N \in Nat /\ M \in Nat
  BY Tables
<1>1. CASE Enable
  <2>1. /\ stage = "enable" /\ enabled' = TRUE /\ stage' = "loop"
        /\ chip' = chip /\ frames' = frames /\ attempt' = attempt /\ fine' = fine
        /\ starting' = starting /\ troubled' = troubled /\ unseen' = unseen
    BY <1>1 DEF Enable
  <2>2. Configured'
    BY <2>1 DEF GateInv, Configured, Right
  <2>3. GateTyped'
    <3>1. enabled' \in BOOLEAN
      BY <2>1, Zenon
    <3> QED
      BY <2>1, <3>1 DEF GateInv, GateTyped
  <2> QED
    BY <2>1, <2>2, <2>3 DEF GateInv, InRound, InStatus
<1>2. CASE Dump
  <2>1. /\ stage = "loop" /\ stage' = "status" /\ frames' = StatusFrames /\ fine' = TRUE
        /\ chip' = chip /\ attempt' = attempt /\ starting' = starting /\ enabled' = enabled
        /\ troubled' = troubled /\ unseen' = unseen
    BY <1>2 DEF Dump
  <2>2. Configured => Configured'
    BY <2>1 DEF Configured, Right
  <2>3. starting = FALSE
    BY <2>1 DEF GateInv
  <2>4. GateTyped'
    <3>1. fine' \in BOOLEAN
      BY <2>1, Zenon
    <3> QED
      BY <2>1, <3>1 DEF GateInv, GateTyped
  <2>5. InStatus'
    <3>1. 1 \in 1..(2 * M + 1) /\ frames' = From(StatusFrames, 2 * M, 1)
      BY <1>0, <2>1, Beginning
    <3>2. ~(starting' = TRUE)
      BY <2>1, <2>3
    <3> QED
      BY <3>1, <3>2, Zenon DEF InStatus
  <2>6. enabled' = TRUE => Configured'
    BY <2>1, <2>2, Zenon DEF GateInv
  <2>7. attempt' > Attempts => 1..Attempts \subseteq troubled'
    BY <2>1 DEF GateInv
  <2> QED
    BY <2>1, <2>4, <2>5, <2>6, <2>7 DEF GateInv, InRound
<1>3. CASE SoftReset
  <2>1. /\ stage = "loop" /\ stage' = "boot" /\ frames' = frames /\ fine' = fine
        /\ chip' = chip /\ attempt' = attempt /\ starting' = starting /\ enabled' = enabled
        /\ troubled' = troubled /\ unseen' = unseen
    BY <1>3 DEF SoftReset
  <2>2. Configured => Configured'
    BY <2>1 DEF Configured, Right
  <2>3. GateTyped'
    BY <2>1 DEF GateInv, GateTyped
  <2>4. enabled' = TRUE => Configured'
    BY <2>1, <2>2, Zenon DEF GateInv
  <2>5. starting' = FALSE /\ frames' = <<>> /\ (attempt' > Attempts => 1..Attempts \subseteq troubled')
    BY <2>1 DEF GateInv
  <2> QED
    BY <2>1, <2>3, <2>4, <2>5 DEF GateInv, InRound, InStatus
<1>4. CASE UNCHANGED gateVars
  <2>1. /\ chip' = chip /\ stage' = stage /\ frames' = frames /\ attempt' = attempt /\ fine' = fine
        /\ starting' = starting /\ enabled' = enabled /\ troubled' = troubled /\ unseen' = unseen
    BY <1>4 DEF gateVars, driverVars
  <2>2. \A k : SettingUp(k) => SettingUp(k)'
    BY <2>1 DEF SettingUp, Echoed, Verified, Sound, InConfig, WriteWanted, Written, Answered, Right
  <2>3. \A k : Watching(k) => Watching(k)'
    BY <2>1 DEF Watching
  <2>4. Configured => Configured'
    BY <2>1 DEF Configured, Right
  <2>5. GateTyped'
    BY <2>1 DEF GateInv, GateTyped
  <2>6. InRound'
    BY <2>1, <2>2, Zenon DEF GateInv, InRound
  <2>7. InStatus'
    BY <2>1, <2>3, <2>4, Zenon DEF GateInv, InStatus
  <2>8. enabled' = TRUE => Configured'
    BY <2>1, <2>4, Zenon DEF GateInv
  <2> QED
    BY <2>1, <2>4, <2>5, <2>6, <2>7, <2>8, Zenon DEF GateInv
<1> QED
  BY <1>1, <1>2, <1>3, <1>4

(* A chip latches a fault.                                                 *)
LEMMA FaultKeeps ==
  ASSUME NEW c \in Chips, NEW i \in DOMAIN StatusRegs, GateInv, Fault(c, StatusRegs[i])
  PROVE  GateInv'
<1>0. N \in Nat /\ M \in Nat /\ i \in 1..M /\ \A n \in 1..N : Setup[n].chips \subseteq Chips
  BY Tables
<1>1. /\ stage # "boot" /\ chip[c].fault = NoFault
      /\ chip' = [chip EXCEPT ![c].fault = StatusRegs[i]]
      /\ unseen' = (IF ToBeRead(StatusRegs[i]) THEN unseen ELSE unseen \cup {c})
      /\ stage' = stage /\ frames' = frames /\ attempt' = attempt /\ fine' = fine
      /\ starting' = starting /\ enabled' = enabled /\ troubled' = troubled
  BY DEF Fault, driverVars
<1>2. GateTyped /\ chip \in [Chips -> Chip]
  BY DEF GateInv, GateTyped
<1>3. /\ chip' \in [Chips -> Chip]
      /\ \A d \in Chips : /\ chip'[d].reg = chip[d].reg /\ chip'[d].config = chip[d].config
                          /\ chip'[d].want = chip[d].want /\ chip'[d].answer = chip[d].answer
                          /\ d # c => chip'[d].fault = chip[d].fault
      /\ chip'[c].fault = StatusRegs[i]
  <2>1. StatusRegs[i] \in Faults
    BY <1>0 DEF Faults
  <2>2. chip[c] \in Chip
    BY <1>2
  <2> DEFINE x == [chip[c] EXCEPT !.fault = StatusRegs[i]]
  <2>3. /\ x \in Chip /\ x.reg = chip[c].reg /\ x.config = chip[c].config
        /\ x.want = chip[c].want /\ x.answer = chip[c].answer /\ x.fault = StatusRegs[i]
    BY <2>1, <2>2 DEF Chip
  <2>4. chip' = [chip EXCEPT ![c] = x]
    BY <1>1
  <2> HIDE DEF x
  <2>5. chip'[c] = x /\ chip' \in [Chips -> Chip] /\ \A d \in Chips : d # c => chip'[d] = chip[d]
    BY <1>2, <2>3, <2>4
  <2> QED
    BY <2>3, <2>5
<1>4. \A n \in 1..N : Right(n) => Right(n)'
  BY <1>0, <1>3 DEF Right
<1>5. GateTyped'
  BY <1>1, <1>2, <1>3 DEF GateTyped
<1>6. Configured => Configured'
  BY <1>4 DEF Configured
<1>7. InRound'
  <2>1. ASSUME NEW k \in 1..(4 * N + 4), SettingUp(k) PROVE SettingUp(k)'
    <3>1. Echoed(k) => Echoed(k)'
      BY <1>0, <1>3 DEF Echoed
    <3>2. Verified(k) => Verified(k)'
      BY <1>4 DEF Verified
    <3>3. Sound(k) => Sound(k)'
      <4>1. InConfig(k) => InConfig(k)'
        BY <1>3 DEF InConfig
      <4>2. WriteWanted(k) => WriteWanted(k)'
        BY <1>0, <1>3 DEF WriteWanted
      <4>3. Written(k) => Written(k)'
        BY <1>4 DEF Written
      <4>4. Answered(k) => Answered(k)'
        BY <1>0, <1>3 DEF Answered
      <4> QED
        BY <1>1, <4>1, <4>2, <4>3, <4>4, Zenon DEF Sound
    <3> QED
      BY <1>1, <2>1, <3>1, <3>2, <3>3, Zenon DEF SettingUp
  <2>2. ASSUME stage' = "setup"
        PROVE  \E k \in 1..(4 * N + 4) : frames' = From(Round, 4 * N + 3, k) /\ SettingUp(k)'
    <3>1. PICK k \in 1..(4 * N + 4) : frames = From(Round, 4 * N + 3, k) /\ SettingUp(k)
      BY <1>1, <2>2, Zenon DEF GateInv, InRound
    <3> QED
      BY <1>1, <2>1, <3>1
  <2> QED
    BY <1>1, <2>2 DEF GateInv, InRound
<1>8. InStatus'
  <2> SUFFICES ASSUME stage = "status"
               PROVE  /\ starting' = TRUE => Configured'
                      /\ \E k \in 1..(2 * M + 1) : /\ frames' = From(StatusFrames, 2 * M, k)
                                                   /\ (starting' = TRUE /\ fine' = TRUE => Watching(k)')
    BY <1>1, Zenon DEF InStatus
  <2>1. PICK k \in 1..(2 * M + 1) : /\ frames = From(StatusFrames, 2 * M, k)
                                    /\ (starting = TRUE /\ fine = TRUE => Watching(k))
    BY Zenon DEF GateInv, InStatus
  <2>2. ASSUME starting = TRUE, Watching(k) PROVE Watching(k)'
    <3>1. ASSUME ToBeRead(StatusRegs[i])
          PROVE  \E j \in 1..M : StatusRegs[i] = StatusRegs[j] /\ k <= 2 * j - 1
      <4>1. PICK l \in DOMAIN frames : frames[l] = [cmd |-> "READ", reg |-> StatusRegs[i]]
        BY <3>1 DEF ToBeRead
      <4>2. l \in 1..(2 * M + 1 - k) /\ frames[l] = StatusFrames[(k - 1) + l]
        BY <2>1, <4>1 DEF From
      <4>3. (k - 1) + l \in 1..(2 * M) /\ k <= (k - 1) + l
        BY <1>0, <4>2
      <4>4. PICK j \in 1..M : \/ (k - 1) + l = 2 * j - 1 /\ StatusFrames[(k - 1) + l] = ReadsStatus(j)
                              \/ (k - 1) + l = 2 * j /\ StatusFrames[(k - 1) + l] = AsksStatus
        BY <4>3, StatusPositions
      <4>5. AsksStatus.cmd = "NOP" /\ ReadsStatus(j).reg = StatusRegs[j]
        BY DEF AsksStatus, ReadsStatus
      <4> QED
        BY <4>1, <4>2, <4>3, <4>4, <4>5
    <3> SUFFICES ASSUME NEW d \in Chips, chip'[d].fault # NoFault, d \notin unseen'
                 PROVE  \E j \in 1..M :
                          /\ chip'[d].fault = StatusRegs[j]
                          /\ k <= 2 * j - 1 \/ (k = 2 * j /\ chip'[d].answer \in {NoFrame, 1})
      BY DEF Watching
    <3>2. CASE d = c
      <4>1. ToBeRead(StatusRegs[i])
        BY <1>1, <3>2
      <4> QED
        BY <1>3, <3>1, <3>2, <4>1
    <3>3. CASE d # c
      <4>1. chip[d].fault # NoFault /\ d \notin unseen
        BY <1>1, <1>3, <3>3
      <4>2. PICK j \in 1..M :
                 /\ chip[d].fault = StatusRegs[j]
                 /\ k <= 2 * j - 1 \/ (k = 2 * j /\ chip[d].answer \in {NoFrame, 1})
        BY <2>2, <4>1, Zenon DEF Watching
      <4> QED
        BY <1>3, <3>3, <4>2
    <3> QED
      BY <3>2, <3>3
  <2>3. starting' = TRUE => Configured'
    BY <1>1, <1>6, Zenon DEF GateInv, InStatus
  <2> QED
    BY <1>1, <2>1, <2>2, <2>3
<1>9. stage' = "enable" => Configured' /\ \A d \in Chips: chip'[d].fault # NoFault => d \in unseen'
  <2> SUFFICES ASSUME stage = "enable"
               PROVE  Configured' /\ \A d \in Chips: chip'[d].fault # NoFault => d \in unseen'
    BY <1>1
  <2>1. starting = FALSE
    BY DEF GateInv
  <2>2. unseen' = unseen \cup {c}
    BY <1>1, <2>1 DEF ToBeRead
  <2>3. \A d \in Chips: chip[d].fault # NoFault => d \in unseen
    BY DEF GateInv
  <2>4. Configured'
    BY <1>6 DEF GateInv
  <2> QED
    BY <1>3, <2>2, <2>3, <2>4
<1>10. enabled' = TRUE => Configured'
  BY <1>1, <1>6, Zenon DEF GateInv
<1>11. /\ stage' \notin {"setup", "status"} => starting' = FALSE /\ frames' = <<>>
       /\ stage' # "setup" /\ attempt' > Attempts => 1..Attempts \subseteq troubled'
  BY <1>1 DEF GateInv
<1> QED
  BY <1>5, <1>7, <1>8, <1>9, <1>10, <1>11 DEF GateInv

(* Every step keeps the invariant.                                         *)
LEMMA GateInvKept == GateInv /\ [GateNext]_gateVars => GateInv'
<1> SUFFICES ASSUME GateInv, [GateNext]_gateVars PROVE GateInv'
  OBVIOUS
<1>1. CASE SendData
  BY <1>1, SendKeeps
<1>2. CASE GateDriverInit
  BY <1>2, InitKeeps
<1>3. CASE RoundDone
  BY <1>3, RoundDoneKeeps
<1>4. CASE StatusDone
  BY <1>4, StatusDoneKeeps
<1>5. CASE Enable \/ Dump \/ SoftReset \/ UNCHANGED gateVars
  BY <1>5, QuietKeeps
<1>6. CASE \E c \in Chips: \E i \in DOMAIN StatusRegs: Fault(c, StatusRegs[i])
  BY <1>6, FaultKeeps
<1> QED
  BY <1>1, <1>2, <1>3, <1>4, <1>5, <1>6, Zenon DEF GateNext

LEMMA GateInvHolds == GateSpec => []GateInv
<1> QED
  BY GateInvInit, GateInvKept, PTL DEF GateSpec

(* Only frames of a round touch registers and modes, and during a round    *)
(* the drivers are shut down.                                              *)
LEMMA Shut ==
  ASSUME GateInv, [GateNext]_gateVars,
         NEW c \in Chips, (chip'[c].config /\ ~chip[c].config) \/ chip'[c].reg # chip[c].reg
  PROVE  ~enabled
<1>1. GateTyped /\ chip \in [Chips -> Chip] /\ enabled \in BOOLEAN
  BY DEF GateInv, GateTyped
<1>2. ASSUME chip'[c].reg = chip[c].reg, chip'[c].config = chip[c].config PROVE FALSE
  BY <1>2
<1>3. CASE SendData
  <2>1. enabled # TRUE
    BY <1>2, <1>3, SendKeeps DEF Still
  <2> QED
    BY <1>1, <2>1, Zenon
<1>4. ASSUME NEW d \in Chips, NEW i \in DOMAIN StatusRegs, Fault(d, StatusRegs[i]) PROVE FALSE
  <2>1. chip' = [chip EXCEPT ![d].fault = StatusRegs[i]]
    BY <1>4 DEF Fault
  <2>2. chip[c] \in Chip /\ chip[d] \in Chip
    BY <1>1
  <2> DEFINE x == [chip[d] EXCEPT !.fault = StatusRegs[i]]
  <2>3. x.reg = chip[d].reg /\ x.config = chip[d].config
    BY <2>2 DEF Chip
  <2>4. chip' = [chip EXCEPT ![d] = x]
    BY <2>1
  <2> HIDE DEF x
  <2>5. chip'[c].reg = chip[c].reg /\ chip'[c].config = chip[c].config
    BY <1>1, <2>3, <2>4
  <2> QED
    BY <1>2, <2>5
<1>5. ASSUME chip' = chip PROVE FALSE
  BY <1>2, <1>5
<1>6. CASE GateDriverInit \/ RoundDone \/ StatusDone \/ Enable \/ Dump \/ SoftReset \/ UNCHANGED gateVars
  <2>1. chip' = chip
    BY <1>6 DEF GateDriverInit, RoundDone, StatusDone, Enable, Dump, SoftReset, gateVars
  <2> QED
    BY <1>5, <2>1
<1> QED
  BY <1>3, <1>4, <1>6, Zenon DEF GateNext

(* The drivers are enabled only when every register of every chip is as    *)
(* set up, and no fault was latched before it was read; chips are set up   *)
(* only when shut down; and the set-up is given up only when each of its   *)
(* rounds was disturbed: for every chain, table and number of rounds.      *)
THEOREM DriversAreSafe == GateSpec => DriversSafe
<1>1. GateInv => EnabledMeansConfigured /\ FaultsSeen /\ GivesUpDisturbed
  <2> SUFFICES ASSUME GateInv PROVE EnabledMeansConfigured /\ FaultsSeen /\ GivesUpDisturbed
    OBVIOUS
  <2>1. EnabledMeansConfigured
    <3>1. enabled \in BOOLEAN /\ (enabled = TRUE => Configured)
      BY DEF GateInv, GateTyped
    <3>2. Configured => \A i \in DOMAIN Setup: \A c \in Setup[i].chips:
                  chip[c].reg[Setup[i].reg] = Setup[i].value
      BY Tables DEF Configured, Right
    <3> QED
      BY <3>1, <3>2, Zenon DEF EnabledMeansConfigured
  <2>2. FaultsSeen
    BY DEF GateInv, FaultsSeen
  <2>3. GivesUpDisturbed
    BY DEF GateInv, GivesUpDisturbed
  <2> QED
    BY <2>1, <2>2, <2>3
<1>2. GateInv /\ [GateNext]_gateVars =>
        [\A c \in Chips: (chip'[c].config /\ ~chip[c].config) \/ chip'[c].reg # chip[c].reg
                           => ~enabled]_gateVars
  BY Shut, Zenon
<1> QED
  BY <1>1, <1>2, GateInvHolds, PTL DEF GateSpec, DriversSafe, ConfiguredShut

(* Every chip keeps registers and modes of their kinds, and Init its round *)
(* and its place in it.                                                    *)
THEOREM GateIsTyped == GateSpec => []GateTypeOK
<1>1. GateInv => GateTypeOK
  <2> SUFFICES ASSUME GateInv PROVE GateTypeOK
    OBVIOUS
  <2>0. N \in Nat /\ M \in Nat
    BY Tables
  <2>1. GateTyped /\ InRound /\ InStatus
    BY DEF GateInv
  <2>2. \A c \in Chips : /\ DOMAIN chip[c].reg = Regs
                         /\ {chip[c].config, chip[c].want} \subseteq BOOLEAN
    <3>1. ASSUME NEW c \in Chips PROVE chip[c] \in Chip
      BY <2>1 DEF GateTyped
    <3>2. ASSUME NEW ch \in Chip PROVE DOMAIN ch.reg = Regs /\ {ch.config, ch.want} \subseteq BOOLEAN
      BY DEF Chip
    <3> QED
      BY <3>1, <3>2
  <2>3. {fine, starting, enabled} \subseteq BOOLEAN
    BY <2>1, Zenon DEF GateTyped
  <2>4. Len(frames) <= 4 * (N + M) + 3
    <3>1. ASSUME NEW n \in Nat, NEW k \in 1..(n + 1), NEW f, frames = From(f, n, k)
          PROVE  Len(frames) <= n
      BY <3>1 DEF From
    <3>2. CASE stage = "setup"
      <4>1. PICK k \in 1..(4 * N + 4) : frames = From(Round, 4 * N + 3, k)
        BY <2>1, <3>2, Zenon DEF InRound
      <4>2. 4 * N + 3 \in Nat /\ k \in 1..((4 * N + 3) + 1)
        BY <2>0
      <4>3. Len(frames) <= 4 * N + 3
        BY <3>1, <4>1, <4>2, Zenon
      <4>4. Len(frames) \in Nat
        BY <4>1, <4>2 DEF From
      <4> QED
        BY <2>0, <4>3, <4>4
    <3>3. CASE stage = "status"
      <4>1. PICK k \in 1..(2 * M + 1) : frames = From(StatusFrames, 2 * M, k)
        BY <2>1, <3>3, Zenon DEF InStatus
      <4>2. 2 * M \in Nat
        BY <2>0
      <4>3. Len(frames) <= 2 * M
        BY <3>1, <4>1, <4>2, Zenon
      <4>4. Len(frames) \in Nat
        BY <4>1, <4>2 DEF From
      <4> QED
        BY <2>0, <4>3, <4>4
    <3>4. CASE stage \notin {"setup", "status"}
      <4>1. frames = <<>>
        BY <3>4 DEF GateInv
      <4> QED
        BY <2>0, <4>1
    <3> QED
      BY <3>2, <3>3, <3>4
  <2> QED
    BY <2>1, <2>2, <2>3, <2>4 DEF GateTypeOK, GateTyped, N, M
<1> QED
  BY <1>1, GateInvHolds, PTL
===============================================================================
