---------------------------- MODULE ParamStorage ----------------------------
(***************************************************************************)
(* The parameter database (params.cpp), its copy in the SPI EEPROM         *)
(* (param_save.cpp) and the settings derived from it (Param::Change).      *)
(* SAVE overwrites the only copy word by word with interrupts off, and the *)
(* supply may go at any word.  SDO writes reach the database from the      *)
(* receive interrupt, between any two statements of the main loop.         *)
(*                                                                         *)
(* Parameters are numbered as in PARAM_LIST.  An entry's two words are one *)
(* cell; the checksum word is the block it was computed over, so two       *)
(* blocks of equal checksum are equal.                                     *)
(***************************************************************************)
EXTENDS Integers

CONSTANTS
    ParamCount,     \* length of the leading run of parameters, at most 127
    Amp,            \* ampnom: its unique id is 0
    Slip,           \* fslipspnt
    AtStart,        \* settings main derives from the database before its loop
    Words,          \* values a word of the block may hold
    Allowed,        \* values within the limits of every parameter
    Default,        \* parameter -> its default value
    Zero,           \* the value main gives ampnom and fslipspnt
    Blank,          \* an entry of unknown key, as in an erased block
    Junk,           \* a word whose programming was cut off; also: no block
    OldBlocks,      \* whole blocks the EEPROM may hold from before
    MaxWrites, MaxSaves, MaxCuts  \* bounds on SDO writes, SAVEs, power cuts

Indices == 1..ParamCount

ASSUME StorageAssumption ==
    /\ ParamCount \in Nat
    /\ {Amp, Slip} \subseteq Indices /\ Amp # Slip
    /\ Allowed \subseteq Words /\ Zero \in Allowed
    /\ Default \in [Indices -> Allowed] /\ Default[Amp] = Zero
    /\ Blank \notin Words /\ Junk \notin Words /\ Blank # Junk
    /\ Junk \notin [Indices -> Words \cup {Blank, Junk}]
    /\ OldBlocks \subseteq [Indices -> Words \cup {Blank}]
    /\ {MaxWrites, MaxSaves, MaxCuts} \subseteq Nat

VARIABLES
    power,      \* "off", "loop" or "saving": what main is doing
    values,     \* Param::values
    inUse,      \* what SetBoost, SetAmpnom ... last were given
    refresh,    \* settings main is about to derive, one after the other
    fetched,    \* the one it has read and not used yet, with its value
    cells,      \* entries of the block in the EEPROM
    crc,        \* the block the stored checksum was computed over
    image,      \* buf of parm_save
    word,       \* its loop variable i
    writes, saves, cuts,  \* counters for the bounds
    snapshots,  \* history: images the EEPROM may hold whole
    durable,    \* history: image of the last SAVE that no cut disturbed, or Junk
    foreign,    \* history: the first block was saved under other limits
    asked,      \* history: ampnom was written since the start
    derived,    \* history: Param::Change ran to its end since the start
    overtaken   \* history: a write came between a setting's read and its use

ram == <<values, inUse, refresh, fetched>>
eeprom == <<cells, crc, image, word>>
sinceStart == <<asked, derived, overtaken>>
storageHistory == <<snapshots, durable, foreign, sinceStart>>
storageVars == <<power, ram, eeprom, writes, saves, cuts, storageHistory>>

(* Settings of the default case of Param::Change.  canspeed, nodeid and    *)
(* the throttle limits, which have cases of their own, are left out.       *)
Bulk == Indices \ {Amp, Slip}
Nothing == [p \in Indices |-> Blank]
-----------------------------------------------------------------------------
(* The block is taken only when its checksum fits. *)
ValidReadable == \A p \in Indices: cells[p] # Junk    \* mutant
Valid == crc = cells

(* Values after the block's entries of known key have been stored. *)
Merge(v, block) ==
    [p \in Indices |-> IF p # Amp /\ block[p] # Blank THEN block[p] ELSE v[p]]

LoadDefaults(v) == [p \in Indices |-> IF p # Amp THEN Default[p] ELSE v[p]]

parm_load(v) == IF Valid THEN Merge(v, cells) ELSE v

Change(p, v, used) ==
    IF p \in Bulk THEN [q \in Indices |-> IF q \in Bulk THEN v[q] ELSE used[q]]
                  ELSE [used EXCEPT ![p] = v[p]]

Standstill(v) == [v EXCEPT ![Amp] = Zero, ![Slip] = Zero]
-----------------------------------------------------------------------------
(* main up to its loop: defaults, the saved block, no amplitude, then the  *)
(* few settings it derives itself.  Param::Change is not called for the    *)
(* rest.                                                                   *)
Start ==
    /\ power = "off"
    /\ power' = "loop"
    /\ values' = Standstill(parm_load(LoadDefaults(values)))
    /\ inUse' = [p \in Indices |->
                    IF p \in AtStart \cup {Amp, Slip} THEN values'[p] ELSE inUse[p]]
    /\ UNCHANGED <<refresh, fetched, eeprom, writes, saves, cuts, storageHistory>>

(* An SDO write, handled in the receive interrupt: Param::Set. *)
Set(p, v) ==
    /\ power = "loop"
    /\ writes < MaxWrites
    /\ writes' = writes + 1
    /\ IF v \in Allowed
       THEN /\ values' = [values EXCEPT ![p] = v]
            /\ inUse' = Change(p, values', inUse)
            /\ asked' = (asked \/ p = Amp)
            /\ derived' = (derived \/ p \in Bulk)
            /\ overtaken' = (overtaken \/ fetched # {})
       ELSE UNCHANGED <<values, inUse, sinceStart>>
    /\ UNCHANGED <<power, refresh, fetched, eeprom, saves, cuts, snapshots, durable, foreign>>

Idle == power = "loop" /\ refresh = {}

(* The settings the default case derives.  The order of its statements is  *)
(* left open, no property tells them apart.                                *)
DerivedButLast == {p \in Bulk: \E q \in Bulk: q > p}  \* mutant
DerivedTogether == Bulk

Load ==
    /\ Idle
    /\ values' = parm_load(values)
    /\ refresh' = DerivedTogether
    /\ UNCHANGED <<power, inUse, fetched, eeprom, writes, saves, cuts, storageHistory>>

Defaults ==
    /\ Idle
    /\ values' = LoadDefaults(values)
    /\ refresh' = DerivedTogether
    /\ UNCHANGED <<power, inUse, fetched, eeprom, writes, saves, cuts, storageHistory>>

(* Every pass of the main loop: SetAmpnom and SetFslip. *)
Pass ==
    /\ Idle
    /\ refresh' = {Amp, Slip}
    /\ UNCHANGED <<power, values, inUse, fetched, eeprom, writes, saves, cuts, storageHistory>>

Fetch ==
    /\ fetched = {}
    /\ \E p \in refresh: fetched' = {<<p, values[p]>>}
    /\ UNCHANGED <<power, values, inUse, refresh, eeprom, writes, saves, cuts, storageHistory>>

Derive ==
    /\ \E f \in fetched:
          /\ inUse' = [inUse EXCEPT ![f[1]] = f[2]]
          /\ refresh' = refresh \ {f[1]}
          /\ derived' = (derived \/ (f[1] \in Bulk /\ refresh' = {}))
    /\ fetched' = {}
    /\ UNCHANGED <<power, values, eeprom, writes, saves, cuts, snapshots, durable, foreign>>
    /\ UNCHANGED <<asked, overtaken>>
-----------------------------------------------------------------------------
(* SAVE: interrupts off, the database packed, then written word by word. *)
Save ==
    /\ Idle /\ saves < MaxSaves
    /\ saves' = saves + 1
    /\ power' = "saving"
    /\ image' = values
    /\ word' = 1
    /\ snapshots' = snapshots \cup {values}
    /\ UNCHANGED <<ram, cells, crc, writes, cuts, durable, foreign, sinceStart>>

WriteEntryButLast ==                                \* mutant
    /\ power = "saving" /\ word \in Indices
    /\ cells' = IF word < ParamCount THEN [cells EXCEPT ![word] = image[word]] ELSE cells
    /\ word' = word + 1
    /\ UNCHANGED <<power, ram, crc, image, writes, saves, cuts, storageHistory>>
WriteEntry ==
    /\ power = "saving" /\ word \in Indices
    /\ cells' = [cells EXCEPT ![word] = image[word]]
    /\ word' = word + 1
    /\ UNCHANGED <<power, ram, crc, image, writes, saves, cuts, storageHistory>>

(* The checksum, a padding word, and interrupts on again. *)
WriteChecksum ==
    /\ power = "saving" /\ word = ParamCount + 1
    /\ crc' = image
    /\ power' = "loop"
    /\ image' = Nothing /\ word' = 0
    /\ snapshots' = {image}
    /\ durable' = image
    /\ foreign' = (foreign /\ \E p \in Indices: image[p] \notin Allowed)
    /\ UNCHANGED <<ram, cells, writes, saves, cuts, sinceStart>>

(* The C runtime gives the database its initial values again. *)
LoseRam ==
    /\ power' = "off"
    /\ values' = Default
    /\ inUse' = [p \in Indices |-> Zero]
    /\ refresh' = {} /\ fetched' = {}
    /\ image' = Nothing /\ word' = 0
    /\ asked' = FALSE /\ derived' = FALSE /\ overtaken' = FALSE

Reset ==
    /\ Idle
    /\ LoseRam
    /\ UNCHANGED <<cells, crc, writes, saves, cuts, snapshots, durable, foreign>>

(* Without supply; the word being programmed may come out as anything. *)
PowerCut ==
    /\ power # "off" /\ cuts < MaxCuts
    /\ cuts' = cuts + 1
    /\ LoseRam
    /\ IF power = "saving"
       THEN /\ durable' = Junk
            /\ \/ UNCHANGED <<cells, crc>>
               \/ word \in Indices /\ cells' = [cells EXCEPT ![word] = Junk] /\ UNCHANGED crc
               \/ word = ParamCount + 1 /\ crc' = Junk /\ UNCHANGED cells
       ELSE UNCHANGED <<cells, crc, durable>>
    /\ UNCHANGED <<writes, saves, snapshots, foreign>>

StorageInit ==
    /\ power = "off"
    /\ values = Default
    /\ inUse = [p \in Indices |-> Zero]
    /\ refresh = {} /\ fetched = {}
    /\ image = Nothing /\ word = 0
    /\ writes = 0 /\ saves = 0 /\ cuts = 0
    /\ asked = FALSE /\ derived = FALSE /\ overtaken = FALSE
    /\ \/ /\ cells = Nothing /\ crc = Junk /\ durable = Junk
          /\ snapshots = {} /\ foreign = FALSE
       \/ /\ cells \in OldBlocks /\ crc = cells /\ durable = cells
          /\ snapshots = {cells}
          /\ foreign = (\E p \in Indices: cells[p] \notin Allowed \cup {Blank})

StorageNext ==
    \/ Start
    \/ \E p \in Indices, v \in Words: Set(p, v)
    \/ Load \/ Defaults \/ Pass \/ Fetch \/ Derive
    \/ Save \/ WriteEntry \/ WriteChecksum
    \/ Reset \/ PowerCut

StorageSpec == StorageInit /\ [][StorageNext]_storageVars
-----------------------------------------------------------------------------
(* The type invariant of the database, the block and the main loop. *)
StorageTypeOK ==
    /\ power \in {"off", "loop", "saving"}
    /\ values \in [Indices -> Words] /\ inUse \in [Indices -> Words]
    /\ refresh \subseteq Indices
    /\ fetched \subseteq refresh \X Words
    /\ cells \in [Indices -> Words \cup {Blank, Junk}]
    /\ crc \in [Indices -> Words \cup {Blank}] \cup {Junk}
    /\ IF power = "saving" THEN image \in [Indices -> Words] /\ word \in 1..(ParamCount + 1)
                           ELSE image = Nothing /\ word = 0

(* Whatever word the supply fails at, a start or a LOAD takes over one     *)
(* saved state of the database as a whole or nothing of the block: never   *)
(* a mixture of two SAVEs (param_save.cpp:120-125).                        *)
RestoredWhole ==
    [][ \/ power' = "off"
        \/ \E p \in Indices: \A q \in Indices \ {p}: values'[q] = values[q]
        \/ values' = Standstill(LoadDefaults(values))
        \/ values' = LoadDefaults(values)
        \/ \E s \in snapshots:
              values' \in {Merge(values, s), Standstill(Merge(LoadDefaults(values), s))}
      ]_values

(* What a SAVE left is what every later start finds, until a SAVE is cut   *)
(* short: writes, LOAD, DEFAULTS and resets cost nothing that was saved.   *)
SaveDurable == durable # Junk /\ power # "saving" => cells = durable /\ Valid

(* Nothing but a block saved under other limits takes a parameter out of   *)
(* its limits: SetFixed checks none, Set and the saved values do.          *)
InLimits == ~foreign => \A p \in Indices: values[p] \in Allowed

(* An amplitude other than zero was asked for since the start: neither the *)
(* saved block nor LOAD brings back one that was saved (its id is 0).      *)
AmplitudeAsked == ~asked => values[Amp] = Zero /\ inUse[Amp] = Zero

(* Saving is safe: what was saved lasts, and neither loading nor a change  *)
(* takes a parameter where nobody asked it to go.                          *)
StorageSafe == SaveDurable /\ InLimits /\ AmplitudeAsked

(* Once Param::Change has run, the settings in use are the database's,     *)
(* except after a write that came while main was between reading a         *)
(* parameter and using it: main then puts the old value back in use.       *)
SettingsFollow ==
    refresh = {} /\ power # "off" /\ ~overtaken =>
        \A p \in Bulk: derived \/ p \in AtStart => inUse[p] = values[p]
=============================================================================
