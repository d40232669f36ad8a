----------------------------- MODULE ConfigStore -----------------------------
(***************************************************************************)
(* The configuration of the daemon: the global structure Config            *)
(* (config.h), the files under /var/lib/aioenetd that keep it              *)
(* (config.cpp), the start and the exit of the process that load and save  *)
(* it (main and exit_handler in aioenetd.cpp), and the data items that     *)
(* change it while the server runs.                                        *)
(*                                                                         *)
(* Config is a function from a few fields, each of which stands for all    *)
(* the members that are treated alike: "cal" for the ADC's coefficients,   *)
(* which are also in the card's registers, "submux" for the coefficients   *)
(* that are in Config only, "range" for the ranges of the DACs.  A file    *)
(* holds one key; a subtree is a function from the keys that it has.  All  *)
(* files are written by AtomicWriteTextFile: to a temporary file that is   *)
(* synced, then renamed.  The process may be killed, or the power fail,    *)
(* between any two steps.  Reading is one step: a crash while the files    *)
(* are read changes nothing that outlives the process.                     *)
(***************************************************************************)
EXTENDS Integers, Sequences, FiniteSets

CONSTANTS
  Coefficients,  \* the values of a scale or an offset
  Ranges,        \* the codes that TDAC_Range1 accepts
  Models,        \* the model strings, as the parsers see them (DacCount)
  Serials,       \* the serial numbers
  Default,       \* Config as InitConfig leaves it
  PowerUp,       \* the coefficients in the card's registers after a reset
  Torn,          \* a file with only a part of its contents
  Nothing,       \* no configuration
  MaxFails       \* bound: writes that fail

Fields == {"cal", "submux", "range", "model", "serial", "channels", "dacs"}

Values(f) ==
  CASE f \in {"cal", "submux"} -> Coefficients
    [] f = "range" -> Ranges
    [] f = "model" -> Models
    [] f = "serial" -> Serials
    [] f \in {"channels", "dacs"} -> 0 .. 255

\* The settings that are written to a file before the reply repeats them.  A reply
\* repeats the ADC's scale, offset and calibration (ADC_.cpp:339-356, 537-558) and the
\* values of the submuxes (BRD_.h:179-185, 306-314) just the same, but those are in
\* Config only until a clean exit: see EverySettingSurvives.
Persisted == {"range", "model", "serial"}

ASSUME DefaultAssumption ==
  /\ Default = [f \in Fields |-> Default[f]]
  /\ \A f \in Fields : Default[f] \in Values(f) /\ Torn \notin Values(f)
  /\ PowerUp \in Coefficients
  /\ MaxFails \in Nat
  /\ \A m \in Models : m.sound \in BOOLEAN /\ m.dacs \in BOOLEAN /\ m.block \in Int

-----------------------------------------------------------------------------
\* A model string is "eNET-AI", a core that begins with O when the card has DACs,
\* a block that begins with the number of ADC channels, and options, separated by
\* hyphens; it is sound when the first three are there.

RangeCodes == {"5B", "10B", "5U", "10U"}

Occurs(code, m) == \E k \in DOMAIN m.options : m.options[k] = code

\* The number of options of a model that are the range of its DACs.
RangeOptions(m) == Cardinality({k \in DOMAIN m.options : m.options[k] \in RangeCodes})

\* enet_ai_parse_dac_count, which leaves -1 in a __u8 when the model is not sound,
\* has two ranges, has DACs and no range, or no DACs and an option for them.
DacCount(m) ==
  LET refused == \/ ~m.sound \/ RangeOptions(m) > 1
                 \/ m.dacs /\ RangeOptions(m) = 0
                 \/ ~m.dacs /\ (RangeOptions(m) > 0 \/ Occurs("4AO", m))
  IN  IF refused THEN -1 % 256
      ELSE IF ~m.dacs THEN 0 ELSE IF Occurs("4AO", m) THEN 4 ELSE 2

\* enet_ai_parse_adc_channel_count.
ChannelCount(m) == IF m.sound /\ m.block \in 1 .. 128 THEN m.block ELSE 0

\* The keys of the files and the fields that they are read into, written from
\* and seeded from.  The number of DACs is seeded under one key and loaded and
\* saved under another; the number of ADC channels is not seeded.

LoadKeys == {"BRD_Model", "BRD_NumberOfAdcChannels", "BRD_SerialNumber",
             "ADC_ScaleRange", "BRD_NUM_DACs", "DAC_RangeCh", "BRD_SubmuxRange"}

Keys == LoadKeys \cup {"DAC_NumDACs"}

FieldOf(key) ==
  CASE key = "BRD_Model" -> "model"
    [] key = "BRD_NumberOfAdcChannels" -> "channels"
    [] key = "BRD_SerialNumber" -> "serial"
    [] key = "ADC_ScaleRange" -> "cal"
    [] key \in {"BRD_NUM_DACs", "DAC_NumDACs"} -> "dacs"
    [] key = "DAC_RangeCh" -> "range"
    [] key = "BRD_SubmuxRange" -> "submux"

\* What SaveBrdConfig writes.
BrdKeys == <<"BRD_Model", "BRD_NumberOfAdcChannels", "BRD_SerialNumber">>

\* FAULT: the number of DACs is saved under the key that it is seeded under.
SaveKeysAsSeeded ==
  <<"BRD_Model", "BRD_NumberOfAdcChannels", "BRD_SerialNumber", "ADC_ScaleRange",
    "DAC_NumDACs", "DAC_RangeCh", "BRD_SubmuxRange">>

SaveKeys ==
  <<"BRD_Model", "BRD_NumberOfAdcChannels", "BRD_SerialNumber", "ADC_ScaleRange",
    "BRD_NUM_DACs", "DAC_RangeCh", "BRD_SubmuxRange">>

SeedKeys == <<"BRD_Model", "BRD_SerialNumber", "ADC_ScaleRange", "DAC_NumDACs",
              "DAC_RangeCh", "BRD_SubmuxRange">>

VARIABLES
  pc,        \* what the process is doing; "off" when there is none
  apci,      \* the device file is open
  Config,    \* the global structure
  todo,      \* the keys that the function under way has still to write
  tmp,       \* the first of them has been written to its temporary file
  item,      \* the value that the data item under way is to set
  factory, current, \* the two subtrees: functions from the keys they have
  stamp,     \* the file .initialized exists
  card,      \* the calibration registers of the ADC
  fails,     \* writes that have failed
  possible,  \* history: by field, the values that a client may find set
  kept       \* history: Config as the last process left it on a clean exit

vars == <<pc, apci, Config, todo, tmp, item, factory, current, stamp, card,
          fails, possible, kept>>

memory == <<apci, Config, item>>
disk == <<factory, current, stamp>>
history == <<possible, kept>>

Put(tree, key, value) ==
  [k \in DOMAIN tree \cup {key} |-> IF k = key THEN value ELSE tree[k]]

Has(tree, key) == key \in DOMAIN tree

Init ==
  /\ pc = "off" /\ apci = FALSE /\ Config = Default
  /\ todo = <<>> /\ tmp = FALSE /\ item = Nothing
  /\ factory = <<>> /\ current = <<>> /\ stamp = FALSE
  /\ card = PowerUp
  /\ fails = 0
  /\ possible = [f \in Persisted |-> {Default[f]}]
  /\ kept = Nothing

-----------------------------------------------------------------------------
(***************************************************************************)
(* AtomicWriteTextFile.  A write that fails leaves the file as it was; all *)
(* callers but TDAC_Range1 go on as if it had been written.                *)
(***************************************************************************)

\* WriteIfMissing and SeedCurrentFromFactoryIfMissing write only what is missing.
Wanted(key) ==
  CASE pc = "factory" -> ~Has(factory, key)
    [] pc = "current" -> Has(factory, key) /\ ~Has(current, key)
    [] OTHER -> TRUE

Skip ==
  /\ todo # <<>> /\ ~tmp /\ ~Wanted(Head(todo))
  /\ todo' = Tail(todo)
  /\ UNCHANGED <<pc, memory, tmp, disk, card, fails, history>>

\* FAULT: files are written in place.
WriteInPlace ==
  /\ todo # <<>> /\ Wanted(Head(todo)) /\ ~tmp
  /\ tmp' = TRUE
  /\ factory' = IF pc = "factory" THEN Put(factory, Head(todo), Torn) ELSE factory
  /\ current' = IF pc \in {"current", "range", "brd", "save"}
                THEN Put(current, Head(todo), Torn) ELSE current
  /\ UNCHANGED <<pc, memory, todo, stamp, card, fails, history>>

WriteTmp ==
  /\ todo # <<>> /\ Wanted(Head(todo)) /\ ~tmp
  /\ tmp' = TRUE
  /\ UNCHANGED <<pc, memory, todo, disk, card, fails, history>>

\* The file under a key: what is copied from factory, the data item's value, or
\* the field of Config.
Contents(key) ==
  CASE pc = "current" -> factory[key]
    [] pc = "range" -> item
    [] OTHER -> Config[FieldOf(key)]

Rename ==
  /\ tmp
  /\ tmp' = FALSE /\ todo' = Tail(todo)
  /\ factory' = IF pc = "factory" THEN Put(factory, Head(todo), Contents(Head(todo)))
                ELSE factory
  /\ current' = IF pc \in {"current", "range", "brd", "save"}
                THEN Put(current, Head(todo), Contents(Head(todo))) ELSE current
  /\ stamp' = (stamp \/ pc = "load")
  /\ UNCHANGED <<pc, memory, card, fails, history>>

\* FAULT: TDAC_Range1 does not look at what WriteConfigString returns.
WriteFailsUnnoticed ==
  /\ todo # <<>> /\ Wanted(Head(todo)) /\ fails < MaxFails
  /\ fails' = fails + 1
  /\ tmp' = FALSE /\ todo' = Tail(todo)
  /\ UNCHANGED <<pc, memory, disk, card, history>>

WriteFails ==
  /\ todo # <<>> /\ Wanted(Head(todo)) /\ fails < MaxFails
  /\ fails' = fails + 1
  /\ tmp' = FALSE /\ todo' = Tail(todo)
  /\ item' = IF pc = "range" THEN Config["range"] ELSE item
  /\ UNCHANGED <<pc, apci, Config, disk, card, history>>

-----------------------------------------------------------------------------
(***************************************************************************)
(* The start of the process.                                               *)
(***************************************************************************)

\* FAULT: factory is seeded only when it is empty, as config.h:105 has it.
StartSeedsEmpty ==
  /\ pc = "off"
  /\ Config' = Default
  /\ pc' = IF stamp THEN "load" ELSE "factory"
  /\ todo' = IF stamp \/ factory # <<>> THEN <<>> ELSE SeedKeys
  /\ UNCHANGED <<apci, item, tmp, disk, card, fails, history>>

\* InitConfig and the tests of InitializeConfigFiles: the directories are made,
\* unless that fails, and factory is seeded where a key is missing.
Start ==
  /\ pc = "off"
  /\ Config' = Default
  /\ \/ ~stamp /\ pc' = "factory" /\ todo' = SeedKeys /\ UNCHANGED fails
     \/ stamp /\ pc' = "load" /\ UNCHANGED <<todo, fails>>
     \/ fails < MaxFails /\ fails' = fails + 1 /\ pc' = "load" /\ UNCHANGED todo
  /\ UNCHANGED <<apci, item, tmp, disk, card, history>>

\* SeedCurrentFromFactoryIfMissing copies what factory has and current has not.
SeedCurrent ==
  /\ pc = "factory" /\ todo = <<>>
  /\ pc' = "current"
  /\ todo' = SeedKeys
  /\ UNCHANGED <<memory, tmp, disk, card, fails, history>>

WriteInitStamp ==
  /\ pc = "current" /\ todo = <<>>
  /\ pc' = "load"
  /\ todo' = <<".initialized">>
  /\ UNCHANGED <<memory, tmp, disk, card, fails, history>>

\* ReadConfigString: a key is read from current, or else from factory; a value
\* that is too short is refused, and then the field keeps what it has.
Read(key, value) ==
  LET found == IF Has(current, key) THEN current[key]
               ELSE IF Has(factory, key) THEN factory[key] ELSE Torn
  IN  IF found = Torn THEN value ELSE found

LoadConfig ==
  /\ pc = "load" /\ todo = <<>>
  /\ pc' = "apply"
  /\ Config' = [f \in Fields |->
       Read(CHOOSE key \in LoadKeys : FieldOf(key) = f, Config[f])]
  /\ kept' = Nothing
  /\ UNCHANGED <<apci, item, todo, tmp, disk, card, fails, possible>>

\* ApplyConfig: without the device file out() returns an error nobody looks at.
ApplyConfig ==
  /\ pc = "apply"
  /\ pc' = "open"
  /\ card' = IF apci THEN Config["cal"] ELSE card
  /\ UNCHANGED <<memory, todo, tmp, disk, fails, history>>

OpenDevFile ==
  /\ pc = "open"
  /\ pc' = "serve" /\ apci' = TRUE
  /\ UNCHANGED <<Config, item, todo, tmp, disk, card, fails, history>>

-----------------------------------------------------------------------------
(***************************************************************************)
(* The data items that change Config, run one at a time by the             *)
(* ActionThread.                                                           *)
(***************************************************************************)

\* ADC_Scale, ADC_Offset and ADC_Calibration items: the register, then Config.
AdcCalibration(c) ==
  /\ pc = "serve"
  /\ card' = c
  /\ Config' = [Config EXCEPT !["cal"] = c]
  /\ UNCHANGED <<pc, apci, item, todo, tmp, disk, fails, history>>

\* BRD_SubmuxScale, BRD_SubmuxOffset and BRD_NumberOfSubmuxes: Config only.
Submux(c) ==
  /\ pc = "serve"
  /\ Config' = [Config EXCEPT !["submux"] = c]
  /\ UNCHANGED <<pc, apci, item, todo, tmp, disk, card, fails, history>>

\* DAC_Range1: the file first.
DacRange(r) ==
  /\ pc = "serve"
  /\ pc' = "range" /\ item' = r
  /\ todo' = <<"DAC_RangeCh">>
  /\ possible' = [possible EXCEPT !["range"] = @ \cup {r}]
  /\ UNCHANGED <<apci, Config, tmp, disk, card, fails, kept>>

\* BRD_Model: Config first, with what the parsers leave there, then the files;
\* the number of DACs is not in one of them.
Model(m) ==
  /\ pc = "serve"
  /\ pc' = "brd"
  /\ Config' = [Config EXCEPT !["model"] = m, !["dacs"] = DacCount(m),
                              !["channels"] = ChannelCount(m)]
  /\ todo' = BrdKeys
  /\ possible' = [possible EXCEPT !["model"] = @ \cup {m}]
  /\ UNCHANGED <<apci, item, tmp, disk, card, fails, kept>>

SerialNumber(s) ==
  /\ pc = "serve"
  /\ pc' = "brd"
  /\ Config' = [Config EXCEPT !["serial"] = s]
  /\ todo' = BrdKeys
  /\ possible' = [possible EXCEPT !["serial"] = @ \cup {s}]
  /\ UNCHANGED <<apci, item, tmp, disk, card, fails, kept>>

\* The files are written, or not, and the reply repeats the value that is set.
Answer ==
  /\ pc \in {"range", "brd"} /\ todo = <<>>
  /\ pc' = "serve" /\ item' = Nothing
  /\ Config' = IF pc = "range" THEN [Config EXCEPT !["range"] = item] ELSE Config
  /\ possible' = IF pc = "range" THEN [possible EXCEPT !["range"] = {item}]
                 ELSE [possible EXCEPT !["model"] = {Config["model"]},
                                       !["serial"] = {Config["serial"]}]
  /\ UNCHANGED <<apci, todo, tmp, disk, card, fails, kept>>

-----------------------------------------------------------------------------
(***************************************************************************)
(* The end of the process: exit_handler, or a crash.                       *)
(***************************************************************************)

\* The card is reset and the device file closed before Config is saved.
Exit ==
  /\ pc = "serve"
  /\ pc' = "save"
  /\ card' = PowerUp /\ apci' = FALSE
  /\ todo' = SaveKeys
  /\ UNCHANGED <<Config, item, tmp, disk, fails, history>>

Exited ==
  /\ pc = "save" /\ todo = <<>>
  /\ pc' = "off"
  /\ kept' = Config
  /\ Config' = Default
  /\ UNCHANGED <<apci, item, todo, tmp, disk, card, fails, possible>>

\* What a killed process loses; the card is reset only if the power fails.
Crash ==
  /\ pc # "off"
  /\ pc' = "off" /\ apci' = FALSE /\ Config' = Default
  /\ todo' = <<>> /\ tmp' = FALSE /\ item' = Nothing
  /\ card' \in {card, PowerUp}
  /\ UNCHANGED <<disk, fails, history>>

Next ==
  \/ Skip \/ WriteTmp \/ Rename \/ WriteFails
  \/ Start \/ SeedCurrent \/ WriteInitStamp \/ LoadConfig \/ ApplyConfig \/ OpenDevFile
  \/ \E c \in Coefficients : AdcCalibration(c) \/ Submux(c)
  \/ \E r \in Ranges : DacRange(r)
  \/ \E m \in Models : Model(m)
  \/ \E s \in Serials : SerialNumber(s)
  \/ Answer \/ Exit \/ Exited \/ Crash

Spec == Init /\ [][Next]_vars

-----------------------------------------------------------------------------
(***************************************************************************)
(* Properties.                                                             *)
(***************************************************************************)

\* Type invariant.  A subtree holds whole files with values of their fields,
\* and only a function that writes files has any left to write.
WholeFiles(tree) ==
  /\ DOMAIN tree \subseteq Keys
  /\ \A key \in DOMAIN tree : tree[key] \in Values(FieldOf(key))

TypeOK ==
  /\ pc \in {"off", "factory", "current", "load", "apply", "open", "serve",
             "range", "brd", "save"}
  /\ apci \in BOOLEAN /\ tmp \in BOOLEAN /\ stamp \in BOOLEAN
  /\ DOMAIN Config = Fields /\ \A f \in Fields : Config[f] \in Values(f)
  /\ item \in Ranges \cup {Nothing}
  /\ WholeFiles(factory) /\ WholeFiles(current)
  /\ todo # <<>> => pc \in {"factory", "current", "load", "range", "brd", "save"}
  /\ tmp => todo # <<>>
  /\ card \in Coefficients
  /\ fails \in 0 .. MaxFails
  /\ \A f \in Persisted : possible[f] \subseteq Values(f)

\* Seeding that is cut short by a crash is taken up again by the next start
\* (WriteIfMissing, config.cpp:159-166): once the stamp is written, factory has
\* every seeded key with its compiled default, and current has the key too.
SeededWhenStamped ==
  stamp /\ fails = 0 =>
    \A i \in DOMAIN SeedKeys :
      /\ Has(factory, SeedKeys[i]) /\ Has(current, SeedKeys[i])
      /\ factory[SeedKeys[i]] = Default[FieldOf(SeedKeys[i])]

\* The range of a DAC, the model or the serial number that a client was told is set
\* is still set after any crash and restart.  For the range this holds even when
\* writes fail, as TDAC_Range1 writes the file before Config (DAC_.cpp:260-267); the
\* model and the serial number are answered whether or not they are on the disk.
PersistedSettingsSurvive ==
  pc = "serve" => \A f \in Persisted :
                    f = "range" \/ fails = 0 => Config[f] \in possible[f]

\* After a clean exit the next process starts with the Config that was saved.
CleanExitKeeps ==
  [][LoadConfig /\ kept # Nothing /\ fails = 0 => Config' = kept]_vars

-----------------------------------------------------------------------------
(***************************************************************************)
(* Claims that the code does not keep.                                     *)
(***************************************************************************)

\* "All configuration that should be stored non-volatile is held in TConfig
\* structures" (config.h:7), and a reply repeats the coefficients like any other
\* setting: what a process would find that starts after a crash is what the server
\* works with.  The items of the ADC and the submuxes write no file.
Found(f) == Read(CHOOSE key \in LoadKeys : FieldOf(key) = f, Default[f])

EverySettingSurvives ==
  pc = "serve" /\ fails = 0 =>
    \A f \in Persisted \cup {"cal", "submux"} : Found(f) = Config[f]

\* "The currently in-use or about to be configuration is TConfig Config"
\* (config.h:8): the card computes with the coefficients of Config.  main calls
\* ApplyConfig before OpenDevFile, so the loaded ones never reach the card.
CalibrationInUse == pc = "serve" => card = Config["cal"]

\* "parse rawBytes, update Config.Model, persist" (BRD_.h:93): the number of
\* DACs is that of the model.  It is not among the files that are written.
DacsFitModel ==
  pc = "serve" /\ Config["model"] # Default["model"]
    => Config["dacs"] = DacCount(Config["model"])

\* SendControlHello builds a DAC_Range1 item for each of the NUM_DACs DACs, and
\* "GUARD(bytes[0] < 4, ...)" (DAC_.cpp:221) says that there are no more than
\* four: otherwise the guard throws on the receiver thread of every client that
\* connects, where nobody catches it (aioenetd.cpp:948), and the process ends.
HelloPassesGuard == pc \in {"serve", "range", "brd"} => Config["dacs"] <= 4
=============================================================================
