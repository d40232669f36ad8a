--------------------------- MODULE ConfigStoreProofs ---------------------------
(***************************************************************************)
(* Proofs about ConfigStore, for any settings, defaults, crashes and       *)
(* failed writes.                                                          *)
(***************************************************************************)
EXTENDS ConfigStore, SequenceTheorems, TLAPS

Members(s) == {s[i] : i \in DOMAIN s}

\* The keys that a function under way has still to write.
Left == Members(todo)

Seeds == {"BRD_Model", "BRD_SerialNumber", "ADC_ScaleRange", "DAC_NumDACs", "DAC_RangeCh",
          "BRD_SubmuxRange"}
Brds  == {"BRD_Model", "BRD_NumberOfAdcChannels", "BRD_SerialNumber"}

AnyKey == Keys \cup {".initialized"}

\* Which function writes which files.
Todo ==
  /\ todo \in Seq(AnyKey)
  /\ pc \in {"off", "apply", "open", "serve"} => todo = <<>>
  /\ pc \in {"factory", "current"} => Left \subseteq Seeds
  /\ pc = "load" => Left \subseteq {".initialized"}
  /\ pc = "range" => todo = <<>> \/ todo = <<"DAC_RangeCh">>
  /\ pc = "brd" => Left \subseteq Brds
  /\ pc = "save" => Left \subseteq LoadKeys
  /\ tmp => todo # <<>> /\ Wanted(Head(todo))

Shape ==
  /\ Config = [f \in Fields |-> Config[f]]
  /\ pc \in {"off", "factory", "current", "load"} => Config = Default
  /\ DOMAIN possible = Persisted
  /\ pc = "range" => item \in Ranges

Base == TypeOK /\ Todo /\ Shape

-----------------------------------------------------------------------------
(* Keys and sequences of keys.                                             *)

LEMMA KeyField == \A key \in Keys : FieldOf(key) \in Fields
BY DEF Keys, LoadKeys, FieldOf, Fields

\* Each field is loaded from one key.
LEMMA FieldKey ==
  ASSUME NEW f \in Fields
  PROVE  LET key == CHOOSE k \in LoadKeys : FieldOf(k) = f
         IN  key \in LoadKeys /\ FieldOf(key) = f
<1>1. \E k \in LoadKeys : FieldOf(k) = f
  BY DEF Fields, LoadKeys, FieldOf
<1> QED
  BY <1>1

LEMMA KeyUnique == \A j, k \in LoadKeys : FieldOf(j) = FieldOf(k) => j = k
BY DEF LoadKeys, FieldOf

LEMMA SeedMembers == SeedKeys \in Seq(AnyKey) /\ Members(SeedKeys) = Seeds /\ Seeds \subseteq Keys
<1>1. SeedKeys \in Seq(AnyKey) /\ Seeds \subseteq Keys
  BY DEF SeedKeys, AnyKey, Keys, LoadKeys, Seeds
<1>2. DOMAIN SeedKeys = {1, 2, 3, 4, 5, 6}
  BY DEF SeedKeys
<1>3. Members(SeedKeys) = Seeds
  BY <1>2 DEF SeedKeys, Members, Seeds
<1> QED
  BY <1>1, <1>3

LEMMA BrdMembers == BrdKeys \in Seq(AnyKey) /\ Members(BrdKeys) = Brds /\ Brds \subseteq LoadKeys
<1>1. BrdKeys \in Seq(AnyKey) /\ Brds \subseteq LoadKeys
  BY DEF BrdKeys, AnyKey, Keys, LoadKeys, Brds
<1>2. DOMAIN BrdKeys = {1, 2, 3}
  BY DEF BrdKeys
<1>3. Members(BrdKeys) = Brds
  BY <1>2 DEF BrdKeys, Members, Brds
<1> QED
  BY <1>1, <1>3

LEMMA SaveMembers == SaveKeys \in Seq(AnyKey) /\ Members(SaveKeys) = LoadKeys
<1>1. SaveKeys \in Seq(AnyKey)
  BY DEF SaveKeys, AnyKey, Keys, LoadKeys
<1>2. DOMAIN SaveKeys = {1, 2, 3, 4, 5, 6, 7}
  BY DEF SaveKeys
<1>3. Members(SaveKeys) = LoadKeys
  BY <1>2 DEF SaveKeys, Members, LoadKeys
<1> QED
  BY <1>1, <1>3

LEMMA OneMember == \A k : Members(<<k>>) = {k}
<1>1. \A k : DOMAIN <<k>> = {1} /\ <<k>>[1] = k
  OBVIOUS
<1> QED
  BY <1>1 DEF Members

LEMMA NoMember == Members(<<>>) = {} /\ <<>> \in Seq(AnyKey)
<1>1. DOMAIN <<>> = {} /\ <<>> \in Seq(AnyKey)
  BY EmptySeq
<1> QED
  BY <1>1 DEF Members

\* What is left after the first file.
LEMMA TailMembers ==
  ASSUME NEW s \in Seq(AnyKey), s # <<>>
  PROVE  /\ Head(s) \in AnyKey /\ Head(s) \in Members(s)
         /\ Tail(s) \in Seq(AnyKey)
         /\ Members(s) = {Head(s)} \cup Members(Tail(s))
<1>1. /\ Head(s) \in AnyKey /\ Head(s) = s[1] /\ Tail(s) \in Seq(AnyKey)
      /\ Len(Tail(s)) = Len(s) - 1
      /\ \A k \in 1 .. Len(Tail(s)) : Tail(s)[k] = s[k + 1]
  BY HeadTailProperties
<1>2. /\ DOMAIN s = 1 .. Len(s) /\ Len(s) \in Nat /\ Len(s) >= 1
      /\ DOMAIN Tail(s) = 1 .. Len(s) - 1
  BY <1>1, LenProperties, EmptySeq
<1>3. \A x \in Members(s) : x = Head(s) \/ x \in Members(Tail(s))
  <2> SUFFICES ASSUME NEW k \in DOMAIN s, k # 1 PROVE s[k] \in Members(Tail(s))
    BY <1>1 DEF Members
  <2>1. k - 1 \in 1 .. Len(s) - 1 /\ (k - 1) + 1 = k
    BY <1>2
  <2> QED
    BY <1>1, <1>2, <2>1 DEF Members
<1>4. \A x \in Members(Tail(s)) : x \in Members(s)
  <2> SUFFICES ASSUME NEW k \in DOMAIN Tail(s) PROVE Tail(s)[k] \in Members(s)
    BY DEF Members
  <2>1. k + 1 \in DOMAIN s /\ Tail(s)[k] = s[k + 1]
    BY <1>1, <1>2
  <2> QED
    BY <2>1 DEF Members
<1>5. Head(s) \in Members(s)
  BY <1>1, <1>2 DEF Members
<1> QED
  BY <1>1, <1>3, <1>4, <1>5

-----------------------------------------------------------------------------
(* Types: who has what to write, and what the files hold.                  *)

ConfigOK(c) == c = [f \in Fields |-> c[f]] /\ \A f \in Fields : c[f] \in Values(f)

\* The values of the fields.
LEMMA FieldValues ==
  /\ Values("cal") = Coefficients /\ Values("submux") = Coefficients
  /\ Values("range") = Ranges /\ Values("model") = Models /\ Values("serial") = Serials
  /\ Values("channels") = 0 .. 255 /\ Values("dacs") = 0 .. 255
BY DEF Values

LEMMA Byte == \A a \in Int : a % 256 \in 0 .. 255
OBVIOUS

LEMMA CountsFit == \A m \in Models : DacCount(m) \in 0 .. 255 /\ ChannelCount(m) \in 0 .. 255
<1> SUFFICES ASSUME NEW m \in Models PROVE DacCount(m) \in 0 .. 255 /\ ChannelCount(m) \in 0 .. 255
  OBVIOUS
<1>1. -1 % 256 \in 0 .. 255
  <2>1. PICK a \in Int : a = -1
    OBVIOUS
  <2>2. a % 256 \in 0 .. 255
    BY Byte
  <2> QED
    BY ONLY <2>1, <2>2, Zenon
<1>2. DacCount(m) \in {-1 % 256, 0, 2, 4}
  BY DEF DacCount
<1>3. DacCount(m) \in 0 .. 255
  BY <1>1, <1>2
<1>4. m.block \in Int
  BY DefaultAssumption
<1>5. ChannelCount(m) \in 0 .. 255
  BY <1>4 DEF ChannelCount
<1> QED
  BY <1>3, <1>5

LEMMA DefaultOK == ConfigOK(Default)
BY DefaultAssumption DEF ConfigOK

LEMMA ConfigTyped == Base => ConfigOK(Config)
BY DEF Base, TypeOK, Shape, ConfigOK

\* What a change of one field leaves of Config.
LEMMA FieldSet ==
  ASSUME NEW c, ConfigOK(c), NEW f \in Fields, NEW v \in Values(f)
  PROVE  ConfigOK([c EXCEPT ![f] = v])
BY DEF ConfigOK

LEMMA BaseInit == Init => Base
<1> SUFFICES ASSUME Init PROVE Base
  OBVIOUS
<1>1. DOMAIN <<>> = {} /\ ConfigOK(Default)
  BY DefaultOK
<1>2. TypeOK
  <2>1. DOMAIN Config = Fields /\ \A f \in Fields : Config[f] \in Values(f)
    BY <1>1 DEF Init, ConfigOK
  <2>2. WholeFiles(factory) /\ WholeFiles(current)
    BY <1>1 DEF Init, WholeFiles
  <2>3. \A f \in Persisted : possible[f] \subseteq Values(f)
    BY <1>1 DEF Init, ConfigOK, Persisted, Fields
  <2>4. fails \in 0 .. MaxFails /\ card \in Coefficients
    BY DefaultAssumption DEF Init
  <2>5. /\ pc = "off" /\ apci = FALSE /\ tmp = FALSE /\ stamp = FALSE /\ item = Nothing
        /\ todo = <<>>
    BY DEF Init
  <2> QED
    BY <2>1, <2>2, <2>3, <2>4, <2>5 DEF TypeOK
<1>3. Todo
  BY NoMember DEF Init, Todo
<1>4. Shape
  BY <1>1 DEF Init, Shape, ConfigOK
<1> QED
  BY <1>2, <1>3, <1>4 DEF Base

\* The steps of the start that read, or find out what is to be written.
LEMMA StartTyped ==
  ASSUME Base, Start \/ SeedCurrent \/ WriteInitStamp \/ ApplyConfig \/ OpenDevFile
  PROVE  Base'
<1>0. ConfigOK(Default) /\ ConfigOK(Config)
  BY DefaultOK, ConfigTyped
<1>1. CASE Start
  <2>1. /\ Config' = Default /\ todo = <<>> /\ ~tmp
        /\ UNCHANGED <<apci, item, tmp, disk, card, history>>
        /\ \/ pc' = "factory" /\ todo' = SeedKeys
           \/ pc' = "load" /\ todo' = <<>>
        /\ fails' \in 0 .. MaxFails
    BY <1>1, DefaultAssumption DEF Start, Base, Todo, TypeOK
  <2>2. TypeOK'
    BY <1>0, <2>1 DEF Base, TypeOK, disk, history, WholeFiles, ConfigOK
  <2>3. Todo'
    BY <2>1, SeedMembers, NoMember DEF Todo, Left, Base, Wanted
  <2>4. Shape'
    BY <1>0, <2>1 DEF Base, Shape, history, ConfigOK
  <2> QED
    BY <2>2, <2>3, <2>4 DEF Base
<1>2. CASE SeedCurrent \/ WriteInitStamp
  <2>1. /\ pc \in {"factory", "current"} /\ todo = <<>> /\ ~tmp
        /\ UNCHANGED <<apci, Config, item, tmp, disk, card, fails, history>>
        /\ \/ pc' = "current" /\ todo' = SeedKeys
           \/ pc' = "load" /\ todo' = <<".initialized">>
    BY <1>2 DEF SeedCurrent, WriteInitStamp, memory, Base, Todo
  <2>2. TypeOK'
    BY <2>1 DEF Base, TypeOK, disk, history, WholeFiles
  <2>3. <<".initialized">> \in Seq(AnyKey) /\ Members(<<".initialized">>) = {".initialized"}
    BY OneMember DEF AnyKey
  <2>4. Todo'
    BY <2>1, <2>3, SeedMembers DEF Todo, Left, Base
  <2>5. Shape'
    BY <2>1 DEF Base, Shape, history
  <2> QED
    BY <2>2, <2>4, <2>5 DEF Base
<1>3. CASE ApplyConfig \/ OpenDevFile
  <2>1. /\ pc \in {"apply", "open"} /\ todo = <<>> /\ ~tmp /\ pc' \in {"open", "serve"}
        /\ UNCHANGED <<Config, item, todo, tmp, disk, fails, history>>
        /\ apci' \in BOOLEAN /\ card' \in Coefficients
    BY <1>0, <1>3, FieldValues
       DEF ApplyConfig, OpenDevFile, memory, Base, Todo, TypeOK, ConfigOK, Fields
  <2>2. TypeOK'
    BY <2>1 DEF Base, TypeOK, disk, history, WholeFiles
  <2>3. Todo'
    BY <2>1 DEF Todo, Base
  <2>4. Shape'
    BY <2>1 DEF Base, Shape, history
  <2> QED
    BY <2>2, <2>3, <2>4 DEF Base
<1> QED
  BY <1>1, <1>2, <1>3

\* What is read is the value of a file, or what the field has.
LEMMA ReadTyped ==
  ASSUME Base, NEW key \in Keys, NEW v \in Values(FieldOf(key))
  PROVE  Read(key, v) \in Values(FieldOf(key))
BY DEF Read, Has, Base, TypeOK, WholeFiles

LEMMA LoadTyped == ASSUME Base, LoadConfig PROVE Base'
<1>1. ConfigOK(Config)
  BY ConfigTyped
<1>2. /\ pc = "load" /\ pc' = "apply" /\ todo = <<>> /\ ~tmp
      /\ UNCHANGED <<apci, item, todo, tmp, disk, card, fails, possible>>
  BY DEF LoadConfig, Base, Todo
<1>3. ASSUME NEW f \in Fields
      PROVE  Read(CHOOSE key \in LoadKeys : FieldOf(key) = f, Config[f]) \in Values(f)
  <2>1. PICK key \in Keys : FieldOf(key) = f /\ key = CHOOSE k \in LoadKeys : FieldOf(k) = f
    BY FieldKey DEF Keys
  <2> QED
    BY <1>1, <2>1, ReadTyped DEF ConfigOK
<1>4. Config' = [f \in Fields |-> Config'[f]] /\ \A f \in Fields : Config'[f] \in Values(f)
  BY <1>3 DEF LoadConfig
<1>5. TypeOK'
  BY <1>2, <1>4 DEF Base, TypeOK, disk, WholeFiles
<1>6. Todo'
  BY <1>2 DEF Todo, Base
<1>7. Shape'
  BY <1>2, <1>4 DEF Base, Shape
<1> QED
  BY <1>5, <1>6, <1>7 DEF Base

\* The data items, the end of the process, and its death.
LEMMA ItemTyped ==
  ASSUME Base,
         \/ \E c \in Coefficients : AdcCalibration(c) \/ Submux(c)
         \/ \E r \in Ranges : DacRange(r)
         \/ \E m \in Models : Model(m)
         \/ \E s \in Serials : SerialNumber(s)
         \/ Answer
  PROVE  Base'
<1>0. ConfigOK(Config)
  BY ConfigTyped
<1>1. ASSUME NEW c \in Coefficients, AdcCalibration(c) \/ Submux(c) PROVE Base'
  <2>1. /\ pc = "serve" /\ pc' = pc /\ todo = <<>> /\ ~tmp
        /\ UNCHANGED <<apci, item, todo, tmp, disk, fails, history>>
        /\ card' \in Coefficients
        /\ \E f \in {"cal", "submux"} : Config' = [Config EXCEPT ![f] = c]
    BY <1>1 DEF AdcCalibration, Submux, Base, Todo, TypeOK
  <2>2. ConfigOK(Config')
    <3>1. PICK f \in {"cal", "submux"} : Config' = [Config EXCEPT ![f] = c]
      BY <2>1
    <3>2. f \in Fields /\ c \in Values(f)
      BY FieldValues DEF Fields
    <3> QED
      BY <1>0, <3>1, <3>2, FieldSet
  <2>3. TypeOK'
    BY <2>1, <2>2 DEF Base, TypeOK, disk, history, WholeFiles, ConfigOK
  <2>4. Todo'
    BY <2>1 DEF Todo, Base
  <2>5. Shape'
    BY <2>1, <2>2 DEF Base, Shape, history, ConfigOK
  <2> QED
    BY <2>3, <2>4, <2>5 DEF Base
<1>2. ASSUME NEW r \in Ranges, DacRange(r) PROVE Base'
  <2>1. /\ pc = "serve" /\ pc' = "range" /\ item' = r /\ todo = <<>> /\ ~tmp
        /\ todo' = <<"DAC_RangeCh">>
        /\ possible' = [possible EXCEPT !["range"] = @ \cup {r}]
        /\ UNCHANGED <<apci, Config, tmp, disk, card, fails, kept>>
    BY <1>2 DEF DacRange, Base, Todo
  <2>2. DOMAIN possible' = Persisted /\ \A f \in Persisted : possible'[f] \subseteq Values(f)
    BY <2>1, FieldValues DEF Base, Shape, TypeOK, Persisted
  <2>3. TypeOK'
    BY <2>1, <2>2 DEF Base, TypeOK, disk, WholeFiles
  <2>4. Todo'
    <3>1. <<"DAC_RangeCh">> \in Seq(AnyKey)
      BY DEF AnyKey, Keys, LoadKeys
    <3> QED
      BY <2>1, <3>1 DEF Todo, Base
  <2>5. Shape'
    BY <2>1, <2>2 DEF Base, Shape
  <2> QED
    BY <2>3, <2>4, <2>5 DEF Base
<1>3. ASSUME \/ \E m \in Models : Model(m)
             \/ \E s \in Serials : SerialNumber(s)
      PROVE Base'
  <2>1. /\ pc = "serve" /\ pc' = "brd" /\ todo = <<>> /\ ~tmp /\ todo' = BrdKeys
        /\ UNCHANGED <<apci, item, tmp, disk, card, fails, kept>>
    BY <1>3 DEF Model, SerialNumber, Base, Todo
  <2>2. ConfigOK(Config')
    <3>1. ASSUME NEW m \in Models, Model(m) PROVE ConfigOK(Config')
      <4>1. /\ m \in Values("model") /\ DacCount(m) \in Values("dacs")
            /\ ChannelCount(m) \in Values("channels")
            /\ {"model", "dacs", "channels"} \subseteq Fields
        BY FieldValues, CountsFit DEF Fields
      <4>2. Config' = [[[Config EXCEPT !["model"] = m] EXCEPT !["dacs"] = DacCount(m)]
                         EXCEPT !["channels"] = ChannelCount(m)]
        BY <3>1 DEF Model
      <4> QED
        BY <1>0, <4>1, <4>2, FieldSet
    <3>2. ASSUME NEW s \in Serials, SerialNumber(s) PROVE ConfigOK(Config')
      BY <1>0, <3>2, FieldSet, FieldValues DEF SerialNumber, Fields
    <3> QED
      BY <1>3, <3>1, <3>2
  <2>3. DOMAIN possible' = Persisted /\ \A f \in Persisted : possible'[f] \subseteq Values(f)
    BY <1>3, FieldValues DEF Model, SerialNumber, Base, Shape, TypeOK, Persisted
  <2>4. TypeOK'
    BY <2>1, <2>2, <2>3 DEF Base, TypeOK, disk, WholeFiles, ConfigOK
  <2>5. Todo'
    BY <2>1, BrdMembers DEF Todo, Base, Left
  <2>6. Shape'
    BY <2>1, <2>2, <2>3 DEF Base, Shape, ConfigOK
  <2> QED
    BY <2>4, <2>5, <2>6 DEF Base
<1>4. ASSUME Answer PROVE Base'
  <2>1. /\ pc \in {"range", "brd"} /\ pc' = "serve" /\ item' = Nothing /\ todo = <<>> /\ ~tmp
        /\ UNCHANGED <<apci, todo, tmp, disk, card, fails, kept>>
        /\ Config' = IF pc = "range" THEN [Config EXCEPT !["range"] = item] ELSE Config
        /\ possible' = IF pc = "range" THEN [possible EXCEPT !["range"] = {item}]
                       ELSE [possible EXCEPT !["model"] = {Config["model"]},
                                             !["serial"] = {Config["serial"]}]
    BY <1>4 DEF Answer, Base, Todo
  <2>2. pc = "range" => item \in Values("range")
    BY FieldValues DEF Base, Shape
  <2>3. ConfigOK(Config')
    BY <1>0, <2>1, <2>2, FieldSet DEF Fields
  <2>4. DOMAIN possible' = Persisted /\ \A f \in Persisted : possible'[f] \subseteq Values(f)
    BY <1>0, <2>1, <2>2 DEF Base, Shape, TypeOK, Persisted, ConfigOK, Fields
  <2>5. TypeOK'
    BY <2>1, <2>3, <2>4 DEF Base, TypeOK, disk, WholeFiles, ConfigOK
  <2>6. Todo'
    BY <2>1 DEF Todo, Base
  <2>7. Shape'
    BY <2>1, <2>3, <2>4 DEF Base, Shape, ConfigOK
  <2> QED
    BY <2>5, <2>6, <2>7 DEF Base
<1> QED
  BY <1>1, <1>2, <1>3, <1>4

LEMMA EndTyped == ASSUME Base, Exit \/ Exited \/ Crash PROVE Base'
<1>0. ConfigOK(Config) /\ ConfigOK(Default)
  BY ConfigTyped, DefaultOK
<1>1. /\ \/ pc' = "save" /\ todo' = SaveKeys
         \/ pc' = "off" /\ todo' = <<>>
      /\ UNCHANGED <<disk, fails, possible>>
      /\ tmp' = FALSE /\ apci' \in BOOLEAN /\ card' \in Coefficients
      /\ pc' = "off" => Config' = Default
      /\ Config' \in {Config, Default} /\ item' \in Ranges \cup {Nothing}
  BY DefaultAssumption DEF Exit, Exited, Crash, history, Base, TypeOK, Todo
<1>2. ConfigOK(Config')
  BY <1>0, <1>1
<1>3. TypeOK'
  BY <1>1, <1>2 DEF Base, TypeOK, disk, WholeFiles, ConfigOK
<1>4. Todo'
  BY <1>1, SaveMembers, NoMember DEF Todo, Left
<1>5. Shape'
  BY <1>1, <1>2 DEF Base, Shape, ConfigOK
<1> QED
  BY <1>3, <1>4, <1>5 DEF Base

\* What the next file may be, by the function that writes it.
LEMMA HeadKnown ==
  ASSUME Base, todo # <<>>
  PROVE  /\ Head(todo) \in Left /\ Head(todo) \in AnyKey
         /\ Tail(todo) \in Seq(AnyKey)
         /\ Left = {Head(todo)} \cup Members(Tail(todo))
         /\ pc \in {"factory", "current"} => Head(todo) \in Seeds
         /\ pc = "load" => Head(todo) = ".initialized"
         /\ pc = "range" => Head(todo) = "DAC_RangeCh" /\ Tail(todo) = <<>>
         /\ pc = "brd" => Head(todo) \in Brds
         /\ pc = "save" => Head(todo) \in LoadKeys

         /\ pc \in {"factory", "current", "load", "range", "brd", "save"}
<1>1. /\ Head(todo) \in Left /\ Head(todo) \in AnyKey /\ Tail(todo) \in Seq(AnyKey)
      /\ Left = {Head(todo)} \cup Members(Tail(todo))
  BY TailMembers DEF Base, Todo, Left
<1>2. \A k : Head(<<k>>) = k /\ Tail(<<k>>) = <<>>
  OBVIOUS
<1>3. pc = "range" => Head(todo) = "DAC_RangeCh" /\ Tail(todo) = <<>>
  BY <1>2 DEF Base, Todo
<1> QED
  BY <1>1, <1>3 DEF Base, Todo, TypeOK

\* What is written under a key is a value of its field.
LEMMA ContentsTyped ==
  ASSUME Base, todo # <<>>, Wanted(Head(todo)), pc # "load"
  PROVE  Head(todo) \in Keys /\ Contents(Head(todo)) \in Values(FieldOf(Head(todo)))
<1>1. Head(todo) \in Keys
  <2>1. Seeds \subseteq Keys /\ Brds \subseteq Keys /\ LoadKeys \subseteq Keys
        /\ "DAC_RangeCh" \in Keys
    BY SeedMembers, BrdMembers DEF Keys, LoadKeys
  <2> QED
    BY <2>1, HeadKnown
<1>2. ConfigOK(Config) /\ FieldOf(Head(todo)) \in Fields
  BY <1>1, ConfigTyped, KeyField
<1>3. CASE pc = "current"
  BY <1>1, <1>3 DEF Contents, Wanted, Has, Base, TypeOK, WholeFiles
<1>4. CASE pc = "range"
  <2>1. Head(todo) = "DAC_RangeCh" /\ item \in Ranges
    BY <1>4, HeadKnown DEF Base, Shape
  <2>2. FieldOf("DAC_RangeCh") = "range"
    BY DEF FieldOf
  <2> QED
    BY <1>1, <1>4, <2>1, <2>2, FieldValues DEF Contents
<1>5. CASE pc \notin {"current", "range"}
  BY <1>1, <1>2, <1>5 DEF Contents, ConfigOK
<1> QED
  BY <1>1, <1>3, <1>4, <1>5

LEMMA PutTyped ==
  ASSUME NEW tree, WholeFiles(tree), NEW key \in Keys, NEW v \in Values(FieldOf(key))
  PROVE  WholeFiles(Put(tree, key, v))
BY DEF WholeFiles, Put

\* The list gets shorter; what is left is written by the same function.
LEMMA TailTyped ==
  ASSUME Base, todo # <<>>, pc' = pc, tmp' = FALSE, todo' = Tail(todo)
  PROVE  Todo'
<1>1. /\ Tail(todo) \in Seq(AnyKey) /\ Members(Tail(todo)) \subseteq Left
      /\ pc = "range" => Tail(todo) = <<>>
      /\ pc \in {"factory", "current", "load", "range", "brd", "save"}
  BY HeadKnown
<1>2. Left' \subseteq Left
  BY <1>1 DEF Left
<1> QED
  BY <1>1, <1>2 DEF Base, Todo

LEMMA WriteTyped ==
  ASSUME Base, Skip \/ WriteTmp \/ Rename \/ WriteFails
  PROVE  Base'
<1>1. CASE Skip
  <2>1. /\ todo # <<>> /\ tmp' = FALSE /\ todo' = Tail(todo)
        /\ UNCHANGED <<pc, memory, disk, card, fails, history>>
    <3>1. tmp = FALSE
      BY <1>1 DEF Skip, Base, Todo, TypeOK
    <3> QED
      BY <1>1, <3>1 DEF Skip
  <2>2. Todo'
    BY <2>1, TailTyped
  <2>3. TypeOK'
    BY <2>1, HeadKnown DEF Base, TypeOK, memory, disk, history, WholeFiles
  <2>4. Shape'
    BY <2>1 DEF Base, Shape, memory, history
  <2> QED
    BY <2>2, <2>3, <2>4 DEF Base
<1>2. CASE WriteTmp
  <2>1. /\ todo # <<>> /\ Wanted(Head(todo)) /\ tmp' = TRUE
        /\ UNCHANGED <<pc, memory, todo, disk, card, fails, history>>
    BY <1>2 DEF WriteTmp
  <2>2. Wanted(Head(todo))'
    BY <2>1 DEF Wanted, Has, disk
  <2>3. Todo'
    BY <2>1, <2>2 DEF Base, Todo, Left
  <2>4. TypeOK'
    BY <2>1 DEF Base, TypeOK, memory, disk, history, WholeFiles
  <2>5. Shape'
    BY <2>1 DEF Base, Shape, memory, history
  <2> QED
    BY <2>3, <2>4, <2>5 DEF Base
<1>3. CASE Rename
  <2>1. /\ todo # <<>> /\ Wanted(Head(todo)) /\ tmp' = FALSE /\ todo' = Tail(todo)
        /\ UNCHANGED <<pc, memory, card, fails, history>>
        /\ stamp' \in BOOLEAN
    BY <1>3 DEF Rename, Base, Todo, TypeOK
  <2>2. Todo'
    BY <2>1, TailTyped
  <2>3. WholeFiles(factory') /\ WholeFiles(current')
    <3>1. WholeFiles(factory) /\ WholeFiles(current)
      BY DEF Base, TypeOK
    <3>2. CASE pc = "load"
      BY <1>3, <3>1, <3>2 DEF Rename
    <3>3. CASE pc # "load"
      <4>1. Head(todo) \in Keys /\ Contents(Head(todo)) \in Values(FieldOf(Head(todo)))
        BY <2>1, <3>3, ContentsTyped
      <4> QED
        BY <1>3, <3>1, <4>1, PutTyped DEF Rename
    <3> QED
      BY <3>2, <3>3
  <2>4. TypeOK'
    BY <2>1, <2>3, HeadKnown DEF Base, TypeOK, memory, history, WholeFiles
  <2>5. Shape'
    BY <2>1 DEF Base, Shape, memory, history
  <2> QED
    BY <2>2, <2>4, <2>5 DEF Base
<1>4. CASE WriteFails
  <2>1. /\ todo # <<>> /\ tmp' = FALSE /\ todo' = Tail(todo)
        /\ UNCHANGED <<pc, apci, Config, disk, card, history>>
        /\ fails' \in 0 .. MaxFails
        /\ item' = IF pc = "range" THEN Config["range"] ELSE item
    BY <1>4, DefaultAssumption DEF WriteFails, Base, TypeOK
  <2>2. Todo'
    BY <2>1, TailTyped
  <2>3. item' \in Ranges \cup {Nothing} /\ (pc = "range" => item' \in Ranges)
    BY <2>1, ConfigTyped, FieldValues DEF ConfigOK, Fields, Base, TypeOK
  <2>4. TypeOK'
    BY <2>1, <2>3, HeadKnown DEF Base, TypeOK, disk, history, WholeFiles
  <2>5. Shape'
    BY <2>1, <2>3 DEF Base, Shape, history
  <2> QED
    BY <2>2, <2>4, <2>5 DEF Base
<1> QED
  BY <1>1, <1>2, <1>3, <1>4

LEMMA BaseStep == Base /\ [Next]_vars => Base'
<1> SUFFICES ASSUME Base, [Next]_vars PROVE Base'
  OBVIOUS
<1>1. CASE UNCHANGED vars
  <2>1. UNCHANGED <<pc, apci, Config, todo, tmp, item, factory, current, stamp, card,
                    fails, possible, kept>>
    BY <1>1 DEF vars
  <2>2. TypeOK'
    BY <2>1 DEF Base, TypeOK, WholeFiles
  <2>3. Todo'
    BY <2>1 DEF Base, Todo, Left, Wanted, Has
  <2>4. Shape'
    BY <2>1 DEF Base, Shape
  <2> QED
    BY <2>2, <2>3, <2>4 DEF Base
<1> QED
  BY <1>1, StartTyped, LoadTyped, ItemTyped, EndTyped, WriteTyped DEF Next

\* Every file holds a whole value of its field, and only a function that writes
\* files has any left to write (AtomicWriteTextFile, config.cpp:94-157).
THEOREM ConfigTypeOK == Spec => []TypeOK
<1> QED
  BY BaseInit, BaseStep, PTL DEF Spec, Base

-----------------------------------------------------------------------------
(* Seeding: a key is in the tree, or the function under way still has it.  *)

Seeding ==
  /\ DOMAIN factory \subseteq Seeds
  /\ \A key \in DOMAIN factory : factory[key] = Default[FieldOf(key)]
  /\ fails = 0 =>
       /\ pc = "factory" => \A key \in Seeds : Has(factory, key) \/ key \in Left
       /\ pc = "current" => \A key \in Seeds : /\ Has(factory, key)
                                               /\ Has(current, key) \/ key \in Left
       /\ stamp \/ (pc = "load" /\ todo # <<>>) =>
            \A key \in Seeds : Has(factory, key) /\ Has(current, key)

LEMMA SeedingInit == Init => Seeding
BY DEF Init, Seeding

\* After a write that failed, only what factory holds is known.
LEMMA SeedingFailed ==
  ASSUME Seeding, UNCHANGED factory, fails' # 0
  PROVE  Seeding'
BY DEF Seeding

\* Once the process runs, or has died, nothing is seeded.
LEMMA SeedingIdle ==
  ASSUME Base, Seeding, UNCHANGED <<disk, fails>>,
         pc' \notin {"factory", "current"}, pc' = "load" => todo' = <<>>
  PROVE  Seeding'
BY DEF Seeding, disk, Has

\* A file does not vanish, and the one that is written is what is said.
LEMMA PutHas ==
  ASSUME NEW tree, NEW key, NEW v
  PROVE  /\ DOMAIN Put(tree, key, v) = DOMAIN tree \cup {key}
         /\ Put(tree, key, v)[key] = v
         /\ \A k \in DOMAIN tree : k # key => Put(tree, key, v)[k] = tree[k]
BY DEF Put

LEMMA SeedingWrite ==
  ASSUME Base, Seeding, Skip \/ Rename
  PROVE  Seeding'
<1>0. /\ todo # <<>> /\ todo' = Tail(todo) /\ Head(todo) \in Left
      /\ Left = {Head(todo)} \cup Left'
      /\ pc' = pc /\ UNCHANGED <<Config, fails>>
      /\ pc \in {"factory", "current"} => Head(todo) \in Seeds
  <2>1. todo # <<>> /\ todo' = Tail(todo) /\ pc' = pc /\ UNCHANGED <<Config, fails>>
    BY DEF Skip, Rename, memory, Base, Todo
  <2> QED
    BY <2>1, HeadKnown DEF Left
<1>1. CASE Skip
  <2>1. UNCHANGED disk /\ ~Wanted(Head(todo))
    BY <1>1 DEF Skip
  <2>2. pc \in {"factory", "current"}
    BY <2>1 DEF Wanted
  <2>3. CASE pc = "factory"
    BY <1>0, <2>1, <2>3 DEF Seeding, Wanted, disk, Has
  <2>4. CASE pc = "current"
    BY <1>0, <2>1, <2>4 DEF Seeding, Wanted, disk, Has
  <2> QED
    BY <2>2, <2>3, <2>4
<1>2. CASE Rename /\ pc = "factory"
  <2>1. factory' = Put(factory, Head(todo), Default[FieldOf(Head(todo))])
        /\ UNCHANGED <<current, stamp>>
    BY <1>2 DEF Rename, Contents, Base, Shape, TypeOK
  <2>2. DOMAIN factory' = DOMAIN factory \cup {Head(todo)}
    BY <2>1, PutHas
  <2>3. \A key \in DOMAIN factory' : factory'[key] = Default[FieldOf(key)]
    <3>1. factory'[Head(todo)] = Default[FieldOf(Head(todo))]
      BY <2>1 DEF Put
    <3>2. \A key \in DOMAIN factory : key # Head(todo) => factory'[key] = factory[key]
      BY <2>1 DEF Put
    <3> QED
      BY <2>2, <3>1, <3>2 DEF Seeding
  <2>4. DOMAIN factory' \subseteq Seeds
    BY <1>0, <1>2, <2>2 DEF Seeding
  <2>5. \A key \in Seeds : Has(factory, key) \/ key \in Left => Has(factory, key)' \/ key \in Left'
    BY <1>0, <2>2 DEF Has
  <2>6. \A key \in Seeds : Has(factory, key) /\ Has(current, key) => Has(factory, key)' /\ Has(current, key)'
    BY <2>1, <2>2 DEF Has
  <2> QED
    BY <1>0, <1>2, <2>1, <2>3, <2>4, <2>5, <2>6 DEF Seeding
<1>3. CASE Rename /\ pc = "current"
  <2>1. /\ current' = Put(current, Head(todo), Contents(Head(todo)))
        /\ UNCHANGED <<factory, stamp>>
    BY <1>3 DEF Rename, Base, TypeOK
  <2>2. DOMAIN current' = DOMAIN current \cup {Head(todo)}
    BY <2>1, PutHas
  <2> QED
    BY <1>0, <1>3, <2>1, <2>2 DEF Seeding, Has
<1>4. CASE Rename /\ pc \notin {"factory", "current"}
  <2>1. UNCHANGED factory /\ stamp' = (stamp \/ pc = "load")
    BY <1>4 DEF Rename
  <2>2. DOMAIN current \subseteq DOMAIN current'
    <3>1. current' = current \/ current' = Put(current, Head(todo), Contents(Head(todo)))
      BY <1>4 DEF Rename
    <3> QED
      BY <3>1 DEF Put
  <2> QED
    BY <1>0, <1>4, <2>1, <2>2 DEF Seeding, Has
<1> QED
  BY <1>1, <1>2, <1>3, <1>4

LEMMA SeedingStep == Base /\ Seeding /\ [Next]_vars => Seeding'
<1> SUFFICES ASSUME Base, Seeding, [Next]_vars PROVE Seeding'
  OBVIOUS
<1>0. fails \in Nat
  BY DEF Base, TypeOK
<1>1. CASE UNCHANGED vars
  BY <1>1 DEF vars, Seeding, Left, Has
<1>2. CASE WriteTmp
  BY <1>2 DEF WriteTmp, disk, Seeding, Left, Has
<1>3. CASE WriteFails
  BY <1>0, <1>3, SeedingFailed DEF WriteFails, disk
<1>4. CASE Start
  <2>1. CASE fails' # 0
    BY <1>4, <2>1, SeedingFailed DEF Start, disk
  <2>2. CASE fails' = 0 /\ pc' = "factory"
    <3>1. Left' = Seeds
      BY <1>0, <1>4, <2>2, SeedMembers DEF Start, Left
    <3>2. ~stamp /\ UNCHANGED <<disk, fails>>
      BY <1>0, <1>4, <2>2 DEF Start
    <3> QED
      BY <2>2, <3>1, <3>2 DEF Seeding, disk
  <2>3. CASE fails' = 0 /\ pc' = "load"
    <3>1. UNCHANGED <<disk, fails>> /\ todo' = <<>>
      BY <1>0, <1>4, <2>3 DEF Start, Base, Todo
    <3> QED
      BY <2>3, <3>1, SeedingIdle
  <2> QED
    BY <1>4, <2>1, <2>2, <2>3 DEF Start
<1>5. CASE SeedCurrent
  <2>1. Left = {} /\ Left' = Seeds
    BY <1>5, NoMember, SeedMembers DEF SeedCurrent, Left
  <2>2. pc = "factory" /\ pc' = "current" /\ UNCHANGED <<disk, fails>>
    BY <1>5 DEF SeedCurrent
  <2> QED
    BY <2>1, <2>2 DEF Seeding, disk, Has
<1>6. CASE WriteInitStamp
  <2>1. Left = {}
    BY <1>6, NoMember DEF WriteInitStamp, Left
  <2>2. pc = "current" /\ pc' = "load" /\ UNCHANGED <<disk, fails>>
    BY <1>6 DEF WriteInitStamp
  <2> QED
    BY <2>1, <2>2 DEF Seeding, disk, Has
<1>7. CASE \/ LoadConfig \/ ApplyConfig \/ OpenDevFile \/ Answer \/ Exit \/ Exited \/ Crash
           \/ \E c \in Coefficients : AdcCalibration(c) \/ Submux(c)
           \/ \E r \in Ranges : DacRange(r)
           \/ \E m \in Models : Model(m)
           \/ \E s \in Serials : SerialNumber(s)
  <2>1. /\ UNCHANGED <<disk, fails>>
        /\ pc' \in {"off", "apply", "open", "serve", "range", "brd", "save"}
    BY <1>7 DEF LoadConfig, ApplyConfig, OpenDevFile, Answer, Exit, Exited, Crash,
                AdcCalibration, Submux, DacRange, Model, SerialNumber
  <2> QED
    BY <2>1, SeedingIdle
<1> QED
  BY <1>1, <1>2, <1>3, <1>4, <1>5, <1>6, <1>7, SeedingWrite DEF Next

\* Once the stamp is written every seeded key is in both trees, with its compiled
\* default in factory, however often the seeding was cut short: WriteIfMissing and
\* SeedCurrentFromFactoryIfMissing take it up again (config.cpp:159-166).
THEOREM SeedingKept == Spec => []SeededWhenStamped
<1>1. ASSUME Base, Seeding PROVE SeededWhenStamped
  <2>1. \A i \in DOMAIN SeedKeys : SeedKeys[i] \in Seeds
    BY SeedMembers DEF Members
  <2> QED
    BY <1>1, <2>1 DEF Seeding, SeededWhenStamped, Has
<1>2. Init => Base /\ Seeding
  BY BaseInit, SeedingInit
<1>3. Base /\ Seeding /\ [Next]_vars => Base' /\ Seeding'
  BY BaseStep, SeedingStep
<1> QED
  BY <1>1, <1>2, <1>3, PTL DEF Spec

-----------------------------------------------------------------------------
(* Saving: what the functions that write from Config have written of it, and *)
(* what a clean exit left.                                                 *)

Saved(key) == Has(current, key) /\ current[key] = Config[FieldOf(key)]

Starting == pc \in {"off", "factory", "current", "load"}

Saving == fails = 0 =>
  /\ pc = "brd" => \A key \in Brds : key \in Left \/ Saved(key)
  /\ pc = "save" => \A key \in LoadKeys : key \in Left \/ Saved(key)
  /\ kept # Nothing =>
       /\ Starting
       /\ kept = [f \in Fields |-> kept[f]]
       /\ \A key \in LoadKeys : Has(current, key) /\ current[key] = kept[FieldOf(key)]

LEMMA SavingInit == Init => Saving
BY DEF Init, Saving

\* A step that neither saves nor finds anything out.
LEMMA SavingIdle ==
  ASSUME Saving, UNCHANGED <<current, kept>>, fails' = 0 => fails = 0,
         pc' \notin {"brd", "save"}, Starting => Starting'
  PROVE  Saving'
BY DEF Saving, Has

LEMMA SavingWrite == ASSUME Base, Saving, Rename PROVE Saving'
<1>0. /\ todo # <<>> /\ Wanted(Head(todo)) /\ pc' = pc /\ UNCHANGED <<Config, fails, kept>>
      /\ Left = {Head(todo)} \cup Left'
  <2>1. todo # <<>> /\ todo' = Tail(todo) /\ pc' = pc /\ UNCHANGED <<Config, fails, kept>>
    BY DEF Rename, memory, history, Base, Todo
  <2>2. Wanted(Head(todo))
    BY DEF Rename, Base, Todo
  <2> QED
    BY <2>1, <2>2, HeadKnown DEF Left
<1>1. CASE pc \in {"factory", "load"}
  BY <1>0, <1>1, SavingIdle DEF Rename, Starting
<1>2. CASE pc = "current"
  <2>1. current' = Put(current, Head(todo), Contents(Head(todo))) /\ ~Has(current, Head(todo))
    BY <1>0, <1>2 DEF Rename, Wanted
  <2>2. \A key : Has(current, key) => Has(current, key)' /\ current'[key] = current[key]
    BY <2>1 DEF Put, Has
  <2> QED
    BY <1>0, <1>2, <2>2 DEF Saving, Starting
<1>3. CASE pc = "range"
  BY <1>0, <1>3 DEF Saving, Starting
<1>4. CASE pc \in {"brd", "save"}
  <2>1. current' = Put(current, Head(todo), Config[FieldOf(Head(todo))])
    BY <1>4 DEF Rename, Contents
  <2>2. \A key : key = Head(todo) => Saved(key)'
    BY <1>0, <2>1 DEF Put, Saved, Has
  <2>3. \A key : Saved(key) => Saved(key)'
    BY <1>0, <2>1 DEF Put, Saved, Has
  <2>4. fails = 0 => kept = Nothing
    BY <1>4 DEF Saving, Starting
  <2> QED
    BY <1>0, <1>4, <2>2, <2>3, <2>4 DEF Saving
<1> QED
  BY <1>1, <1>2, <1>3, <1>4, HeadKnown, <1>0

LEMMA SavingStep == Base /\ Saving /\ [Next]_vars => Saving'
<1> SUFFICES ASSUME Base, Saving, [Next]_vars PROVE Saving'
  OBVIOUS
<1>0. fails \in Nat
  BY DEF Base, TypeOK
<1>1. CASE UNCHANGED vars
  BY <1>1 DEF vars, Saving, Saved, Left, Has, Starting
<1>2. CASE WriteTmp
  BY <1>2 DEF WriteTmp, memory, disk, history, Saving, Saved, Left, Has, Starting
<1>3. CASE WriteFails
  BY <1>0, <1>3 DEF WriteFails, Saving
<1>4. CASE Skip
  <2>1. pc \in {"factory", "current"}
    BY <1>4 DEF Skip, Wanted
  <2> QED
    BY <1>4, <2>1, SavingIdle DEF Skip, disk, history, Starting
<1>5. CASE Start \/ SeedCurrent \/ WriteInitStamp
  BY <1>0, <1>5, SavingIdle DEF Start, SeedCurrent, WriteInitStamp, disk, history, Starting
<1>6. CASE LoadConfig
  BY <1>6 DEF LoadConfig, Saving
<1>7. CASE \/ ApplyConfig \/ OpenDevFile \/ Answer \/ Crash
           \/ \E c \in Coefficients : AdcCalibration(c) \/ Submux(c)
           \/ \E r \in Ranges : DacRange(r)
  <2>1. /\ UNCHANGED <<current, kept, fails>>
        /\ Starting => Starting'
        /\ pc' \notin {"brd", "save"}
    BY <1>7 DEF ApplyConfig, OpenDevFile, Answer, Crash, AdcCalibration, Submux, DacRange,
                disk, history, Starting
  <2> QED
    BY <2>1, SavingIdle
<1>8. CASE \/ \E m \in Models : Model(m)
           \/ \E s \in Serials : SerialNumber(s)
           \/ Exit
  <2>1. /\ pc = "serve" /\ UNCHANGED <<fails, kept>>
        /\ \/ pc' = "brd" /\ todo' = BrdKeys
           \/ pc' = "save" /\ todo' = SaveKeys
    BY <1>8 DEF Model, SerialNumber, Exit, history
  <2>2. fails = 0 => kept = Nothing
    BY <2>1 DEF Saving, Starting
  <2>3. (pc' = "brd" => Left' = Brds) /\ (pc' = "save" => Left' = LoadKeys)
    BY <2>1, BrdMembers, SaveMembers DEF Left
  <2> QED
    BY <2>1, <2>2, <2>3 DEF Saving
<1>9. CASE Exited
  <2>1. Left = {} /\ pc = "save" /\ pc' = "off" /\ kept' = Config /\ UNCHANGED <<current, fails>>
    BY <1>9, NoMember DEF Exited, Left, disk
  <2>2. Config = [f \in Fields |-> Config[f]]
    BY DEF Base, Shape
  <2>3. ASSUME fails = 0, NEW key \in LoadKeys
        PROVE  Has(current, key) /\ current[key] = Config[FieldOf(key)]
    BY <2>1, <2>3 DEF Saving, Saved
  <2> QED
    BY <2>1, <2>2, <2>3 DEF Saving, Has, Starting
<1> QED
  BY <1>1, <1>2, <1>3, <1>4, <1>5, <1>6, <1>7, <1>8, <1>9, SavingWrite DEF Next

\* The key that LoadConfig reads a field from.
LEMMA LoadedFrom ==
  ASSUME LoadConfig, NEW key \in LoadKeys
  PROVE  Config'[FieldOf(key)] = Read(key, Config[FieldOf(key)])
<1>1. FieldOf(key) \in Fields
  BY KeyField DEF Keys
<1>2. key = CHOOSE k \in LoadKeys : FieldOf(k) = FieldOf(key)
  BY KeyUnique
<1> QED
  BY <1>1, <1>2 DEF LoadConfig

LEMMA LoadKept ==
  ASSUME Base, Saving, LoadConfig, kept # Nothing, fails = 0
  PROVE  Config' = kept
<1>1. kept = [f \in Fields |-> kept[f]] /\ Config' = [f \in Fields |-> Config'[f]]
  BY DEF Saving, LoadConfig
<1>2. ASSUME NEW f \in Fields PROVE Config'[f] = kept[f]
  <2>1. PICK key \in LoadKeys : FieldOf(key) = f
    BY FieldKey
  <2>2. Has(current, key) /\ current[key] = kept[f]
    BY <2>1 DEF Saving
  <2>3. current[key] # Torn
    <3>1. current[key] \in Values(f)
      BY <2>1, <2>2 DEF Base, TypeOK, WholeFiles, Has
    <3> QED
      BY <3>1, DefaultAssumption
  <2>4. Config'[f] = Read(key, Config[f])
    BY <2>1, LoadedFrom
  <2> QED
    BY <2>2, <2>3, <2>4 DEF Read
<1> QED
  BY <1>1, <1>2

\* What SaveConfig wrote at the exit is what LoadConfig finds at the next start,
\* field for field, when no write failed: the keys that are saved are the keys that
\* are loaded (config.cpp:477-604, 624-771), and seeding in between, as after an
\* exit that came before the stamp, overwrites none of them.
THEOREM CleanExitKept == Spec => CleanExitKeeps
<1>1. Base /\ Saving => (LoadConfig /\ kept # Nothing /\ fails = 0 => Config' = kept)
  BY LoadKept
<1>2. Init => Base /\ Saving
  BY BaseInit, SavingInit
<1>3. Base /\ Saving /\ [Next]_vars => Base' /\ Saving'
  BY BaseStep, SavingStep
<1> QED
  BY <1>1, <1>2, <1>3, PTL DEF Spec, CleanExitKeeps

-----------------------------------------------------------------------------
(* Survival: what the next start will find, of the settings that are       *)
(* written before they are answered, and what the process that runs has of *)
(* them.                                                                   *)

KeyOf(f) == CASE f = "range" -> "DAC_RangeCh"
              [] f = "model" -> "BRD_Model"
              [] f = "serial" -> "BRD_SerialNumber"

\* What LoadConfig would find.
Stored(f) == IF Has(current, KeyOf(f)) THEN current[KeyOf(f)] ELSE Default[f]

Running == pc \in {"apply", "open", "serve", "range", "brd", "save"}

\* TDAC_Range1 has replaced the file, and Config not yet.
Ahead == pc = "range" /\ todo = <<>>

Survival ==
  /\ \A f \in Persisted : f = "range" \/ fails = 0 =>
       /\ Stored(f) \in possible[f]
       /\ Running => Config[f] \in possible[f]
  /\ Running /\ Ahead => Stored("range") = item
  /\ Running /\ ~Ahead => Stored("range") = Config["range"]
  /\ pc = "range" => item \in possible["range"]

LEMMA PersistedKeys ==
  ASSUME NEW f \in Persisted
  PROVE  /\ KeyOf(f) \in LoadKeys /\ KeyOf(f) \in Seeds
         /\ FieldOf(KeyOf(f)) = f /\ f \in Fields
         /\ f # "range" => KeyOf(f) \in Brds /\ KeyOf(f) # "DAC_RangeCh"
         /\ KeyOf("range") = "DAC_RangeCh" /\ "range" \in Persisted
BY DEF Persisted, KeyOf, LoadKeys, Seeds, Brds, FieldOf, Fields

LEMMA SurvivalInit == Init => Survival
BY DEF Init, Survival, Stored, Has, Running, Persisted

\* A step that leaves the persisted settings, on disk and in a process that goes on,
\* as they were.
LEMMA SurvivalStill ==
  ASSUME Survival, UNCHANGED <<current, possible>>, fails' = 0 => fails = 0,
         pc' # "range",
         Running' => Running /\ pc # "range" /\ \A f \in Persisted : Config'[f] = Config[f]
  PROVE  Survival'
<1>1. \A f : Stored(f)' = Stored(f)
  BY DEF Stored, Has
<1>2. "range" \in Persisted
  BY DEF Persisted
<1> QED
  BY <1>1, <1>2 DEF Survival, Ahead

\* The temporary file replaces the old one.
LEMMA SurvivalWrite == ASSUME Base, Seeding, Survival, Rename PROVE Survival'
<1>0. /\ todo # <<>> /\ Wanted(Head(todo)) /\ pc' = pc /\ todo' = Tail(todo)
      /\ UNCHANGED <<Config, fails, possible, item>>
  BY DEF Rename, memory, history, Base, Todo
<1>1. CASE pc \in {"factory", "load"}
  BY <1>0, <1>1, SurvivalStill DEF Rename, Running
<1>2. CASE pc = "current"
  <2>1. /\ current' = Put(current, Head(todo), factory[Head(todo)])
        /\ ~Has(current, Head(todo)) /\ Has(factory, Head(todo))
    BY <1>0, <1>2 DEF Rename, Wanted, Contents
  <2>2. factory[Head(todo)] = Default[FieldOf(Head(todo))]
    BY <2>1 DEF Seeding, Has
  <2>3. ASSUME NEW f \in Persisted PROVE Stored(f)' = Stored(f)
    BY <2>1, <2>2, PersistedKeys DEF Stored, Has, Put
  <2> QED
    BY <1>0, <1>2, <2>3 DEF Survival, Running
<1>3. CASE pc = "range"
  <2>1. Head(todo) = "DAC_RangeCh" /\ todo' = <<>>
    BY <1>0, <1>3, HeadKnown
  <2>2. current' = Put(current, "DAC_RangeCh", item)
    BY <1>3, <2>1 DEF Rename, Contents
  <2>3. Stored("range")' = item
    BY <2>2 DEF Stored, Has, Put, KeyOf
  <2>4. ASSUME NEW f \in Persisted, f # "range" PROVE Stored(f)' = Stored(f)
    BY <2>2, <2>4, PersistedKeys DEF Stored, Has, Put
  <2> QED
    BY <1>0, <1>3, <2>1, <2>3, <2>4 DEF Survival, Running, Ahead
<1>4. CASE pc \in {"brd", "save"}
  <2>1. current' = Put(current, Head(todo), Config[FieldOf(Head(todo))])
    BY <1>4 DEF Rename, Contents
  <2>2. ASSUME NEW f \in Persisted PROVE Stored(f)' \in {Stored(f), Config[f]}
    BY <2>1, PersistedKeys DEF Stored, Has, Put
  <2>3. Running /\ ~Ahead /\ Running' /\ ~Ahead' /\ "range" \in Persisted
    BY <1>0, <1>4 DEF Running, Ahead, Persisted
  <2> QED
    BY <1>0, <1>4, <2>2, <2>3 DEF Survival
<1> QED
  BY <1>0, <1>1, <1>2, <1>3, <1>4, HeadKnown

\* LoadConfig finds what is stored: current, else what factory was seeded with, else
\* the default that InitConfig left.
LEMMA SurvivalLoad == ASSUME Base, Seeding, Survival, LoadConfig PROVE Survival'
<1>1. /\ pc = "load" /\ pc' = "apply" /\ UNCHANGED <<todo, current, fails, possible>>
      /\ Config = Default
  BY DEF LoadConfig, disk, Base, Shape
<1>2. ASSUME NEW f \in Persisted PROVE Config'[f] = Stored(f)
  <2>1. KeyOf(f) \in LoadKeys /\ FieldOf(KeyOf(f)) = f /\ f \in Fields /\ KeyOf(f) \in Keys
    BY PersistedKeys DEF Keys
  <2>2. Config'[f] = Read(KeyOf(f), Default[f])
    BY <1>1, <2>1, LoadedFrom
  <2>3. Has(current, KeyOf(f)) => current[KeyOf(f)] # Torn
    BY <2>1, DefaultAssumption DEF Base, TypeOK, WholeFiles, Has
  <2>4. Has(factory, KeyOf(f)) => factory[KeyOf(f)] = Default[f]
    BY <2>1 DEF Seeding, Has
  <2> QED
    BY <2>2, <2>3, <2>4 DEF Read, Stored
<1>3. \A f : Stored(f)' = Stored(f)
  BY <1>1 DEF Stored, Has
<1> QED
  BY <1>1, <1>2, <1>3 DEF Survival, Running, Ahead, Persisted

LEMMA SurvivalSet ==
  ASSUME Base, Survival,
         \/ \E r \in Ranges : DacRange(r)
         \/ \E m \in Models : Model(m)
         \/ \E s \in Serials : SerialNumber(s)
  PROVE  Survival'
<1>0. /\ pc = "serve" /\ UNCHANGED <<current, fails>>
  BY DEF DacRange, Model, SerialNumber, disk
<1>1. \A f : Stored(f)' = Stored(f)
  BY <1>0 DEF Stored, Has
<1>2. DOMAIN Config = Fields /\ DOMAIN possible = Persisted
  BY DEF Base, TypeOK, Shape
<1>3. Running /\ ~Ahead /\ "range" \in Persisted
  BY <1>0 DEF Running, Ahead, Persisted
<1>4. ASSUME NEW r \in Ranges, DacRange(r) PROVE Survival'
  <2>1. /\ pc' = "range" /\ item' = r /\ todo' # <<>> /\ Config' = Config
        /\ possible' = [possible EXCEPT !["range"] = @ \cup {r}]
    BY <1>4 DEF DacRange
  <2>2. /\ \A f \in Persisted : possible[f] \subseteq possible'[f]
        /\ r \in possible'["range"]
    BY <1>2, <1>3, <2>1
  <2>3. ~Ahead'
    BY <2>1 DEF Ahead
  <2> QED
    BY <1>0, <1>1, <1>3, <2>1, <2>2, <2>3 DEF Survival
<1>5. ASSUME NEW g \in Persisted, g # "range", NEW v,
             Config'[g] = v, \A f \in Persisted : f # g => Config'[f] = Config[f],
             pc' = "brd", possible' = [possible EXCEPT ![g] = @ \cup {v}]
      PROVE  Survival'
  <2>1. /\ \A f \in Persisted : possible[f] \subseteq possible'[f]
        /\ v \in possible'[g]
    BY <1>2, <1>5
  <2>2. ~Ahead' /\ pc' # "range"
    BY <1>5 DEF Ahead
  <2> QED
    BY <1>0, <1>1, <1>3, <1>5, <2>1, <2>2 DEF Survival
<1>6. ASSUME NEW m \in Models, Model(m) PROVE Survival'
  <2>1. /\ "model" \in Persisted /\ Config'["model"] = m
        /\ \A f \in Persisted : f # "model" => Config'[f] = Config[f]
        /\ pc' = "brd" /\ possible' = [possible EXCEPT !["model"] = @ \cup {m}]
    BY <1>2, <1>6 DEF Model, Persisted, Fields
  <2> QED
    BY <1>5, <2>1
<1>7. ASSUME NEW s \in Serials, SerialNumber(s) PROVE Survival'
  <2>1. /\ "serial" \in Persisted /\ Config'["serial"] = s
        /\ \A f \in Persisted : f # "serial" => Config'[f] = Config[f]
        /\ pc' = "brd" /\ possible' = [possible EXCEPT !["serial"] = @ \cup {s}]
    BY <1>2, <1>7 DEF SerialNumber, Persisted, Fields
  <2> QED
    BY <1>5, <2>1
<1> QED
  BY <1>4, <1>6, <1>7

\* A reply tells the client what is in Config, and that is what is stored.
LEMMA SurvivalAnswer == ASSUME Base, Saving, Survival, Answer PROVE Survival'
<1>0. /\ pc' = "serve" /\ todo = <<>> /\ UNCHANGED <<current, fails>>
      /\ pc \in {"range", "brd"} /\ Running /\ Running' /\ ~Ahead'
  BY DEF Answer, disk, Running, Ahead
<1>1. \A f : Stored(f)' = Stored(f)
  BY <1>0 DEF Stored, Has
<1>2. /\ DOMAIN Config = Fields /\ DOMAIN possible = Persisted
      /\ Persisted = {"range", "model", "serial"} /\ Persisted \subseteq Fields
  BY DEF Base, TypeOK, Shape, Persisted, Fields
<1>3. CASE pc = "range"
  <2>1. Stored("range") = item
    BY <1>0, <1>3 DEF Survival, Ahead
  <2>2. /\ Config' = [Config EXCEPT !["range"] = item]
        /\ possible' = [possible EXCEPT !["range"] = {item}]
    BY <1>3 DEF Answer
  <2>3. Config'["range"] = item /\ possible'["range"] = {item}
    BY <1>2, <2>2
  <2>4. \A f \in Persisted : f # "range" => Config'[f] = Config[f] /\ possible'[f] = possible[f]
    BY <1>2, <2>2
  <2> QED
    BY <1>0, <1>1, <1>2, <2>1, <2>3, <2>4 DEF Survival
<1>4. CASE pc = "brd"
  <2>1. /\ Config' = Config
        /\ possible' = [possible EXCEPT !["model"] = {Config["model"]},
                                        !["serial"] = {Config["serial"]}]
    BY <1>4 DEF Answer
  <2>2. possible'["range"] = possible["range"]
        /\ \A f \in Persisted : f # "range" => possible'[f] = {Config[f]}
    BY <1>2, <2>1
  <2>3. ASSUME fails = 0, NEW f \in Persisted, f # "range" PROVE Stored(f) = Config[f]
    <3>1. KeyOf(f) \in Brds /\ FieldOf(KeyOf(f)) = f
      BY <2>3, PersistedKeys
    <3>2. Saved(KeyOf(f))
      BY <1>0, <1>4, <2>3, <3>1, NoMember DEF Saving, Left
    <3> QED
      BY <3>1, <3>2 DEF Saved, Stored
  <2>4. ~Ahead
    BY <1>4 DEF Ahead
  <2> QED
    BY <1>0, <1>1, <1>2, <2>1, <2>2, <2>3, <2>4 DEF Survival
<1> QED
  BY <1>0, <1>3, <1>4

LEMMA SurvivalStep == Base /\ Seeding /\ Saving /\ Survival /\ [Next]_vars => Survival'
<1> SUFFICES ASSUME Base, Seeding, Saving, Survival, [Next]_vars PROVE Survival'
  OBVIOUS
<1>0. fails \in Nat /\ DOMAIN Config = Fields
  BY DEF Base, TypeOK
<1>1. CASE UNCHANGED vars \/ WriteTmp
  BY <1>1 DEF vars, WriteTmp, memory, disk, history, Survival, Stored, Has, Running, Ahead
<1>2. CASE Skip
  <2>1. pc \in {"factory", "current"}
    BY <1>2 DEF Skip, Wanted
  <2> QED
    BY <1>2, <2>1, SurvivalStill DEF Skip, disk, history, Running
<1>3. CASE WriteFails
  <2>1. CASE pc # "range"
    BY <1>0, <1>3, <2>1, SurvivalStill DEF WriteFails, disk, history, Running
  <2>2. CASE pc = "range"
    <3>1. /\ UNCHANGED <<pc, Config, current, possible>> /\ item' = Config["range"]
          /\ fails' # 0 /\ todo # <<>> /\ todo' = Tail(todo)
      BY <1>0, <1>3, <2>2 DEF WriteFails, disk, history
    <3>2. todo' = <<>>
      BY <2>2, <3>1, HeadKnown
    <3>3. Stored("range")' = Stored("range")
      BY <3>1 DEF Stored, Has
    <3>4. Stored("range") = Config["range"] /\ "range" \in Persisted
      BY <2>2, <3>1 DEF Survival, Running, Ahead, Persisted
    <3> QED
      BY <2>2, <3>1, <3>2, <3>3, <3>4 DEF Survival, Running, Ahead
  <2> QED
    BY <2>1, <2>2
<1>4. CASE Start \/ SeedCurrent \/ WriteInitStamp \/ Exited \/ Crash
  <2>1. /\ UNCHANGED <<current, possible>>
        /\ fails' = 0 => fails = 0
        /\ pc' \in {"off", "factory", "current", "load"}
    BY <1>0, <1>4 DEF Start, SeedCurrent, WriteInitStamp, Exited, Crash, disk, history
  <2> QED
    BY <2>1, SurvivalStill DEF Running
<1>5. CASE ApplyConfig \/ OpenDevFile \/ Exit
  BY <1>5, SurvivalStill DEF ApplyConfig, OpenDevFile, Exit, memory, disk, history, Running
<1>6. CASE \E c \in Coefficients : AdcCalibration(c) \/ Submux(c)
  <2>1. /\ pc = "serve" /\ UNCHANGED <<pc, current, possible, fails>>
        /\ \A f \in Persisted : Config'[f] = Config[f]
    BY <1>0, <1>6 DEF AdcCalibration, Submux, disk, history, Persisted, Fields
  <2> QED
    BY <2>1, SurvivalStill DEF Running
<1> QED
  BY <1>1, <1>2, <1>3, <1>4, <1>5, <1>6, SurvivalWrite, SurvivalLoad, SurvivalSet, SurvivalAnswer
     DEF Next

\* The range, the model or the serial number that a client was told is set is what
\* every later process serves with, after any number of crashes: for the range whatever
\* writes fail, as TDAC_Range1 replaces the file before Config and answers with what is
\* there (DAC_.cpp:260-267); for the model and the serial number as long as none does.
\* Nothing of the kind holds of the ADC's coefficients and the submuxes, which no data
\* item writes to a file.
THEOREM PersistedSurvive == Spec => []PersistedSettingsSurvive
<1>1. Survival => PersistedSettingsSurvive
  BY DEF Survival, PersistedSettingsSurvive, Running
<1>2. Init => Base /\ Seeding /\ Saving /\ Survival
  BY BaseInit, SeedingInit, SavingInit, SurvivalInit
<1>3. Base /\ Seeding /\ Saving /\ Survival /\ [Next]_vars
        => Base' /\ Seeding' /\ Saving' /\ Survival'
  BY BaseStep, SeedingStep, SavingStep, SurvivalStep
<1> QED
  BY <1>1, <1>2, <1>3, PTL DEF Spec

================================================================================
