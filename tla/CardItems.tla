------------------------------- MODULE CardItems -------------------------------
(***************************************************************************)
(* The data items that work on the card's registers and on the outputs of  *)
(* its DAC.  A receiver thread constructs the items of a message, and what *)
(* the constructor of a DAC output writes down are the counts, converted   *)
(* with the coefficients and the range in Config at that moment; the       *)
(* ActionThread runs the items later, one by one.                          *)
(*                                                                         *)
(* The value of a register is the set of the bits that are 1, within the   *)
(* register's width.  DIO and DAC lie behind an SPI bus each: a write makes*)
(* the bus busy for a while, and a write to a busy bus may get lost.  What *)
(* goes to the DAC is which version of each setting it was converted with. *)
(* One DAC channel and one group of ADC channels stand for all.            *)
(*                                                                         *)
(* External: the card, and the ADC worker that ends while items run.       *)
(***************************************************************************)
EXTENDS Integers, Sequences

CONSTANTS
  Receivers,    \* receiver threads
  Registers,    \* some of "trigger", "range", "directions", "outputs"
  Bits,         \* the bit numbers that clients name
  Width,        \* Width[r]: the bits that r has
  MaxTries,     \* looks that WaitUntilRegisterBitIsLow heeds: 100
  MaxItems,     \* bound: items of a message
  MaxSent       \* bound: items that clients send together

ASSUME RegistersAssumption == Registers \subseteq {"trigger", "range", "directions", "outputs"}
ASSUME WidthAssumption == Width \in [Registers -> SUBSET Bits] /\ Bits \subseteq 0 .. 31
ASSUME BoundsAssumption == MaxTries \in Nat \ {0} /\ MaxItems \in Nat /\ MaxSent \in Nat

VARIABLES
  register,   \* the registers
  dac,        \* what was written to the DAC last
  busy,       \* the SPI buses that are busy
  closing,    \* has an ADC worker been cancelled and not yet ended?
  Config,     \* version of each setting of the DAC
  message,    \* the items that each receiver thread has constructed
  output,     \* the DAC output that it is constructing, and how far it is
  sent,       \* number of items sent
  queue,      \* ActionQueue
  apc,        \* where the ActionThread stands
  current,    \* the items of the message that it runs, the first one being run
  value,      \* what Go() has read
  tries       \* `attempt' of WaitUntilRegisterBitIsLow

cardVars     == <<register, dac, busy>>
receiverVars == <<message, output, sent>>
actionVars   == <<apc, current, value, tries>>
vars == <<cardVars, closing, Config, receiverVars, queue, actionVars>>

SpiBusy == 32   \* the busy flag, as a bit that no client names
Parts   == {"scale", "offset", "range"}
Version == [Parts -> Nat]
Bus     == {"dio", "dac"}

\* The SPI bus that a register lies behind, if any.
BusOf(r) == IF r \in {"directions", "outputs"} THEN {"dio"} ELSE {}

\* REG_ReadBit, REG_ClearBit, REG_SetBit, REG_ToggleBit; REG_WriteBit is one of the
\* middle two, and so are DIO_SetBit and its kind and ADC_Differential1.
BitItem == [kind : {"bit"}, op : {"read", "clear", "set", "toggle"}, register : Registers,
            bit : Bits]

\* DIO_Configure, DIO_Output and ADC_Range1, which write at once, and REG_Write1,
\* which waits for the register's bus.
WriteItem == UNION {[kind : {"write"}, register : {r}, bits : {{}, Width[r]},
                       waits : IF BusOf(r) = {} THEN {FALSE} ELSE BOOLEAN] : r \in Registers}

\* DAC_Range1, and DAC_Calibrate1 and its kind.
SettingItem == [kind : {"range", "calibrate"}]

\* DAC_Output1 and DAC_Output1V.
OutputItem == [kind : {"output"}, with : Version, settled : BOOLEAN]

Item == BitItem \cup WriteItem \cup SettingItem \cup OutputItem

NoOutput == [at |-> "none"]   \* the receiver constructs no DAC output

\* The type invariant; registers never hold bits that they do not have.
TypeOK ==
  /\ register \in [Registers -> SUBSET Bits] /\ \A r \in Registers : register[r] \subseteq Width[r]
  /\ dac \in Version /\ Config \in Version
  /\ busy \subseteq Bus
  /\ closing \in BOOLEAN
  /\ \A r \in Receivers : /\ message[r] \in Seq(Item) /\ Len(message[r]) <= MaxItems
                          /\ output[r].at \in {"none"} \cup Parts
  /\ sent \in 0 .. MaxSent
  /\ queue \in Seq(Seq(Item))
  /\ apc \in {"idle", "run", "modify", "wait", "put", "offset"}
  /\ current \in Seq(Item) /\ (apc # "idle" => current # <<>>)
  /\ value \subseteq Bits \cup {SpiBusy}
  /\ tries \in 0 .. MaxTries + 1

Init ==
  /\ register \in [Registers -> {{}}]
  /\ dac = [p \in Parts |-> 0] /\ Config = [p \in Parts |-> 0]
  /\ busy = {}
  /\ closing \in BOOLEAN
  /\ message = [r \in Receivers |-> <<>>] /\ output = [r \in Receivers |-> NoOutput]
  /\ sent = 0 /\ queue = <<>>
  /\ apc = "idle" /\ current = <<>> /\ value = {} /\ tries = 0

-----------------------------------------------------------------------------
(* The card.                                                               *)

\* in(): the directions register also shows whether the bus is busy.
In(r) == register[r] \cup IF r = "directions" /\ "dio" \in busy THEN {SpiBusy} ELSE {}

\* out(): the value is cut to the register's width.
Out(r, bits) ==
  /\ LET new == bits \cap Width[r] IN
     register' \in {[register EXCEPT ![r] = new]}
                     \cup IF BusOf(r) \cap busy # {} THEN {register} ELSE {}
  /\ busy' = busy \cup BusOf(r)
  /\ UNCHANGED dac

SpiDone(b) ==
  /\ b \in busy
  /\ busy' = busy \ {b}
  /\ UNCHANGED <<register, dac, closing, Config, receiverVars, queue, actionVars>>

\* The ADC worker turns the acquisition off when it ends (adc.cpp).
WorkerCloses ==
  /\ closing /\ "trigger" \in Registers
  /\ closing' = FALSE
  /\ register' = [register EXCEPT !["trigger"] = {}]
  /\ UNCHANGED <<dac, busy, Config, receiverVars, queue, actionVars>>

-----------------------------------------------------------------------------
(* Receiver threads.                                                       *)

MaySend(r) == sent < MaxSent /\ Len(message[r]) < MaxItems /\ output[r] = NoOutput

\* An item whose constructor reads nothing but its payload.
Construct(r) ==
  /\ MaySend(r)
  /\ \E i \in BitItem \cup WriteItem \cup SettingItem :
       message' = [message EXCEPT ![r] = Append(@, i)]
  /\ sent' = sent + 1
  /\ UNCHANGED <<cardVars, closing, Config, output, queue, actionVars>>

IsSetting(i) == i.kind \in {"range", "calibrate"}
HasSetting(s) == \E k \in DOMAIN s : IsSetting(s[k])

\* No setting of the DAC is under way that this message's receiver could know of.
Settled(r) == ~HasSetting(message[r]) /\ ~HasSetting(current)
              /\ \A k \in DOMAIN queue : ~HasSetting(queue[k])

\* TDAC_Output::parseBytes: the scale, the offset, and for volts the range are read.
ConstructOutput(r) ==
  /\ MaySend(r)
  /\ output' = [output EXCEPT ![r] = [at |-> "scale", with |-> Config, settled |-> Settled(r)]]
  /\ sent' = sent + 1
  /\ UNCHANGED <<cardVars, closing, Config, message, queue, actionVars>>

After(part) == IF part = "scale" THEN "offset" ELSE "range"

ReadSetting(r) ==
  /\ output[r].at \in {"scale", "offset"}
  /\ output' = [output EXCEPT ![r].with[output[r].at] = Config[output[r].at],
                              ![r].at = After(output[r].at)]
  /\ UNCHANGED <<cardVars, closing, Config, message, sent, queue, actionVars>>

ReadRange(r) ==
  /\ output[r].at = "range"
  /\ message' = [message EXCEPT ![r] = Append(@,
       [kind |-> "output", with |-> [output[r].with EXCEPT !["range"] = Config["range"]],
        settled |-> output[r].settled])]
  /\ output' = [output EXCEPT ![r] = NoOutput]
  /\ UNCHANGED <<cardVars, closing, Config, sent, queue, actionVars>>

\* FAULT (Enqueue): the newest message is run first.
EnqueueStacks(r) ==
  /\ message[r] # <<>> /\ output[r] = NoOutput
  /\ queue' = <<message[r]>> \o queue
  /\ message' = [message EXCEPT ![r] = <<>>]
  /\ UNCHANGED <<cardVars, closing, Config, output, sent, actionVars>>

Enqueue(r) ==
  /\ message[r] # <<>> /\ output[r] = NoOutput
  /\ queue' = Append(queue, message[r])
  /\ message' = [message EXCEPT ![r] = <<>>]
  /\ UNCHANGED <<cardVars, closing, Config, output, sent, actionVars>>

Receiver(r) == Construct(r) \/ ConstructOutput(r) \/ ReadSetting(r) \/ ReadRange(r) \/ Enqueue(r)

-----------------------------------------------------------------------------
(* The ActionThread: Go().                                                 *)

Dequeue ==
  /\ apc = "idle" /\ queue # <<>>
  /\ current' = Head(queue) /\ queue' = Tail(queue)
  /\ apc' = "run"
  /\ UNCHANGED <<cardVars, closing, Config, receiverVars, value, tries>>

Running == Head(current)

\* The item is done: on to the next one, if any.
Done == /\ current' = Tail(current)
        /\ apc' = IF Len(current) = 1 THEN "idle" ELSE "run"
        /\ value' = {} /\ tries' = 0

ReadBit ==
  /\ apc = "run" /\ Running.kind = "bit" /\ Running.op = "read"
  /\ Done
  /\ UNCHANGED <<cardVars, closing, Config, receiverVars, queue>>

ReadRegister ==
  /\ apc = "run" /\ Running.kind = "bit" /\ Running.op # "read"
  /\ value' = In(Running.register)
  /\ apc' = "modify"
  /\ UNCHANGED <<cardVars, closing, Config, receiverVars, queue, current, tries>>

\* FAULT (Modified): the other bits are written as 0.
ModifiedAlone(bits, op, bit) == IF op = "clear" THEN bits \ {bit} ELSE {bit}

Modified(bits, op, bit) ==
  IF op = "clear" \/ (op = "toggle" /\ bit \in bits) THEN bits \ {bit} ELSE bits \cup {bit}

WriteRegister ==
  /\ apc = "modify"
  /\ Out(Running.register, Modified(value, Running.op, Running.bit))
  /\ Done
  /\ UNCHANGED <<closing, Config, receiverVars, queue>>

Write ==
  /\ apc = "run" /\ Running.kind = "write" /\ ~Running.waits
  /\ Out(Running.register, Running.bits)
  /\ Done
  /\ UNCHANGED <<closing, Config, receiverVars, queue>>

MustWait ==
  \/ Running.kind = "output"
  \/ Running.kind = "write" /\ Running.waits

BusAwaited == IF Running.kind = "output" THEN "dac" ELSE "dio"

BeginWait ==
  /\ apc = "run" /\ MustWait
  /\ apc' = "wait"
  /\ UNCHANGED <<cardVars, closing, Config, receiverVars, queue, current, value, tries>>

\* FAULT (Wait): as long as it takes.
WaitForever ==
  /\ apc = "wait"
  /\ apc' = IF BusAwaited \in busy THEN "wait" ELSE "put"
  /\ UNCHANGED <<cardVars, closing, Config, receiverVars, queue, current, value, tries>>

\* WaitUntilRegisterBitIsLow; its callers ignore that it gave up, which it does
\* after one look more, whatever that shows.
Wait ==
  /\ apc = "wait"
  /\ tries' = tries + 1
  /\ apc' = IF BusAwaited \in busy /\ tries' <= MaxTries THEN "wait" ELSE "put"
  /\ UNCHANGED <<cardVars, closing, Config, receiverVars, queue, current, value>>

Put ==
  /\ apc = "put"
  /\ \/ Running.kind = "write" /\ Out(Running.register, Running.bits)
     \/ /\ Running.kind = "output"
        /\ dac' \in {Running.with} \cup IF "dac" \in busy THEN {dac} ELSE {}
        /\ busy' = busy \cup {"dac"}
        /\ UNCHANGED register
  /\ Done
  /\ UNCHANGED <<closing, Config, receiverVars, queue>>

\* DAC_Range1: Config follows if the file could be written.
SetRange ==
  /\ apc = "run" /\ Running.kind = "range"
  /\ \/ Config' = [Config EXCEPT !["range"] = @ + 1]
     \/ UNCHANGED Config
  /\ Done
  /\ UNCHANGED <<cardVars, closing, receiverVars, queue>>

\* DAC_Calibrate1: the scale, then the offset, the files afterwards; DAC_Scale1 and
\* DAC_Offset1 do one of the two.
SetScale ==
  /\ apc = "run" /\ Running.kind = "calibrate"
  /\ Config' = [Config EXCEPT !["scale"] = @ + 1]
  /\ \/ apc' = "offset" /\ UNCHANGED <<current, value, tries>>
     \/ Done
  /\ UNCHANGED <<cardVars, closing, receiverVars, queue>>

SetOffset ==
  /\ apc = "offset" \/ (apc = "run" /\ Running.kind = "calibrate")
  /\ Config' = [Config EXCEPT !["offset"] = @ + 1]
  /\ Done
  /\ UNCHANGED <<cardVars, closing, receiverVars, queue>>

Go == \/ ReadBit \/ ReadRegister \/ WriteRegister \/ Write \/ BeginWait \/ Wait \/ Put
      \/ SetRange \/ SetScale \/ SetOffset

Next ==
  \/ \E r \in Receivers : Receiver(r)
  \/ Dequeue \/ Go
  \/ WorkerCloses
  \/ \E b \in Bus : SpiDone(b)

Spec == Init /\ [][Next]_vars

\* The ActionThread runs; a bus may stay busy, and clients owe nothing.
FairSpec == Spec /\ WF_vars(Dequeue \/ Go)

-----------------------------------------------------------------------------
\* A bit item leaves the other bits of a register alone and gives its own bit the value
\* that it asks for, whatever other items were run or constructed meanwhile; or the
\* write is lost as a whole on a busy bus.  The trigger register is left out, for the
\* ADC worker writes it too.
BitItemsDoOneBit ==
  [][apc = "modify" /\ apc' # "modify" /\ Running.register # "trigger" =>
       LET r    == Running.register
           b    == Running.bit
           asks == Running.op = "set" \/ (Running.op = "toggle" /\ b \notin register[r])
       IN  \/ /\ register'[r] \ {b} = register[r] \ {b}
              /\ b \in Width[r] => (b \in register'[r] <=> asks)
           \/ BusOf(r) \cap busy # {} /\ UNCHANGED register]_vars

\* A DAC output that was constructed while no setting of the DAC was under way is
\* written with the settings in force when it is written.
SettledOutputsCurrent ==
  apc = "put" /\ Running.kind = "output" /\ Running.settled => Running.with = Config

\* An SPI bus that stays busy does not hold the ActionThread up: every message ends.
MessagesEnd == apc # "idle" ~> apc = "idle"

-----------------------------------------------------------------------------
\* What a DAC puts out was converted with the settings in force (DataItems/TDataItem.cpp:175:
\* configured for the DAC range, so customers can output in Voltage).
OutputsCurrent == apc = "put" /\ Running.kind = "output" => Running.with = Config

\* The bus of a register is idle when it is written (DataItems/REG_.cpp:188).
WritesFindBusIdle == 
  [][\A r \in Registers : register'[r] # register[r] => BusOf(r) \cap busy = {}]_vars

\* The acquisition that the ending worker turned off stays off until a client turns
\* it on again.
OffStaysOff == [][apc = "modify" /\ apc' # "modify" /\ Running.register = "trigger"
                    /\ Running.op = "clear" => register'["trigger"] \subseteq register["trigger"]]_vars

=============================================================================
