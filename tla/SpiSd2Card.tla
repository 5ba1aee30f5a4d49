----------------------------- MODULE SpiSd2Card -----------------------------
(***************************************************************************)
(* The driver of the SD card: SpiSd2Card and the card at the other end of   *)
(* the SPI bus (external, as the driver's use of it shows).                 *)
(*                                                                         *)
(* A call is a script: the commands, waits and transfers it goes through    *)
(* when each of them succeeds, and a step performs the first of them.  The  *)
(* card answers a command or refuses it, is busy for any length of time,    *)
(* and sends a block as a stream the driver must read to its end.  What a   *)
(* block holds is the number of the write that stored it.                   *)
(***************************************************************************)
EXTENDS Integers, Sequences

CONSTANTS
  Block,          \* the blocks of the card, 0 among them
  Size,           \* bytes of a block, 512 in the code
  Crc,            \* bytes of checksum that follow it, 2 in the code
  Kind,           \* the kinds of card tried: "SD1", "SD2", "SDHC"
  Wrap,           \* millis() is kept in 16 bits: Wrap = 2^16 in the code
  Timeout,        \* SD_READ_TIMEOUT and its like, less than Wrap
  MaxWrites,      \* bound: how many blocks are written
  MaxTries,       \* bound: turns of the loops of init() within SD_INIT_TIMEOUT
  MayDie,         \* whether the card may stop in the middle, busy for ever
  MayRefuse       \* whether it may refuse commands and data

ASSUME DriverAssumption ==
  /\ 0 \in Block /\ Block \subseteq Nat
  /\ Size \in Nat \ {0} /\ Crc \in Nat \ {0}
  /\ Kind \subseteq {"SD1", "SD2", "SDHC"}
  /\ Timeout \in Nat \ {0} /\ Wrap \in Nat /\ Timeout < Wrap
  /\ MaxWrites \in Nat /\ MaxTries \in Nat /\ {MayDie, MayRefuse} \subseteq BOOLEAN

None == -1

VARIABLES
  type_, inBlock_, block_, offset_, partialBlockRead_,
  op, script,     \* the call in progress and what is left of it
  arg,            \* its arguments: [block, last, offset, count]
  up,             \* init() has returned true
  t0,             \* the local of the wait in progress, None before it begins
  clock,          \* the low 16 bits of millis()
  kind,           \* the card: what it is,
  mode,           \* "off", "ready", "preparing" or "sending" a block, "receiving"
                  \* one, "multiple" writes
  at, sent,       \* the block it sends or receives, the bytes it has sent
  busy, dead,     \* whether it holds the bus low, and for ever
  flawed,         \* whether programming failed: CMD13 tells
  disk,           \* [Block -> the number of the write that stored it]
  writes,         \* history: how many blocks were sent
  tries,          \* the turns of a loop of init()
  waited,         \* history: the ticks of the wait in progress, up to Timeout
  dst,            \* history: what the last read returned
  reply           \* history: the last call and how it ended

driver == <<type_, inBlock_, block_, offset_, partialBlockRead_>>
card == <<kind, mode, at, sent, busy, dead, flawed, disk>>
call == <<op, script, arg, up, tries>>
time == <<t0, clock, waited>>
vars == <<driver, card, call, time, writes, dst, reply>>

NoArg == [block |-> 0, last |-> 0, offset |-> 0, count |-> 0]

NoReply == [op |-> "none", result |-> "ok", arg |-> NoArg, lasted |-> 0]

Commands == {"CMD0", "CMD8", "CMD9", "CMD13", "CMD17", "CMD24", "CMD25", "CMD32", "CMD33",
             "CMD38", "CMD55", "CMD58", "ACMD23", "ACMD41"}

Init ==
  /\ type_ = "none" /\ inBlock_ = FALSE /\ block_ = 0 /\ offset_ = 0
  /\ partialBlockRead_ = FALSE
  /\ op = "none" /\ script = << >> /\ arg = NoArg /\ up = FALSE /\ tries = 0
  /\ t0 = None /\ clock \in 0 .. Wrap - 1 /\ waited = 0
  /\ kind \in Kind /\ mode = "off" /\ at = 0 /\ sent = 0
  /\ busy = FALSE /\ dead = FALSE /\ flawed = FALSE
  /\ disk = [b \in Block |-> 0] /\ writes = 0
  /\ dst = << >> /\ reply = NoReply

-----------------------------------------------------------------------------
(* The bus. *)

\* k bytes of the block the card is sending; after the checksum it is ready.
Rec(k) ==
  /\ sent' = IF sent + k >= Size + Crc THEN 0 ELSE sent + k
  /\ mode' = IF sent + k >= Size + Crc THEN "ready" ELSE mode

\* What the loop of readEnd leaves in offset_.
Drained == Size + Crc + 1

\* Slip: the checksum is left on the bus.
ReadEndAtSize ==
  IF inBlock_
    THEN Rec(Size - offset_) /\ inBlock_' = FALSE /\ offset_' = Drained
    ELSE UNCHANGED <<sent, mode, inBlock_, offset_>>

\* The rest of the block, if one is being read.
readEnd ==
  IF inBlock_
    THEN Rec(Size + Crc - offset_) /\ inBlock_' = FALSE /\ offset_' = Drained
    ELSE UNCHANGED <<sent, mode, inBlock_, offset_>>

-----------------------------------------------------------------------------
(* Calls begin and end. *)

Begin(o, s, a) ==
  /\ script = << >>
  /\ op' = o /\ script' = s /\ arg' = a
  /\ reply' = NoReply /\ dst' = << >>

Return(result) ==
  /\ op' = "none" /\ script' = << >> /\ arg' = NoArg /\ tries' = 0
  /\ t0' = None /\ waited' = 0
  /\ reply' = [op |-> op, result |-> result, arg |-> arg, lasted |-> waited]
  /\ up' = (up \/ (op = "init" /\ result = "ok"))

\* The first step is done: the next one, or the call returns true.
ContinueWith(rest) ==
  IF rest = << >>
    THEN Return("ok")
    ELSE /\ script' = rest /\ t0' = None /\ waited' = 0
         /\ UNCHANGED <<op, arg, up, tries, reply>>

Continue == ContinueWith(Tail(script))

Doing(step) == script # << >> /\ script[1] = step

-----------------------------------------------------------------------------
(* The calls. *)

\* init() forgets the block it was reading, if any.
InitCall ==
  /\ Begin("init", <<"CMD0", "CMD8", "CMD55", "ACMD41", "CMD58">>, NoArg)
  /\ type_' = "none" /\ inBlock_' = FALSE /\ partialBlockRead_' = FALSE
  /\ up' = FALSE
  /\ UNCHANGED <<block_, offset_, tries, card, time, writes>>

\* During a multiple write the caller may only go on with it.
CanCall == up /\ mode # "multiple"

ReadScript == <<"CMD17", "token", "data">>

\* Slip: a block being read serves for the bytes before its position too.
ReadCallBehind(b, offset, count) ==
  /\ CanCall /\ offset + count <= Size
  /\ IF inBlock_ /\ b = block_ /\ offset + count >= offset_
       THEN Begin("read", <<"data">>, [NoArg EXCEPT !.block = b, !.offset = offset, !.count = count])
       ELSE Begin("read", ReadScript, [NoArg EXCEPT !.block = b, !.offset = offset, !.count = count])
  /\ block_' = b
  /\ UNCHANGED <<type_, inBlock_, offset_, partialBlockRead_, up, tries, card, time, writes>>

\* A block that is being read and has not passed the offset needs no command.
ReadCall(b, offset, count) ==
  /\ CanCall /\ offset + count <= Size
  /\ Begin("read", IF inBlock_ /\ b = block_ /\ offset >= offset_ THEN <<"data">> ELSE ReadScript,
           [NoArg EXCEPT !.block = b, !.offset = offset, !.count = count])
  /\ block_' = b
  /\ UNCHANGED <<type_, inBlock_, offset_, partialBlockRead_, up, tries, card, time, writes>>

OtherCall(o, s, a) ==
  /\ Begin(o, s, a)
  /\ UNCHANGED <<driver, up, tries, card, time, writes>>

\* Block 0 is never written.
WriteCall(b) ==
  /\ CanCall /\ b # 0
  /\ OtherCall("write", <<"CMD24", "send", "programmed", "CMD13">>, [NoArg EXCEPT !.block = b])

Erase(first, last) ==
  /\ CanCall
  /\ OtherCall("erase", <<"CMD9", "token", "register", "CMD32", "CMD33", "CMD38", "erased">>,
               [NoArg EXCEPT !.block = first, !.last = last])

CardSize == CanCall /\ OtherCall("size", <<"CMD9", "token", "register">>, NoArg)

WriteStart(b) ==
  /\ CanCall /\ b # 0
  /\ OtherCall("start", <<"CMD55", "ACMD23", "CMD25">>, [NoArg EXCEPT !.block = b])

WriteMore == up /\ mode = "multiple" /\ OtherCall("more", <<"free", "send">>, NoArg)

WriteStop == up /\ mode = "multiple" /\ OtherCall("stop", <<"free", "stop", "free">>, NoArg)

PartialBlockRead(value) ==
  /\ CanCall /\ script = << >>
  /\ readEnd
  /\ partialBlockRead_' = value
  /\ reply' = NoReply /\ dst' = << >>
  /\ UNCHANGED <<type_, block_, call, time, kind, at, busy, dead, flawed, disk, writes>>

-----------------------------------------------------------------------------
(* Waits.  The difference of two 16-bit times is taken as an int. *)

Elapsed == clock - t0

StartWait == t0' = clock /\ UNCHANGED <<clock, waited>>

\* waitNotBusy looks at least once, waitStartBlock once more.
TimeUp ==
  t0 # None /\ IF Doing("token") THEN Elapsed > Timeout ELSE Elapsed >= Timeout

\* A turn of a wait takes far less than a tick: it looks at every time.
Tick ==
  /\ t0 # None /\ ~TimeUp
  /\ clock' = (clock + 1) % Wrap
  /\ waited' = IF waited < Timeout THEN waited + 1 ELSE waited
  /\ UNCHANGED <<driver, card, call, t0, writes, dst, reply>>

Waits == {"programmed", "erased", "free"}

BeginWait ==
  /\ script # << >> /\ script[1] \in Waits \cup {"token"} /\ t0 = None
  /\ StartWait
  /\ UNCHANGED <<driver, card, call, writes, dst, reply>>

\* waitNotBusy returns true, or false when the time is up.
NotBusy ==
  /\ script # << >> /\ script[1] \in Waits /\ t0 # None /\ ~busy
  /\ Continue
  /\ UNCHANGED <<driver, card, clock, writes, dst>>

StillBusy ==
  /\ script # << >> /\ script[1] \in Waits /\ TimeUp /\ busy
  /\ Return("timeout")
  /\ UNCHANGED <<driver, card, clock, writes, dst>>

-----------------------------------------------------------------------------
(* cardCommand: it ends a read, waits, and sends whether the wait ended or not. *)

BeginCommand ==
  /\ script # << >> /\ script[1] \in Commands /\ t0 = None
  /\ readEnd
  /\ StartWait
  /\ UNCHANGED <<type_, block_, partialBlockRead_, call, kind, at, busy, dead, flawed,
                 disk, writes, dst, reply>>

Sending(cmd) == Doing(cmd) /\ t0 # None /\ (~busy \/ TimeUp)

\* A busy card, one waiting for data or one that is dead hears no command.
Hears == ~busy /\ mode \notin {"receiving", "multiple"}

\* The block a card understands: bytes and blocks are counted alike by both.
Addressed(b) == IF (type_ = "SDHC") = (kind = "SDHC") THEN {b} ELSE Block

cardRest == <<kind, busy, dead>>

\* Commands that move the card from one mode to another.
Starts(cmd, to) ==
  /\ Sending(cmd) /\ Hears
  /\ mode' = to /\ sent' = 0
  /\ at' \in IF cmd = "CMD9" THEN {None} ELSE Addressed(arg.block)
  /\ Continue
  /\ UNCHANGED <<driver, cardRest, flawed, disk, clock, writes, dst>>

\* Commands whose acceptance changes nothing the model keeps.
Passes(cmd) ==
  /\ Sending(cmd) /\ (Hears \/ cmd = "CMD55")
  /\ Continue
  /\ UNCHANGED <<driver, card, clock, writes, dst>>

\* CMD0 resets the card, whatever it was doing.
GoIdle ==
  /\ Sending("CMD0") /\ ~busy
  /\ mode' = "off" /\ sent' = 0 /\ at' = 0 /\ flawed' = FALSE
  /\ Continue
  /\ UNCHANGED <<driver, cardRest, disk, clock, writes, dst>>

\* Only a card of the second version knows CMD8; one that does not answer is
\* taken for one of the first.
Version ==
  /\ Sending("CMD8")
  /\ type_' \in (IF kind # "SD1" /\ Hears THEN {"SD2"} ELSE {"SD1"})
                \cup IF MayRefuse THEN {"SD1"} ELSE {}
  /\ Continue
  /\ UNCHANGED <<inBlock_, block_, offset_, partialBlockRead_, card, clock, writes, dst>>

\* A high-capacity card needs to be told that the host knows of it.
BecomesReady ==
  /\ Sending("ACMD41") /\ Hears
  /\ kind = "SDHC" => type_ = "SD2"
  /\ mode' = "ready"
  /\ ContinueWith(IF type_ = "SD2" THEN Tail(script) ELSE << >>)
  /\ UNCHANGED <<driver, cardRest, at, sent, flawed, disk, clock, writes, dst>>

\* Slip: the capacity bit is not looked at.
CapacityIgnored ==
  /\ Sending("CMD58") /\ Hears
  /\ Continue
  /\ UNCHANGED <<driver, card, clock, writes, dst>>

Capacity ==
  /\ Sending("CMD58") /\ Hears
  /\ type_' = IF kind = "SDHC" THEN "SDHC" ELSE "SD2"
  /\ Continue
  /\ UNCHANGED <<inBlock_, block_, offset_, partialBlockRead_, card, clock, writes, dst>>

\* Slip: the second byte of the status is not looked at.
StatusIgnored ==
  /\ Sending("CMD13") /\ Hears
  /\ flawed' = FALSE
  /\ Continue
  /\ UNCHANGED <<driver, cardRest, mode, at, sent, disk, clock, writes, dst>>

\* The status tells whether the block was stored.
Status ==
  /\ Sending("CMD13") /\ Hears
  /\ flawed' = FALSE
  /\ IF flawed THEN Return("refused") ELSE Continue
  /\ UNCHANGED <<driver, cardRest, mode, at, sent, disk, clock, writes, dst>>

EraseBlocks ==
  /\ Sending("CMD38") /\ Hears
  /\ disk' = [b \in Block |-> IF b \in arg.block .. arg.last THEN 0 ELSE disk[b]]
  /\ busy' = TRUE
  /\ Continue
  /\ UNCHANGED <<driver, kind, mode, at, sent, dead, flawed, clock, writes, dst>>

\* No answer or an error: init() tries CMD0 and ACMD41 again for a while, the
\* ACMD41 with its CMD55.
CommandFails ==
  /\ \E cmd \in Commands \ {"CMD55"} : Sending(cmd)
  /\ MayRefuse \/ (~Hears /\ ~Doing("CMD8")) \/ Doing("ACMD41")
  /\ IF Doing("CMD0") \/ Doing("ACMD41")
       THEN \/ /\ tries < MaxTries /\ tries' = tries + 1
               /\ script' = IF Doing("CMD0") THEN script ELSE <<"CMD55">> \o script
               /\ t0' = None /\ waited' = 0
               /\ UNCHANGED <<op, arg, up, reply>>
            \/ tries = MaxTries /\ Return("refused")
       ELSE Return("refused")
  /\ UNCHANGED <<driver, card, clock, writes, dst>>

Command ==
  \/ BeginCommand
  \/ Starts("CMD9", "preparing") \/ Starts("CMD17", "preparing")
  \/ Starts("CMD24", "receiving") \/ Starts("CMD25", "multiple")
  \/ \E cmd \in {"CMD32", "CMD33", "CMD55", "ACMD23"} : Passes(cmd)
  \/ GoIdle \/ Version \/ BecomesReady \/ Capacity \/ Status \/ EraseBlocks
  \/ CommandFails

-----------------------------------------------------------------------------
(* Transfers. *)

\* waitStartBlock: the block begins; a register is read without inBlock_.
BlockBegins ==
  /\ Doing("token") /\ t0 # None /\ mode = "sending"
  /\ IF op = "read" THEN inBlock_' = TRUE /\ offset_' = 0 ELSE UNCHANGED <<inBlock_, offset_>>
  /\ Continue
  /\ UNCHANGED <<type_, block_, partialBlockRead_, card, clock, writes, dst>>

\* The card is late, and will not send any more, or it sends an error token.
NoBlock ==
  /\ Doing("token") /\ t0 # None /\ mode = "preparing"
  /\ \/ TimeUp /\ Return("timeout")
     \/ MayRefuse /\ ~dead /\ Return("refused")
  /\ mode' = "ready"
  /\ UNCHANGED <<driver, cardRest, at, sent, flawed, disk, clock, writes, dst>>

\* Slip: a block of which only the checksum is left stays open.
EndsLate(end) == ~partialBlockRead_ \/ end > Size

\* Whether a read up to there ends the reading of the block.
EndsBlock(end) == ~partialBlockRead_ \/ end >= Size

\* The bytes before the offset are skipped, those after it only left unread in
\* partial block mode.
Data ==
  LET skip == IF arg.offset > offset_ THEN arg.offset - offset_ ELSE 0
      end  == offset_ + skip + arg.count
      last == EndsBlock(end)
  IN /\ Doing("data")
     /\ dst' = [i \in 1 .. arg.count |->
                  [block |-> at, byte |-> sent + skip + i - 1, stored |-> disk[at]]]
     /\ offset_' = IF last THEN Drained ELSE end
     /\ Rec(IF last THEN Size + Crc - offset_ ELSE skip + arg.count)
     /\ inBlock_' = ~last
     /\ Continue
     /\ UNCHANGED <<type_, block_, partialBlockRead_, kind, at, busy, dead, flawed, disk,
                    clock, writes>>

\* The 16 bytes of a register and their checksum; the register may be of a layout
\* the driver does not know, or say that single blocks cannot be erased.
Register ==
  /\ Doing("register")
  /\ mode' = "ready" /\ at' = 0
  /\ Continue \/ (MayRefuse /\ Return("refused"))
  /\ UNCHANGED <<driver, cardRest, sent, flawed, disk, clock, writes, dst>>

\* A block of data is accepted, and stored or not; multiple writes go on with
\* the next block.
Send ==
  /\ Doing("send") /\ mode \in {"receiving", "multiple"} /\ at \in Block
  /\ writes' = writes + 1
  /\ busy' = TRUE
  /\ \/ disk' = [disk EXCEPT ![at] = writes'] /\ UNCHANGED flawed
     \/ MayRefuse /\ flawed' = TRUE /\ UNCHANGED disk
  /\ IF mode = "multiple" THEN at' = at + 1 /\ UNCHANGED mode ELSE mode' = "ready" /\ UNCHANGED at
  /\ Continue
  /\ UNCHANGED <<driver, kind, sent, dead, clock, dst>>

SendFails ==
  /\ Doing("send") /\ (MayRefuse \/ at \notin Block)
  /\ mode' = IF mode = "multiple" THEN mode ELSE "ready"
  /\ Return("refused")
  /\ UNCHANGED <<driver, cardRest, at, sent, flawed, disk, clock, writes, dst>>

StopTransmission ==
  /\ Doing("stop")
  /\ mode' = "ready" /\ at' = 0 /\ busy' = TRUE
  /\ Continue
  /\ UNCHANGED <<driver, kind, sent, dead, flawed, disk, clock, writes, dst>>

-----------------------------------------------------------------------------
(* The card by itself. *)

CardFinishes ==
  /\ busy /\ ~dead /\ busy' = FALSE
  /\ UNCHANGED <<driver, call, time, kind, mode, at, sent, dead, flawed, disk, writes, dst, reply>>

CardSends ==
  /\ mode = "preparing" /\ ~dead /\ Doing("token")
  /\ mode' = "sending"
  /\ UNCHANGED <<driver, call, time, kind, at, sent, busy, dead, flawed, disk, writes, dst, reply>>

CardDies ==
  /\ MayDie /\ (busy \/ mode = "preparing") /\ ~dead /\ dead' = TRUE
  /\ UNCHANGED <<driver, call, time, kind, mode, at, sent, busy, flawed, disk, writes, dst, reply>>

-----------------------------------------------------------------------------

Step ==
  \/ Command
  \/ BeginWait \/ NotBusy \/ StillBusy
  \/ BlockBegins \/ NoBlock \/ Data \/ Register \/ Send \/ SendFails \/ StopTransmission

Call ==
  \/ InitCall
  \/ \E b \in Block, offset \in 0 .. Size - 1, count \in 1 .. Size : ReadCall(b, offset, count)
  \/ \E b \in Block : writes < MaxWrites /\ (WriteCall(b) \/ WriteStart(b))
  \/ \E first, last \in Block \ {0} : Erase(first, last)
  \/ writes < MaxWrites /\ WriteMore
  \/ CardSize \/ WriteStop
  \/ \E value \in BOOLEAN : PartialBlockRead(value)

Next == Step \/ Tick \/ CardFinishes \/ CardSends \/ CardDies \/ Call

Spec == Init /\ [][Next]_vars

\* The driver and the clock go on; a card that is not dead answers in the end.
FairSpec ==
  Spec /\ WF_vars(Step) /\ WF_vars(Tick) /\ WF_vars(CardFinishes) /\ WF_vars(CardSends)

-----------------------------------------------------------------------------
(* Properties. *)

Args == [block : Block, last : Block, offset : 0 .. Size, count : 0 .. Size]

DriverOK ==
  /\ type_ \in {"none", "SD1", "SD2", "SDHC"} /\ inBlock_ \in BOOLEAN /\ block_ \in Block
  /\ offset_ \in 0 .. Size - 1 \cup {Drained} /\ partialBlockRead_ \in BOOLEAN

CallOK ==
  /\ script \in Seq(Commands \cup Waits \cup {"token", "data", "register", "send", "stop"})
  /\ arg \in Args /\ up \in BOOLEAN /\ tries \in 0 .. MaxTries
  /\ reply.arg \in Args
  /\ IF reply.result = "timeout" THEN reply.lasted = Timeout ELSE reply.lasted \in 0 .. Timeout

TimeOK == t0 \in {None} \cup 0 .. Wrap - 1 /\ clock \in 0 .. Wrap - 1 /\ waited \in 0 .. Timeout

CardOK ==
  /\ kind \in Kind
  /\ mode \in {"off", "ready", "preparing", "sending", "receiving", "multiple"}
  /\ at \in Int /\ sent \in 0 .. Size + Crc /\ {busy, dead, flawed} \subseteq BOOLEAN
  /\ disk \in [Block -> 0 .. MaxWrites] /\ writes \in 0 .. MaxWrites

\* The variables hold what the code's variables can hold.
TypeOK == DriverOK /\ CallOK /\ TimeOK /\ CardOK

\* Driver and card agree on the block that is being read and on how far, also
\* when readData has noted the next block already (275) but not ended the last
\* one; and between calls, but for a failed init(), a card that is sending is one
\* the driver reads: no command is ever taken for a part of the answer to another.
InStep ==
  /\ inBlock_ => mode = "sending" /\ sent = offset_ /\ (Doing("CMD17") \/ at = block_)
  /\ script = << >> /\ up /\ mode = "sending" => inBlock_

\* A read that succeeds returns the bytes asked for, of the block asked for, as
\* the last write left them, also from a block that was open for partial reads
\* before other calls (readData 274-302, readEnd).
ReadReturnsBlock ==
  reply.op = "read" /\ reply.result = "ok" =>
    dst = [i \in 1 .. reply.arg.count |->
             [block |-> reply.arg.block, byte |-> reply.arg.offset + i - 1,
              stored |-> disk[reply.arg.block]]]

\* A write that returns true is stored (writeBlock 446-450: an accepted block
\* may still fail to be programmed).
WriteIsStored ==
  reply.op = "write" /\ reply.result = "ok" => disk[reply.arg.block] = writes

\* A single write changes its block and no other, whatever kind the card is of
\* and however init() found out (the addresses of 276-278, 431, 515).
WritesGoWhereTold ==
  [][\A b \in Block : op = "write" /\ disk'[b] # disk[b] => b = arg.block]_vars

\* Every wait ends, whatever the card does.
WaitsEnd == t0 # None ~> t0 = None

=============================================================================
