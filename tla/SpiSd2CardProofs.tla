-------------------------- MODULE SpiSd2CardProofs --------------------------
(***************************************************************************)
(* Proofs about SpiSd2Card, for blocks of any size, clocks of any width, *)
(* any kinds of card and any refusals.                                     *)
(*                                                                         *)
(* The invariant says for every step of a call in which mode the card is    *)
(* when the driver comes to it: a card sends only what the driver reads or  *)
(* is about to wait for, it is asked for a block by the number its kind     *)
(* takes, and a write is told from a failed one by the status after it.     *)
(***************************************************************************)
EXTENDS SpiSd2Card, SequenceTheorems, TLAPS

-----------------------------------------------------------------------------
(* The scripts of the calls. *)

Script(o) ==
  CASE o = "init"  -> <<"CMD0", "CMD8", "CMD55", "ACMD41", "CMD58">>
    [] o = "read"  -> <<"CMD17", "token", "data">>
    [] o = "write" -> <<"CMD24", "send", "programmed", "CMD13">>
    [] o = "erase" -> <<"CMD9", "token", "register", "CMD32", "CMD33", "CMD38", "erased">>
    [] o = "size"  -> <<"CMD9", "token", "register">>
    [] o = "start" -> <<"CMD55", "ACMD23", "CMD25">>
    [] o = "more"  -> <<"free", "send">>
    [] o = "stop"  -> <<"free", "stop", "free">>
    [] OTHER       -> << >>

Calls == {"init", "read", "write", "erase", "size", "start", "more", "stop"}

\* What is left of the script of a call.
IsRest(o, s) ==
  IF o = "none" THEN s = << >>
  ELSE o \in Calls /\ \E k \in 1 .. Len(Script(o)) : s = SubSeq(Script(o), k, Len(Script(o)))

-----------------------------------------------------------------------------
(* The invariant. *)

\* Only init() runs before the card is up, and it learns how the card counts.
Setup ==
  /\ op \notin {"none", "init"} => up
  /\ op = "init" =>
       /\ ~up /\ ~inBlock_ /\ type_ # "SDHC"
       /\ Doing("CMD0") \/ mode \in {"off", "ready"}
  /\ up => (type_ = "SDHC" <=> kind = "SDHC")

\* A call has not ended before its script has.
Pending ==
  /\ script # << >> => reply = NoReply
  /\ script = << >> => t0 = None

\* As long as a wait has not lasted for its timeout, it has for the time that
\* has passed on the clock.
Waiting == t0 # None => Elapsed <= waited \/ waited = Timeout

\* A block the driver is reading is read to its end by the next command.
Open ==
  inBlock_ =>
    /\ mode = "sending" /\ sent = offset_ /\ offset_ < Size
    /\ Doing("CMD17") \/ at = block_
    /\ \/ script = << >> \/ Doing("data")
       \/ script # << >> /\ script[1] \in Commands /\ t0 = None

\* A card sends what the driver asked for.
Sends ==
  /\ mode = "sending" /\ up /\ ~inBlock_ => Doing("token") \/ Doing("register")
  /\ mode = "preparing" => Doing("token")
  /\ Doing("token") => sent = 0 /\ (op = "read" => at = arg.block)
  /\ op = "read" => block_ = arg.block /\ arg.offset + arg.count <= Size
  /\ Doing("data") => inBlock_ /\ offset_ <= arg.offset

\* A single write goes to its block and is stored unless the status tells.
Stores ==
  /\ op = "write" /\ Doing("send") => mode = "receiving" /\ at = arg.block
  /\ op = "write" /\ (Doing("programmed") \/ Doing("CMD13"))
       => flawed \/ disk[arg.block] = writes
  /\ Doing("CMD24") \/ Doing("send") \/ op = "more" => writes < MaxWrites

IInv ==
  /\ TypeOK /\ IsRest(op, script)
  /\ Setup /\ Pending /\ Waiting /\ Open /\ Sends /\ Stores
  /\ ReadReturnsBlock /\ WriteIsStored

-----------------------------------------------------------------------------
(* Scripts, step by step. *)

Steps == Commands \cup Waits \cup {"token", "data", "register", "send", "stop"}

\* The next step is y, or there is none.
Leads(y) == Tail(script) # << >> /\ Tail(script)[1] = y

Ends == Tail(script) = << >>

\* The rest of a sequence from a place in it.
LEMMA RestOf ==
  ASSUME NEW S, NEW s \in Seq(S), NEW k \in 1 .. Len(s)
  PROVE  LET r == SubSeq(s, k, Len(s))
         IN  /\ r \in Seq(S) /\ r # << >> /\ r[1] = s[k]
             /\ Tail(r) = SubSeq(s, k + 1, Len(s))
             /\ k = Len(s) => Tail(r) = << >>
             /\ k < Len(s) => Tail(r) # << >> /\ Tail(r)[1] = s[k + 1]
<1> DEFINE n == Len(s)
           r == SubSeq(s, k, n)
           t == SubSeq(s, k + 1, n)
<1>1. n \in Nat /\ k \in 1 .. n /\ \A i \in 1 .. n : s[i] \in S
  BY LenProperties, ElementOfSeq
<1> HIDE DEF n
<1>2. /\ r \in Seq(S) /\ Len(r) = n - k + 1
      /\ \A i \in 1 .. n - k + 1 : r[i] = s[k + i - 1]
  <2>1. \A i \in k .. n : s[i] \in S
    BY <1>1
  <2>2. k \in Int /\ n \in Int /\ k <= n
    BY <1>1
  <2> QED
    BY <2>1, <2>2, SubSeqProperties
<1>3. Tail(r) = t /\ r # << >>
  <2>1. n \in k .. n
    BY <1>1
  <2>2. Tail(r) = t
    BY <1>1, <2>1, HeadTailOfSubSeq DEF n
  <2>3. r # << >>
    BY <1>1, <1>2, EmptySeq
  <2> QED
    BY <2>2, <2>3
<1>4. r[1] = s[k]
  BY <1>1, <1>2
<1>5. k = n => t = << >>
  BY <1>1, SubSeqEmpty
<1>6. k < n => t # << >> /\ t[1] = s[k + 1]
  <2>1. SUFFICES ASSUME k < n PROVE t # << >> /\ t[1] = s[k + 1]
    OBVIOUS
  <2>2. \A i \in k + 1 .. n : s[i] \in S
    BY <1>1
  <2>3. k + 1 \in Int /\ n \in Int /\ k + 1 <= n
    BY <1>1, <2>1
  <2>4. Len(t) = n - k /\ \A i \in 1 .. n - k : t[i] = s[k + i]
    BY <2>2, <2>3, SubSeqProperties
  <2> QED
    BY <1>1, <2>1, <2>4, EmptySeq
<1> QED
  BY <1>1, <1>2, <1>3, <1>4, <1>5, <1>6 DEF n

\* What a script is made of.
LEMMA Scripts ==
  /\ \A o \in Calls : Script(o) \in Seq(Steps)
  /\ Len(Script("init")) = 5
  /\ Script("init")[1] = "CMD0"
  /\ Script("init")[2] = "CMD8"
  /\ Script("init")[3] = "CMD55"
  /\ Script("init")[4] = "ACMD41"
  /\ Script("init")[5] = "CMD58"
  /\ Len(Script("read")) = 3
  /\ Script("read")[1] = "CMD17"
  /\ Script("read")[2] = "token"
  /\ Script("read")[3] = "data"
  /\ Len(Script("write")) = 4
  /\ Script("write")[1] = "CMD24"
  /\ Script("write")[2] = "send"
  /\ Script("write")[3] = "programmed"
  /\ Script("write")[4] = "CMD13"
  /\ Len(Script("erase")) = 7
  /\ Script("erase")[1] = "CMD9"
  /\ Script("erase")[2] = "token"
  /\ Script("erase")[3] = "register"
  /\ Script("erase")[4] = "CMD32"
  /\ Script("erase")[5] = "CMD33"
  /\ Script("erase")[6] = "CMD38"
  /\ Script("erase")[7] = "erased"
  /\ Len(Script("size")) = 3
  /\ Script("size")[1] = "CMD9"
  /\ Script("size")[2] = "token"
  /\ Script("size")[3] = "register"
  /\ Len(Script("start")) = 3
  /\ Script("start")[1] = "CMD55"
  /\ Script("start")[2] = "ACMD23"
  /\ Script("start")[3] = "CMD25"
  /\ Len(Script("more")) = 2
  /\ Script("more")[1] = "free"
  /\ Script("more")[2] = "send"
  /\ Len(Script("stop")) = 3
  /\ Script("stop")[1] = "free"
  /\ Script("stop")[2] = "stop"
  /\ Script("stop")[3] = "free"
<1>0. {"ACMD23", "ACMD41", "CMD0", "CMD13", "CMD17", "CMD24", "CMD25", "CMD32", "CMD33", "CMD38",
       "CMD55", "CMD58", "CMD8", "CMD9", "data", "erased", "free", "programmed", "register",
       "send", "stop", "token"}
        \subseteq Steps
  BY DEF Steps, Commands, Waits
<1>1. /\ Script("init") = <<"CMD0", "CMD8", "CMD55", "ACMD41", "CMD58">>
      /\ Script("init") \in Seq(Steps) /\ Len(Script("init")) = 5
  <2>1. Script("init") = <<"CMD0", "CMD8", "CMD55", "ACMD41", "CMD58">>
    BY DEF Script
  <2>2. <<"CMD0", "CMD8", "CMD55", "ACMD41", "CMD58">> \in Seq(Steps)
    BY <1>0
  <2>3. Len(<<"CMD0", "CMD8", "CMD55", "ACMD41", "CMD58">>) = 5
    OBVIOUS
  <2> QED
    BY <2>1, <2>2, <2>3
<1>2. /\ Script("read") = <<"CMD17", "token", "data">>
      /\ Script("read") \in Seq(Steps) /\ Len(Script("read")) = 3
  <2>1. Script("read") = <<"CMD17", "token", "data">>
    BY DEF Script
  <2>2. <<"CMD17", "token", "data">> \in Seq(Steps)
    BY <1>0
  <2>3. Len(<<"CMD17", "token", "data">>) = 3
    OBVIOUS
  <2> QED
    BY <2>1, <2>2, <2>3
<1>3. /\ Script("write") = <<"CMD24", "send", "programmed", "CMD13">>
      /\ Script("write") \in Seq(Steps) /\ Len(Script("write")) = 4
  <2>1. Script("write") = <<"CMD24", "send", "programmed", "CMD13">>
    BY DEF Script
  <2>2. <<"CMD24", "send", "programmed", "CMD13">> \in Seq(Steps)
    BY <1>0
  <2>3. Len(<<"CMD24", "send", "programmed", "CMD13">>) = 4
    OBVIOUS
  <2> QED
    BY <2>1, <2>2, <2>3
<1>4. /\ Script("erase") = <<"CMD9", "token", "register", "CMD32", "CMD33", "CMD38", "erased">>
      /\ Script("erase") \in Seq(Steps) /\ Len(Script("erase")) = 7
  <2>1. Script("erase") = <<"CMD9", "token", "register", "CMD32", "CMD33", "CMD38", "erased">>
    BY DEF Script
  <2>2. <<"CMD9", "token", "register", "CMD32", "CMD33", "CMD38", "erased">> \in Seq(Steps)
    BY <1>0
  <2>3. Len(<<"CMD9", "token", "register", "CMD32", "CMD33", "CMD38", "erased">>) = 7
    OBVIOUS
  <2> QED
    BY <2>1, <2>2, <2>3
<1>5. /\ Script("size") = <<"CMD9", "token", "register">>
      /\ Script("size") \in Seq(Steps) /\ Len(Script("size")) = 3
  <2>1. Script("size") = <<"CMD9", "token", "register">>
    BY DEF Script
  <2>2. <<"CMD9", "token", "register">> \in Seq(Steps)
    BY <1>0
  <2>3. Len(<<"CMD9", "token", "register">>) = 3
    OBVIOUS
  <2> QED
    BY <2>1, <2>2, <2>3
<1>6. /\ Script("start") = <<"CMD55", "ACMD23", "CMD25">>
      /\ Script("start") \in Seq(Steps) /\ Len(Script("start")) = 3
  <2>1. Script("start") = <<"CMD55", "ACMD23", "CMD25">>
    BY DEF Script
  <2>2. <<"CMD55", "ACMD23", "CMD25">> \in Seq(Steps)
    BY <1>0
  <2>3. Len(<<"CMD55", "ACMD23", "CMD25">>) = 3
    OBVIOUS
  <2> QED
    BY <2>1, <2>2, <2>3
<1>7. /\ Script("more") = <<"free", "send">>
      /\ Script("more") \in Seq(Steps) /\ Len(Script("more")) = 2
  <2>1. Script("more") = <<"free", "send">>
    BY DEF Script
  <2>2. <<"free", "send">> \in Seq(Steps)
    BY <1>0
  <2>3. Len(<<"free", "send">>) = 2
    OBVIOUS
  <2> QED
    BY <2>1, <2>2, <2>3
<1>8. /\ Script("stop") = <<"free", "stop", "free">>
      /\ Script("stop") \in Seq(Steps) /\ Len(Script("stop")) = 3
  <2>1. Script("stop") = <<"free", "stop", "free">>
    BY DEF Script
  <2>2. <<"free", "stop", "free">> \in Seq(Steps)
    BY <1>0
  <2>3. Len(<<"free", "stop", "free">>) = 3
    OBVIOUS
  <2> QED
    BY <2>1, <2>2, <2>3
<1> QED
  BY <1>1, <1>2, <1>3, <1>4, <1>5, <1>6, <1>7, <1>8 DEF Calls

\* The rest of a script is made of steps.
LEMMA RestTypes ==
  ASSUME NEW o, NEW s, IsRest(o, s)
  PROVE  s \in Seq(Steps)
<1>1. CASE o = "none"
  BY <1>1 DEF IsRest
<1>2. CASE o # "none"
  <2>1. PICK k \in 1 .. Len(Script(o)) : o \in Calls /\ s = SubSeq(Script(o), k, Len(Script(o)))
    BY <1>2 DEF IsRest
  <2> QED
    BY <2>1, Scripts, RestOf
<1> QED
  BY <1>1, <1>2

\* The steps of each call, and what follows them.
LEMMA Turns ==
  ASSUME IsRest(op, script), script # << >>
  PROVE  /\ op \in Calls
         /\ IsRest(op, Tail(script)) \/ Ends
         /\ op = "init" =>
              \/ script[1] = "CMD0" /\ Leads("CMD8")
              \/ script[1] = "CMD8" /\ Leads("CMD55")
              \/ script[1] = "CMD55" /\ Leads("ACMD41")
              \/ script[1] = "ACMD41" /\ Leads("CMD58")
              \/ script[1] = "CMD58" /\ Ends
         /\ op = "read" =>
              \/ script[1] = "CMD17" /\ Leads("token")
              \/ script[1] = "token" /\ Leads("data")
              \/ script[1] = "data" /\ Ends
         /\ op = "write" =>
              \/ script[1] = "CMD24" /\ Leads("send")
              \/ script[1] = "send" /\ Leads("programmed")
              \/ script[1] = "programmed" /\ Leads("CMD13")
              \/ script[1] = "CMD13" /\ Ends
         /\ op = "erase" =>
              \/ script[1] = "CMD9" /\ Leads("token")
              \/ script[1] = "token" /\ Leads("register")
              \/ script[1] = "register" /\ Leads("CMD32")
              \/ script[1] = "CMD32" /\ Leads("CMD33")
              \/ script[1] = "CMD33" /\ Leads("CMD38")
              \/ script[1] = "CMD38" /\ Leads("erased")
              \/ script[1] = "erased" /\ Ends
         /\ op = "size" =>
              \/ script[1] = "CMD9" /\ Leads("token")
              \/ script[1] = "token" /\ Leads("register")
              \/ script[1] = "register" /\ Ends
         /\ op = "start" =>
              \/ script[1] = "CMD55" /\ Leads("ACMD23")
              \/ script[1] = "ACMD23" /\ Leads("CMD25")
              \/ script[1] = "CMD25" /\ Ends
         /\ op = "more" =>
              \/ script[1] = "free" /\ Leads("send")
              \/ script[1] = "send" /\ Ends
         /\ op = "stop" =>
              \/ script[1] = "free" /\ (Leads("stop") \/ Ends)
              \/ script[1] = "stop" /\ Leads("free")
<1>1. PICK k \in 1 .. Len(Script(op)) :
        op \in Calls /\ script = SubSeq(Script(op), k, Len(Script(op)))
  BY DEF IsRest
<1>2. /\ script[1] = Script(op)[k] /\ Tail(script) = SubSeq(Script(op), k + 1, Len(Script(op)))
      /\ k = Len(Script(op)) => Ends
      /\ k < Len(Script(op)) => Leads(Script(op)[k + 1])
  BY <1>1, Scripts, RestOf DEF Leads, Ends
<1>3. Len(Script(op)) \in Nat
  BY <1>1, Scripts
<1>4. IsRest(op, Tail(script)) \/ Ends
  <2>1. CASE k = Len(Script(op))
    BY <1>2, <2>1
  <2>2. CASE k # Len(Script(op))
    <3>1. k + 1 \in 1 .. Len(Script(op))
      BY <1>3, <2>2
    <3> QED
      BY <1>1, <1>2, <3>1 DEF IsRest, Calls
  <2> QED
    BY <2>1, <2>2
<1>5. ASSUME op = "init"
      PROVE  \/ script[1] = "CMD0" /\ Leads("CMD8")
             \/ script[1] = "CMD8" /\ Leads("CMD55")
             \/ script[1] = "CMD55" /\ Leads("ACMD41")
             \/ script[1] = "ACMD41" /\ Leads("CMD58")
             \/ script[1] = "CMD58" /\ Ends
  <2>1. k \in 1 .. 5
    BY <1>1, <1>5, Scripts
  <2>2. k = 1 \/ k = 2 \/ k = 3 \/ k = 4 \/ k = 5
    BY <2>1
  <2>3. CASE k = 1
    BY <1>2, <1>5, <2>3, Scripts
  <2>4. CASE k = 2
    BY <1>2, <1>5, <2>4, Scripts
  <2>5. CASE k = 3
    BY <1>2, <1>5, <2>5, Scripts
  <2>6. CASE k = 4
    BY <1>2, <1>5, <2>6, Scripts
  <2>7. CASE k = 5
    BY <1>2, <1>5, <2>7, Scripts
  <2> QED
    BY <2>2, <2>3, <2>4, <2>5, <2>6, <2>7
<1>6. ASSUME op = "read"
      PROVE  \/ script[1] = "CMD17" /\ Leads("token")
             \/ script[1] = "token" /\ Leads("data")
             \/ script[1] = "data" /\ Ends
  <2>1. k \in 1 .. 3
    BY <1>1, <1>6, Scripts
  <2>2. k = 1 \/ k = 2 \/ k = 3
    BY <2>1
  <2>3. CASE k = 1
    BY <1>2, <1>6, <2>3, Scripts
  <2>4. CASE k = 2
    BY <1>2, <1>6, <2>4, Scripts
  <2>5. CASE k = 3
    BY <1>2, <1>6, <2>5, Scripts
  <2> QED
    BY <2>2, <2>3, <2>4, <2>5
<1>7. ASSUME op = "write"
      PROVE  \/ script[1] = "CMD24" /\ Leads("send")
             \/ script[1] = "send" /\ Leads("programmed")
             \/ script[1] = "programmed" /\ Leads("CMD13")
             \/ script[1] = "CMD13" /\ Ends
  <2>1. k \in 1 .. 4
    BY <1>1, <1>7, Scripts
  <2>2. k = 1 \/ k = 2 \/ k = 3 \/ k = 4
    BY <2>1
  <2>3. CASE k = 1
    BY <1>2, <1>7, <2>3, Scripts
  <2>4. CASE k = 2
    BY <1>2, <1>7, <2>4, Scripts
  <2>5. CASE k = 3
    BY <1>2, <1>7, <2>5, Scripts
  <2>6. CASE k = 4
    BY <1>2, <1>7, <2>6, Scripts
  <2> QED
    BY <2>2, <2>3, <2>4, <2>5, <2>6
<1>8. ASSUME op = "erase"
      PROVE  \/ script[1] = "CMD9" /\ Leads("token")
             \/ script[1] = "token" /\ Leads("register")
             \/ script[1] = "register" /\ Leads("CMD32")
             \/ script[1] = "CMD32" /\ Leads("CMD33")
             \/ script[1] = "CMD33" /\ Leads("CMD38")
             \/ script[1] = "CMD38" /\ Leads("erased")
             \/ script[1] = "erased" /\ Ends
  <2>1. k \in 1 .. 7
    BY <1>1, <1>8, Scripts
  <2>2. k = 1 \/ k = 2 \/ k = 3 \/ k = 4 \/ k = 5 \/ k = 6 \/ k = 7
    BY <2>1
  <2>3. CASE k = 1
    BY <1>2, <1>8, <2>3, Scripts
  <2>4. CASE k = 2
    BY <1>2, <1>8, <2>4, Scripts
  <2>5. CASE k = 3
    BY <1>2, <1>8, <2>5, Scripts
  <2>6. CASE k = 4
    BY <1>2, <1>8, <2>6, Scripts
  <2>7. CASE k = 5
    BY <1>2, <1>8, <2>7, Scripts
  <2>8. CASE k = 6
    BY <1>2, <1>8, <2>8, Scripts
  <2>9. CASE k = 7
    BY <1>2, <1>8, <2>9, Scripts
  <2> QED
    BY <2>2, <2>3, <2>4, <2>5, <2>6, <2>7, <2>8, <2>9
<1>9. ASSUME op = "size"
      PROVE  \/ script[1] = "CMD9" /\ Leads("token")
             \/ script[1] = "token" /\ Leads("register")
             \/ script[1] = "register" /\ Ends
  <2>1. k \in 1 .. 3
    BY <1>1, <1>9, Scripts
  <2>2. k = 1 \/ k = 2 \/ k = 3
    BY <2>1
  <2>3. CASE k = 1
    BY <1>2, <1>9, <2>3, Scripts
  <2>4. CASE k = 2
    BY <1>2, <1>9, <2>4, Scripts
  <2>5. CASE k = 3
    BY <1>2, <1>9, <2>5, Scripts
  <2> QED
    BY <2>2, <2>3, <2>4, <2>5
<1>10. ASSUME op = "start"
      PROVE  \/ script[1] = "CMD55" /\ Leads("ACMD23")
             \/ script[1] = "ACMD23" /\ Leads("CMD25")
             \/ script[1] = "CMD25" /\ Ends
  <2>1. k \in 1 .. 3
    BY <1>1, <1>10, Scripts
  <2>2. k = 1 \/ k = 2 \/ k = 3
    BY <2>1
  <2>3. CASE k = 1
    BY <1>2, <1>10, <2>3, Scripts
  <2>4. CASE k = 2
    BY <1>2, <1>10, <2>4, Scripts
  <2>5. CASE k = 3
    BY <1>2, <1>10, <2>5, Scripts
  <2> QED
    BY <2>2, <2>3, <2>4, <2>5
<1>11. ASSUME op = "more"
      PROVE  \/ script[1] = "free" /\ Leads("send")
             \/ script[1] = "send" /\ Ends
  <2>1. k \in 1 .. 2
    BY <1>1, <1>11, Scripts
  <2>2. k = 1 \/ k = 2
    BY <2>1
  <2>3. CASE k = 1
    BY <1>2, <1>11, <2>3, Scripts
  <2>4. CASE k = 2
    BY <1>2, <1>11, <2>4, Scripts
  <2> QED
    BY <2>2, <2>3, <2>4
<1>12. ASSUME op = "stop"
      PROVE  \/ script[1] = "free" /\ (Leads("stop") \/ Ends)
             \/ script[1] = "stop" /\ Leads("free")
  <2>1. k \in 1 .. 3
    BY <1>1, <1>12, Scripts
  <2>2. k = 1 \/ k = 2 \/ k = 3
    BY <2>1
  <2>3. CASE k = 1
    BY <1>2, <1>12, <2>3, Scripts
  <2>4. CASE k = 2
    BY <1>2, <1>12, <2>4, Scripts
  <2>5. CASE k = 3
    BY <1>2, <1>12, <2>5, Scripts
  <2> QED
    BY <2>2, <2>3, <2>4, <2>5
<1> QED
  BY <1>1, <1>4, <1>5, <1>6, <1>7, <1>8, <1>9, <1>10, <1>11, <1>12

\* The scripts that calls begin with, and the one of another try.
LEMMA Firsts ==
  /\ IsRest("init", <<"CMD0", "CMD8", "CMD55", "ACMD41", "CMD58">>)
  /\ IsRest("read", <<"CMD17", "token", "data">>)
  /\ IsRest("read", <<"data">>)
  /\ IsRest("write", <<"CMD24", "send", "programmed", "CMD13">>)
  /\ IsRest("erase", <<"CMD9", "token", "register", "CMD32", "CMD33", "CMD38", "erased">>)
  /\ IsRest("size", <<"CMD9", "token", "register">>)
  /\ IsRest("start", <<"CMD55", "ACMD23", "CMD25">>)
  /\ IsRest("more", <<"free", "send">>)
  /\ IsRest("stop", <<"free", "stop", "free">>)
<1>1. IsRest("init", <<"CMD0", "CMD8", "CMD55", "ACMD41", "CMD58">>)
  <2>1. <<"CMD0", "CMD8", "CMD55", "ACMD41", "CMD58">>
         = SubSeq(Script("init"), 1, Len(Script("init")))
    BY Scripts, SubSeqFull DEF Calls, Script
  <2>2. 1 \in 1 .. Len(Script("init"))
    BY Scripts
  <2> QED
    BY <2>1, <2>2 DEF IsRest, Calls
<1>2. IsRest("read", <<"CMD17", "token", "data">>)
  <2>1. <<"CMD17", "token", "data">> = SubSeq(Script("read"), 1, Len(Script("read")))
    BY Scripts, SubSeqFull DEF Calls, Script
  <2>2. 1 \in 1 .. Len(Script("read"))
    BY Scripts
  <2> QED
    BY <2>1, <2>2 DEF IsRest, Calls
<1>3. IsRest("read", <<"data">>)
  <2>1. SubSeq(Script("read"), 3, 3) = <<Script("read")[3]>>
    <3>1. /\ 3 \in 1 .. 3 /\ 3 \in 3 .. 3 /\ 3 \in Int /\ 3 + 1 \in Int /\ 3 < 3 + 1
          /\ "read" \in Calls
      BY DEF Calls
    <3>2. SubSeq(Script("read"), 3, 3) = <<Script("read")[3]>> \o SubSeq(Script("read"), 3 + 1, 3)
      BY <3>1, Scripts, SubSeqRecursiveFirst
    <3>3. SubSeq(Script("read"), 3 + 1, 3) = << >>
      BY <3>1, SubSeqEmpty
    <3>4. <<Script("read")[3]>> \in Seq({"data"})
      BY Scripts
    <3> QED
      BY <3>2, <3>3, <3>4, ConcatEmptySeq
  <2>2. /\ 3 \in 1 .. Len(Script("read"))
        /\ <<"data">> = SubSeq(Script("read"), 3, Len(Script("read")))
    BY <2>1, Scripts
  <2> QED
    BY <2>1, <2>2 DEF IsRest, Calls
<1>4. IsRest("write", <<"CMD24", "send", "programmed", "CMD13">>)
  <2>1. <<"CMD24", "send", "programmed", "CMD13">>
         = SubSeq(Script("write"), 1, Len(Script("write")))
    BY Scripts, SubSeqFull DEF Calls, Script
  <2>2. 1 \in 1 .. Len(Script("write"))
    BY Scripts
  <2> QED
    BY <2>1, <2>2 DEF IsRest, Calls
<1>5. IsRest("erase", <<"CMD9", "token", "register", "CMD32", "CMD33", "CMD38", "erased">>)
  <2>1. <<"CMD9", "token", "register", "CMD32", "CMD33", "CMD38", "erased">>
         = SubSeq(Script("erase"), 1, Len(Script("erase")))
    BY Scripts, SubSeqFull DEF Calls, Script
  <2>2. 1 \in 1 .. Len(Script("erase"))
    BY Scripts
  <2> QED
    BY <2>1, <2>2 DEF IsRest, Calls
<1>6. IsRest("size", <<"CMD9", "token", "register">>)
  <2>1. <<"CMD9", "token", "register">> = SubSeq(Script("size"), 1, Len(Script("size")))
    BY Scripts, SubSeqFull DEF Calls, Script
  <2>2. 1 \in 1 .. Len(Script("size"))
    BY Scripts
  <2> QED
    BY <2>1, <2>2 DEF IsRest, Calls
<1>7. IsRest("start", <<"CMD55", "ACMD23", "CMD25">>)
  <2>1. <<"CMD55", "ACMD23", "CMD25">> = SubSeq(Script("start"), 1, Len(Script("start")))
    BY Scripts, SubSeqFull DEF Calls, Script
  <2>2. 1 \in 1 .. Len(Script("start"))
    BY Scripts
  <2> QED
    BY <2>1, <2>2 DEF IsRest, Calls
<1>8. IsRest("more", <<"free", "send">>)
  <2>1. <<"free", "send">> = SubSeq(Script("more"), 1, Len(Script("more")))
    BY Scripts, SubSeqFull DEF Calls, Script
  <2>2. 1 \in 1 .. Len(Script("more"))
    BY Scripts
  <2> QED
    BY <2>1, <2>2 DEF IsRest, Calls
<1>9. IsRest("stop", <<"free", "stop", "free">>)
  <2>1. <<"free", "stop", "free">> = SubSeq(Script("stop"), 1, Len(Script("stop")))
    BY Scripts, SubSeqFull DEF Calls, Script
  <2>2. 1 \in 1 .. Len(Script("stop"))
    BY Scripts
  <2> QED
    BY <2>1, <2>2 DEF IsRest, Calls
<1> QED
  BY <1>1, <1>2, <1>3, <1>4, <1>5, <1>6, <1>7, <1>8, <1>9

\* The ACMD41 that is tried again has its CMD55 before it.
LEMMA AnotherTry ==
  ASSUME IsRest(op, script), Doing("ACMD41")
  PROVE  /\ IsRest(op, <<"CMD55">> \o script)
         /\ <<"CMD55">> \o script # << >> /\ (<<"CMD55">> \o script)[1] = "CMD55"
<1>1. script # << >> /\ script[1] = "ACMD41" /\ op \in Calls
  <2>1. script # << >> /\ script[1] = "ACMD41"
    BY DEF Doing
  <2> QED
    BY <2>1 DEF IsRest
<1>2. op = "init"
  BY <1>1, Turns DEF Calls
<1>3. PICK k \in 1 .. 5 : script = SubSeq(Script("init"), k, 5)
  BY <1>2, Scripts DEF IsRest
<1>4. script[1] = Script("init")[k]
  BY <1>3, Scripts, RestOf DEF Calls
<1>5. k = 4
  <2>1. k = 1 \/ k = 2 \/ k = 3 \/ k = 4 \/ k = 5
    BY <1>3
  <2> QED
    BY <1>1, <1>4, <2>1, Scripts
<1>6. <<"CMD55">> \o script = SubSeq(Script("init"), 3, 5)
  <2>1. 3 \in 1 .. 5 /\ 5 \in 3 .. 5 /\ "init" \in Calls /\ 3 + 1 = 4
    BY DEF Calls
  <2>2. SubSeq(Script("init"), 3, 5) = <<Script("init")[3]>> \o SubSeq(Script("init"), 3 + 1, 5)
    BY <2>1, Scripts, SubSeqRecursiveFirst
  <2> QED
    BY <1>3, <1>5, <2>1, <2>2, Scripts
<1>7. 3 \in 1 .. 5 /\ 5 = Len(Script("init")) /\ "init" \in Calls
  BY Scripts DEF Calls
<1>8. IsRest(op, <<"CMD55">> \o script)
  BY <1>2, <1>6, <1>7 DEF IsRest
<1>9. <<"CMD55">> \o script # << >> /\ (<<"CMD55">> \o script)[1] = "CMD55"
  BY <1>6, <1>7, Scripts, RestOf
<1> QED
  BY <1>8, <1>9

-----------------------------------------------------------------------------
\* The constants that are numbers.
LEMMA Numbers ==
  /\ Size \in Nat \ {0} /\ Crc \in Nat \ {0}
  /\ Timeout \in Nat \ {0} /\ Wrap \in Nat \ {0} /\ Timeout < Wrap
  /\ MaxWrites \in Nat /\ MaxTries \in Nat
  /\ 0 \in Block /\ Block \subseteq Nat
BY DriverAssumption

-----------------------------------------------------------------------------
(* What a step of a call does to the rest of it. *)

Scripted == TypeOK /\ IsRest(op, script)

\* A step that goes on takes the first step off the script, or ends the call.
LEMMA Continues ==
  ASSUME IsRest(op, script)
  PROVE  /\ script # << >> /\ Continue =>
              /\ IsRest(op', script') /\ t0' = None /\ waited' = 0
              /\ \/ script' = Tail(script) /\ script' # << >>
                    /\ UNCHANGED <<op, arg, up, tries, reply>>
                 \/ Ends /\ Return("ok")
         /\ BecomesReady =>
              /\ IsRest(op', script') /\ t0' = None /\ waited' = 0
              /\ \/ type_ = "SD2" /\ script' = Tail(script) /\ script' # << >>
                    /\ UNCHANGED <<op, arg, up, tries, reply>>
                 \/ type_ # "SD2" /\ Return("ok")
<1>1. ASSUME script # << >>, Continue
      PROVE  /\ IsRest(op', script') /\ t0' = None /\ waited' = 0
             /\ \/ script' = Tail(script) /\ script' # << >>
                   /\ UNCHANGED <<op, arg, up, tries, reply>>
                \/ Ends /\ Return("ok")
  BY <1>1, Turns DEF Continue, ContinueWith, Return, Ends, IsRest
<1>2. ASSUME BecomesReady, type_ = "SD2"
      PROVE  /\ IsRest(op', script') /\ t0' = None /\ waited' = 0
             /\ script' = Tail(script) /\ script' # << >>
             /\ UNCHANGED <<op, arg, up, tries, reply>>
  <2>1. script # << >> /\ script[1] = "ACMD41" /\ Continue
    BY <1>2 DEF BecomesReady, Sending, Doing, Continue
  <2>2. op \in Calls
    BY <2>1 DEF IsRest
  <2>3. op = "init"
    BY <2>1, <2>2, Turns DEF Calls
  <2>4. ~Ends
    BY <2>1, <2>3, Turns DEF Leads, Ends
  <2> QED
    BY <1>1, <2>1, <2>4
<1>3. ASSUME BecomesReady, type_ # "SD2"
      PROVE  IsRest(op', script') /\ t0' = None /\ waited' = 0 /\ Return("ok")
  BY <1>3 DEF BecomesReady, ContinueWith, Return, IsRest
<1> QED
  BY <1>1, <1>2, <1>3

\* readEnd leaves no block open and the card ready, or changes nothing.
LEMMA EndsRead ==
  ASSUME DriverOK, CardOK, Open, readEnd
  PROVE  /\ inBlock_' = FALSE
         /\ IF inBlock_ THEN mode' = "ready" /\ sent' = 0 /\ offset_' = Drained
            ELSE UNCHANGED <<mode, sent, offset_>>
BY Numbers DEF DriverOK, CardOK, Open, readEnd, Rec

\* What is left of a call is the rest of its script after every step.
LEMMA RestStep == IsRest(op, script) /\ [Next]_vars => IsRest(op', script')
<1> SUFFICES ASSUME IsRest(op, script), [Next]_vars PROVE IsRest(op', script')
  OBVIOUS
<1>1. CASE BeginCommand \/ BeginWait \/ Tick \/ CardFinishes \/ CardSends \/ CardDies
  BY <1>1
  DEF call, driver, BeginCommand, None, readEnd, Rec, StartWait, BeginWait, card, Tick, TimeUp,
    Doing, Elapsed, CardFinishes, time, CardSends, CardDies
<1>2. CASE Starts("CMD9", "preparing") \/ Starts("CMD17", "preparing") \/
  Starts("CMD24", "receiving") \/ Starts("CMD25", "multiple")
  BY <1>2, Continues, Turns
  DEF Starts, Sending, Doing, None, TimeUp, Elapsed, Hears, Addressed, driver, cardRest, Return,
    Ends, Leads
<1>3. ASSUME NEW cmd \in {"CMD32", "CMD33", "CMD55", "ACMD23"}, Passes(cmd)
      PROVE  IsRest(op', script')
  BY <1>3, Continues, Turns
  DEF Passes, Sending, Doing, None, TimeUp, Elapsed, Hears, driver, card, Return, Ends, Leads
<1>4. CASE GoIdle \/ Version \/ Capacity
  BY <1>4, Continues, Turns
  DEF GoIdle, Sending, Doing, None, TimeUp, Elapsed, driver, cardRest, Version, Hears, card,
    Capacity, Return, Ends, Leads
<1>5. CASE BecomesReady
  BY <1>5, Continues, Turns
  DEF BecomesReady, Sending, Doing, None, TimeUp, Elapsed, Hears, driver, cardRest, Return,
    Ends, Leads
<1>6. CASE Status
  BY <1>6, Continues, Turns
  DEF IsRest, Status, Sending, Doing, None, TimeUp, Elapsed, Hears, Return, NoArg, driver,
    cardRest, Ends, Leads
<1>7. CASE EraseBlocks
  BY <1>7, Continues, Turns
  DEF EraseBlocks, Sending, Doing, None, TimeUp, Elapsed, Hears, driver, Return, Ends, Leads
<1>8. CASE CommandFails
  BY <1>8, AnotherTry DEF CommandFails, Return, IsRest
<1>9. CASE NotBusy
  BY <1>9, Continues, Turns DEF NotBusy, None, driver, card, Return, Ends, Leads
<1>10. CASE StillBusy \/ NoBlock \/ SendFails
  BY <1>10
  DEF IsRest, StillBusy, TimeUp, None, Doing, Elapsed, Return, NoArg, driver, card, NoBlock,
    cardRest, SendFails
<1>11. CASE BlockBegins
  BY <1>11, Continues, Turns DEF BlockBegins, Doing, None, card, Return, Ends, Leads
<1>12. CASE Data
  BY <1>12, Continues, Turns DEF Data, EndsBlock, Doing, Rec, Return, Ends, Leads
<1>13. CASE Register
  BY <1>13, Continues, Turns
  DEF IsRest, Register, Doing, Return, NoArg, None, driver, cardRest, Ends, Leads
<1>14. CASE Send
  BY <1>14, Continues, Turns DEF Send, Doing, driver, Return, Ends, Leads
<1>15. CASE StopTransmission
  BY <1>15, Continues, Turns DEF StopTransmission, Doing, driver, Return, Ends, Leads
<1>16. CASE InitCall
  BY <1>16, Firsts DEF InitCall, Begin, NoReply, NoArg, card, time
<1>17. ASSUME NEW b \in Block, NEW o \in 0 .. Size - 1, NEW n \in 1 .. Size, ReadCall(b, o, n)
      PROVE  IsRest(op', script')
  BY <1>17, Firsts DEF ReadCall, CanCall, Begin, NoReply, NoArg, ReadScript, card, time
<1>18. ASSUME NEW b \in Block, writes < MaxWrites, WriteCall(b)
      PROVE  IsRest(op', script')
  BY <1>18, Firsts DEF WriteCall, CanCall, OtherCall, Begin, NoReply, NoArg, driver, card, time
<1>19. ASSUME NEW b \in Block, writes < MaxWrites, WriteStart(b)
      PROVE  IsRest(op', script')
  BY <1>19, Firsts DEF WriteStart, CanCall, OtherCall, Begin, NoReply, NoArg, driver, card, time
<1>20. ASSUME NEW b \in Block \ {0}, NEW l \in Block \ {0}, Erase(b, l)
      PROVE  IsRest(op', script')
  BY <1>20, Firsts DEF Erase, CanCall, OtherCall, Begin, NoReply, NoArg, driver, card, time
<1>21. ASSUME writes < MaxWrites, WriteMore
      PROVE  IsRest(op', script')
  BY <1>21, Firsts DEF WriteMore, OtherCall, Begin, NoReply, NoArg, driver, card, time
<1>22. CASE CardSize
  BY <1>22, Firsts DEF CardSize, CanCall, OtherCall, Begin, NoReply, NoArg, driver, card, time
<1>23. CASE WriteStop
  BY <1>23, Firsts DEF WriteStop, OtherCall, Begin, NoReply, NoArg, driver, card, time
<1>24. ASSUME NEW v \in BOOLEAN, PartialBlockRead(v)
      PROVE  IsRest(op', script')
  BY <1>24 DEF call, PartialBlockRead, CanCall, readEnd, Rec, NoReply, NoArg, time
<1>25. CASE UNCHANGED vars
  BY <1>25 DEF vars, driver, card, call, time
<1> QED
  BY <1>1, <1>2, <1>3, <1>4, <1>5, <1>6, <1>7, <1>8, <1>9, <1>10, <1>11, <1>12, <1>13, <1>14,
    <1>15, <1>16, <1>17, <1>18, <1>19, <1>20, <1>21, <1>22, <1>23, <1>24, <1>25
  DEF Next, Step, Call, Command

-----------------------------------------------------------------------------
(* Types. *)

\* The arguments of the calls.
LEMMA ArgTypes ==
  /\ NoArg \in Args
  /\ \A b \in Block : [NoArg EXCEPT !.block = b] \in Args
  /\ \A b, l \in Block : [NoArg EXCEPT !.block = b, !.last = l] \in Args
  /\ \A b \in Block, o \in 0 .. Size, n \in 0 .. Size :
       [NoArg EXCEPT !.block = b, !.offset = o, !.count = n] \in Args
<1>1. 0 \in Block /\ 0 \in 0 .. Size
  BY Numbers
<1>2. NoArg \in Args
  BY <1>1 DEF NoArg, Args
<1>3. ASSUME NEW b \in Block PROVE [NoArg EXCEPT !.block = b] \in Args
  BY <1>1 DEF NoArg, Args
<1>4. ASSUME NEW b \in Block, NEW l \in Block
      PROVE  [NoArg EXCEPT !.block = b, !.last = l] \in Args
  BY <1>1 DEF NoArg, Args
<1>5. ASSUME NEW b \in Block, NEW o \in 0 .. Size, NEW n \in 0 .. Size
      PROVE  [NoArg EXCEPT !.block = b, !.offset = o, !.count = n] \in Args
  BY <1>1 DEF NoArg, Args
<1> QED
  BY <1>2, <1>3, <1>4, <1>5

\* The types, at the beginning.
LEMMA TypesInit == Init => TypeOK /\ IsRest(op, script)
<1> SUFFICES ASSUME Init PROVE TypeOK /\ IsRest(op, script)
  OBVIOUS
<1>1. DriverOK
  <2>1. block_ \in Block /\ offset_ \in 0 .. Size - 1
    BY Numbers DEF Init
  <2> QED
    BY <2>1 DEF Init, DriverOK
<1>2. TimeOK
  BY Numbers DEF Init, TimeOK
<1>3. CardOK
  <2>1. disk \in [Block -> 0 .. MaxWrites] /\ writes \in 0 .. MaxWrites
    BY Numbers DEF Init
  <2>2. kind \in Kind /\ mode = "off" /\ {busy, dead, flawed} \subseteq BOOLEAN
    BY DEF Init
  <2>3. at \in Int /\ sent \in 0 .. Size + Crc
    BY Numbers DEF Init
  <2> QED
    BY <2>1, <2>2, <2>3 DEF CardOK
<1>4. CallOK
  <2>1. reply.arg \in Args /\ reply.result = "ok" /\ reply.lasted = 0
    BY ArgTypes DEF Init, NoReply
  <2>2. script \in Seq(Commands \cup Waits \cup {"token", "data", "register", "send", "stop"})
    BY EmptySeq DEF Init
  <2>3. /\ arg \in Args
        /\ up \in BOOLEAN
        /\ tries \in 0 .. MaxTries
    <3>1. arg \in Args /\ up \in BOOLEAN
      BY ArgTypes DEF Init
    <3>2. tries \in 0 .. MaxTries
      BY Numbers DEF Init
    <3> QED
      BY <3>1, <3>2
  <2>4. 0 \in 0 .. Timeout
    BY Numbers
  <2> QED
    BY <2>1, <2>2, <2>3, <2>4 DEF CallOK
<1>5. IsRest(op, script)
  BY DEF Init, IsRest
<1> QED
  BY <1>1, <1>2, <1>3, <1>4, <1>5 DEF TypeOK

\* readData reads to the end or stays open; what it returns is the part asked for.
LEMMA DataEnds ==
  ASSUME DriverOK, CallOK, CardOK, Open, Sends, Data
  PROVE  /\ \/ inBlock_' = FALSE /\ mode' = "ready" /\ sent' = 0 /\ offset_' = Drained
            \/ /\ inBlock_' = TRUE /\ mode' = "sending"
               /\ offset_' \in 0 .. Size - 1 /\ sent' = offset_'
         /\ op = "read" =>
              dst' = [i \in 1 .. arg.count |-> [block |-> arg.block, byte |-> arg.offset + i - 1,
                                                stored |-> disk[arg.block]]]
<1> DEFINE skip == IF arg.offset > offset_ THEN arg.offset - offset_ ELSE 0
           end  == offset_ + skip + arg.count
           last == EndsBlock(end)
<1>1. /\ dst' = [i \in 1 .. arg.count |->
                   [block |-> at, byte |-> sent + skip + i - 1, stored |-> disk[at]]]
      /\ offset_' = (IF last THEN Drained ELSE end) /\ inBlock_' = ~last
      /\ Rec(IF last THEN Size + Crc - offset_ ELSE skip + arg.count)
      /\ Doing("data")
  BY DEF Data
<1>2. inBlock_ /\ offset_ <= arg.offset /\ mode = "sending" /\ sent = offset_ /\ offset_ < Size
  BY <1>1 DEF Open, Sends
<1>3. /\ offset_ \in Nat /\ arg.offset \in Nat /\ arg.count \in Nat
      /\ Size \in Nat \ {0} /\ Crc \in Nat \ {0}
  BY Numbers DEF DriverOK, CallOK, Args, Drained
<1>4. skip \in Nat /\ sent + skip = arg.offset /\ end \in Nat
  BY <1>2, <1>3
<1>9. ~last => end < Size
  BY <1>3, <1>4 DEF EndsBlock
<1> HIDE DEF skip, end, last
<1> DEFINE Closed == inBlock_' = FALSE /\ mode' = "ready" /\ sent' = 0 /\ offset_' = Drained
           Left   == /\ inBlock_' = TRUE /\ mode' = "sending" /\ offset_' \in 0 .. Size - 1
                     /\ sent' = offset_'
<1>5. ASSUME last PROVE Closed
  <2>1. Rec(Size + Crc - offset_) /\ offset_' = Drained /\ inBlock_' = FALSE
    BY <1>1, <1>5
  <2> QED
    BY <1>2, <1>3, <2>1 DEF Rec
<1>6. ASSUME ~last PROVE Left
  <2>1. Rec(skip + arg.count) /\ offset_' = end /\ inBlock_' = TRUE
    BY <1>1, <1>6
  <2>2. end < Size /\ sent + (skip + arg.count) = end
    BY <1>9, <1>2, <1>3, <1>4, <1>6 DEF end
  <2> QED
    BY <1>2, <1>3, <1>4, <2>1, <2>2 DEF Rec
<1>7. at = block_
  BY <1>1, <1>2 DEF Open, Doing
<1>8. op = "read" => at = arg.block
  BY <1>7 DEF Sends
<1> QED
  BY <1>1, <1>4, <1>5, <1>6, <1>8 DEF skip

LEMMA DriverTypes == Scripted /\ Open /\ Sends /\ [Next]_vars => DriverOK'
<1> SUFFICES ASSUME Scripted, Open, Sends, [Next]_vars PROVE DriverOK'
  OBVIOUS
<1>1. CASE BeginCommand
  BY <1>1, EndsRead DEF Scripted, TypeOK, DriverOK, BeginCommand
<1>2. CASE BeginWait \/ Tick \/ CardFinishes \/ CardSends \/ CardDies
  BY <1>2, Numbers
  DEF Scripted, TypeOK, DriverOK, BeginWait, None, StartWait, driver, card, call, Tick, TimeUp,
    Doing, Elapsed, CardFinishes, time, CardSends, CardDies
<1>3. CASE Starts("CMD9", "preparing") \/ Starts("CMD17", "preparing") \/
  Starts("CMD24", "receiving") \/ Starts("CMD25", "multiple")
  BY <1>3, Numbers
  DEF Scripted, TypeOK, DriverOK, Starts, Sending, Doing, None, TimeUp, Elapsed, Hears,
    Addressed, driver, cardRest
<1>4. ASSUME NEW cmd \in {"CMD32", "CMD33", "CMD55", "ACMD23"}, Passes(cmd)
      PROVE  DriverOK'
  BY <1>4, Numbers
  DEF Scripted, TypeOK, DriverOK, Passes, Sending, Doing, None, TimeUp, Elapsed, Hears, driver,
    card
<1>5. CASE GoIdle
  BY <1>5, Numbers
  DEF Scripted, TypeOK, DriverOK, GoIdle, Sending, Doing, None, TimeUp, Elapsed, driver,
    cardRest
<1>6. CASE Version
  BY <1>6, Numbers
  DEF Scripted, TypeOK, DriverOK, Version, Sending, Doing, None, TimeUp, Elapsed, Hears, card
<1>7. CASE BecomesReady
  BY <1>7, Numbers
  DEF Scripted, TypeOK, DriverOK, BecomesReady, Sending, Doing, None, TimeUp, Elapsed, Hears,
    driver, cardRest
<1>8. CASE Capacity
  BY <1>8, Numbers
  DEF Scripted, TypeOK, DriverOK, Capacity, Sending, Doing, None, TimeUp, Elapsed, Hears, card
<1>9. CASE Status
  BY <1>9, Numbers
  DEF Scripted, TypeOK, DriverOK, Status, Sending, Doing, None, TimeUp, Elapsed, Hears, driver,
    cardRest
<1>10. CASE EraseBlocks
  BY <1>10, Numbers
  DEF Scripted, TypeOK, DriverOK, EraseBlocks, Sending, Doing, None, TimeUp, Elapsed, Hears,
    driver
<1>11. CASE CommandFails
  BY <1>11, Numbers
  DEF Scripted, TypeOK, DriverOK, CommandFails, Sending, Doing, None, TimeUp, Elapsed, Hears,
    driver, card
<1>12. CASE NotBusy
  BY <1>12, Numbers DEF Scripted, TypeOK, DriverOK, NotBusy, None, driver, card
<1>13. CASE StillBusy
  BY <1>13, Numbers
  DEF Scripted, TypeOK, DriverOK, StillBusy, TimeUp, None, Doing, Elapsed, driver, card
<1>14. CASE NoBlock
  BY <1>14, Numbers
  DEF Scripted, TypeOK, DriverOK, NoBlock, Doing, None, TimeUp, Elapsed, driver, cardRest
<1>15. CASE SendFails
  BY <1>15, Numbers DEF Scripted, TypeOK, DriverOK, SendFails, Doing, driver, cardRest
<1>16. CASE BlockBegins
  <2>1. type_' = type_ /\ block_' = block_ /\ partialBlockRead_' = partialBlockRead_
    BY <1>16 DEF BlockBegins
  <2>2. inBlock_' \in {inBlock_, TRUE} /\ offset_' \in {offset_, 0}
    BY <1>16 DEF BlockBegins
  <2>3. 0 \in 0 .. Size - 1
    BY Numbers
  <2> QED
    BY <2>1, <2>2, <2>3 DEF Scripted, TypeOK, DriverOK
<1>17. CASE Data
  BY <1>17, DataEnds DEF Scripted, TypeOK, DriverOK, Data
<1>18. CASE Register
  BY <1>18, Numbers DEF Scripted, TypeOK, DriverOK, Register, Doing, driver, cardRest
<1>19. CASE Send
  BY <1>19, Numbers DEF Scripted, TypeOK, DriverOK, Send, Doing, driver
<1>20. CASE StopTransmission
  BY <1>20, Numbers DEF Scripted, TypeOK, DriverOK, StopTransmission, Doing, driver
<1>21. CASE InitCall
  BY <1>21, Numbers DEF Scripted, TypeOK, DriverOK, InitCall, NoArg, card, time
<1>22. ASSUME NEW b \in Block, NEW o \in 0 .. Size - 1, NEW n \in 1 .. Size, ReadCall(b, o, n)
      PROVE  DriverOK'
  BY <1>22, Numbers
  DEF Scripted, TypeOK, DriverOK, ReadCall, CanCall, ReadScript, NoArg, card, time
<1>23. ASSUME NEW b \in Block, writes < MaxWrites, WriteCall(b)
      PROVE  DriverOK'
  BY <1>23, Numbers
  DEF Scripted, TypeOK, DriverOK, WriteCall, CanCall, OtherCall, driver, card, time, NoArg
<1>24. ASSUME NEW b \in Block, writes < MaxWrites, WriteStart(b)
      PROVE  DriverOK'
  BY <1>24, Numbers
  DEF Scripted, TypeOK, DriverOK, WriteStart, CanCall, OtherCall, driver, card, time, NoArg
<1>25. ASSUME NEW b \in Block \ {0}, NEW l \in Block \ {0}, Erase(b, l)
      PROVE  DriverOK'
  BY <1>25, Numbers
  DEF Scripted, TypeOK, DriverOK, Erase, CanCall, OtherCall, driver, card, time, NoArg
<1>26. ASSUME writes < MaxWrites, WriteMore
      PROVE  DriverOK'
  BY <1>26, Numbers
  DEF Scripted, TypeOK, DriverOK, WriteMore, OtherCall, driver, card, time, NoArg
<1>27. CASE CardSize
  BY <1>27, Numbers
  DEF Scripted, TypeOK, DriverOK, CardSize, CanCall, OtherCall, driver, card, time, NoArg
<1>28. CASE WriteStop
  BY <1>28, Numbers
  DEF Scripted, TypeOK, DriverOK, WriteStop, OtherCall, driver, card, time, NoArg
<1>29. ASSUME NEW v \in BOOLEAN, PartialBlockRead(v)
      PROVE  DriverOK'
  BY <1>29, EndsRead DEF Scripted, TypeOK, DriverOK, PartialBlockRead
<1>30. CASE UNCHANGED vars
  BY <1>30 DEF Scripted, TypeOK, DriverOK, vars, driver, card, call, time
<1> QED
  BY <1>1, <1>2, <1>3, <1>4, <1>5, <1>6, <1>7, <1>8, <1>9, <1>10, <1>11, <1>12, <1>13, <1>14,
    <1>15, <1>16, <1>17, <1>18, <1>19, <1>20, <1>21, <1>22, <1>23, <1>24, <1>25, <1>26, <1>27,
    <1>28, <1>29, <1>30
  DEF Next, Step, Call, Command

ArgsOK ==
  /\ arg \in Args /\ up \in BOOLEAN /\ tries \in 0 .. MaxTries
  /\ reply.arg \in Args
  /\ IF reply.result = "timeout" THEN reply.lasted = Timeout ELSE reply.lasted \in 0 .. Timeout

\* What a call that ends leaves.
LEMMA ReturnTypes ==
  ASSUME ArgsOK, TimeOK, NEW r, r = "timeout" => waited = Timeout, Return(r)
  PROVE  ArgsOK'
<1>1. reply' = [op |-> op, result |-> r, arg |-> arg, lasted |-> waited]
  BY DEF Return
<1>2. reply'.arg = arg /\ reply'.result = r /\ reply'.lasted = waited
  BY <1>1
<1>3. arg' = NoArg /\ tries' = 0 /\ up' \in BOOLEAN
  BY DEF Return, ArgsOK
<1>4. IF reply'.result = "timeout"
        THEN reply'.lasted = Timeout ELSE reply'.lasted \in 0 .. Timeout
  BY <1>2 DEF TimeOK
<1>5. 0 \in 0 .. MaxTries
  BY Numbers
<1> QED
  BY <1>2, <1>3, <1>4, <1>5, ArgTypes DEF ArgsOK

\* What a call that begins leaves.
LEMMA BeginTypes ==
  ASSUME ArgsOK, NEW o, NEW s, NEW a \in Args, Begin(o, s, a), tries' = tries, up' \in BOOLEAN
  PROVE  ArgsOK'
<1>1. arg' = a /\ reply' = NoReply
  BY DEF Begin
<1>2. NoReply.arg \in Args /\ NoReply.result = "ok" /\ NoReply.lasted = 0
  BY ArgTypes DEF NoReply
<1> QED
  BY <1>1, <1>2, Numbers DEF ArgsOK

LEMMA SameTypes ==
  ASSUME ArgsOK, UNCHANGED <<arg, up, tries, reply>>
  PROVE  ArgsOK'
BY DEF ArgsOK

LEMMA ArgsStep == Scripted /\ ArgsOK /\ Waiting /\ [Next]_vars => ArgsOK'
<1> SUFFICES ASSUME Scripted, ArgsOK, Waiting, [Next]_vars PROVE ArgsOK'
  OBVIOUS
<1>1. CASE BeginCommand
  <2>1. UNCHANGED <<arg, up, tries, reply>>
    BY <1>1 DEF BeginCommand, call
  <2> QED
    BY <2>1, SameTypes
<1>2. CASE BeginWait \/ Tick \/ CardFinishes \/ CardSends \/ CardDies
  <2>1. UNCHANGED <<arg, up, tries, reply>>
    BY <1>2 DEF BeginWait, Tick, CardFinishes, CardSends, CardDies, call
  <2> QED
    BY <2>1, SameTypes
<1>3. CASE Starts("CMD9", "preparing") \/ Starts("CMD17", "preparing") \/
  Starts("CMD24", "receiving") \/ Starts("CMD25", "multiple")
  <2>1. Continue \/ BecomesReady \/ Return("refused")
    BY <1>3 DEF Starts
  <2>2. UNCHANGED <<arg, up, tries, reply>> \/ \E r \in {"ok", "refused"} : Return(r)
    BY <2>1, Continues DEF Scripted, Continue, ContinueWith
  <2> QED
    BY <2>2, SameTypes, ReturnTypes DEF Scripted, TypeOK
<1>4. ASSUME NEW cmd \in {"CMD32", "CMD33", "CMD55", "ACMD23"}, Passes(cmd)
      PROVE  ArgsOK'
  <2>1. Continue \/ BecomesReady \/ Return("refused")
    BY <1>4 DEF Passes
  <2>2. UNCHANGED <<arg, up, tries, reply>> \/ \E r \in {"ok", "refused"} : Return(r)
    BY <2>1, Continues DEF Scripted, Continue, ContinueWith
  <2> QED
    BY <2>2, SameTypes, ReturnTypes DEF Scripted, TypeOK
<1>5. CASE GoIdle
  <2>1. Continue \/ BecomesReady \/ Return("refused")
    BY <1>5 DEF GoIdle
  <2>2. UNCHANGED <<arg, up, tries, reply>> \/ \E r \in {"ok", "refused"} : Return(r)
    BY <2>1, Continues DEF Scripted, Continue, ContinueWith
  <2> QED
    BY <2>2, SameTypes, ReturnTypes DEF Scripted, TypeOK
<1>6. CASE Version
  <2>1. Continue \/ BecomesReady \/ Return("refused")
    BY <1>6 DEF Version
  <2>2. UNCHANGED <<arg, up, tries, reply>> \/ \E r \in {"ok", "refused"} : Return(r)
    BY <2>1, Continues DEF Scripted, Continue, ContinueWith
  <2> QED
    BY <2>2, SameTypes, ReturnTypes DEF Scripted, TypeOK
<1>7. CASE BecomesReady
  <2>1. UNCHANGED <<arg, up, tries, reply>> \/ Return("ok")
    BY <1>7, Continues DEF Scripted
  <2> QED
    BY <2>1, SameTypes, ReturnTypes DEF Scripted, TypeOK
<1>8. CASE Capacity
  <2>1. Continue \/ BecomesReady \/ Return("refused")
    BY <1>8 DEF Capacity
  <2>2. UNCHANGED <<arg, up, tries, reply>> \/ \E r \in {"ok", "refused"} : Return(r)
    BY <2>1, Continues DEF Scripted, Continue, ContinueWith
  <2> QED
    BY <2>2, SameTypes, ReturnTypes DEF Scripted, TypeOK
<1>9. CASE Status
  <2>1. Continue \/ BecomesReady \/ Return("refused")
    BY <1>9 DEF Status
  <2>2. UNCHANGED <<arg, up, tries, reply>> \/ \E r \in {"ok", "refused"} : Return(r)
    BY <2>1, Continues DEF Scripted, Continue, ContinueWith
  <2> QED
    BY <2>2, SameTypes, ReturnTypes DEF Scripted, TypeOK
<1>10. CASE EraseBlocks
  <2>1. Continue \/ BecomesReady \/ Return("refused")
    BY <1>10 DEF EraseBlocks
  <2>2. UNCHANGED <<arg, up, tries, reply>> \/ \E r \in {"ok", "refused"} : Return(r)
    BY <2>1, Continues DEF Scripted, Continue, ContinueWith
  <2> QED
    BY <2>2, SameTypes, ReturnTypes DEF Scripted, TypeOK
<1>11. CASE CommandFails
  <2>1. CASE Return("refused")
    BY <2>1, ReturnTypes DEF Scripted, TypeOK
  <2>2. CASE tries < MaxTries /\ tries' = tries + 1 /\ UNCHANGED <<arg, up, reply>>
    BY <2>2, Numbers DEF ArgsOK
  <2> QED
    BY <1>11, <2>1, <2>2 DEF CommandFails
<1>12. CASE NotBusy
  <2>1. Continue \/ BecomesReady \/ Return("refused")
    BY <1>12 DEF NotBusy
  <2>2. UNCHANGED <<arg, up, tries, reply>> \/ \E r \in {"ok", "refused"} : Return(r)
    BY <2>1, Continues DEF Scripted, Continue, ContinueWith
  <2> QED
    BY <2>2, SameTypes, ReturnTypes DEF Scripted, TypeOK
<1>13. CASE StillBusy
  <2>1. TimeUp /\ Return("timeout")
    BY <1>13 DEF StillBusy
  <2>2. waited = Timeout
    BY <2>1, Numbers DEF TimeUp, Waiting, Scripted, TypeOK, TimeOK, Elapsed, None
  <2> QED
    BY <2>1, <2>2, ReturnTypes DEF Scripted, TypeOK
<1>14. CASE NoBlock
  <2>1. CASE TimeUp /\ Return("timeout")
    <3>1. waited = Timeout
      BY <2>1, Numbers DEF TimeUp, Waiting, Scripted, TypeOK, TimeOK, Elapsed, None
    <3> QED
      BY <2>1, <3>1, ReturnTypes DEF Scripted, TypeOK
  <2>2. CASE Return("refused")
    BY <2>2, ReturnTypes DEF Scripted, TypeOK
  <2> QED
    BY <1>14, <2>1, <2>2 DEF NoBlock
<1>15. CASE SendFails
  BY <1>15, ReturnTypes DEF SendFails, Scripted, TypeOK
<1>16. CASE BlockBegins
  <2>1. Continue \/ BecomesReady \/ Return("refused")
    BY <1>16 DEF BlockBegins
  <2>2. UNCHANGED <<arg, up, tries, reply>> \/ \E r \in {"ok", "refused"} : Return(r)
    BY <2>1, Continues DEF Scripted, Continue, ContinueWith
  <2> QED
    BY <2>2, SameTypes, ReturnTypes DEF Scripted, TypeOK
<1>17. CASE Data
  <2>1. Continue \/ BecomesReady \/ Return("refused")
    BY <1>17 DEF Data
  <2>2. UNCHANGED <<arg, up, tries, reply>> \/ \E r \in {"ok", "refused"} : Return(r)
    BY <2>1, Continues DEF Scripted, Continue, ContinueWith
  <2> QED
    BY <2>2, SameTypes, ReturnTypes DEF Scripted, TypeOK
<1>18. CASE Register
  <2>1. Continue \/ BecomesReady \/ Return("refused")
    BY <1>18 DEF Register
  <2>2. UNCHANGED <<arg, up, tries, reply>> \/ \E r \in {"ok", "refused"} : Return(r)
    BY <2>1, Continues DEF Scripted, Continue, ContinueWith
  <2> QED
    BY <2>2, SameTypes, ReturnTypes DEF Scripted, TypeOK
<1>19. CASE Send
  <2>1. Continue \/ BecomesReady \/ Return("refused")
    BY <1>19 DEF Send
  <2>2. UNCHANGED <<arg, up, tries, reply>> \/ \E r \in {"ok", "refused"} : Return(r)
    BY <2>1, Continues DEF Scripted, Continue, ContinueWith
  <2> QED
    BY <2>2, SameTypes, ReturnTypes DEF Scripted, TypeOK
<1>20. CASE StopTransmission
  <2>1. Continue \/ BecomesReady \/ Return("refused")
    BY <1>20 DEF StopTransmission
  <2>2. UNCHANGED <<arg, up, tries, reply>> \/ \E r \in {"ok", "refused"} : Return(r)
    BY <2>1, Continues DEF Scripted, Continue, ContinueWith
  <2> QED
    BY <2>2, SameTypes, ReturnTypes DEF Scripted, TypeOK
<1>21. CASE InitCall
  <2>1. /\ Begin("init", <<"CMD0", "CMD8", "CMD55", "ACMD41", "CMD58">>, NoArg)
        /\ tries' = tries /\ up' \in BOOLEAN
    BY <1>21 DEF InitCall, OtherCall, ArgsOK
  <2> QED
    BY <1>21, <2>1, ArgTypes, BeginTypes
<1>22. ASSUME NEW b \in Block, NEW o \in 0 .. Size - 1, NEW n \in 1 .. Size, ReadCall(b, o, n)
      PROVE  ArgsOK'
  <2>1. [NoArg EXCEPT !.block = b, !.offset = o, !.count = n] \in Args
    <3>1. o \in 0 .. Size /\ n \in 0 .. Size
      BY <1>22, Numbers
    <3> QED
      BY <1>22, <3>1, ArgTypes
  <2>2. \E s1 : Begin("read", s1, [NoArg EXCEPT !.block = b, !.offset = o, !.count = n])
    BY <1>22 DEF ReadCall
  <2>3. tries' = tries /\ up' \in BOOLEAN
    BY <1>22 DEF ReadCall, ArgsOK
  <2> QED
    BY <2>1, <2>2, <2>3, BeginTypes
<1>23. ASSUME NEW b \in Block, writes < MaxWrites, WriteCall(b)
      PROVE  ArgsOK'
  <2>1. /\ Begin("write", <<"CMD24", "send", "programmed", "CMD13">>,
                 [NoArg EXCEPT !.block = b])
        /\ tries' = tries /\ up' \in BOOLEAN
    BY <1>23 DEF WriteCall, OtherCall, ArgsOK
  <2> QED
    BY <1>23, <2>1, ArgTypes, BeginTypes
<1>24. ASSUME NEW b \in Block, writes < MaxWrites, WriteStart(b)
      PROVE  ArgsOK'
  <2>1. /\ Begin("start", <<"CMD55", "ACMD23", "CMD25">>,
                 [NoArg EXCEPT !.block = b])
        /\ tries' = tries /\ up' \in BOOLEAN
    BY <1>24 DEF WriteStart, OtherCall, ArgsOK
  <2> QED
    BY <1>24, <2>1, ArgTypes, BeginTypes
<1>25. ASSUME NEW b \in Block \ {0}, NEW l \in Block \ {0}, Erase(b, l)
      PROVE  ArgsOK'
  <2>1. /\ Begin("erase", <<"CMD9", "token", "register", "CMD32", "CMD33", "CMD38", "erased">>,
                 [NoArg EXCEPT !.block = b, !.last = l])
        /\ tries' = tries /\ up' \in BOOLEAN
    BY <1>25 DEF Erase, OtherCall, ArgsOK
  <2> QED
    BY <1>25, <2>1, ArgTypes, BeginTypes
<1>26. ASSUME writes < MaxWrites, WriteMore
      PROVE  ArgsOK'
  <2>1. Begin("more", <<"free", "send">>, NoArg) /\ tries' = tries /\ up' \in BOOLEAN
    BY <1>26 DEF WriteMore, OtherCall, ArgsOK
  <2> QED
    BY <1>26, <2>1, ArgTypes, BeginTypes
<1>27. CASE CardSize
  <2>1. Begin("size", <<"CMD9", "token", "register">>, NoArg) /\ tries' = tries /\ up' \in BOOLEAN
    BY <1>27 DEF CardSize, OtherCall, ArgsOK
  <2> QED
    BY <1>27, <2>1, ArgTypes, BeginTypes
<1>28. CASE WriteStop
  <2>1. Begin("stop", <<"free", "stop", "free">>, NoArg) /\ tries' = tries /\ up' \in BOOLEAN
    BY <1>28 DEF WriteStop, OtherCall, ArgsOK
  <2> QED
    BY <1>28, <2>1, ArgTypes, BeginTypes
<1>29. ASSUME NEW v \in BOOLEAN, PartialBlockRead(v)
      PROVE  ArgsOK'
  <2>1. reply' = NoReply /\ UNCHANGED <<arg, up, tries>>
    BY <1>29 DEF PartialBlockRead, call
  <2>2. NoReply.arg \in Args /\ NoReply.result = "ok" /\ NoReply.lasted = 0
    BY ArgTypes DEF NoReply
  <2> QED
    BY <2>1, <2>2, Numbers DEF ArgsOK
<1>30. CASE UNCHANGED vars
  BY <1>30 DEF ArgsOK, vars, driver, card, call, time
<1> QED
  BY <1>1, <1>2, <1>3, <1>4, <1>5, <1>6, <1>7, <1>8, <1>9, <1>10, <1>11, <1>12, <1>13, <1>14,
    <1>15, <1>16, <1>17, <1>18, <1>19, <1>20, <1>21, <1>22, <1>23, <1>24, <1>25, <1>26, <1>27,
    <1>28, <1>29, <1>30
  DEF Next, Step, Call, Command

LEMMA CallTypes == Scripted /\ Waiting /\ [Next]_vars => CallOK'
<1> SUFFICES ASSUME Scripted, Waiting, [Next]_vars PROVE CallOK'
  OBVIOUS
<1>1. ArgsOK'
  BY ArgsStep DEF Scripted, TypeOK, CallOK, ArgsOK
<1>2. script' \in Seq(Steps)
  BY RestStep, RestTypes DEF Scripted
<1> QED
  BY <1>1, <1>2 DEF CallOK, ArgsOK, Steps

LEMMA TimeTypes == Scripted /\ [Next]_vars => TimeOK'
<1> SUFFICES ASSUME Scripted, [Next]_vars PROVE TimeOK'
  OBVIOUS
<1>1. CASE BeginCommand
  BY <1>1, Numbers
  DEF Scripted, TypeOK, TimeOK, BeginCommand, None, readEnd, Rec, StartWait, call
<1>2. CASE BeginWait \/ Tick \/ CardFinishes \/ CardSends \/ CardDies
  BY <1>2, Numbers
  DEF Scripted, TypeOK, TimeOK, BeginWait, None, StartWait, driver, card, call, Tick, TimeUp,
    Doing, Elapsed, CardFinishes, time, CardSends, CardDies
<1>3. CASE Starts("CMD9", "preparing") \/ Starts("CMD17", "preparing") \/
  Starts("CMD24", "receiving") \/ Starts("CMD25", "multiple")
  BY <1>3, Numbers, Continues, Turns
  DEF Scripted, TypeOK, TimeOK, Starts, Sending, Doing, None, TimeUp, Elapsed, Hears, Addressed,
    driver, cardRest, Return, Ends, Leads
<1>4. ASSUME NEW cmd \in {"CMD32", "CMD33", "CMD55", "ACMD23"}, Passes(cmd)
      PROVE  TimeOK'
  BY <1>4, Numbers, Continues, Turns
  DEF Scripted, TypeOK, TimeOK, Passes, Sending, Doing, None, TimeUp, Elapsed, Hears, driver,
    card, Return, Ends, Leads
<1>5. CASE GoIdle
  BY <1>5, Numbers, Continues, Turns
  DEF Scripted, TypeOK, TimeOK, GoIdle, Sending, Doing, None, TimeUp, Elapsed, driver, cardRest,
    Return, Ends, Leads
<1>6. CASE Version
  BY <1>6, Numbers, Continues, Turns
  DEF Scripted, TypeOK, TimeOK, Version, Sending, Doing, None, TimeUp, Elapsed, Hears, card,
    Return, Ends, Leads
<1>7. CASE BecomesReady
  BY <1>7, Numbers, Continues, Turns
  DEF Scripted, TypeOK, TimeOK, BecomesReady, Sending, Doing, None, TimeUp, Elapsed, Hears,
    driver, cardRest, Return, Ends, Leads
<1>8. CASE Capacity
  BY <1>8, Numbers, Continues, Turns
  DEF Scripted, TypeOK, TimeOK, Capacity, Sending, Doing, None, TimeUp, Elapsed, Hears, card,
    Return, Ends, Leads
<1>9. CASE Status
  BY <1>9, Numbers, Continues, Turns
  DEF Scripted, TypeOK, TimeOK, Status, Sending, Doing, None, TimeUp, Elapsed, Hears, Return,
    NoArg, driver, cardRest, Ends, Leads
<1>10. CASE EraseBlocks
  BY <1>10, Numbers, Continues, Turns
  DEF Scripted, TypeOK, TimeOK, EraseBlocks, Sending, Doing, None, TimeUp, Elapsed, Hears,
    driver, Return, Ends, Leads
<1>11. CASE CommandFails
  BY <1>11, Numbers
  DEF Scripted, TypeOK, TimeOK, CommandFails, Sending, Doing, None, TimeUp, Elapsed, Hears,
    Return, NoArg, driver, card
<1>12. CASE NotBusy
  BY <1>12, Numbers, Continues, Turns
  DEF Scripted, TypeOK, TimeOK, NotBusy, None, driver, card, Return, Ends, Leads
<1>13. CASE StillBusy
  BY <1>13, Numbers
  DEF Scripted, TypeOK, TimeOK, StillBusy, TimeUp, None, Doing, Elapsed, Return, NoArg, driver,
    card
<1>14. CASE NoBlock
  BY <1>14, Numbers
  DEF Scripted, TypeOK, TimeOK, NoBlock, Doing, None, TimeUp, Elapsed, Return, NoArg, driver,
    cardRest
<1>15. CASE SendFails
  BY <1>15, Numbers
  DEF Scripted, TypeOK, TimeOK, SendFails, Doing, Return, NoArg, None, driver, cardRest
<1>16. CASE BlockBegins
  BY <1>16, Numbers, Continues, Turns
  DEF Scripted, TypeOK, TimeOK, BlockBegins, Doing, None, card, Return, Ends, Leads
<1>17. CASE Data
  BY <1>17, Numbers, Continues, Turns
  DEF Scripted, TypeOK, TimeOK, Data, EndsBlock, Doing, Rec, Return, Ends, Leads
<1>18. CASE Register
  BY <1>18, Numbers, Continues, Turns
  DEF Scripted, TypeOK, TimeOK, Register, Doing, Return, NoArg, None, driver, cardRest, Ends,
    Leads
<1>19. CASE Send
  BY <1>19, Numbers, Continues, Turns
  DEF Scripted, TypeOK, TimeOK, Send, Doing, driver, Return, Ends, Leads
<1>20. CASE StopTransmission
  BY <1>20, Numbers, Continues, Turns
  DEF Scripted, TypeOK, TimeOK, StopTransmission, Doing, driver, Return, Ends, Leads
<1>21. CASE InitCall
  BY <1>21, Numbers, Firsts
  DEF Scripted, TypeOK, TimeOK, InitCall, Begin, NoReply, NoArg, card, time
<1>22. ASSUME NEW b \in Block, NEW o \in 0 .. Size - 1, NEW n \in 1 .. Size, ReadCall(b, o, n)
      PROVE  TimeOK'
  BY <1>22, Numbers, Firsts
  DEF Scripted, TypeOK, TimeOK, ReadCall, CanCall, Begin, NoReply, NoArg, ReadScript, card, time
<1>23. ASSUME NEW b \in Block, writes < MaxWrites, WriteCall(b)
      PROVE  TimeOK'
  BY <1>23, Numbers, Firsts
  DEF Scripted, TypeOK, TimeOK, WriteCall, CanCall, OtherCall, Begin, NoReply, NoArg, driver,
    card, time
<1>24. ASSUME NEW b \in Block, writes < MaxWrites, WriteStart(b)
      PROVE  TimeOK'
  BY <1>24, Numbers, Firsts
  DEF Scripted, TypeOK, TimeOK, WriteStart, CanCall, OtherCall, Begin, NoReply, NoArg, driver,
    card, time
<1>25. ASSUME NEW b \in Block \ {0}, NEW l \in Block \ {0}, Erase(b, l)
      PROVE  TimeOK'
  BY <1>25, Numbers, Firsts
  DEF Scripted, TypeOK, TimeOK, Erase, CanCall, OtherCall, Begin, NoReply, NoArg, driver, card,
    time
<1>26. ASSUME writes < MaxWrites, WriteMore
      PROVE  TimeOK'
  BY <1>26, Numbers, Firsts
  DEF Scripted, TypeOK, TimeOK, WriteMore, OtherCall, Begin, NoReply, NoArg, driver, card, time
<1>27. CASE CardSize
  BY <1>27, Numbers, Firsts
  DEF Scripted, TypeOK, TimeOK, CardSize, CanCall, OtherCall, Begin, NoReply, NoArg, driver,
    card, time
<1>28. CASE WriteStop
  BY <1>28, Numbers, Firsts
  DEF Scripted, TypeOK, TimeOK, WriteStop, OtherCall, Begin, NoReply, NoArg, driver, card, time
<1>29. ASSUME NEW v \in BOOLEAN, PartialBlockRead(v)
      PROVE  TimeOK'
  BY <1>29, Numbers
  DEF Scripted, TypeOK, TimeOK, PartialBlockRead, CanCall, readEnd, Rec, NoReply, NoArg, call,
    time
<1>30. CASE UNCHANGED vars
  BY <1>30 DEF Scripted, TypeOK, TimeOK, vars, driver, card, call, time
<1> QED
  BY <1>1, <1>2, <1>3, <1>4, <1>5, <1>6, <1>7, <1>8, <1>9, <1>10, <1>11, <1>12, <1>13, <1>14,
    <1>15, <1>16, <1>17, <1>18, <1>19, <1>20, <1>21, <1>22, <1>23, <1>24, <1>25, <1>26, <1>27,
    <1>28, <1>29, <1>30
  DEF Next, Step, Call, Command

\* CardOK, one variable at a time.
CardParts ==
  /\ kind \in Kind
  /\ mode \in {"off", "ready", "preparing", "sending", "receiving", "multiple"}
  /\ at \in Int /\ sent \in 0 .. Size + Crc
  /\ busy \in BOOLEAN /\ dead \in BOOLEAN /\ flawed \in BOOLEAN
  /\ disk \in [Block -> 0 .. MaxWrites] /\ writes \in 0 .. MaxWrites

LEMMA InParts == CardOK <=> CardParts
<1>1. {busy, dead, flawed} \subseteq BOOLEAN <=>
        busy \in BOOLEAN /\ dead \in BOOLEAN /\ flawed \in BOOLEAN
  OBVIOUS
<1> QED
  BY <1>1 DEF CardOK, CardParts

LEMMA InPartsNext == CardOK' <=> CardParts'
BY InParts, PTL

LEMMA PartsStep == Scripted /\ Open /\ Sends /\ Stores /\ CardParts /\ [Next]_vars => CardParts'
<1> SUFFICES ASSUME Scripted, Open, Sends, Stores, CardParts, [Next]_vars PROVE CardParts'
  OBVIOUS
<1>1. CASE BeginCommand
  <2>1. mode' \in {mode, "ready", "sending"} /\ sent' \in {sent, 0} \cup 0 .. Size - 1
    BY <1>1, EndsRead DEF BeginCommand, Scripted, TypeOK
  <2>2. UNCHANGED <<kind, at, busy, dead, flawed, disk, writes>>
    BY <1>1 DEF BeginCommand
  <2>3. sent' \in 0 .. Size + Crc
    BY <2>1, Numbers DEF CardParts
  <2> QED
    BY <2>1, <2>2, <2>3 DEF CardParts
<1>2. CASE BeginWait \/ Tick \/ CardFinishes \/ CardSends \/ CardDies
  BY <1>2
  DEF CardParts, BeginWait, None, StartWait, driver, card, call, Tick, TimeUp, Doing, Elapsed,
    CardFinishes, time, CardSends, CardDies
<1>3. CASE Starts("CMD9", "preparing") \/ Starts("CMD17", "preparing") \/
  Starts("CMD24", "receiving") \/ Starts("CMD25", "multiple")
  <2>1. at' \in {None} \cup {arg.block} \cup Block
    BY <1>3 DEF Starts, Addressed
  <2>2. arg.block \in Nat
    BY Numbers DEF Scripted, TypeOK, CallOK, Args
  <2>3. at' \in Int
    BY <2>1, <2>2, Numbers DEF None
  <2>4. /\ mode' \in {"preparing", "receiving", "multiple"} /\ sent' = 0
        /\ UNCHANGED <<kind, busy, dead, flawed, disk, writes>>
    BY <1>3 DEF Starts, cardRest
  <2>5. 0 \in 0 .. Size + Crc
    BY Numbers
  <2> QED
    BY <2>3, <2>4, <2>5 DEF CardParts
<1>4. ASSUME NEW cmd \in {"CMD32", "CMD33", "CMD55", "ACMD23"}, Passes(cmd)
      PROVE  CardParts'
  BY <1>4 DEF CardParts, Passes, Sending, Doing, None, TimeUp, Elapsed, Hears, driver, card
<1>5. CASE GoIdle
  <2>1. mode' \in {"off"} /\ sent' = 0 /\ UNCHANGED <<kind, busy, dead, disk, writes>>
    BY <1>5 DEF GoIdle, cardRest
  <2>2. flawed' \in BOOLEAN
    BY <1>5 DEF GoIdle
  <2>3. at' \in Int
    BY <1>5 DEF GoIdle
  <2>4. sent' \in 0 .. Size + Crc
    BY <2>1, Numbers
  <2> QED
    BY <2>1, <2>2, <2>3, <2>4 DEF CardParts
<1>6. CASE Version
  BY <1>6 DEF CardParts, Version, Sending, Doing, None, TimeUp, Elapsed, Hears, card
<1>7. CASE BecomesReady
  BY <1>7
  DEF CardParts, BecomesReady, Sending, Doing, None, TimeUp, Elapsed, Hears, driver, cardRest
<1>8. CASE Capacity
  BY <1>8 DEF CardParts, Capacity, Sending, Doing, None, TimeUp, Elapsed, Hears, card
<1>9. CASE Status
  BY <1>9 DEF CardParts, Status, Sending, Doing, None, TimeUp, Elapsed, Hears, driver, cardRest
<1>10. CASE EraseBlocks
  <2>1. disk' \in [Block -> 0 .. MaxWrites]
    BY <1>10, Numbers DEF EraseBlocks, CardParts
  <2>2. UNCHANGED <<kind, mode, at, sent, dead, flawed, writes>> /\ busy' = TRUE
    BY <1>10 DEF EraseBlocks
  <2> QED
    BY <2>1, <2>2 DEF CardParts
<1>11. CASE CommandFails
  BY <1>11
  DEF CardParts, CommandFails, Sending, Doing, None, TimeUp, Elapsed, Hears, driver, card
<1>12. CASE NotBusy
  BY <1>12 DEF CardParts, NotBusy, None, driver, card
<1>13. CASE StillBusy
  BY <1>13 DEF CardParts, StillBusy, TimeUp, None, Doing, Elapsed, driver, card
<1>14. CASE NoBlock
  BY <1>14 DEF CardParts, NoBlock, Doing, None, TimeUp, Elapsed, driver, cardRest
<1>15. CASE SendFails
  BY <1>15 DEF CardParts, SendFails, Doing, driver, cardRest
<1>16. CASE BlockBegins
  BY <1>16 DEF CardParts, BlockBegins, Doing, None, card
<1>17. CASE Data
  <2>1. mode' \in {mode, "ready", "sending"} /\ sent' \in {sent, 0} \cup 0 .. Size - 1
    BY <1>17, DataEnds DEF Data, Scripted, TypeOK
  <2>2. UNCHANGED <<kind, at, busy, dead, flawed, disk, writes>>
    BY <1>17 DEF Data
  <2>3. sent' \in 0 .. Size + Crc
    BY <2>1, Numbers DEF CardParts
  <2> QED
    BY <2>1, <2>2, <2>3 DEF CardParts
<1>18. CASE Register
  BY <1>18 DEF CardParts, Register, Doing, driver, cardRest
<1>19. CASE Send
  <2>1. writes < MaxWrites
    BY <1>19 DEF Send, Stores
  <2>2. writes' \in 0 .. MaxWrites
    BY <1>19, <2>1, Numbers DEF Send, CardParts
  <2>3. disk' \in [Block -> 0 .. MaxWrites]
    BY <1>19, <2>2 DEF Send, CardParts
  <2>4. at' \in Int /\ mode' \in {mode, "ready"}
    BY <1>19, Numbers DEF Send, CardParts
  <2>5. kind' = kind /\ sent' = sent /\ dead' = dead /\ busy' = TRUE /\ flawed' \in {flawed, TRUE}
    BY <1>19 DEF Send
  <2> QED
    BY <2>2, <2>3, <2>4, <2>5 DEF CardParts
<1>20. CASE StopTransmission
  BY <1>20 DEF CardParts, StopTransmission, Doing, driver
<1>21. CASE InitCall
  BY <1>21 DEF CardParts, InitCall, NoArg, card, time
<1>22. ASSUME NEW b \in Block, NEW o \in 0 .. Size - 1, NEW n \in 1 .. Size, ReadCall(b, o, n)
      PROVE  CardParts'
  BY <1>22 DEF CardParts, ReadCall, CanCall, ReadScript, NoArg, card, time
<1>23. ASSUME NEW b \in Block, writes < MaxWrites, WriteCall(b)
      PROVE  CardParts'
  BY <1>23 DEF CardParts, WriteCall, CanCall, OtherCall, driver, card, time, NoArg
<1>24. ASSUME NEW b \in Block, writes < MaxWrites, WriteStart(b)
      PROVE  CardParts'
  BY <1>24 DEF CardParts, WriteStart, CanCall, OtherCall, driver, card, time, NoArg
<1>25. ASSUME NEW b \in Block \ {0}, NEW l \in Block \ {0}, Erase(b, l)
      PROVE  CardParts'
  BY <1>25 DEF CardParts, Erase, CanCall, OtherCall, driver, card, time, NoArg
<1>26. ASSUME writes < MaxWrites, WriteMore
      PROVE  CardParts'
  BY <1>26 DEF CardParts, WriteMore, OtherCall, driver, card, time, NoArg
<1>27. CASE CardSize
  BY <1>27 DEF CardParts, CardSize, CanCall, OtherCall, driver, card, time, NoArg
<1>28. CASE WriteStop
  BY <1>28 DEF CardParts, WriteStop, OtherCall, driver, card, time, NoArg
<1>29. ASSUME NEW v \in BOOLEAN, PartialBlockRead(v)
      PROVE  CardParts'
  <2>1. mode' \in {mode, "ready", "sending"} /\ sent' \in {sent, 0} \cup 0 .. Size - 1
    BY <1>29, EndsRead DEF PartialBlockRead, Scripted, TypeOK
  <2>2. UNCHANGED <<kind, at, busy, dead, flawed, disk, writes>>
    BY <1>29 DEF PartialBlockRead
  <2>3. sent' \in 0 .. Size + Crc
    BY <2>1, Numbers DEF CardParts
  <2> QED
    BY <2>1, <2>2, <2>3 DEF CardParts
<1>30. CASE UNCHANGED vars
  BY <1>30 DEF CardParts, vars, driver, card, call, time
<1> QED
  BY <1>1, <1>2, <1>3, <1>4, <1>5, <1>6, <1>7, <1>8, <1>9, <1>10, <1>11, <1>12, <1>13, <1>14,
    <1>15, <1>16, <1>17, <1>18, <1>19, <1>20, <1>21, <1>22, <1>23, <1>24, <1>25, <1>26, <1>27,
    <1>28, <1>29, <1>30
  DEF Next, Step, Call, Command

LEMMA CardTypes == Scripted /\ Open /\ Sends /\ Stores /\ [Next]_vars => CardOK'
BY PartsStep, InParts, InPartsNext DEF Scripted, TypeOK

-----------------------------------------------------------------------------
(* Where a step that goes on leads to. *)

Goes(y) ==
  /\ script' # << >> /\ script'[1] = y /\ t0' = None /\ waited' = 0
  /\ UNCHANGED <<op, arg, up, tries, reply>>

LEMMA AfterACMD23 ==
  ASSUME IsRest(op, script), Doing("ACMD23"), Continue
  PROVE  op = "start" /\ Goes("CMD25")
BY Turns, Continues DEF Doing, Calls, Leads, Ends, Goes

LEMMA AfterACMD41 ==
  ASSUME IsRest(op, script), Doing("ACMD41"), Continue
  PROVE  op = "init" /\ Goes("CMD58")
BY Turns, Continues DEF Doing, Calls, Leads, Ends, Goes

LEMMA AfterCMD0 ==
  ASSUME IsRest(op, script), Doing("CMD0"), Continue
  PROVE  op = "init" /\ Goes("CMD8")
BY Turns, Continues DEF Doing, Calls, Leads, Ends, Goes

LEMMA AfterCMD13 ==
  ASSUME IsRest(op, script), Doing("CMD13"), Continue
  PROVE  op = "write" /\ Return("ok")
BY Turns, Continues DEF Doing, Calls, Leads, Ends, Goes

LEMMA AfterCMD17 ==
  ASSUME IsRest(op, script), Doing("CMD17"), Continue
  PROVE  op = "read" /\ Goes("token")
BY Turns, Continues DEF Doing, Calls, Leads, Ends, Goes

LEMMA AfterCMD24 ==
  ASSUME IsRest(op, script), Doing("CMD24"), Continue
  PROVE  op = "write" /\ Goes("send")
BY Turns, Continues DEF Doing, Calls, Leads, Ends, Goes

LEMMA AfterCMD25 ==
  ASSUME IsRest(op, script), Doing("CMD25"), Continue
  PROVE  op = "start" /\ Return("ok")
BY Turns, Continues DEF Doing, Calls, Leads, Ends, Goes

LEMMA AfterCMD32 ==
  ASSUME IsRest(op, script), Doing("CMD32"), Continue
  PROVE  op = "erase" /\ Goes("CMD33")
BY Turns, Continues DEF Doing, Calls, Leads, Ends, Goes

LEMMA AfterCMD33 ==
  ASSUME IsRest(op, script), Doing("CMD33"), Continue
  PROVE  op = "erase" /\ Goes("CMD38")
BY Turns, Continues DEF Doing, Calls, Leads, Ends, Goes

LEMMA AfterCMD38 ==
  ASSUME IsRest(op, script), Doing("CMD38"), Continue
  PROVE  op = "erase" /\ Goes("erased")
BY Turns, Continues DEF Doing, Calls, Leads, Ends, Goes

LEMMA AfterCMD55 ==
  ASSUME IsRest(op, script), Doing("CMD55"), Continue
  PROVE  \/ op = "init" /\ Goes("ACMD41")
         \/ op = "start" /\ Goes("ACMD23")
BY Turns, Continues DEF Doing, Calls, Leads, Ends, Goes

LEMMA AfterCMD58 ==
  ASSUME IsRest(op, script), Doing("CMD58"), Continue
  PROVE  op = "init" /\ Return("ok")
BY Turns, Continues DEF Doing, Calls, Leads, Ends, Goes

LEMMA AfterCMD8 ==
  ASSUME IsRest(op, script), Doing("CMD8"), Continue
  PROVE  op = "init" /\ Goes("CMD55")
BY Turns, Continues DEF Doing, Calls, Leads, Ends, Goes

LEMMA AfterCMD9 ==
  ASSUME IsRest(op, script), Doing("CMD9"), Continue
  PROVE  op \in {"erase", "size"} /\ Goes("token")
BY Turns, Continues DEF Doing, Calls, Leads, Ends, Goes

LEMMA AfterData ==
  ASSUME IsRest(op, script), Doing("data"), Continue
  PROVE  op = "read" /\ Return("ok")
BY Turns, Continues DEF Doing, Calls, Leads, Ends, Goes

LEMMA AfterErased ==
  ASSUME IsRest(op, script), Doing("erased"), Continue
  PROVE  op = "erase" /\ Return("ok")
BY Turns, Continues DEF Doing, Calls, Leads, Ends, Goes

LEMMA AfterFree ==
  ASSUME IsRest(op, script), Doing("free"), Continue
  PROVE  \/ op = "more" /\ Goes("send")
         \/ op = "stop" /\ Goes("stop")
         \/ op = "stop" /\ Return("ok")
BY Turns, Continues DEF Doing, Calls, Leads, Ends, Goes

LEMMA AfterProgrammed ==
  ASSUME IsRest(op, script), Doing("programmed"), Continue
  PROVE  op = "write" /\ Goes("CMD13")
BY Turns, Continues DEF Doing, Calls, Leads, Ends, Goes

LEMMA AfterRegister ==
  ASSUME IsRest(op, script), Doing("register"), Continue
  PROVE  \/ op = "erase" /\ Goes("CMD32")
         \/ op = "size" /\ Return("ok")
BY Turns, Continues DEF Doing, Calls, Leads, Ends, Goes

LEMMA AfterSend ==
  ASSUME IsRest(op, script), Doing("send"), Continue
  PROVE  \/ op = "write" /\ Goes("programmed")
         \/ op = "more" /\ Return("ok")
BY Turns, Continues DEF Doing, Calls, Leads, Ends, Goes

LEMMA AfterStop ==
  ASSUME IsRest(op, script), Doing("stop"), Continue
  PROVE  op = "stop" /\ Goes("free")
BY Turns, Continues DEF Doing, Calls, Leads, Ends, Goes

LEMMA AfterToken ==
  ASSUME IsRest(op, script), Doing("token"), Continue
  PROVE  \/ op = "read" /\ Goes("data")
         \/ op \in {"erase", "size"} /\ Goes("register")
BY Turns, Continues DEF Doing, Calls, Leads, Ends, Goes

\* The card has become ready.
LEMMA AfterACMD41Ready ==
  ASSUME IsRest(op, script), BecomesReady
  PROVE  op = "init" /\ (Goes("CMD58") \/ (Return("ok") /\ type_ # "SD2"))
<1>1. script # << >> /\ script[1] = "ACMD41"
  BY DEF BecomesReady, Sending, Doing
<1>2. op = "init"
  BY <1>1, Turns DEF Calls
<1> QED
  BY <1>1, <1>2, Turns, Continues DEF Doing, Leads, Ends, Goes

\* A refused command ends the call, or init() tries it again.
LEMMA AfterFailure ==
  ASSUME IsRest(op, script), CommandFails
  PROVE  /\ script # << >> /\ script[1] \in Commands /\ t0 # None
         /\ \/ Return("refused")
            \/ /\ script' # << >> /\ script'[1] \in {"CMD0", "CMD55"} /\ t0' = None /\ waited' = 0
               /\ op = "init" /\ (script[1] = "CMD0" <=> script'[1] = "CMD0")
               /\ UNCHANGED <<op, arg, up, reply>>
<1>1. /\ script # << >> /\ script[1] \in Commands /\ t0 # None
      /\ \/ Return("refused")
         \/ /\ Doing("CMD0") \/ Doing("ACMD41")
            /\ script' = IF Doing("CMD0") THEN script ELSE <<"CMD55">> \o script
            /\ t0' = None /\ waited' = 0 /\ UNCHANGED <<op, arg, up, reply>>
  BY DEF CommandFails, Sending, Doing
<1>2. CASE Return("refused")
  BY <1>1, <1>2
<1>3. CASE Doing("CMD0") /\ script' = script
  <2>1. op = "init"
    BY <1>3, Turns DEF Doing, Calls
  <2> QED
    BY <1>1, <1>3, <2>1 DEF Doing
<1>4. CASE Doing("ACMD41") /\ ~Doing("CMD0") /\ script' = <<"CMD55">> \o script
  <2>1. op = "init"
    BY <1>4, Turns DEF Doing, Calls
  <2> QED
    BY <1>1, <1>4, <2>1, AnotherTry DEF Doing
<1> QED
  BY <1>1, <1>2, <1>3, <1>4

\* Commands whose acceptance the model keeps nothing of.
LEMMA AfterPassing ==
  ASSUME IsRest(op, script), NEW cmd \in {"CMD32", "CMD33", "CMD55", "ACMD23"},
         Doing(cmd), Continue
  PROVE  \/ op = "init" /\ Goes("ACMD41")
         \/ op # "init" /\ \E y \in {"CMD33", "CMD38", "ACMD23", "CMD25"} : Goes(y)
<1>1. CASE cmd = "CMD32"
  BY <1>1, AfterCMD32
<1>2. CASE cmd = "CMD33"
  BY <1>2, AfterCMD33
<1>3. CASE cmd = "CMD55"
  BY <1>3, AfterCMD55
<1>4. CASE cmd = "ACMD23"
  BY <1>4, AfterACMD23
<1> QED
  BY <1>1, <1>2, <1>3, <1>4

\* A wait that ends.
LEMMA AfterWaiting ==
  ASSUME IsRest(op, script), NotBusy
  PROVE  /\ script # << >> /\ script[1] \in Waits
         /\ \/ op = "write" /\ Goes("CMD13") /\ script[1] = "programmed"
            \/ op = "more" /\ Goes("send")
            \/ op = "stop" /\ Goes("stop")
            \/ op \in {"erase", "stop"} /\ Return("ok")
<1>1. script # << >> /\ script[1] \in Waits /\ Continue
  BY DEF NotBusy
<1>2. script[1] = "programmed" \/ script[1] = "erased" \/ script[1] = "free"
  BY <1>1 DEF Waits
<1>3. CASE script[1] = "programmed"
  BY <1>1, <1>3, AfterProgrammed DEF Doing
<1>4. CASE script[1] = "erased"
  BY <1>1, <1>4, AfterErased DEF Doing
<1>5. CASE script[1] = "free"
  BY <1>1, <1>5, AfterFree DEF Doing
<1> QED
  BY <1>1, <1>2, <1>3, <1>4, <1>5

-----------------------------------------------------------------------------
(* The steps keep the invariant. *)

LEMMA SetupStep == IsRest(op, script) /\ Setup /\ [Next]_vars => Setup'
<1> SUFFICES ASSUME IsRest(op, script), Setup, [Next]_vars PROVE Setup'
  OBVIOUS
<1>1. CASE BeginCommand
  BY <1>1 DEF BeginCommand, None, readEnd, call, Setup, Doing
<1>2. CASE Starts("CMD9", "preparing")
  BY <1>2, AfterCMD9 DEF Starts, Sending, Doing, None, driver, cardRest, Goes, Return, Setup
<1>3. CASE Starts("CMD17", "preparing")
  BY <1>3, AfterCMD17 DEF Starts, Sending, Doing, None, driver, cardRest, Goes, Return, Setup
<1>4. CASE Starts("CMD24", "receiving")
  BY <1>4, AfterCMD24 DEF Starts, Sending, Doing, None, driver, cardRest, Goes, Return, Setup
<1>5. CASE Starts("CMD25", "multiple")
  BY <1>5, AfterCMD25 DEF Starts, Sending, Doing, None, driver, cardRest, Goes, Return, Setup
<1>6. ASSUME NEW cmd \in {"CMD32", "CMD33", "CMD55", "ACMD23"}, Passes(cmd)
      PROVE  Setup'
  BY <1>6, AfterPassing DEF Passes, Sending, Doing, None, driver, card, Goes, Return, Setup
<1>7. CASE GoIdle
  BY <1>7, AfterCMD0 DEF GoIdle, Sending, Doing, None, driver, cardRest, Goes, Return, Setup
<1>8. CASE Version
  BY <1>8, AfterCMD8 DEF Version, Sending, Doing, None, card, Goes, Return, Setup
<1>9. CASE BecomesReady
  BY <1>9, AfterACMD41Ready
  DEF BecomesReady, Sending, Doing, None, driver, cardRest, Goes, Return, Setup
<1>10. CASE Capacity
  BY <1>10, AfterCMD58 DEF Capacity, Sending, Doing, None, card, Goes, Return, Setup
<1>11. CASE Status
  BY <1>11, AfterCMD13
  DEF Status, Sending, Doing, None, Return, NoArg, driver, cardRest, Goes, Setup
<1>12. CASE EraseBlocks
  BY <1>12, AfterCMD38 DEF EraseBlocks, Sending, Doing, None, driver, Goes, Return, Setup
<1>13. CASE CommandFails
  <2>1. UNCHANGED <<driver, card, clock, writes, dst>>
    BY <1>13 DEF CommandFails
  <2>2. CASE Return("refused")
    <3>1. op' = "none" /\ (up' <=> up)
      BY <2>2 DEF Return
    <3> QED
      BY <2>1, <3>1 DEF Setup, driver, card
  <2>3. CASE ~Return("refused")
    <3>1. /\ Doing("CMD0")' <=> Doing("CMD0")
          /\ UNCHANGED <<op, up>>
      BY <1>13, <2>3, AfterFailure DEF Doing
    <3> QED
      BY <2>1, <3>1 DEF Setup, driver, card
  <2> QED
    BY <2>2, <2>3
<1>14. CASE BeginWait
  BY <1>14 DEF BeginWait, None, driver, card, call, Setup, Doing
<1>15. CASE NotBusy
  BY <1>15, AfterWaiting DEF NotBusy, None, driver, card, Goes, Return, Doing, Setup
<1>16. CASE StillBusy
  BY <1>16 DEF StillBusy, Return, NoArg, None, driver, card, Setup, Doing
<1>17. CASE BlockBegins
  BY <1>17, AfterToken DEF BlockBegins, Doing, None, card, Goes, Return, Setup
<1>18. CASE NoBlock
  BY <1>18 DEF NoBlock, Doing, None, Return, NoArg, driver, cardRest, Setup
<1>19. CASE Data
  BY <1>19, AfterData DEF Data, Doing, Goes, Return, Setup
<1>20. CASE Register
  BY <1>20, AfterRegister
  DEF Register, Doing, Return, NoArg, None, driver, cardRest, Goes, Setup
<1>21. CASE Send
  BY <1>21, AfterSend DEF Send, Doing, driver, Goes, Return, Setup
<1>22. CASE SendFails
  BY <1>22 DEF SendFails, Doing, Return, NoArg, None, driver, cardRest, Setup
<1>23. CASE StopTransmission
  BY <1>23, AfterStop DEF StopTransmission, Doing, driver, Goes, Return, Setup
<1>24. CASE Tick
  BY <1>24 DEF Tick, None, driver, card, call, Setup, Doing
<1>25. CASE CardFinishes
  BY <1>25 DEF CardFinishes, driver, call, time, Setup, Doing
<1>26. CASE CardSends
  BY <1>26 DEF CardSends, Doing, driver, call, time, Setup
<1>27. CASE CardDies
  BY <1>27 DEF CardDies, driver, call, time, Setup, Doing
<1>28. CASE InitCall
  BY <1>28 DEF InitCall, Begin, NoReply, NoArg, card, time, Setup, Doing
<1>29. ASSUME NEW b \in Block, NEW o \in 0 .. Size - 1, NEW n \in 1 .. Size, ReadCall(b, o, n)
      PROVE  Setup'
  BY <1>29 DEF ReadCall, CanCall, Begin, NoReply, NoArg, ReadScript, card, time, Setup, Doing
<1>30. ASSUME NEW b \in Block, writes < MaxWrites, WriteCall(b)
      PROVE  Setup'
  BY <1>30
  DEF WriteCall, CanCall, OtherCall, Begin, NoReply, NoArg, driver, card, time, Setup, Doing
<1>31. ASSUME NEW b \in Block, writes < MaxWrites, WriteStart(b)
      PROVE  Setup'
  BY <1>31
  DEF WriteStart, CanCall, OtherCall, Begin, NoReply, NoArg, driver, card, time, Setup, Doing
<1>32. ASSUME NEW b \in Block \ {0}, NEW l \in Block \ {0}, Erase(b, l)
      PROVE  Setup'
  BY <1>32
  DEF Erase, CanCall, OtherCall, Begin, NoReply, NoArg, driver, card, time, Setup, Doing
<1>33. ASSUME writes < MaxWrites, WriteMore
      PROVE  Setup'
  BY <1>33 DEF WriteMore, OtherCall, Begin, NoReply, NoArg, driver, card, time, Setup, Doing
<1>34. CASE CardSize
  BY <1>34
  DEF CardSize, CanCall, OtherCall, Begin, NoReply, NoArg, driver, card, time, Setup, Doing
<1>35. CASE WriteStop
  BY <1>35 DEF WriteStop, OtherCall, Begin, NoReply, NoArg, driver, card, time, Setup, Doing
<1>36. ASSUME NEW v \in BOOLEAN, PartialBlockRead(v)
      PROVE  Setup'
  BY <1>36 DEF PartialBlockRead, CanCall, readEnd, NoReply, NoArg, call, time, Setup, Doing
<1>37. CASE UNCHANGED vars
  BY <1>37 DEF Setup, Doing, vars, driver, card, call, time
<1> QED
  BY <1>1, <1>2, <1>3, <1>4, <1>5, <1>6, <1>7, <1>8, <1>9, <1>10, <1>11, <1>12, <1>13, <1>14,
    <1>15, <1>16, <1>17, <1>18, <1>19, <1>20, <1>21, <1>22, <1>23, <1>24, <1>25, <1>26, <1>27,
    <1>28, <1>29, <1>30, <1>31, <1>32, <1>33, <1>34, <1>35, <1>36, <1>37
  DEF Next, Step, Call, Command

LEMMA PendingStep == IsRest(op, script) /\ Pending /\ [Next]_vars => Pending'
<1> SUFFICES ASSUME IsRest(op, script), Pending, [Next]_vars PROVE Pending'
  OBVIOUS
<1>1. CASE BeginCommand
  BY <1>1 DEF BeginCommand, None, readEnd, call, Pending
<1>2. CASE Starts("CMD9", "preparing")
  BY <1>2, AfterCMD9 DEF Starts, Sending, Doing, None, driver, cardRest, Goes, Return, Pending
<1>3. CASE Starts("CMD17", "preparing")
  BY <1>3, AfterCMD17 DEF Starts, Sending, Doing, None, driver, cardRest, Goes, Return, Pending
<1>4. CASE Starts("CMD24", "receiving")
  BY <1>4, AfterCMD24 DEF Starts, Sending, Doing, None, driver, cardRest, Goes, Return, Pending
<1>5. CASE Starts("CMD25", "multiple")
  BY <1>5, AfterCMD25 DEF Starts, Sending, Doing, None, driver, cardRest, Goes, Return, Pending
<1>6. ASSUME NEW cmd \in {"CMD32", "CMD33", "CMD55", "ACMD23"}, Passes(cmd)
      PROVE  Pending'
  BY <1>6, AfterPassing DEF Passes, Sending, Doing, None, driver, card, Goes, Return, Pending
<1>7. CASE GoIdle
  BY <1>7, AfterCMD0 DEF GoIdle, Sending, Doing, None, driver, cardRest, Goes, Return, Pending
<1>8. CASE Version
  BY <1>8, AfterCMD8 DEF Version, Sending, Doing, None, card, Goes, Return, Pending
<1>9. CASE BecomesReady
  BY <1>9, AfterACMD41Ready
  DEF BecomesReady, Sending, Doing, None, driver, cardRest, Goes, Return, Pending
<1>10. CASE Capacity
  BY <1>10, AfterCMD58 DEF Capacity, Sending, Doing, None, card, Goes, Return, Pending
<1>11. CASE Status
  BY <1>11, AfterCMD13
  DEF Status, Sending, Doing, None, Return, NoArg, driver, cardRest, Goes, Pending
<1>12. CASE EraseBlocks
  BY <1>12, AfterCMD38 DEF EraseBlocks, Sending, Doing, None, driver, Goes, Return, Pending
<1>13. CASE CommandFails
  <2>1. UNCHANGED <<driver, card, clock, writes, dst>>
    BY <1>13 DEF CommandFails
  <2> QED
    BY <1>13, <2>1, AfterFailure DEF driver, card, Return, Doing, Pending
<1>14. CASE BeginWait
  BY <1>14 DEF BeginWait, None, driver, card, call, Pending
<1>15. CASE NotBusy
  BY <1>15, AfterWaiting DEF NotBusy, None, driver, card, Goes, Return, Doing, Pending
<1>16. CASE StillBusy
  BY <1>16 DEF StillBusy, Return, NoArg, None, driver, card, Pending
<1>17. CASE BlockBegins
  BY <1>17, AfterToken DEF BlockBegins, Doing, None, card, Goes, Return, Pending
<1>18. CASE NoBlock
  BY <1>18 DEF NoBlock, Doing, None, Return, NoArg, driver, cardRest, Pending
<1>19. CASE Data
  BY <1>19, AfterData DEF Data, Doing, Goes, Return, Pending
<1>20. CASE Register
  BY <1>20, AfterRegister
  DEF Register, Doing, Return, NoArg, None, driver, cardRest, Goes, Pending
<1>21. CASE Send
  BY <1>21, AfterSend DEF Send, Doing, driver, Goes, Return, Pending
<1>22. CASE SendFails
  BY <1>22 DEF SendFails, Doing, Return, NoArg, None, driver, cardRest, Pending
<1>23. CASE StopTransmission
  BY <1>23, AfterStop DEF StopTransmission, Doing, driver, Goes, Return, Pending
<1>24. CASE Tick
  BY <1>24 DEF Tick, None, driver, card, call, Pending
<1>25. CASE CardFinishes
  BY <1>25 DEF CardFinishes, driver, call, time, Pending
<1>26. CASE CardSends
  BY <1>26 DEF CardSends, Doing, driver, call, time, Pending
<1>27. CASE CardDies
  BY <1>27 DEF CardDies, driver, call, time, Pending
<1>28. CASE InitCall
  BY <1>28 DEF InitCall, Begin, NoReply, NoArg, card, time, Pending
<1>29. ASSUME NEW b \in Block, NEW o \in 0 .. Size - 1, NEW n \in 1 .. Size, ReadCall(b, o, n)
      PROVE  Pending'
  BY <1>29 DEF ReadCall, CanCall, Begin, NoReply, NoArg, ReadScript, card, time, Pending
<1>30. ASSUME NEW b \in Block, writes < MaxWrites, WriteCall(b)
      PROVE  Pending'
  BY <1>30 DEF WriteCall, CanCall, OtherCall, Begin, NoReply, NoArg, driver, card, time, Pending
<1>31. ASSUME NEW b \in Block, writes < MaxWrites, WriteStart(b)
      PROVE  Pending'
  BY <1>31
  DEF WriteStart, CanCall, OtherCall, Begin, NoReply, NoArg, driver, card, time, Pending
<1>32. ASSUME NEW b \in Block \ {0}, NEW l \in Block \ {0}, Erase(b, l)
      PROVE  Pending'
  BY <1>32 DEF Erase, CanCall, OtherCall, Begin, NoReply, NoArg, driver, card, time, Pending
<1>33. ASSUME writes < MaxWrites, WriteMore
      PROVE  Pending'
  BY <1>33 DEF WriteMore, OtherCall, Begin, NoReply, NoArg, driver, card, time, Pending
<1>34. CASE CardSize
  BY <1>34 DEF CardSize, CanCall, OtherCall, Begin, NoReply, NoArg, driver, card, time, Pending
<1>35. CASE WriteStop
  BY <1>35 DEF WriteStop, OtherCall, Begin, NoReply, NoArg, driver, card, time, Pending
<1>36. ASSUME NEW v \in BOOLEAN, PartialBlockRead(v)
      PROVE  Pending'
  BY <1>36 DEF PartialBlockRead, CanCall, readEnd, NoReply, NoArg, call, time, Pending
<1>37. CASE UNCHANGED vars
  BY <1>37 DEF Pending, vars, driver, card, call, time, Doing
<1> QED
  BY <1>1, <1>2, <1>3, <1>4, <1>5, <1>6, <1>7, <1>8, <1>9, <1>10, <1>11, <1>12, <1>13, <1>14,
    <1>15, <1>16, <1>17, <1>18, <1>19, <1>20, <1>21, <1>22, <1>23, <1>24, <1>25, <1>26, <1>27,
    <1>28, <1>29, <1>30, <1>31, <1>32, <1>33, <1>34, <1>35, <1>36, <1>37
  DEF Next, Step, Call, Command

LEMMA WaitingStep == IsRest(op, script) /\ Waiting /\ TypeOK /\ [Next]_vars => Waiting'
<1> SUFFICES ASSUME IsRest(op, script), Waiting, TypeOK, [Next]_vars PROVE Waiting'
  OBVIOUS
<1>1. CASE BeginCommand
  <2>1. t0' = clock /\ clock' = clock /\ waited' = waited
    BY <1>1 DEF BeginCommand, StartWait
  <2>2. clock \in Int /\ waited \in Nat
    BY Numbers DEF TypeOK, TimeOK
  <2> QED
    BY <2>1, <2>2 DEF Waiting, Elapsed
<1>2. CASE Starts("CMD9", "preparing")
  BY <1>2, AfterCMD9
  DEF Starts, Sending, Doing, None, driver, cardRest, Goes, Return, Waiting, Elapsed
<1>3. CASE Starts("CMD17", "preparing")
  BY <1>3, AfterCMD17
  DEF Starts, Sending, Doing, None, driver, cardRest, Goes, Return, Waiting, Elapsed
<1>4. CASE Starts("CMD24", "receiving")
  BY <1>4, AfterCMD24
  DEF Starts, Sending, Doing, None, driver, cardRest, Goes, Return, Waiting, Elapsed
<1>5. CASE Starts("CMD25", "multiple")
  BY <1>5, AfterCMD25
  DEF Starts, Sending, Doing, None, driver, cardRest, Goes, Return, Waiting, Elapsed
<1>6. ASSUME NEW cmd \in {"CMD32", "CMD33", "CMD55", "ACMD23"}, Passes(cmd)
      PROVE  Waiting'
  BY <1>6, AfterPassing
  DEF Passes, Sending, Doing, None, driver, card, Goes, Return, Waiting, Elapsed
<1>7. CASE GoIdle
  BY <1>7, AfterCMD0
  DEF GoIdle, Sending, Doing, None, driver, cardRest, Goes, Return, Waiting, Elapsed
<1>8. CASE Version
  BY <1>8, AfterCMD8 DEF Version, Sending, Doing, None, card, Goes, Return, Waiting, Elapsed
<1>9. CASE BecomesReady
  BY <1>9, AfterACMD41Ready
  DEF BecomesReady, Sending, Doing, None, driver, cardRest, Goes, Return, Waiting, Elapsed
<1>10. CASE Capacity
  BY <1>10, AfterCMD58 DEF Capacity, Sending, Doing, None, card, Goes, Return, Waiting, Elapsed
<1>11. CASE Status
  BY <1>11, AfterCMD13
  DEF Status, Sending, Doing, None, Return, NoArg, driver, cardRest, Goes, Waiting, Elapsed
<1>12. CASE EraseBlocks
  BY <1>12, AfterCMD38
  DEF EraseBlocks, Sending, Doing, None, driver, Goes, Return, Waiting, Elapsed
<1>13. CASE CommandFails
  <2>1. UNCHANGED <<driver, card, clock, writes, dst>>
    BY <1>13 DEF CommandFails
  <2> QED
    BY <1>13, <2>1, AfterFailure DEF driver, card, Return, Doing, Waiting, Elapsed
<1>14. CASE BeginWait
  <2>1. t0' = clock /\ clock' = clock /\ waited' = waited
    BY <1>14 DEF BeginWait, StartWait
  <2>2. clock \in Int /\ waited \in Nat
    BY Numbers DEF TypeOK, TimeOK
  <2> QED
    BY <2>1, <2>2 DEF Waiting, Elapsed
<1>15. CASE NotBusy
  BY <1>15, AfterWaiting DEF NotBusy, None, driver, card, Goes, Return, Doing, Waiting, Elapsed
<1>16. CASE StillBusy
  BY <1>16 DEF StillBusy, Return, NoArg, None, driver, card, Waiting, Elapsed
<1>17. CASE BlockBegins
  BY <1>17, AfterToken DEF BlockBegins, Doing, None, card, Goes, Return, Waiting, Elapsed
<1>18. CASE NoBlock
  BY <1>18 DEF NoBlock, Doing, None, Return, NoArg, driver, cardRest, Waiting, Elapsed
<1>19. CASE Data
  BY <1>19, AfterData DEF Data, Doing, Goes, Return, Waiting, Elapsed
<1>20. CASE Register
  BY <1>20, AfterRegister
  DEF Register, Doing, Return, NoArg, None, driver, cardRest, Goes, Waiting, Elapsed
<1>21. CASE Send
  BY <1>21, AfterSend DEF Send, Doing, driver, Goes, Return, Waiting, Elapsed
<1>22. CASE SendFails
  BY <1>22 DEF SendFails, Doing, Return, NoArg, None, driver, cardRest, Waiting, Elapsed
<1>23. CASE StopTransmission
  BY <1>23, AfterStop DEF StopTransmission, Doing, driver, Goes, Return, Waiting, Elapsed
<1>24. CASE Tick
  <2>1. /\ t0' = t0 /\ clock' = (clock + 1) % Wrap /\ t0 # None
        /\ waited' = IF waited < Timeout THEN waited + 1 ELSE waited
    BY <1>24 DEF Tick
  <2>2. clock \in 0 .. Wrap - 1 /\ waited \in 0 .. Timeout /\ t0 \in 0 .. Wrap - 1
    BY <2>1 DEF TypeOK, TimeOK
  <2>3. clock' \in Int /\ clock' <= clock + 1
    BY <2>1, <2>2, Numbers
  <2>4. clock - t0 <= waited \/ waited = Timeout
    BY <2>1 DEF Waiting, Elapsed
  <2> QED
    BY <2>1, <2>2, <2>3, <2>4, Numbers DEF Waiting, Elapsed
<1>25. CASE CardFinishes
  BY <1>25 DEF CardFinishes, driver, call, time, Waiting, Elapsed
<1>26. CASE CardSends
  BY <1>26 DEF CardSends, Doing, driver, call, time, Waiting, Elapsed
<1>27. CASE CardDies
  BY <1>27 DEF CardDies, driver, call, time, Waiting, Elapsed
<1>28. CASE InitCall
  BY <1>28 DEF InitCall, Begin, NoReply, NoArg, card, time, Waiting, Elapsed
<1>29. ASSUME NEW b \in Block, NEW o \in 0 .. Size - 1, NEW n \in 1 .. Size, ReadCall(b, o, n)
      PROVE  Waiting'
  BY <1>29
  DEF ReadCall, CanCall, Begin, NoReply, NoArg, ReadScript, card, time, Waiting, Elapsed
<1>30. ASSUME NEW b \in Block, writes < MaxWrites, WriteCall(b)
      PROVE  Waiting'
  BY <1>30
  DEF WriteCall, CanCall, OtherCall, Begin, NoReply, NoArg, driver, card, time, Waiting, Elapsed
<1>31. ASSUME NEW b \in Block, writes < MaxWrites, WriteStart(b)
      PROVE  Waiting'
  BY <1>31
  DEF WriteStart, CanCall, OtherCall, Begin, NoReply, NoArg, driver, card, time, Waiting,
    Elapsed
<1>32. ASSUME NEW b \in Block \ {0}, NEW l \in Block \ {0}, Erase(b, l)
      PROVE  Waiting'
  BY <1>32
  DEF Erase, CanCall, OtherCall, Begin, NoReply, NoArg, driver, card, time, Waiting, Elapsed
<1>33. ASSUME writes < MaxWrites, WriteMore
      PROVE  Waiting'
  BY <1>33 DEF WriteMore, OtherCall, Begin, NoReply, NoArg, driver, card, time, Waiting, Elapsed
<1>34. CASE CardSize
  BY <1>34
  DEF CardSize, CanCall, OtherCall, Begin, NoReply, NoArg, driver, card, time, Waiting, Elapsed
<1>35. CASE WriteStop
  BY <1>35 DEF WriteStop, OtherCall, Begin, NoReply, NoArg, driver, card, time, Waiting, Elapsed
<1>36. ASSUME NEW v \in BOOLEAN, PartialBlockRead(v)
      PROVE  Waiting'
  BY <1>36 DEF PartialBlockRead, CanCall, readEnd, NoReply, NoArg, call, time, Waiting, Elapsed
<1>37. CASE UNCHANGED vars
  BY <1>37 DEF Waiting, Elapsed, vars, driver, card, call, time
<1> QED
  BY <1>1, <1>2, <1>3, <1>4, <1>5, <1>6, <1>7, <1>8, <1>9, <1>10, <1>11, <1>12, <1>13, <1>14,
    <1>15, <1>16, <1>17, <1>18, <1>19, <1>20, <1>21, <1>22, <1>23, <1>24, <1>25, <1>26, <1>27,
    <1>28, <1>29, <1>30, <1>31, <1>32, <1>33, <1>34, <1>35, <1>36, <1>37
  DEF Next, Step, Call, Command

\* Only between calls and before a command or the data is a block open.
LEMMA NoneOpen ==
  ASSUME Open, script # << >>, script[1] # "data", script[1] \notin Commands \/ t0 # None
  PROVE  ~inBlock_
BY DEF Open, Doing

\* The commands are not waits or transfers.
LEMMA Commanding ==
  /\ {"CMD0", "CMD8", "CMD9", "CMD13", "CMD17", "CMD24", "CMD25", "CMD32", "CMD33", "CMD38",
      "CMD55", "CMD58", "ACMD23", "ACMD41"} = Commands
  /\ \A s \in Waits \cup {"token", "data", "register", "send", "stop"} : s \notin Commands
  /\ "data" \notin Waits /\ "token" \notin Waits /\ "register" \notin Waits
BY DEF Commands, Waits

LEMMA OpenStep == TypeOK /\ IsRest(op, script) /\ Pending /\ Open /\ Sends /\ [Next]_vars =>
  Open'
<1> SUFFICES ASSUME TypeOK, IsRest(op, script), Pending, Open, Sends, [Next]_vars PROVE Open'
  OBVIOUS
<1>1. CASE BeginCommand
  BY <1>1, EndsRead DEF TypeOK, BeginCommand, Open
<1>2. CASE Starts("CMD9", "preparing")
  BY <1>2, AfterCMD9 DEF Starts, Sending, Doing, None, driver, cardRest, Goes, Return, Open
<1>3. CASE Starts("CMD17", "preparing")
  BY <1>3, AfterCMD17 DEF Starts, Sending, Doing, None, driver, cardRest, Goes, Return, Open
<1>4. CASE Starts("CMD24", "receiving")
  BY <1>4, AfterCMD24 DEF Starts, Sending, Doing, None, driver, cardRest, Goes, Return, Open
<1>5. CASE Starts("CMD25", "multiple")
  BY <1>5, AfterCMD25 DEF Starts, Sending, Doing, None, driver, cardRest, Goes, Return, Open
<1>6. ASSUME NEW cmd \in {"CMD32", "CMD33", "CMD55", "ACMD23"}, Passes(cmd)
      PROVE  Open'
  BY <1>6, AfterPassing DEF Passes, Sending, Doing, None, driver, card, Goes, Return, Open
<1>7. CASE GoIdle
  BY <1>7, AfterCMD0 DEF GoIdle, Sending, Doing, None, driver, cardRest, Goes, Return, Open
<1>8. CASE Version
  BY <1>8, AfterCMD8 DEF Version, Sending, Doing, None, card, Goes, Return, Open
<1>9. CASE BecomesReady
  BY <1>9, AfterACMD41Ready
  DEF BecomesReady, Sending, Doing, None, driver, cardRest, Goes, Return, Open
<1>10. CASE Capacity
  BY <1>10, AfterCMD58 DEF Capacity, Sending, Doing, None, card, Goes, Return, Open
<1>11. CASE Status
  BY <1>11, AfterCMD13
  DEF Status, Sending, Doing, None, Return, NoArg, driver, cardRest, Goes, Open
<1>12. CASE EraseBlocks
  BY <1>12, AfterCMD38 DEF EraseBlocks, Sending, Doing, None, driver, Goes, Return, Open
<1>13. CASE CommandFails
  <2>1. UNCHANGED <<driver, card>>
    BY <1>13 DEF CommandFails
  <2>2. ~inBlock_
    BY <1>13, AfterFailure, NoneOpen, Commanding
  <2> QED
    BY <2>1, <2>2 DEF Open, driver
<1>14. CASE BeginWait
  <2>1. script # << >> /\ script[1] \in Waits \cup {"token"} /\ inBlock_' = inBlock_
    BY <1>14 DEF BeginWait, Doing, driver
  <2>2. ~inBlock_
    BY <2>1, NoneOpen, Commanding
  <2> QED
    BY <2>1, <2>2 DEF Open
<1>15. CASE NotBusy
  <2>1. script # << >> /\ script[1] \in Waits /\ inBlock_' = inBlock_
    BY <1>15 DEF NotBusy, Doing, driver
  <2>2. ~inBlock_
    BY <2>1, NoneOpen, Commanding
  <2> QED
    BY <2>1, <2>2 DEF Open
<1>16. CASE StillBusy
  <2>1. script # << >> /\ script[1] \in Waits /\ inBlock_' = inBlock_
    BY <1>16 DEF StillBusy, Doing, driver
  <2>2. ~inBlock_
    BY <2>1, NoneOpen, Commanding
  <2> QED
    BY <2>1, <2>2 DEF Open
<1>17. CASE BlockBegins
  <2>1. /\ script # << >> /\ script[1] = "token" /\ mode = "sending"
        /\ UNCHANGED <<mode, sent, at, block_>>
        /\ IF op = "read" THEN inBlock_' = TRUE /\ offset_' = 0
           ELSE UNCHANGED <<inBlock_, offset_>>
    BY <1>17 DEF BlockBegins, Doing, card
  <2>2. ~inBlock_
    BY <2>1, NoneOpen, Commanding
  <2>3. CASE op = "read"
    <3>1. Doing("data")'
      BY <1>17, <2>3, AfterToken DEF BlockBegins, Goes, Doing
    <3>2. sent = 0 /\ at = block_
      BY <2>1, <2>3 DEF Sends, Doing
    <3> QED
      BY <2>1, <2>3, <3>1, <3>2, Numbers DEF Open
  <2> QED
    BY <2>1, <2>2, <2>3 DEF Open
<1>18. CASE NoBlock
  BY <1>18 DEF NoBlock, Doing, None, Return, NoArg, driver, cardRest, Open
<1>19. CASE Data
  <2>1. script' = << >>
    BY <1>19, AfterData DEF Data, Return
  <2>2. at = block_ /\ at' = at /\ block_' = block_
    BY <1>19 DEF Data, Open, Sends, Doing
  <2> QED
    BY <1>19, <2>1, <2>2, DataEnds, Numbers DEF TypeOK, Open
<1>20. CASE Register
  <2>1. script # << >> /\ script[1] = "register" /\ inBlock_' = inBlock_
    BY <1>20 DEF Register, Doing, driver
  <2>2. ~inBlock_
    BY <2>1, NoneOpen, Commanding
  <2> QED
    BY <2>1, <2>2 DEF Open
<1>21. CASE Send
  BY <1>21, AfterSend DEF Send, Doing, driver, Goes, Return, Open
<1>22. CASE SendFails
  <2>1. script # << >> /\ script[1] = "send" /\ inBlock_' = inBlock_
    BY <1>22 DEF SendFails, Doing, driver
  <2>2. ~inBlock_
    BY <2>1, NoneOpen, Commanding
  <2> QED
    BY <2>1, <2>2 DEF Open
<1>23. CASE StopTransmission
  <2>1. script # << >> /\ script[1] = "stop" /\ inBlock_' = inBlock_
    BY <1>23 DEF StopTransmission, Doing, driver
  <2>2. ~inBlock_
    BY <2>1, NoneOpen, Commanding
  <2> QED
    BY <2>1, <2>2 DEF Open
<1>24. CASE Tick
  BY <1>24 DEF Tick, None, driver, card, call, Open, Doing
<1>25. CASE CardFinishes
  BY <1>25 DEF CardFinishes, driver, call, time, Open, Doing
<1>26. CASE CardSends
  BY <1>26 DEF CardSends, Doing, driver, call, time, Open
<1>27. CASE CardDies
  BY <1>27 DEF CardDies, driver, call, time, Open, Doing
<1>28. CASE InitCall
  BY <1>28 DEF InitCall, Begin, NoReply, NoArg, card, time, Open, Doing
<1>29. ASSUME NEW b \in Block, NEW o \in 0 .. Size - 1, NEW n \in 1 .. Size, ReadCall(b, o, n)
      PROVE  Open'
  <2>1. /\ script' # << >> /\ script'[1] \in {"CMD17", "data"} /\ t0' = t0 /\ script = << >>
        /\ inBlock_ /\ script'[1] = "data" => b = block_
        /\ block_' = b /\ UNCHANGED <<inBlock_, mode, sent, offset_, at>>
    BY <1>29 DEF ReadCall, ReadScript, Begin, card, time
  <2>2. t0 = None
    BY <2>1 DEF Pending
  <2>3. "CMD17" \in Commands
    BY Commanding
  <2> QED
    BY <2>1, <2>2, <2>3 DEF Open, Doing
<1>30. ASSUME NEW b \in Block, writes < MaxWrites, WriteCall(b)
      PROVE  Open'
  <2>1. /\ script' # << >> /\ script'[1] = "CMD24" /\ t0' = t0 /\ script = << >>
        /\ UNCHANGED <<inBlock_, mode, sent, offset_, at, block_>>
    BY <1>30 DEF WriteCall, OtherCall, Begin, driver, card, time
  <2>2. t0 = None
    BY <2>1 DEF Pending
  <2>3. "CMD24" \in Commands
    BY Commanding
  <2> QED
    BY <2>1, <2>2, <2>3 DEF Open, Doing
<1>31. ASSUME NEW b \in Block, writes < MaxWrites, WriteStart(b)
      PROVE  Open'
  <2>1. /\ script' # << >> /\ script'[1] = "CMD55" /\ t0' = t0 /\ script = << >>
        /\ UNCHANGED <<inBlock_, mode, sent, offset_, at, block_>>
    BY <1>31 DEF WriteStart, OtherCall, Begin, driver, card, time
  <2>2. t0 = None
    BY <2>1 DEF Pending
  <2>3. "CMD55" \in Commands
    BY Commanding
  <2> QED
    BY <2>1, <2>2, <2>3 DEF Open, Doing
<1>32. ASSUME NEW b \in Block \ {0}, NEW l \in Block \ {0}, Erase(b, l)
      PROVE  Open'
  <2>1. /\ script' # << >> /\ script'[1] = "CMD9" /\ t0' = t0 /\ script = << >>
        /\ UNCHANGED <<inBlock_, mode, sent, offset_, at, block_>>
    BY <1>32 DEF Erase, OtherCall, Begin, driver, card, time
  <2>2. t0 = None
    BY <2>1 DEF Pending
  <2>3. "CMD9" \in Commands
    BY Commanding
  <2> QED
    BY <2>1, <2>2, <2>3 DEF Open, Doing
<1>33. ASSUME writes < MaxWrites, WriteMore
      PROVE  Open'
  BY <1>33 DEF WriteMore, OtherCall, Begin, NoReply, NoArg, driver, card, time, Open, Doing
<1>34. CASE CardSize
  <2>1. /\ script' # << >> /\ script'[1] = "CMD9" /\ t0' = t0 /\ script = << >>
        /\ UNCHANGED <<inBlock_, mode, sent, offset_, at, block_>>
    BY <1>34 DEF CardSize, OtherCall, Begin, driver, card, time
  <2>2. t0 = None
    BY <2>1 DEF Pending
  <2>3. "CMD9" \in Commands
    BY Commanding
  <2> QED
    BY <2>1, <2>2, <2>3 DEF Open, Doing
<1>35. CASE WriteStop
  BY <1>35 DEF WriteStop, OtherCall, Begin, NoReply, NoArg, driver, card, time, Open, Doing
<1>36. ASSUME NEW v \in BOOLEAN, PartialBlockRead(v)
      PROVE  Open'
  BY <1>36, EndsRead DEF TypeOK, PartialBlockRead, Open
<1>37. CASE UNCHANGED vars
  BY <1>37 DEF Open, Doing, vars, driver, card, call, time
<1> QED
  BY <1>1, <1>2, <1>3, <1>4, <1>5, <1>6, <1>7, <1>8, <1>9, <1>10, <1>11, <1>12, <1>13, <1>14,
    <1>15, <1>16, <1>17, <1>18, <1>19, <1>20, <1>21, <1>22, <1>23, <1>24, <1>25, <1>26, <1>27,
    <1>28, <1>29, <1>30, <1>31, <1>32, <1>33, <1>34, <1>35, <1>36, <1>37
  DEF Next, Step, Call, Command

LEMMA SendsStep == TypeOK /\ IsRest(op, script) /\ Setup /\ Pending /\ Open /\ Sends /\
  [Next]_vars => Sends'
<1> SUFFICES ASSUME TypeOK, IsRest(op, script), Setup, Pending, Open, Sends, [Next]_vars PROVE
  Sends'
  OBVIOUS
<1>1. CASE BeginCommand
  <2>1. /\ ~inBlock_' /\ UNCHANGED <<script, op, arg, up, block_, at>> /\ t0 = None
        /\ script # << >> /\ script[1] \in Commands
        /\ mode' = "ready" \/ UNCHANGED <<mode, sent, inBlock_>>
    BY <1>1, EndsRead DEF BeginCommand, call, TypeOK, DriverOK
  <2>2. ~Doing("token") /\ ~Doing("data") /\ ~Doing("register")
    BY <2>1, Commanding DEF Doing
  <2> QED
    BY <2>1, <2>2 DEF Sends, Doing
<1>2. CASE Starts("CMD9", "preparing")
  BY <1>2, AfterCMD9 DEF Starts, Sending, Doing, None, driver, cardRest, Goes, Return, Sends
<1>3. CASE Starts("CMD17", "preparing")
  <2>1. op = "read" /\ Goes("token")
    BY <1>3, AfterCMD17 DEF Starts, Sending
  <2>2. up
    BY <2>1 DEF Setup
  <2>3. at' = arg.block
    BY <1>3, <2>1, <2>2 DEF Starts, Addressed, Setup
  <2>4. mode' = "preparing" /\ sent' = 0 /\ UNCHANGED <<block_, arg, op>>
    BY <1>3, <2>1 DEF Starts, driver, Goes
  <2> QED
    BY <2>1, <2>3, <2>4 DEF Sends, Doing, Goes
<1>4. CASE Starts("CMD24", "receiving")
  BY <1>4, AfterCMD24 DEF Starts, Sending, Doing, None, driver, cardRest, Goes, Return, Sends
<1>5. CASE Starts("CMD25", "multiple")
  BY <1>5, AfterCMD25 DEF Starts, Sending, Doing, None, driver, cardRest, Goes, Return, Sends
<1>6. ASSUME NEW cmd \in {"CMD32", "CMD33", "CMD55", "ACMD23"}, Passes(cmd)
      PROVE  Sends'
  BY <1>6, AfterPassing DEF Passes, Sending, Doing, None, driver, card, Goes, Return, Sends
<1>7. CASE GoIdle
  BY <1>7, AfterCMD0 DEF GoIdle, Sending, Doing, None, driver, cardRest, Goes, Return, Sends
<1>8. CASE Version
  BY <1>8, AfterCMD8 DEF Version, Sending, Doing, None, card, Goes, Return, Sends
<1>9. CASE BecomesReady
  BY <1>9, AfterACMD41Ready
  DEF BecomesReady, Sending, Doing, None, driver, cardRest, Goes, Return, Sends
<1>10. CASE Capacity
  <2>1. op = "init" /\ script' = << >> /\ op' = "none" /\ UNCHANGED <<inBlock_, mode>>
    BY <1>10, AfterCMD58 DEF Capacity, Sending, Return, card
  <2>2. mode \in {"off", "ready"}
    BY <1>10, <2>1 DEF Setup, Capacity, Sending, Doing
  <2> QED
    BY <2>1, <2>2 DEF Sends, Doing
<1>11. CASE Status
  BY <1>11, AfterCMD13
  DEF Status, Sending, Doing, None, Return, NoArg, driver, cardRest, Goes, Sends
<1>12. CASE EraseBlocks
  BY <1>12, AfterCMD38 DEF EraseBlocks, Sending, Doing, None, driver, Goes, Return, Sends
<1>13. CASE CommandFails
  <2>1. UNCHANGED <<driver, card>>
    BY <1>13 DEF CommandFails
  <2>2. /\ script # << >> /\ script[1] \in Commands
        /\ op' = "none" \/ UNCHANGED <<op, arg>>
        /\ script' = << >> \/ (script' # << >> /\ script'[1] \in Commands)
    BY <1>13, AfterFailure, Commanding DEF Return
  <2>3. up' => up
    BY <1>13, AfterFailure DEF Return
  <2>4. ~Doing("token") /\ ~Doing("data") /\ ~Doing("register")
    BY <2>2, Commanding DEF Doing
  <2>5. ~Doing("token")' /\ ~Doing("data")' /\ ~Doing("register")'
    BY <2>2, Commanding DEF Doing
  <2> QED
    BY <2>1, <2>2, <2>3, <2>4, <2>5 DEF Sends, driver, card
<1>14. CASE BeginWait
  BY <1>14 DEF BeginWait, None, driver, card, call, Sends, Doing
<1>15. CASE NotBusy
  <2>1. UNCHANGED <<driver, card>>
    BY <1>15 DEF NotBusy
  <2>2. /\ script # << >> /\ script[1] \in Waits
        /\ op' = "none" \/ (op' = op /\ op # "read")
        /\ script' = << >> \/ (script' # << >> /\ script'[1] \in {"CMD13", "send", "stop"})
    BY <1>15, AfterWaiting DEF Return, Goes
  <2>3. up' => up
    BY <1>15, AfterWaiting DEF Return, Goes
  <2>4. ~Doing("token") /\ ~Doing("data") /\ ~Doing("register")
    BY <2>2, Commanding DEF Doing
  <2>5. ~Doing("token")' /\ ~Doing("data")' /\ ~Doing("register")'
    BY <2>2 DEF Doing
  <2> QED
    BY <2>1, <2>2, <2>3, <2>4, <2>5 DEF Sends, driver, card
<1>16. CASE StillBusy
  <2>1. UNCHANGED <<driver, card>>
    BY <1>16 DEF StillBusy
  <2>2. /\ script # << >> /\ script[1] \in Waits
        /\ op' = "none" /\ script' = << >> /\ (up' => up)
    BY <1>16 DEF StillBusy, Return
  <2>3. ~Doing("token") /\ ~Doing("data") /\ ~Doing("register")
    BY <2>2, Commanding DEF Doing
  <2> QED
    BY <2>1, <2>2, <2>3 DEF Sends, Doing, driver, card
<1>17. CASE BlockBegins
  <2>1. mode = "sending" /\ UNCHANGED <<mode, sent, at, block_>>
    BY <1>17 DEF BlockBegins, card
  <2>2. CASE op = "read"
    <3>1. Goes("data")
      BY <1>17, <2>2, AfterToken DEF BlockBegins
    <3>2. inBlock_' = TRUE /\ offset_' = 0
      BY <1>17, <2>2 DEF BlockBegins
    <3>3. arg.offset \in Nat
      BY Numbers DEF TypeOK, CallOK, Args
    <3> QED
      BY <2>1, <2>2, <3>1, <3>2, <3>3 DEF Sends, Doing, Goes
  <2>3. CASE op # "read"
    <3>1. Goes("register")
      BY <1>17, <2>3, AfterToken DEF BlockBegins
    <3> QED
      BY <2>1, <2>3, <3>1 DEF Sends, Doing, Goes
  <2> QED
    BY <2>2, <2>3
<1>18. CASE NoBlock
  BY <1>18 DEF NoBlock, Doing, None, Return, NoArg, driver, cardRest, Sends
<1>19. CASE Data
  BY <1>19, DataEnds, AfterData DEF TypeOK, Data, Sends, Goes, Return, Doing
<1>20. CASE Register
  BY <1>20, AfterRegister
  DEF Register, Doing, Return, NoArg, None, driver, cardRest, Goes, Sends
<1>21. CASE Send
  BY <1>21, AfterSend DEF Send, Doing, driver, Goes, Return, Sends
<1>22. CASE SendFails
  BY <1>22 DEF SendFails, Doing, Return, NoArg, None, driver, cardRest, Sends
<1>23. CASE StopTransmission
  BY <1>23, AfterStop DEF StopTransmission, Doing, driver, Goes, Return, Sends
<1>24. CASE Tick
  BY <1>24 DEF Tick, None, driver, card, call, Sends, Doing
<1>25. CASE CardFinishes
  BY <1>25 DEF CardFinishes, driver, call, time, Sends, Doing
<1>26. CASE CardSends
  BY <1>26 DEF CardSends, Doing, driver, call, time, Sends
<1>27. CASE CardDies
  BY <1>27 DEF CardDies, driver, call, time, Sends, Doing
<1>28. CASE InitCall
  BY <1>28 DEF InitCall, Begin, NoReply, NoArg, card, time, Sends, Doing
<1>29. ASSUME NEW b \in Block, NEW o \in 0 .. Size - 1, NEW n \in 1 .. Size, ReadCall(b, o, n)
      PROVE  Sends'
  BY <1>29 DEF ReadCall, CanCall, Begin, NoReply, NoArg, ReadScript, card, time, Sends, Doing
<1>30. ASSUME NEW b \in Block, writes < MaxWrites, WriteCall(b)
      PROVE  Sends'
  BY <1>30
  DEF WriteCall, CanCall, OtherCall, Begin, NoReply, NoArg, driver, card, time, Sends, Doing
<1>31. ASSUME NEW b \in Block, writes < MaxWrites, WriteStart(b)
      PROVE  Sends'
  BY <1>31
  DEF WriteStart, CanCall, OtherCall, Begin, NoReply, NoArg, driver, card, time, Sends, Doing
<1>32. ASSUME NEW b \in Block \ {0}, NEW l \in Block \ {0}, Erase(b, l)
      PROVE  Sends'
  BY <1>32
  DEF Erase, CanCall, OtherCall, Begin, NoReply, NoArg, driver, card, time, Sends, Doing
<1>33. ASSUME writes < MaxWrites, WriteMore
      PROVE  Sends'
  BY <1>33 DEF WriteMore, OtherCall, Begin, NoReply, NoArg, driver, card, time, Sends, Doing
<1>34. CASE CardSize
  BY <1>34
  DEF CardSize, CanCall, OtherCall, Begin, NoReply, NoArg, driver, card, time, Sends, Doing
<1>35. CASE WriteStop
  BY <1>35 DEF WriteStop, OtherCall, Begin, NoReply, NoArg, driver, card, time, Sends, Doing
<1>36. ASSUME NEW v \in BOOLEAN, PartialBlockRead(v)
      PROVE  Sends'
  BY <1>36, EndsRead DEF TypeOK, PartialBlockRead, Sends, Doing, call
<1>37. CASE UNCHANGED vars
  BY <1>37 DEF Sends, Doing, vars, driver, card, call, time
<1> QED
  BY <1>1, <1>2, <1>3, <1>4, <1>5, <1>6, <1>7, <1>8, <1>9, <1>10, <1>11, <1>12, <1>13, <1>14,
    <1>15, <1>16, <1>17, <1>18, <1>19, <1>20, <1>21, <1>22, <1>23, <1>24, <1>25, <1>26, <1>27,
    <1>28, <1>29, <1>30, <1>31, <1>32, <1>33, <1>34, <1>35, <1>36, <1>37
  DEF Next, Step, Call, Command

LEMMA StoresStep == TypeOK /\ IsRest(op, script) /\ Setup /\ Stores /\ [Next]_vars => Stores'
<1> SUFFICES ASSUME TypeOK, IsRest(op, script), Setup, Stores, [Next]_vars PROVE Stores'
  OBVIOUS
<1>1. CASE BeginCommand
  <2>1. /\ script # << >> /\ script[1] \in Commands
        /\ UNCHANGED <<op, script, arg, disk, flawed, writes>>
    BY <1>1 DEF BeginCommand, call
  <2>2. ~Doing("send")
    BY <2>1, Commanding DEF Doing
  <2> QED
    BY <2>1, <2>2 DEF Stores, Doing
<1>2. CASE Starts("CMD9", "preparing")
  BY <1>2, AfterCMD9 DEF Starts, Sending, Doing, None, driver, cardRest, Goes, Return, Stores
<1>3. CASE Starts("CMD17", "preparing")
  BY <1>3, AfterCMD17 DEF Starts, Sending, Doing, None, driver, cardRest, Goes, Return, Stores
<1>4. CASE Starts("CMD24", "receiving")
  <2>1. op = "write" /\ Goes("send")
    BY <1>4, AfterCMD24 DEF Starts, Sending
  <2>2. at' = arg.block /\ mode' = "receiving" /\ writes' = writes
    BY <1>4, <2>1 DEF Starts, Addressed, Setup
  <2>3. writes < MaxWrites
    BY <1>4 DEF Starts, Sending, Stores
  <2> QED
    BY <2>1, <2>2, <2>3 DEF Stores, Doing, Goes
<1>5. CASE Starts("CMD25", "multiple")
  BY <1>5, AfterCMD25 DEF Starts, Sending, Doing, None, driver, cardRest, Goes, Return, Stores
<1>6. ASSUME NEW cmd \in {"CMD32", "CMD33", "CMD55", "ACMD23"}, Passes(cmd)
      PROVE  Stores'
  BY <1>6, AfterPassing DEF Passes, Sending, Doing, None, driver, card, Goes, Return, Stores
<1>7. CASE GoIdle
  BY <1>7, AfterCMD0 DEF GoIdle, Sending, Doing, None, driver, cardRest, Goes, Return, Stores
<1>8. CASE Version
  BY <1>8, AfterCMD8 DEF Version, Sending, Doing, None, card, Goes, Return, Stores
<1>9. CASE BecomesReady
  BY <1>9, AfterACMD41Ready
  DEF BecomesReady, Sending, Doing, None, driver, cardRest, Goes, Return, Stores
<1>10. CASE Capacity
  BY <1>10, AfterCMD58 DEF Capacity, Sending, Doing, None, card, Goes, Return, Stores
<1>11. CASE Status
  BY <1>11, AfterCMD13
  DEF Status, Sending, Doing, None, Return, NoArg, driver, cardRest, Goes, Stores
<1>12. CASE EraseBlocks
  <2>1. op' = "erase" /\ Goes("erased")
    BY <1>12, AfterCMD38 DEF EraseBlocks, Sending, Goes
  <2> QED
    BY <2>1 DEF Stores, Doing, Goes
<1>13. CASE CommandFails
  <2>1. UNCHANGED <<driver, card, clock, writes, dst>>
    BY <1>13 DEF CommandFails
  <2> QED
    BY <1>13, <2>1, AfterFailure DEF driver, card, Return, Doing, Stores
<1>14. CASE BeginWait
  BY <1>14 DEF BeginWait, None, driver, card, call, Stores, Doing
<1>15. CASE NotBusy
  BY <1>15, AfterWaiting DEF NotBusy, None, driver, card, Goes, Return, Doing, Stores
<1>16. CASE StillBusy
  BY <1>16 DEF StillBusy, Return, NoArg, None, driver, card, Stores, Doing
<1>17. CASE BlockBegins
  BY <1>17, AfterToken DEF BlockBegins, Doing, None, card, Goes, Return, Stores
<1>18. CASE NoBlock
  BY <1>18 DEF NoBlock, Doing, None, Return, NoArg, driver, cardRest, Stores
<1>19. CASE Data
  <2>1. op' = "none" /\ script' = << >>
    BY <1>19, AfterData DEF Data, Return
  <2> QED
    BY <2>1 DEF Stores, Doing
<1>20. CASE Register
  BY <1>20, AfterRegister
  DEF Register, Doing, Return, NoArg, None, driver, cardRest, Goes, Stores
<1>21. CASE Send
  <2>1. CASE op = "write"
    <3>1. Goes("programmed")
      BY <1>21, <2>1, AfterSend DEF Send
    <3>2. at = arg.block /\ at \in Block
      BY <1>21, <2>1 DEF Send, Stores
    <3>3. flawed' \/ disk'[at] = writes'
      BY <1>21, <3>2 DEF Send, TypeOK, CardOK
    <3> QED
      BY <2>1, <3>1, <3>2, <3>3 DEF Stores, Doing, Goes
  <2>2. CASE op # "write"
    <3>1. Return("ok")
      BY <1>21, <2>2, AfterSend DEF Send
    <3> QED
      BY <3>1 DEF Stores, Doing, Return
  <2> QED
    BY <2>1, <2>2
<1>22. CASE SendFails
  BY <1>22 DEF SendFails, Doing, Return, NoArg, None, driver, cardRest, Stores
<1>23. CASE StopTransmission
  BY <1>23, AfterStop DEF StopTransmission, Doing, driver, Goes, Return, Stores
<1>24. CASE Tick
  BY <1>24 DEF Tick, None, driver, card, call, Stores, Doing
<1>25. CASE CardFinishes
  BY <1>25 DEF CardFinishes, driver, call, time, Stores, Doing
<1>26. CASE CardSends
  BY <1>26 DEF CardSends, Doing, driver, call, time, Stores
<1>27. CASE CardDies
  BY <1>27 DEF CardDies, driver, call, time, Stores, Doing
<1>28. CASE InitCall
  BY <1>28 DEF InitCall, Begin, NoReply, NoArg, card, time, Stores, Doing
<1>29. ASSUME NEW b \in Block, NEW o \in 0 .. Size - 1, NEW n \in 1 .. Size, ReadCall(b, o, n)
      PROVE  Stores'
  BY <1>29 DEF ReadCall, CanCall, Begin, NoReply, NoArg, ReadScript, card, time, Stores, Doing
<1>30. ASSUME NEW b \in Block, writes < MaxWrites, WriteCall(b)
      PROVE  Stores'
  BY <1>30
  DEF WriteCall, CanCall, OtherCall, Begin, NoReply, NoArg, driver, card, time, Stores, Doing
<1>31. ASSUME NEW b \in Block, writes < MaxWrites, WriteStart(b)
      PROVE  Stores'
  BY <1>31
  DEF WriteStart, CanCall, OtherCall, Begin, NoReply, NoArg, driver, card, time, Stores, Doing
<1>32. ASSUME NEW b \in Block \ {0}, NEW l \in Block \ {0}, Erase(b, l)
      PROVE  Stores'
  BY <1>32
  DEF Erase, CanCall, OtherCall, Begin, NoReply, NoArg, driver, card, time, Stores, Doing
<1>33. ASSUME writes < MaxWrites, WriteMore
      PROVE  Stores'
  BY <1>33 DEF WriteMore, OtherCall, Begin, NoReply, NoArg, driver, card, time, Stores, Doing
<1>34. CASE CardSize
  BY <1>34
  DEF CardSize, CanCall, OtherCall, Begin, NoReply, NoArg, driver, card, time, Stores, Doing
<1>35. CASE WriteStop
  BY <1>35 DEF WriteStop, OtherCall, Begin, NoReply, NoArg, driver, card, time, Stores, Doing
<1>36. ASSUME NEW v \in BOOLEAN, PartialBlockRead(v)
      PROVE  Stores'
  BY <1>36 DEF PartialBlockRead, CanCall, readEnd, NoReply, NoArg, call, time, Stores, Doing
<1>37. CASE UNCHANGED vars
  BY <1>37 DEF Stores, Doing, vars, driver, card, call, time
<1> QED
  BY <1>1, <1>2, <1>3, <1>4, <1>5, <1>6, <1>7, <1>8, <1>9, <1>10, <1>11, <1>12, <1>13, <1>14,
    <1>15, <1>16, <1>17, <1>18, <1>19, <1>20, <1>21, <1>22, <1>23, <1>24, <1>25, <1>26, <1>27,
    <1>28, <1>29, <1>30, <1>31, <1>32, <1>33, <1>34, <1>35, <1>36, <1>37
  DEF Next, Step, Call, Command

LEMMA ReadsStep == TypeOK /\ IsRest(op, script) /\ Pending /\ Open /\ Sends /\ ReadReturnsBlock
  /\ [Next]_vars => ReadReturnsBlock'
<1> SUFFICES ASSUME TypeOK, IsRest(op, script), Pending, Open, Sends, ReadReturnsBlock,
  [Next]_vars PROVE ReadReturnsBlock'
  OBVIOUS
<1>1. CASE BeginCommand
  BY <1>1 DEF BeginCommand, None, readEnd, call, ReadReturnsBlock
<1>2. CASE Starts("CMD9", "preparing")
  BY <1>2, AfterCMD9
  DEF Starts, Sending, Doing, None, driver, cardRest, Goes, Return, ReadReturnsBlock
<1>3. CASE Starts("CMD17", "preparing")
  BY <1>3, AfterCMD17
  DEF Starts, Sending, Doing, None, driver, cardRest, Goes, Return, ReadReturnsBlock
<1>4. CASE Starts("CMD24", "receiving")
  BY <1>4, AfterCMD24
  DEF Starts, Sending, Doing, None, driver, cardRest, Goes, Return, ReadReturnsBlock
<1>5. CASE Starts("CMD25", "multiple")
  BY <1>5, AfterCMD25
  DEF Starts, Sending, Doing, None, driver, cardRest, Goes, Return, ReadReturnsBlock
<1>6. ASSUME NEW cmd \in {"CMD32", "CMD33", "CMD55", "ACMD23"}, Passes(cmd)
      PROVE  ReadReturnsBlock'
  BY <1>6, AfterPassing
  DEF Passes, Sending, Doing, None, driver, card, Goes, Return, ReadReturnsBlock
<1>7. CASE GoIdle
  BY <1>7, AfterCMD0
  DEF GoIdle, Sending, Doing, None, driver, cardRest, Goes, Return, ReadReturnsBlock
<1>8. CASE Version
  BY <1>8, AfterCMD8 DEF Version, Sending, Doing, None, card, Goes, Return, ReadReturnsBlock
<1>9. CASE BecomesReady
  BY <1>9, AfterACMD41Ready
  DEF BecomesReady, Sending, Doing, None, driver, cardRest, Goes, Return, ReadReturnsBlock
<1>10. CASE Capacity
  BY <1>10, AfterCMD58 DEF Capacity, Sending, Doing, None, card, Goes, Return, ReadReturnsBlock
<1>11. CASE Status
  BY <1>11, AfterCMD13
  DEF Status, Sending, Doing, None, Return, NoArg, driver, cardRest, Goes, ReadReturnsBlock
<1>12. CASE EraseBlocks
  <2>1. reply' = NoReply \/ reply'.op = "more"
    BY <1>12, AfterCMD38 DEF EraseBlocks, Sending, Doing, Pending, Goes, Return
  <2> QED
    BY <2>1 DEF NoReply, ReadReturnsBlock
<1>13. CASE CommandFails
  <2>1. UNCHANGED <<driver, card, clock, writes, dst>>
    BY <1>13 DEF CommandFails
  <2> QED
    BY <1>13, <2>1, AfterFailure DEF driver, card, Return, Doing, ReadReturnsBlock
<1>14. CASE BeginWait
  BY <1>14 DEF BeginWait, None, driver, card, call, ReadReturnsBlock
<1>15. CASE NotBusy
  BY <1>15, AfterWaiting DEF NotBusy, None, driver, card, Goes, Return, Doing, ReadReturnsBlock
<1>16. CASE StillBusy
  BY <1>16 DEF StillBusy, Return, NoArg, None, driver, card, ReadReturnsBlock
<1>17. CASE BlockBegins
  BY <1>17, AfterToken DEF BlockBegins, Doing, None, card, Goes, Return, ReadReturnsBlock
<1>18. CASE NoBlock
  BY <1>18 DEF NoBlock, Doing, None, Return, NoArg, driver, cardRest, ReadReturnsBlock
<1>19. CASE Data
  <2>1. op = "read" /\ reply'.arg = arg /\ disk' = disk
    BY <1>19, AfterData DEF Data, Return
  <2> QED
    BY <1>19, <2>1, DataEnds DEF TypeOK, ReadReturnsBlock
<1>20. CASE Register
  BY <1>20, AfterRegister
  DEF Register, Doing, Return, NoArg, None, driver, cardRest, Goes, ReadReturnsBlock
<1>21. CASE Send
  <2>1. reply' = NoReply \/ reply'.op = "more"
    BY <1>21, AfterSend DEF Send, Sending, Doing, Pending, Goes, Return
  <2> QED
    BY <2>1 DEF NoReply, ReadReturnsBlock
<1>22. CASE SendFails
  BY <1>22 DEF SendFails, Doing, Return, NoArg, None, driver, cardRest, ReadReturnsBlock
<1>23. CASE StopTransmission
  BY <1>23, AfterStop DEF StopTransmission, Doing, driver, Goes, Return, ReadReturnsBlock
<1>24. CASE Tick
  BY <1>24 DEF Tick, None, driver, card, call, ReadReturnsBlock
<1>25. CASE CardFinishes
  BY <1>25 DEF CardFinishes, driver, call, time, ReadReturnsBlock
<1>26. CASE CardSends
  BY <1>26 DEF CardSends, Doing, driver, call, time, ReadReturnsBlock
<1>27. CASE CardDies
  BY <1>27 DEF CardDies, driver, call, time, ReadReturnsBlock
<1>28. CASE InitCall
  BY <1>28 DEF InitCall, Begin, NoReply, NoArg, card, time, ReadReturnsBlock
<1>29. ASSUME NEW b \in Block, NEW o \in 0 .. Size - 1, NEW n \in 1 .. Size, ReadCall(b, o, n)
      PROVE  ReadReturnsBlock'
  BY <1>29
  DEF ReadCall, CanCall, Begin, NoReply, NoArg, ReadScript, card, time, ReadReturnsBlock
<1>30. ASSUME NEW b \in Block, writes < MaxWrites, WriteCall(b)
      PROVE  ReadReturnsBlock'
  BY <1>30
  DEF WriteCall, CanCall, OtherCall, Begin, NoReply, NoArg, driver, card, time, ReadReturnsBlock
<1>31. ASSUME NEW b \in Block, writes < MaxWrites, WriteStart(b)
      PROVE  ReadReturnsBlock'
  BY <1>31 DEF WriteStart, CanCall, OtherCall, Begin, NoReply, NoArg, driver, card, time,
    ReadReturnsBlock
<1>32. ASSUME NEW b \in Block \ {0}, NEW l \in Block \ {0}, Erase(b, l)
      PROVE  ReadReturnsBlock'
  BY <1>32
  DEF Erase, CanCall, OtherCall, Begin, NoReply, NoArg, driver, card, time, ReadReturnsBlock
<1>33. ASSUME writes < MaxWrites, WriteMore
      PROVE  ReadReturnsBlock'
  BY <1>33 DEF WriteMore, OtherCall, Begin, NoReply, NoArg, driver, card, time, ReadReturnsBlock
<1>34. CASE CardSize
  BY <1>34
  DEF CardSize, CanCall, OtherCall, Begin, NoReply, NoArg, driver, card, time, ReadReturnsBlock
<1>35. CASE WriteStop
  BY <1>35 DEF WriteStop, OtherCall, Begin, NoReply, NoArg, driver, card, time, ReadReturnsBlock
<1>36. ASSUME NEW v \in BOOLEAN, PartialBlockRead(v)
      PROVE  ReadReturnsBlock'
  BY <1>36 DEF PartialBlockRead, CanCall, readEnd, NoReply, NoArg, call, time, ReadReturnsBlock
<1>37. CASE UNCHANGED vars
  BY <1>37 DEF ReadReturnsBlock, vars, driver, card, call, time, Doing
<1> QED
  BY <1>1, <1>2, <1>3, <1>4, <1>5, <1>6, <1>7, <1>8, <1>9, <1>10, <1>11, <1>12, <1>13, <1>14,
    <1>15, <1>16, <1>17, <1>18, <1>19, <1>20, <1>21, <1>22, <1>23, <1>24, <1>25, <1>26, <1>27,
    <1>28, <1>29, <1>30, <1>31, <1>32, <1>33, <1>34, <1>35, <1>36, <1>37
  DEF Next, Step, Call, Command

LEMMA WritesStep == TypeOK /\ IsRest(op, script) /\ Pending /\ Stores /\ WriteIsStored /\
  [Next]_vars => WriteIsStored'
<1> SUFFICES ASSUME TypeOK, IsRest(op, script), Pending, Stores, WriteIsStored, [Next]_vars
  PROVE WriteIsStored'
  OBVIOUS
<1>1. CASE BeginCommand
  BY <1>1 DEF BeginCommand, None, readEnd, call, WriteIsStored
<1>2. CASE Starts("CMD9", "preparing")
  BY <1>2, AfterCMD9
  DEF Starts, Sending, Doing, None, driver, cardRest, Goes, Return, WriteIsStored
<1>3. CASE Starts("CMD17", "preparing")
  BY <1>3, AfterCMD17
  DEF Starts, Sending, Doing, None, driver, cardRest, Goes, Return, WriteIsStored
<1>4. CASE Starts("CMD24", "receiving")
  BY <1>4, AfterCMD24
  DEF Starts, Sending, Doing, None, driver, cardRest, Goes, Return, WriteIsStored
<1>5. CASE Starts("CMD25", "multiple")
  BY <1>5, AfterCMD25
  DEF Starts, Sending, Doing, None, driver, cardRest, Goes, Return, WriteIsStored
<1>6. ASSUME NEW cmd \in {"CMD32", "CMD33", "CMD55", "ACMD23"}, Passes(cmd)
      PROVE  WriteIsStored'
  BY <1>6, AfterPassing
  DEF Passes, Sending, Doing, None, driver, card, Goes, Return, WriteIsStored
<1>7. CASE GoIdle
  BY <1>7, AfterCMD0
  DEF GoIdle, Sending, Doing, None, driver, cardRest, Goes, Return, WriteIsStored
<1>8. CASE Version
  BY <1>8, AfterCMD8 DEF Version, Sending, Doing, None, card, Goes, Return, WriteIsStored
<1>9. CASE BecomesReady
  BY <1>9, AfterACMD41Ready
  DEF BecomesReady, Sending, Doing, None, driver, cardRest, Goes, Return, WriteIsStored
<1>10. CASE Capacity
  BY <1>10, AfterCMD58 DEF Capacity, Sending, Doing, None, card, Goes, Return, WriteIsStored
<1>11. CASE Status
  <2>1. CASE flawed
    <3>1. reply'.result = "refused"
      BY <1>11, <2>1 DEF Status, Return
    <3> QED
      BY <3>1 DEF WriteIsStored
  <2>2. CASE ~flawed
    <3>1. op = "write" /\ reply'.arg = arg
      BY <1>11, <2>2, AfterCMD13 DEF Status, Sending, Return
    <3>2. disk[arg.block] = writes /\ UNCHANGED <<disk, writes>>
      BY <1>11, <2>2, <3>1 DEF Status, Sending, Stores
    <3> QED
      BY <3>1, <3>2 DEF WriteIsStored
  <2> QED
    BY <2>1, <2>2
<1>12. CASE EraseBlocks
  <2>1. reply' = NoReply \/ reply'.op = "more"
    BY <1>12, AfterCMD38 DEF EraseBlocks, Sending, Doing, Pending, Goes, Return
  <2> QED
    BY <2>1 DEF NoReply, WriteIsStored
<1>13. CASE CommandFails
  <2>1. UNCHANGED <<driver, card, clock, writes, dst>>
    BY <1>13 DEF CommandFails
  <2> QED
    BY <1>13, <2>1, AfterFailure DEF driver, card, Return, Doing, WriteIsStored
<1>14. CASE BeginWait
  BY <1>14 DEF BeginWait, None, driver, card, call, WriteIsStored
<1>15. CASE NotBusy
  BY <1>15, AfterWaiting DEF NotBusy, None, driver, card, Goes, Return, Doing, WriteIsStored
<1>16. CASE StillBusy
  BY <1>16 DEF StillBusy, Return, NoArg, None, driver, card, WriteIsStored
<1>17. CASE BlockBegins
  BY <1>17, AfterToken DEF BlockBegins, Doing, None, card, Goes, Return, WriteIsStored
<1>18. CASE NoBlock
  BY <1>18 DEF NoBlock, Doing, None, Return, NoArg, driver, cardRest, WriteIsStored
<1>19. CASE Data
  <2>1. op = "read" /\ reply'.op = op
    BY <1>19, AfterData DEF Data, Return
  <2> QED
    BY <2>1 DEF WriteIsStored
<1>20. CASE Register
  BY <1>20, AfterRegister
  DEF Register, Doing, Return, NoArg, None, driver, cardRest, Goes, WriteIsStored
<1>21. CASE Send
  <2>1. reply' = NoReply \/ reply'.op = "more"
    BY <1>21, AfterSend DEF Send, Sending, Doing, Pending, Goes, Return
  <2> QED
    BY <2>1 DEF NoReply, WriteIsStored
<1>22. CASE SendFails
  BY <1>22 DEF SendFails, Doing, Return, NoArg, None, driver, cardRest, WriteIsStored
<1>23. CASE StopTransmission
  BY <1>23, AfterStop DEF StopTransmission, Doing, driver, Goes, Return, WriteIsStored
<1>24. CASE Tick
  BY <1>24 DEF Tick, None, driver, card, call, WriteIsStored
<1>25. CASE CardFinishes
  BY <1>25 DEF CardFinishes, driver, call, time, WriteIsStored
<1>26. CASE CardSends
  BY <1>26 DEF CardSends, Doing, driver, call, time, WriteIsStored
<1>27. CASE CardDies
  BY <1>27 DEF CardDies, driver, call, time, WriteIsStored
<1>28. CASE InitCall
  BY <1>28 DEF InitCall, Begin, NoReply, NoArg, card, time, WriteIsStored
<1>29. ASSUME NEW b \in Block, NEW o \in 0 .. Size - 1, NEW n \in 1 .. Size, ReadCall(b, o, n)
      PROVE  WriteIsStored'
  BY <1>29 DEF ReadCall, CanCall, Begin, NoReply, NoArg, ReadScript, card, time, WriteIsStored
<1>30. ASSUME NEW b \in Block, writes < MaxWrites, WriteCall(b)
      PROVE  WriteIsStored'
  BY <1>30
  DEF WriteCall, CanCall, OtherCall, Begin, NoReply, NoArg, driver, card, time, WriteIsStored
<1>31. ASSUME NEW b \in Block, writes < MaxWrites, WriteStart(b)
      PROVE  WriteIsStored'
  BY <1>31
  DEF WriteStart, CanCall, OtherCall, Begin, NoReply, NoArg, driver, card, time, WriteIsStored
<1>32. ASSUME NEW b \in Block \ {0}, NEW l \in Block \ {0}, Erase(b, l)
      PROVE  WriteIsStored'
  BY <1>32
  DEF Erase, CanCall, OtherCall, Begin, NoReply, NoArg, driver, card, time, WriteIsStored
<1>33. ASSUME writes < MaxWrites, WriteMore
      PROVE  WriteIsStored'
  BY <1>33 DEF WriteMore, OtherCall, Begin, NoReply, NoArg, driver, card, time, WriteIsStored
<1>34. CASE CardSize
  BY <1>34
  DEF CardSize, CanCall, OtherCall, Begin, NoReply, NoArg, driver, card, time, WriteIsStored
<1>35. CASE WriteStop
  BY <1>35 DEF WriteStop, OtherCall, Begin, NoReply, NoArg, driver, card, time, WriteIsStored
<1>36. ASSUME NEW v \in BOOLEAN, PartialBlockRead(v)
      PROVE  WriteIsStored'
  BY <1>36 DEF PartialBlockRead, CanCall, readEnd, NoReply, NoArg, call, time, WriteIsStored
<1>37. CASE UNCHANGED vars
  BY <1>37 DEF WriteIsStored, vars, driver, card, call, time, Doing
<1> QED
  BY <1>1, <1>2, <1>3, <1>4, <1>5, <1>6, <1>7, <1>8, <1>9, <1>10, <1>11, <1>12, <1>13, <1>14,
    <1>15, <1>16, <1>17, <1>18, <1>19, <1>20, <1>21, <1>22, <1>23, <1>24, <1>25, <1>26, <1>27,
    <1>28, <1>29, <1>30, <1>31, <1>32, <1>33, <1>34, <1>35, <1>36, <1>37
  DEF Next, Step, Call, Command

-----------------------------------------------------------------------------
(* The theorems. *)

LEMMA InvariantInit == Init => IInv
<1> SUFFICES ASSUME Init PROVE IInv
  OBVIOUS
<1>1. TypeOK /\ IsRest(op, script)
  BY TypesInit
<1>2. Setup /\ Pending /\ Waiting
  BY DEF Init, Setup, Pending, Waiting, Doing
<1>3. Open /\ Sends /\ Stores
  BY DEF Init, Open, Sends, Stores, Doing
<1>4. ReadReturnsBlock /\ WriteIsStored
  BY DEF Init, ReadReturnsBlock, WriteIsStored, NoReply
<1> QED
  BY <1>1, <1>2, <1>3, <1>4 DEF IInv

LEMMA InvariantStep == IInv /\ [Next]_vars => IInv'
<1> SUFFICES ASSUME IInv, [Next]_vars PROVE IInv'
  OBVIOUS
<1>1. /\ Scripted /\ TypeOK /\ IsRest(op, script) /\ Setup /\ Pending /\ Waiting
      /\ Open /\ Sends /\ Stores /\ ReadReturnsBlock /\ WriteIsStored
  BY DEF IInv, Scripted
<1>2. TypeOK'
  BY <1>1, DriverTypes, CallTypes, TimeTypes, CardTypes DEF TypeOK
<1>3. IsRest(op', script')
  BY <1>1, RestStep
<1>4. Setup' /\ Pending' /\ Waiting'
  BY <1>1, SetupStep, PendingStep, WaitingStep
<1>5. Open' /\ Sends' /\ Stores'
  BY <1>1, OpenStep, SendsStep, StoresStep
<1>6. ReadReturnsBlock' /\ WriteIsStored'
  BY <1>1, ReadsStep, WritesStep
<1> QED
  BY <1>2, <1>3, <1>4, <1>5, <1>6 DEF IInv

\* What the driver takes the card to be doing at every step of a call is what the
\* card does: the inductive invariant.
THEOREM Invariant == Spec => []IInv
<1>1. Init => IInv
  BY InvariantInit
<1>2. IInv /\ [Next]_vars => IInv'
  BY InvariantStep
<1> QED
  BY <1>1, <1>2, PTL DEF Spec

\* The variables hold what the code's can hold, for every size of a block and
\* every width of millis(); no wait is given up before its timeout has passed,
\* nor reported later than that (waitNotBusy and waitStartBlock).
THEOREM Types == Spec => []TypeOK
<1>1. IInv => TypeOK
  BY DEF IInv
<1> QED
  BY <1>1, Invariant, PTL

\* The driver and the card agree on the block being read and the position in it,
\* and no card is left sending between calls: no command is sent into the answer
\* to another (readData, readEnd, cardCommand).
THEOREM DriverInStep == Spec => []InStep
<1>1. IInv => InStep
  BY DEF IInv, Open, Sends, InStep, Doing
<1> QED
  BY <1>1, Invariant, PTL

\* A read that succeeds returns the bytes asked for, of the block asked for, as
\* last written, from a block opened for it or left open by another read
\* (readData, readEnd, partialBlockRead).
THEOREM ReadsReturnTheBlock == Spec => []ReadReturnsBlock
<1>1. IInv => ReadReturnsBlock
  BY DEF IInv
<1> QED
  BY <1>1, Invariant, PTL

\* A write that returns true is stored: the card may refuse the command, the
\* data or the programming, and each is told (writeBlock, writeData).
THEOREM WritesAreStored == Spec => []WriteIsStored
<1>1. IInv => WriteIsStored
  BY DEF IInv
<1> QED
  BY <1>1, Invariant, PTL

\* Only accepted data and an erase change blocks.
LEMMA OnlyStoring == [Next]_vars => Send \/ EraseBlocks \/ UNCHANGED disk
<1> SUFFICES ASSUME [Next]_vars PROVE Send \/ EraseBlocks \/ UNCHANGED disk
  OBVIOUS
<1>1. CASE BeginCommand
  BY <1>1 DEF BeginCommand
<1>2. CASE Starts("CMD9", "preparing") \/ Starts("CMD17", "preparing") \/
  Starts("CMD24", "receiving") \/ Starts("CMD25", "multiple")
  BY <1>2 DEF Starts, cardRest
<1>3. ASSUME NEW cmd \in {"CMD32", "CMD33", "CMD55", "ACMD23"}, Passes(cmd)
      PROVE  Send \/ EraseBlocks \/ UNCHANGED disk
  BY <1>3 DEF Passes, card
<1>4. CASE GoIdle \/ Version \/ BecomesReady \/ Capacity \/ Status
  BY <1>4 DEF GoIdle, Version, BecomesReady, Capacity, Status, card, cardRest
<1>5. CASE CommandFails
  BY <1>5 DEF CommandFails, card
<1>6. CASE BeginWait \/ NotBusy \/ StillBusy \/ BlockBegins \/ NoBlock \/ Data
  BY <1>6 DEF BeginWait, NotBusy, StillBusy, BlockBegins, NoBlock, Data, card, cardRest, Rec
<1>7. CASE Register \/ SendFails \/ StopTransmission
  BY <1>7 DEF Register, SendFails, StopTransmission, cardRest
<1>8. CASE Tick \/ CardFinishes \/ CardSends \/ CardDies
  BY <1>8 DEF Tick, CardFinishes, CardSends, CardDies, card
<1>9. CASE Send \/ EraseBlocks
  BY <1>9
<1>10. CASE InitCall
  BY <1>10 DEF InitCall, card
<1>11. ASSUME NEW b \in Block, NEW o \in 0 .. Size - 1, NEW n \in 1 .. Size, ReadCall(b, o, n)
      PROVE  Send \/ EraseBlocks \/ UNCHANGED disk
  BY <1>11 DEF ReadCall, card
<1>12. ASSUME NEW b \in Block, writes < MaxWrites, WriteCall(b)
      PROVE  Send \/ EraseBlocks \/ UNCHANGED disk
  BY <1>12 DEF WriteCall, card, OtherCall
<1>13. ASSUME NEW b \in Block, writes < MaxWrites, WriteStart(b)
      PROVE  Send \/ EraseBlocks \/ UNCHANGED disk
  BY <1>13 DEF WriteStart, card, OtherCall
<1>14. ASSUME NEW b \in Block \ {0}, NEW l \in Block \ {0}, Erase(b, l)
      PROVE  Send \/ EraseBlocks \/ UNCHANGED disk
  BY <1>14 DEF Erase, card, OtherCall
<1>15. ASSUME writes < MaxWrites, WriteMore
      PROVE  Send \/ EraseBlocks \/ UNCHANGED disk
  BY <1>15 DEF WriteMore, card, OtherCall
<1>16. CASE CardSize \/ WriteStop
  BY <1>16 DEF CardSize, WriteStop, card, OtherCall
<1>17. ASSUME NEW v \in BOOLEAN, PartialBlockRead(v)
      PROVE  Send \/ EraseBlocks \/ UNCHANGED disk
  BY <1>17 DEF PartialBlockRead
<1>18. CASE UNCHANGED vars
  BY <1>18 DEF vars, card
<1> QED
  BY <1>1, <1>2, <1>3, <1>4, <1>5, <1>6, <1>7, <1>8, <1>9, <1>10, <1>11, <1>12, <1>13, <1>14,
    <1>15, <1>16, <1>17, <1>18
  DEF Next, Step, Call, Command

\* A single write changes its own block and no other, whatever the kind of the
\* card and however init() found it out (the addresses of writeBlock).
THEOREM WritesTheBlockTold == Spec => WritesGoWhereTold
<1>1. ASSUME IInv, [Next]_vars, NEW b \in Block, op = "write", disk'[b] # disk[b]
      PROVE  b = arg.block
  <2>1. CASE Send
    <3>1. at = arg.block
      BY <1>1, <2>1 DEF IInv, Stores, Send
    <3>2. disk \in [Block -> 0 .. MaxWrites]
      BY <1>1 DEF IInv, TypeOK, CardOK
    <3>3. disk' = disk \/ disk' = [disk EXCEPT ![at] = writes']
      BY <2>1 DEF Send
    <3> QED
      BY <1>1, <3>1, <3>2, <3>3
  <2>2. CASE EraseBlocks
    <3>1. op = "erase"
      BY <1>1, <2>2, AfterCMD38 DEF IInv, EraseBlocks, Sending
    <3> QED
      BY <1>1, <3>1
  <2> QED
    BY <1>1, <2>1, <2>2, OnlyStoring
<1>2. IInv /\ [Next]_vars =>
        [\A b \in Block : op = "write" /\ disk'[b] # disk[b] => b = arg.block]_vars
  BY <1>1
<1> QED
  BY <1>2, Invariant, PTL DEF Spec, WritesGoWhereTold

=============================================================================
