--------------------------- MODULE ExchangeProofs ---------------------------
(***************************************************************************)
(* Theorems about Exchange, for any number and size of packets, any limit  *)
(* of a response and any server.                                           *)
(***************************************************************************)
EXTENDS Exchange, SequenceTheorems, TLAPS

Byte == Int \X Int
Reading == at \in {"poll", "drain", "recv"}
Connected == Reading \/ at \in {"send", "sleep"}

\* What was chosen can be sent.
InputShape ==
    /\ tool \in {"harness", "replay"} /\ count \in Nat \ {0}
    /\ First \in Int /\ Last \in Int
    /\ Connected \/ at = "connect" => 1 <= First /\ First <= Last /\ Last <= count

\* Where the client is in it.
ClientShape ==
    /\ at \in {"start", "connect", "send", "poll", "drain", "recv", "sleep", "closed"}
    /\ sent \in 0..PacketSize - 1 /\ received \in 0..MaxResponse
    /\ result \in (IF tool = "harness" THEN {0, -1} ELSE {0, 1, 2})
    /\ at # "closed" => result = 0
    /\ at \in {"start", "connect"} =>
         tool = "replay" /\ packet = (IF Prelude THEN 0 ELSE First) /\ sent = 0
    /\ Connected => packet \in (IF Prelude THEN {0} ELSE {}) \union First..Last
    /\ Reading /\ packet # 0 /\ More => Gated
    /\ at = "sleep" => packet # 0 /\ More /\ ~Gated

ServerShape == unread \in 0..Room /\ inbox \in 0..Room /\ ended \in BOOLEAN /\ broken \in BOOLEAN

\* A packet is on the wire when its answer is awaited, and its gate is open
\* when it is sent.
Opened(p) ==
    /\ p = First /\ Prelude => 0 \in answers
    /\ p > First /\ Gated => p - 1 \in answers
WireShape ==
    /\ wire \in Seq(Byte)
    /\ answers \subseteq 0..count
    /\ at \in {"start", "connect"} => wire = <<>> /\ answers = {}
    /\ at = "send" => Opened(packet) /\ \A a \in answers : a < packet
    /\ Reading \/ at = "sleep" =>
         /\ wire # <<>> /\ wire[Len(wire)] = <<packet, PacketSize>>
         /\ \A a \in answers : a <= packet
    /\ Reading => (packet \in answers <=> received > 0)

IInv == InputShape /\ ClientShape /\ ServerShape /\ WireShape /\ GateHonoured /\ StatusExplained

-----------------------------------------------------------------------------

\* A packet that is sent was selected, or is the prelude.
LEMMA PacketType ==
    ASSUME InputShape, ClientShape, Connected
    PROVE  /\ packet \in 0..count /\ First \in 1..count /\ Last \in 1..count /\ packet <= Last
           /\ packet = 0 => Prelude /\ More
           /\ packet # 0 => packet >= First
BY DEF InputShape, ClientShape, Connected, Reading, More

\* The shapes bound everything that TypeOK bounds.
LEMMA InvTypeOK ==
    ASSUME IInv
    PROVE  TypeOK
<1>1. at \notin {"start", "closed"} => packet \in 0..count
  <2>1. CASE Connected
    BY <2>1, PacketType DEF IInv
  <2>2. CASE at = "connect"
    BY <2>2 DEF IInv, InputShape, ClientShape
  <2> QED
    BY <2>1, <2>2 DEF IInv, ClientShape, Connected, Reading
<1> QED
  BY <1>1 DEF IInv, ClientShape, ServerShape, WireShape, TypeOK

\* Before anything is sent.
LEMMA InitInv ==
    ASSUME ExchangeAssumption, Init
    PROVE  IInv
<1>1. count \in Nat \ {0} /\ PacketSize \in Nat \ {0} /\ MaxResponse \in Nat /\ Room \in Nat
  BY DEF ExchangeAssumption, Init
<1>2. First \in Int /\ Last \in Int
  BY <1>1 DEF Init, First, Last, Options, AsIs, None, ExchangeAssumption
<1>3. tool = "harness" => First = 1 /\ Last = count /\ at = "send"
  BY DEF Init, First, Last, AsIs, None
<1>4. tool # "harness" => at = "start"
  BY DEF Init
<1>5. InputShape
  BY <1>1, <1>2, <1>3, <1>4 DEF Init, InputShape, Connected, Reading
<1>6. ClientShape
  BY <1>1, <1>2, <1>3, <1>4 DEF Init, ClientShape, Connected, Reading
<1>7. ServerShape
  <2>1. 0 \in 0..Room
    BY <1>1
  <2> QED
    BY <2>1 DEF Init, ServerShape
<1>8. wire = <<>> /\ answers = {} /\ wire \in Seq(Byte) /\ Len(wire) = 0
  BY EmptySeq DEF Init
<1>9. WireShape
  <2>1. at = "send" => Opened(packet)
    BY <1>1, <1>2, <1>3, <1>4 DEF Init, Opened
  <2> QED
    BY <1>4, <1>8, <2>1 DEF Init, WireShape, Reading
<1>10. GateHonoured /\ StatusExplained
  BY <1>3, <1>4, <1>8 DEF Init, GateHonoured, StatusExplained
<1> QED
  BY <1>5, <1>6, <1>7, <1>9, <1>10 DEF IInv

-----------------------------------------------------------------------------
(* What a step leaves alone.                                               *)

\* The choice of what is sent is made once.
LEMMA InputFrame ==
    ASSUME UNCHANGED input
    PROVE  /\ First' = First /\ Last' = Last /\ Prelude' = Prelude /\ Gated' = Gated
           /\ WrongArguments' = WrongArguments /\ Undecoded' = Undecoded
           /\ OutOfRange' = OutOfRange
           /\ tool' = tool /\ count' = count
BY DEF input, First, Last, Prelude, Gated, WrongArguments, Undecoded, OutOfRange

\* The client at rest, and the history.
LEMMA WireFrame ==
    ASSUME IInv, UNCHANGED <<input, wire, answers>>
    PROVE  GateHonoured'
BY InputFrame DEF IInv, GateHonoured

\* The sequence ends, with a status that its end explains.
LEMMA ExitInv ==
    ASSUME IInv, NEW code \in (IF tool = "harness" THEN {0, -1} ELSE {0, 1, 2}),
           Exit(code), UNCHANGED <<input, server, wire, answers>>, StatusExplained'
    PROVE  IInv'
<1>1. InputShape'
  BY InputFrame DEF IInv, InputShape, Exit, Connected, Reading
<1>2. ClientShape'
  BY InputFrame DEF IInv, ClientShape, Exit, Connected, Reading
<1>3. ServerShape'
  BY DEF IInv, ServerShape, server
<1>4. WireShape'
  BY InputFrame DEF IInv, WireShape, Exit, Reading
<1> QED
  BY <1>1, <1>2, <1>3, <1>4, WireFrame DEF IInv

-----------------------------------------------------------------------------
(* The steps.                                                              *)

\* The server reads, answers, closes and resets.
LEMMA ServerInv ==
    ASSUME ExchangeAssumption, IInv, Server
    PROVE  IInv'
<1>1. InputShape' /\ ClientShape'
  BY InputFrame DEF Server, client, IInv, InputShape, ClientShape, Connected, Reading, More
<1>2. ServerShape'
  <2>1. Room \in Nat /\ unread \in 0..Room /\ inbox \in 0..Room
    BY DEF ExchangeAssumption, IInv, ServerShape
  <2>2. CASE Read
    BY <2>1, <2>2 DEF Read, IInv, ServerShape
  <2>3. CASE Answer
    BY <2>1, <2>3 DEF Answer, IInv, ServerShape
  <2>4. CASE Close \/ Reset
    BY <2>4 DEF Close, Reset, IInv, ServerShape
  <2> QED
    BY <2>2, <2>3, <2>4 DEF Server
<1>3. WireShape'
  BY InputFrame DEF Server, client, IInv, WireShape, Reading, Opened
<1>4. GateHonoured'
  BY WireFrame DEF Server
<1>5. StatusExplained'
  BY DEF Server, client, StatusExplained
<1> QED
  BY <1>1, <1>2, <1>3, <1>4, <1>5 DEF IInv

\* The options are looked at, the file is decoded, the packet selected.
LEMMA PrepareInv ==
    ASSUME IInv, Prepare
    PROVE  IInv'
<1>1. at = "start" /\ tool = "replay" /\ wire = <<>> /\ result = 0
  BY DEF Prepare, IInv, ClientShape, WireShape
<1>2. UNCHANGED <<input, server, wire, answers>>
  BY DEF Prepare
<1>3. ASSUME NEW code \in {0, 1, 2}, Exit(code),
             code = 2 => WrongArguments \/ OutOfRange, code = 1 => Undecoded
      PROVE  IInv'
  <2>1. StatusExplained'
    BY <1>1, <1>2, <1>3, InputFrame DEF StatusExplained, Exit
  <2> QED
    BY <1>1, <1>2, <1>3, <2>1, ExitInv
<1>4. CASE /\ ~OutOfRange /\ at' = "connect"
           /\ UNCHANGED <<packet, sent, received, result>>
  <2>1. 1 <= First /\ First <= Last /\ Last <= count
    BY <1>4 DEF IInv, InputShape, OutOfRange, First, Last
  <2>2. InputShape'
    BY <1>2, <2>1, InputFrame DEF IInv, InputShape
  <2>3. ClientShape'
    BY <1>1, <1>2, <1>4, InputFrame DEF IInv, ClientShape, Connected, Reading
  <2>4. ServerShape' /\ WireShape' /\ StatusExplained'
    BY <1>1, <1>2, <1>4, InputFrame
       DEF server, IInv, ServerShape, WireShape, Reading, StatusExplained
  <2> QED
    BY <1>2, <2>2, <2>3, <2>4, WireFrame DEF IInv
<1> QED
  BY <1>3, <1>4 DEF Prepare

\* create_connection.
LEMMA ConnectInv ==
    ASSUME IInv, Connect
    PROVE  IInv'
<1>1. at = "connect" /\ wire = <<>> /\ answers = {} /\ UNCHANGED <<input, server, wire, answers>>
  BY DEF Connect, IInv, WireShape
<1>2. tool = "replay"
  BY <1>1 DEF IInv, ClientShape
<1>3. CASE Exit(1)
  <2>1. StatusExplained'
    BY <1>1, <1>3 DEF StatusExplained, Exit
  <2> QED
    BY <1>1, <1>2, <1>3, <2>1, ExitInv
<1>4. CASE at' = "send" /\ UNCHANGED <<packet, sent, received, result>>
  <2>1. packet = (IF Prelude THEN 0 ELSE First)
    BY <1>1 DEF IInv, ClientShape
  <2>2. First \in Int /\ 1 <= First /\ First <= Last /\ Last <= count /\ Last \in Int
    BY <1>1 DEF IInv, InputShape
  <2>3. InputShape'
    BY <1>1, <2>2, InputFrame DEF IInv, InputShape
  <2>4. ClientShape'
    BY <1>1, <1>4, <2>1, <2>2, InputFrame DEF IInv, ClientShape, Connected, Reading
  <2>5. WireShape'
    <3>1. Opened(packet)'
      BY <1>1, <1>4, <2>1, <2>2, InputFrame DEF Opened
    <3> QED
      BY <1>1, <1>4, <3>1, InputFrame DEF IInv, WireShape, Reading
  <2>6. ServerShape' /\ StatusExplained'
    BY <1>1, <1>4 DEF server, IInv, ServerShape, StatusExplained
  <2> QED
    BY <1>1, <2>3, <2>4, <2>5, <2>6, WireFrame DEF IInv
<1> QED
  BY <1>3, <1>4 DEF Connect

\* A response, or the pause, lets the next packet go.
LEMMA AnsweredInv ==
    ASSUME ExchangeAssumption, IInv, Reading, received > 0, Answered,
           UNCHANGED <<input, server, wire, answers>>
    PROVE  IInv'
<1>1. /\ packet \in 0..count /\ First \in 1..count /\ Last \in 1..count
      /\ packet = 0 => Prelude /\ More
      /\ packet # 0 => packet >= First
  BY PacketType DEF IInv, Connected
<1>2. packet \in answers /\ \A a \in answers : a \in Int /\ a <= packet
  BY DEF IInv, WireShape
<1>3. sent' = 0 /\ received' = 0 /\ result' = 0
  BY DEF Answered, IInv, ClientShape, Reading
<1>4. 0 \in 0..PacketSize - 1 /\ 0 \in 0..MaxResponse
  BY DEF ExchangeAssumption
<1>5. InputShape'
  BY <1>1, InputFrame DEF IInv, InputShape, Connected
<1>6. ServerShape'
  BY DEF IInv, ServerShape, server
<1>7. CASE More
  <2>1. at' = "send" /\ packet' = (IF packet = 0 THEN First ELSE packet + 1)
    BY <1>7 DEF Answered
  <2>2. packet' \in First..Last /\ packet < packet'
    BY <1>1, <1>7, <2>1 DEF More, IInv, InputShape, Connected
  <2>3. ClientShape'
    BY <1>3, <1>4, <2>1, <2>2, InputFrame DEF IInv, ClientShape, Connected, Reading
  <2>4. Opened(packet)'
    BY <1>1, <1>2, <2>1, InputFrame DEF Opened
  <2>5. \A a \in answers' : a < packet'
    BY <1>1, <1>2, <2>2
  <2>6. WireShape'
    BY <2>1, <2>4, <2>5, InputFrame DEF IInv, WireShape, Reading
  <2>7. StatusExplained'
    BY <2>1 DEF StatusExplained
  <2> QED
    BY <1>5, <1>6, <2>3, <2>6, <2>7, WireFrame DEF IInv
<1>8. CASE ~More
  <2>1. at' = "closed" /\ packet' = packet
    BY <1>8 DEF Answered
  <2>2. ClientShape' /\ WireShape' /\ StatusExplained'
    BY <1>3, <1>4, <2>1, InputFrame
       DEF IInv, ClientShape, WireShape, StatusExplained, Connected, Reading
  <2> QED
    BY <1>5, <1>6, <2>2, WireFrame DEF IInv
<1> QED
  BY <1>7, <1>8

\* No byte came: the end, at a gate or after the last packet.
LEMMA UnansweredInv ==
    ASSUME IInv, Reading, received = 0, Unanswered,
           UNCHANGED <<input, server, wire, answers>>
    PROVE  IInv'
<1>1. CASE More
  <2>1. GateFailed
    BY <1>1 DEF Unanswered
  <2>2. /\ wire # <<>> /\ wire[Len(wire)] = <<packet, PacketSize>> /\ packet \notin answers
        /\ packet = 0 \/ Gated
    BY <1>1 DEF IInv, WireShape, ClientShape
  <2>3. packet # Last
    BY <1>1, PacketType DEF More, IInv, Connected
  <2>4. StatusExplained'
    BY <2>1, <2>2, <2>3, InputFrame DEF StatusExplained, GateFailed, Exit, IInv, InputShape
  <2>5. tool \in {"harness", "replay"}
    BY DEF IInv, InputShape
  <2> QED
    BY <2>1, <2>4, <2>5, ExitInv DEF GateFailed
<1>2. CASE ~More
  <2>1. result = 0 /\ result \in (IF tool = "harness" THEN {0, -1} ELSE {0, 1, 2})
    BY DEF IInv, ClientShape, Reading
  <2>2. Exit(0)
    BY <1>2, <2>1 DEF Unanswered, Exit
  <2>3. StatusExplained'
    BY <2>2 DEF StatusExplained, Exit
  <2> QED
    BY <2>2, <2>3, ExitInv
<1> QED
  BY <1>1, <1>2

\* What poll and recv find out when nothing more comes.
LEMMA ConcludedInv ==
    ASSUME ExchangeAssumption, IInv, Reading, Concluded,
           UNCHANGED <<input, server, wire, answers>>
    PROVE  IInv'
<1>1. received \in Nat
  BY DEF IInv, ClientShape, ExchangeAssumption
<1>2. CASE received > 0
  BY <1>2, AnsweredInv DEF Concluded
<1>3. CASE received = 0
  BY <1>1, <1>3, UnansweredInv DEF Concluded
<1> QED
  BY <1>1, <1>2, <1>3

\* poll finds something, and recv nothing after all: the client only waits on.
LEMMA WaitInv ==
    ASSUME IInv, Reading, at' \in {"poll", "drain", "recv"},
           UNCHANGED <<packet, sent, received, result>>,
           UNCHANGED <<input, server, wire, answers>>
    PROVE  IInv'
<1>1. InputShape' /\ ServerShape'
  BY InputFrame DEF server, IInv, InputShape, ServerShape, Connected, Reading
<1>2. ClientShape'
  BY InputFrame DEF IInv, ClientShape, Connected, Reading, More
<1>3. WireShape' /\ StatusExplained'
  BY InputFrame DEF IInv, WireShape, Reading, StatusExplained
<1> QED
  BY <1>1, <1>2, <1>3, WireFrame DEF IInv

\* recv takes a part of the response, up to the limit.
LEMMA RecvSomeInv ==
    ASSUME ExchangeAssumption, IInv, RecvSome
    PROVE  IInv'
<1>1. /\ at = "recv" /\ answers' = answers \union {packet}
      /\ UNCHANGED <<input, at, packet, sent, result, unread, ended, broken, wire>>
  BY DEF RecvSome
<1>2. PICK n \in 1..Chunk : /\ n <= inbox /\ n <= Available
                            /\ inbox' = inbox - n /\ received' = received + n
  BY DEF RecvSome
<1>3. /\ Chunk \in Nat /\ MaxResponse \in Nat /\ Room \in Nat
      /\ received \in 0..MaxResponse /\ inbox \in 0..Room
  BY DEF ExchangeAssumption, IInv, ClientShape, ServerShape
<1>4. received' \in 0..MaxResponse /\ received' > 0 /\ inbox' \in 0..Room
  BY <1>2, <1>3 DEF Available
<1>5. packet \in 0..count
  BY <1>1, PacketType DEF IInv, Connected, Reading
<1>6. InputShape' /\ ServerShape'
  BY <1>1, <1>4, InputFrame DEF IInv, InputShape, ServerShape, Connected, Reading
<1>7. ClientShape'
  BY <1>1, <1>4, InputFrame DEF IInv, ClientShape, Connected, Reading, More
<1>8. WireShape'
  <2>1. /\ wire \in Seq(Byte) /\ wire # <<>> /\ wire[Len(wire)] = <<packet, PacketSize>>
        /\ answers \subseteq 0..count /\ \A a \in answers : a <= packet
    BY <1>1 DEF IInv, WireShape, Reading
  <2>2. answers' \subseteq 0..count' /\ \A a \in answers' : a <= packet'
    <3>1. count' = count /\ packet' = packet
      BY <1>1, InputFrame
    <3> QED
      BY <1>1, <1>5, <2>1, <3>1
  <2>3. packet' \in answers' /\ received' > 0
    BY <1>1, <1>4
  <2> QED
    BY <1>1, <2>1, <2>2, <2>3 DEF WireShape, Reading
<1>9. GateHonoured'
  BY <1>1, InputFrame DEF IInv, GateHonoured
<1>10. StatusExplained'
  BY <1>1 DEF StatusExplained
<1> QED
  BY <1>6, <1>7, <1>8, <1>9, <1>10 DEF IInv

\* recv fills the limit, finds the end of the response or an error.
LEMMA RecvInv ==
    ASSUME ExchangeAssumption, IInv, RecvFull \/ RecvNothing \/ RecvEnd
    PROVE  IInv'
<1>1. Reading /\ UNCHANGED <<input, server, wire, answers>>
  BY DEF RecvFull, RecvNothing, RecvEnd, Reading
<1>2. CASE RecvFull
  <2>1. received > 0
    BY <1>2 DEF RecvFull, Available, IInv, ClientShape, ExchangeAssumption
  <2> QED
    BY <1>1, <1>2, <2>1, AnsweredInv DEF RecvFull
<1>3. CASE RecvNothing
  BY <1>1, <1>3, WaitInv DEF RecvNothing
<1>4. CASE RecvEnd /\ broken /\ tool = "replay"
  <2>1. Exit(1)
    BY <1>4 DEF RecvEnd, GiveUp
  <2>2. StatusExplained'
    BY <1>1, <1>4, <2>1 DEF StatusExplained, Exit, server
  <2> QED
    BY <1>1, <1>4, <2>1, <2>2, ExitInv
<1>5. CASE RecvEnd /\ ~(broken /\ tool = "replay")
  BY <1>1, <1>5, ConcludedInv DEF RecvEnd
<1> QED
  BY <1>2, <1>3, <1>4, <1>5

\* The three outcomes of poll.
LEMMA PollInv ==
    ASSUME ExchangeAssumption, IInv, Poll \/ PollError \/ PollTimeout
    PROVE  IInv'
<1>1. Reading /\ UNCHANGED <<input, server, wire, answers>>
  BY DEF Poll, PollError, PollTimeout, Reading
<1>2. CASE Poll
  BY <1>1, <1>2, WaitInv DEF Poll
<1>3. CASE PollError \/ PollTimeout
  BY <1>1, <1>3, ConcludedInv DEF PollError, PollTimeout
<1> QED
  BY <1>2, <1>3

\* Without gates the packets follow each other after a pause.
LEMMA SleepInv ==
    ASSUME IInv, Sleep
    PROVE  IInv'
<1>1. /\ at = "sleep" /\ at' = "send" /\ packet' = packet + 1
      /\ UNCHANGED <<sent, received, result>> /\ UNCHANGED <<input, server, wire, answers>>
  BY DEF Sleep
<1>2. /\ packet \in First..Last /\ packet < Last /\ First \in 1..count /\ Last \in 1..count
      /\ ~Gated
  BY <1>1, PacketType DEF IInv, ClientShape, InputShape, Connected, More
<1>3. InputShape' /\ ServerShape' /\ StatusExplained'
  BY <1>1, InputFrame
     DEF server, IInv, InputShape, ServerShape, StatusExplained, Connected
<1>4. ClientShape'
  BY <1>1, <1>2, InputFrame DEF IInv, ClientShape, Connected, Reading
<1>5. WireShape'
  <2>1. Opened(packet)'
    BY <1>1, <1>2, InputFrame DEF Opened
  <2>2. \A a \in answers' : a < packet'
    BY <1>1, <1>2 DEF IInv, WireShape, InputShape
  <2> QED
    BY <1>1, <2>1, <2>2, InputFrame DEF IInv, WireShape, Reading
<1> QED
  BY <1>1, <1>3, <1>4, <1>5, WireFrame DEF IInv

\* The send fails, for whatever reason.
LEMMA SendFailsInv ==
    ASSUME IInv, SendFails
    PROVE  IInv'
<1>1. /\ broken \/ unread = Room
      /\ Exit(IF tool = "harness" THEN -1 ELSE 1)
      /\ UNCHANGED <<input, server, wire, answers>>
  BY DEF SendFails, GiveUp
<1>2. (broken \/ unread = Room)' /\ result' = (IF tool = "harness" THEN -1 ELSE 1)
      /\ tool' = tool
  BY <1>1, InputFrame DEF server, Exit
<1>3. StatusExplained'
  BY <1>2 DEF StatusExplained
<1> QED
  BY <1>1, <1>3, ExitInv

\* What a send puts on the wire.
LEMMA SentBytes ==
    ASSUME ExchangeAssumption, IInv, at = "send",
           NEW n \in 1..PacketSize - sent, wire' = wire \o Outgoing(n)
    PROVE  /\ wire' \in Seq(Byte) /\ wire' # <<>>
           /\ wire'[Len(wire')] = <<packet, sent + n>>
           /\ \A i \in 1..Len(wire') :
                IF i <= Len(wire) THEN wire'[i] = wire[i] ELSE wire'[i][1] = packet
<1>1. n \in Nat /\ n >= 1 /\ sent \in Int /\ packet \in Int /\ wire \in Seq(Byte)
  BY PacketType DEF ExchangeAssumption, IInv, ClientShape, WireShape, Connected
<1>2. /\ Outgoing(n) \in Seq(Byte) /\ Len(Outgoing(n)) = n
      /\ \A i \in 1..n : Outgoing(n)[i] = <<packet, sent + i>>
  BY <1>1 DEF Outgoing, Byte
<1>3. /\ wire' \in Seq(Byte) /\ Len(wire') = Len(wire) + n
      /\ \A i \in 1..Len(wire) + n :
           wire'[i] = IF i <= Len(wire) THEN wire[i] ELSE Outgoing(n)[i - Len(wire)]
  BY <1>1, <1>2, ConcatProperties
<1>4. Len(wire) \in Nat
  BY <1>1
<1>5. wire'[Len(wire')] = <<packet, sent + n>>
  <2>1. Len(wire') \in 1..Len(wire) + n /\ ~(Len(wire') <= Len(wire)) /\ Len(wire') - Len(wire) = n
    BY <1>1, <1>3, <1>4
  <2>2. wire'[Len(wire')] = Outgoing(n)[n]
    BY <1>3, <2>1
  <2> QED
    BY <1>1, <1>2, <2>2
<1>6. ASSUME NEW i \in 1..Len(wire')
      PROVE  IF i <= Len(wire) THEN wire'[i] = wire[i] ELSE wire'[i][1] = packet
  <2>1. CASE i <= Len(wire)
    BY <1>3, <2>1
  <2>2. CASE ~(i <= Len(wire))
    <3>1. i - Len(wire) \in 1..n
      BY <1>1, <1>3, <1>4, <2>2
    <3>2. wire'[i] = <<packet, sent + (i - Len(wire))>>
      BY <1>2, <1>3, <2>2, <3>1
    <3> QED
      BY <2>2, <3>2
  <2> QED
    BY <2>1, <2>2
<1>7. wire' # <<>>
  BY <1>1, <1>3, <1>4
<1> QED
  BY <1>3, <1>5, <1>6, <1>7

\* A packet or a part of it is sent.
LEMMA SendSomeInv ==
    ASSUME ExchangeAssumption, IInv, SendSome
    PROVE  IInv'
<1>1. /\ at = "send" /\ UNCHANGED <<input, inbox, ended, broken, answers>>
  BY DEF SendSome
<1>2. PICK n \in 1..PacketSize - sent :
        /\ unread + n <= Room /\ unread' = unread + n /\ wire' = wire \o Outgoing(n)
        /\ IF sent + n < PacketSize
             THEN sent' = sent + n /\ UNCHANGED <<at, packet, received, result>>
             ELSE Enter(Rest)
  BY DEF SendSome
<1>3. /\ sent \in 0..PacketSize - 1 /\ PacketSize \in Nat \ {0} /\ Room \in Nat
      /\ unread \in 0..Room /\ result = 0 /\ MaxResponse \in Nat
  BY <1>1 DEF ExchangeAssumption, IInv, ClientShape, ServerShape
<1>4. packet \in Int /\ (packet = 0 => Prelude /\ More)
  BY <1>1, PacketType DEF IInv, Connected
<1>5. Opened(packet) /\ \A a \in answers : a \in Int /\ a < packet
  BY <1>1 DEF IInv, WireShape
<1>6. packet \notin answers /\ \A a \in answers : a <= packet
  BY <1>4, <1>5
<1>7. ServerShape'
  BY <1>1, <1>2, <1>3 DEF IInv, ServerShape
<1>8. GateHonoured'
  <2>1. ASSUME NEW i \in 1..Len(wire'), NEW p, p = wire'[i][1] PROVE Opened(p)'
    <3>1. CASE i <= Len(wire)
      <4>1. i \in 1..Len(wire) /\ wire'[i] = wire[i]
        BY <1>1, <1>2, <3>1, SentBytes
      <4>2. Opened(p)
        BY <2>1, <4>1 DEF IInv, GateHonoured, Opened
      <4> QED
        BY <1>1, <4>2, InputFrame DEF Opened
    <3>2. CASE ~(i <= Len(wire))
      <4>1. p = packet
        BY <1>1, <1>2, <2>1, <3>2, SentBytes
      <4> QED
        BY <1>1, <1>5, <4>1, InputFrame DEF Opened
    <3> QED
      BY <3>1, <3>2
  <2> QED
    BY <2>1 DEF GateHonoured, Opened
<1>9. CASE sent + n < PacketSize
  <2>1. sent' = sent + n /\ UNCHANGED <<at, packet, received, result>>
    BY <1>2, <1>9
  <2>2. InputShape' /\ ClientShape' /\ StatusExplained'
    BY <1>1, <1>3, <1>9, <2>1, InputFrame
       DEF IInv, InputShape, ClientShape, StatusExplained, Connected, Reading
  <2>3. WireShape'
    <3>1. wire' \in Seq(Byte)
      BY <1>1, <1>2, <2>1, SentBytes
    <3>2. Opened(packet)'
      BY <1>1, <1>5, <2>1, InputFrame DEF Opened
    <3> QED
      BY <1>1, <1>5, <2>1, <3>1, <3>2, InputFrame DEF IInv, WireShape, Reading
  <2> QED
    BY <1>7, <1>8, <2>2, <2>3 DEF IInv
<1>10. CASE ~(sent + n < PacketSize)
  <2>1. at' = Rest /\ sent' = 0 /\ received' = 0 /\ UNCHANGED <<packet, result>>
    BY <1>2, <1>10 DEF Enter
  <2>2. at' \in {"poll", "sleep", "closed"}
    BY <2>1 DEF Rest
  <2>3. /\ at' = "poll" /\ packet # 0 /\ More => Gated
        /\ at' = "sleep" => packet # 0 /\ More /\ ~Gated
    BY <1>4, <2>1 DEF Rest
  <2>4. InputShape'
    BY <1>1, <2>2, InputFrame DEF IInv, InputShape, Connected, Reading
  <2>5. ClientShape'
    <3>1. More' = More /\ Prelude' = Prelude /\ Gated' = Gated /\ First' = First /\ Last' = Last
      BY <1>1, <2>1, InputFrame DEF More
    <3> QED
      BY <1>1, <1>3, <2>1, <2>2, <2>3, <3>1, InputFrame
         DEF IInv, ClientShape, Connected, Reading
  <2>6. sent + n = PacketSize
    BY <1>3, <1>10
  <2>7. WireShape'
    <3>1. wire' \in Seq(Byte) /\ wire' # <<>> /\ wire'[Len(wire')] = <<packet, PacketSize>>
      BY <1>1, <1>2, <2>6, SentBytes
    <3> QED
      BY <1>1, <1>6, <2>1, <2>2, <3>1, InputFrame DEF IInv, WireShape, Reading
  <2>8. StatusExplained'
    BY <1>3, <2>1 DEF StatusExplained
  <2> QED
    BY <1>7, <1>8, <2>4, <2>5, <2>7, <2>8 DEF IInv
<1> QED
  BY <1>9, <1>10

-----------------------------------------------------------------------------
(* The order of the bytes.                                                 *)

\* How many packets of the script go before packet p, and how many there are.
Before(p) == IF p = 0 THEN 0 ELSE (IF Prelude THEN 1 ELSE 0) + p - First
Total == Before(Last + 1)

Selected == 1 <= First /\ First <= Last /\ Last <= count

\* The wire holds the script up to where the client is in it.
Placed ==
    /\ at = "connect" \/ Connected \/ wire # <<>> => Selected /\ ~options.dry
    /\ Connected => Len(wire) = Before(packet) * PacketSize + (IF at = "send" THEN sent ELSE PacketSize)
    /\ \A i \in 1..Len(wire) : i <= Len(Script) /\ wire[i] = Script[i]
    /\ at = "sleep" => sent = 0
    /\ at = "closed" /\ result = 0 => wire = (IF options.dry THEN <<>> ELSE Script)

\* Division undoes multiplication.
LEMMA DivMod ==
    ASSUME NEW m \in Nat \ {0}, NEW k \in Nat, NEW j \in 0..m - 1
    PROVE  (k * m + j) \div m = k /\ (k * m + j) % m = j
<1>1. PICK n \in Int : n = k * m + j
  OBVIOUS
<1>2. /\ n = m * (n \div m) + (n % m) /\ n % m \in 0..m - 1 /\ n \div m \in Int
  BY <1>1, SMTT(30)
<1>3. ~(n \div m >= k + 1)
  <2>1. ASSUME n \div m >= k + 1 PROVE m * (n \div m) >= m * (k + 1)
    BY <1>2, <2>1, SMTT(30)
  <2> QED
    BY <1>1, <1>2, <2>1, SMTT(30)
<1>4. ~(n \div m <= k - 1)
  <2>1. ASSUME n \div m <= k - 1 PROVE m * (n \div m) <= m * (k - 1)
    BY <1>2, <2>1, SMTT(30)
  <2> QED
    BY <1>1, <1>2, <2>1, SMTT(30)
<1>5. n \div m = k
  BY <1>2, <1>3, <1>4
<1> QED
  BY <1>1, <1>2, <1>5, SMTT(30)

\* A packet of the script ends before the script does.
LEMMA Block ==
    ASSUME NEW m \in Nat \ {0}, NEW total \in Nat, NEW k \in 0..total - 1
    PROVE  k * m \in Nat /\ k * m + m <= total * m
<1>1. k * m <= (total - 1) * m /\ k * m >= 0
  BY SMTT(30)
<1>2. (total - 1) * m = total * m - m
  OBVIOUS
<1> QED
  BY <1>1, <1>2

\* What is at which place of the script.
LEMMA ScriptPlaces ==
    ASSUME ExchangeAssumption, Selected, First \in Int, Last \in Int
    PROVE  /\ Total \in Nat \ {0} /\ Len(Script) = Total * PacketSize
           /\ Script \in Seq(Byte)
           /\ \A p \in (IF Prelude THEN {0} ELSE {}) \union First..Last :
                /\ Before(p) \in 0..Total - 1
                /\ \A j \in 1..PacketSize : Script[Before(p) * PacketSize + j] = <<p, j>>
<1> DEFINE lead == IF Prelude THEN <<0>> ELSE <<>>
           body == [i \in 1..Last + 1 - First |-> First + i - 1]
           packets == lead \o body
<1>1. PacketSize \in Nat \ {0} /\ Total \in Nat \ {0}
  BY DEF ExchangeAssumption, Selected, Total, Before
<1>2. /\ lead \in Seq(Int) /\ body \in Seq(Int)
      /\ Len(lead) = (IF Prelude THEN 1 ELSE 0) /\ Len(body) = Last + 1 - First
      /\ Prelude => lead[1] = 0
      /\ \A k \in 1..Last + 1 - First : body[k] = First + k - 1
  BY DEF Selected
<1>4. Script = [i \in 1..Len(packets) * PacketSize |->
                  <<packets[1 + (i - 1) \div PacketSize], 1 + ((i - 1) % PacketSize)>>]
  BY DEF Script
<1> HIDE DEF lead, body
<1>3. /\ packets \in Seq(Int) /\ Len(packets) = Total
      /\ \A i \in 1..Total : packets[i] = IF i <= Len(lead) THEN lead[i] ELSE body[i - Len(lead)]
  <2>1. Len(lead) + Len(body) = Total
    BY <1>2 DEF Total, Before, Selected
  <2> QED
    BY <1>2, <2>1, ConcatProperties
<1> HIDE DEF packets
<1> DEFINE len == Total * PacketSize
<1>5. len \in Nat /\ Len(packets) * PacketSize = len
  BY <1>1, <1>3
<1> DEFINE byte(i) == <<packets[1 + (i - 1) \div PacketSize], 1 + ((i - 1) % PacketSize)>>
<1>6. Script = [i \in 1..len |-> byte(i)]
  BY <1>4, <1>5
<1>7. ASSUME NEW i \in 1..len
      PROVE  byte(i) \in Byte
  <2>1. (i - 1) \div PacketSize \in 0..Total - 1 /\ (i - 1) % PacketSize \in Int
    <3>1. /\ i - 1 = PacketSize * ((i - 1) \div PacketSize) + ((i - 1) % PacketSize)
          /\ (i - 1) % PacketSize \in 0..PacketSize - 1 /\ (i - 1) \div PacketSize \in Int
      BY <1>1, <1>5
    <3>2. (i - 1) \div PacketSize >= 0
      BY <1>1, <1>5
    <3>3. ~((i - 1) \div PacketSize >= Total)
      <4>1. ASSUME (i - 1) \div PacketSize >= Total
            PROVE  PacketSize * ((i - 1) \div PacketSize) >= PacketSize * Total
        BY <1>1, <3>1, <4>1, SMTT(30)
      <4> QED
        BY <1>1, <1>5, <3>1, <4>1, SMTT(30)
    <3> QED
      BY <1>1, <3>1, <3>2, <3>3
  <2>2. packets[1 + (i - 1) \div PacketSize] \in Int
    BY <1>1, <1>3, <2>1
  <2> QED
    BY <2>1, <2>2 DEF Byte
<1>8. Script \in Seq(Byte) /\ Len(Script) = len
  <2> HIDE DEF byte, len
  <2>1. Script \in [1..len -> Byte]
    BY <1>6, <1>7
  <2> QED
    BY <1>5, <2>1, SeqDef
<1>9. ASSUME NEW p \in (IF Prelude THEN {0} ELSE {}) \union First..Last
      PROVE  Before(p) \in 0..Total - 1 /\ packets[1 + Before(p)] = p
  <2>1. Before(p) \in 0..Total - 1
    BY <1>9 DEF Before, Total, Selected
  <2>2. CASE p = 0
    BY <1>1, <1>2, <1>3, <1>9, <2>2 DEF Before, Selected
  <2>3. CASE p # 0
    <3>1. p \in First..Last
      BY <1>9, <2>3
    <3>2. PICK q : q = 1 + Before(p)
      OBVIOUS
    <3>3. q \in 1..Total /\ ~(q <= Len(lead)) /\ q - Len(lead) = p - First + 1
      BY <1>1, <1>2, <2>1, <2>3, <3>1, <3>2 DEF Before, Selected
    <3>4. packets[q] = body[q - Len(lead)]
      BY <1>3, <3>3
    <3>5. body[p - First + 1] = p
      BY <1>2, <3>1
    <3>6. packets[q] = p
      BY <3>3, <3>4, <3>5
    <3> QED
      BY <2>1, <3>2, <3>6
  <2> QED
    BY <2>1, <2>2, <2>3
<1>10. ASSUME NEW p \in (IF Prelude THEN {0} ELSE {}) \union First..Last,
             NEW j \in 1..PacketSize
      PROVE  Script[Before(p) * PacketSize + j] = <<p, j>>
  <2> DEFINE i == Before(p) * PacketSize + j
  <2>1. Before(p) \in 0..Total - 1 /\ packets[1 + Before(p)] = p
    BY <1>9
  <2>2. i - 1 = Before(p) * PacketSize + (j - 1) /\ j - 1 \in 0..PacketSize - 1
    BY <1>1, <2>1
  <2>3. (i - 1) \div PacketSize = Before(p) /\ (i - 1) % PacketSize = j - 1
    <3>1. Before(p) \in Nat
      BY <1>1, <2>1
    <3> HIDE DEF i
    <3> QED
      BY <1>1, <2>2, <3>1, DivMod
  <2>4. i \in 1..len
    <3>1. Before(p) * PacketSize <= (Total - 1) * PacketSize /\ Before(p) * PacketSize >= 0
      BY <1>1, <2>1, SMTT(30)
    <3>2. (Total - 1) * PacketSize = len - PacketSize
      BY <1>1
    <3> QED
      BY <1>1, <1>5, <2>1, <3>1, <3>2
  <2> HIDE DEF i
  <2>5. Script[i] = byte(i)
    <3> HIDE DEF byte, len
    <3> QED
      BY <1>6, <2>4
  <2>6. Script[i] = <<p, j>>
    BY <2>1, <2>3, <2>5
  <2> QED
    BY <2>6 DEF i
<1> QED
  BY <1>1, <1>8, <1>9, <1>10

\* The script is made of the input alone.
LEMMA ScriptFrame ==
    ASSUME UNCHANGED input
    PROVE  /\ Script' = Script /\ Selected' = Selected /\ options' = options
           /\ \A p \in Int : Before(p)' = Before(p)
<1>1. First' = First /\ Last' = Last /\ Prelude' = Prelude /\ count' = count /\ options' = options
  BY InputFrame DEF input
<1>2. Script' = Script /\ Selected' = Selected
  BY <1>1 DEF Script, Selected
<1>3. \A p \in Int : Before(p)' = Before(p)
  BY <1>1 DEF Before
<1> QED
  BY <1>1, <1>2, <1>3

\* Nothing is sent, and the client is where the wire says.
LEMMA StillPlaced ==
    ASSUME IInv, Placed, UNCHANGED <<input, wire>>,
           at' = "connect" \/ Connected' => Selected /\ ~options.dry,
           Connected' => /\ packet' \in Int
                         /\ Len(wire) = Before(packet') * PacketSize
                                          + (IF at' = "send" THEN sent' ELSE PacketSize),
           at' = "sleep" => sent' = 0,
           at' = "closed" /\ result' = 0 => wire = (IF options.dry THEN <<>> ELSE Script)
    PROVE  Placed'
<1>1. /\ Script' = Script /\ Selected' = Selected /\ options' = options /\ wire' = wire
      /\ Connected' => Before(packet)' = Before(packet')
  <2>1. Before(packet)' = Before(packet')
    BY InputFrame DEF Before
  <2> QED
    BY <2>1, ScriptFrame
<1>2. at' = "connect" \/ Connected' \/ wire' # <<>> => Selected' /\ ~options'.dry
  BY <1>1 DEF Placed
<1>3. Connected' => Len(wire') = Before(packet)' * PacketSize
                                   + (IF at' = "send" THEN sent' ELSE PacketSize)
  BY <1>1
<1>4. \A i \in 1..Len(wire') : i <= Len(Script') /\ wire'[i] = Script'[i]
  BY <1>1 DEF Placed
<1> QED
  BY <1>1, <1>2, <1>3, <1>4 DEF Placed

\* After the last packet the whole script is on the wire.
LEMMA AllPlaced ==
    ASSUME ExchangeAssumption, IInv, Placed, Connected, packet = Last, Len(wire) = Total * PacketSize
    PROVE  wire = Script
<1>1. Selected /\ First \in Int /\ Last \in Int /\ wire \in Seq(Byte)
  BY DEF Placed, IInv, InputShape, WireShape
<1>2. Script \in Seq(Byte) /\ Len(wire) = Len(Script)
  BY <1>1, ScriptPlaces
<1> QED
  BY <1>1, <1>2, SeqEqual DEF Placed

\* One packet further.
LEMMA NextPlaced ==
    ASSUME ExchangeAssumption, IInv, Connected, More,
           NEW p, p = IF packet = 0 THEN First ELSE packet + 1
    PROVE  p \in Int /\ Before(p) * PacketSize + 0 = Before(packet) * PacketSize + PacketSize
<1>1. /\ packet \in Int /\ First \in 1..count /\ (packet = 0 => Prelude)
      /\ packet # 0 => packet >= First
      /\ PacketSize \in Nat \ {0} /\ count \in Nat
  BY PacketType DEF IInv, InputShape, ExchangeAssumption
<1>2. p \in Int /\ p # 0
  BY <1>1
<1>3. Before(p) = Before(packet) + 1 /\ Before(packet) \in Int
  BY <1>1, <1>2 DEF Before
<1>4. (Before(packet) + 1) * PacketSize = Before(packet) * PacketSize + PacketSize
  BY <1>1, <1>3
<1>5. Before(p) * PacketSize + 0 = (Before(packet) + 1) * PacketSize
  BY <1>1, <1>3
<1> QED
  BY <1>2, <1>4, <1>5

\* The end of the last packet.
LEMMA LastPlaced ==
    ASSUME ExchangeAssumption, IInv, Connected, ~More
    PROVE  packet = Last /\ Before(packet) * PacketSize + PacketSize = Total * PacketSize
<1>1. /\ packet \in Int /\ First \in 1..count /\ Last \in 1..count /\ packet <= Last
      /\ packet # 0 /\ PacketSize \in Nat \ {0} /\ count \in Nat
  BY PacketType DEF IInv, InputShape, ExchangeAssumption
<1>2. packet = Last
  BY <1>1 DEF More
<1>3. Total = Before(packet) + 1 /\ Before(packet) \in Int
  BY <1>1, <1>2 DEF Total, Before
<1>4. (Before(packet) + 1) * PacketSize = Before(packet) * PacketSize + PacketSize
  BY <1>1, <1>3
<1>5. Total * PacketSize = (Before(packet) + 1) * PacketSize
  BY <1>3
<1> QED
  BY <1>2, <1>4, <1>5

\* A broken sequence, whatever is on the wire.
LEMMA BrokenPlaced ==
    ASSUME IInv, Placed, NEW code, Exit(code), code # 0, UNCHANGED <<input, server, wire, answers>>
    PROVE  Placed'
BY StillPlaced DEF Exit, Connected, Reading

\* On to the next packet, or to the end.
LEMMA AnsweredPlaced ==
    ASSUME ExchangeAssumption, IInv, Placed, Reading, Answered,
           UNCHANGED <<input, server, wire, answers>>
    PROVE  Placed'
<1>1. /\ Connected /\ at # "send" /\ Selected /\ ~options.dry
      /\ Len(wire) = Before(packet) * PacketSize + PacketSize
  BY DEF Placed, Connected, Reading
<1>2. CASE More
  <2>1. at' = "send" /\ sent' = 0 /\ packet' = IF packet = 0 THEN First ELSE packet + 1
    BY <1>2 DEF Answered
  <2>2. packet' \in Int /\ Len(wire) = Before(packet') * PacketSize + 0
    BY <1>1, <1>2, <2>1, NextPlaced
  <2> QED
    BY <1>1, <2>1, <2>2, StillPlaced
<1>3. CASE ~More
  <2>1. at' = "closed"
    BY <1>3 DEF Answered
  <2>2. wire = Script
    BY <1>1, <1>3, LastPlaced, AllPlaced
  <2> QED
    BY <1>1, <2>1, <2>2, StillPlaced DEF Connected, Reading
<1> QED
  BY <1>2, <1>3

\* The end of a response, or of the wait for one.
LEMMA ConcludedPlaced ==
    ASSUME ExchangeAssumption, IInv, Placed, Reading, Concluded,
           UNCHANGED <<input, server, wire, answers>>
    PROVE  Placed'
<1>1. CASE Answered
  BY <1>1, AnsweredPlaced
<1>2. CASE Unanswered /\ More
  <2>1. Exit(IF tool = "harness" THEN -1 ELSE 2)
    BY <1>2 DEF Unanswered, GateFailed
  <2> QED
    BY <2>1, BrokenPlaced
<1>3. CASE Unanswered /\ ~More
  <2>1. /\ Connected /\ ~options.dry /\ at' = "closed"
        /\ Len(wire) = Before(packet) * PacketSize + PacketSize
    BY <1>3 DEF Unanswered, Placed, Connected, Reading
  <2>2. wire = Script
    BY <1>3, <2>1, LastPlaced, AllPlaced
  <2> QED
    BY <2>1, <2>2, StillPlaced DEF Connected, Reading
<1> QED
  BY <1>1, <1>2, <1>3 DEF Concluded

\* The client only waits, and the server only reads, answers or goes.
LEMMA WaitPlaced ==
    ASSUME IInv, Placed, UNCHANGED <<input, packet, sent, result, wire>>,
           at' = at \/ (Reading /\ at' \in {"poll", "drain", "recv"})
    PROVE  Placed'
<1>1. /\ Connected' <=> Connected
      /\ at' = "connect" <=> at = "connect"
      /\ at' = "send" <=> at = "send"
      /\ at' = "closed" <=> at = "closed"
  BY DEF Connected, Reading
<1>2. Connected => packet \in Int
  BY PacketType DEF IInv
<1> QED
  BY <1>1, <1>2, StillPlaced DEF Placed

\* What was selected can be sent, and nothing has been.
LEMMA StartPlaced ==
    ASSUME ExchangeAssumption, IInv, Placed, Prepare \/ Connect
    PROVE  Placed'
<1>1. /\ UNCHANGED <<input, server, wire, answers>> /\ wire = <<>> /\ Len(wire) = 0
      /\ packet = (IF Prelude THEN 0 ELSE First) /\ sent = 0
      /\ First \in Int /\ Last \in Int /\ count \in Nat /\ result = 0
  BY EmptySeq DEF Prepare, Connect, IInv, WireShape, ClientShape, InputShape
<1>2. CASE Prepare /\ at' = "closed"
  <2>1. result' = 0 => options.dry
    BY <1>1, <1>2 DEF Prepare, Exit
  <2> QED
    BY <1>1, <1>2, <2>1, StillPlaced DEF Connected, Reading
<1>3. CASE Prepare /\ at' = "connect"
  <2>1. ~options.dry /\ ~OutOfRange
    BY <1>3 DEF Prepare, Exit
  <2>2. Selected
    BY <1>1, <1>3, <2>1 DEF IInv, InputShape, ClientShape, OutOfRange, First, Last, Selected
  <2> QED
    BY <1>1, <1>3, <2>1, <2>2, StillPlaced DEF Connected, Reading
<1>4. CASE Connect /\ at' = "closed"
  BY <1>1, <1>4, StillPlaced DEF Connect, Exit, Connected, Reading
<1>5. CASE Connect /\ at' = "send"
  <2>1. at = "connect" /\ UNCHANGED <<packet, sent, result>> /\ Selected /\ ~options.dry
    BY <1>5 DEF Connect, Exit, Placed
  <2>2. Before(packet) = 0 /\ packet \in Int /\ 0 * PacketSize + 0 = 0
    BY <1>1, <2>1 DEF Before, Selected, ExchangeAssumption
  <2> QED
    BY <1>1, <1>5, <2>1, <2>2, StillPlaced
<1> QED
  BY <1>2, <1>3, <1>4, <1>5 DEF Prepare, Connect, Exit

\* The pause between packets without gates.
LEMMA SleepPlaced ==
    ASSUME ExchangeAssumption, IInv, Placed, Sleep
    PROVE  Placed'
<1>1. /\ at = "sleep" /\ at' = "send" /\ packet' = packet + 1 /\ sent' = 0
      /\ packet # 0 /\ More /\ UNCHANGED <<input, wire>>
  BY DEF Sleep, IInv, ClientShape, server, Placed
<1>2. /\ Connected /\ Selected /\ ~options.dry
      /\ Len(wire) = Before(packet) * PacketSize + PacketSize
  BY <1>1 DEF Placed, Connected
<1>3. packet' \in Int /\ Len(wire) = Before(packet') * PacketSize + 0
  BY <1>1, <1>2, NextPlaced
<1> QED
  BY <1>1, <1>2, <1>3, StillPlaced

\* A send appends the next bytes of its packet, which are the next of the script.
LEMMA SendSomePlaced ==
    ASSUME ExchangeAssumption, IInv, Placed, SendSome
    PROVE  Placed'
<1>1. at = "send" /\ Connected /\ UNCHANGED input
  BY DEF SendSome, Connected
<1>2. PICK n \in 1..PacketSize - sent :
        /\ wire' = wire \o Outgoing(n)
        /\ IF sent + n < PacketSize
             THEN sent' = sent + n /\ UNCHANGED <<at, packet, received, result>>
             ELSE Enter(Rest)
  BY DEF SendSome
<1>3. /\ sent \in 0..PacketSize - 1 /\ PacketSize \in Nat \ {0} /\ n \in Nat \ {0}
      /\ sent + n <= PacketSize /\ wire \in Seq(Byte) /\ Len(wire) \in Nat
      /\ packet \in (IF Prelude THEN {0} ELSE {}) \union First..Last
      /\ First \in Int /\ Last \in Int /\ result = 0
  BY <1>1, <1>2 DEF ExchangeAssumption, IInv, ClientShape, WireShape, InputShape
<1>4. Selected /\ ~options.dry /\ Len(wire) = Before(packet) * PacketSize + sent
  BY <1>1 DEF Placed
<1> DEFINE start == Before(packet) * PacketSize
<1>5. /\ Before(packet) \in 0..Total - 1 /\ Total \in Nat \ {0}
      /\ Len(Script) = Total * PacketSize /\ Script \in Seq(Byte)
      /\ \A j \in 1..PacketSize : Script[start + j] = <<packet, j>>
  BY <1>3, <1>4, ScriptPlaces
<1>6. start \in Nat /\ start + PacketSize <= Len(Script)
  BY <1>3, <1>5, Block
<1> HIDE DEF start
<1>7. Len(wire) = start + sent
  BY <1>4 DEF start
<1>8. /\ Len(wire') = start + sent + n
      /\ \A i \in 1..Len(wire') :
           wire'[i] = IF i <= Len(wire) THEN wire[i] ELSE <<packet, i - start>>
  <2>1. /\ Outgoing(n) \in Seq(Byte) /\ Len(Outgoing(n)) = n
        /\ \A i \in 1..n : Outgoing(n)[i] = <<packet, sent + i>>
    <3>1. packet \in Int
      BY <1>3
    <3> QED
      BY <1>3, <3>1 DEF Outgoing, Byte
  <2>2. /\ Len(wire') = Len(wire) + n
        /\ \A i \in 1..Len(wire) + n :
             wire'[i] = IF i <= Len(wire) THEN wire[i] ELSE Outgoing(n)[i - Len(wire)]
    BY <1>2, <1>3, <2>1, ConcatProperties
  <2>3. ASSUME NEW i \in 1..Len(wire'), ~(i <= Len(wire))
        PROVE  wire'[i] = <<packet, i - start>>
    <3>1. i - Len(wire) \in 1..n /\ sent + (i - Len(wire)) = i - start
      BY <1>3, <1>6, <1>7, <2>2, <2>3
    <3>2. wire'[i] = Outgoing(n)[i - Len(wire)]
      BY <2>2, <2>3
    <3> QED
      BY <2>1, <3>1, <3>2
  <2> QED
    BY <1>3, <1>6, <1>7, <2>2, <2>3
<1>9. ASSUME NEW i \in 1..Len(wire')
      PROVE  i <= Len(Script) /\ wire'[i] = Script[i]
  <2>1. i <= Len(Script)
    BY <1>3, <1>5, <1>6, <1>8
  <2>2. CASE i <= Len(wire)
    BY <1>3, <1>8, <2>1, <2>2 DEF Placed
  <2>3. CASE ~(i <= Len(wire))
    <3>1. i \in Int /\ i > start + sent /\ i <= start + sent + n
      BY <1>3, <1>6, <1>7, <1>8, <2>3
    <3>2. i - start \in 1..PacketSize /\ start + (i - start) = i
      BY <1>3, <1>6, <3>1
    <3> QED
      BY <1>5, <1>8, <2>1, <2>3, <3>2
  <2> QED
    BY <2>1, <2>2, <2>3
<1>10. Script' = Script /\ Selected' = Selected /\ options' = options
  BY <1>1, ScriptFrame
<1>11. packet' = packet
  BY <1>2 DEF Enter
<1>12. Before(packet)' * PacketSize = start
  BY <1>1, <1>3, <1>11, InputFrame DEF Before, start
<1>13. CASE sent + n < PacketSize
  <2>1. at' = "send" /\ sent' = sent + n
    BY <1>1, <1>2, <1>13
  <2> QED
    BY <1>3, <1>4, <1>6, <1>8, <1>9, <1>10, <1>12, <2>1 DEF Placed
<1>14. CASE ~(sent + n < PacketSize)
  <2>1. at' = Rest /\ sent' = 0 /\ sent + n = PacketSize /\ Len(wire') = start + PacketSize
    <3>1. sent + n = PacketSize
      BY <1>3, <1>14
    <3>2. Len(wire') = start + PacketSize
      BY <1>3, <1>6, <1>8, <3>1
    <3> QED
      BY <1>2, <1>14, <3>1, <3>2 DEF Enter
  <2>2. CASE at' = "closed"
    <3>1. ~More
      BY <2>1, <2>2 DEF Rest
    <3>2. start + PacketSize = Total * PacketSize
      BY <1>1, <3>1, LastPlaced DEF start
    <3>3. wire' \in Seq(Byte)
      BY <1>1, <1>2, SentBytes
    <3>4. wire' = Script
      BY <1>5, <1>9, <2>1, <3>2, <3>3, SeqEqual
    <3> QED
      BY <1>4, <1>9, <1>10, <2>2, <3>4 DEF Placed, Connected, Reading
  <2>3. CASE at' \in {"poll", "sleep"}
    BY <1>4, <1>9, <1>10, <1>12, <2>1, <2>3 DEF Placed
  <2> QED
    BY <2>1, <2>2, <2>3 DEF Rest
<1> QED
  BY <1>13, <1>14

\* Before anything is sent the wire is empty.
LEMMA PlacedInit ==
    ASSUME ExchangeAssumption, Init
    PROVE  Placed
<1>1. IInv
  BY InitInv
<1>2. Len(wire) = 0 /\ wire = <<>> /\ sent = 0
  BY EmptySeq DEF Init
<1>3. CASE tool = "harness"
  <2>1. /\ options = AsIs /\ First = 1 /\ Last = count /\ at = "send"
        /\ packet = IF Prelude THEN 0 ELSE First
    BY <1>3 DEF Init, First, Last, AsIs, None
  <2>2. Selected /\ ~options.dry
    BY <1>1, <2>1 DEF IInv, InputShape, Selected, AsIs
  <2>3. Before(packet) = 0 /\ 0 * PacketSize + 0 = 0
    BY <2>1 DEF Before, ExchangeAssumption
  <2> QED
    BY <1>2, <2>1, <2>2, <2>3 DEF Placed
<1>4. CASE tool # "harness"
  <2>1. at = "start"
    BY <1>4 DEF Init
  <2> QED
    BY <1>2, <2>1 DEF Placed, Connected, Reading
<1> QED
  BY <1>3, <1>4

\* Every step keeps the wire in order.
LEMMA PlacedStep ==
    ASSUME ExchangeAssumption, IInv, Placed, [Next]_vars
    PROVE  Placed'
<1>1. CASE Server \/ UNCHANGED vars
  BY <1>1, WaitPlaced DEF Server, vars, client
<1>2. CASE SendFails
  <2>1. Exit(IF tool = "harness" THEN -1 ELSE 1) /\ UNCHANGED <<input, server, wire, answers>>
    BY <1>2 DEF SendFails, GiveUp
  <2> QED
    BY <2>1, BrokenPlaced
<1>3. CASE Poll \/ RecvNothing \/ RecvSome
  <2>1. at' \in {"poll", "drain", "recv"} /\ Reading /\ UNCHANGED <<input, packet, sent, result, wire>>
    BY <1>3 DEF Poll, RecvNothing, RecvSome, Reading
  <2> QED
    BY <2>1, WaitPlaced
<1>4. CASE PollError \/ PollTimeout \/ RecvFull
  BY <1>4, ConcludedPlaced, AnsweredPlaced DEF PollError, PollTimeout, RecvFull, Reading
<1>5. CASE RecvEnd
  <2>1. Reading /\ UNCHANGED <<input, server, wire, answers>>
    BY <1>5 DEF RecvEnd, Reading
  <2>2. CASE broken /\ tool = "replay"
    <3>1. Exit(1)
      BY <1>5, <2>2 DEF RecvEnd, GiveUp
    <3> QED
      BY <2>1, <3>1, BrokenPlaced
  <2>3. CASE ~(broken /\ tool = "replay")
    BY <1>5, <2>1, <2>3, ConcludedPlaced DEF RecvEnd
  <2> QED
    BY <2>2, <2>3
<1> QED
  BY <1>1, <1>2, <1>3, <1>4, <1>5, StartPlaced, SleepPlaced, SendSomePlaced DEF Next, Client

\* The wire is a beginning of the script, and all of it at an end that was not
\* broken off.
LEMMA PlacedInOrder ==
    ASSUME ExchangeAssumption, IInv, Placed
    PROVE  WireInOrder
<1>1. ASSUME wire # <<>>
      PROVE  Len(wire) <= Len(Script) /\ wire = SubSeq(Script, 1, Len(wire))
  <2>1. wire \in Seq(Byte) /\ First \in Int /\ Last \in Int /\ Selected
    BY <1>1 DEF IInv, WireShape, InputShape, Placed
  <2>2. Script \in Seq(Byte) /\ Len(wire) \in Nat /\ Len(Script) \in Nat
    BY <2>1, ScriptPlaces
  <2>3. Len(wire) # 0 /\ Len(wire) \in 1..Len(wire)
    BY <1>1, <2>1, <2>2
  <2>4. Len(wire) <= Len(Script) /\ \A i \in 1..Len(wire) : wire[i] = Script[i]
    BY <2>3 DEF Placed
  <2>5. \A i \in 1..Len(wire) : Script[i] \in Byte
    BY <2>2, <2>4, ElementOfSeq
  <2>6. /\ SubSeq(Script, 1, Len(wire)) \in Seq(Byte)
        /\ Len(SubSeq(Script, 1, Len(wire))) = Len(wire)
        /\ \A i \in 1..Len(wire) : SubSeq(Script, 1, Len(wire))[i] = Script[i]
    BY <2>2, <2>3, <2>5, SubSeqProperties
  <2> QED
    BY <2>1, <2>4, <2>6, SeqEqual
<1>2. at = "closed" /\ result = 0 => wire = (IF options.dry THEN <<>> ELSE Script)
  BY DEF Placed
<1> QED
  BY <1>1, <1>2 DEF WireInOrder

-----------------------------------------------------------------------------
(* The theorems.                                                           *)

\* Every step keeps the invariant.
LEMMA StepInv ==
    ASSUME ExchangeAssumption, IInv, [Next]_vars
    PROVE  IInv'
<1>1. CASE Next
  BY <1>1, PrepareInv, ConnectInv, SendSomeInv, SendFailsInv, SleepInv, PollInv,
     RecvSomeInv, RecvInv, ServerInv DEF Next, Client
<1>2. CASE UNCHANGED vars
  <2>1. InputShape' /\ ClientShape' /\ ServerShape'
    BY <1>2, InputFrame
       DEF vars, client, server, IInv, InputShape, ClientShape, ServerShape, Connected,
           Reading, More
  <2>2. WireShape'
    <3>1. UNCHANGED <<at, packet, received, wire, answers>> /\ UNCHANGED input
      BY <1>2 DEF vars, client
    <3>2. count' = count /\ (Opened(packet) => Opened(packet)')
      BY <3>1, InputFrame DEF Opened
    <3> QED
      BY <3>1, <3>2 DEF IInv, WireShape, Reading
  <2>3. StatusExplained'
    BY <1>2, InputFrame DEF vars, client, server, IInv, StatusExplained
  <2> QED
    BY <1>2, <2>1, <2>2, <2>3, WireFrame DEF vars, IInv
<1> QED
  BY <1>1, <1>2

\* The inductive invariant: at every step the exchange knows which packet it is
\* at, whether that packet's gate is open and what of it is on the wire.
THEOREM ExchangeInvariant == Spec => []IInv
<1>1. Init => IInv
  BY ExchangeAssumption, InitInv
<1>2. IInv /\ [Next]_vars => IInv'
  BY ExchangeAssumption, StepInv
<1> QED
  BY <1>1, <1>2, PTL DEF Spec

\* Sizes and positions stay in bounds: packet within the input, a response
\* within MAX_RESPONSE_BYTES, the exit status one that is documented.
THEOREM ExchangeTypes == Spec => []TypeOK
BY InvTypeOK, ExchangeInvariant, PTL

\* No packet of a gated sequence leaves before an answer to the one before
\* (waitForPacketResponse, send_sequence).
THEOREM ExchangeGates == Spec => []GateHonoured
<1>1. IInv => GateHonoured
  BY DEF IInv
<1> QED
  BY <1>1, ExchangeInvariant, PTL

\* The exit status of the replay tool tells why it stopped (main).
THEOREM ExchangeStatus == Spec => []StatusExplained
<1>1. IInv => StatusExplained
  BY DEF IInv
<1> QED
  BY <1>1, ExchangeInvariant, PTL

\* What the server gets is a beginning of the selected packets, byte for byte, and
\* all of them if the exchange was not broken off (sendAll, fuzzServer,
\* send_sequence).
THEOREM ExchangeInOrder == Spec => []WireInOrder
<1>1. Init => IInv /\ Placed
  BY ExchangeAssumption, InitInv, PlacedInit
<1>2. IInv /\ Placed /\ [Next]_vars => (IInv /\ Placed)'
  BY ExchangeAssumption, StepInv, PlacedStep
<1>3. IInv /\ Placed => WireInOrder
  BY ExchangeAssumption, PlacedInOrder
<1> QED
  BY <1>1, <1>2, <1>3, PTL DEF Spec
=============================================================================
