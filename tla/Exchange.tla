------------------------------ MODULE Exchange ------------------------------
(***************************************************************************)
(* One input on the wire: the sending half of fuzzServer and the replay    *)
(* tool from its options to its exit status, against a server that reads,  *)
(* answers, stalls, closes and resets as it likes.  Framing says which     *)
(* packets there are; here they are numbers, the keep-alive prelude is     *)
(* packet 0, and a byte is a pair of its packet and its place.             *)
(***************************************************************************)
EXTENDS Integers, Sequences

CONSTANTS
    MaxPackets,   \* MAX_PACKET_COUNT
    PacketSize,   \* bytes of a packet
    MaxResponse,  \* MAX_RESPONSE_BYTES, --response-limit
    Chunk,        \* bytes one recv takes at most
    Room          \* bytes the connection holds for either side

ASSUME ExchangeAssumption ==
    {MaxPackets, PacketSize, MaxResponse, Chunk, Room} \subseteq Nat \ {0}

VARIABLES
    tool,      \* "harness" or "replay"
    options,   \* of the replay tool: --raw, --packet, --dry-run, the others valid
    file,      \* the input: "framed", "unframed" or "unreadable"
    multi,     \* MULTIPACKET_FLAG
    prelude,   \* HTTP_PRELUDE_FLAG
    gated,     \* WAIT_FOR_RESPONSE_FLAG
    count,     \* packetCount
    at,        \* "start", "connect", "send", "poll", "drain", "recv", "sleep", "closed"
    packet,    \* the packet being sent or sent last
    sent,      \* its bytes that were sent
    received,  \* bytes of the response that is being read
    result,    \* 0; when the sequence was broken off -1, or an exit status
    unread,    \* bytes sent that the server has not yet read
    inbox,     \* bytes the server has sent and the client not yet read
    ended,     \* the server closed the connection
    broken,    \* or reset it
    wire,      \* history: bytes sent
    answers    \* history: packets after which a response was read

input  == <<tool, options, file, multi, prelude, gated, count>>
client == <<at, packet, sent, received, result>>
server == <<unread, inbox, ended, broken>>
vars   == <<input, client, server, wire, answers>>

None == -1
Options == [raw : BOOLEAN, packet : {None} \union 0..MaxPackets + 1, dry : BOOLEAN, valid : BOOLEAN]
AsIs == [raw |-> FALSE, packet |-> None, dry |-> FALSE, valid |-> TRUE]

\* The packets that are sent: all of a framed input, the one that --packet
\* names, or the file as it is.
First == IF options.packet # None THEN options.packet ELSE 1
Last == IF options.packet # None THEN options.packet ELSE IF options.raw THEN 1 ELSE count
Prelude == prelude /\ ~options.raw
Gated == gated /\ ~options.raw

\* The harness has decoded its input and connected, which are Harness' steps.
Init ==
    /\ prelude \in BOOLEAN /\ gated \in BOOLEAN
    /\ multi \in BOOLEAN /\ count \in (IF multi THEN 1..MaxPackets ELSE {1})
    /\ \/ tool = "harness" /\ at = "send" /\ options = AsIs /\ file = "framed"
       \/ /\ tool = "replay" /\ at = "start" /\ options \in Options
          /\ file \in {"framed", "unframed", "unreadable"}
    /\ packet = IF Prelude THEN 0 ELSE First
    /\ sent = 0 /\ received = 0 /\ result = 0
    /\ unread = 0 /\ inbox = 0 /\ ended = FALSE /\ broken = FALSE
    /\ wire = <<>> /\ answers = {}

-----------------------------------------------------------------------------
(* The server and the network.                                             *)

Read   == /\ ~broken /\ unread > 0
          /\ unread' = 0 /\ UNCHANGED <<inbox, ended, broken>>
Answer == /\ ~ended /\ ~broken /\ wire # <<>> /\ inbox < Room
          /\ inbox' = inbox + 1 /\ UNCHANGED <<unread, ended, broken>>
Close  == ~ended /\ ~broken /\ ended' = TRUE /\ UNCHANGED <<unread, inbox, broken>>
Reset  == ~broken /\ broken' = TRUE /\ UNCHANGED <<unread, inbox, ended>>

Server == (Read \/ Answer \/ Close \/ Reset) /\ at \notin {"start", "connect", "closed"}
          /\ UNCHANGED <<input, client, wire, answers>>

-----------------------------------------------------------------------------
(* The replay tool before it sends.                                        *)

Exit(code) == at' = "closed" /\ result' = code /\ UNCHANGED <<packet, sent, received>>

WrongArguments == ~options.valid \/ (options.raw /\ options.packet # None)
Undecoded == file = "unreadable" \/ (file = "unframed" /\ ~options.raw)
OutOfRange == options.packet # None /\ (~multi \/ options.packet \notin 1..count)

Prepare ==
    /\ at = "start"
    /\ \/ WrongArguments /\ Exit(2)
       \/ ~WrongArguments /\ Undecoded /\ Exit(1)
       \/ ~WrongArguments /\ ~Undecoded /\ OutOfRange /\ Exit(2)
       \/ /\ ~WrongArguments /\ ~Undecoded /\ ~OutOfRange
          /\ IF options.dry THEN Exit(0)
             ELSE at' = "connect" /\ UNCHANGED <<packet, sent, received, result>>
    /\ UNCHANGED <<input, server, wire, answers>>

Connect ==
    /\ at = "connect"
    /\ Exit(1) \/ (at' = "send" /\ UNCHANGED <<packet, sent, received, result>>)
    /\ UNCHANGED <<input, server, wire, answers>>

-----------------------------------------------------------------------------
(* Sending.                                                                *)

Enter(step) ==
    at' = step /\ sent' = 0 /\ received' = 0 /\ UNCHANGED <<packet, result>>

\* An error is an exception in the replay tool, a missing answer is not.
GiveUp == Exit(IF tool = "harness" THEN -1 ELSE 1)
GateFailed == Exit(IF tool = "harness" THEN -1 ELSE 2)

\* Mutant of More: the input's other packets count with --packet.
MoreOfInput == packet < count
More == packet < Last

\* After a packet: the prelude is always answered, others if asked for, the
\* last one only for the replay tool, which reports its response.
Rest == IF packet = 0 \/ (More /\ Gated) THEN "poll"
        ELSE IF More THEN "sleep"
        ELSE IF tool = "replay" THEN "poll" ELSE "closed"

\* Mutant of Outgoing: a short send starts over.
OutgoingFirst(n) == [i \in 1..n |-> <<packet, i>>]
Outgoing(n) == [i \in 1..n |-> <<packet, sent + i>>]

\* sendAll: send may take a part.
SendSome ==
    /\ at = "send" /\ ~broken
    /\ \E n \in 1..PacketSize - sent :
         /\ unread + n <= Room /\ unread' = unread + n
         /\ wire' = wire \o Outgoing(n)
         /\ IF sent + n < PacketSize
              THEN sent' = sent + n /\ UNCHANGED <<at, packet, received, result>>
              ELSE Enter(Rest)
    /\ UNCHANGED <<input, inbox, ended, broken, answers>>

\* Mutant of SendFails: the send timeout is treated like a signal.
SendRetried ==
    /\ at = "send" /\ broken /\ GiveUp
    /\ UNCHANGED <<input, server, wire, answers>>

\* The connection is gone, or nothing was taken for SO_SNDTIMEO.
SendFails ==
    /\ at = "send" /\ (broken \/ unread = Room) /\ GiveUp
    /\ UNCHANGED <<input, server, wire, answers>>

Sleep ==
    /\ at = "sleep"
    /\ at' = "send" /\ packet' = packet + 1 /\ UNCHANGED <<sent, received, result>>
    /\ UNCHANGED <<input, server, wire, answers>>

-----------------------------------------------------------------------------
(* waitForPacketResponse and receive_response: a first byte within one     *)
(* timeout, then what follows without a pause.                             *)

\* The packet after an answer, the end after the last.
Answered ==
    /\ IF More
         THEN at' = "send" /\ packet' = IF packet = 0 THEN First ELSE packet + 1
         ELSE at' = "closed" /\ UNCHANGED packet
    /\ sent' = 0 /\ received' = 0 /\ UNCHANGED result

\* No byte came: the sequence is broken off, except that the replay tool
\* only reports it after the last packet.
Unanswered ==
    /\ IF More THEN GateFailed
         ELSE at' = "closed" /\ UNCHANGED <<packet, sent, received, result>>

\* Mutant of Concluded: silence counts as an answer.
ConcludedAnyhow == Answered
Concluded == IF received > 0 THEN Answered ELSE Unanswered

Readable == inbox > 0 \/ ended \/ broken

\* poll reports a reset to the harness even if there is something to read.
Poll ==
    /\ at \in {"poll", "drain"} /\ Readable /\ ~(tool = "harness" /\ broken)
    /\ at' = "recv" /\ UNCHANGED <<packet, sent, received, result>>
    /\ UNCHANGED <<input, server, wire, answers>>

PollError ==
    /\ at \in {"poll", "drain"} /\ tool = "harness" /\ broken
    /\ Concluded
    /\ UNCHANGED <<input, server, wire, answers>>

PollTimeout ==
    /\ at \in {"poll", "drain"} /\ ~Readable
    /\ Concluded
    /\ UNCHANGED <<input, server, wire, answers>>

Available == MaxResponse - received

RecvFull ==
    /\ at = "recv" /\ Available = 0
    /\ Answered
    /\ UNCHANGED <<input, server, wire, answers>>

RecvSome ==
    /\ at = "recv"
    /\ \E n \in 1..Chunk :
         /\ n <= inbox /\ n <= Available
         /\ inbox' = inbox - n /\ received' = received + n
    /\ answers' = answers \union {packet}
    /\ UNCHANGED <<input, at, packet, sent, result, unread, ended, broken, wire>>

\* EAGAIN: back to poll, with the short timeout if something came.
RecvNothing ==
    /\ at = "recv" /\ Available > 0 /\ inbox = 0 /\ ~ended /\ ~broken
    /\ at' = (IF received > 0 THEN "drain" ELSE "poll")
    /\ UNCHANGED <<packet, sent, received, result>>
    /\ UNCHANGED <<input, server, wire, answers>>

\* End of file, or an error, which is an exception in the replay tool.
RecvEnd ==
    /\ at = "recv" /\ Available > 0 /\ inbox = 0 /\ (ended \/ broken)
    /\ IF broken /\ tool = "replay" THEN GiveUp ELSE Concluded
    /\ UNCHANGED <<input, server, wire, answers>>

Client ==
    \/ Prepare \/ Connect
    \/ SendSome \/ SendFails \/ Sleep
    \/ Poll \/ PollError \/ PollTimeout
    \/ RecvFull \/ RecvSome \/ RecvNothing \/ RecvEnd

Next == Client \/ Server

\* The client is a thread that is scheduled; of the server nothing is assumed.
Spec == Init /\ [][Next]_vars /\ WF_vars(Client)

-----------------------------------------------------------------------------
(* Correctness.                                                            *)

\* Variables keep their types; a response is read up to its limit.
TypeOK ==
    /\ at \in {"start", "connect", "send", "poll", "drain", "recv", "sleep", "closed"}
    /\ at \notin {"start", "closed"} => packet \in 0..count
    /\ sent \in 0..PacketSize - 1
    /\ received \in 0..MaxResponse
    /\ result \in (IF tool = "harness" THEN {0, -1} ELSE {0, 1, 2})
    /\ unread \in 0..Room /\ inbox \in 0..Room /\ ended \in BOOLEAN /\ broken \in BOOLEAN
    /\ answers \subseteq 0..count

\* The selected packets in their order: prelude, then every byte of each.
Script ==
    LET packets == (IF Prelude THEN <<0>> ELSE <<>>) \o [i \in 1..Last + 1 - First |-> First + i - 1]
    IN  [i \in 1..Len(packets) * PacketSize |->
           <<packets[1 + (i - 1) \div PacketSize], 1 + ((i - 1) % PacketSize)>>]

\* Whatever the server does, what it was sent is the beginning of the input,
\* or of the selected packet of it, and all of it if the sequence was not broken
\* off.
WireInOrder ==
    /\ wire # <<>> => Len(wire) <= Len(Script) /\ wire = SubSeq(Script, 1, Len(wire))
    /\ at = "closed" /\ result = 0 => wire = (IF options.dry THEN <<>> ELSE Script)

\* With WAIT_FOR_RESPONSE_FLAG no byte of a packet is sent before a response
\* was read after the packet before it; after the prelude always.
GateHonoured ==
    \A i \in 1..Len(wire) :
        LET this == wire[i][1]
        IN  /\ this = First /\ Prelude => 0 \in answers
            /\ this > First /\ Gated => this - 1 \in answers

\* The exit status of the replay tool says where it stopped: 2 before anything
\* was sent because of its options, or at a gate, all bytes of the packet before
\* it sent and not one of an answer read; 1 because of the file or the
\* connection.
StatusExplained ==
    at = "closed" /\ tool = "replay" =>
        /\ result = 2 =>
             \/ wire = <<>> /\ (WrongArguments \/ OutOfRange)
             \/ /\ wire # <<>> /\ wire[Len(wire)] = <<packet, PacketSize>>
                /\ packet = 0 \/ (Gated /\ packet # Last)
                /\ packet \notin answers
        /\ result = 1 => Undecoded \/ wire = <<>> \/ broken \/ unread = Room

\* The exchange ends whatever the server does: no stall, trickle or silence
\* keeps the controller from the snapshot of its input.
ExchangeEnds == <>(at = "closed")
=============================================================================
