------------------------------- MODULE Framing -------------------------------
(***************************************************************************)
(* The input format, and the three programs that must agree on it: the     *)
(* decoder of the harness (decodeFuzzInput), the decoder of the replay     *)
(* tool (parse_fuzzer_input) and the writer of the seeds (multipacket).    *)
(* The two decoders run in lockstep over one input, which is either any    *)
(* byte string, as libFuzzer makes them, or a seed.                        *)
(***************************************************************************)
EXTENDS Integers, Sequences, SequencesExt

CONSTANTS
    Base,        \* values of a byte: 256
    Flags,       \* flag bytes
    MaxPackets,  \* MAX_PACKET_COUNT
    MaxSize,     \* bound on the bytes of an input after the flags
    MaxSeed      \* bound on the packets of a seed

ASSUME FramingAssumption ==
    /\ Base \in Nat \ {0, 1} /\ MaxPackets \in Nat \ {0}
    /\ MaxSize \in Nat /\ MaxSeed \in Nat
    /\ Flags \subseteq Nat

VARIABLES
    data,   \* the input
    seed,   \* the packets a seed is made of, in the order of writing
    phase,  \* "write" a seed, or "read" data
    c,      \* state of decodeFuzzInput
    py      \* state of parse_fuzzer_input
vars == <<data, seed, phase, c, py>>

Bytes == 0..Base - 1
Strings(n) == UNION {[1..k -> Bytes] : k \in 0..n}
Multipacket(flags) == (flags \div 2) % 2 = 1

\* Offsets count from 0; what lies behind the input is unknown memory.
Byte(o)   == IF o < Len(data) THEN data[o + 1] ELSE 0
LittleEndian(o) == Byte(o) + Base * Byte(o + 1)
Length(o) == Base * Byte(o) + Byte(o + 1)

\* high: one past the last byte the decoder has looked at.
Fresh == [offset |-> 1, packets |-> <<>>, verdict |-> "more", high |-> 0]
View(first, size) == [first |-> first, size |-> size]

Init ==
    /\ c = Fresh /\ py = Fresh /\ seed = <<>>
    /\ \/ phase = "read"  /\ data = <<>>
       \/ phase = "read"  /\ \E f \in Flags, body \in Strings(MaxSize) : data = <<f>> \o body
       \/ phase = "write" /\ \E f \in Flags : Multipacket(f) /\ data = <<f>>

-----------------------------------------------------------------------------
(* multipacket() of generate-interesting-corpus.py: frames without a limit  *)
(* on their number.                                                         *)

Frame(p) == <<Len(p) \div Base, Len(p) % Base>> \o p

AddPacket(p) ==
    /\ phase = "write" /\ Len(seed) < MaxSeed
    /\ p # <<>> /\ Len(p) < Base * Base
    /\ seed' = Append(seed, p) /\ data' = data \o Frame(p)
    /\ UNCHANGED <<phase, c, py>>

WriteSeed ==
    /\ phase = "write" /\ seed # <<>>
    /\ phase' = "read"
    /\ UNCHANGED <<data, seed, c, py>>

-----------------------------------------------------------------------------
(* decodeFuzzInput.                                                         *)

CMore == c.verdict = "more" /\ data # <<>> /\ Multipacket(data[1])

CFirst ==
    /\ c.verdict = "more"
    /\ \/ data = <<>> /\ c' = [c EXCEPT !.verdict = "reject"]
       \/ /\ data # <<>> /\ ~Multipacket(data[1])
          /\ c' = [c EXCEPT !.verdict = "accept", !.high = 1,
                            !.packets = <<View(1, Len(data) - 1)>>]

\* Mutants: the header is not checked, the limit is one too high, the last
\* packet may not reach the end.
HeaderAssumed(o) == FALSE
HeaderCut(o)  == Len(data) - o < 2
FullLate(n)   == n > MaxPackets
Full(n)       == n = MaxPackets
BadLengthAtEnd(o) == Length(o) = 0 \/ Length(o) >= Len(data) - (o + 2)
BadLength(o)  == Length(o) = 0 \/ Length(o) > Len(data) - (o + 2)

CRefuse ==
    /\ CMore /\ c.offset < Len(data)
    /\ \/ /\ HeaderCut(c.offset) \/ Full(Len(c.packets))
          /\ c' = [c EXCEPT !.verdict = "reject"]
       \/ /\ ~HeaderCut(c.offset) /\ ~Full(Len(c.packets)) /\ BadLength(c.offset)
          /\ c' = [c EXCEPT !.verdict = "reject", !.high = c.offset + 2]

CTake ==
    /\ CMore /\ c.offset < Len(data)
    /\ ~HeaderCut(c.offset) /\ ~Full(Len(c.packets)) /\ ~BadLength(c.offset)
    /\ c' = [c EXCEPT !.offset = c.offset + 2 + Length(c.offset),
                      !.packets = Append(@, View(c.offset + 2, Length(c.offset))),
                      !.high = c.offset + 2]

CEnd ==
    /\ CMore /\ c.offset >= Len(data)
    /\ c' = [c EXCEPT !.verdict = IF c.packets = <<>> THEN "reject" ELSE "accept"]

CStep == CFirst \/ CRefuse \/ CTake \/ CEnd \/ (c.verdict # "more" /\ UNCHANGED c)

-----------------------------------------------------------------------------
(* parse_fuzzer_input: the packet is taken and then counted.                *)

PyMore == py.verdict = "more" /\ data # <<>> /\ Multipacket(data[1])

PyFirst ==
    /\ py.verdict = "more"
    /\ \/ data = <<>> /\ py' = [py EXCEPT !.verdict = "reject"]
       \/ /\ data # <<>> /\ ~Multipacket(data[1])
          /\ py' = [py EXCEPT !.verdict = "accept", !.high = 1,
                              !.packets = <<View(1, Len(data) - 1)>>]

PyBadLength(o) == Length(o) = 0 \/ o + 2 + Length(o) > Len(data)

PyRefuse ==
    /\ PyMore /\ py.offset < Len(data)
    /\ \/ /\ Len(data) - py.offset < 2
          /\ py' = [py EXCEPT !.verdict = "reject"]
       \/ /\ Len(data) - py.offset >= 2 /\ PyBadLength(py.offset)
          /\ py' = [py EXCEPT !.verdict = "reject", !.high = py.offset + 2]

PyTake ==
    /\ PyMore /\ py.offset < Len(data)
    /\ Len(data) - py.offset >= 2 /\ ~PyBadLength(py.offset)
    /\ LET packets == Append(py.packets, View(py.offset + 2, Length(py.offset)))
       IN py' = IF Len(packets) > MaxPackets
                  THEN [py EXCEPT !.verdict = "reject", !.high = py.offset + 2,
                                  !.packets = packets]
                  ELSE [py EXCEPT !.offset = py.offset + 2 + Length(py.offset),
                                  !.packets = packets, !.high = py.offset + 2]

PyEnd ==
    /\ PyMore /\ py.offset >= Len(data)
    /\ py' = [py EXCEPT !.verdict = IF py.packets = <<>> THEN "reject" ELSE "accept"]

PyStep == PyFirst \/ PyRefuse \/ PyTake \/ PyEnd \/ (py.verdict # "more" /\ UNCHANGED py)

Decode ==
    /\ phase = "read" /\ (c.verdict = "more" \/ py.verdict = "more")
    /\ CStep /\ PyStep
    /\ UNCHANGED <<data, seed, phase>>

Next == Decode \/ WriteSeed \/ \E p \in Strings(Base * Base - 1) : AddPacket(p)

Spec == Init /\ [][Next]_vars

-----------------------------------------------------------------------------
(* Correctness.                                                             *)

Contents(views) ==
    [i \in DOMAIN views |->
        SubSeq(data, views[i].first + 1, views[i].first + views[i].size)]

\* decodeFuzzInput looks only at bytes of the input, writes only into the
\* packets array of struct fuzzInput, and every view lies in the input.
InBounds ==
    /\ c.high <= Len(data) /\ Len(c.packets) <= MaxPackets
    /\ \A i \in 1..Len(c.packets) :
         c.packets[i].first + c.packets[i].size <= Len(data)

\* The harness and the replay tool take the same inputs for well formed and
\* find the same packets in them: what is replayed is what was fuzzed.
SameVerdict ==
    /\ c.verdict = py.verdict
    /\ c.verdict = "accept" => c.packets = py.packets

\* An accepted input is nothing but its packets: framing them again gives the
\* same bytes, none skipped, none taken twice.
NothingLost ==
    c.verdict = "accept" /\ Multipacket(data[1]) =>
        data = <<data[1]>> \o FlattenSeq([i \in DOMAIN c.packets |->
                                            Frame(Contents(c.packets)[i])])

\* A seed of at most MAX_PACKET_COUNT packets is decoded into the packets it
\* was written from; of the longer ones multipacket() lets pass, none is.
SeedsDecode ==
    seed # <<>> /\ c.verdict # "more" =>
        IF Len(seed) <= MaxPackets
          THEN c.verdict = "accept" /\ Contents(c.packets) = seed
          ELSE c.verdict = "reject"
=============================================================================
