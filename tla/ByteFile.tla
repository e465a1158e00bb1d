------------------------------ MODULE ByteFile ------------------------------
(***************************************************************************)
(* What fs_read() and fs_write() do to files as their callers see them,    *)
(* without blocks, tables and buffers: a file is an array of bytes, and a  *)
(* descriptor has an offset in it.  A call moves bytes, some at a time,    *)
(* between the array at the offset and the buffer of the caller.           *)
(*                                                                         *)
(* The code does not promise this everywhere.  A byte may be in a hole,    *)
(* where nothing can be read and what is written is lost; its block may    *)
(* be bad, where anything may be read and what is written may be lost;     *)
(* and the way to its block may be bad, where a write ends all promises.   *)
(* Nor for ever: every read that meets a hole costs a buffer, and after so *)
(* many of them a call may wait for one that never comes, or worse.        *)
(***************************************************************************)
EXTENDS Integers, Sequences

CONSTANTS
    Fds, Files,
    Size,           \* the size of every file
    Positions,      \* the offsets that are looked at
    Byte,           \* the values of a byte
    Hole,           \* for every file, the positions in holes,
    BadData,        \* those whose block cannot be read reliably,
    BadWay,         \* and those behind a table that cannot
    Data,           \* the bytes that are given to a call that writes
    TooMany         \* so many buffers may be missed

VARIABLES
    content,        \* for every file, the byte at every position
    file,           \* the file of every descriptor
    offset,         \* and its offset
    call,           \* the call in progress, or the result of the last one
    dropped,        \* the reads that have met a hole, up to TooMany
    damaged         \* all promises have ended

vars == <<content, file, offset, call, dropped, damaged>>

Idle(ret) == [op |-> "none", ret |-> ret]

Init ==
    /\ content \in [Files -> [Positions -> Byte]]
    /\ file \in [Fds -> Files]
    /\ offset = [k \in Fds |-> 0]
    /\ call = Idle(0)
    /\ dropped = 0
    /\ damaged = FALSE

(* got: what has been read so far; done: how many bytes have been moved.   *)
Begin(op, k, n) ==
    /\ call.op = "none"
    /\ call' = [op |-> op, fd |-> k, count |-> n, done |-> 0, got |-> << >>]
    /\ UNCHANGED <<content, file, offset, dropped, damaged>>

InProgress == call.op \in {"read", "write"}

File == file[call.fd]
Here == offset[call.fd]
Ahead(m) == Here..(Here + m - 1)
AtEnd == call.op = "read" /\ Here >= Size[File]

Asked(op, m) == call.op = op /\ call.done + m <= call.count

Move(m, got) ==
    /\ call' = [call EXCEPT !.done = @ + m, !.got = @ \o got]
    /\ offset' = [offset EXCEPT ![call.fd] = @ + m]
    /\ UNCHANGED <<file, dropped>>

(* The next m bytes of the file are read.                                  *)
Read(m) ==
    /\ Asked("read", m)
    /\ Here + m <= Size[File]
    /\ Ahead(m) \cap Hole[File] = {}
    /\ Move(m, [i \in 1..m |-> content[File][Here + i - 1]])
    /\ UNCHANGED <<content, damaged>>

(* Beyond a bad block, anything is read in their place.                    *)
ReadAny(m) ==
    /\ Asked("read", m)
    /\ Here + m <= Size[File]
    /\ Ahead(m) \subseteq BadData[File] \cup BadWay[File]
    /\ call'.op = "read" /\ call'.got \in Seq(Byte)
    /\ Move(m, SubSeq(call'.got, call.done + 1, call.done + m))
    /\ UNCHANGED <<content, damaged>>

(* The next m bytes are written, and nothing else.                         *)
Write(m) ==
    /\ Asked("write", m)
    /\ Ahead(m) \cap Hole[File] = {}
    /\ content' = [content EXCEPT ![File] =
                    [p \in Positions |-> IF p \in Ahead(m)
                                         THEN Data[call.done + p - Here + 1]
                                         ELSE @[p]]]
    /\ Move(m, << >>)
    /\ UNCHANGED damaged

WriteLost(m) ==
    /\ Asked("write", m)
    /\ Ahead(m) \subseteq Hole[File] \cup BadData[File]
    /\ Move(m, << >>)
    /\ UNCHANGED <<content, damaged>>

WriteAnywhere(m) ==
    /\ Asked("write", m)
    /\ Ahead(m) \subseteq BadWay[File]
    /\ content' \in [Files -> [Positions -> Byte]]
    /\ Move(m, << >>)
    /\ damaged' = TRUE

(* All bytes have been moved, or the file has no more.                     *)
Return ==
    /\ InProgress
    /\ call.done = call.count \/ AtEnd
    /\ call' = Idle(call.done)
    /\ UNCHANGED <<content, file, offset, dropped, damaged>>

Unfinished == InProgress /\ call.done < call.count /\ ~AtEnd

(* -1 says nothing of the bytes that have been moved already.              *)
Fail ==
    /\ Unfinished
    /\ Here \in BadData[File] \cup BadWay[File]
    /\ call' = Idle(-1)
    /\ UNCHANGED <<content, file, offset, dropped, damaged>>

FailInHole ==
    /\ Unfinished /\ call.op = "read"
    /\ Here \in Hole[File] \cup BadWay[File]
    /\ call' = Idle(-1)
    /\ dropped' = IF dropped = TooMany THEN dropped ELSE dropped + 1
    /\ UNCHANGED <<content, file, offset, damaged>>

Hang ==
    /\ Unfinished
    /\ Here \in BadWay[File] \/ dropped = TooMany
    /\ call' = [op |-> "spin"]
    /\ UNCHANGED <<content, file, offset, dropped, damaged>>

Break ==
    /\ Unfinished
    /\ dropped = TooMany
    /\ call' = [op |-> "spin"] /\ damaged' = TRUE
    /\ UNCHANGED <<content, file, offset, dropped>>

Next ==
    \/ \E op \in {"read", "write"}, k \in Fds, n \in 0..Len(Data) : Begin(op, k, n)
    \/ \E m \in 1..Len(Data) : Read(m) \/ ReadAny(m) \/ Write(m) \/ WriteLost(m) \/ WriteAnywhere(m)
    \/ Return \/ Fail \/ FailInHole \/ Hang \/ Break

Spec == Init /\ [][Next]_vars
=============================================================================
