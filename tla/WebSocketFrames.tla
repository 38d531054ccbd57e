--------------------------- MODULE WebSocketFrames ---------------------------
(***************************************************************************)
(* WSConn: the reader puts the frames of a client together to messages,    *)
(* answering pings on the way; it and the goroutines that send frames      *)
(* share the connection's write lock.  A payload is the number of the      *)
(* frame it came in and the place in the message where it ends.            *)
(***************************************************************************)
EXTENDS Integers, Sequences, SequencesExt

CONSTANTS
  Writers,       \* goroutines that send, one of them the reader
  Reader,
  MaxMessage,    \* largest message
  MaxControl,    \* largest payload of a control frame (125)
  Sizes,         \* sizes of payloads
  MaxFrames,     \* bound: frames the client sends
  MaxSent        \* bound: frames each goroutine but the reader sends

ASSUME FramesAssumption ==
  /\ Reader \in Writers /\ "free" \notin Writers
  /\ {MaxMessage, MaxFrames, MaxSent} \subseteq Nat /\ Sizes \subseteq Nat

Control == {"close", "ping", "pong", "reserved"}
Opcodes == Control \cup {"text", "binary", "continuation", "unknown"}
Frames  == [fin : BOOLEAN, opcode : Opcodes, size : Sizes, wellFormed : BOOLEAN]

VARIABLES
  arrived,     \* history: the frames read so far
  opcode,      \* messageOpcode of the message being read, or "none"
  message,     \* its parts: frame numbers and the length of the message with them
  size,        \* len(message)
  delivered,   \* history: the messages returned, as sequences of such parts
  reading,     \* "frame", "pong", "closing" or "ended"
  writer,      \* per goroutine: "idle", "header" or "payload"
  lock,        \* holder of writeMu, or "free"
  wire,        \* what has been written: <<goroutine, part>>
  sent         \* per goroutine but the reader: frames begun

frameVars == <<arrived, opcode, message, size, delivered, reading, writer, lock, wire, sent>>
readVars  == <<arrived, opcode, message, size, delivered>>

FramesTypeOK ==
  /\ Len(arrived) <= MaxFrames /\ opcode \in {"none", "text", "binary"}
  /\ size \in 0..MaxMessage
  /\ reading \in {"frame", "pong", "closing", "ended"}
  /\ lock \in Writers \cup {"free"}
  /\ \A w \in Writers : writer[w] \in {"idle", "header", "payload"} /\ sent[w] \in 0..MaxSent

FramesInit ==
  /\ arrived = <<>> /\ opcode = "none" /\ message = <<>> /\ size = 0 /\ delivered = <<>>
  /\ reading = "frame"
  /\ writer = [w \in Writers |-> "idle"] /\ lock = "free" /\ wire = <<>>
  /\ sent = [w \in Writers |-> 0]

-----------------------------------------------------------------------------
(* ReadMessage.                                                            *)

\* readFrame refuses extensions, unmasked frames, control frames in parts or
\* too long, and payloads beyond the largest message.
Acceptable(f) ==
  /\ f.wellFormed
  /\ f.opcode \in Control => f.fin /\ f.size <= MaxControl
  /\ f.size <= MaxMessage

StartsAnew(f)   == f.opcode \in {"text", "binary"} /\ opcode = "none"
ContinuesOne(f) == f.opcode = "continuation" /\ opcode # "none"

\* The reader takes one frame; every error ends the connection's loop.
ReadFrame(f) ==
  LET n     == Len(arrived) + 1
      parts == Append(message, [frame |-> n, end |-> size + f.size])
      kind  == IF StartsAnew(f) THEN f.opcode ELSE opcode
      data  == Acceptable(f) /\ (StartsAnew(f) \/ ContinuesOne(f)) /\ size + f.size <= MaxMessage
  IN  /\ reading = "frame" /\ n <= MaxFrames
      /\ arrived' = Append(arrived, f)
      /\ \/ /\ Acceptable(f) /\ f.opcode \in {"ping", "pong", "close"}
            /\ reading' = CASE f.opcode = "ping" -> "pong"
                            [] f.opcode = "close" -> "closing"
                            [] f.opcode = "pong" -> "frame"
            /\ UNCHANGED <<opcode, message, size, delivered>>
         \/ /\ data /\ ~f.fin
            /\ opcode' = kind /\ message' = parts /\ size' = size + f.size
            /\ UNCHANGED <<delivered, reading>>
         \/ /\ data /\ f.fin /\ kind = "text"
            /\ delivered' = Append(delivered, parts)
            /\ opcode' = "none" /\ message' = <<>> /\ size' = 0
            /\ UNCHANGED reading
         \/ /\ ~(Acceptable(f) /\ f.opcode \in {"ping", "pong", "close"})
            /\ ~data \/ (f.fin /\ kind # "text")
            /\ reading' = "ended"
            /\ UNCHANGED <<opcode, message, size, delivered>>
      /\ UNCHANGED <<writer, lock, wire, sent>>

-----------------------------------------------------------------------------
(* writeFrame: a header and a payload under the lock.                      *)

WriteLockMissing(w) ==
  /\ writer[w] = "idle" /\ sent[w] < MaxSent
  /\ w = Reader => reading \in {"pong", "closing"}
  /\ lock' = w /\ writer' = [writer EXCEPT ![w] = "header"]
  /\ sent' = IF w = Reader THEN sent ELSE [sent EXCEPT ![w] = @ + 1]
  /\ UNCHANGED <<readVars, reading, wire>>

\* The reader writes the pong of a ping and the answer to a close; the other
\* goroutines write whenever they have something to send.
WriteLock(w) ==
  /\ writer[w] = "idle" /\ lock = "free" /\ sent[w] < MaxSent
  /\ w = Reader => reading \in {"pong", "closing"}
  /\ lock' = w /\ writer' = [writer EXCEPT ![w] = "header"]
  /\ sent' = IF w = Reader THEN sent ELSE [sent EXCEPT ![w] = @ + 1]
  /\ UNCHANGED <<readVars, reading, wire>>

\* Where the reader goes on after its frame: a pong that fails ends it.
Resume(w, ok) ==
  reading' = IF w # Reader THEN reading
             ELSE IF reading = "pong" /\ ok THEN "frame" ELSE "ended"

WriteHeader(w, empty) ==
  /\ writer[w] = "header"
  /\ wire' = Append(wire, <<w, IF empty THEN "whole" ELSE "header">>)
  /\ IF empty
     THEN /\ lock' = "free" /\ writer' = [writer EXCEPT ![w] = "idle"] /\ Resume(w, TRUE)
     ELSE /\ writer' = [writer EXCEPT ![w] = "payload"] /\ UNCHANGED <<lock, reading>>
  /\ UNCHANGED <<readVars, sent>>

WritePayload(w) ==
  /\ writer[w] = "payload"
  /\ wire' = Append(wire, <<w, "payload">>)
  /\ lock' = "free" /\ writer' = [writer EXCEPT ![w] = "idle"]
  /\ Resume(w, TRUE)
  /\ UNCHANGED <<readVars, sent>>

\* A write times out or the peer has gone: the error is returned and the
\* lock released, and nothing keeps others from writing after it.
WriteFails(w) ==
  /\ writer[w] \in {"header", "payload"}
  /\ wire' = Append(wire, <<w, "broken">>)
  /\ lock' = "free" /\ writer' = [writer EXCEPT ![w] = "idle"]
  /\ Resume(w, FALSE)
  /\ UNCHANGED <<readVars, sent>>

FramesNext ==
  \/ \E f \in Frames : ReadFrame(f)
  \/ \E w \in Writers :
       \/ WriteLock(w)
       \/ \E empty \in BOOLEAN : WriteHeader(w, empty)
       \/ WritePayload(w)
       \/ WriteFails(w)

FramesSpec == FramesInit /\ [][FramesNext]_frameVars

-----------------------------------------------------------------------------
Data(i) == arrived[i].opcode \notin Control

(***************************************************************************)
(* A message returned is made of the data frames that arrived from its     *)
(* first frame to its last, all of them and in their order, whatever pings *)
(* came in between: it starts with a text frame, continues with            *)
(* continuations, ends with the one that is final, every payload follows   *)
(* the one before it in the message, and the whole is no larger than the   *)
(* limit.  No frame is part of two messages.                               *)
(***************************************************************************)
MessageIsItsFrames ==
  \A k \in DOMAIN delivered :
    LET parts == delivered[k]
        first == parts[1].frame
        last  == parts[Len(parts)]
    IN  /\ {parts[i].frame : i \in DOMAIN parts} = {i \in first..last.frame : Data(i)}
        /\ \A i \in DOMAIN parts :
             LET f     == arrived[parts[i].frame]
                 start == IF i = 1 THEN 0 ELSE parts[i - 1].end
             IN  /\ i > 1 => parts[i - 1].frame < parts[i].frame
                 /\ f.opcode = IF i = 1 THEN "text" ELSE "continuation"
                 /\ f.fin = (i = Len(parts))
                 /\ parts[i].end = start + f.size
        /\ last.end <= MaxMessage
        /\ k > 1 => delivered[k - 1][Len(delivered[k - 1])].frame < first

(***************************************************************************)
(* On the wire a header is followed by its own payload or by the failure   *)
(* of its writer: no two goroutines' frames are mixed.                     *)
(***************************************************************************)
FramesUnmixed ==
  \A i \in 1..(Len(wire) - 1) :
    wire[i][2] = "header" => /\ wire[i + 1][1] = wire[i][1]
                             /\ wire[i + 1][2] \in {"payload", "broken"}

(***************************************************************************)
(* The wire in both directions: messages are exactly their frames, frames  *)
(* are never mixed.                                                        *)
(***************************************************************************)
FramesSound == FramesTypeOK /\ MessageIsItsFrames /\ FramesUnmixed
=============================================================================
