------------------------------ MODULE Framing ------------------------------
(***************************************************************************)
(* Enveloped frames of a server-stream (protocol.go): a 5-byte header      *)
(* (flags, big-endian length) and a payload.                               *)
(*                                                                         *)
(* A message payload is the record                                         *)
(*   [id, size, zsize, gz]                                                 *)
(* id names the message, size and zsize are its length before and after    *)
(* compression, gz counts the gzip layers wrapped around it.  The payload  *)
(* of an END frame is the JSON record of module Codes.                     *)
(***************************************************************************)
EXTENDS Codes

CONSTANTS MaxMessageBytes,    \* DefaultMaxMessageBytes, 4 MiB in the code
          CompressMinBytes,   \* 1 KiB in the code
          EndSize             \* length of the JSON of an END frame

ASSUME SizesAssumption ==
  /\ MaxMessageBytes \in Nat /\ CompressMinBytes \in Nat
  /\ EndSize \in 1..MaxMessageBytes

HeaderBytes == 5

\* gzip as the code uses it: compressing adds a layer, decompressing takes one
\* off and fails on data that is not gzip.
GzipCompress(p) == [p EXCEPT !.gz = @ + 1]
GzipDecompress(p) == [p EXCEPT !.gz = @ - 1]
IsGzip(p) == p.gz > 0

\* A frame is [flags, payload]; the flags are the bits of the first byte.
EndStream(f) == "endStream" \in f.flags
Compressed(f) == "compressed" \in f.flags

Len5(f) == IF EndStream(f) THEN EndSize   \* the length field of a frame header
           ELSE IF f.payload.gz = 0 THEN f.payload.size ELSE f.payload.zsize

Frame(p, endStream) ==
  [flags |-> IF endStream THEN {"endStream"} ELSE {}, payload |-> p]

FrameCompressed(p) ==
  [Frame(GzipCompress(p), FALSE) EXCEPT !.flags = @ \cup {"compressed"}]

-----------------------------------------------------------------------------
(* io.ReadFull asked for want bytes of a reader that has have bytes left.  *)
ReadFull(have, want) ==
  IF have >= want THEN "ok" ELSE IF have <= 0 THEN "EOF" ELSE "unexpected EOF"

\* Mutation: Read instead of io.ReadFull for the payload, so that a short one passes.
readFrameFlagsShort(f, have) ==
  IF have < HeaderBytes THEN ReadFull(have, HeaderBytes)
  ELSE IF Len5(f) > MaxMessageBytes THEN "too large" ELSE "ok"

\* Mutation: the cap counts the frame header, as the cap on a request does.
readFrameFlagsHeaderCounted(f, have) ==
  IF have < HeaderBytes THEN ReadFull(have, HeaderBytes)
  ELSE IF HeaderBytes + Len5(f) > MaxMessageBytes THEN "too large"
  ELSE ReadFull(have - HeaderBytes, Len5(f))

\* readFrameFlags (and ReadFrame) on a reader that starts with the first `have`
\* bytes of frame f and then ends.
readFrameFlags(f, have) ==
  IF have < HeaderBytes THEN ReadFull(have, HeaderBytes)
  ELSE IF Len5(f) > MaxMessageBytes THEN "too large"
  ELSE ReadFull(have - HeaderBytes, Len5(f))

FrameBytes(f) == HeaderBytes + Len5(f)

\* What the reader holds of the payload: a cut message is a shorter one, a cut
\* END is no JSON any more.
arrived(f, have) ==
  IF have >= FrameBytes(f) THEN f.payload
  ELSE IF EndStream(f) THEN [f.payload EXCEPT !.form = "garbage"]
  ELSE [f.payload EXCEPT !.size = have - HeaderBytes]

ReadFrameDecompressed(f, have) ==
  LET err == readFrameFlags(f, have)
      p   == arrived(f, have)
  IN  IF err # "ok" THEN [err |-> err]
      ELSE IF ~Compressed(f) THEN [err |-> "ok", payload |-> p, end |-> EndStream(f)]
      ELSE IF ~IsGzip(p) THEN [err |-> "corrupt gzip"]
      ELSE [err |-> "ok", payload |-> GzipDecompress(p), end |-> EndStream(f)]
=============================================================================
