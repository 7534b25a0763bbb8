--------------------------- MODULE MCFrameReader ---------------------------
(* Values for the constants of FrameReader. *)
EXTENDS FrameReader

\* Empty, one byte, gzip, and eight bytes (above the cap) that begin with a frame.
Oversized == << 0, 0, 0, 0, 1, 2, 0, 0 >>
MCPayloads == { << >>, << 1 >>, << 3, 1 >>, Oversized }
MCCodes == 0..1

\* Every combination of flags in front of small payloads (the longest one fills the cap
\* only without its header), and an oversized length.
Frames == { << f >> \o PutUint32(Len(p)) \o p : f \in 0..3, p \in {<< >>, << 1 >>, << 3, 1 >>, << 3, 1, 2 >>} }
          \cup { << 0 >> \o PutUint32(Len(Oversized)) }

\* One or two frames, cut anywhere.
MCBodies == UNION { { SubSeq(a \o b, 1, n) : n \in 0..(Len(a) + Len(b)) } : a, b \in Frames }
=============================================================================
