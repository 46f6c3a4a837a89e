--------------------------- MODULE MCUploadTasks ---------------------------
(***************************************************************************)
(* UploadTasks on a small instance. Two uploads and a channel of one slot  *)
(* are enough to fill the channel, to let two workers run at once, and to  *)
(* give two uploads of one second the same file name. What becomes of the  *)
(* text of an upload, Chunking, is evaluated on every text of up to four   *)
(* characters, and on longer ones without new lines.                       *)
(***************************************************************************)
EXTENDS UploadTasks, Chunking

\* Each character with its place.
DocumentsValue ==
    {[i \in DOMAIN chars |-> <<chars[i], i>>] :
        chars \in UNION {[1..n -> Letters \cup {".", " ", "/"}] : n \in 0..4}
                  \cup UNION {[1..n -> {"a", ".", " "}] : n \in 5..6}}

\* It is of constants: where a behaviour begins is enough. ChunkText loses nothing of a document,
\* keeps its order, the size of its chunks and their overlap, whatever these are asked to be.
ChunksKeepText ==
    Init => \A text \in Documents, size \in Sizes, overlap \in Overlaps :
               ChunkedWhole(text, size, overlap)
=============================================================================
