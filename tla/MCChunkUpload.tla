---------------------------- MODULE MCChunkUpload ----------------------------
(* ChunkUpload with two bundles: of two uploads and of one of them, for what a     *)
(* bundle does as a whole; and twice of the same upload, that has several parts.   *)
EXTENDS ChunkUpload, TLC

CONSTANTS u1, u2, r1, r2

MCBundles == (r1 :> {<<u1, u2>>, <<u1, u1>>}) @@ (r2 :> {<<u2>>})
MCRetries == (r1 :> {<<u1>>}) @@ (r2 :> {<<u1>>})
=============================================================================
