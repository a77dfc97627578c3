------------------------------ MODULE MCElfCopy ------------------------------
(***************************************************************************)
(* Four-byte pages; segments that start at every offset of two pages, with *)
(* every memory size up to two pages and every file size up to it, so that *)
(* aligned and unaligned starts, an empty segment, a BSS tail and a        *)
(* segment spanning a page boundary all occur.                             *)
(***************************************************************************)
EXTENDS ElfCopy
=============================================================================
