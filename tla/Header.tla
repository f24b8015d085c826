------------------------------- MODULE Header -------------------------------
(***************************************************************************)
(* Block headers and addresses of generational/snapshot/GC_Gen_Impl.c.  A  *)
(* header packs the size in words, two colour bits and eight tag bits into *)
(* one 64-bit word; sizes of a real heap leave the top bits unused, so the *)
(* shifts do not overflow.  Addresses are byte addresses, words are eight  *)
(* bytes.                                                                  *)
(***************************************************************************)
EXTENDS Naturals

White == 0
Gray  == 1
Blue  == 2
Black == 3

infix_tag   == 249
no_scan_tag == 251

WordBytes == 8

makeHeader(wz, c, t) == wz * 1024 + c * 256 + t
getWosize(hdr) == hdr \div 1024
getColor(hdr)  == (hdr \div 256) % 4
getTag(hdr)    == hdr % 256

f_address(h_addr)  == h_addr + WordBytes
hd_address(f_addr) == f_addr - WordBytes
=============================================================================
