----------------------------- MODULE MCFakeDns -----------------------------
(* FakeDns for TLC: three spellings of two names.                          *)
EXTENDS FakeDns

MCNames == {"a.com", "A.com", "b.com"}

MCLower == [n \in MCNames |-> IF n = "b.com" THEN "b.com" ELSE "a.com"]
=============================================================================
