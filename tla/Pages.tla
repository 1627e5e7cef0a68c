------------------------------ MODULE Pages ------------------------------
(***************************************************************************)
(* The arithmetic of pages (paginator.h), shared by the model of           *)
(* Paginator's constructor and by the transport protocol that uses it.     *)
(***************************************************************************)
EXTENDS Integers

Least(a, b) == IF a <= b THEN a ELSE b

(* A count that forgets the short last page. *)
PageCountFloor(n, p) == n \div p

(* pages_cnt = range_size / page_sz, one more when page_sz does not divide *)
(* range_size.                                                             *)
PageCount(n, p) == IF n % p # 0 THEN n \div p + 1 ELSE n \div p
===========================================================================
