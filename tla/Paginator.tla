---------------------------- MODULE Paginator ----------------------------
(***************************************************************************)
(* The constructor of streamer::Paginator (paginator.h), which cuts the    *)
(* payload of a frame into the pages that become datagrams.  The loop      *)
(*                                                                         *)
(*     length = min(range_size - offset, page_sz);                         *)
(*     page   = {{start_it, start_it + length}, length};                   *)
(*     offset += length;  start_it = end_it;                               *)
(*                                                                         *)
(* runs over a vector of pages whose size was fixed before it from         *)
(* range_size / page_sz.  Nothing in the code ties the two together: that  *)
(* the precomputed count and the running offset agree is what has to hold  *)
(* for the transport protocol, which refuses an empty page.                *)
(*                                                                         *)
(* Iterators are positions 0..range_size in the payload.                   *)
(***************************************************************************)
EXTENDS Pages, Sequences

CONSTANTS
    RangeSizes,  \* the sizes of the range handed to the constructor
    PageSizes    \* the page sizes handed to the constructor

ASSUME PaginatorAssumption ==
    /\ RangeSizes \subseteq Nat
    /\ PageSizes \subseteq Nat

VARIABLES
    range_size,  \* _range.get_size()
    page_sz,     \* _page_sz
    pages_cnt,   \* _pages.size() once it is resized
    pages,       \* the pages filled so far: [first, last, size], last excluded
    offset,      \* local of the loop
    start_it,    \* local of the loop
    pc           \* "ctor" | "fill" | "done" | "thrown"

vars == <<range_size, page_sz, pages_cnt, pages, offset, start_it, pc>>

Init ==
    /\ range_size \in RangeSizes
    /\ page_sz \in PageSizes
    /\ pages_cnt = 0
    /\ pages = <<>>
    /\ offset = 0
    /\ start_it = 0
    /\ pc = "ctor"

(* throw runtime_error("Zero page size") *)
RejectPageSize ==
    /\ pc = "ctor"
    /\ page_sz = 0
    /\ pc' = "thrown"
    /\ UNCHANGED <<range_size, page_sz, pages_cnt, pages, offset, start_it>>

ResizePages ==
    /\ pc = "ctor"
    /\ page_sz # 0
    /\ pages_cnt' = PageCount(range_size, page_sz)
    /\ pc' = "fill"
    /\ UNCHANGED <<range_size, page_sz, pages, offset, start_it>>

(* A loop body with the difference the wrong way round. *)
PageLengthBackwards == Least(offset - range_size, page_sz)

(* A loop body that forgets to clip the last page. *)
PageLengthUnclipped == page_sz

PageLength == Least(range_size - offset, page_sz)

FillPage ==
    /\ pc = "fill"
    /\ Len(pages) < pages_cnt
    /\ pages' = Append(pages, [first |-> start_it,
                               last  |-> start_it + PageLength,
                               size  |-> PageLength])
    /\ offset' = offset + PageLength
    /\ start_it' = start_it + PageLength
    /\ UNCHANGED <<range_size, page_sz, pages_cnt, pc>>

Finish ==
    /\ pc = "fill"
    /\ Len(pages) = pages_cnt
    /\ pc' = "done"
    /\ UNCHANGED <<range_size, page_sz, pages_cnt, pages, offset, start_it>>

Next == RejectPageSize \/ ResizePages \/ FillPage \/ Finish

Spec == Init /\ [][Next]_vars
---------------------------------------------------------------------------
Page == [first : Nat, last : Nat, size : Nat]

(* Every variable keeps the type its declaration in paginator.h gives it.  *)
TypeOK ==
    /\ range_size \in Nat
    /\ page_sz \in Nat
    /\ pages_cnt \in Nat
    /\ pages \in Seq(Page)
    /\ offset \in Nat
    /\ start_it \in Nat
    /\ pc \in {"ctor", "fill", "done", "thrown"}

(* `range_size - offset` is a subtraction of size_t: the loop never runs   *)
(* past the end of the range, and while a page is missing something is     *)
(* left to put in it, so no page is empty.  make_packets throws "Error in  *)
(* transmitter buffer" on an empty page.                                   *)
SomethingLeft ==
    /\ offset <= range_size
    /\ pc = "fill" /\ Len(pages) < pages_cnt => offset < range_size

(* A finished Paginator covers the range exactly: the pages follow one     *)
(* another without gap or overlap from the first byte to the last, and     *)
(* none is longer than a datagram may be.                                  *)
PagesTileRange ==
    pc = "done" =>
        /\ offset = range_size
        /\ \A i \in 1..Len(pages) :
              /\ pages[i].first < pages[i].last
              /\ pages[i].size = pages[i].last - pages[i].first
              /\ pages[i].size <= page_sz
              /\ pages[i].first = IF i = 1 THEN 0 ELSE pages[i - 1].last
              /\ i = Len(pages) => pages[i].last = range_size

(* The inductive invariant.  While the loop runs, the pages still to fill  *)
(* are as many as the unread rest of the range needs.                      *)
CountMatchesRest ==
    pc = "fill" =>
        /\ page_sz # 0
        /\ pages_cnt = Len(pages) + PageCount(range_size - offset, page_sz)

PagesSoFar ==
    /\ start_it = offset
    /\ pages = <<>> => offset = 0
    /\ pages # <<>> => pages[Len(pages)].last = offset
    /\ \A i \in 1..Len(pages) :
          /\ pages[i].first < pages[i].last
          /\ pages[i].size = pages[i].last - pages[i].first
          /\ pages[i].size <= page_sz
          /\ pages[i].first = IF i = 1 THEN 0 ELSE pages[i - 1].last

DoneAtEnd == pc = "done" => offset = range_size

IInv ==
    /\ TypeOK
    /\ offset <= range_size
    /\ pc = "ctor" => pages = <<>> /\ offset = 0
    /\ CountMatchesRest
    /\ PagesSoFar
    /\ DoneAtEnd
===========================================================================
