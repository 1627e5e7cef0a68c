------------------------- MODULE PaginatorProofs -------------------------
(* Proofs about the page loop, for every range and every page size.        *)
EXTENDS Paginator, PageLemmas

(* Type correctness and the strengthening that ties the precomputed page   *)
(* count to the running offset of the loop.                                *)
LEMMA InitIInv == Init => IInv
BY PaginatorAssumption DEF Init, IInv, TypeOK, CountMatchesRest, PagesSoFar, DoneAtEnd

LEMMA NextIInv == IInv /\ [Next]_vars => IInv'
<1> SUFFICES ASSUME IInv, [Next]_vars
             PROVE  IInv'
  OBVIOUS
<1> USE DEF IInv
<1>1. CASE RejectPageSize
  BY <1>1 DEF RejectPageSize, TypeOK, CountMatchesRest, PagesSoFar, DoneAtEnd
<1>2. CASE ResizePages
  <2>1. pages_cnt' = PageCount(range_size, page_sz) /\ pages_cnt' \in Nat
    BY <1>2, PageCountZero DEF ResizePages, TypeOK
  <2>2. Len(pages) = 0 /\ range_size - offset = range_size
    BY <1>2 DEF ResizePages, TypeOK
  <2> QED
    BY <1>2, <2>1, <2>2
    DEF ResizePages, TypeOK, CountMatchesRest, PagesSoFar, DoneAtEnd, PageCount
<1>3. CASE FillPage
  <2> DEFINE rest == range_size - offset
             new  == [first |-> start_it, last |-> start_it + PageLength,
                      size |-> PageLength]
  <2>1. /\ page_sz \in Nat \ {0} /\ rest \in Nat
        /\ pages_cnt = Len(pages) + PageCount(rest, page_sz)
    BY <1>3 DEF FillPage, TypeOK, CountMatchesRest
  <2>2. rest # 0
    BY <1>3, <2>1, PageCountZero DEF FillPage, TypeOK
  <2>3. /\ PageLength \in 1..rest
        /\ PageLength <= page_sz
        /\ PageCount(rest - PageLength, page_sz) = PageCount(rest, page_sz) - 1
    <3>1. Least(rest, page_sz) \in 1..rest
      BY <2>1, <2>2, PageCountStep
    <3>2. PageCount(rest - Least(rest, page_sz), page_sz) = PageCount(rest, page_sz) - 1
      BY <2>1, <2>2, PageCountStep
    <3>3. PageLength = Least(rest, page_sz)
      BY DEF PageLength
    <3>4. Least(rest, page_sz) <= page_sz
      BY <2>1 DEF Least
    <3> QED
      BY <3>1, <3>2, <3>3, <3>4
  <2>4. /\ new \in Page
        /\ pages' \in Seq(Page)
        /\ Len(pages') = Len(pages) + 1
        /\ pages'[Len(pages) + 1] = new
        /\ \A i \in 1..Len(pages) : pages'[i] = pages[i]
    BY <1>3, <2>1, <2>3 DEF FillPage, TypeOK, Page
  <2>5. /\ offset' = offset + PageLength
        /\ start_it' = start_it + PageLength
        /\ UNCHANGED <<range_size, page_sz, pages_cnt, pc>>
        /\ pc = "fill"
    BY <1>3 DEF FillPage
  <2>6. TypeOK'
    BY <2>3, <2>4, <2>5 DEF TypeOK
  <2>7. CountMatchesRest'
    <3>1. (range_size - offset)' = rest - PageLength
      BY <2>1, <2>3, <2>5 DEF TypeOK
    <3>2. PageCount(rest, page_sz) \in Nat
      BY <2>1, PageCountZero
    <3>3. PageCount((range_size - offset)', page_sz) = PageCount(rest, page_sz) - 1
      BY <2>3, <3>1
    <3>4. pages_cnt = Len(pages') + PageCount((range_size - offset)', page_sz)
      BY <2>1, <2>4, <3>2, <3>3 DEF TypeOK
    <3>5. PageCount(range_size - offset, page_sz)' = PageCount((range_size - offset)', page_sz)
      BY <2>5 DEF PageCount
    <3> QED
      BY <2>1, <2>5, <3>4, <3>5 DEF CountMatchesRest
  <2>8. PagesSoFar'
    <3>1. start_it = offset
      BY DEF PagesSoFar
    <3>2. new.first = IF Len(pages) = 0 THEN 0 ELSE pages[Len(pages)].last
      BY <3>1 DEF PagesSoFar, TypeOK
    <3>3. pages' # <<>> /\ pages'[Len(pages')].last = offset'
      BY <2>4, <2>5, <3>1 DEF TypeOK
    <3>4. ASSUME NEW i \in 1..Len(pages')
          PROVE  /\ pages'[i].first < pages'[i].last
                 /\ pages'[i].size = pages'[i].last - pages'[i].first
                 /\ pages'[i].size <= page_sz
                 /\ pages'[i].first = IF i = 1 THEN 0 ELSE pages'[i - 1].last
      <4>1. CASE i = Len(pages) + 1
        <5>1. PageLength \in Nat \ {0} /\ start_it \in Nat
          BY <2>1, <2>3 DEF TypeOK
        <5>2. pages'[i] = new
          BY <4>1, <2>4
        <5>3. /\ pages'[i].first < pages'[i].last
              /\ pages'[i].size = pages'[i].last - pages'[i].first
              /\ pages'[i].size <= page_sz
          BY <5>1, <5>2, <2>3
        <5>4. Len(pages) \in Nat
          BY DEF TypeOK
        <5>5. CASE i = 1
          BY <4>1, <3>2, <5>2, <5>3, <5>4, <5>5
        <5>6. CASE i # 1
          <6>1. i - 1 = Len(pages) /\ Len(pages) \in 1..Len(pages) /\ Len(pages) # 0
            BY <4>1, <5>4, <5>6
          <6>2. pages'[i - 1].last = pages[Len(pages)].last
            BY <2>4, <6>1
          <6> QED
            BY <3>2, <5>2, <5>3, <5>6, <6>1, <6>2
        <5> QED
          BY <5>5, <5>6
      <4>2. CASE i \in 1..Len(pages)
        <5>1. pages'[i] = pages[i] /\ (i # 1 => pages'[i - 1] = pages[i - 1])
          BY <4>2, <2>4 DEF TypeOK
        <5> QED
          BY <4>2, <5>1 DEF PagesSoFar
      <4> QED
        BY <4>1, <4>2, <2>4 DEF TypeOK
    <3> QED
      BY <2>5, <3>1, <3>3, <3>4 DEF PagesSoFar
  <2>9. (offset <= range_size)'
    BY <2>1, <2>3, <2>5 DEF TypeOK
  <2> QED
    BY <2>5, <2>6, <2>7, <2>8, <2>9 DEF DoneAtEnd
<1>4. CASE Finish
  <2>1. PageCount(range_size - offset, page_sz) = 0
    <3>1. /\ page_sz \in Nat \ {0} /\ range_size - offset \in Nat
          /\ pages_cnt = Len(pages) + PageCount(range_size - offset, page_sz)
      BY <1>4 DEF Finish, TypeOK, CountMatchesRest
    <3>2. PageCount(range_size - offset, page_sz) \in Nat
      BY <3>1, PageCountZero
    <3>3. pages_cnt \in Nat /\ Len(pages) \in Nat /\ ~(Len(pages) < pages_cnt)
      BY <1>4 DEF Finish, TypeOK
    <3> QED
      BY <3>1, <3>2, <3>3
  <2>2. offset = range_size
    BY <1>4, <2>1, PageCountZero DEF Finish, TypeOK, CountMatchesRest
  <2> QED
    BY <1>4, <2>2 DEF Finish, TypeOK, CountMatchesRest, PagesSoFar, DoneAtEnd
<1>5. CASE UNCHANGED vars
  BY <1>5 DEF vars, TypeOK, CountMatchesRest, PagesSoFar, DoneAtEnd, PageCount
<1> QED
  BY <1>1, <1>2, <1>3, <1>4, <1>5 DEF Next

LEMMA IInvImplies == IInv => SomethingLeft /\ PagesTileRange
<1> SUFFICES ASSUME IInv PROVE SomethingLeft /\ PagesTileRange
  OBVIOUS
<1> USE DEF IInv
<1>1. SomethingLeft
  BY PageCountZero DEF SomethingLeft, TypeOK, CountMatchesRest
<1>2. PagesTileRange
  <2> SUFFICES ASSUME pc = "done"
               PROVE  /\ offset = range_size
                      /\ \A i \in 1..Len(pages) :
                            i = Len(pages) => pages[i].last = range_size
    BY DEF PagesTileRange, PagesSoFar
  <2> QED
    BY DEF DoneAtEnd, PagesSoFar, TypeOK
<1> QED
  BY <1>1, <1>2

(* The pages of every frame are non-empty and tile its payload exactly,    *)
(* whatever its size and the page size: Paginator's constructor hands      *)
(* make_packets what it needs.                                             *)
THEOREM PaginatorCorrect == Spec => [](TypeOK /\ SomethingLeft /\ PagesTileRange)
<1>1. IInv => TypeOK
  BY DEF IInv
<1> QED
  BY InitIInv, NextIInv, IInvImplies, <1>1, PTL DEF Spec

(* The loop neither leaves its range nor miscounts (Paginator).            *)
THEOREM PaginatorTypeCorrect == Spec => []TypeOK
BY PaginatorCorrect, PTL

(* And each page it makes is a non-empty one, so make_packets finds a      *)
(* payload for every header.                                               *)
THEOREM PagesLeft == Spec => []SomethingLeft
BY PaginatorCorrect, PTL
===========================================================================
